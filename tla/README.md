# Windpeek: a verification project

Windpeek is the firmware of a battery-powered e-paper wind forecast (Seeed Studio
reTerminal E1001, E1002 and E1003), with a browser installer and a configurator
beside it. This directory holds TLA+ models of the firmware's control logic, the
TLC configurations that check them, and proofs that TLAPS checks. Paths below are
relative to the repository, `main/` stands for `src/firmware/main/`.

## 1. Inventory

| Component | State it keeps | Operations | Interacts with |
| --- | --- | --- | --- |
| Refresh schedule (`wind_schedule.c`) | per spot: last attempted and satisfied boundary, the retry and its boundary, the final retry; on LittleFS and in RAM | latest/next boundary, due, retry due, mark, schedule and consume a retry, store, load | the cycle, the sleep timer, the dashboard task |
| Refresh cycle (`wind_app_cycle.c`) | coverage marker, force-display override | refresh, prefetch, show cached, show prefetched, verify a setup | provider, forecast cache, panel cache, schedule, renderer, panel |
| Prefetch rounds, E1003 (`wind_app_prefetch.c`) | a private snapshot of one spot's runtime | fetch forecast, swell and tide of one spot, share one retry | cycle, application runtime |
| Application runtime (`wind_app.c`) | spot runtimes, selected spot, displayed view, overrides, three locks | refresh, navigate, toggle day, overview, prefetch, quick frames, preview and activate a configuration, setup and empty-battery screens | all of the above |
| Two-slot caches (`wind_cache.c`, `wind_swell_cache.c`, `wind_tide_cache.c`) | two files per path with a generation | store, load | cycle, prefetch, renderer |
| Power manager (`power_manager.c`) | work counter with the sleep-pending bit, auto-sleep timer, installer flag, empty-battery flag, requested sleep | begin and end work, enter sleep, sleep timer task | every task |
| Battery reserve (`windpeek_main.c`, `wind_battery_policy.h`) | latch in RAM, RTC memory and NVS | check before work, draw the last screen once | power manager, panel |
| Tasks (`windpeek_main.c`) | input queue, pending counters, request flags, quick-frame state | dashboard, input, actions, setup forecasts, quick frames, boot | runtime, power manager, OTA |
| Installer (`wind_installer_service.c`, `wind_installer_device.c`, `wind_usb_protocol.c`) | session, staged configuration and credentials, apply state | hello, scan, test Wi-Fi, stage, apply, confirm, abort, timeouts | configuration store, power manager, runtime |
| Installed configuration (`installed_configuration.c`) | generation-numbered records and the active pointer in NVS | stage, promote, load, roll back | installer, boot |
| OTA (`wind_ota.c`) | last check, image state | daily check, install, accept, roll back | Wi-Fi, power, boot |
| Hardware profile (`hardware_profile.c`) | stored model, failure latch, revision | boot, record a failure, choose a model | boot, installer |
| Browser installer (`web/src/installer`) | session state machine | connect, flash, reconnect, configure, apply | the firmware's installer over serial |
| Renderer, providers, drivers, time zones, configurator, workers | data, or hardware | pure functions, parsing, register access, user interface | leaves of the graph |

**What is hard here.** A reset can strike between any two writes, and the device
sleeps (loses its RAM) between refreshes as a matter of course. Storage operations
fail and are mostly best effort. FreeRTOS tasks share the runtime under two locks,
and the E1003 releases one of them during a fetch. Forecast and display failures
share one retry budget, over five modes of the same function. Sleep must exclude
work, and must not be forgotten. The hazards, each at its line and with the
properties that watch it, are in `PROJECT.json`.

**What makes each component correct.**

- *Schedule and cycle*: a due boundary is requested once, however often the device
  resets; it is never recorded as satisfied without a forecast that recent; failures
  use a bounded retry budget that a reset neither loses nor replenishes; a due boundary
  is attempted, or a later one that overtook it.
- *Panel confirmation*: a frame is only skipped when the panel shows it.
- *Two-slot caches*: a store is atomic under resets and failures, the newest slot is
  unambiguous, and a concurrent load returns what was stored at some instant of it.
- *Power manager*: no sleep while work runs, no work once sleep has begun, one task
  performs the transition, and an idle device on battery sleeps.
- *Battery reserve*: one last screen per discharge, whatever fails.
- *Quick frames*: one sweep at a time, and a request made during one is not lost.
- *Installer and configuration*: the stored setup changes as a whole or not at all, a
  failed apply leaves the old one stored, running and on the radio, and the wake lock is
  released on every path.
- *Browser installer*: it says that setup is complete only of the configuration the owner
  chose, it never disturbs an apply that an earlier tab started, and every wait ends.
- *OTA and hardware profile*: there is always a whole image to start with a proved one
  behind it, a release that was dropped is not tried again, a new image cannot latch a panel
  failure, and a device that leaves its panel alone serves no setup.
- *Application runtime and rounds*: what is reported as shown is on the glass, a round
  works with one setup from its first spot to its last, a download without the runtime lock
  loses nothing that happened meanwhile, and success means every spot.

## 2. Modules

| Module | Models | State against code |
| --- | --- | --- |
| `WindSchedule` | `main/wind_schedule.c` | the schedule record as a record of naturals (0 is unset); boundaries are any set with a latest and a next one at every instant, so the wall clock, daylight saving and time zones are instances |
| `RefreshCycle` | `main/wind_app_cycle.c` with its callers in `wind_app.c`, `wind_app_prefetch.c` and `windpeek_main.c` | see below |
| `MCRefreshCycle` | boundaries, the symmetry of models and a view for TLC | |
| `RefreshCycleProofs` | theorems of `RefreshCycle` | |
| `Register` | the abstract specification of a cache: one register that only takes newer records | |
| `SlotCache` | `main/wind_cache.c` (forecast); swell and tide use the same algorithm | two slots, the store between its file operations, the load between its two reads |
| `SlotCacheProofs` | theorems of `SlotCache` | |
| `WorkGate` | the abstract specification of the work counter: tasks join and leave, the gate closes on an empty room or is forced | |
| `PowerManager` | `main/power_manager.c`, `main/wind_battery_policy.h` and the tasks of `main/windpeek_main.c` that call them | see below |
| `PowerManagerProofs` | theorems of `PowerManager` | |
| `DeviceTasks` | what the E1003's tasks of `main/windpeek_main.c` hand to each other without a lock | see below |
| `DeviceTasksProofs` | theorems of `DeviceTasks` | |
| `SetupRecord` | the abstract specification of the stored setup: one record that an apply replaces as a whole | |
| `InstallerDevice` | `main/wind_installer_service.c`, `main/wind_installer_device.c`, promotion in `main/installed_configuration.c` | see below |
| `InstallerSession` | `web/src/installer/applyConfiguration.js` and `createInstallerSession.js`, composed with `InstallerDevice` | see below |
| `InstallerProofs` | theorems of `InstallerDevice` | |
| `SessionProofs` | theorems of `InstallerSession` | |
| `UpdateTrack` | the abstract specification of updates: one release at a time on top of the one that works | |
| `FirmwareBoot` | `main/wind_ota.c`, `main/hardware_profile.c`, the start-up of `main/windpeek_main.c` | see below |
| `FirmwareBootProofs` | theorems of `FirmwareBoot` | |
| `AppRuntime` | `main/wind_app.c` and `main/wind_app_prefetch.c` over several spots and setups, with the installer's preview and commit | see below |
| `MCAppRuntime` | the symmetry of setups and a view for TLC | |
| `AppRuntimeProofs` | theorems of `AppRuntime` | |

`InstallerSession` extends `InstallerDevice`: every request of the browser that arrives is
one of the device's commands. `AppRuntime` composes what two tasks and the apply
task do to the runtime; it keeps of `RefreshCycle` what another spot, setup or task can see.
`InstallerDevice` and `SetupRecord`, `FirmwareBoot` and `UpdateTrack`, `PowerManager` and
`WorkGate`, `SlotCache` and `Register` are pairs of a detailed and an abstract specification.

### RefreshCycle

| Variable | Code |
| --- | --- |
| `newer`, `older` | the two slots of the forecast cache by generation, each with the model of its identity and `retrieved_at` |
| `model` | the forecast model of the installed configuration |
| `disk`, `mem` | the stored schedule record and `app->schedule` |
| `confirmed` | the panel cache file, as the frame whose hash it holds |
| `panel` | the e-paper image: it survives everything |
| `ready` | `s_ready`, reset by `wind_app_activate_configuration` and the preview |
| `cov`, `force`, `forceNext` | the coverage marker, `app->force_display`, `s_force_next_display` |
| `pc`, `run` | where `run_internal` is, and its locals |
| `wakeAt` | the instant the dashboard task or the deep-sleep timer asked for |
| `tried`, `retries`, `stale` | observers: the last boundary requested, retries since the last ordinary start, a dropped override |

`run_internal` is cut where another effect can fail or a reset can strike: the
booking of the attempt (`Begin`, with the store that must succeed before a request),
the request and its stores (`FetchStored`, `FetchFailed`), the marine half of a
prefetch (`PrefetchTail`), erasing the confirmation (`Invalidate`), the waveform
(`Draw`, `DrawFailed`), and the confirmation (`Confirm`). Everything between two cuts is
one action, because `s_runtime_lock` is held and nothing persistent changes. A
frame is determined by the forecast, its freshness (fresh, aged, stale or unavailable)
and the offline mark.

A load only accepts slots of the model in force (`Cached`, `main/wind_cache.c:120-126`), and
a store replaces the older slot whatever its model (`StoreForecast`). The schedule record
is scoped by spot and timezone alone (`main/wind_app_cycle.c:53-55`), so a setup that is tried
with another model marks a boundary as satisfied in the record that the installed model
goes on with. `VerifySetup` therefore runs under any model, and `Reconfigure` installs any:
the slots and the record stay, and what a load sees changes.

The actions of the environment are the wake (`WakeRefresh`, `WakeRound`), the wake that
finds an installer session or a refused battery and waits for the next attempt
(`WakeRefused`, `main/windpeek_main.c:591-592`), the buttons
and touch (`Navigate`, `NavigateCached`, `RequestRound`), the setup sweep
(`BackgroundPrefetch`), the installer (`VerifySetup`, `Reconfigure`), the screens drawn
outside the cycle (`ClearConfirmation`, `DrawScreen`), time (`Tick`) and `Reset`,
which stands for a crash, a brownout and a deep sleep: all three lose the RAM.

Abstracted: swell and tide are one Boolean outcome of a prefetch; the day toggle and
the quick-frame display change what a frame shows in ways the confirmation treats
alike; cycles of one spot are serialised, as the runtime lock does; what the E1003's input task
does during a fetch is in `AppRuntime`.

### SlotCache

`Store` is the head of `wind_cache_store_with_records`, which reads both slots of
whatever identity and picks the inactive one; `Written`, `Unlinked` and `Renamed` are
the steps of `write_forecast_slot`; `StoreFailed` is each of its error returns;
`LoadFirst` and `LoadSecond` are the two reads of `wind_cache_load_with_records`, which
only accept the identity asked for. `Damage` is a slot that no longer validates.

### PowerManager

| Variable | Code |
| --- | --- |
| `work`, `pending` | `active_work` and its top bit `SLEEP_PENDING` |
| `pc`, `why` | where each task is, and which call of `enter_sleep` it is in |
| `idleTimer` | `next_sleep_time`: unset, running, or passed |
| `requested`, `armed` | `requested_sleep_seconds`, and the timer wake-up source |
| `empty`, `lock` | `battery_empty`, `s_battery_lock` |
| `latched`, `loaded`, `nvs` | `s_empty_latched` (RTC memory), `s_battery_state_loaded`, the `empty` key of NVS |
| `usb`, `installer` | external power and `installer_active` |
| `forced`, `screens`, `lost` | observers: who closed the gate, last screens attempted, a latch that was lost |

`battery_allows_work` is `TakeLock`, then `Allowed` or `Refused`, then `Latch` and
`Render` for the last screen, then a sleep, whose return (`Returned`) releases the lock
and, on external power, checks again. `power_manager_enter_sleep` is `Check` (its early
returns), `Commit` (the compare-and-swap, or the fetch-or of an empty battery), `Prepare`
and `PowerDown`: another task can move between any two of them, which is where its races
are. `sleep_timer_task` is `Poll`; it looks at the battery and at external power there,
and sleeps in later steps. `app_main` is `AwaitSetup`, `TooEarly` and `Booted`; the tasks
in `Workers` stand for the dashboard, input, action, setup-forecast and quick-frame tasks,
which all check the battery and then work between `work_begin` and `work_end`.
`Navigated` is the spot-button task of the E1001/E1002, which does not.

External power may come and go at any time, also while the device sleeps; `Crash`
stands for a brownout, a panic and a pressed reset, and loses the RTC memory too.
Left out: the Wi-Fi power saving, LEDs, light sleep and the held-button mask.

### DeviceTasks

| Variable | Code |
| --- | --- |
| `pc`, `sweep` | where each task is; where the sweep task is that a starter created |
| `queue`, `pending` | commands in `s_input_commands`, `s_pending_input_actions` |
| `request`, `note`, `requested` | `s_interactive_refresh_requested`, the dashboard task's notification, `dashboard_task`'s local |
| `quick` | `s_quick_frames_state`: idle, running, running with another sweep asked for |
| `setup`, `handle`, `setupNote`, `retry` | `s_setup_forecasts_pending`, `s_setup_forecasts_task` is stored, that task's notification, its `retry_delay` is finite |
| `installer` | `power_manager_is_installer_active` |
| `owed` | observer: a sweep was asked for and has not begun |
| `left` | what is left of the bound on events of the environment |

A step ends at each atomic operation or FreeRTOS call that another task can see. So
`start_quick_frames_task` is `Claim` and `Mark`, its two compare-and-swaps, and `Spawn` or
`SpawnFailed`; the end of `quick_frames_task` is `Finish` and `Again`, its own two. A
command is `Count`, `Send` or `Overflow`, then `Receive`, and whatever the action asks of
the dashboard task, `Ask` before `Tell`, then `Done`. `dashboard_task` is `Top`, its wait
(`Notified`, `Due`, `Woken`), its drain of input (`Drain`, `Settle`) and `Gate`, where a
session or the battery refuses it or the refresh runs. `Boot` is the end of `app_main`,
which creates the setup-forecast task while a configuration may be arriving.

Abstracted: a command is a count, since no property tells two of them apart; the battery's
refusals and the outcome of a refresh are free choices; it is one boot, because
nothing here survives one. Left out: sampling of gestures and buttons, the safe boot, and a
dashboard, input or action task that could not be created.

### InstallerDevice

| Variable | Code |
| --- | --- |
| `stored` | the ACTIVE record of `installed_configuration.c`: configuration and credentials |
| `running` | the configuration that `wind_app` and `wind_spots` were activated with |
| `net`, `trial`, `prev` | the station's settings, `candidate_wifi_active`, the previous credentials |
| `staged`, `creds`, `ack`, `lock` | the candidate, the credentials behind `wifi_ready`, `completion_ack_required`, `wake_lock_held` |
| `apply`, `result` | `apply_state`, and the final state the apply task is to publish |
| `at`, `job`, `faults` | where the apply task is, its copy of the candidate, the failures left in one apply |
| `cable` | USB power |
| `old`, `goal` | the setup the apply found and the one it is to store |

The UART task serves one command to its end before it reads the next, so every command is
one action (`Hello`, `Begin`, `Stage`, `TestWifi`, `RejectWifi`, `Apply`, `FinishSetup`,
`Cancel`), and so is what it does with a frame that is no JSON (`Unparsable`), with bytes
that are no frame (`FramingError`) and after two quiet minutes (`Idle`). `Command` is
its refusal of everything but hello and the two reads during an apply. The apply task
moves in between: `Render`, then the steps of `physical_commit` (`Activate`, `Persist`,
`Reload`), each of which may fail (`CommitFails`) and is taken back by `Undo` and
`Revert`, then `wind_installer_service_complete_apply` (`ReportFailure`,
`ReportSuccess`) and `Publish`. `Restart` may fall between any two steps.

### InstallerSession

`pc` is the request the browser waits for or the phase it shows; `answer` is what came back;
`given`, `checking`, `resume`, `resumed`, `attempt` and `recovered` are the variables of
those names in `applyConfiguration.js` and `createInstallerSession.js` (`given` the submitted
credentials). A request is one step (`Exchange`, or `AnswerLost`, `RequestLost`,
`RequestDamaged`, `Unacknowledged` for what can befall its frame or its answer) and what the
browser makes of the answer is another, so that the apply task can run between the two. The
owner connects, submits a network, retries, and closes the tab at any moment (`Leave`).

### FirmwareBoot

| Variable | Code |
| --- | --- |
| `image`, `state`, `sel` | the two OTA slots, their image states, the slot the bootloader will start |
| `sequence`, `lastCheck` | the two keys of the `wind_ota` namespace |
| `profile`, `seen` | the ACTIVE hardware record, and `s_boot_state` |
| `pc`, `run` | where the main task is, and the slot it runs from |
| `seq`, `offer` | `wind_ota_maybe_update`'s locals |
| `installer`, `now` | `power_manager_is_installer_active`, the system clock |
| `failed`, `asked`, `refused`, `lost` | observers: dropped releases, the last check, a rollback that returned, a latch that was not written |

`Start` is the rollback bootloader (external). `ProfileBoot`, `Board`, `FirstRefresh`,
`RollBack` or `KeepRunning`, `Latch` and `Confirm` are `app_main` up to
`wind_ota_finish_boot`; `StoreCheck` to `SelectSlot` are the update, cut at each write
and download. `Reset` stands for `esp_restart`, a crash, a flat battery and deep sleep, and may
fall anywhere; `SetClock` moves the clock either way; `Fault` is a flash write that fails,
with or without having reached the flash.

### AppRuntime

| Variable | Code |
| --- | --- |
| `stored`, `selection`, `file`, `disk`, `record` | the ACTIVE record, the stored selection, the forecast caches, the schedule files, the panel record |
| `panel` | the glass |
| `spots` | the configuration `wind_spots` holds |
| `ready`, `current`, `selected`, `booked`, `forced` | `s_ready`, `s_installed_configuration`, `s_selected_index`, the retry of each spot's schedule, `app.force_display` of each spot |
| `forceNext`, `last`, `status` | `s_force_next_display`, `s_last_render_succeeded`, `wind_app_status` |
| `at`, `round` | where the round or sweep is, and its locals and snapshot |
| `inst`, `cand` | where the session and the apply are, with the new and the previous configuration and the spot the new one was proved with |
| `owed`, `fetched` | observers: retries booked since a capture, spots downloaded in the round |
| `proved` | observer: the spot whose forecast an installation downloaded, and whether its apply was entered after the activation |
| `late` | observer: at which stages of the apply (`previewed`, `activated`) other work came in |

Actions are atomic where `s_runtime_lock` is held. A round holds the fetch lock from its
first step to its last and lets go of the runtime lock to download, so it is `RoundBegin`,
then for each spot `Capture`, `Download` and `Merge`, then `ShowRound` or, for a sweep,
`EndSweep`. `Navigate` is the input task, with a prepared frame that is shown, fails
halfway or is missing. `Preview`, `Activate`, `Promote`, `Reload`, `Undo` and
`FailedScreen` are `wind_app_preview_configuration` and `physical_commit`. Each entry sets the
runtime up if it is not ready (`ensure_ready`), from whatever the record then holds.

Work looks for an installer long before it enters the runtime: the input task when it queues
a press (`main/windpeek_main.c:362`, and not again in `navigate_spot_button`, `:304-317`), the
dashboard task before it connects and waits for the fetch lock (`:591`). So every entry may
come at any stage of an apply, and nothing in the model keeps it out but the locks. A round
looks again before each spot (`MayCapture`). `late` remembers the two stages that matter:
a press between preview and activation puts its own screen where the candidate's was, and
any entry between activation and promotion sets the runtime up from the old record.

Abstracted: setups share their spots and differ in forecast models; a schedule is
whether a retry is booked (`RefreshCycle` has its details); a torn screen and a screen
without a forecast are one `NoFrame`, and a frame is drawn or skipped by whether the panel
record equals it. Left out: the overview and the day focus, rendering prepared frames, a
failing `ensure_ready`, a selection that cannot be stored, and a panel record that
`show_quick_spot` cannot clear (`stale_confirmation` below has that failure).

## 3. Runs

| Run | Question | Bounds |
| --- | --- | --- |
| `refresh_e100x` | record, cache, retry budget and panel confirmation on the E1001/E1002 | 2 models (symmetric), 5 ticks over 2 boundaries and a midnight, with a third boundary ahead, 1 reset, 1 other screen, 1 user start |
| `refresh_e1003` | rounds, sweeps and cached navigation: is the confirmation sound, is a failed draw retried | 2 models (symmetric), 3 ticks and a midnight, 1 reset, 1 user start, 1 refused wake, no other screen after the first (`refresh_e100x` has those) |
| `refresh_live` | is a due boundary attempted, or one that overtook it | a fair run, 1 model, boundaries at 1, 2, 4 and 5 of 5 ticks, 1 reset, 1 refused wake, no user start |
| `slot_cache` | register refinement, unambiguous newest slot, regular loads | 2 identities, 5 stores, generation limit 4, 1 damaged slot, 1 replacement during a load |
| `power_e1003` | gate, owner and last screen with a scheduled and an interactive task; does an idle frame keep going back to sleep | a fair run, 2 workers, no crash |
| `power_e100x` | one last screen with the spot-button task, where crashes lose the RTC memory | 1 worker, 2 crashes |
| `device_tasks` | one sweep, an exact pending count, no lost wake-up; is what was asked for served | a fair run, a queue of 1, 2 events (press, new configuration, session, failed creation) in all |
| `installer_device` | does an apply change the stored setup as a whole, can it be taken back, do the runtime and the radio follow | 2 configurations, 2 networks, 1 failing step per apply, any client |
| `installer_session` | is what the browser claims true, does every wait end, is the device let go | a fair run, 2 configurations, 2 networks, 1 lost or damaged frame or cable move, 2 starts by the owner, 1 crash, 1 failing step |
| `firmware_boot` | is there always an image to start, is a dropped release tried again, who latches a failure, how often is the site asked | 4 releases, a clock of 4 instants with a day of 2, 2 failing writes |
| `app_runtime` | are frame, forecast, retry and round what they are reported to be, across locks, setups and resets | 2 spots, 2 setups (symmetric), entries at any stage of an apply |

The bounds are enough because the code has no memory beyond one boundary and one
retry pair: two boundaries in a row, a retry that fits and one that a boundary
overtakes, a reset between them, and one foreign start between two wakes are the
ways its record can meet itself. `MCSparse` leaves room for a long series of retries.
Two models, interchangeable, are an installed one and one that is tried or chosen instead.
Both runs compare states by `MCLive`, which leaves out what is not read again: the schedule,
marker and override in memory of a runtime that is to be initialised anew, a next wake that has
passed or that the run at work will set again, the panel while nothing is confirmed or about
to be, and an older slot of the newer one's model, which is not seen and is replaced next.
`refresh_live` asks of a boundary that two later ones follow in the modelled time whether it,
or a later one, is attempted: one wake may be refused and one boundary may pass during a
refresh, and a device that never woke again would miss them all. A start by a user can put
the next wake off by one more boundary; the run leaves users out to stay small.
In `PowerManager` every race is between one task and one other that sleeps or works:
the boot, the sleep timer and one or two workers make each pair, and the proofs cover
more workers and crashes. In `DeviceTasks` two events are a press that overflows the queue of
one, a press during a configuration, or a session that begins in either; the boot and
the dashboard start sweeps besides, so the starts meet each other and the end of
a sweep, and the proofs cover any queue and any number of events. In `SlotCache` two identities on one path are all that a slot pair can hold.
`InstallerDevice` compares one setup with another, so two configurations and two networks
name every relation of stored, tested and staged ones; a second fault in one apply would
meet the rollback itself, which the code does not recover from, and `MaxFaults` says so.
One lost frame, one crash and two starts by the owner let a second tab meet the apply of the
first; the proofs of the session cover any number of starts, losses and crashes.
`FirmwareBoot` needs a release that works, one that is dropped, one that is tried instead
and one above it. In `AppRuntime` one spot is being downloaded while the other is selected or
navigated to; the proofs cover any number of spots and setups. The run compares states by
`Live`, which leaves out what no action reads again and no property asks about: of a runtime that
is not set up it keeps what `ensure_ready` will make of it (`ShowRound` and `EndSweep` read the
runtime as it is, and find it set up: `Underway` in `AppRuntimeProofs`); of a glass whose frame is
neither on record nor claimed to be shown, nothing; and it drops the status and the downloads of a
sweep, the candidate of an apply that failed, and a proof that promises nothing. That leaves
0.7 million states.

One listed run finds a disagreement (`expect: violation`; details in `PROJECT.json`):

- `mixed_setup`: work that found no installer, and enters the runtime between an apply's
  activation and its promotion, sets it up from the old record; after the promotion the
  runtime has the new spots and the old forecast models. `InForceUnlessLate`, which is proved,
  says that this is the only way there; `app_runtime` and the theorems admit the case and say
  what it costs.

More configurations lie beside the runs. Each checks one property that does not hold, and
shows how:

- `RetryBudgetE1003.cfg` (`MCRefreshCycle`): on the E1003 a panel that keeps failing is
  retried without end, 30 seconds after every round, because a prefetch consumes the final
  retry and the display step of the same round books a new pair.
- `StaleConfirmation.cfg` (`MCRefreshCycle`): a panel confirmation that could not be erased
  is trusted after a reset, and leaves another screen on the panel.
- `SleptBoundary.cfg` (`MCRefreshCycle`): a boundary that passes during a refresh is not
  attempted until the next one. `DueIsAttempted` is content with the next one.
- `ModelSwitch.cfg` (`MCRefreshCycle`): a setup that is tried with another model satisfies the
  boundary in the schedule both models share. When the device stays with, or goes back to, the
  model whose older forecast is still in the other slot, it shows that forecast, and waits for
  the next boundary.
- `LostDisplayRetry.cfg` (`MCRefreshCycle`): on the E1001/E1002 a wake that had nothing to
  fetch books no retry for a failed panel write.
- `FinalScreen.cfg` (`PowerManager`): the sleep timer can power the device down while another
  task draws the last screen of an empty battery.
- `ButtonWork.cfg` (`PowerManager`): a spot button starts navigating after the sleep
  transition has claimed the device.
- `SleepAfterSession.cfg` (`PowerManager`): an E1001/E1002 stays awake on battery for ever
  after a scheduled wake whose only sleep call was refused because of external power or a
  session. The same happens, before the first setup, to a frame that was put to sleep by the
  sleep timer and is woken by the schedule; `FairOwner` leaves that way out by assuming that
  the owner completes the setup.
- `SleepAfterButton.cfg` (`PowerManager`): with one spot installed, an E1001/E1002 woken by
  a spot button never sleeps again.
- `StaleRequest.cfg` (`PowerManager`): the duration of an early re-sleep that was refused
  is used by the next sleep.
- `OwnForecast.cfg` (`SlotCache`): the slot a store unlinks may be the only one its spot has.
- `UnsavedClaim.cfg` (`InstallerSession`): the browser says that setup is complete while the
  device is on a tested network that is not the stored one.
- `StrayNetwork.cfg` (`InstallerSession`): a device that restarts between stage and test has a
  trial with nothing staged. `finish_setup` then clears the credentials and leaves
  `candidate_wifi_active` set (`main/wind_installer_service.c:594-600`), and the next apply, which
  brings no credentials, ends that trial without going back
  (`physical_clear_previous_wifi`, `main/wind_installer_device.c:207`): the station stays on a
  network that is not stored until the next restart. It needs four starts by the owner, more
  than the run has; the attempt to prove `NetStored` found it.
- `VanishedBrowser.cfg` (`InstallerSession`): after an apply that nobody had asked to be
  acknowledged, a lock taken by a later hello is kept for as long as the cable stays.
- `OtaRestart.cfg` (`FirmwareBoot`): the restart of an update ends an installer session that
  began after the last look at it.
- `LateScreen.cfg` (`MCAppRuntime`): a press queued before the session and drawn between a
  preview and its activation counts as the candidate's render: after the promotion the
  installer reads that the last render succeeded, and the glass shows the earlier setup.
- `RetryStored.cfg` (`MCAppRuntime`): the retry that a failed screen books during a download
  is overwritten on storage by the download's schedule, and lost if the device resets before
  the next store.

### Fairness

`FairSpec` of `RefreshCycle` assumes `WF_vars(Step)` and `WF_vars(Wake)`: a FreeRTOS task that
can run is scheduled and each of its calls (HTTP with a timeout, panel waits with a
timeout) returns, and a timer that has expired wakes its task. A tick stands for hours, so the
clock does not tick past a wake that is due (`WakeIsPrompt`): it is made, or refused, within the
tick. It may tick past work that is under way. The clock goes on
(`WF_vars(Tick /\ WakeIsPrompt)`). Refusals, resets and every start by a user are not fair.

`FairSpec` of `PowerManager` assumes that every task that can take its next step does, that
boundaries keep coming (`Start` of every worker that is not interactive), that a running sleep timer expires, and
that among the polls of the sleep timer, once a second, some find no work in progress and
are not overtaken by any (`AtRest`): work is scheduled for boundaries hours apart.
Presses, external power, sessions and the first setup are not fair. `SleepResumes` asks
nothing of a frame that is being used, has external power, or holds a session.

`FairSpec` of `DeviceTasks` assumes that a task that can run is scheduled and its calls
return, that a session ends, and that a starter between its two compare-and-swaps is not
overtaken by ends and starts of sweeps for ever (`SF_vars(Mark(t) /\ quick = 1)`): a sweep
takes seconds. Presses, installations and boundaries (`Due`) are not fair, so
`NoticesServed` cannot lean on the next boundary.

`InstallerSession` assumes that a request is answered or times out and that the browser
takes the answer (`WF`), that the apply task runs (`WF_vars(ApplyStep ...)`), that the
deadline of a poll ends it even if the device says "applying" each time it is asked
(`SF_vars(PollAnswered /\ pc' # "poll")`, four minutes in the code), and that two quiet minutes
pass once the tab is closed. The owner, the cable, losses and crashes are not fair.

`AppRuntime`, `FirmwareBoot`, `InstallerDevice` and `SlotCache` state no fairness: nothing is
claimed to happen there.

## 4. Proofs

TLAPS proves, for every value of the constants that satisfies the named assumptions:

- `RefreshCycleProofs!TypeCorrect`, `CacheCovers`, `DueOnce`, `ConfirmationIsSound`,
  `FinalRetryIsHeld`; `RetriesAreBounded` for the builds with `~E1003`, and
  `FailedDisplayIsRetried` for the one with `E1003`.
- `SlotCacheProofs!TypeCorrect`, `NewestUnambiguous`, `ImplementsRegister`, and `LoadIsRegular` for
  `MaxOverlap <= 1`.
- `PowerManagerProofs!TypeCorrect`, `SingleOwner`, `SingleScreen`, `ImplementsGate`,
  `SleepExcludesWork`.
- `DeviceTasksProofs!TypeCorrect`, `CountIsExact`, `SingleSweep`, `NoLostSweep`, `NoticesKept`.
- `InstallerProofs!DeviceTypeCorrect`, `ApplyCanBeTakenBack`, `StoredIsShown`, `TrialIsUndone`,
  `DeviceKeepsRecord`, `RecordIsWhole`.
- `SessionProofs!SessionInvariant`, `SessionIsClient`, `SessionKeepsRecord`, `SessionRestoresNetwork`,
  `SessionTypeCorrect`, `CommandsAreServed`, `ClaimIsTrue`.
- `FirmwareBootProofs!BootInvariant`, `AlwaysBootable`, `RecoveryRefusesSetup`,
  `OnlyProvedLatches`, `AskedOncePerDay`, `BootFollowsTrack`, `WorksUndropped`.
- `AppRuntimeProofs!RuntimeInvariant`, `RuntimeTypeCorrect`, `InstalledForecastStays`,
  `OneSetupInForce`, `ReportedIsShown`, `BookedRetrySurvives`, `RoundIsComplete`.

The hypotheses are where the code differs, or what it rules out elsewhere. `RetryBudgetE1003.cfg`
and `LostDisplayRetry.cfg` show that the two results about retries fail on the other build.
`MaxOverlap <= 1`: a store follows a download, and a load reads two small files, so that a second
store does not fit between its two reads; with two of them both reads can miss.
`FinalRetryIsHeld` is about the E1001/E1002 alone, since a round of the E1003 never refreshes in the mode
that holds a retry back. The theorems of `AppRuntime` have no hypothesis: work may come in at any
stage of an apply, and what it can then do is an exception in the statement, tied to the stage.

*CacheCovers* needs the locals of the run: while a request is out, the boundary it was
booked for is not later than the instant it began, which is the time of the forecast it
stores. Its invariant is about the newest slot, whatever its model (`NewestCovers`); a failed
store can only lose the older one, and a change of model only changes which is seen.
*DueOnce* is inductive once the record on storage is known to be at least as far as
the last boundary requested, in memory and on storage, unless the cache was lost
(`SInv`): the store before the request is what makes a reset harmless.
*ConfirmationIsSound* needs that while the waveform runs the confirmation is erased,
and that the override in force is the one the state of the runtime selects (`PInv`).
*FinalRetryIsHeld* rests on one fact about the record, that a booked retry has a boundary
(`RetrySound`): only then does booking the last retry again, before the request, put it where
the run has it. The store that must succeed makes the record on storage the same.
*RetriesAreBounded* counts (`RInv`): the retries made in a series and those the record may
still start (`Pending`, 0 to 2) never exceed two, in memory and on storage separately, since
a reset may bring back the older of the two. A run that may book both has made none
(`Booking`), and one that may book the last one again has made at most one. Every
operation of the schedule is a lemma about `Pending`; every step of a run that stores no
forecast is one of the changes in `RetryChange`.
*FailedDisplayIsRetried* needs that the E1003 never downloads and draws in one run and that
the run that shows a round has a boundary to book the retry for (`GInv`).
*ImplementsRegister* uses as its invariant that the slot being replaced is the older
one and the new generation is one above the newest, from `Store` to `Renamed`.
*LoadIsRegular* looks at what the load holds after its first read: what it will choose, given
the other slot as it is then, is what the cache holds or held during the load (`LInv`), also if
the slot it has read is replaced before the second read.
*ImplementsGate* rests on the count: `work` is the cardinality of the set of tasks between
`work_begin` and `work_end`, for any finite set of workers, so a compare-and-swap from
zero claims an empty room. *SingleOwner* needs that an owner has set the pending bit, which
both ways to claim find clear. *SingleScreen* needs the lock: a task between its
check and the return of its sleep holds it, so nobody else can go for the screen, and
a screen that was attempted is on record in RTC memory, or in NVS as long as this
boot has not read it.
*SingleSweep* and *NoLostSweep* need that the state of the
sweep is idle exactly when nobody sweeps or is about to create the task that will, and that
a sweep that did not end has been asked to run again: then the four compare-and-swaps can
interleave as they like. A start whose task cannot be created resets the state and
drops what was asked for meanwhile; `SweepKept` excuses that. *NoticesKept* is the
order of flag and notification for the dashboard task; for the setup-forecast task it needs that
the flag stays announced wherever that task is, except between its wake-up and its look at
the flag, and that `app_main` looks at the flag after it has stored the handle.

*ApplyCanBeTakenBack* and *DeviceKeepsRecord* need that while the apply task runs nobody
else writes what it relies on: the UART task refuses every command but hello, and none of its
timeouts touches the radio or the candidate while `apply_state` is "applying". The
invariant relates each stage of the task to the record (still the old one up to `Persist`, the
goal at `Reload`, the old one again from `Revert` on) and to the credentials kept for
going back. The refinement maps every step of the task before the record is written to a
stutter, `Persist` to `Install`, and `Publish` to `Complete` or `Fail`.
*TrialIsUndone* adds that whatever is on trial would go back to the network that is stored, and
during an apply to the one it found (`Undoable`); so every end of a trial but a commit
restores it, and the commit stores the one on trial. Its two exceptions are in the statement.
*SessionIsClient* lets what is proved of the device carry over to the composition: every step
of the session is a step of `DeviceNext` or leaves the device alone. That needs `GivenTested` (the
browser tests only a network that was submitted). *CommandsAreServed* and *ClaimIsTrue* need to
know what the browser knows (`AtRest`): when it is about to begin, stage, test, apply or
finish, no apply runs; and a report that the device is at rest, once heard, stays true until
the browser acts on it, because nothing but the browser's own apply disturbs a device at rest
(`RestStays`). A lost acknowledgement leaves it not knowing, and it polls. From the report, the
last request is sent only if it names the chosen configuration (`Confirmed`), and outside an
apply that is also what the runtime works with.
*BootFollowsTrack* needs three facts at once: an image that was dropped or is on trial is not
above the stored sequence, so an update under way, which is above it, is new; the image the
main task runs is the selected one until a new one is selected; and a slot is erased only
when the running image has proved itself. *AlwaysBootable* and *OnlyProvedLatches* follow from
the same invariant. *AskedOncePerDay* rests on the store that must succeed before the request.
*SleepExcludesWork*, *RecordIsWhole* and *WorksUndropped* say what the abstract specifications
are for. Each is an invariant of the abstract specification alone, a few steps long, and holds
of the detailed one through its refinement.
The invariant of `AppRuntimeProofs` has seven parts. `TypeOK` includes that every rank of a
round selects a spot. `InForce`: except between activation and promotion, and before the
undo, the spots are the record's; and a runtime that is set up agrees with the record
unless it was entered after the activation. `RoundInv`: a round that has looked for an
installer at `Capture` still holds the fetch lock that a preview needs, and works with the
setup it set out with. `ApplyInv` is what each step of an apply relies on, whoever comes in:
the record and the proved forecast are touched by nobody else. `ProvedInv`: a proved forecast is of
the stored setup, unless the apply was entered, so a round that downloads over it has
that setup too. `ShownInv`: the panel record is the panel or nothing, which makes a frame
that is skipped one that is shown; and what was shown last is the candidate's frame until the
activation and the frame in force from then on, unless a press came between. `OwedInv`: a
retry that was captured with the spot is booked until the merge, which therefore finds it
changed if a screen booked another.

*RoundIsComplete* has an invariant of its own (`CompleteInv`): every spot of a lower rank
has been downloaded for the round's setup, unless a spot spoiled the round. The ranks step away
from the selected spot alternately to either side, and that they reach every spot is a fact of
modular arithmetic (`OffsetOf`, `SpotAtCovers`), for any number of spots.

Every invariant and every action property that the passing runs check is stated by a theorem.
Only model-checked is liveness (`DueIsAttempted`, `SleepResumes`, `NoticesServed`,
`Settles`, `Released`), which is out of the prover's reach, as is `ENABLED`. Each inductive
invariant above was also checked by TLC before it was proved.

## 5. Plan

Done, in this order, each with proofs: `WindSchedule` and `RefreshCycle`; `Register` and
`SlotCache`; `WorkGate` and `PowerManager`; `DeviceTasks`; `SetupRecord`, `InstallerDevice`
and `InstallerSession`; `UpdateTrack` and `FirmwareBoot`; `AppRuntime`.

What would add most next:

1. The overview and the day focus in `AppRuntime`, with the frame they select.
2. The quick-frame cache: what a prepared frame is keyed by against what it shows.
3. Device errors and support history: their bounded slots and hourly limit.
4. Abstract specifications for `RefreshCycle` and `AppRuntime`, and proofs that they are
   implemented.

## 6. Not modelled

The renderer, the providers' parsing, the time-zone library and the configurator are
data and presentation; drivers are register access; the workers are stateless. Reports
(`wind_device_errors.c`, `wind_support.c`, `wind_analytics.c`) do not feed back into
the behaviour modelled here. Each is listed in `PROJECT.json` with its reason.

Within the modelled components:

- *Installer.* Network scan, diagnostics, the clock sent with `begin` (and its rejection),
  the support command and the framing of bytes are left out. `hardware_profile_allows_setup` is taken as
  granted in `InstallerDevice`; `RecoveryBlocked` is about it. The CANDIDATE record is read
  nowhere, so the set of the ACTIVE record is taken to be the commit and `nvs_commit` to
  add nothing to it. The link may be up or down whenever it is looked at. One step of an
  apply fails at most. A device without earlier credentials may keep the tested ones when the reload
  fails, which `SetupRecord` and `NetRestored` state. The browser's flashing, port selection and
  support capture, and the fallback to the records of older firmware, are left out.
- *Start-up and update.* Releases are numbered by their OTA sequence, from 1.
  `esp_ota_begin` refuses while the running image is on trial (ESP-IDF). HTTP, JSON and the
  signature are one choice of success. Flashing over USB is only the initial state. The run has
  a universal build (`HasProfile`); the theorems hold for builds of one model too.
  `hardware_profile_retry_driver` and `hardware_profile_clear` have no caller, so that a
  latched failure is final, although `src/docs/plans/2026-08-31-1003-feat-universal-e100x-firmware-plan.md:86-87`
  plans a retry. A reset between the store of the sequence and the selection
  of the slot skips that release, and a healthy image on trial is dropped when the device
  sleeps on an empty battery, or an early boot by a side button sleeps again, before
  `wind_ota_finish_boot`.
- *Runtime.* `wind_app_select_next_display_mode` (`main/wind_app.c`) has no caller among the
  tasks. A round that is abandoned leaves `wind_app_status` as "running"
  (`main/wind_app.c:1596-1601`, `:1626-1630`, `:1648-1651`). A sweep consumes a retry that a
  failed navigation counted on. The prepared path of the E1003 never clears the
  force-next-display flag (`main/wind_app.c:1662`). The model has all three as the code does.
- *Tasks.* Factory setup, gesture sampling and task creation failures at boot.
