------------------------- MODULE FirmwareBootProofs --------------------------
(***************************************************************************)
(* What FirmwareBoot guarantees for every number of releases, clock range, *)
(* check interval and number of failing writes.                            *)
(***************************************************************************)
EXTENDS FirmwareBoot, TLAPS

(* The main task runs from the selected slot until it selects another one, *)
(* and downloads only when it is no longer on trial.                       *)
SlotInv ==
  /\ FallbackKept
  /\ pc \notin {"off", "restart"} => run = sel /\ state[run] \in {"valid", "pending"}
  /\ pc \in {"load", "store", "select"} => state[run] = "valid"

(* Whatever was dropped or is on trial is below the stored sequence, and   *)
(* an update that is under way is above it and above the running release.  *)
SequenceInv ==
  /\ \A r \in failed : r <= sequence
  /\ OnTrial => image[sel] <= sequence
  /\ pc \in Update \ {"check", "restart"} =>
       image[run] <= seq /\ \A r \in failed : r <= seq
  /\ pc \in {"begin", "load", "store", "select"} => offer > seq
  /\ pc \in {"store", "select"} => image[Other(run)] = offer
  /\ pc = "select" => sequence = offer

(* The panel is touched only with a known model on a universal build.      *)
PanelInv ==
  /\ RecoveryBlocked
  /\ pc \in {"board", "undo", "latch"} => AllowsPanel(seen)
  /\ pc = "latch" => state[run] = "valid" \/ refused

ClockInv == asked # 0 => asked <= lastCheck /\ lastCheck <= now

IInv == BootTypeOK /\ SlotInv /\ SequenceInv /\ PanelInv /\ ClockInv

-----------------------------------------------------------------------------
(* The types of one step.                                                  *)
LEMMA TypeStep ==
  ASSUME BootTypeOK, SlotInv, [Next]_vars
  PROVE  BootTypeOK'
<1>1. CASE Start
  <2>1. image[sel] \in Releases
    BY <1>1 DEF Start, BootTypeOK, Slots, Releases
  <2>2. failed' \subseteq Releases
    BY <1>1, <2>1 DEF Start, BootTypeOK
  <2>3. BootTypeOK!11'
    BY <2>2 DEF Releases
  <2>4. BootTypeOK!1' /\ BootTypeOK!2' /\ BootTypeOK!3' /\ BootTypeOK!9'
    BY <1>1
    DEF Start, Goto, BootTypeOK, Slots, Other, Boot, App, Update, flash
  <2>5. BootTypeOK!10'
    BY <1>1 DEF Start, BootTypeOK
  <2>. QED
    BY <1>1, <2>3, <2>4, <2>5 DEF Start, BootTypeOK, Clock, update
<1>2. CASE RollBack
  <2>1. image[run] \in Releases
    BY <1>2 DEF RollBack, SlotInv, FallbackKept, BootTypeOK, Slots, Releases
  <2>2. failed' \subseteq Releases
    BY <1>2, <2>1 DEF RollBack, Drop, BootTypeOK
  <2>3. BootTypeOK!11'
    BY <2>2 DEF Releases
  <2>4. BootTypeOK!1' /\ BootTypeOK!2' /\ BootTypeOK!3' /\ BootTypeOK!9'
    BY <1>2 DEF RollBack, Drop, Goto, BootTypeOK, Slots, Other, Boot
  <2>5. BootTypeOK!10'
    BY <1>2 DEF RollBack, BootTypeOK
  <2>. QED
    BY <1>2, <2>3, <2>4, <2>5 DEF RollBack, BootTypeOK, Clock, update
<1>3. CASE KeepRunning
  <2>1. refused' \in BOOLEAN
    BY <1>3 DEF KeepRunning, Pending
  <2>2. BootTypeOK!8'
    BY <1>3, BootAssumption DEF KeepRunning, Fault, Done, BootTypeOK
  <2>3. BootTypeOK!9'
    BY <1>3 DEF KeepRunning, Goto, Boot, App, Update
  <2>4. UNCHANGED <<flash, update, profile, now, run, seen, installer, failed, asked, lost>>
    BY <1>3 DEF KeepRunning
  <2>5. BootTypeOK!10'
    BY <2>1, <2>4 DEF BootTypeOK
  <2>6. /\ BootTypeOK!1' /\ BootTypeOK!2' /\ BootTypeOK!3' /\ BootTypeOK!4' /\ BootTypeOK!5'
        /\ BootTypeOK!6' /\ BootTypeOK!7' /\ BootTypeOK!11'
    BY <2>4 DEF BootTypeOK, Slots, Clock, Releases, flash, update
  <2>. QED
    BY <2>2, <2>3, <2>5, <2>6 DEF BootTypeOK
<1>4. CASE Latch
  <2>1. profile' \in [known : BOOLEAN, latched : BOOLEAN]
    BY <1>4 DEF Latch, BootTypeOK
  <2>2. seen' \in [known : BOOLEAN, latched : BOOLEAN, safe : BOOLEAN]
    <3>1. CASE seen' = [known |-> TRUE, latched |-> TRUE, safe |-> FALSE]
      BY <3>1
    <3>2. CASE UNCHANGED seen
      BY <3>2 DEF BootTypeOK
    <3>. QED
      BY <1>4, <3>1, <3>2 DEF Latch
  <2>3. BootTypeOK!8'
    BY <1>4, BootAssumption DEF Latch, Fault, Done, BootTypeOK
  <2>4. BootTypeOK!9'
    BY <1>4 DEF Latch, Goto, Boot
  <2>5. BootTypeOK!10'
    BY <1>4 DEF Latch, BootTypeOK
  <2>6. UNCHANGED <<flash, update, now, run, failed, asked>>
    BY <1>4 DEF Latch
  <2>. QED
    BY <2>1, <2>2, <2>3, <2>4, <2>5, <2>6
    DEF BootTypeOK, Slots, Clock, Releases, flash, update
<1>5. CASE Confirm
  BY <1>5, BootAssumption
  DEF Confirm, Goto, Pending, Fault, Done, BootTypeOK, Slots, Other, Releases, Clock,
      Boot, App, Update, flash, update, seers
<1>6. CASE DashboardTurn
  BY <1>6, BootAssumption
  DEF DashboardTurn, Goto, BootTypeOK, Slots, Other, Releases, Clock, Boot, App, Update,
      flash, update, seers
<1>7. CASE SkipCheck
  BY <1>7, BootAssumption
  DEF SkipCheck, Goto, BootTypeOK, Slots, Other, Releases, Clock, Boot, App, Update,
      flash, update, seers
<1>8. CASE StoreCheck
  BY <1>8, BootAssumption
  DEF StoreCheck, Goto, Elapsed, Fault, Done, BootTypeOK, Slots, Other, Releases, Clock,
      Boot, App, Update, flash, update, seers
<1>9. CASE NotFetched
  BY <1>9, BootAssumption
  DEF NotFetched, Goto, BootTypeOK, Slots, Other, Releases, Clock, Boot, App, Update,
      flash, update, seers
<1>10. CASE Begin
  BY <1>10, BootAssumption
  DEF Begin, Goto, Pending, BootTypeOK, Slots, Other, Releases, Clock, Boot, App, Update,
      flash, update, seers
<1>11. CASE Loaded
  BY <1>11, BootAssumption
  DEF Loaded, Goto, BootTypeOK, Slots, Other, Releases, Clock, Boot, App, Update, flash,
      update, seers
<1>12. CASE StoreSequence
  BY <1>12, BootAssumption
  DEF StoreSequence, Goto, Fault, Done, BootTypeOK, Slots, Other, Releases, Clock, Boot,
      App, Update, flash, update, seers
<1>13. CASE SelectSlot
  BY <1>13, BootAssumption
  DEF SelectSlot, Goto, Fault, Done, BootTypeOK, Slots, Other, Releases, Clock, Boot, App,
      Update, flash, update, seers
<1>14. CASE Reset
  BY <1>14, BootAssumption
  DEF Reset, Goto, BootTypeOK, Slots, Other, Releases, Clock, Boot, App, Update, flash,
      update, seers
<1>15. CASE SelectModel
  BY <1>15, BootAssumption
  DEF SelectModel, Goto, Served, BootTypeOK, Slots, Other, Releases, Clock, Boot, App,
      Update, flash, update, seers
<1>16. ASSUME NEW yes \in BOOLEAN, ProfileBoot(yes)
      PROVE  BootTypeOK'
  BY <1>16, BootAssumption
  DEF ProfileBoot, Goto, AllowsPanel, BootTypeOK, Slots, Other, Releases, Clock, Boot,
      App, Update, flash, update, seers
<1>17. ASSUME NEW yes \in BOOLEAN, Board(yes)
      PROVE  BootTypeOK'
  BY <1>17, BootAssumption
  DEF Board, Goto, BootTypeOK, Slots, Other, Releases, Clock, Boot, App, Update, flash,
      update, seers
<1>18. ASSUME NEW yes \in BOOLEAN, FirstRefresh(yes)
      PROVE  BootTypeOK'
  BY <1>18, BootAssumption
  DEF FirstRefresh, Goto, BootTypeOK, Slots, Other, Releases, Clock, Boot, App, Update,
      flash, update, seers
<1>19. ASSUME NEW r \in Releases, Fetched(r)
      PROVE  BootTypeOK'
  BY <1>19, BootAssumption
  DEF Fetched, Goto, BootTypeOK, Slots, Other, Releases, Clock, Boot, App, Update, flash,
      update, seers
<1>20. ASSUME NEW t \in Clock, SetClock(t)
      PROVE  BootTypeOK'
  BY <1>20, BootAssumption
  DEF SetClock, Goto, BootTypeOK, Slots, Other, Releases, Clock, Boot, App, Update, flash,
      update, seers
<1>21. ASSUME NEW on \in BOOLEAN, InstallerSession(on)
      PROVE  BootTypeOK'
  BY <1>21, BootAssumption
  DEF InstallerSession, Goto, Served, BootTypeOK, Slots, Other, Releases, Clock, Boot,
      App, Update, flash, update, seers
<1>22. CASE UNCHANGED vars
  BY <1>22, BootAssumption
  DEF vars, flash, update, seers, BootTypeOK, Slots, Other, Releases, Clock, Boot, App,
      Update, flash, update, seers
<1>23. QED
  BY <1>1, <1>2, <1>3, <1>4, <1>5, <1>6, <1>7, <1>8, <1>9, <1>10, <1>11, <1>12, <1>13,
     <1>14, <1>15, <1>16, <1>17, <1>18, <1>19, <1>20, <1>21, <1>22
  DEF Next, Running

(* No step leaves the device without an image to start.                    *)
LEMMA SlotStep ==
  ASSUME BootTypeOK, SlotInv, SequenceInv, [Next]_vars
  PROVE  SlotInv'
<1>1. CASE Start
  BY <1>1
  DEF Start, Goto, SlotInv, SequenceInv, FallbackKept, Proved, OnTrial, BootTypeOK, Slots,
      Other, Releases, Clock, Boot, App, Update, flash, update, seers
<1>2. CASE RollBack
  BY <1>2
  DEF RollBack, Goto, Pending, Drop, SlotInv, SequenceInv, FallbackKept, Proved, OnTrial,
      BootTypeOK, Slots, Other, Releases, Clock, Boot, App, Update, flash, update, seers
<1>3. CASE KeepRunning
  BY <1>3
  DEF KeepRunning, Goto, Pending, Fault, Done, SlotInv, SequenceInv, FallbackKept, Proved,
      OnTrial, BootTypeOK, Slots, Other, Releases, Clock, Boot, App, Update, flash,
      update, seers
<1>4. CASE Latch
  BY <1>4
  DEF Latch, Goto, Fault, Done, SlotInv, SequenceInv, FallbackKept, Proved, OnTrial,
      BootTypeOK, Slots, Other, Releases, Clock, Boot, App, Update, flash, update, seers
<1>5. CASE Confirm
  BY <1>5
  DEF Confirm, Goto, Pending, Fault, Done, SlotInv, SequenceInv, FallbackKept, Proved,
      OnTrial, BootTypeOK, Slots, Other, Releases, Clock, Boot, App, Update, flash,
      update, seers
<1>6. CASE DashboardTurn
  BY <1>6
  DEF DashboardTurn, Goto, SlotInv, SequenceInv, FallbackKept, Proved, OnTrial,
      BootTypeOK, Slots, Other, Releases, Clock, Boot, App, Update, flash, update, seers
<1>7. CASE SkipCheck
  BY <1>7
  DEF SkipCheck, Goto, SlotInv, SequenceInv, FallbackKept, Proved, OnTrial, BootTypeOK,
      Slots, Other, Releases, Clock, Boot, App, Update, flash, update, seers
<1>8. CASE StoreCheck
  BY <1>8
  DEF StoreCheck, Goto, Elapsed, Fault, Done, SlotInv, SequenceInv, FallbackKept, Proved,
      OnTrial, BootTypeOK, Slots, Other, Releases, Clock, Boot, App, Update, flash,
      update, seers
<1>9. CASE NotFetched
  BY <1>9
  DEF NotFetched, Goto, SlotInv, SequenceInv, FallbackKept, Proved, OnTrial, BootTypeOK,
      Slots, Other, Releases, Clock, Boot, App, Update, flash, update, seers
<1>10. CASE Begin
  BY <1>10
  DEF Begin, Goto, Pending, SlotInv, SequenceInv, FallbackKept, Proved, OnTrial,
      BootTypeOK, Slots, Other, Releases, Clock, Boot, App, Update, flash, update, seers
<1>11. CASE Loaded
  BY <1>11
  DEF Loaded, Goto, SlotInv, SequenceInv, FallbackKept, Proved, OnTrial, BootTypeOK,
      Slots, Other, Releases, Clock, Boot, App, Update, flash, update, seers
<1>12. CASE StoreSequence
  BY <1>12
  DEF StoreSequence, Goto, Fault, Done, SlotInv, SequenceInv, FallbackKept, Proved,
      OnTrial, BootTypeOK, Slots, Other, Releases, Clock, Boot, App, Update, flash,
      update, seers
<1>13. CASE SelectSlot
  BY <1>13
  DEF SelectSlot, Goto, Fault, Done, SlotInv, SequenceInv, FallbackKept, Proved, OnTrial,
      BootTypeOK, Slots, Other, Releases, Clock, Boot, App, Update, flash, update, seers
<1>14. CASE Reset
  BY <1>14
  DEF Reset, Goto, SlotInv, SequenceInv, FallbackKept, Proved, OnTrial, BootTypeOK, Slots,
      Other, Releases, Clock, Boot, App, Update, flash, update, seers
<1>15. CASE SelectModel
  BY <1>15
  DEF SelectModel, Goto, Served, SlotInv, SequenceInv, FallbackKept, Proved, OnTrial,
      BootTypeOK, Slots, Other, Releases, Clock, Boot, App, Update, flash, update, seers
<1>16. ASSUME NEW yes \in BOOLEAN, ProfileBoot(yes)
      PROVE  SlotInv'
  BY <1>16
  DEF ProfileBoot, Goto, AllowsPanel, SlotInv, SequenceInv, FallbackKept, Proved, OnTrial,
      BootTypeOK, Slots, Other, Releases, Clock, Boot, App, Update, flash, update, seers
<1>17. ASSUME NEW yes \in BOOLEAN, Board(yes)
      PROVE  SlotInv'
  BY <1>17
  DEF Board, Goto, SlotInv, SequenceInv, FallbackKept, Proved, OnTrial, BootTypeOK, Slots,
      Other, Releases, Clock, Boot, App, Update, flash, update, seers
<1>18. ASSUME NEW yes \in BOOLEAN, FirstRefresh(yes)
      PROVE  SlotInv'
  BY <1>18
  DEF FirstRefresh, Goto, SlotInv, SequenceInv, FallbackKept, Proved, OnTrial, BootTypeOK,
      Slots, Other, Releases, Clock, Boot, App, Update, flash, update, seers
<1>19. ASSUME NEW r \in Releases, Fetched(r)
      PROVE  SlotInv'
  BY <1>19
  DEF Fetched, Goto, SlotInv, SequenceInv, FallbackKept, Proved, OnTrial, BootTypeOK,
      Slots, Other, Releases, Clock, Boot, App, Update, flash, update, seers
<1>20. ASSUME NEW t \in Clock, SetClock(t)
      PROVE  SlotInv'
  BY <1>20
  DEF SetClock, Goto, SlotInv, SequenceInv, FallbackKept, Proved, OnTrial, BootTypeOK,
      Slots, Other, Releases, Clock, Boot, App, Update, flash, update, seers
<1>21. ASSUME NEW on \in BOOLEAN, InstallerSession(on)
      PROVE  SlotInv'
  BY <1>21
  DEF InstallerSession, Goto, Served, SlotInv, SequenceInv, FallbackKept, Proved, OnTrial,
      BootTypeOK, Slots, Other, Releases, Clock, Boot, App, Update, flash, update, seers
<1>22. CASE UNCHANGED vars
  BY <1>22
  DEF vars, flash, update, seers, SlotInv, SequenceInv, FallbackKept, Proved, OnTrial,
      BootTypeOK, Slots, Other, Releases, Clock, Boot, App, Update, flash, update, seers
<1>23. QED
  BY <1>1, <1>2, <1>3, <1>4, <1>5, <1>6, <1>7, <1>8, <1>9, <1>10, <1>11, <1>12, <1>13,
     <1>14, <1>15, <1>16, <1>17, <1>18, <1>19, <1>20, <1>21, <1>22
  DEF Next, Running

(* No step forgets a dropped release.                                      *)
LEMMA SequenceStep ==
  ASSUME BootTypeOK, SlotInv, SequenceInv, [Next]_vars
  PROVE  SequenceInv'
<1>1. CASE Start
  <2>1. \A r \in failed' : r <= sequence
    BY <1>1 DEF Start, SequenceInv, OnTrial, flash, seers
  <2>2. OnTrial' => image'[sel'] <= sequence'
    BY <1>1
    DEF Start, SequenceInv, SlotInv, FallbackKept, Proved, OnTrial, BootTypeOK, Slots,
        Other,
        flash, update
  <2>. QED
    BY <1>1, <2>1, <2>2 DEF Start, Goto, SequenceInv, Update, update
<1>2. CASE RollBack
  BY <1>2
  DEF RollBack, Goto, Pending, Drop, SequenceInv, SlotInv, FallbackKept, Proved, OnTrial,
      BootTypeOK, Slots, Other, Releases, Clock, Boot, App, Update, flash, update, seers
<1>3. CASE KeepRunning
  BY <1>3
  DEF KeepRunning, Goto, Pending, Fault, Done, SequenceInv, SlotInv, FallbackKept, Proved,
      OnTrial, BootTypeOK, Slots, Other, Releases, Clock, Boot, App, Update, flash,
      update, seers
<1>4. CASE Latch
  BY <1>4
  DEF Latch, Goto, Fault, Done, SequenceInv, SlotInv, FallbackKept, Proved, OnTrial,
      BootTypeOK, Slots, Other, Releases, Clock, Boot, App, Update, flash, update, seers
<1>5. CASE Confirm
  BY <1>5
  DEF Confirm, Goto, Pending, Fault, Done, SequenceInv, SlotInv, FallbackKept, Proved,
      OnTrial, BootTypeOK, Slots, Other, Releases, Clock, Boot, App, Update, flash,
      update, seers
<1>6. CASE DashboardTurn
  BY <1>6
  DEF DashboardTurn, Goto, SequenceInv, SlotInv, FallbackKept, Proved, OnTrial,
      BootTypeOK, Slots, Other, Releases, Clock, Boot, App, Update, flash, update, seers
<1>7. CASE SkipCheck
  BY <1>7
  DEF SkipCheck, Goto, SequenceInv, SlotInv, FallbackKept, Proved, OnTrial, BootTypeOK,
      Slots, Other, Releases, Clock, Boot, App, Update, flash, update, seers
<1>8. CASE StoreCheck
  BY <1>8
  DEF StoreCheck, Goto, Elapsed, Fault, Done, SequenceInv, SlotInv, FallbackKept, Proved,
      OnTrial, BootTypeOK, Slots, Other, Releases, Clock, Boot, App, Update, flash,
      update, seers
<1>9. CASE NotFetched
  BY <1>9
  DEF NotFetched, Goto, SequenceInv, SlotInv, FallbackKept, Proved, OnTrial, BootTypeOK,
      Slots, Other, Releases, Clock, Boot, App, Update, flash, update, seers
<1>10. CASE Begin
  BY <1>10
  DEF Begin, Goto, Pending, SequenceInv, SlotInv, FallbackKept, Proved, OnTrial,
      BootTypeOK, Slots, Other, Releases, Clock, Boot, App, Update, flash, update, seers
<1>11. CASE Loaded
  BY <1>11
  DEF Loaded, Goto, SequenceInv, SlotInv, FallbackKept, Proved, OnTrial, BootTypeOK,
      Slots, Other, Releases, Clock, Boot, App, Update, flash, update, seers
<1>12. CASE StoreSequence
  BY <1>12
  DEF StoreSequence, Goto, Fault, Done, SequenceInv, SlotInv, FallbackKept, Proved,
      OnTrial, BootTypeOK, Slots, Other, Releases, Clock, Boot, App, Update, flash,
      update, seers
<1>13. CASE SelectSlot
  BY <1>13
  DEF SelectSlot, Goto, Fault, Done, SequenceInv, SlotInv, FallbackKept, Proved, OnTrial,
      BootTypeOK, Slots, Other, Releases, Clock, Boot, App, Update, flash, update, seers
<1>14. CASE Reset
  BY <1>14
  DEF Reset, Goto, SequenceInv, SlotInv, FallbackKept, Proved, OnTrial, BootTypeOK, Slots,
      Other, Releases, Clock, Boot, App, Update, flash, update, seers
<1>15. CASE SelectModel
  BY <1>15
  DEF SelectModel, Goto, Served, SequenceInv, SlotInv, FallbackKept, Proved, OnTrial,
      BootTypeOK, Slots, Other, Releases, Clock, Boot, App, Update, flash, update, seers
<1>16. ASSUME NEW yes \in BOOLEAN, ProfileBoot(yes)
      PROVE  SequenceInv'
  BY <1>16
  DEF ProfileBoot, Goto, AllowsPanel, SequenceInv, SlotInv, FallbackKept, Proved, OnTrial,
      BootTypeOK, Slots, Other, Releases, Clock, Boot, App, Update, flash, update, seers
<1>17. ASSUME NEW yes \in BOOLEAN, Board(yes)
      PROVE  SequenceInv'
  BY <1>17
  DEF Board, Goto, SequenceInv, SlotInv, FallbackKept, Proved, OnTrial, BootTypeOK, Slots,
      Other, Releases, Clock, Boot, App, Update, flash, update, seers
<1>18. ASSUME NEW yes \in BOOLEAN, FirstRefresh(yes)
      PROVE  SequenceInv'
  BY <1>18
  DEF FirstRefresh, Goto, SequenceInv, SlotInv, FallbackKept, Proved, OnTrial, BootTypeOK,
      Slots, Other, Releases, Clock, Boot, App, Update, flash, update, seers
<1>19. ASSUME NEW r \in Releases, Fetched(r)
      PROVE  SequenceInv'
  BY <1>19
  DEF Fetched, Goto, SequenceInv, SlotInv, FallbackKept, Proved, OnTrial, BootTypeOK,
      Slots, Other, Releases, Clock, Boot, App, Update, flash, update, seers
<1>20. ASSUME NEW t \in Clock, SetClock(t)
      PROVE  SequenceInv'
  BY <1>20
  DEF SetClock, Goto, SequenceInv, SlotInv, FallbackKept, Proved, OnTrial, BootTypeOK,
      Slots, Other, Releases, Clock, Boot, App, Update, flash, update, seers
<1>21. ASSUME NEW on \in BOOLEAN, InstallerSession(on)
      PROVE  SequenceInv'
  BY <1>21
  DEF InstallerSession, Goto, Served, SequenceInv, SlotInv, FallbackKept, Proved, OnTrial,
      BootTypeOK, Slots, Other, Releases, Clock, Boot, App, Update, flash, update, seers
<1>22. CASE UNCHANGED vars
  BY <1>22
  DEF vars, flash, update, seers, SequenceInv, SlotInv, FallbackKept, Proved, OnTrial,
      BootTypeOK, Slots, Other, Releases, Clock, Boot, App, Update, flash, update, seers
<1>23. QED
  BY <1>1, <1>2, <1>3, <1>4, <1>5, <1>6, <1>7, <1>8, <1>9, <1>10, <1>11, <1>12, <1>13,
     <1>14, <1>15, <1>16, <1>17, <1>18, <1>19, <1>20, <1>21, <1>22
  DEF Next, Running

(* No step opens setup beside an untouched panel.                          *)
LEMMA PanelStep ==
  ASSUME BootTypeOK, SlotInv, PanelInv, [Next]_vars
  PROVE  PanelInv'
<1>1. CASE Start
  BY <1>1, BootAssumption
  DEF Start, Goto, PanelInv, RecoveryBlocked, AllowsPanel, AllowsSetup, SlotInv,
      BootTypeOK, Slots, Other, Releases, Clock, Boot, App, Update, flash, update, seers
<1>2. CASE RollBack
  BY <1>2, BootAssumption
  DEF RollBack, Goto, Pending, Drop, PanelInv, RecoveryBlocked, AllowsPanel, AllowsSetup,
      SlotInv, BootTypeOK, Slots, Other, Releases, Clock, Boot, App, Update, flash,
      update, seers
<1>3. CASE KeepRunning
  BY <1>3, BootAssumption
  DEF KeepRunning, Goto, Pending, Fault, Done, PanelInv, RecoveryBlocked, AllowsPanel,
      AllowsSetup, SlotInv, BootTypeOK, Slots, Other, Releases, Clock, Boot, App, Update,
      flash, update, seers
<1>4. CASE Latch
  BY <1>4, BootAssumption
  DEF Latch, Goto, Fault, Done, PanelInv, RecoveryBlocked, AllowsPanel, AllowsSetup,
      SlotInv, BootTypeOK, Slots, Other, Releases, Clock, Boot, App, Update, flash,
      update, seers
<1>5. CASE Confirm
  BY <1>5, BootAssumption
  DEF Confirm, Goto, Pending, Fault, Done, PanelInv, RecoveryBlocked, AllowsPanel,
      AllowsSetup, SlotInv, BootTypeOK, Slots, Other, Releases, Clock, Boot, App, Update,
      flash, update, seers
<1>6. CASE DashboardTurn
  BY <1>6, BootAssumption
  DEF DashboardTurn, Goto, PanelInv, RecoveryBlocked, AllowsPanel, AllowsSetup, SlotInv,
      BootTypeOK, Slots, Other, Releases, Clock, Boot, App, Update, flash, update, seers
<1>7. CASE SkipCheck
  BY <1>7, BootAssumption
  DEF SkipCheck, Goto, PanelInv, RecoveryBlocked, AllowsPanel, AllowsSetup, SlotInv,
      BootTypeOK, Slots, Other, Releases, Clock, Boot, App, Update, flash, update, seers
<1>8. CASE StoreCheck
  BY <1>8, BootAssumption
  DEF StoreCheck, Goto, Elapsed, Fault, Done, PanelInv, RecoveryBlocked, AllowsPanel,
      AllowsSetup, SlotInv, BootTypeOK, Slots, Other, Releases, Clock, Boot, App, Update,
      flash, update, seers
<1>9. CASE NotFetched
  BY <1>9, BootAssumption
  DEF NotFetched, Goto, PanelInv, RecoveryBlocked, AllowsPanel, AllowsSetup, SlotInv,
      BootTypeOK, Slots, Other, Releases, Clock, Boot, App, Update, flash, update, seers
<1>10. CASE Begin
  BY <1>10, BootAssumption
  DEF Begin, Goto, Pending, PanelInv, RecoveryBlocked, AllowsPanel, AllowsSetup, SlotInv,
      BootTypeOK, Slots, Other, Releases, Clock, Boot, App, Update, flash, update, seers
<1>11. CASE Loaded
  BY <1>11, BootAssumption
  DEF Loaded, Goto, PanelInv, RecoveryBlocked, AllowsPanel, AllowsSetup, SlotInv,
      BootTypeOK, Slots, Other, Releases, Clock, Boot, App, Update, flash, update, seers
<1>12. CASE StoreSequence
  BY <1>12, BootAssumption
  DEF StoreSequence, Goto, Fault, Done, PanelInv, RecoveryBlocked, AllowsPanel,
      AllowsSetup, SlotInv, BootTypeOK, Slots, Other, Releases, Clock, Boot, App, Update,
      flash, update, seers
<1>13. CASE SelectSlot
  BY <1>13, BootAssumption
  DEF SelectSlot, Goto, Fault, Done, PanelInv, RecoveryBlocked, AllowsPanel, AllowsSetup,
      SlotInv, BootTypeOK, Slots, Other, Releases, Clock, Boot, App, Update, flash,
      update, seers
<1>14. CASE Reset
  BY <1>14, BootAssumption
  DEF Reset, Goto, PanelInv, RecoveryBlocked, AllowsPanel, AllowsSetup, SlotInv,
      BootTypeOK, Slots, Other, Releases, Clock, Boot, App, Update, flash, update, seers
<1>15. CASE SelectModel
  BY <1>15, BootAssumption
  DEF SelectModel, Goto, Served, PanelInv, RecoveryBlocked, AllowsPanel, AllowsSetup,
      SlotInv, BootTypeOK, Slots, Other, Releases, Clock, Boot, App, Update, flash,
      update, seers
<1>16. ASSUME NEW yes \in BOOLEAN, ProfileBoot(yes)
      PROVE  PanelInv'
  BY <1>16, BootAssumption
  DEF ProfileBoot, Goto, AllowsPanel, PanelInv, RecoveryBlocked, AllowsPanel, AllowsSetup,
      SlotInv, BootTypeOK, Slots, Other, Releases, Clock, Boot, App, Update, flash,
      update, seers
<1>17. ASSUME NEW yes \in BOOLEAN, Board(yes)
      PROVE  PanelInv'
  BY <1>17, BootAssumption
  DEF Board, Goto, PanelInv, RecoveryBlocked, AllowsPanel, AllowsSetup, SlotInv,
      BootTypeOK, Slots, Other, Releases, Clock, Boot, App, Update, flash, update, seers
<1>18. ASSUME NEW yes \in BOOLEAN, FirstRefresh(yes)
      PROVE  PanelInv'
  BY <1>18, BootAssumption
  DEF FirstRefresh, Goto, PanelInv, RecoveryBlocked, AllowsPanel, AllowsSetup, SlotInv,
      BootTypeOK, Slots, Other, Releases, Clock, Boot, App, Update, flash, update, seers
<1>19. ASSUME NEW r \in Releases, Fetched(r)
      PROVE  PanelInv'
  BY <1>19, BootAssumption
  DEF Fetched, Goto, PanelInv, RecoveryBlocked, AllowsPanel, AllowsSetup, SlotInv,
      BootTypeOK, Slots, Other, Releases, Clock, Boot, App, Update, flash, update, seers
<1>20. ASSUME NEW t \in Clock, SetClock(t)
      PROVE  PanelInv'
  BY <1>20, BootAssumption
  DEF SetClock, Goto, PanelInv, RecoveryBlocked, AllowsPanel, AllowsSetup, SlotInv,
      BootTypeOK, Slots, Other, Releases, Clock, Boot, App, Update, flash, update, seers
<1>21. ASSUME NEW on \in BOOLEAN, InstallerSession(on)
      PROVE  PanelInv'
  BY <1>21, BootAssumption
  DEF InstallerSession, Goto, Served, PanelInv, RecoveryBlocked, AllowsPanel, AllowsSetup,
      SlotInv, BootTypeOK, Slots, Other, Releases, Clock, Boot, App, Update, flash,
      update, seers
<1>22. CASE UNCHANGED vars
  BY <1>22, BootAssumption
  DEF vars, flash, update, seers, PanelInv, RecoveryBlocked, AllowsPanel, AllowsSetup,
      SlotInv, BootTypeOK, Slots, Other, Releases, Clock, Boot, App, Update, flash,
      update, seers
<1>23. QED
  BY <1>1, <1>2, <1>3, <1>4, <1>5, <1>6, <1>7, <1>8, <1>9, <1>10, <1>11, <1>12, <1>13,
     <1>14, <1>15, <1>16, <1>17, <1>18, <1>19, <1>20, <1>21, <1>22
  DEF Next, Running

(* No step makes the kept time of the last check older than the check.     *)
LEMMA ClockStep ==
  ASSUME BootTypeOK, ClockInv, [Next]_vars
  PROVE  ClockInv'
<1>1. CASE Start
  BY <1>1, BootAssumption
  DEF Start, Goto, ClockInv, BootTypeOK, Slots, Other, Releases, Clock, Boot, App, Update,
      flash, update, seers
<1>2. CASE RollBack
  BY <1>2, BootAssumption
  DEF RollBack, Goto, Pending, Drop, ClockInv, BootTypeOK, Slots, Other, Releases, Clock,
      Boot, App, Update, flash, update, seers
<1>3. CASE KeepRunning
  BY <1>3, BootAssumption
  DEF KeepRunning, Goto, Pending, Fault, Done, ClockInv, BootTypeOK, Slots, Other,
      Releases, Clock, Boot, App, Update, flash, update, seers
<1>4. CASE Latch
  BY <1>4, BootAssumption
  DEF Latch, Goto, Fault, Done, ClockInv, BootTypeOK, Slots, Other, Releases, Clock, Boot,
      App, Update, flash, update, seers
<1>5. CASE Confirm
  BY <1>5, BootAssumption
  DEF Confirm, Goto, Pending, Fault, Done, ClockInv, BootTypeOK, Slots, Other, Releases,
      Clock, Boot, App, Update, flash, update, seers
<1>6. CASE DashboardTurn
  BY <1>6, BootAssumption
  DEF DashboardTurn, Goto, ClockInv, BootTypeOK, Slots, Other, Releases, Clock, Boot, App,
      Update, flash, update, seers
<1>7. CASE SkipCheck
  BY <1>7, BootAssumption
  DEF SkipCheck, Goto, ClockInv, BootTypeOK, Slots, Other, Releases, Clock, Boot, App,
      Update, flash, update, seers
<1>8. CASE StoreCheck
  BY <1>8, BootAssumption
  DEF StoreCheck, Goto, Elapsed, Fault, Done, ClockInv, BootTypeOK, Slots, Other,
      Releases, Clock, Boot, App, Update, flash, update, seers
<1>9. CASE NotFetched
  BY <1>9, BootAssumption
  DEF NotFetched, Goto, ClockInv, BootTypeOK, Slots, Other, Releases, Clock, Boot, App,
      Update, flash, update, seers
<1>10. CASE Begin
  BY <1>10, BootAssumption
  DEF Begin, Goto, Pending, ClockInv, BootTypeOK, Slots, Other, Releases, Clock, Boot,
      App, Update, flash, update, seers
<1>11. CASE Loaded
  BY <1>11, BootAssumption
  DEF Loaded, Goto, ClockInv, BootTypeOK, Slots, Other, Releases, Clock, Boot, App,
      Update, flash, update, seers
<1>12. CASE StoreSequence
  BY <1>12, BootAssumption
  DEF StoreSequence, Goto, Fault, Done, ClockInv, BootTypeOK, Slots, Other, Releases,
      Clock, Boot, App, Update, flash, update, seers
<1>13. CASE SelectSlot
  BY <1>13, BootAssumption
  DEF SelectSlot, Goto, Fault, Done, ClockInv, BootTypeOK, Slots, Other, Releases, Clock,
      Boot, App, Update, flash, update, seers
<1>14. CASE Reset
  BY <1>14, BootAssumption
  DEF Reset, Goto, ClockInv, BootTypeOK, Slots, Other, Releases, Clock, Boot, App, Update,
      flash, update, seers
<1>15. CASE SelectModel
  BY <1>15, BootAssumption
  DEF SelectModel, Goto, Served, ClockInv, BootTypeOK, Slots, Other, Releases, Clock,
      Boot, App, Update, flash, update, seers
<1>16. ASSUME NEW yes \in BOOLEAN, ProfileBoot(yes)
      PROVE  ClockInv'
  BY <1>16, BootAssumption
  DEF ProfileBoot, Goto, AllowsPanel, ClockInv, BootTypeOK, Slots, Other, Releases, Clock,
      Boot, App, Update, flash, update, seers
<1>17. ASSUME NEW yes \in BOOLEAN, Board(yes)
      PROVE  ClockInv'
  BY <1>17, BootAssumption
  DEF Board, Goto, ClockInv, BootTypeOK, Slots, Other, Releases, Clock, Boot, App, Update,
      flash, update, seers
<1>18. ASSUME NEW yes \in BOOLEAN, FirstRefresh(yes)
      PROVE  ClockInv'
  BY <1>18, BootAssumption
  DEF FirstRefresh, Goto, ClockInv, BootTypeOK, Slots, Other, Releases, Clock, Boot, App,
      Update, flash, update, seers
<1>19. ASSUME NEW r \in Releases, Fetched(r)
      PROVE  ClockInv'
  BY <1>19, BootAssumption
  DEF Fetched, Goto, ClockInv, BootTypeOK, Slots, Other, Releases, Clock, Boot, App,
      Update, flash, update, seers
<1>20. ASSUME NEW t \in Clock, SetClock(t)
      PROVE  ClockInv'
  BY <1>20, BootAssumption
  DEF SetClock, Goto, ClockInv, BootTypeOK, Slots, Other, Releases, Clock, Boot, App,
      Update, flash, update, seers
<1>21. ASSUME NEW on \in BOOLEAN, InstallerSession(on)
      PROVE  ClockInv'
  BY <1>21, BootAssumption
  DEF InstallerSession, Goto, Served, ClockInv, BootTypeOK, Slots, Other, Releases, Clock,
      Boot, App, Update, flash, update, seers
<1>22. CASE UNCHANGED vars
  BY <1>22, BootAssumption
  DEF vars, flash, update, seers, ClockInv, BootTypeOK, Slots, Other, Releases, Clock,
      Boot, App, Update, flash, update, seers
<1>23. QED
  BY <1>1, <1>2, <1>3, <1>4, <1>5, <1>6, <1>7, <1>8, <1>9, <1>10, <1>11, <1>12, <1>13,
     <1>14, <1>15, <1>16, <1>17, <1>18, <1>19, <1>20, <1>21, <1>22
  DEF Next, Running

-----------------------------------------------------------------------------
(* The invariant that everything below rests on.                           *)
THEOREM BootInvariant == Spec => []IInv
<1>1. ASSUME Init
      PROVE  IInv
  <2>1. BootTypeOK
    <3>1. image \in [Slots -> 0..MaxRelease]
      BY <1>1, BootAssumption DEF Init, Slots, Releases
    <3>2. /\ profile \in [known : BOOLEAN, latched : BOOLEAN]
          /\ seen \in [known : BOOLEAN, latched : BOOLEAN, safe : BOOLEAN]
      BY <1>1 DEF Init
    <3>3. faults \in 0..MaxFaults
      BY <1>1, BootAssumption DEF Init
    <3>4. BootTypeOK!2 /\ BootTypeOK!3 /\ BootTypeOK!4 /\ BootTypeOK!5 /\ BootTypeOK!9
      BY <1>1, BootAssumption DEF Init, BootTypeOK, Slots, Clock, Boot
    <3>5. BootTypeOK!10 /\ BootTypeOK!11
      BY <1>1 DEF Init
    <3>. QED
      BY <3>1, <3>2, <3>3, <3>4, <3>5 DEF BootTypeOK
  <2>2. SlotInv
    BY <1>1 DEF Init, SlotInv, FallbackKept, Proved, Slots, Other, Releases
  <2>3. SequenceInv
    BY <1>1 DEF Init, SequenceInv, OnTrial, Slots, Update
  <2>4. PanelInv
    BY <1>1 DEF Init, PanelInv, RecoveryBlocked
  <2>5. ClockInv
    BY <1>1 DEF Init, ClockInv
  <2>. QED
    BY <2>1, <2>2, <2>3, <2>4, <2>5 DEF IInv
<1>2. IInv /\ [Next]_vars => IInv'
  BY TypeStep, SlotStep, SequenceStep, PanelStep, ClockStep DEF IInv
<1>. QED
  BY <1>1, <1>2, PTL DEF Spec

(* Every variable keeps its type.                                          *)
THEOREM BootTypeCorrect == Spec => []BootTypeOK
<1>1. IInv => BootTypeOK
  BY DEF IInv
<1>. QED
  BY <1>1, BootInvariant, PTL

(* A reset after any step finds a whole image to start, and an image that  *)
(* has not proved itself one to go back to (wind_ota.c:202-264).           *)
THEOREM AlwaysBootable == Spec => []FallbackKept
<1>1. IInv => FallbackKept
  BY DEF IInv, SlotInv
<1>. QED
  BY <1>1, BootInvariant, PTL

(* Beside an untouched panel no setup command is served                    *)
(* (wind_installer_service.c:303-313).                                     *)
THEOREM RecoveryRefusesSetup == Spec => []RecoveryBlocked
<1>1. IInv => RecoveryBlocked
  BY DEF IInv, PanelInv
<1>. QED
  BY <1>1, BootInvariant, PTL

(* Only a proved image, or one whose rollback returned, latches a panel    *)
(* failure (windpeek_main.c:681-690).                                      *)
THEOREM OnlyProvedLatches == Spec => LatchInnocent
<1>1. IInv /\ [Next]_vars
        => [profile'.latched /\ ~profile.latched => state[run] = "valid" \/ refused]_vars
  <2> SUFFICES ASSUME IInv, Next, profile'.latched, ~profile.latched
               PROVE  state[run] = "valid" \/ refused
    OBVIOUS
  <2>1. CASE Latch
    BY <2>1 DEF Latch, IInv, PanelInv
  <2>2. CASE SelectModel
    BY <2>2 DEF SelectModel, IInv, BootTypeOK
  <2>3. CASE UNCHANGED profile
    BY <2>3
  <2>. QED
    BY <2>1, <2>2, <2>3
    DEF Next, Running, Start, RollBack, KeepRunning, Confirm, DashboardTurn, SkipCheck,
        StoreCheck, NotFetched, Begin, Loaded, StoreSequence, SelectSlot, ProfileBoot, Board,
        FirstRefresh, Fetched, Reset, SetClock, InstallerSession
<1>. QED
  BY <1>1, BootInvariant, PTL DEF LatchInnocent, Spec

(* The network is asked at most once in Day (wind_ota.c:96-107, :285).    *)
THEOREM AskedOncePerDay == Spec => OncePerDay
<1>1. IInv /\ [Next]_vars
        => [pc = "check" /\ Goto("fetch") => asked = 0 \/ now - asked >= Day]_vars
  <2> SUFFICES ASSUME IInv, Next, pc = "check", Goto("fetch")
               PROVE  asked = 0 \/ now - asked >= Day
    OBVIOUS
  <2>1. StoreCheck
    BY DEF Next, Running, Start, RollBack, KeepRunning, Confirm, DashboardTurn, SkipCheck,
           NotFetched, Begin, Loaded, StoreSequence, SelectSlot, ProfileBoot, Board, Latch,
           FirstRefresh, Fetched, Reset, SetClock, InstallerSession, SelectModel, Goto
  <2>. QED
    BY <2>1, BootAssumption DEF StoreCheck, Elapsed, IInv, ClockInv, BootTypeOK, Clock
<1>. QED
  BY <1>1, BootInvariant, PTL DEF OncePerDay, Spec

-----------------------------------------------------------------------------
(* A step that leaves the images, their states and the dropped releases    *)
(* alone is a stutter of the abstract specification.                       *)
LEMMA Untouched ==
  ASSUME UNCHANGED <<flash, failed>>
  PROVE  UNCHANGED Track!trackVars
BY DEF flash, Track!trackVars, OnTrial

(* What each of the steps that touch them is in the abstract one.          *)
LEMMA TrackStep ==
  ASSUME IInv, Next
  PROVE  [Track!TrackNext]_(Track!trackVars)
<1>. USE DEF Track!trackVars, OnTrial, IInv, SlotInv, FallbackKept, Proved, BootTypeOK, Slots,
             Other
<1>1. CASE Start
  <2>1. CASE state[sel] = "pending"
    <3>1. Track!Reject
      BY <1>1, <2>1 DEF Start, Track!Reject
    <3>. QED
      BY <3>1 DEF Track!TrackNext
  <2>2. CASE state[sel] = "new"
    BY <1>1, <2>2 DEF Start
  <2>3. CASE state[sel] = "valid"
    BY <1>1, <2>3, Untouched DEF Start
  <2>. QED
    BY <1>1, <2>1, <2>2, <2>3 DEF Start
<1>2. CASE RollBack
  <2>1. Track!Reject
    BY <1>2 DEF RollBack, Pending, Drop, Track!Reject
  <2>. QED
    BY <2>1 DEF Track!TrackNext
<1>3. CASE Confirm
  <2>1. CASE Pending /\ state' = [state EXCEPT ![run] = "valid"]
    <3>1. run = sel /\ state[sel] = "pending" /\ image[sel] # 0
      BY <1>3, <2>1 DEF Confirm, Pending
    <3>2. state'[sel] = "valid"
      BY <2>1, <3>1
    <3>3. UNCHANGED <<image, sel, failed>>
      BY <1>3 DEF Confirm, seers
    <3>4. Track!Accept
      BY <3>1, <3>2, <3>3 DEF Track!Accept
    <3>. QED
      BY <3>4 DEF Track!TrackNext
  <2>2. CASE UNCHANGED state
    BY <1>3, <2>2, Untouched DEF Confirm, seers, flash
  <2>. QED
    BY <1>3, <2>1, <2>2 DEF Confirm
<1>4. CASE Begin
  BY <1>4 DEF Begin, Pending, seers
<1>5. CASE Loaded
  BY <1>5 DEF Loaded, seers
<1>6. CASE SelectSlot
  <2>1. CASE sel' = Other(run) /\ state' = [state EXCEPT ![Other(run)] = "new"]
    <3>1. offer \in Track!Releases /\ offer > image[sel] /\ offer \notin failed
      BY <1>6 DEF SelectSlot, SequenceInv, Update, Releases, Track!Releases
    <3>2. image[Other(run)] = offer
      BY <1>6 DEF SelectSlot, SequenceInv
    <3>3. Track!Try(offer)
      BY <1>6, <2>1, <3>1, <3>2 DEF SelectSlot, seers, Track!Try
    <3>. QED
      BY <3>1, <3>3 DEF Track!TrackNext
  <2>2. CASE UNCHANGED <<sel, state>>
    BY <1>6, <2>2, Untouched DEF SelectSlot, seers, flash
  <2>. QED
    BY <1>6, <2>1, <2>2 DEF SelectSlot
<1>7. CASE UNCHANGED <<flash, failed>>
  BY <1>7, Untouched
<1>. QED
  BY <1>1, <1>2, <1>3, <1>4, <1>5, <1>6, <1>7
  DEF Next, Running, KeepRunning, Latch, DashboardTurn, SkipCheck, StoreCheck, NotFetched,
      StoreSequence, ProfileBoot, Board, FirstRefresh, Fetched, Reset, SetClock,
      InstallerSession, SelectModel, seers

(* The bootloader, the update and its judge together try one release at a  *)
(* time, never a dropped or an older one, and never lose the one that      *)
(* works (wind_ota.c:135-150, :322-335).                                   *)
THEOREM BootFollowsTrack == Spec => TrackSpec
<1>1. Init => Track!TrackInit
  BY DEF Init, Track!TrackInit, OnTrial, Slots, Releases, Track!Releases
<1>2. IInv /\ [Next]_vars => [Track!TrackNext]_(Track!trackVars)
  <2>1. CASE Next
    BY <2>1, TrackStep
  <2>2. CASE UNCHANGED vars
    BY <2>2, Untouched DEF vars, flash, seers
  <2>. QED
    BY <2>1, <2>2
<1>. QED
  BY <1>1, <1>2, BootInvariant, PTL DEF Spec, TrackSpec, Track!TrackSpec

(* What the track is for.  The release that works was never dropped, and   *)
(* one on trial is newer than it and was not dropped either: a device that *)
(* rolls back, or is reset at any step, ends on a release that has proved  *)
(* itself (wind_ota.c:135-154, :322-335).                                  *)
THEOREM WorksUndropped ==
  Spec => [](IF OnTrial
             THEN /\ image[Other(sel)] \notin failed
                  /\ image[sel] \notin failed
                  /\ image[sel] > image[Other(sel)]
             ELSE image[sel] \notin failed)
<1> DEFINE good  == IF OnTrial THEN image[Other(sel)] ELSE image[sel]
           trial == IF OnTrial THEN image[sel] ELSE 0
           Kept  == /\ good \in Nat /\ trial \in Nat
                    /\ good \notin failed
                    /\ trial # 0 => trial > good /\ trial \notin failed
<1>1. Track!TrackInit => Kept
  BY DEF Track!TrackInit, Track!Releases
<1>2. Kept /\ [Track!TrackNext]_(Track!trackVars) => Kept'
  <2>1. ASSUME Kept, NEW r \in Track!Releases, Track!Try(r)
        PROVE  Kept'
    <3>1. r \in Nat /\ trial' = r /\ good' = good /\ failed' = failed
      BY <2>1 DEF Track!Try, Track!Releases
    <3>2. r > good /\ r \notin failed
      BY <2>1 DEF Track!Try
    <3>. HIDE DEF good, trial
    <3>. QED
      BY <2>1, <3>1, <3>2
  <2>2. ASSUME Kept, Track!Accept
        PROVE  Kept'
    <3>1. trial # 0 /\ good' = trial /\ trial' = 0 /\ failed' = failed
      BY <2>2 DEF Track!Accept
    <3>. HIDE DEF good, trial
    <3>. QED
      BY <2>2, <3>1
  <2>3. ASSUME Kept, Track!Reject
        PROVE  Kept'
    <3>1. trial # 0 /\ good' = good /\ trial' = 0 /\ failed' = failed \cup {trial}
      BY <2>3 DEF Track!Reject
    <3>. HIDE DEF good, trial
    <3>. QED
      BY <2>3, <3>1
  <2>4. ASSUME Kept, UNCHANGED Track!trackVars
        PROVE  Kept'
    <3>1. good' = good /\ trial' = trial /\ failed' = failed
      BY <2>4 DEF Track!trackVars
    <3>. HIDE DEF good, trial
    <3>. QED
      BY <2>4, <3>1
  <2>. HIDE DEF Kept
  <2>. QED
    BY <2>1, <2>2, <2>3, <2>4 DEF Track!TrackNext
<1>3. IInv /\ Kept => IF OnTrial
                      THEN /\ image[Other(sel)] \notin failed
                           /\ image[sel] \notin failed
                           /\ image[sel] > image[Other(sel)]
                      ELSE image[sel] \notin failed
  BY DEF IInv, SlotInv, FallbackKept, OnTrial
<1>. HIDE DEF Kept
<1>. QED
  BY <1>1, <1>2, <1>3, BootInvariant, BootFollowsTrack, PTL DEF TrackSpec, Track!TrackSpec
=============================================================================
