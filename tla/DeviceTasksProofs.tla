-------------------------- MODULE DeviceTasksProofs --------------------------
(***************************************************************************)
(* The pending count is exact, one sweep runs at a time and none that was  *)
(* asked for is lost, and no task waits with work announced for it: for    *)
(* any queue and any number of events of the environment.                  *)
(***************************************************************************)
EXTENDS DeviceTasks, TLAPS

(* The state is 0 exactly when nobody sweeps or creates the task that      *)
(* will; a sweep that did not end has been asked to run again.             *)
QuickClaimed ==
  /\ quick = 0 <=> Claimants = {}
  /\ \A t \in Starters : sweep[t] = "again" => quick = 2

(* Wherever the setup-forecast task is, except about to take the flag, a   *)
(* flag that is set is announced; and its handle is stored once it exists, *)
(* or about to be.                                                         *)
Announced ==
  /\ setup /\ pc["setup"] \notin {"none", "woken"}
     => setupNote \/ At("apply", "tell") \/ pc["main"] \in {"store", "look"}
  /\ ~At("setup", "none") => handle \/ At("main", "store")
  /\ ~At("setup", "none") => pc["main"] \in {"store", "look", "ready"}

SweepInv == OneSweep /\ QuickClaimed /\ SweepKept
IInv == TypeOK /\ PendingCounts /\ SweepInv /\ RequestNotified /\ Announced

-----------------------------------------------------------------------------
(* A boot starts in the inductive invariant, from a sleep or a reset.       *)
THEOREM Initial == Init => IInv
<1> SUFFICES ASSUME Init PROVE IInv
  OBVIOUS
<1> USE TasksAssumption DEF Init, At
<1>0. PICK main \in {"start", "create"} :
        pc = [t \in Tasks |-> CASE t = "dashboard" -> "top" [] t = "setup" -> "none"
                                [] t = "main" -> main [] OTHER -> "idle"]
  OBVIOUS
<1>1. /\ pc \in [Tasks -> Points]
      /\ pc["dashboard"] = "top" /\ pc["setup"] = "none" /\ pc["main"] = main
      /\ pc["input"] = "idle" /\ pc["actions"] = "idle"
  <2>1. \A t \in Tasks : t \notin {"dashboard", "setup", "main"} => pc[t] = "idle"
    BY <1>0
  <2>2. pc["dashboard"] = "top" /\ pc["setup"] = "none" /\ pc["main"] = main
    BY <1>0 DEF Tasks, Starters
  <2>3. \A t \in Tasks : pc[t] \in Points
    BY <2>1, <2>2 DEF Points
  <2>4. DOMAIN pc = Tasks /\ pc = [t \in Tasks |-> pc[t]]
    BY <1>0
  <2> QED BY <2>1, <2>2, <2>3, <2>4 DEF Tasks
<1>2. TypeOK
  <2>1. left \in 0..MaxEvents /\ queue \in 0..QueueSize /\ pending \in Nat /\ quick \in 0..2
    OBVIOUS
  <2>2. sweep \in [Starters -> {"none", "sweep", "finish", "again"}]
    OBVIOUS
  <2> HIDE DEF Init
  <2>3. /\ owed = FALSE /\ request \in BOOLEAN /\ note = FALSE /\ requested = FALSE
        /\ setup \in BOOLEAN /\ handle = FALSE /\ setupNote = FALSE /\ retry = FALSE
        /\ installer = FALSE
    BY DEF Init
  <2> QED BY <1>1, <2>1, <2>2, <2>3 DEF TypeOK
<1>3. PendingCounts /\ RequestNotified /\ Announced
  BY <1>1 DEF PendingCounts, RequestNotified, Announced
<1>4. Claimants = {}
  BY <1>1 DEF Claimants, Starters
<1>5. SweepInv
  BY <1>4 DEF SweepInv, OneSweep, QuickClaimed, SweepKept
<1> QED BY <1>2, <1>3, <1>5 DEF IInv

-----------------------------------------------------------------------------
(* Where a task goes, and that the others stay. *)
LEMMA Moves ==
  ASSUME TypeOK, NEW t \in Tasks, NEW p \in Points, Goto(t, p)
  PROVE  /\ pc' \in [Tasks -> Points] /\ pc'[t] = p
         /\ \A u \in Tasks : u # t => pc'[u] = pc[u]
BY DEF TypeOK, Goto

(* Where a starter continues when its start is done.                       *)
LEMMA AfterIsPoint == \A t \in Starters : After(t) \in {"top", "wait", "create"}
BY DEF After, Starters

(* Every step keeps the types; the count never goes below zero because it  *)
(* is exact.                                                               *)
LEMMA TypeStep == TypeOK /\ PendingCounts /\ Next => TypeOK'
<1> SUFFICES ASSUME TypeOK, PendingCounts, Next PROVE TypeOK'
  OBVIOUS
<1> USE TasksAssumption
<1>1. CASE Input
  <2>1. CASE Count
    BY <2>1 DEF TypeOK, Count, Event, Goto, At, Tasks, Points, flagVars, quickVars, setupVars
  <2>2. CASE Send
    BY <2>2 DEF TypeOK, Send, Goto, At, Tasks, Points, quickVars, setupVars
  <2>3. CASE Overflow
    BY <2>3 DEF TypeOK, Overflow, Uncounted, PendingCounts, Goto, At, Tasks, Points, flagVars, quickVars, setupVars
  <2> QED BY <1>1, <2>1, <2>2, <2>3 DEF Input
<1>2. CASE Actions
  <2>1. CASE Receive
    BY <2>1 DEF TypeOK, Receive, Goto, At, Tasks, Points, flagVars, quickVars, setupVars
  <2>2. CASE Ask \/ Tell
    BY <2>2, ZenonT(30) DEF TypeOK, Ask, Tell, Goto, At, Tasks, Points, inputVars, quickVars, setupVars
  <2>3. CASE Done
    BY <2>3 DEF TypeOK, Done, Uncounted, PendingCounts, Goto, At, Tasks, Points, flagVars, quickVars, setupVars
  <2> QED BY <1>2, <2>1, <2>2, <2>3 DEF Actions
<1>3. CASE Dashboard \/ Due
  <2>1. CASE Top
    BY <2>1 DEF TypeOK, Top, Goto, At, Tasks, Starters, Points,
         inputVars, quickVars, setupVars
  <2>2. CASE Notified
    BY <2>2 DEF TypeOK, Notified, Goto, At, Tasks, Starters, Points,
         inputVars, quickVars, setupVars
  <2>3. CASE Woken
    BY <2>3 DEF TypeOK, Woken, Goto, At, Tasks, Starters, Points,
         inputVars, quickVars, setupVars
  <2>4. CASE Drain
    BY <2>4 DEF TypeOK, Drain, Goto, At, Tasks, Starters, Points,
         inputVars, quickVars, setupVars, flagVars
  <2>5. CASE Settle
    BY <2>5 DEF TypeOK, Settle, Goto, At, Tasks, Starters, Points,
         inputVars, quickVars, setupVars
  <2>6. CASE Gate
    BY <2>6 DEF TypeOK, Gate, Goto, At, Tasks, Starters, Points,
         inputVars, quickVars, setupVars
  <2>7. CASE Due
    BY <2>7 DEF TypeOK, Due, Goto, At, Tasks, Starters, Points,
         inputVars, quickVars, setupVars, flagVars
  <2> QED BY <1>3, <2>1, <2>2, <2>3, <2>4, <2>5, <2>6, <2>7 DEF Dashboard
<1>4. CASE Setup
  <2>1. CASE WakeSetup
    BY <2>1 DEF TypeOK, WakeSetup, Goto, At, Tasks, Starters, Points,
         inputVars, flagVars, quickVars
  <2>2. CASE TakeSetup
    BY <2>2 DEF TypeOK, TakeSetup, Goto, At, Tasks, Starters, Points,
         inputVars, flagVars, quickVars
  <2>3. CASE Fetch
    BY <2>3 DEF TypeOK, Fetch, Goto, At, Tasks, Starters, Points,
         inputVars, flagVars, quickVars
  <2> QED BY <1>4, <2>1, <2>2, <2>3 DEF Setup
<1>5. CASE Install
  <2>1. CASE Installed
    BY <2>1 DEF TypeOK, Installed, Goto, At, Tasks, Starters, Points,
         Event, inputVars, flagVars, quickVars
  <2>2. CASE TellSetup
    BY <2>2 DEF TypeOK, TellSetup, Goto, At, Tasks, Starters, Points,
         inputVars, flagVars, quickVars
  <2> QED BY <1>5, <2>1, <2>2 DEF Install
<1>6. CASE Boot
  <2>1. CASE CreateSetup
    BY <2>1 DEF TypeOK, CreateSetup, Goto, At, Tasks, Starters, Points,
         inputVars, flagVars, quickVars, setupVars
  <2>2. CASE StoreHandle
    BY <2>2 DEF TypeOK, StoreHandle, Goto, At, Tasks, Starters, Points,
         inputVars, flagVars, quickVars
  <2>3. CASE Look
    BY <2>3 DEF TypeOK, Look, Goto, At, Tasks, Starters, Points,
         inputVars, flagVars, quickVars
  <2> QED BY <1>6, <2>1, <2>2, <2>3 DEF Boot
<1>7. ASSUME NEW t \in Starters, StartSweep(t) PROVE TypeOK'
  <2>1. t \in Tasks /\ After(t) \in Points /\ {"spawn", "mark", "start"} \subseteq Points
    BY AfterIsPoint DEF Tasks, Points
  <2>2. CASE Claim(t)
    <3>1. PICK p \in Points : Goto(t, p)
      BY <2>1, <2>2 DEF Claim, TypeOK
    <3> QED BY <2>1, <2>2, <3>1, Moves DEF TypeOK, Claim, inputVars, flagVars, setupVars
  <2>3. CASE Mark(t)
    <3>1. PICK p \in Points : Goto(t, p)
      BY <2>1, <2>3 DEF Mark
    <3> QED BY <2>1, <2>3, <3>1, Moves DEF TypeOK, Mark, inputVars, flagVars, setupVars
  <2>4. CASE Spawn(t)
    <3>1. PICK p \in Points : Goto(t, p)
      BY <2>1, <2>4 DEF Spawn
    <3> QED BY <2>1, <2>4, <3>1, Moves DEF TypeOK, Spawn, inputVars, flagVars, setupVars
  <2>5. CASE SpawnFailed(t)
    <3>1. PICK p \in Points : Goto(t, p)
      BY <2>1, <2>5 DEF SpawnFailed
    <3>2. quick' \in 0..2 /\ left' \in 0..MaxEvents
      BY <2>5 DEF TypeOK, SpawnFailed, Event
    <3> QED BY <2>1, <2>5, <3>1, <3>2, Moves DEF TypeOK, SpawnFailed, inputVars, flagVars, setupVars
  <2> QED BY <1>7, <2>2, <2>3, <2>4, <2>5 DEF StartSweep
<1>8. ASSUME NEW t \in Starters, Sweeping(t) PROVE TypeOK'
  <2>1. CASE Sweep(t)
    BY <2>1 DEF TypeOK, Sweep, inputVars, flagVars, setupVars
  <2>2. CASE Finish(t)
    BY <2>2 DEF TypeOK, Finish, inputVars, flagVars, setupVars
  <2>3. CASE Again(t)
    BY <2>3 DEF TypeOK, Again, inputVars, flagVars, setupVars
  <2> QED BY <1>8, <2>1, <2>2, <2>3 DEF Sweeping
<1>9. CASE BeginSession
  BY <1>9 DEF TypeOK, BeginSession, Event, inputVars, flagVars, quickVars, setupVars
<1>10. CASE EndSession
  BY <1>10 DEF TypeOK, EndSession, inputVars, flagVars, quickVars, setupVars
<1> QED BY <1>1, <1>2, <1>3, <1>4, <1>5, <1>6, <1>7, <1>8, <1>9, <1>10 DEF Next

-----------------------------------------------------------------------------
(* A command is counted before it is sent and uncounted when it is done or *)
(* does not fit, and no other step moves one.                              *)
LEMMA CountStep == TypeOK /\ PendingCounts /\ Next => PendingCounts'
<1> SUFFICES ASSUME TypeOK, PendingCounts, Next PROVE PendingCounts'
  OBVIOUS
<1>1. ASSUME UNCHANGED inputVars, pc'["input"] = pc["input"], pc'["actions"] = pc["actions"]
      PROVE  PendingCounts'
  BY <1>1 DEF PendingCounts, At, inputVars
<1>2. CASE Input
  <2>1. CASE Count
    BY <2>1 DEF Count, TypeOK, PendingCounts, Goto, At, Tasks
  <2>2. CASE Send
    BY <2>2 DEF Send, TypeOK, PendingCounts, Goto, At, Tasks
  <2>3. CASE Overflow
    BY <2>3 DEF Overflow, Uncounted, TypeOK, PendingCounts, Goto, At, Tasks
  <2> QED BY <1>2, <2>1, <2>2, <2>3 DEF Input
<1>3. CASE Actions
  <2>1. CASE Receive
    BY <2>1 DEF Receive, TypeOK, PendingCounts, Goto, At, Tasks
  <2>2. CASE Ask
    BY <2>2 DEF Ask, TypeOK, PendingCounts, Goto, At, Tasks, inputVars
  <2>3. CASE Tell
    BY <2>3 DEF Tell, TypeOK, PendingCounts, Goto, At, Tasks, inputVars
  <2>4. CASE Done
    BY <2>4 DEF Done, Uncounted, TypeOK, PendingCounts, Goto, At, Tasks
  <2> QED BY <1>3, <2>1, <2>2, <2>3, <2>4 DEF Actions
<1>4. CASE Dashboard \/ Due
  BY <1>1, <1>4 DEF Dashboard, Due, Top, Notified, Woken, Drain, Settle, Gate, TypeOK, Goto, Tasks
<1>5. CASE Setup
  BY <1>1, <1>5 DEF Setup, WakeSetup, TakeSetup, Fetch, TypeOK, Goto, Tasks
<1>6. CASE Install \/ Boot
  BY <1>1, <1>6 DEF Install, Installed, TellSetup, Boot, CreateSetup, StoreHandle, Look,
       TypeOK, Goto, Tasks
<1>7. ASSUME NEW t \in Starters, StartSweep(t) PROVE PendingCounts'
  <2>1. UNCHANGED inputVars
    BY <1>7 DEF StartSweep, Claim, Mark, Spawn, SpawnFailed
  <2>2. \A u \in Tasks : u # t => pc'[u] = pc[u]
    BY <1>7 DEF StartSweep, Claim, Mark, Spawn, SpawnFailed, Goto, TypeOK
  <2> QED BY <1>1, <2>1, <2>2 DEF Starters, Tasks
<1>8. ASSUME NEW t \in Starters, Sweeping(t) PROVE PendingCounts'
  BY <1>1, <1>8 DEF Sweeping, Sweep, Finish, Again
<1>9. CASE BeginSession \/ EndSession
  BY <1>1, <1>9 DEF BeginSession, EndSession
<1> QED BY <1>2, <1>3, <1>4, <1>5, <1>6, <1>7, <1>8, <1>9 DEF Next

-----------------------------------------------------------------------------
(* Only the two loops of compare-and-swaps touch the sweep.                *)
LEMMA SweepFrame ==
  ASSUME SweepInv, UNCHANGED quickVars,
         \A t \in Starters : At(t, "spawn") <=> At(t, "spawn")'
  PROVE  SweepInv'
<1>1. Claimants' = Claimants /\ Claimants \subseteq Starters
  BY DEF Claimants, quickVars
<1>2. OneSweep'
  BY <1>1 DEF SweepInv, OneSweep, quickVars
<1>3. QuickClaimed'
  BY <1>1 DEF SweepInv, QuickClaimed, quickVars
<1>4. SweepKept'
  BY DEF SweepInv, SweepKept, quickVars
<1> QED BY <1>2, <1>3, <1>4 DEF SweepInv

(* A start takes the idle sweep, or asks the running one to go on.         *)
LEMMA StartKeepsSweep ==
  ASSUME TypeOK, SweepInv, NEW t \in Starters, StartSweep(t)
  PROVE  SweepInv'
<1>0. /\ t \in Tasks /\ After(t) # "spawn" /\ quick \in 0..2
      /\ \A u \in Starters : u # t => pc'[u] = pc[u]
  BY AfterIsPoint DEF TypeOK, Tasks, StartSweep, Claim, Mark, Spawn, SpawnFailed, Goto
<1>1. CASE Claim(t) /\ quick = 0
  <2>1. pc'[t] = "spawn" /\ sweep' = sweep /\ quick' = 1
    BY <1>0, <1>1 DEF Claim, Goto, TypeOK
  <2>2. Claimants = {} /\ \A u \in Starters : sweep[u] = "none"
    BY <1>1 DEF SweepInv, QuickClaimed, Claimants
  <2>3. Claimants' = {t}
    BY <1>0, <2>1, <2>2 DEF Claimants, At
  <2> QED BY <2>1, <2>2, <2>3 DEF SweepInv, OneSweep, QuickClaimed, SweepKept, At
<1>2. CASE Claim(t) /\ quick # 0
  <2>1. pc[t] = "start" /\ pc'[t] # "spawn" /\ UNCHANGED <<quick, sweep>> /\ owed' = (owed \/ quick # 1)
    BY <1>0, <1>2 DEF Claim, Goto, At, TypeOK
  <2>2. \A u \in Starters : At(u, "spawn") <=> At(u, "spawn")'
    BY <1>0, <2>1 DEF At
  <2>3. \E u \in Starters : At(u, "spawn") \/ sweep[u] # "none"
    <3>1. Claimants # {}
      BY <1>2 DEF SweepInv, QuickClaimed
    <3> QED BY <3>1 DEF Claimants
  <2>4. SweepKept'
    <3>1. CASE quick = 1
      <4>1. owed' = owed
        BY <2>1, <3>1 DEF TypeOK
      <4> QED BY <4>1, <2>1, <2>2 DEF SweepInv, SweepKept
    <3>2. CASE quick = 2
      BY <3>2, <2>1, <2>2, <2>3 DEF SweepKept
    <3> QED BY <1>0, <1>2, <3>1, <3>2
  <2>5. Claimants' = Claimants /\ Claimants \subseteq Starters
    BY <2>1, <2>2 DEF Claimants
  <2>6. OneSweep'
    BY <2>1, <2>2, <2>5 DEF SweepInv, OneSweep
  <2>7. QuickClaimed'
    BY <2>1, <2>5 DEF SweepInv, QuickClaimed
  <2> QED BY <2>4, <2>6, <2>7 DEF SweepInv
<1>3. CASE Mark(t)
  <2>1. /\ pc[t] = "mark" /\ pc'[t] # "spawn" /\ sweep' = sweep
        /\ quick' = (IF quick = 1 THEN 2 ELSE quick) /\ owed' = (owed \/ quick = 1)
    BY <1>0, <1>3 DEF Mark, Goto, At, TypeOK
  <2>2. \A u \in Starters : At(u, "spawn") <=> At(u, "spawn")'
    BY <1>0, <2>1 DEF At
  <2>3. quick = 1 => \E u \in Starters : At(u, "spawn") \/ sweep[u] # "none"
    BY DEF SweepInv, QuickClaimed, Claimants
  <2>4. SweepKept'
    BY <1>0, <2>1, <2>2, <2>3 DEF SweepInv, SweepKept
  <2>5. Claimants' = Claimants /\ Claimants \subseteq Starters
    BY <2>1, <2>2 DEF Claimants
  <2>6. OneSweep'
    BY <2>1, <2>2, <2>5 DEF SweepInv, OneSweep
  <2>7. QuickClaimed'
    BY <1>0, <2>1, <2>5 DEF SweepInv, QuickClaimed
  <2> QED BY <2>4, <2>6, <2>7 DEF SweepInv
<1>4. CASE Spawn(t) \/ SpawnFailed(t)
  <2>1. At(t, "spawn") /\ pc'[t] # "spawn" /\ owed' = FALSE
    BY <1>0, <1>4 DEF Spawn, SpawnFailed, Goto, At, TypeOK
  <2>2. Claimants = {t} /\ \A u \in Starters : sweep[u] = "none"
    BY <2>1 DEF SweepInv, OneSweep, Claimants
  <2>3. CASE Spawn(t)
    <3>1. quick' = quick /\ quick # 0 /\ sweep'[t] = "sweep" /\ \A u \in Starters : u # t => sweep'[u] = "none"
      BY <2>2, <2>3 DEF Spawn, TypeOK, SweepInv, QuickClaimed
    <3>2. Claimants' = {t}
      BY <1>0, <2>1, <2>2, <3>1 DEF Claimants, At
    <3> QED BY <2>1, <3>1, <3>2 DEF SweepInv, OneSweep, QuickClaimed, SweepKept, At
  <2>4. CASE SpawnFailed(t)
    <3>1. quick' = 0 /\ sweep' = sweep
      BY <2>4 DEF SpawnFailed
    <3>2. Claimants' = {}
      BY <1>0, <2>1, <2>2, <3>1 DEF Claimants, At
    <3> QED BY <2>1, <2>2, <3>1, <3>2 DEF SweepInv, OneSweep, QuickClaimed, SweepKept
  <2> QED BY <1>4, <2>3, <2>4
<1> QED BY <1>1, <1>2, <1>3, <1>4 DEF StartSweep

(* A sweep ends only when nobody has asked for another.                    *)
LEMMA EndKeepsSweep ==
  ASSUME TypeOK, SweepInv, NEW t \in Starters, Sweeping(t)
  PROVE  SweepInv'
<1>1. /\ sweep[t] # "none" /\ pc' = pc /\ quick \in 0..2
      /\ \A u \in Starters : u # t => sweep'[u] = sweep[u]
  BY DEF TypeOK, Sweeping, Sweep, Finish, Again
<1>2. /\ t \in Claimants /\ quick # 0
      /\ \A u \in Starters : ~At(u, "spawn") /\ (u # t => sweep[u] = "none")
  BY <1>1 DEF SweepInv, OneSweep, QuickClaimed, Claimants
<1>3. CASE Sweep(t)
  <2>1. quick' = quick /\ owed' = owed /\ sweep'[t] = "finish"
    BY <1>3 DEF Sweep, TypeOK
  <2>2. Claimants' = {t}
    BY <1>1, <1>2, <2>1 DEF Claimants, At
  <2> QED BY <1>1, <1>2, <2>1, <2>2 DEF SweepInv, OneSweep, QuickClaimed, SweepKept, At
<1>4. CASE Finish(t) /\ quick = 1
  <2>1. quick' = 0 /\ owed' = owed /\ sweep'[t] = "none"
    BY <1>4 DEF Finish, TypeOK
  <2>2. Claimants' = {}
    BY <1>1, <1>2, <2>1 DEF Claimants, At
  <2>3. ~owed
    BY <1>2, <1>4 DEF SweepInv, SweepKept
  <2> QED BY <1>1, <1>2, <2>1, <2>2, <2>3 DEF SweepInv, OneSweep, QuickClaimed, SweepKept
<1>5. CASE Finish(t) /\ quick = 2
  <2>1. quick' = 2 /\ owed' = owed /\ sweep'[t] = "again"
    BY <1>5 DEF Finish, TypeOK
  <2>2. Claimants' = {t}
    BY <1>1, <1>2, <2>1 DEF Claimants, At
  <2> QED BY <1>1, <1>2, <2>1, <2>2 DEF SweepInv, OneSweep, QuickClaimed, SweepKept, At
<1>6. CASE Again(t)
  <2>1. quick = 2
    BY <1>6 DEF Again, SweepInv, QuickClaimed
  <2>2. quick' = 1 /\ owed' = FALSE /\ sweep'[t] = "sweep"
    BY <1>6, <2>1 DEF Again, TypeOK
  <2>3. Claimants' = {t}
    BY <1>1, <1>2, <2>2 DEF Claimants, At
  <2> QED BY <1>1, <1>2, <2>2, <2>3 DEF SweepInv, OneSweep, QuickClaimed, SweepKept, At
<1> QED BY <1>1, <1>2, <1>3, <1>4, <1>5, <1>6 DEF Sweeping

(* Every step keeps the facts about the sweep.                             *)
LEMMA SweepStep == TypeOK /\ SweepInv /\ Announced /\ Next => SweepInv'
<1> SUFFICES ASSUME TypeOK, SweepInv, Announced, Next PROVE SweepInv'
  OBVIOUS
<1>1. CASE \E t \in Starters : StartSweep(t) \/ Sweeping(t)
  BY <1>1, StartKeepsSweep, EndKeepsSweep
<1>2. CASE Input \/ Actions \/ Install \/ BeginSession \/ EndSession
  <2>1. UNCHANGED quickVars /\ \A t \in Starters : pc'[t] = pc[t]
    <3>1. CASE Input
      BY <3>1 DEF Input, Count, Send, Overflow, TypeOK, Goto, Tasks, Starters
    <3>2. CASE Actions
      BY <3>2 DEF Actions, Receive, Ask, Tell, Done, TypeOK, Goto, Tasks, Starters
    <3>3. CASE Install
      BY <3>3 DEF Install, Installed, TellSetup, TypeOK, Goto, Tasks, Starters
    <3>4. CASE BeginSession \/ EndSession
      BY <3>4 DEF BeginSession, EndSession
    <3> QED BY <1>2, <3>1, <3>2, <3>3, <3>4
  <2> QED BY <2>1, SweepFrame DEF At
<1>3. CASE Dashboard \/ Due
  <2>1. UNCHANGED quickVars /\ pc["dashboard"] # "spawn" /\ pc'["dashboard"] # "spawn"
    BY <1>3 DEF Dashboard, Due, Top, Notified, Woken, Drain, Settle, Gate, At, TypeOK, Goto, Tasks, Starters
  <2>2. pc'["setup"] = pc["setup"] /\ pc'["main"] = pc["main"]
    BY <1>3 DEF Dashboard, Due, Top, Notified, Woken, Drain, Settle, Gate, TypeOK, Goto, Tasks, Starters
  <2> QED BY <2>1, <2>2, SweepFrame DEF At, Starters
<1>4. CASE Setup
  <2>1. UNCHANGED quickVars /\ pc["setup"] # "spawn" /\ pc'["setup"] # "spawn"
    BY <1>4 DEF Setup, WakeSetup, TakeSetup, Fetch, At, TypeOK, Goto, Tasks, Starters
  <2>2. pc'["dashboard"] = pc["dashboard"] /\ pc'["main"] = pc["main"]
    BY <1>4 DEF Setup, WakeSetup, TakeSetup, Fetch, TypeOK, Goto, Tasks, Starters
  <2> QED BY <2>1, <2>2, SweepFrame DEF At, Starters
<1>5. CASE StoreHandle \/ Look
  <2>1. UNCHANGED quickVars /\ pc["main"] # "spawn" /\ pc'["main"] # "spawn"
    BY <1>5 DEF StoreHandle, Look, At, TypeOK, Goto, Tasks, Starters
  <2>2. pc'["dashboard"] = pc["dashboard"] /\ pc'["setup"] = pc["setup"]
    BY <1>5 DEF StoreHandle, Look, TypeOK, Goto, Tasks, Starters
  <2> QED BY <2>1, <2>2, SweepFrame DEF At, Starters
<1>6. CASE CreateSetup
  <2>1. UNCHANGED quickVars /\ \A t \in Starters : pc[t] # "spawn" => pc'[t] # "spawn"
    BY <1>6 DEF CreateSetup, TypeOK, Goto, Tasks, Starters
  <2>2. \A t \in Starters : pc[t] = "spawn" => pc'[t] = "spawn"
    BY <1>6 DEF CreateSetup, Announced, At, TypeOK, Goto, Tasks, Starters
  <2> QED BY <2>1, <2>2, SweepFrame DEF At
<1> QED BY <1>1, <1>2, <1>3, <1>4, <1>5, <1>6 DEF Next, Boot

-----------------------------------------------------------------------------
(* The dashboard task looks for a request before it waits, and the action  *)
(* task tells it after it has set one.                                     *)
LEMMA RequestStep == TypeOK /\ RequestNotified /\ Next => RequestNotified'
<1> SUFFICES ASSUME TypeOK, RequestNotified, Next PROVE RequestNotified'
  OBVIOUS
<1>1. ASSUME pc'["dashboard"] = pc["dashboard"], pc'["actions"] = pc["actions"],
             UNCHANGED <<request, note>>
      PROVE  RequestNotified'
  BY <1>1 DEF RequestNotified, At
<1>2. CASE Input \/ Actions
  BY <1>2 DEF Input, Count, Send, Overflow, Actions, Receive, Ask, Tell, Done, flagVars,
       RequestNotified, TypeOK, Goto, At, Tasks, Starters
<1>3. CASE Dashboard \/ Due
  BY <1>3 DEF Dashboard, Due, Top, Notified, Woken, Drain, Settle, Gate, flagVars,
       RequestNotified, TypeOK, Goto, At, Tasks, Starters
<1>4. CASE Setup \/ Install \/ Boot
  <2>1. pc'["dashboard"] = pc["dashboard"] /\ pc'["actions"] = pc["actions"]
    BY <1>4 DEF Setup, WakeSetup, TakeSetup, Fetch, Install, Installed, TellSetup,
         Boot, CreateSetup, StoreHandle, Look, TypeOK, Goto, Tasks, Starters
  <2>2. UNCHANGED <<request, note>>
    BY <1>4 DEF Setup, WakeSetup, TakeSetup, Fetch, Install, Installed, TellSetup,
         Boot, CreateSetup, StoreHandle, Look, flagVars
  <2> QED BY <1>1, <2>1, <2>2
<1>5. ASSUME NEW t \in Starters, StartSweep(t) PROVE RequestNotified'
  <2>1. UNCHANGED <<request, note>>
    BY <1>5 DEF StartSweep, Claim, Mark, Spawn, SpawnFailed, flagVars
  <2>2. pc'["dashboard"] # "wait" \/ pc'["dashboard"] = pc["dashboard"]
    BY <1>5 DEF StartSweep, Claim, Mark, Spawn, SpawnFailed, After, Goto, TypeOK, Tasks, Starters
  <2>3. pc'["actions"] = pc["actions"]
    BY <1>5 DEF StartSweep, Claim, Mark, Spawn, SpawnFailed, Goto, TypeOK, Tasks, Starters
  <2> QED BY <2>1, <2>2, <2>3 DEF RequestNotified, At
<1>6. ASSUME NEW t \in Starters, Sweeping(t) PROVE RequestNotified'
  BY <1>1, <1>6 DEF Sweeping, Sweep, Finish, Again, flagVars
<1>7. CASE BeginSession \/ EndSession
  BY <1>1, <1>7 DEF BeginSession, EndSession, flagVars
<1> QED BY <1>2, <1>3, <1>4, <1>5, <1>6, <1>7 DEF Next

(* app_main stores the handle before it looks at the flag, the apply task  *)
(* sets the flag before it looks at the handle.                            *)
LEMMA SetupStep == TypeOK /\ Announced /\ Next => Announced'
<1> SUFFICES ASSUME TypeOK, Announced, Next PROVE Announced'
  OBVIOUS
<1>1. ASSUME pc'["setup"] = pc["setup"], pc'["main"] = pc["main"], pc'["apply"] = pc["apply"],
             UNCHANGED setupVars
      PROVE  Announced'
  BY <1>1 DEF Announced, At, setupVars
<1>2. CASE Input \/ Actions \/ Dashboard \/ Due
  <2>1. pc'["setup"] = pc["setup"] /\ pc'["main"] = pc["main"] /\ pc'["apply"] = pc["apply"]
    BY <1>2 DEF Input, Count, Send, Overflow, Actions, Receive, Ask, Tell, Done,
         Dashboard, Due, Top, Notified, Woken, Drain, Settle, Gate, TypeOK, Goto, Tasks, Starters
  <2>2. UNCHANGED setupVars
    BY <1>2 DEF Input, Count, Send, Overflow, Actions, Receive, Ask, Tell, Done,
         Dashboard, Due, Top, Notified, Woken, Drain, Settle, Gate
  <2> QED BY <1>1, <2>1, <2>2
<1>3. CASE Setup
  BY <1>3 DEF Setup, WakeSetup, TakeSetup, Fetch, Announced, TypeOK, Goto, At, Tasks, Starters
<1>4. CASE Install
  BY <1>4 DEF Install, Installed, TellSetup, Announced, TypeOK, Goto, At, Tasks, Starters
<1>5. CASE Boot
  BY <1>5 DEF Boot, CreateSetup, StoreHandle, Look, setupVars, Announced, TypeOK, Goto, At, Tasks, Starters
<1>6. ASSUME NEW t \in Starters, StartSweep(t) PROVE Announced'
  <2>1. UNCHANGED setupVars /\ pc[t] \in {"start", "mark", "spawn"}
    BY <1>6 DEF StartSweep, Claim, Mark, Spawn, SpawnFailed, At
  <2>2. \A u \in Tasks : u # t => pc'[u] = pc[u]
    BY <1>6 DEF StartSweep, Claim, Mark, Spawn, SpawnFailed, Goto, TypeOK
  <2>3. pc'[t] \in {"start", "mark", "spawn", "top", "wait", "create"}
    BY <1>6, AfterIsPoint DEF StartSweep, Claim, Mark, Spawn, SpawnFailed, Goto, TypeOK, Tasks
  <2> QED BY <2>1, <2>2, <2>3 DEF Announced, At, setupVars, Tasks, Starters
<1>7. ASSUME NEW t \in Starters, Sweeping(t) PROVE Announced'
  BY <1>1, <1>7 DEF Sweeping, Sweep, Finish, Again
<1>8. CASE BeginSession \/ EndSession
  BY <1>1, <1>8 DEF BeginSession, EndSession
<1> QED BY <1>2, <1>3, <1>4, <1>5, <1>6, <1>7, <1>8 DEF Next

-----------------------------------------------------------------------------
(* A stuttering step keeps the invariant.                                  *)
LEMMA Stutter == IInv /\ UNCHANGED vars => IInv'
<1> SUFFICES ASSUME IInv, UNCHANGED vars PROVE IInv'
  OBVIOUS
<1>1. TypeOK'
  BY DEF IInv, TypeOK, vars, inputVars, flagVars, quickVars, setupVars
<1>2. PendingCounts' /\ RequestNotified' /\ Announced'
  BY DEF IInv, PendingCounts, RequestNotified, Announced, At, vars, inputVars, flagVars, setupVars
<1>3. SweepInv'
  BY SweepFrame DEF IInv, At, vars
<1> QED BY <1>1, <1>2, <1>3 DEF IInv

(* Every step of every task and of the environment keeps the invariant.    *)
THEOREM Invariance == Spec => []IInv
<1>1. IInv /\ Next => IInv'
  BY TypeStep, CountStep, SweepStep, RequestStep, SetupStep DEF IInv
<1>2. IInv /\ [Next]_vars => IInv'
  BY <1>1, Stutter
<1> QED BY Initial, <1>2, PTL DEF Spec

(* Every variable keeps its type, and the queue never exceeds its size.    *)
THEOREM TypeCorrect == Spec => []TypeOK
<1>1. IInv => TypeOK
  BY DEF IInv
<1> QED BY Invariance, <1>1, PTL

(* The pending count is exactly the commands on their way.                 *)
THEOREM CountIsExact == Spec => []PendingCounts
<1>1. IInv => PendingCounts
  BY DEF IInv
<1> QED BY Invariance, <1>1, PTL

(* One sweep runs at a time.                                               *)
THEOREM SingleSweep == Spec => []OneSweep
<1>1. IInv => OneSweep
  BY DEF IInv, SweepInv
<1> QED BY Invariance, <1>1, PTL

(* A sweep that was asked for is not lost to the end of a running one.     *)
THEOREM NoLostSweep == Spec => []SweepKept
<1>1. IInv => SweepKept
  BY DEF IInv, SweepInv
<1> QED BY Invariance, <1>1, PTL

(* Neither the dashboard task nor the setup-forecast task waits with its   *)
(* request set and nobody about to notify it.                              *)
THEOREM NoticesKept == Spec => []NoLostNotice
<1>1. IInv => RequestNotified
  BY DEF IInv
<1>2. IInv => SetupNotified
  BY DEF IInv, Announced, SetupNotified, At
<1>3. IInv => NoLostNotice
  BY <1>1, <1>2 DEF NoLostNotice
<1> QED BY Invariance, <1>3, PTL
=============================================================================
