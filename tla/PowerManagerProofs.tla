------------------------- MODULE PowerManagerProofs -------------------------
(***************************************************************************)
(* The work counter implements the gate, the sleep transition has one      *)
(* owner and the empty-battery screen is attempted once, for any finite    *)
(* set of working tasks and any number of crashes.                         *)
(***************************************************************************)
EXTENDS PowerManager, FiniteSetTheorems, TLAPS

(* The counter counts the tasks whose work has begun. *)
Counted == work = Cardinality(Holders)

(* The task that performs the transition has set the top bit, and only a   *)
(* transition forces the gate.                                             *)
Claimed ==
  /\ \A t \in Tasks : Owns(t) => pending
  /\ forced => pending

(* From the battery check until its sleep returns a task holds the lock. *)
Holding(t) ==
  \/ pc[t] \in {"guard", "latch", "render"}
  \/ pc[t] \in {"check", "commit", "prepare", "down"} /\ why[t] = "battery"
Locked == \A t \in Tasks : Holding(t) => lock = t

(* A screen that was attempted is on record, and no other one is about to  *)
(* be, as long as no latch was lost.                                       *)
Attempted ==
  screens > 0 /\ ~lost =>
    /\ latched \/ (~loaded /\ nvs)
    /\ \A t \in Tasks : pc[t] # "latch"

IInv ==
  /\ TypeOK /\ Counted
  /\ Claimed /\ OneOwner
  /\ Locked
  /\ Attempted /\ EmptyScreenOnce

-----------------------------------------------------------------------------
(* How one task's move changes who works. *)
LEMMA HoldersFinite == IsFiniteSet(Holders) /\ IsFiniteSet(Tasks)
<1>1. IsFiniteSet(Workers \cup {Main}) 
  BY PowerAssumption, FS_AddElement
<1>2. IsFiniteSet((Workers \cup {Main}) \cup {Timer})
  BY <1>1, FS_AddElement
<1>3. IsFiniteSet(((Workers \cup {Main}) \cup {Timer}) \cup {Buttons})
  BY <1>2, FS_AddElement
<1>4. Tasks = ((Workers \cup {Main}) \cup {Timer}) \cup {Buttons}
  BY DEF Tasks
<1>5. IsFiniteSet(Tasks)
  BY <1>3, <1>4
<1>6. Holders \in SUBSET Tasks
  BY DEF Holders
<1> QED BY <1>5, <1>6, FS_Subset

(* A task that begins work is counted.                                     *)
LEMMA Joins ==
  ASSUME TypeOK, Counted, NEW t \in Tasks, NEW p \in Working,
         pc[t] \notin Working, Goto(t, p), work' = work + 1
  PROVE  Holders' = Holders \cup {t} /\ Counted'
<1>1. Holders' = Holders \cup {t}
  BY DEF Holders, Goto, TypeOK
<1>2. t \notin Holders
  BY DEF Holders
<1> QED BY <1>1, <1>2, HoldersFinite, FS_AddElement DEF Counted

(* A task that ends its work is no longer counted.                         *)
LEMMA Leaves ==
  ASSUME TypeOK, Counted, NEW t \in Tasks, NEW p \in Points \ Working,
         pc[t] \in Working, Goto(t, p), work' = work - 1
  PROVE  t \in Holders /\ Holders' = Holders \ {t} /\ Counted' /\ work' \in Nat
<1>1. Holders' = Holders \ {t}
  BY DEF Holders, Goto, TypeOK
<1>2. t \in Holders
  BY DEF Holders
<1>3. Counted'
  BY <1>1, <1>2, HoldersFinite, FS_RemoveElement DEF Counted
<1>4. IsFiniteSet(Holders')
  BY <1>1, HoldersFinite, FS_RemoveElement
<1>5. Cardinality(Holders') \in Nat
  BY <1>4, FS_CardinalityType
<1> QED BY <1>1, <1>2, <1>3, <1>5 DEF Counted

(* A task that moves outside its work leaves the count alone.              *)
LEMMA Remains ==
  ASSUME TypeOK, Counted, NEW t \in Tasks, NEW p \in Points \ Working,
         pc[t] \notin Working, Goto(t, p), UNCHANGED work
  PROVE  Holders' = Holders /\ Counted'
<1>1. Holders' = Holders
  BY DEF Holders, Goto, TypeOK
<1> QED BY <1>1 DEF Counted

-----------------------------------------------------------------------------
(* What each move does to the gate: it lets a task join or leave, it       *)
(* claims the gate, or it leaves it alone.                                 *)
GateKept == Holders' = Holders /\ UNCHANGED <<work, pending, forced>>
GateStep ==
  /\ Counted'
  /\ \/ GateKept
     \/ Gate!Next

(* A task is at one of the points, and the working ones are two of them.   *)
LEMMA PointFacts ==
  /\ Working \subseteq Points
  /\ {"idle", "lock", "guard", "latch", "render", "begin", "again", "nav",
      "check", "commit", "prepare", "down"} \subseteq Points \ Working
BY DEF Points, Working

(* A move outside the work is a stutter of WorkGate.                       *)
LEMMA QuietMove ==
  ASSUME TypeOK, Counted, NEW t \in Tasks, NEW p \in Points \ Working,
         pc[t] \notin Working, Goto(t, p), UNCHANGED gateVars
  PROVE  GateStep
BY Remains DEF GateStep, GateKept, gateVars

(* The end of a piece of work is a step of WorkGate.                       *)
LEMMA LeaveMove ==
  ASSUME TypeOK, Counted, NEW t \in Tasks, NEW p \in Points \ Working,
         pc[t] \in Working, Goto(t, p), work' = work - 1,
         UNCHANGED <<pending, forced>>
  PROVE  GateStep
<1>1. t \in Holders /\ Holders' = Holders \ {t} /\ Counted'
  BY Leaves
<1> QED BY <1>1 DEF GateStep, Gate!Next, Gate!Leave

(* A step in which no task moves is a stutter of WorkGate.                 *)
LEMMA SameTasks ==
  ASSUME Counted, UNCHANGED <<pc, gateVars>>
  PROVE  GateStep
BY DEF GateStep, GateKept, Counted, Holders, gateVars

(* A boot is a step of WorkGate, which it empties.                         *)
LEMMA BootMove ==
  ASSUME TypeOK, NEW s, NEW rtc, Boot(s, rtc)
  PROVE  GateStep
<1>1. pc' = [t \in Tasks |-> IF t = Main THEN "lock" ELSE "idle"]
      /\ work' = 0 /\ pending' = FALSE /\ forced' = FALSE
  BY DEF Boot
<1>2. Holders' = {}
  BY <1>1 DEF Holders, Working
<1> QED BY <1>1, <1>2, FS_EmptySet DEF GateStep, Counted, Gate!Next, Gate!Boot

(* A commit closes WorkGate, forces it, or goes back.                      *)
LEMMA CommitMove ==
  ASSUME IInv, NEW t \in Tasks, Commit(t)
  PROVE  GateStep
<1> USE DEF IInv
<1>1. pc[t] = "commit" /\ work \in Nat /\ UNCHANGED work
  BY DEF Commit, At, In, TypeOK
<1>2. CASE ClaimsIdle \/ ClaimsEmpty
  <2>1. pending' = TRUE /\ forced' = empty /\ Goto(t, "prepare") /\ ~pending
    BY <1>2 DEF Commit, ClaimsIdle, ClaimsEmpty
  <2>2. Holders' = Holders /\ Counted'
    BY <1>1, <2>1, PointFacts, Remains DEF Working
  <2>3. pending = FALSE /\ forced = FALSE
    BY <2>1 DEF Claimed, TypeOK
  <2>4. CASE empty
    BY <2>1, <2>2, <2>3, <2>4 DEF GateStep, Gate!Next, Gate!Force, TypeOK
  <2>5. CASE ~empty
    <3>1. work = 0 /\ forced' = FALSE
      BY <1>2, <2>1, <2>5 DEF ClaimsIdle, ClaimsEmpty, TypeOK
    <3>2. Holders = {}
      BY <3>1, HoldersFinite, FS_EmptySet DEF Counted
    <3> QED BY <2>1, <2>2, <2>3, <3>1, <3>2 DEF GateStep, Gate!Next, Gate!Close
  <2> QED BY <2>4, <2>5
<1>3. CASE ~(ClaimsIdle \/ ClaimsEmpty)
  <2>1. Returned(t) /\ UNCHANGED <<pending, forced>>
    BY <1>3 DEF Commit
  <2>2. \E p \in Points \ Working : Goto(t, p)
    BY <2>1, PointFacts DEF Returned, AfterEarly
  <2> QED BY <1>1, <2>1, <2>2, QuietMove DEF gateVars, Working
<1> QED BY <1>2, <1>3

(* Every step lets a task join or leave the gate, claims it, or is a boot. *)
LEMMA GateMoves ==
  ASSUME IInv, [Next]_vars
  PROVE  GateStep
<1> USE DEF IInv
<1>1. ASSUME NEW t \in Tasks, Start(t) \/ Press(t)
      PROVE  GateStep
  <2>1. pc[t] = "idle" /\ UNCHANGED gateVars /\ \E p \in {"lock", "begin"} : Goto(t, p)
    BY <1>1 DEF Start, Press, At, In
  <2> QED BY <2>1, PointFacts, QuietMove DEF Working
<1>2. ASSUME NEW t \in Tasks, TakeLock(t) \/ Latch(t) \/ Render(t)
      PROVE  GateStep
  <2>1. pc[t] \in {"lock", "latch", "render"} /\ UNCHANGED gateVars
        /\ \E p \in {"guard", "render", "check"} : Goto(t, p)
    BY <1>2 DEF TakeLock, Latch, Render, TrySleep, Goto, At, In
  <2> QED BY <2>1, PointFacts, QuietMove DEF Working
<1>3. ASSUME NEW t \in Tasks, NEW level \in Levels, NEW readable \in BOOLEAN,
             Allowed(t, level, readable) \/ Refused(t, level, readable)
      PROVE  GateStep
  <2>1. pc[t] = "guard" /\ UNCHANGED gateVars
    BY <1>3 DEF Allowed, Refused, At, In
  <2>2. \E p \in {"nav", "begin", "latch", "check"} : Goto(t, p)
    BY <1>3 DEF Allowed, Refused, TrySleep, Goto
  <2> QED BY <2>1, <2>2, PointFacts, QuietMove DEF Working
<1>4. ASSUME NEW t \in Tasks, BeginWork(t)
      PROVE  GateStep
  <2>1. pc[t] \notin Working /\ work' = work + 1 /\ ~pending
        /\ UNCHANGED <<pending, forced>> /\ \E p \in Working : Goto(t, p)
    BY <1>4 DEF BeginWork, At, In, Working
  <2>2. Holders' = Holders \cup {t} /\ Counted'
    BY <2>1, Joins
  <2> QED BY <2>1, <2>2 DEF GateStep, Gate!Next, Gate!Join
<1>5. ASSUME NEW t \in Tasks, EndWork(t)
      PROVE  GateStep
  <2>1. pc[t] = "work" /\ work' = work - 1 /\ UNCHANGED <<pending, forced>>
        /\ Goto(t, "idle")
    BY <1>5 DEF EndWork, At, In
  <2> QED BY <2>1, PointFacts, LeaveMove DEF Working
<1>6. ASSUME NEW t \in Tasks, Check(t)
      PROVE  GateStep
  <2>1. pc[t] = "check" /\ UNCHANGED gateVars
    BY <1>6 DEF Check, At, In
  <2>2. \E p \in Points \ Working : Goto(t, p)
    BY <1>6, PointFacts DEF Check, Returned, AfterEarly
  <2> QED BY <2>1, <2>2, QuietMove DEF Working
<1>7. ASSUME NEW t \in Tasks, Prepare(t)
      PROVE  GateStep
  <2>1. pc[t] = "prepare" /\ UNCHANGED gateVars /\ Goto(t, "down")
    BY <1>7 DEF Prepare, At, In
  <2> QED BY <2>1, PointFacts, QuietMove DEF Working
<1>8. CASE AwaitSetup \/ TooEarly \/ Booted
  <2>1. pc[Main] \in Working /\ work' = work - 1 /\ UNCHANGED <<pending, forced>>
    BY <1>8 DEF AwaitSetup, TooEarly, Booted, At, In, Working
  <2>2. \E p \in {"begin", "check", "idle"} : Goto(Main, p)
    BY <1>8 DEF AwaitSetup, TooEarly, Booted, TrySleep, Goto
  <2>3. Main \in Tasks
    BY DEF Tasks
  <2> QED BY <2>1, <2>2, <2>3, PointFacts, LeaveMove
<1>9. CASE Navigated
  <2>1. pc[Buttons] = "nav" /\ UNCHANGED gateVars /\ Goto(Buttons, "check")
        /\ Buttons \in Tasks
    BY <1>9 DEF Navigated, TrySleep, Goto, At, In, Tasks
  <2> QED BY <2>1, PointFacts, QuietMove DEF Working
<1>10. CASE Poll
  <2>1. pc[Timer] = "idle" /\ UNCHANGED gateVars /\ Timer \in Tasks
        /\ (UNCHANGED pc \/ Goto(Timer, "check"))
    BY <1>10 DEF Poll, TrySleep, Goto, At, In, Tasks
  <2> QED BY <2>1, PointFacts, QuietMove, SameTasks DEF Working
<1>11. CASE Elapse \/ SetInstaller \/ PlugUsb \/ UNCHANGED vars
            \/ \E t \in Tasks : PowerDown(t)
  <2>1. UNCHANGED <<pc, gateVars>>
    BY <1>11 DEF Elapse, SetInstaller, PlugUsb, PowerDown, vars
  <2> QED BY <2>1, SameTasks
<1>12. CASE Crash \/ \E s \in Sources : Wake(s)
  BY <1>12, BootMove DEF Crash, Wake
<1> QED BY <1>1, <1>2, <1>3, <1>4, <1>5, <1>6, <1>7, <1>8, <1>9, <1>10, <1>11,
           <1>12, CommitMove DEF Next, Step

-----------------------------------------------------------------------------
(* The count stays a number.                                               *)
LEMMA CountType ==
  ASSUME GateStep
  PROVE  work' \in Nat
<1>1. Holders' \in SUBSET Tasks
  BY DEF Holders
<1>2. Cardinality(Holders') \in Nat
  BY <1>1, HoldersFinite, FS_Subset, FS_CardinalityType
<1> QED BY <1>2 DEF GateStep, Counted

(* A move is typed, and so is the reason for a sleep. *)
LEMMA MoveType ==
  ASSUME TypeOK, NEW t \in Tasks, NEW p \in Points, Goto(t, p)
  PROVE  pc' \in [Tasks -> Points]
BY DEF TypeOK, Goto

(* A task that tries to sleep is at a known point, for a known reason.     *)
LEMMA TryType ==
  ASSUME TypeOK, NEW t \in Tasks, NEW r \in Reasons, TrySleep(t, r)
  PROVE  pc' \in [Tasks -> Points] /\ why' \in [Tasks -> Reasons]
BY PointFacts DEF TypeOK, TrySleep

(* Every step keeps the types.                                             *)
LEMMA TypeStep ==
  ASSUME IInv, [Next]_vars
  PROVE  TypeOK'
<1>1. TypeOK /\ work' \in Nat
  BY GateMoves, CountType DEF IInv
<1>2. ASSUME NEW t \in Tasks,
             Start(t) \/ Press(t) \/ TakeLock(t) \/ Latch(t) \/ Prepare(t)
             \/ BeginWork(t) \/ EndWork(t) \/ Check(t) \/ Commit(t) \/ PowerDown(t)
      PROVE  TypeOK'
  <2>1. \E p \in Points : Goto(t, p) \/ UNCHANGED pc
    BY <1>2, PointFacts
       DEF Start, Press, TakeLock, Latch, Prepare, BeginWork, EndWork, Check, Commit,
           PowerDown, Returned, AfterEarly, Working
  <2>2. pc' \in [Tasks -> Points]
    BY <1>1, <2>1, MoveType DEF TypeOK
  <2>3. UNCHANGED <<why, wake, usb, installer, empty, loaded, lost, resets>>
    BY <1>2 DEF Start, Press, TakeLock, Latch, Prepare, BeginWork, EndWork, Check, Commit,
                PowerDown, gateVars, battery, world
  <2>4. power' \in {"awake", "asleep"} /\ armed' \in BOOLEAN
        /\ pending' \in BOOLEAN /\ forced' \in BOOLEAN
    BY <1>1, <1>2 DEF TypeOK, Start, Press, TakeLock, Latch, Prepare, BeginWork, EndWork,
                Check, Commit, PowerDown, gateVars
  <2>5. requested' \in BOOLEAN /\ idleTimer' \in {"unset", "running", "expired"}
        /\ lock' \in Tasks \cup {NoTask}
    BY <1>1, <1>2 DEF TypeOK, Start, Press, TakeLock, Latch, Prepare, BeginWork, EndWork,
                Check, Commit, PowerDown, Returned, ResetTimer, battery
  <2>6. latched' \in BOOLEAN /\ nvs' \in BOOLEAN /\ screens' \in Nat
    <3>1. CASE Latch(t)
      <4>1. latched' = TRUE /\ nvs' \in {TRUE, nvs} /\ screens' = screens + 1
        BY <3>1 DEF Latch, Recorded
      <4>2. screens \in Nat /\ nvs \in BOOLEAN
        BY <1>1 DEF TypeOK
      <4>3. nvs' \in BOOLEAN
        BY <4>1, <4>2, Zenon
      <4> QED BY <4>1, <4>2, <4>3
    <3>2. CASE ~Latch(t)
      <4>1. UNCHANGED <<latched, nvs, screens>>
        BY <1>2, <3>2 DEF Start, Press, TakeLock, Prepare, BeginWork,
                EndWork, Check, Commit, PowerDown, battery
      <4> QED BY <1>1, <4>1 DEF TypeOK
    <3> QED BY <3>1, <3>2
  <2> QED BY <1>1, <2>2, <2>3, <2>4, <2>5, <2>6 DEF TypeOK
<1>3. ASSUME NEW t \in Tasks, NEW level \in Levels, NEW readable \in BOOLEAN,
             Allowed(t, level, readable)
      PROVE  TypeOK'
  <2>1. \E p \in Points : Goto(t, p)
    BY <1>3, PointFacts DEF Allowed
  <2>2. pc' \in [Tasks -> Points]
    BY <1>1, <2>1, MoveType
  <2> QED BY <1>1, <1>3, <2>2 DEF TypeOK, Allowed, gateVars, world
<1>4. ASSUME NEW t \in Tasks, NEW level \in Levels, NEW readable \in BOOLEAN,
             Refused(t, level, readable)
      PROVE  TypeOK'
  <2>1. pc' \in [Tasks -> Points] /\ why' \in [Tasks -> Reasons]
    <3>1. (Goto(t, "latch") /\ UNCHANGED why) \/ TrySleep(t, "battery")
      BY <1>4 DEF Refused
    <3> QED BY <1>1, <3>1, MoveType, TryType, PointFacts DEF TypeOK, Reasons
  <2>2. Latched(readable) \in BOOLEAN
    BY <1>1 DEF TypeOK, Latched
  <2>3. lost' \in BOOLEAN
    BY <1>1, <1>4 DEF TypeOK, Refused
  <2> QED BY <1>1, <1>4, <2>1, <2>2, <2>3 DEF TypeOK, Refused, gateVars, world
<1>5. CASE TooEarly \/ Navigated \/ \E t \in Tasks : Render(t)
  <2>1. \E t \in Tasks, r \in Reasons : TrySleep(t, r)
    BY <1>5 DEF TooEarly, Navigated, Render, Tasks, Reasons
  <2>2. pc' \in [Tasks -> Points] /\ why' \in [Tasks -> Reasons]
    BY <1>1, <2>1, TryType
  <2>3. UNCHANGED <<power, wake, armed, pending, forced, idleTimer, world, battery, resets>>
        /\ requested' \in {TRUE, requested}
    BY <1>5 DEF TooEarly, Navigated, Render, gateVars
  <2>4. requested' \in BOOLEAN
    BY <1>1, <2>3 DEF TypeOK
  <2> QED BY <1>1, <2>2, <2>3, <2>4 DEF TypeOK, battery, world
<1>6. CASE AwaitSetup \/ Booted \/ Poll
  <2>1. \/ \E t \in Tasks, r \in Reasons : TrySleep(t, r)
        \/ (\E t \in Tasks, p \in Points : Goto(t, p)) /\ UNCHANGED why
        \/ UNCHANGED <<pc, why>>
    BY <1>6, PointFacts DEF AwaitSetup, Booted, Poll, Tasks, Reasons
  <2>2. pc' \in [Tasks -> Points] /\ why' \in [Tasks -> Reasons]
    BY <1>1, <2>1, TryType, MoveType DEF TypeOK
  <2>3. idleTimer' \in {"unset", "running", "expired"}
    BY <1>1, <1>6 DEF TypeOK, AwaitSetup, Booted, Poll
  <2>4. UNCHANGED <<power, wake, armed, pending, forced, requested, world, battery, resets>>
    BY <1>6 DEF AwaitSetup, Booted, Poll, gateVars
  <2> QED BY <1>1, <2>2, <2>3, <2>4 DEF TypeOK, battery, world
<1>7. CASE Elapse \/ SetInstaller \/ PlugUsb \/ UNCHANGED vars
  <2>1. UNCHANGED <<power, wake, armed, pc, why, pending, forced, requested, battery, resets>>
    BY <1>7 DEF Elapse, SetInstaller, PlugUsb, gateVars, vars
  <2>2. usb' \in BOOLEAN /\ installer' \in BOOLEAN
    BY <1>1, <1>7 DEF TypeOK, Elapse, SetInstaller, PlugUsb, world, vars
  <2>3. idleTimer' \in {"unset", "running", "expired"}
    BY <1>1, <1>7 DEF TypeOK, Elapse, SetInstaller, PlugUsb, vars
  <2> QED BY <1>1, <2>1, <2>2, <2>3 DEF TypeOK, battery
<1>8. ASSUME NEW s \in Sources, NEW rtc \in BOOLEAN, Boot(s, rtc), resets' \in 0..MaxResets
      PROVE  TypeOK'
  <2>1. pc' \in [Tasks -> Points] /\ why' \in [Tasks -> Reasons]
    BY <1>8, PointFacts DEF Boot, Reasons
  <2>2. lost' \in BOOLEAN
    BY <1>1, <1>8 DEF TypeOK, Boot
  <2> QED BY <1>1, <1>8, <2>1, <2>2 DEF TypeOK, Boot
<1>9. CASE Crash
  <2>1. Boot("power", FALSE) /\ resets > 0 /\ resets' = resets - 1
    BY <1>9 DEF Crash
  <2>2. resets' \in 0..MaxResets
    BY <1>1, <2>1, PowerAssumption DEF TypeOK
  <2> QED BY <1>8, <2>1, <2>2, PowerAssumption
<1>10. CASE \E s \in Sources : Wake(s)
  BY <1>1, <1>8, <1>10 DEF Wake, TypeOK
<1> QED BY <1>2, <1>3, <1>4, <1>5, <1>6, <1>7, <1>9, <1>10 DEF Next, Step

-----------------------------------------------------------------------------
(* Only the task that claims the transition becomes its owner.             *)
LEMMA NoNewOwner ==
  ASSUME TypeOK, Claimed, OneOwner, NEW t \in Tasks, NEW p,
         Goto(t, p), p \notin {"prepare", "down"} \/ Owns(t),
         UNCHANGED <<pending, forced>>
  PROVE  Claimed' /\ OneOwner'
<1>1. \A u \in Tasks : Owns(u)' => Owns(u)
  BY DEF Owns, Goto, TypeOK
<1> QED BY <1>1 DEF Claimed, OneOwner

(* Every step keeps the transition to its one owner.                       *)
LEMMA OwnerStep ==
  ASSUME IInv, [Next]_vars
  PROVE  Claimed' /\ OneOwner'
<1>1. TypeOK /\ Claimed /\ OneOwner
  BY DEF IInv
<1>2. ASSUME NEW t \in Tasks,
             \/ Start(t) \/ Press(t) \/ TakeLock(t) \/ Latch(t) \/ Render(t)
             \/ BeginWork(t) \/ EndWork(t) \/ Check(t)
             \/ \E level \in Levels, readable \in BOOLEAN :
                  Allowed(t, level, readable) \/ Refused(t, level, readable)
      PROVE  Claimed' /\ OneOwner'
  <2>1. UNCHANGED <<pending, forced>>
    BY <1>2 DEF Start, Press, TakeLock, Latch, Render, BeginWork, EndWork, Check,
                Allowed, Refused, gateVars
  <2>2. \E p \in Points \ {"prepare", "down"} : Goto(t, p)
    BY <1>2, PointFacts
       DEF Start, Press, TakeLock, Latch, Render, BeginWork, EndWork, Check,
           Allowed, Refused, TrySleep, Returned, AfterEarly, Goto, Working
  <2> QED BY <1>1, <2>1, <2>2, NoNewOwner
<1>3. ASSUME NEW t \in Tasks, Commit(t)
      PROVE  Claimed' /\ OneOwner'
  <2>1. CASE ClaimsIdle \/ ClaimsEmpty
    <3>1. pending' = TRUE /\ Goto(t, "prepare") /\ ~pending
      BY <1>3, <2>1 DEF Commit, ClaimsIdle, ClaimsEmpty
    <3>2. \A u \in Tasks : ~Owns(u)
      BY <1>1, <3>1 DEF Claimed
    <3>3. \A u \in Tasks : Owns(u)' => u = t
      BY <1>1, <3>1, <3>2 DEF Owns, Goto, TypeOK
    <3> QED BY <3>1, <3>3 DEF Claimed, OneOwner
  <2>2. CASE ~(ClaimsIdle \/ ClaimsEmpty)
    <3>1. UNCHANGED <<pending, forced>> /\ Returned(t)
      BY <1>3, <2>2 DEF Commit
    <3>2. \E p \in Points \ {"prepare", "down"} : Goto(t, p)
      BY <3>1, PointFacts DEF Returned, AfterEarly
    <3> QED BY <1>1, <3>1, <3>2, NoNewOwner
  <2> QED BY <2>1, <2>2
<1>4. ASSUME NEW t \in Tasks, Prepare(t)
      PROVE  Claimed' /\ OneOwner'
  <2>1. Owns(t) /\ Goto(t, "down") /\ UNCHANGED <<pending, forced>>
    BY <1>4 DEF Prepare, Owns, At, In, gateVars
  <2> QED BY <1>1, <2>1, NoNewOwner
<1>5. CASE AwaitSetup \/ TooEarly \/ Booted \/ Navigated
  <2>1. UNCHANGED <<pending, forced>>
    BY <1>5 DEF AwaitSetup, TooEarly, Booted, Navigated, gateVars
  <2>2. \E t \in Tasks, p \in {"begin", "check", "idle"} : Goto(t, p)
    BY <1>5 DEF AwaitSetup, TooEarly, Booted, Navigated, TrySleep, Goto, Tasks
  <2> QED BY <1>1, <2>1, <2>2, NoNewOwner
<1>6. CASE Poll /\ ~UNCHANGED pc
  <2>1. Timer \in Tasks /\ Goto(Timer, "check") /\ UNCHANGED <<pending, forced>>
    BY <1>6 DEF Poll, TrySleep, Goto, Tasks, gateVars
  <2> QED BY <1>1, <2>1, NoNewOwner
<1>7. CASE \/ Poll /\ UNCHANGED pc
           \/ Elapse \/ SetInstaller \/ PlugUsb \/ UNCHANGED vars
           \/ \E t \in Tasks : PowerDown(t)
  <2>1. UNCHANGED <<pc, pending, forced>>
    BY <1>7 DEF Poll, Elapse, SetInstaller, PlugUsb, PowerDown, gateVars, vars
  <2> QED BY <1>1, <2>1 DEF Claimed, OneOwner, Owns
<1>8. ASSUME NEW s, NEW rtc, Boot(s, rtc)
      PROVE  Claimed' /\ OneOwner'
  <2>1. forced' = FALSE /\ pc' = [t \in Tasks |-> IF t = Main THEN "lock" ELSE "idle"]
    BY <1>8 DEF Boot
  <2>2. \A t \in Tasks : ~Owns(t)'
    BY <2>1 DEF Owns
  <2> QED BY <2>1, <2>2 DEF Claimed, OneOwner
<1>9. CASE Crash \/ \E s \in Sources : Wake(s)
  BY <1>8, <1>9 DEF Crash, Wake
<1> QED BY <1>2, <1>3, <1>4, <1>5, <1>6, <1>7, <1>9 DEF Next, Step

-----------------------------------------------------------------------------
(* A task that does not hold the lock cannot give it away, and the one     *)
(* that takes it found it free.                                            *)
LEMMA LockStep ==
  ASSUME IInv, [Next]_vars
  PROVE  Locked'
<1>1. TypeOK /\ Locked /\ TypeOK'
  BY TypeStep DEF IInv
<1>2. ASSUME NEW t \in Tasks, NEW p, Goto(t, p), UNCHANGED <<why, lock>>,
             p \notin {"guard", "latch", "render", "check", "commit", "prepare", "down"}
      PROVE  Locked'
  <2>1. \A u \in Tasks : Holding(u)' => Holding(u)
    BY <1>1, <1>2 DEF Holding, Goto, TypeOK
  <2> QED BY <1>1, <1>2, <2>1 DEF Locked
<1>3. ASSUME NEW t \in Tasks, NEW p, Goto(t, p), UNCHANGED <<why, lock>>,
             lock = t \/ (pc[t] \in {"check", "commit", "prepare"}
                             /\ p \in {"commit", "prepare", "down"})
      PROVE  Locked'
  <2>1. \A u \in Tasks : Holding(u)' => Holding(u) \/ (u = t /\ lock = t)
    BY <1>1, <1>3 DEF Holding, Goto, TypeOK
  <2> QED BY <1>1, <1>3, <2>1 DEF Locked
<1>4. ASSUME NEW t \in Tasks, NEW r, TrySleep(t, r), UNCHANGED lock, r # "battery" \/ lock = t
      PROVE  Locked'
  <2>1. \A u \in Tasks : Holding(u)' => Holding(u) \/ (u = t /\ lock = t)
    BY <1>1, <1>4 DEF Holding, TrySleep, TypeOK
  <2> QED BY <1>1, <1>4, <2>1 DEF Locked
<1>5. ASSUME NEW t \in Tasks, Holding(t), lock' = NoTask, UNCHANGED why, NEW p, Goto(t, p),
             p \in {"idle", "lock", "begin", "nav"}
      PROVE  Locked'
  <2>1. \A u \in Tasks : Holding(u) => u = t
    BY <1>1, <1>5 DEF Locked
  <2>2. \A u \in Tasks : ~Holding(u)'
    BY <1>1, <1>5, <2>1 DEF Holding, Goto, TypeOK
  <2> QED BY <2>2 DEF Locked
<1>6. ASSUME NEW t \in Tasks, Returned(t), UNCHANGED why, pc[t] \in {"check", "commit"}
      PROVE  Locked'
  <2>1. CASE why[t] = "battery"
    BY <1>5, <1>6, <2>1 DEF Returned, Holding
  <2>2. CASE why[t] # "battery"
    BY <1>2, <1>6, <2>2 DEF Returned, AfterEarly
  <2> QED BY <2>1, <2>2
<1>7. ASSUME NEW t \in Tasks, Start(t) \/ Press(t) \/ BeginWork(t) \/ EndWork(t)
      PROVE  Locked'
  <2>1. UNCHANGED <<why, lock>> /\ \E p \in {"lock", "begin", "idle", "work", "late"} : Goto(t, p)
    BY <1>7 DEF Start, Press, BeginWork, EndWork, battery
  <2> QED BY <1>2, <2>1
<1>8. ASSUME NEW t \in Tasks, TakeLock(t)
      PROVE  Locked'
  <2>1. lock = NoTask /\ lock' = t /\ Goto(t, "guard") /\ UNCHANGED why
    BY <1>8 DEF TakeLock
  <2>2. \A u \in Tasks : ~Holding(u)
    BY <1>1, <2>1, PowerAssumption DEF Locked
  <2>3. \A u \in Tasks : Holding(u)' => u = t
    BY <1>1, <2>1, <2>2 DEF Holding, Goto, TypeOK
  <2> QED BY <2>1, <2>3 DEF Locked
<1>9. ASSUME NEW t \in Tasks, NEW level \in Levels, NEW readable \in BOOLEAN,
             Allowed(t, level, readable) \/ Refused(t, level, readable)
      PROVE  Locked'
  <2>1. pc[t] = "guard" /\ lock = t
    BY <1>1, <1>9 DEF Allowed, Refused, At, In, Locked, Holding
  <2>2. CASE Allowed(t, level, readable)
    <3>1. lock' = NoTask /\ UNCHANGED why /\ \E p \in {"nav", "begin"} : Goto(t, p)
      BY <2>2 DEF Allowed
    <3> QED BY <1>5, <2>1, <3>1 DEF Holding
  <2>3. CASE Refused(t, level, readable)
    <3>1. UNCHANGED lock /\ (TrySleep(t, "battery") \/ (Goto(t, "latch") /\ UNCHANGED why))
      BY <2>3 DEF Refused
    <3> QED BY <1>3, <1>4, <2>1, <3>1
  <2> QED BY <1>9, <2>2, <2>3
<1>10. ASSUME NEW t \in Tasks, Latch(t) \/ Render(t)
       PROVE  Locked'
  <2>1. pc[t] \in {"latch", "render"} /\ lock = t /\ UNCHANGED lock
    BY <1>1, <1>10 DEF Latch, Render, At, In, Locked, Holding, battery
  <2>2. TrySleep(t, "battery") \/ (Goto(t, "render") /\ UNCHANGED why)
    BY <1>10 DEF Latch, Render
  <2> QED BY <1>3, <1>4, <2>1, <2>2
<1>11. ASSUME NEW t \in Tasks, Check(t) \/ Commit(t)
       PROVE  Locked'
  <2>1. pc[t] \in {"check", "commit"} /\ UNCHANGED why
    BY <1>11 DEF Check, Commit, At, In
  <2>2. Returned(t) \/ (UNCHANGED lock /\ \E p \in {"commit", "prepare"} : Goto(t, p))
    BY <1>11 DEF Check, Commit
  <2> QED BY <1>3, <1>6, <2>1, <2>2
<1>12. ASSUME NEW t \in Tasks, Prepare(t)
       PROVE  Locked'
  <2>1. pc[t] = "prepare" /\ Goto(t, "down") /\ UNCHANGED <<why, lock>>
    BY <1>12 DEF Prepare, At, In, battery
  <2> QED BY <1>3, <2>1
<1>13. CASE AwaitSetup \/ TooEarly \/ Booted \/ Navigated \/ Poll
  <2>1. UNCHANGED lock
    BY <1>13 DEF AwaitSetup, TooEarly, Booted, Navigated, Poll, battery
  <2>2. \E t \in Tasks :
          \/ \E r \in {"early", "final", "idle"} : TrySleep(t, r)
          \/ UNCHANGED why /\ \E p \in {"begin", "idle"} : Goto(t, p)
          \/ UNCHANGED <<pc, why>>
    BY <1>13 DEF AwaitSetup, TooEarly, Booted, Navigated, Poll, Tasks
  <2> QED BY <1>1, <1>2, <1>4, <2>1, <2>2 DEF Locked, Holding
<1>14. CASE Elapse \/ SetInstaller \/ PlugUsb \/ UNCHANGED vars
            \/ \E t \in Tasks : PowerDown(t)
  <2>1. UNCHANGED <<pc, why, lock>>
    BY <1>14 DEF Elapse, SetInstaller, PlugUsb, PowerDown, battery, vars
  <2> QED BY <1>1, <2>1 DEF Locked, Holding
<1>15. ASSUME NEW s, NEW rtc, Boot(s, rtc)
       PROVE  Locked'
  BY <1>15 DEF Boot, Locked, Holding
<1>16. CASE Crash \/ \E s \in Sources : Wake(s)
  BY <1>15, <1>16 DEF Crash, Wake
<1> QED BY <1>7, <1>8, <1>9, <1>10, <1>11, <1>12, <1>13, <1>14, <1>16 DEF Next, Step

-----------------------------------------------------------------------------
(* A move that leaves the records alone and does not go for the screen.    *)
LEMMA NoAttempt ==
  ASSUME TypeOK, Attempted, EmptyScreenOnce,
         UNCHANGED <<latched, loaded, nvs, screens, lost>>,
         UNCHANGED pc \/ \E t \in Tasks, p \in Points \ {"latch"} : Goto(t, p)
  PROVE  Attempted' /\ EmptyScreenOnce'
<1>1. \A u \in Tasks : pc'[u] = "latch" => pc[u] = "latch"
  BY DEF Goto, TypeOK
<1> QED BY <1>1 DEF Attempted, EmptyScreenOnce

(* Every step keeps the empty screen to one attempt.                       *)
LEMMA AttemptStep ==
  ASSUME IInv, [Next]_vars
  PROVE  Attempted' /\ EmptyScreenOnce'
<1>1. TypeOK /\ Attempted /\ EmptyScreenOnce /\ Locked
  BY DEF IInv
<1>2. ASSUME NEW t \in Tasks,
             \/ Start(t) \/ Press(t) \/ TakeLock(t) \/ Render(t) \/ BeginWork(t)
             \/ EndWork(t) \/ Check(t) \/ Commit(t) \/ Prepare(t) \/ PowerDown(t)
      PROVE  Attempted' /\ EmptyScreenOnce'
  <2>1. UNCHANGED <<latched, loaded, nvs, screens, lost>>
    BY <1>2 DEF Start, Press, TakeLock, Render, BeginWork, EndWork, Check, Commit,
                Prepare, PowerDown, battery
  <2>2. UNCHANGED pc \/ \E p \in Points \ {"latch"} : Goto(t, p)
    BY <1>2, PointFacts
       DEF Start, Press, TakeLock, Render, BeginWork, EndWork, Check, Commit,
           Prepare, PowerDown, TrySleep, Returned, AfterEarly, Goto, Working
  <2> QED BY <1>1, <2>1, <2>2, NoAttempt
<1>3. ASSUME NEW t \in Tasks, NEW level \in Levels, NEW readable \in BOOLEAN,
             Allowed(t, level, readable)
      PROVE  Attempted' /\ EmptyScreenOnce'
  BY <1>3 DEF Allowed, Attempted, EmptyScreenOnce
<1>4. ASSUME NEW t \in Tasks, NEW level \in Levels, NEW readable \in BOOLEAN,
             Refused(t, level, readable)
      PROVE  Attempted' /\ EmptyScreenOnce'
  <2>1. /\ latched' = Latched(readable) /\ loaded' = TRUE /\ UNCHANGED <<nvs, screens>>
        /\ lost' = (lost \/ (~latched /\ ~loaded /\ ~readable /\ nvs))
        /\ Action(Latched(readable), level) # "run"
    BY <1>4 DEF Refused
  <2>2. EmptyScreenOnce'
    BY <1>1, <2>1 DEF EmptyScreenOnce
  <2>3. ASSUME screens > 0, ~lost'
        PROVE  latched' /\ \A u \in Tasks : pc'[u] # "latch"
    <3>1. Latched(readable)
      BY <1>1, <2>1, <2>3 DEF Attempted, Latched
    <3>2. TrySleep(t, "battery")
      BY <1>4, <3>1 DEF Refused, Action
    <3> QED BY <1>1, <2>1, <2>3, <3>1, <3>2 DEF TrySleep, Attempted, TypeOK
  <2> QED BY <2>1, <2>2, <2>3 DEF Attempted
<1>5. ASSUME NEW t \in Tasks, Latch(t)
      PROVE  Attempted' /\ EmptyScreenOnce'
  <2>1. pc[t] = "latch" /\ latched' /\ screens' = screens + 1 /\ UNCHANGED lost
        /\ Goto(t, "render")
    BY <1>5 DEF Latch, Recorded, At, In
  <2>2. screens = 0 \/ lost
    BY <1>1, <2>1 DEF Attempted, TypeOK
  <2>3. \A u \in Tasks : pc'[u] # "latch"
    <3>1. \A u \in Tasks : pc[u] = "latch" => u = t
      BY <1>1, <2>1 DEF Locked, Holding
    <3> QED BY <1>1, <2>1, <3>1 DEF Goto, TypeOK
  <2> QED BY <2>1, <2>2, <2>3 DEF Attempted, EmptyScreenOnce
<1>6. CASE AwaitSetup \/ TooEarly \/ Booted \/ Navigated \/ Poll
           \/ Elapse \/ SetInstaller \/ PlugUsb \/ UNCHANGED vars
  <2>1. UNCHANGED <<latched, loaded, nvs, screens, lost>>
    BY <1>6 DEF AwaitSetup, TooEarly, Booted, Navigated, Poll, Elapse, SetInstaller,
                PlugUsb, battery, vars
  <2>2. UNCHANGED pc \/ \E t \in Tasks, p \in Points \ {"latch"} : Goto(t, p)
    BY <1>6, PointFacts
       DEF AwaitSetup, TooEarly, Booted, Navigated, Poll, Elapse, SetInstaller,
           PlugUsb, TrySleep, Goto, Tasks, vars
  <2> QED BY <1>1, <2>1, <2>2, NoAttempt
<1>7. ASSUME NEW s, NEW rtc \in {latched, FALSE}, Boot(s, rtc)
      PROVE  Attempted' /\ EmptyScreenOnce'
  <2>1. /\ latched' = rtc /\ loaded' = FALSE /\ UNCHANGED <<nvs, screens>>
        /\ lost' = (lost \/ (latched /\ ~rtc /\ ~nvs))
        /\ \A u \in Tasks : pc'[u] # "latch"
    BY <1>7 DEF Boot
  <2> QED BY <1>1, <1>7, <2>1 DEF Attempted, EmptyScreenOnce
<1>8. CASE Crash \/ \E s \in Sources : Wake(s)
  BY <1>7, <1>8 DEF Crash, Wake
<1> QED BY <1>2, <1>3, <1>4, <1>5, <1>6, <1>8 DEF Next, Step

-----------------------------------------------------------------------------
(* The invariant holds at the first boot.                                  *)
LEMMA IInvInit == Init => IInv
<1> SUFFICES ASSUME Init PROVE IInv
  OBVIOUS
<1>1. TypeOK
  <2>1. pc \in [Tasks -> Points] /\ why \in [Tasks -> Reasons]
    BY DEF Init, Points, Reasons
  <2>2. resets \in 0..MaxResets /\ wake \in Sources
    BY PowerAssumption DEF Init
  <2>3. work \in Nat /\ screens \in Nat /\ usb \in BOOLEAN
    BY DEF Init
  <2> QED BY <2>1, <2>2, <2>3 DEF Init, TypeOK
<1>2. Holders = {}
  BY DEF Init, Holders, Working
<1>3. Counted
  BY <1>2, FS_EmptySet DEF Init, Counted
<1>4. Claimed /\ OneOwner /\ Attempted /\ EmptyScreenOnce /\ Locked
  BY DEF Init, Claimed, OneOwner, Owns, Attempted, EmptyScreenOnce, Locked, Holding
<1> QED BY <1>1, <1>3, <1>4 DEF IInv

(* Every step keeps it.                                                    *)
LEMMA IInvStep == IInv /\ [Next]_vars => IInv'
BY GateMoves, TypeStep, OwnerStep, LockStep, AttemptStep DEF IInv, GateStep

(* The inductive invariant.                                                *)
LEMMA Invariance == Spec => []IInv
BY IInvInit, IInvStep, PTL DEF Spec

(* Every variable keeps its type: the work counter never goes below zero   *)
(* (power_manager_work_end without a work_begin).                          *)
THEOREM TypeCorrect == Spec => []TypeOK
<1>1. IInv => TypeOK
  BY DEF IInv
<1> QED BY <1>1, Invariance, PTL

(* At most one task performs the sleep transition.                         *)
THEOREM SingleOwner == Spec => []OneOwner
<1>1. IInv => OneOwner
  BY DEF IInv
<1> QED BY <1>1, Invariance, PTL

(* The last screen is attempted once before work is allowed again, unless  *)
(* a reset lost the latch.                                                 *)
THEOREM SingleScreen == Spec => []EmptyScreenOnce
<1>1. IInv => EmptyScreenOnce
  BY DEF IInv
<1> QED BY <1>1, Invariance, PTL

(* The counter and its top bit implement the gate.                         *)
THEOREM ImplementsGate == Spec => GateSpec
<1>1. Init => Gate!Init
  BY DEF Init, Gate!Init, Holders, Working
<1>2. IInv /\ [Next]_vars => [Gate!Next]_Gate!vars
  BY GateMoves DEF GateStep, GateKept, Gate!vars
<1> QED BY <1>1, <1>2, Invariance, PTL DEF Spec, GateSpec, Gate!Spec

(* What the gate is for.  A claimed device has nobody at work, unless an   *)
(* empty battery forced the claim: work that has begun ends before a       *)
(* sleep, and none begins after (power_manager_work_begin against          *)
(* enter_sleep).  It is WorkGate's own invariant, which the counter takes  *)
(* over with its refinement.                                               *)
THEOREM SleepExcludesWork ==
  Spec => [](pending /\ ~forced => \A t \in Tasks : pc[t] \notin Working)
<1> DEFINE Empty == pending /\ ~forced => Holders = {}
<1>1. Gate!Init => Empty
  BY DEF Gate!Init
<1>2. Empty /\ [Gate!Next]_Gate!vars => Empty'
  <2> SUFFICES ASSUME Empty, [Gate!Next]_Gate!vars PROVE Empty'
    OBVIOUS
  <2>1. ASSUME NEW t \in Tasks, Gate!Join(t)
        PROVE  Empty'
    <3>1. ~pending'
      BY <2>1 DEF Gate!Join
    <3> QED BY <3>1
  <2>2. ASSUME NEW t \in Tasks, Gate!Leave(t)
        PROVE  Empty'
    <3>1. Holders # {} /\ (pending' <=> pending) /\ (forced' <=> forced)
      BY <2>2 DEF Gate!Leave
    <3> QED BY <3>1
  <2>3. CASE Gate!Close \/ Gate!Force \/ Gate!Boot \/ UNCHANGED Gate!vars
    BY <2>3 DEF Gate!Close, Gate!Force, Gate!Boot, Gate!vars
  <2> QED BY <2>1, <2>2, <2>3 DEF Gate!Next
<1>3. Empty => (pending /\ ~forced => \A t \in Tasks : pc[t] \notin Working)
  BY DEF Holders
<1> HIDE DEF Empty
<1> QED BY <1>1, <1>2, <1>3, ImplementsGate, PTL DEF GateSpec, Gate!Spec
=============================================================================
