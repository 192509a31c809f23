-------------------------- MODULE AppRuntimeProofs ---------------------------
(***************************************************************************)
(* Proofs about AppRuntime: one setup is in force everywhere unless work   *)
(* came in between an activation and its record, what is reported as shown *)
(* is shown unless a press came in before the activation, a booked retry   *)
(* outlives the round that downloads its spot, the forecast an             *)
(* installation downloaded stays until the next one, and a round that      *)
(* reports success has every spot's forecast in the cache.                 *)
(***************************************************************************)
EXTENDS AppRuntime, TLAPS

(* Only between an activation and its record, or its undoing, are the      *)
(* spots another setup's; a runtime set up then is set up from the earlier *)
(* record, and one set up at any other time is the stored setup's.         *)
InForce ==
  /\ inst \notin {"activated", "undo"} => spots = stored
  /\ inst # "undo" /\ ready /\ (inst = "failed" \/ "activated" \notin late)
       => current = stored

(* A round that has looked at a spot outside an apply keeps applies out,   *)
(* so that it stays with the setup it set out under.                       *)
Underway == ready /\ inst \in {"off", "open"} /\ current = round.of

RoundInv ==
  /\ at \in {"fetch", "merge"} => Underway /\ round.rank < SpotCount
  /\ at = "next" /\ round.rank > (IF round.all THEN 0 ELSE 1) => Underway

(* What each step of an apply may rely on, whatever work comes in: nobody  *)
(* else downloads or changes the record.                                   *)
ApplyInv ==
  /\ inst \notin {"off", "open"} => cand.new \in Configs /\ cand.old \in Configs
  /\ inst \in {"previewed", "activated", "undo", "failed"} => stored = cand.old
  /\ inst = "activated" => spots = cand.new
  /\ inst = "promoted" => stored = cand.new
  /\ inst \in {"previewed", "activated", "promoted"} => file[cand.spot] = cand.new
  /\ inst \in {"previewed", "activated", "promoted", "undo"} => proved.of = NoConfig
  /\ inst = "previewed" => "activated" \notin late
  /\ inst = "activated" /\ ready => "activated" \in late

ProvedInv ==
  proved.of # NoConfig /\ ~proved.late
    => /\ "activated" \notin late
       /\ proved.of = stored /\ file[proved.spot] = stored

(* The panel record is never ahead of the glass, and what was shown last   *)
(* is the frame of the setup that an apply is about to put in force.       *)
ShownInv ==
  /\ record # NoFrame => panel = record
  /\ last /\ "previewed" \notin late
       => /\ inst = "previewed"
               => panel = [of |-> cand.new, spot |-> SelectionOf(cand.new)]
          /\ inst \in {"off", "open", "activated", "promoted"}
               => panel = [of |-> spots, spot |-> Selected]

(* A schedule in memory that had a retry when its spot was captured still  *)
(* has it, so that nobody books another meanwhile.                         *)
OwedInv ==
  /\ BookedSurvives
  /\ at \in {"fetch", "merge"} =>
       IF round.original THEN booked[Spot] /\ Spot \notin owed
                         ELSE booked[Spot] => Spot \in owed

IInv == TypeOK /\ InForce /\ RoundInv /\ ApplyInv /\ ProvedInv /\ ShownInv /\ OwedInv

(* A rank always selects a spot.                                           *)
LEMMA SpotsFact == 0 \in Spots /\ \A from \in Spots, k \in Nat : SpotAt(from, k) \in Spots
  BY RuntimeAssumption DEF Spots, SpotAt

(* A frame that got to the glass is what the glass shows, and the record   *)
(* is not ahead of it.                                                     *)
LEMMA PaintShows ==
  \A f, mustDraw, glass, rec, r :
    Paint(f, mustDraw, glass, rec, r) /\ f # NoFrame /\ (rec # NoFrame => glass = rec)
      => /\ record' # NoFrame => panel' = record'
         /\ Good(r) => panel' = f
  BY DEF Paint, Good, Outcomes

(* The invariant holds at the start.                                       *)
LEMMA InitInv == Init => IInv
<1> USE DEF DeviceType, MemoryType, WorkType
<1> SUFFICES ASSUME Init PROVE IInv
  OBVIOUS
<1>1. NoRound \in Rounds
  BY RuntimeAssumption, SpotsFact DEF NoRound, Rounds
<1>2. TypeOK
  BY <1>1, RuntimeAssumption, SpotsFact DEF Init, TypeOK, Frames, NoFrame,
     NoCand, NoProof
<1>3. InForce /\ RoundInv /\ ApplyInv /\ ProvedInv /\ ShownInv /\ OwedInv
  BY DEF Init, InForce, RoundInv, ApplyInv, ProvedInv, ShownInv, OwedInv,
         BookedSurvives, NoProof
<1> QED
  BY <1>2, <1>3 DEF IInv

(* Every step keeps it.                                                    *)
LEMMA NextInv == ASSUME IInv, [Next]_vars PROVE IInv'
<1> USE DEF IInv, DeviceType, MemoryType, WorkType
<1>1. ASSUME NEW all \in BOOLEAN, RoundBegin(all)
      PROVE  IInv'
  <2>1. TypeOK'
    <3>1. Current \in Configs /\ Selected \in Spots
      BY SpotsFact DEF TypeOK, Current, Selected, SelectionOf
    <3>2. round' = [all |-> all, of |-> Current, from |-> Selected,
                    rank |-> IF all THEN 0 ELSE 1, original |-> FALSE,
                    snapshot |-> FALSE, incomplete |-> FALSE]
      BY <1>1 DEF RoundBegin, NoRound
    <3>3. round' \in Rounds
      BY <3>1, <3>2, RuntimeAssumption DEF Rounds
    <3> QED
      BY <1>1, <3>1, <3>3 DEF TypeOK, RoundBegin, EnsureReady, Entering, Booked, Forced, Owed, flash
  <2>2. InForce'
    <3>1. /\ current' = Current /\ UNCHANGED <<spots, stored, inst>>
          /\ late \subseteq late'
          /\ inst = "activated" => "activated" \in late'
      BY <1>1 DEF RoundBegin, EnsureReady, Entering, flash
    <3> QED
      BY <3>1 DEF InForce, Current
  <2>3. RoundInv'
    BY <1>1 DEF RoundInv, Underway, Abandon, NoRound, RoundBegin,
       EnsureReady, Entering, Current, flash
  <2>4. ApplyInv'
    BY <1>1 DEF ApplyInv, RoundBegin, EnsureReady, Entering, Current, flash
  <2>5. ProvedInv'
    <3>1. /\ UNCHANGED <<proved, stored, file, inst>>
          /\ "activated" \in late' => "activated" \in late \/ inst = "activated"
      BY <1>1 DEF RoundBegin, Entering, flash
    <3> QED
      BY <3>1 DEF ProvedInv, ApplyInv
  <2>6. ShownInv'
    BY <1>1 DEF ShownInv, Selected, SelectionOf, RoundBegin, EnsureReady,
       Entering, Current, flash
  <2>7. OwedInv'
    BY <1>1 DEF TypeOK, OwedInv, BookedSurvives, RoundInv, Underway, Spot,
       Owed, Booked, RoundBegin, EnsureReady, Entering, Current, flash
  <2> QED
    BY <2>1, <2>2, <2>3, <2>4, <2>5, <2>6, <2>7
<1>2. ASSUME Capture
      PROVE  IInv'
  <2>1. TypeOK'
    <3>1. Current \in Configs /\ Selected \in Spots /\ Booked \in [Spots -> BOOLEAN]
      BY SpotsFact DEF TypeOK, Current, Selected, SelectionOf, Booked
    <3>2. Spot \in Spots /\ NoRound \in Rounds
      BY SpotsFact, RuntimeAssumption DEF TypeOK, Spot, NoRound, Rounds
    <3>3. Booked[Spot] \in BOOLEAN
      BY <3>1, <3>2
    <3>4. round' \in Rounds
      <4>1. round \in Rounds
        BY DEF TypeOK
      <4>2. \/ round' = NoRound
            \/ round' = [round EXCEPT !.original = Booked[Spot],
                                      !.snapshot = Booked[Spot]]
        BY <1>2 DEF Capture, Abandon
      <4> QED
        BY <3>2, <3>3, <4>1, <4>2 DEF Rounds
    <3>5. /\ UNCHANGED <<stored, spots, selection, file, disk, record, panel,
                         forceNext, last, status, inst, cand, proved>>
          /\ ready' = TRUE /\ current' = Current /\ selected' = Selected
          /\ booked' = Booked /\ forced' = Forced
          /\ owed' \subseteq Owed /\ fetched' \subseteq fetched
          /\ at' \in {"idle", "fetch"}
          /\ late' = late \cup ({inst} \cap {"activated"})
      BY <1>2 DEF Capture, Abandon, Entering, flash
    <3>6. Forced \subseteq Spots /\ Owed \subseteq Spots
      BY DEF TypeOK, Forced, Owed
    <3>7. DeviceType'
      BY <3>1, <3>4, <3>5, <3>6 DEF TypeOK
    <3>8. MemoryType'
      BY <3>1, <3>4, <3>5, <3>6 DEF TypeOK
    <3>9. WorkType'
      BY <3>1, <3>4, <3>5, <3>6 DEF TypeOK
    <3> QED
      BY <3>7, <3>8, <3>9 DEF TypeOK
  <2>2. InForce'
    BY <1>2 DEF InForce, Capture, Entering, Current, flash
  <2>3. RoundInv'
    BY <1>2 DEF TypeOK, Rounds, RoundInv, Underway, Abandon, NoRound, Capture, Entering,
       Current, flash, MayCapture
  <2>4. ApplyInv'
    BY <1>2 DEF ApplyInv, Capture, Entering, Current, flash
  <2>5. ProvedInv'
    BY <1>2 DEF ProvedInv, ApplyInv, Capture, Entering, Current, flash
  <2>6. ShownInv'
    BY <1>2 DEF ShownInv, Selected, SelectionOf, Capture, Entering,
       Entering, Current, flash
  <2>7. OwedInv'
    <3>1. BookedSurvives'
      BY <1>2 DEF TypeOK, OwedInv, BookedSurvives, Capture, Owed, Booked, Abandon
    <3>2. ASSUME at' \in {"fetch", "merge"}
          PROVE  Spot' = Spot /\ round'.original = Booked[Spot]
                 /\ booked' = Booked /\ owed' = Owed \ {Spot}
      BY <1>2, <3>2 DEF Capture, Abandon, Spot, TypeOK, Rounds
    <3> QED
      BY <3>1, <3>2 DEF OwedInv
  <2> QED
    BY <2>1, <2>2, <2>3, <2>4, <2>5, <2>6, <2>7
<1>3. ASSUME NEW why \in Attempts \cup {"none"}, NEW ok \in BOOLEAN,
            NEW marine \in BOOLEAN, Download(why, ok, marine)
      PROVE  IInv'
  <2>1. TypeOK'
    <3>1. Spot \in Spots
      BY SpotsFact, RuntimeAssumption DEF TypeOK, Spot, Rounds
    <3>2. round.of \in Configs /\ round.original \in BOOLEAN
      BY <1>3 DEF TypeOK, RoundInv, Underway, Download, Rounds
    <3>3. AfterRun(round.original, why, ok) \in BOOLEAN
      BY <3>2 DEF AfterRun
    <3>4. round' \in Rounds
      BY <1>3, <3>3 DEF TypeOK, Download, Incomplete, Rounds
    <3>5. disk' \in [Spots -> BOOLEAN]
      BY <1>3, <3>1, <3>3 DEF TypeOK, Download
    <3> QED
      BY <1>3, <3>1, <3>2, <3>4, <3>5 DEF TypeOK, Download, runtime
  <2>2. InForce'
    BY <1>3 DEF InForce, Download, runtime
  <2>3. RoundInv'
    BY <1>3 DEF RoundInv, Underway, Abandon, NoRound, Download, runtime
  <2>4. ApplyInv'
    BY <1>3 DEF ApplyInv, RoundInv, Underway, Download, runtime
  <2>5. ProvedInv'
    <3>1. /\ file' = IF ok THEN [file EXCEPT ![Spot] = round.of] ELSE file
          /\ UNCHANGED <<proved, stored, late>> /\ Underway
      BY <1>3 DEF Download, RoundInv
    <3>2. "activated" \notin late => round.of = stored
      BY <3>1 DEF Underway, InForce
    <3> QED
      BY <3>1, <3>2 DEF TypeOK, ProvedInv
  <2>6. ShownInv'
    BY <1>3 DEF ShownInv, Selected, SelectionOf, Download, runtime
  <2>7. OwedInv'
    BY <1>3 DEF TypeOK, OwedInv, BookedSurvives, RoundInv, Underway, Spot,
       Owed, Booked, Download, runtime
  <2> QED
    BY <2>1, <2>2, <2>3, <2>4, <2>5, <2>6, <2>7
<1>4. ASSUME Merge
      PROVE  IInv'
  <2>1. TypeOK'
    <3>1. Current \in Configs /\ Selected \in Spots /\ Booked \in [Spots -> BOOLEAN]
      BY SpotsFact DEF TypeOK, Current, Selected, SelectionOf, Booked
    <3>2. round.snapshot \in BOOLEAN /\ NoRound \in Rounds
      BY SpotsFact, RuntimeAssumption DEF TypeOK, NoRound, Rounds
    <3>3. round.rank + 1 \in 0..SpotCount
      BY <1>4, RuntimeAssumption DEF TypeOK, RoundInv, Underway, Merge, Rounds
    <3>4. round' \in Rounds
      <4>1. round \in Rounds
        BY DEF TypeOK
      <4>2. \/ round' = NoRound
            \/ round' = [round EXCEPT !.rank = @ + 1, !.original = FALSE,
                                      !.snapshot = FALSE]
        BY <1>4 DEF Merge, Abandon
      <4> QED
        BY <3>2, <3>3, <4>1, <4>2 DEF Rounds
    <3>5. Merged \in [Spots -> BOOLEAN]
      BY <3>1, <3>2 DEF Merged
    <3>6. /\ UNCHANGED <<stored, spots, selection, file, disk, record, panel,
                         forceNext, last, status, inst, cand, proved>>
          /\ ready' = TRUE /\ current' = Current /\ selected' = Selected
          /\ booked' \in {Booked, Merged} /\ forced' = Forced
          /\ owed' = Owed /\ fetched' \subseteq fetched
          /\ at' \in {"idle", "next"}
          /\ late' = late \cup ({inst} \cap {"activated"})
      BY <1>4 DEF Merge, Abandon, Entering, flash
    <3>7. Forced \subseteq Spots /\ Owed \subseteq Spots
      BY DEF TypeOK, Forced, Owed
    <3>8. DeviceType'
      BY <3>1, <3>4, <3>5, <3>6, <3>7 DEF TypeOK
    <3>9. MemoryType'
      BY <3>1, <3>4, <3>5, <3>6, <3>7 DEF TypeOK
    <3>10. WorkType'
      BY <3>1, <3>4, <3>5, <3>6, <3>7 DEF TypeOK
    <3> QED
      BY <3>8, <3>9, <3>10 DEF TypeOK
  <2>2. InForce'
    BY <1>4 DEF InForce, Merge, Entering, Current, flash
  <2>3. RoundInv'
    BY <1>4 DEF TypeOK, Rounds, RoundInv, Underway, Abandon, NoRound, Merge, Entering,
       Current, flash
  <2>4. ApplyInv'
    BY <1>4 DEF ApplyInv, Merge, Entering, Current, flash
  <2>5. ProvedInv'
    BY <1>4 DEF ProvedInv, ApplyInv, Merge, Entering, Current, flash
  <2>6. ShownInv'
    BY <1>4 DEF ShownInv, Selected, SelectionOf, Merge, Entering, Current,
       flash
  <2>7. OwedInv'
    BY <1>4 DEF TypeOK, OwedInv, BookedSurvives, RoundInv, Underway, Spot,
       Owed, Booked, Merge, Current, flash, Merged, Abandon, NoRound
  <2> QED
    BY <2>1, <2>2, <2>3, <2>4, <2>5, <2>6, <2>7
<1>5. ASSUME NEW r \in Outcomes, ShowRound(r)
      PROVE  IInv'
  <2>1. TypeOK'
    <3>1. NoRound \in Rounds
      BY SpotsFact, RuntimeAssumption DEF NoRound, Rounds
    <3>2. [of |-> spots, spot |-> selected] \in Frames
      BY DEF TypeOK, Frames
    <3>3. panel' \in Frames \cup {NoFrame} /\ record' \in Frames \cup {NoFrame}
      BY <1>5, <3>2 DEF TypeOK, ShowRound, Paint
    <3>4. /\ booked' \in [Spots -> BOOLEAN] /\ disk' \in [Spots -> BOOLEAN]
          /\ owed' \subseteq Spots
      <4>1. /\ booked \in [Spots -> BOOLEAN] /\ disk \in [Spots -> BOOLEAN]
            /\ owed \subseteq Spots /\ selected \in Spots
        BY DEF TypeOK
      <4>2. Book(selected, booked, owed, r)
        BY <1>5 DEF ShowRound
      <4> QED
        BY <4>1, <4>2 DEF Book
    <3>5. /\ UNCHANGED <<stored, selection, file, spots, ready, current,
                         selected, forceNext, inst, cand, proved>>
          /\ forced' \subseteq forced /\ last' \in BOOLEAN
          /\ status' \in {"ok", "failed"} /\ late' \subseteq late
          /\ at' = "idle" /\ round' = NoRound /\ fetched' = {}
      BY <1>5 DEF ShowRound, Abandon, Good
    <3>6. DeviceType'
      BY <3>1, <3>3, <3>4, <3>5 DEF TypeOK
    <3>7. MemoryType'
      BY <3>1, <3>3, <3>4, <3>5 DEF TypeOK
    <3>8. WorkType'
      BY <3>1, <3>3, <3>4, <3>5 DEF TypeOK
    <3> QED
      BY <3>6, <3>7, <3>8 DEF TypeOK
  <2>2. InForce'
    BY <1>5 DEF InForce, ShowRound
  <2>3. RoundInv'
    BY <1>5 DEF RoundInv, Underway, Abandon, NoRound, ShowRound
  <2>4. ApplyInv'
    BY <1>5 DEF ApplyInv, ShowRound
  <2>5. ProvedInv'
    BY <1>5 DEF ProvedInv, ApplyInv, ShowRound, Book
  <2>6. ShownInv'
    <3> DEFINE f == [of |-> spots, spot |-> selected]
    <3>1. f # NoFrame
      BY RuntimeAssumption DEF TypeOK, NoFrame
    <3>3. Underway
      <4>1. at = "next" /\ round.all /\ round.rank > 0
        BY <1>5, RuntimeAssumption DEF TypeOK, Rounds, ShowRound
      <4> QED
        BY <4>1 DEF RoundInv
    <3>2. /\ record' # NoFrame => panel' = record'
          /\ Good(r) => panel' = f
      <4>1. Paint(f, selected \in forced, panel, record, r)
        BY <1>5 DEF ShowRound
      <4>2. record # NoFrame => panel = record
        BY DEF ShownInv
      <4> QED
        BY <3>1, <4>1, <4>2, PaintShows
    <3> QED
      BY <1>5, <3>2, <3>3 DEF ShownInv, Underway, ShowRound, Selected
  <2>7. OwedInv'
    BY <1>5 DEF TypeOK, OwedInv, BookedSurvives, RoundInv, Underway, Spot,
       Owed, Booked, ShowRound, Book, Paint, Abandon, NoRound
  <2> QED
    BY <2>1, <2>2, <2>3, <2>4, <2>5, <2>6, <2>7
<1>6. ASSUME EndSweep
      PROVE  IInv'
  <2>1. TypeOK'
    BY <1>6, RuntimeAssumption, SpotsFact DEF TypeOK, EndSweep, flash, runtime,
       Abandon, NoRound, Rounds
  <2>2. InForce'
    BY <1>6 DEF InForce, EndSweep, flash, runtime
  <2>3. RoundInv'
    BY <1>6 DEF RoundInv, Underway, Abandon, NoRound, EndSweep, flash,
       runtime
  <2>4. ApplyInv'
    BY <1>6 DEF ApplyInv, EndSweep, flash, runtime
  <2>5. ProvedInv'
    BY <1>6 DEF ProvedInv, ApplyInv, EndSweep, flash, runtime
  <2>6. ShownInv'
    BY <1>6 DEF ShownInv, Selected, SelectionOf, EndSweep, flash, runtime
  <2>7. OwedInv'
    BY <1>6 DEF TypeOK, OwedInv, BookedSurvives, RoundInv, Underway, Spot,
       Owed, Booked, EndSweep, flash, runtime, Abandon, NoRound
  <2> QED
    BY <2>1, <2>2, <2>3, <2>4, <2>5, <2>6, <2>7
<1>7. ASSUME NEW t \in Spots, NEW r \in Outcomes,
            NEW quick \in Quick(t), Navigate(t, quick, r)
      PROVE  IInv'
  <2>1. TypeOK'
    <3>1. [of |-> spots, spot |-> t] \in Frames
      BY DEF TypeOK, Frames
    <3>2. Current \in Configs /\ Selected \in Spots /\ Booked \in [Spots -> BOOLEAN]
      BY SpotsFact DEF TypeOK, Current, Selected, SelectionOf, Booked
    <3>3. panel' \in Frames \cup {NoFrame} /\ record' \in Frames \cup {NoFrame}
      BY <1>7, <3>1 DEF TypeOK, Navigate, Paint
    <3>4. booked' \in [Spots -> BOOLEAN] /\ disk' \in [Spots -> BOOLEAN]
             /\ owed' \subseteq Spots /\ forced' \subseteq Spots
      BY <1>7, <3>2 DEF TypeOK, Navigate, Book, Owed, Forced
    <3>5. selected' \in Spots /\ selection' \in [of : Configs, spot : Spots]
             /\ last' \in BOOLEAN /\ forceNext' \in BOOLEAN
      BY <1>7, <3>2 DEF TypeOK, Navigate, Good, Clears
    <3> QED
      BY <1>7, <3>2, <3>3, <3>4, <3>5 DEF TypeOK, Navigate
  <2>2. InForce'
    BY <1>7 DEF InForce, Navigate, Current
  <2>3. RoundInv'
    BY <1>7 DEF RoundInv, Underway, Abandon, NoRound, Navigate, Current
  <2>4. ApplyInv'
    BY <1>7 DEF ApplyInv, Navigate, Current
  <2>5. ProvedInv'
    BY <1>7 DEF ProvedInv, ApplyInv, Navigate, Current, Book
  <2>6. ShownInv'
    <3> DEFINE f == [of |-> spots, spot |-> t]
    <3>1. f # NoFrame
      BY RuntimeAssumption DEF TypeOK, NoFrame
    <3>2. /\ record' # NoFrame => panel' = record'
          /\ quick = "shown" \/ Good(r) => panel' = f
      <4>1. CASE quick = "shown"
        BY <1>7, <4>1, <3>1 DEF Navigate, Clears
      <4>2. CASE quick # "shown"
        <5> DEFINE glass == IF quick = "torn" THEN NoFrame ELSE panel
                   rec == IF Clears(quick) THEN NoFrame ELSE record
                   force == IF Clears(quick) THEN Spots ELSE Forced
        <5>1. Paint(f, t \in force, glass, rec, r)
          BY <1>7, <4>2 DEF Navigate
        <5>2. rec # NoFrame => glass = rec
          BY DEF ShownInv, Clears
        <5> HIDE DEF f, glass, rec, force
        <5> QED
          BY <3>1, <4>2, <5>1, <5>2, PaintShows
      <4> QED
        BY <4>1, <4>2
    <3> QED
      BY <1>7, <3>2 DEF TypeOK, ShownInv, ApplyInv, Navigate, Selected,
         SelectionOf
  <2>7. OwedInv'
    <3>1. \/ booked' = Booked /\ owed' = Owed
          \/ booked' = [Booked EXCEPT ![t] = TRUE] /\ owed' = Owed \cup {t} /\ ~Booked[t]
      BY <1>7 DEF Navigate, Book
    <3>2. Booked \in [Spots -> BOOLEAN]
      BY DEF TypeOK, Booked
    <3>3. BookedSurvives'
      BY <3>1, <3>2 DEF TypeOK, OwedInv, BookedSurvives, Owed, Booked
    <3>4. /\ Spot' = Spot /\ UNCHANGED <<at, round>>
          /\ at \in {"fetch", "merge"} => Booked = booked /\ Owed = owed
      BY <1>7 DEF Navigate, Spot, RoundInv, Underway, Booked, Owed
    <3>5. ASSUME at \in {"fetch", "merge"}
          PROVE  IF round.original THEN booked'[Spot] /\ Spot \notin owed'
                                   ELSE booked'[Spot] => Spot \in owed'
      <4>1. Booked = booked /\ Owed = owed /\ Spot \in Spots
        BY <3>4, <3>5, SpotsFact DEF Spot, TypeOK, Rounds
      <4>2. IF round.original THEN booked[Spot] /\ Spot \notin owed
                              ELSE booked[Spot] => Spot \in owed
        BY <3>5 DEF OwedInv
      <4> QED
        BY <3>1, <3>2, <4>1, <4>2
    <3> QED
      BY <3>3, <3>4, <3>5 DEF OwedInv
  <2> QED
    BY <2>1, <2>2, <2>3, <2>4, <2>5, <2>6, <2>7
<1>8. ASSUME Hello
      PROVE  IInv'
  <2>1. TypeOK'
    BY <1>8, RuntimeAssumption, SpotsFact DEF TypeOK, Hello, flash, runtime
  <2>2. InForce'
    BY <1>8 DEF InForce, Hello, flash, runtime
  <2>3. RoundInv'
    BY <1>8 DEF RoundInv, Underway, Abandon, NoRound, Hello, flash, runtime
  <2>4. ApplyInv'
    BY <1>8 DEF ApplyInv, Hello, flash, runtime
  <2>5. ProvedInv'
    BY <1>8 DEF ProvedInv, ApplyInv, Hello, flash, runtime
  <2>6. ShownInv'
    BY <1>8 DEF ShownInv, Selected, SelectionOf, Hello, flash, runtime
  <2>7. OwedInv'
    BY <1>8 DEF TypeOK, OwedInv, BookedSurvives, RoundInv, Underway, Spot,
       Owed, Booked, Hello, flash, runtime
  <2> QED
    BY <2>1, <2>2, <2>3, <2>4, <2>5, <2>6, <2>7
<1>9. ASSUME Release
      PROVE  IInv'
  <2>1. TypeOK'
    BY <1>9, RuntimeAssumption, SpotsFact DEF TypeOK, Release, flash, runtime
  <2>2. InForce'
    BY <1>9 DEF InForce, Release, flash, runtime
  <2>3. RoundInv'
    BY <1>9 DEF RoundInv, Underway, Abandon, NoRound, Release, flash,
       runtime
  <2>4. ApplyInv'
    BY <1>9 DEF ApplyInv, Release, flash, runtime
  <2>5. ProvedInv'
    BY <1>9 DEF ProvedInv, ApplyInv, Release, flash, runtime
  <2>6. ShownInv'
    BY <1>9 DEF ShownInv, Selected, SelectionOf, Release, flash, runtime
  <2>7. OwedInv'
    BY <1>9 DEF TypeOK, OwedInv, BookedSurvives, RoundInv, Underway, Spot,
       Owed, Booked, Release, flash, runtime
  <2> QED
    BY <2>1, <2>2, <2>3, <2>4, <2>5, <2>6, <2>7
<1>10. ASSUME NEW c \in Configs, NEW why \in Attempts, NEW ok \in BOOLEAN,
            NEW r \in Outcomes, Preview(c, why, ok, r)
      PROVE  IInv'
  <2>1. TypeOK'
    <3>1. /\ SelectionOf(c) \in Spots
          /\ NoProof \in [of : Configs \cup {NoConfig}, spot : Spots, late : BOOLEAN]
      BY SpotsFact DEF TypeOK, SelectionOf, NoProof
    <3>2. AfterRun(disk[SelectionOf(c)], why, ok) \in BOOLEAN
      BY <3>1 DEF TypeOK, AfterRun
    <3>3. panel' \in Frames \cup {NoFrame} /\ record' \in Frames \cup {NoFrame}
      BY <1>10, <3>1 DEF TypeOK, Preview, Paint, Frames
    <3>4. disk' \in [Spots -> BOOLEAN]
      BY <1>10, <3>1, <3>2 DEF TypeOK, Preview
    <3>5. last' \in BOOLEAN /\ forceNext' \in BOOLEAN
             /\ inst' \in {"previewed", "failed"}
      BY <1>10 DEF TypeOK, Preview, Good
    <3>6. file' \in [Spots -> Configs \cup {NoConfig}]
             /\ proved' \in [of : Configs \cup {NoConfig}, spot : Spots, late : BOOLEAN]
      BY <1>10, <3>1 DEF TypeOK, Preview
    <3>7. cand' \in [new : Configs \cup {NoConfig}, old : Configs \cup {NoConfig},
                     spot : Spots]
      BY <1>10, <3>1 DEF TypeOK, Preview
    <3> QED
      BY <1>10, <3>3, <3>4, <3>5, <3>6, <3>7 DEF TypeOK, Preview
  <2>2. InForce'
    BY <1>10 DEF InForce, Preview
  <2>3. RoundInv'
    BY <1>10 DEF RoundInv, Underway, Abandon, NoRound, Preview,
       FetchLockFree
  <2>4. ApplyInv'
    <3>1. UNCHANGED <<stored, selection>> /\ late' = {}
             /\ cand' = [new |-> c, old |-> stored, spot |-> SelectionOf(c)]
             /\ stored \in Configs /\ spots' = stored /\ ready' = FALSE
      BY <1>10 DEF TypeOK, Preview
    <3>2. inst' \in {"previewed", "failed"} /\ (inst' = "previewed" => ok)
      BY <1>10 DEF Preview
    <3>3. ok => file' = [file EXCEPT ![SelectionOf(c)] = c] /\ proved'.of = NoConfig
      BY <1>10 DEF Preview, NoProof
    <3>4. SelectionOf(c) \in Spots
      BY SpotsFact DEF TypeOK, SelectionOf
    <3> QED
      BY <3>1, <3>2, <3>3, <3>4 DEF TypeOK, ApplyInv
  <2>5. ProvedInv'
    BY <1>10 DEF ProvedInv, ApplyInv, Preview, NoProof
  <2>6. ShownInv'
    <3> DEFINE f == [of |-> c, spot |-> SelectionOf(c)]
    <3>1. f # NoFrame
      BY RuntimeAssumption DEF NoFrame
    <3>2. /\ record' # NoFrame => panel' = record'
          /\ last' => panel' = f
      <4>1. CASE ok
        <5>1. Paint(f, forceNext, panel, record, r)
          BY <1>10, <4>1 DEF Preview
        <5>2. last' => Good(r)
          BY <1>10 DEF Preview
        <5>3. record # NoFrame => panel = record
          BY DEF ShownInv
        <5> QED
          BY <3>1, <5>1, <5>2, <5>3, PaintShows
      <4>2. CASE ~ok
        BY <1>10, <4>2 DEF Preview, ShownInv
      <4> QED
        BY <4>1, <4>2
    <3>3. /\ inst' \in {"previewed", "failed"} /\ selection' = selection
          /\ cand' = [new |-> c, old |-> stored, spot |-> SelectionOf(c)]
      BY <1>10 DEF Preview
    <3> QED
      BY <3>2, <3>3 DEF ShownInv, SelectionOf
  <2>7. OwedInv'
    BY <1>10 DEF TypeOK, OwedInv, BookedSurvives, RoundInv, Underway, Spot,
       Owed, Booked, Preview, FetchLockFree
  <2> QED
    BY <2>1, <2>2, <2>3, <2>4, <2>5, <2>6, <2>7
<1>11. ASSUME NEW ok \in BOOLEAN, Activate(ok)
      PROVE  IInv'
  <2>1. TypeOK'
    <3>1. cand.new \in Configs
      BY <1>11 DEF ApplyInv, Activate
    <3>2. /\ UNCHANGED <<stored, selection, file, disk, record, panel, current,
                         selected, booked, forced, forceNext, last, status,
                         at, round, cand, fetched, proved, late>>
          /\ spots' \in {spots, cand.new} /\ ready' \in {ready, FALSE}
          /\ owed' \subseteq owed /\ inst' \in {"activated", "failed"}
      BY <1>11 DEF Activate, ActivateConfiguration, flash
    <3>3. DeviceType'
      BY <3>1, <3>2 DEF TypeOK
    <3>4. MemoryType'
      BY <3>1, <3>2 DEF TypeOK
    <3>5. WorkType'
      BY <3>1, <3>2 DEF TypeOK
    <3> QED
      BY <3>3, <3>4, <3>5 DEF TypeOK
  <2>2. InForce'
    BY <1>11 DEF InForce, ApplyInv, Activate, flash, ActivateConfiguration
  <2>3. RoundInv'
    BY <1>11 DEF RoundInv, Underway, Abandon, NoRound, Activate, flash,
       ActivateConfiguration
  <2>4. ApplyInv'
    BY <1>11 DEF ApplyInv, Activate, flash, ActivateConfiguration
  <2>5. ProvedInv'
    BY <1>11 DEF ProvedInv, ApplyInv, Activate, flash, ActivateConfiguration
  <2>6. ShownInv'
    BY <1>11 DEF ShownInv, Selected, SelectionOf, Activate, flash,
       ActivateConfiguration
  <2>7. OwedInv'
    BY <1>11 DEF TypeOK, OwedInv, BookedSurvives, RoundInv, Underway, Spot,
       Owed, Booked, Activate, flash, ActivateConfiguration
  <2> QED
    BY <2>1, <2>2, <2>3, <2>4, <2>5, <2>6, <2>7
<1>12. ASSUME NEW ok \in BOOLEAN, Promote(ok)
      PROVE  IInv'
  <2>1. TypeOK'
    BY <1>12, RuntimeAssumption, SpotsFact DEF TypeOK, Promote, runtime, ApplyInv
  <2>2. InForce'
    BY <1>12 DEF InForce, ApplyInv, Promote, runtime
  <2>3. RoundInv'
    BY <1>12 DEF RoundInv, Underway, Abandon, NoRound, Promote, runtime
  <2>4. ApplyInv'
    BY <1>12 DEF ApplyInv, Promote, runtime
  <2>5. ProvedInv'
    BY <1>12 DEF ProvedInv, ApplyInv, Promote, runtime
  <2>6. ShownInv'
    BY <1>12 DEF ShownInv, Selected, SelectionOf, Promote, runtime
  <2>7. OwedInv'
    BY <1>12 DEF TypeOK, OwedInv, BookedSurvives, RoundInv, Underway, Spot,
       Owed, Booked, Promote, runtime
  <2> QED
    BY <2>1, <2>2, <2>3, <2>4, <2>5, <2>6, <2>7
<1>13. ASSUME NEW ok \in BOOLEAN, Reload(ok)
      PROVE  IInv'
  <2>1. TypeOK'
    <3>1. NoCand \in [new : Configs \cup {NoConfig}, old : Configs \cup {NoConfig},
                      spot : Spots]
      BY SpotsFact DEF NoCand
    <3>2. cand.spot \in Spots /\ cand.new \in Configs /\ cand.old \in Configs
      BY <1>13 DEF TypeOK, ApplyInv, Reload
    <3>3. proved' \in [of : Configs \cup {NoConfig}, spot : Spots, late : BOOLEAN]
      <4>1. CASE ok
        <5>1. proved' = [of |-> cand.new, spot |-> cand.spot,
                         late |-> "activated" \in late]
          BY <1>13, <4>1 DEF Reload
        <5>2. ("activated" \in late) \in BOOLEAN
          OBVIOUS
        <5> QED
          BY <3>2, <5>1, <5>2
      <4>2. CASE ~ok
        BY <1>13, <4>2 DEF TypeOK, Reload
      <4> QED
        BY <4>1, <4>2
    <3> QED
      BY <1>13, <3>1, <3>2, <3>3 DEF TypeOK, Reload
  <2>2. InForce'
    BY <1>13 DEF InForce, Reload
  <2>3. RoundInv'
    BY <1>13 DEF RoundInv, Underway, Abandon, NoRound, Reload
  <2>4. ApplyInv'
    BY <1>13 DEF ApplyInv, Reload
  <2>5. ProvedInv'
    BY <1>13 DEF ProvedInv, ApplyInv, Reload
  <2>6. ShownInv'
    BY <1>13 DEF ShownInv, InForce, Selected, SelectionOf, Reload, NoCand
  <2>7. OwedInv'
    BY <1>13 DEF TypeOK, OwedInv, BookedSurvives, RoundInv, Underway, Spot,
       Owed, Booked, Reload
  <2> QED
    BY <2>1, <2>2, <2>3, <2>4, <2>5, <2>6, <2>7
<1>14. ASSUME Undo
      PROVE  IInv'
  <2>1. TypeOK'
    <3>1. cand.old \in Configs
      BY <1>14 DEF ApplyInv, Undo
    <3>2. /\ UNCHANGED <<stored, selection, file, disk, record, panel, current,
                         selected, booked, forced, forceNext, last, status,
                         at, round, cand, fetched, proved, late>>
          /\ spots' = cand.old /\ ready' = FALSE /\ owed' = {}
          /\ inst' = "failed"
      BY <1>14 DEF Undo, ActivateConfiguration, flash
    <3>3. DeviceType'
      BY <3>1, <3>2 DEF TypeOK
    <3>4. MemoryType'
      BY <3>1, <3>2 DEF TypeOK
    <3>5. WorkType'
      BY <3>1, <3>2 DEF TypeOK
    <3> QED
      BY <3>3, <3>4, <3>5 DEF TypeOK
  <2>2. InForce'
    BY <1>14 DEF InForce, ApplyInv, Undo, flash, ActivateConfiguration
  <2>3. RoundInv'
    BY <1>14 DEF RoundInv, Underway, Abandon, NoRound, Undo, flash,
       ActivateConfiguration
  <2>4. ApplyInv'
    BY <1>14 DEF ApplyInv, Undo, flash, ActivateConfiguration
  <2>5. ProvedInv'
    BY <1>14 DEF ProvedInv, ApplyInv, Undo, flash, ActivateConfiguration
  <2>6. ShownInv'
    BY <1>14 DEF ShownInv, Selected, SelectionOf, Undo, flash,
       ActivateConfiguration
  <2>7. OwedInv'
    BY <1>14 DEF TypeOK, OwedInv, BookedSurvives, RoundInv, Underway, Spot,
       Owed, Booked, Undo, flash, ActivateConfiguration
  <2> QED
    BY <2>1, <2>2, <2>3, <2>4, <2>5, <2>6, <2>7
<1>15. ASSUME NEW glass \in {NoFrame, panel}, FailedScreen(glass)
      PROVE  IInv'
  <2>1. TypeOK'
    <3>1. NoCand \in [new : Configs \cup {NoConfig}, old : Configs \cup {NoConfig},
                      spot : Spots]
      BY SpotsFact DEF NoCand
    <3> QED
      BY <1>15, <3>1 DEF TypeOK, FailedScreen
  <2>2. InForce'
    BY <1>15 DEF InForce, FailedScreen
  <2>3. RoundInv'
    BY <1>15 DEF RoundInv, Underway, Abandon, NoRound, FailedScreen
  <2>4. ApplyInv'
    BY <1>15 DEF ApplyInv, FailedScreen
  <2>5. ProvedInv'
    BY <1>15 DEF ProvedInv, ApplyInv, FailedScreen
  <2>6. ShownInv'
    BY <1>15 DEF ShownInv, Selected, SelectionOf, FailedScreen, NoCand
  <2>7. OwedInv'
    BY <1>15 DEF TypeOK, OwedInv, BookedSurvives, RoundInv, Underway, Spot,
       Owed, Booked, FailedScreen
  <2> QED
    BY <2>1, <2>2, <2>3, <2>4, <2>5, <2>6, <2>7
<1>16. ASSUME NEW glass \in {panel, NoFrame}, Restart(glass)
      PROVE  IInv'
  <2>1. TypeOK'
    <3>1. NoCand \in [new : Configs \cup {NoConfig}, old : Configs \cup {NoConfig},
                      spot : Spots]
      BY SpotsFact DEF NoCand
    <3>2. NoRound \in Rounds
      BY SpotsFact, RuntimeAssumption DEF NoRound, Rounds
    <3> QED
      BY <1>16, <3>1, <3>2, SpotsFact DEF TypeOK, Restart, Abandon
  <2>2. InForce'
    BY <1>16 DEF InForce, Restart
  <2>3. RoundInv'
    BY <1>16 DEF RoundInv, Underway, Abandon, NoRound, Restart
  <2>4. ApplyInv'
    BY <1>16 DEF ApplyInv, Restart
  <2>5. ProvedInv'
    BY <1>16 DEF ProvedInv, ApplyInv, Restart
  <2>6. ShownInv'
    BY <1>16 DEF ShownInv, Selected, SelectionOf, Restart
  <2>7. OwedInv'
    BY <1>16 DEF TypeOK, OwedInv, BookedSurvives, RoundInv, Underway, Spot,
       Owed, Booked, Restart, Abandon, NoRound
  <2> QED
    BY <2>1, <2>2, <2>3, <2>4, <2>5, <2>6, <2>7
<1>17. CASE UNCHANGED vars
  BY <1>17 DEF TypeOK, InForce, RoundInv, Underway, ApplyInv, ProvedInv, ShownInv, OwedInv,
                 RenderedIsShown, BookedSurvives, Selected, Spot, SelectionOf, vars,
                 flash, runtime
<1> QED
  BY <1>1, <1>2, <1>3, <1>4, <1>5, <1>6, <1>7, <1>8, <1>9, <1>10, <1>11, <1>12,
     <1>13, <1>14, <1>15, <1>16, <1>17
  DEF Next, RoundStep, InputStep, InstallerStep

(* IInv holds in every state, for any setups and any number of spots.      *)
THEOREM RuntimeInvariant == Spec => []IInv
<1>1. IInv /\ [Next]_vars => IInv'
  BY NextInv
<1> QED
  BY <1>1, InitInv, PTL DEF Spec

(* Every variable keeps to its range (TypeOK).                              *)
THEOREM RuntimeTypeCorrect == Spec => []TypeOK
<1>1. IInv => TypeOK
  BY DEF IInv
<1> QED
  BY <1>1, RuntimeInvariant, PTL

(* The forecast that an installation downloaded to prove its setup is not  *)
(* replaced by another setup's, whatever rounds and restarts follow,       *)
(* unless work came in before that setup was recorded.                     *)
THEOREM InstalledForecastStays == Spec => []ForecastKept
<1>1. IInv => ForecastKept
  BY DEF IInv, ProvedInv, ForecastKept
<1> QED
  BY <1>1, RuntimeInvariant, PTL

(* Outside an apply the spots are the stored setup's, and so is all that   *)
(* the runtime works with: the one way to a mixture is work that comes in  *)
(* between the activation of a setup and its record.                       *)
THEOREM OneSetupInForce == Spec => []InForceUnlessLate
<1>1. IInv => InForceUnlessLate
  BY DEF IInv, InForce, InForceUnlessLate
<1> QED
  BY <1>1, RuntimeInvariant, PTL

(* A render that is reported as a success is the one on the glass, unless  *)
(* it is that of a press that came in between a preview and the            *)
(* activation.                                                             *)
THEOREM ReportedIsShown == Spec => []RenderedIsShown
<1>1. IInv => RenderedIsShown
  BY DEF IInv, ShownInv, RenderedIsShown
<1> QED
  BY <1>1, RuntimeInvariant, PTL

(* A retry that a failing screen books is not lost to the round that       *)
(* downloads the same spot.                                                *)
THEOREM BookedRetrySurvives == Spec => []BookedSurvives
<1>1. IInv => BookedSurvives
  BY DEF IInv, OwedInv
<1> QED
  BY <1>1, RuntimeInvariant, PTL

-----------------------------------------------------------------------------
(* A round is complete.  The neighbours-first order meets every spot once  *)
(* in SpotCount steps: the offsets 0, +1, -1, +2, ... up to half of the    *)
(* spots to either side are all remainders.                                *)
LEMMA Remainder ==
  ASSUME NEW n \in Nat \ {0}, NEW y \in 0..n - 1
  PROVE  y % n = y /\ (y + n) % n = y /\ (y - n) % n = y
OBVIOUS

(* Every signed distance of at most half the ring is that of some rank.    *)
LEMMA OffsetOf ==
  ASSUME NEW n \in Nat \ {0}, NEW d \in Int, 2 * d <= n, -2 * d <= n - 1
  PROVE  \E k \in 0..n - 1 :
           d = IF k % 2 = 1 THEN (k + 1) \div 2 ELSE -(k \div 2)
<1>1. CASE d > 0
  <2> DEFINE k == 2 * d - 1
  <2>1. k \in 0..n - 1 /\ k % 2 = 1 /\ (k + 1) \div 2 = d
    BY <1>1
  <2> HIDE DEF k
  <2> QED BY <2>1
<1>2. CASE d <= 0
  <2> DEFINE k == -2 * d
  <2>1. k \in 0..n - 1 /\ k % 2 = 0 /\ -(k \div 2) = d
    BY <1>2
  <2> HIDE DEF k
  <2> QED BY <2>1
<1> QED BY <1>1, <1>2

(* The ranks of a round reach every spot, whichever it begins with.        *)
LEMMA SpotAtCovers ==
  ASSUME NEW from \in Spots, NEW i \in Spots
  PROVE  \E k \in 0..SpotCount - 1 : SpotAt(from, k) = i
<1>1. /\ SpotCount \in Nat \ {0} /\ from \in 0..SpotCount - 1
      /\ i \in 0..SpotCount - 1
  BY RuntimeAssumption DEF Spots
<1>2. \E d \in Int : /\ 2 * d <= SpotCount /\ -2 * d <= SpotCount - 1
                     /\ from + d \in {i, i + SpotCount, i - SpotCount}
  <2>1. CASE 2 * (i - from) > SpotCount
    <3>1. /\ i - from - SpotCount \in Int
          /\ 2 * (i - from - SpotCount) <= SpotCount
          /\ -2 * (i - from - SpotCount) <= SpotCount - 1
          /\ from + (i - from - SpotCount) = i - SpotCount
      BY <1>1, <2>1
    <3> QED BY <3>1
  <2>2. CASE -2 * (i - from) > SpotCount - 1
    <3>1. /\ i - from + SpotCount \in Int
          /\ 2 * (i - from + SpotCount) <= SpotCount
          /\ -2 * (i - from + SpotCount) <= SpotCount - 1
          /\ from + (i - from + SpotCount) = i + SpotCount
      BY <1>1, <2>2
    <3> QED BY <3>1
  <2>3. CASE 2 * (i - from) <= SpotCount /\ -2 * (i - from) <= SpotCount - 1
    <3>1. i - from \in Int /\ from + (i - from) = i
      BY <1>1
    <3> QED BY <2>3, <3>1
  <2> QED BY <1>1, <2>1, <2>2, <2>3
<1>3. PICK d \in Int : /\ 2 * d <= SpotCount /\ -2 * d <= SpotCount - 1
                       /\ from + d \in {i, i + SpotCount, i - SpotCount}
  BY <1>2
<1>4. (from + d) % SpotCount = i
  BY <1>1, <1>3, Remainder
<1>5. PICK k \in 0..SpotCount - 1 :
             d = IF k % 2 = 1 THEN (k + 1) \div 2 ELSE -(k \div 2)
  BY <1>1, <1>3, OffsetOf
<1>6. SpotAt(from, k) = i
  BY <1>4, <1>5 DEF SpotAt
<1> QED BY <1>6

(* What a round of all spots has downloaded so far: the spots before the   *)
(* one it is at, and that one too once it is downloaded, unless some spot  *)
(* spoiled the round.  No success is reported meanwhile.                   *)
CompleteInv ==
  /\ at = "idle" => ~round.all /\ fetched = {}
  /\ round.all =>
       /\ status = "running"
       /\ \A i \in fetched : file[i] = round.of
       /\ ~round.incomplete =>
            \A k \in 0..round.rank :
              k < round.rank \/ at = "merge" => SpotAt(round.from, k) \in fetched

(* Every step keeps what a round has fetched in line with its rank.        *)
LEMMA CompleteStep ==
  ASSUME IInv, CompleteInv, [Next]_vars
  PROVE  CompleteInv'
<1>0. /\ TypeOK /\ fetched \subseteq Spots /\ file \in [Spots -> Configs \cup {NoConfig}]
      /\ round \in Rounds /\ round.rank \in Nat /\ round.from \in Spots
  BY RuntimeAssumption DEF IInv, TypeOK, DeviceType, MemoryType, WorkType,
         Rounds
<1>1. CASE /\ UNCHANGED <<at, round, status, fetched>>
           /\ file' = file \/ at = "idle"
  BY <1>1 DEF CompleteInv
<1>2. CASE at' = "idle" /\ round' = NoRound /\ fetched' = {}
  BY <1>2 DEF CompleteInv, NoRound
<1>3. ASSUME NEW all \in BOOLEAN, RoundBegin(all)
      PROVE  CompleteInv'
  <2>1. /\ at = "idle" /\ at' = "next" /\ UNCHANGED <<file, fetched>>
        /\ round'.all = all /\ round'.rank = IF all THEN 0 ELSE 1
        /\ all => status' = "running"
    BY <1>3 DEF RoundBegin, NoRound, flash
  <2>2. fetched' = {}
    BY <2>1 DEF CompleteInv
  <2> QED BY <2>1, <2>2 DEF CompleteInv
<1>4. CASE Capture
  <2>1. CASE MayCapture
    <3>1. /\ at = "next" /\ at' = "fetch" /\ UNCHANGED <<file, status, fetched>>
          /\ round'.all = round.all /\ round'.of = round.of
          /\ round'.from = round.from /\ round'.rank = round.rank
          /\ round'.incomplete = round.incomplete
      BY <1>0, <1>4, <2>1 DEF Capture, Rounds, flash
    <3> QED BY <3>1 DEF CompleteInv
  <2>2. CASE ~MayCapture
    BY <1>2, <1>4, <2>2 DEF Capture, Abandon
  <2> QED BY <2>1, <2>2
<1>5. ASSUME NEW why \in Attempts \cup {"none"}, NEW ok \in BOOLEAN,
             NEW marine \in BOOLEAN, Download(why, ok, marine)
      PROVE  CompleteInv'
  <2>1. /\ at = "fetch" /\ at' = "merge" /\ status' = status
        /\ round'.all = round.all /\ round'.of = round.of
        /\ round'.from = round.from /\ round'.rank = round.rank
        /\ file' = IF ok THEN [file EXCEPT ![Spot] = round.of] ELSE file
        /\ fetched' = IF ok THEN fetched \cup {Spot} ELSE fetched
    BY <1>0, <1>5 DEF Download, Rounds
  <2>2. round.all /\ ~round'.incomplete => ok /\ ~round.incomplete
    BY <1>0, <1>5 DEF Download, Incomplete, Rounds
  <2>3. ASSUME round.all, NEW i \in fetched'
        PROVE  file'[i] = round.of
    <3>1. i \in fetched => file[i] = round.of /\ i \in Spots
      BY <1>0, <2>3 DEF CompleteInv
    <3>2. Spot \in Spots
      BY <1>0, SpotsFact DEF Spot
    <3>3. CASE ok /\ i = Spot
      BY <1>0, <2>1, <3>2, <3>3
    <3>4. CASE ok /\ i # Spot
      BY <1>0, <2>1, <2>3, <3>1, <3>4
    <3>5. CASE ~ok
      BY <2>1, <2>3, <3>1, <3>5
    <3> QED BY <3>3, <3>4, <3>5
  <2>4. ASSUME round.all, ~round'.incomplete, NEW k \in 0..round.rank
        PROVE  SpotAt(round.from, k) \in fetched'
    <3>1. CASE k < round.rank
      BY <2>1, <2>2, <2>4, <3>1 DEF CompleteInv
    <3>2. CASE k = round.rank
      BY <2>1, <2>2, <2>4, <3>2 DEF Spot
    <3> QED BY <1>0, <3>1, <3>2
  <2> QED BY <2>1, <2>3, <2>4 DEF CompleteInv
<1>6. CASE Merge
  <2>1. CASE Current # round.of
    BY <1>2, <1>6, <2>1 DEF Merge, Abandon
  <2>2. CASE Current = round.of
    <3>1. /\ at = "merge" /\ at' = "next" /\ UNCHANGED <<file, status, fetched>>
          /\ round'.all = round.all /\ round'.of = round.of
          /\ round'.from = round.from /\ round'.rank = round.rank + 1
          /\ round'.incomplete = round.incomplete
      BY <1>0, <1>6, <2>2 DEF Merge, Rounds, flash
    <3>2. \A k \in 0..round.rank + 1 : k < round.rank + 1 => k \in 0..round.rank
      BY <1>0
    <3> QED BY <3>1, <3>2 DEF CompleteInv
  <2> QED BY <2>1, <2>2
<1>7. CASE \/ \E r \in Outcomes : ShowRound(r)
           \/ EndSweep
           \/ \E glass \in {panel, NoFrame} : Restart(glass)
  BY <1>2, <1>7 DEF ShowRound, EndSweep, Restart, Abandon
<1>8. CASE InputStep \/ InstallerStep
  <2>1. CASE InputStep
    BY <1>1, <2>1 DEF InputStep, Navigate
  <2>2. CASE \E c \in Configs, why \in Attempts, ok \in BOOLEAN, r \in Outcomes :
               Preview(c, why, ok, r)
    BY <1>1, <2>2 DEF Preview, FetchLockFree
  <2>3. CASE \/ Hello \/ Release \/ Undo
             \/ \E ok \in BOOLEAN : Activate(ok) \/ Promote(ok) \/ Reload(ok)
             \/ \E glass \in {NoFrame, panel} : FailedScreen(glass)
    <3>1. UNCHANGED <<at, round, status, fetched, file>>
      BY <2>3 DEF Hello, Release, Activate, Promote, Reload, Undo, FailedScreen,
         flash
    <3> QED BY <1>1, <3>1
  <2> QED BY <1>8, <2>1, <2>2, <2>3 DEF InstallerStep
<1>9. CASE UNCHANGED vars
  BY <1>1, <1>9 DEF vars, flash
<1> QED
  BY <1>3, <1>4, <1>5, <1>6, <1>7, <1>8, <1>9 DEF Next, RoundStep

(* The step that reports a success ends a round of all spots.              *)
LEMMA SuccessStep ==
  ASSUME IInv, CompleteInv, [Next]_vars, round.all, status' = "ok"
  PROVE  /\ fetched = Spots /\ \A i \in Spots : file[i] = round.of
         /\ round.of = stored \/ "activated" \in late
<1>1. PICK r \in Outcomes : ShowRound(r)
  <2>1. status = "running" /\ at # "idle"
    BY DEF CompleteInv
  <2> QED
    BY <2>1 DEF Next, RoundStep, InputStep, InstallerStep, RoundBegin, Capture,
       Download, Merge, EndSweep, Navigate, Hello, Release, Preview, Activate,
       Promote, Reload, Undo, FailedScreen, Restart, vars
<1>2. /\ ~round.incomplete /\ at = "next" /\ round.rank >= SpotCount
  BY <1>1 DEF ShowRound
<1>3. round.of = stored \/ "activated" \in late
  <2>1. SpotCount > 0 /\ round.rank > 0
    BY <1>2, RuntimeAssumption DEF IInv, TypeOK, WorkType, Rounds
  <2>2. Underway
    BY <1>2, <2>1 DEF IInv, RoundInv
  <2> QED BY <2>2 DEF IInv, InForce, Underway
<1>4. /\ fetched \subseteq Spots /\ round.from \in Spots /\ round.rank \in Nat
      /\ SpotCount \in Nat
  BY RuntimeAssumption DEF IInv, TypeOK, MemoryType, WorkType,
         Rounds
<1>5. ASSUME NEW i \in Spots
      PROVE  i \in fetched
  <2>1. PICK k \in 0..SpotCount - 1 : SpotAt(round.from, k) = i
    BY <1>4, SpotAtCovers
  <2>2. k \in 0..round.rank /\ k < round.rank
    BY <1>2, <1>4
  <2> QED BY <1>2, <2>1, <2>2 DEF CompleteInv
<1> QED BY <1>3, <1>4, <1>5 DEF CompleteInv

(* A round that reports success downloaded every spot's forecast for one   *)
(* setup, whatever spots were visited and sessions held meanwhile; for the *)
(* stored one, unless work came in between an activation and its record.   *)
THEOREM RoundIsComplete == Spec => RoundComplete
<1>1. Init => CompleteInv
  BY DEF Init, CompleteInv, NoRound
<1>2. IInv /\ CompleteInv /\ [Next]_vars => CompleteInv'
  BY CompleteStep
<1>3. IInv /\ CompleteInv /\ [Next]_vars
        => [round.all /\ status' = "ok"
              => /\ fetched = Spots /\ \A i \in Spots : file[i] = round.of
                 /\ round.of = stored \/ "activated" \in late]_vars
  BY SuccessStep
<1> QED
  BY <1>1, <1>2, <1>3, RuntimeInvariant, PTL DEF Spec, RoundComplete
=============================================================================
