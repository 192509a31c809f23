---------------------------- MODULE MCAppRuntime ----------------------------
(* AppRuntime for model checking: setups are interchangeable, and states   *)
(* are told apart by what is read again.                                   *)
EXTENDS AppRuntime, TLC

Symmetry == Permutations(Configs)

(* What RenderedIsShown asks about.                                        *)
Counts == last /\ "previewed" \notin late

(* A runtime that is to be set up anew is what ensure_ready will make of   *)
(* it; a screen that neither counts nor is on record is only ever drawn    *)
(* over; a sweep counts no downloads and reports no success; an apply that *)
(* failed only has the earlier setup left to go back to; and a proof that  *)
(* promises nothing is none.                                               *)
Live ==
  <<flash, IF Counts \/ record # NoFrame THEN panel ELSE NoFrame,
    spots, ready, Current, Selected, Booked, Forced, Owed, forceNext, Counts,
    at, inst, "activated" \in late,
    IF round.all THEN <<status, fetched, round>>
                 ELSE <<"idle", {}, [round EXCEPT !.incomplete = FALSE]>>,
    CASE inst = "failed" -> NoCand
      [] inst = "undo" -> [NoCand EXCEPT !.old = cand.old]
      [] OTHER -> cand,
    IF proved.late THEN NoProof ELSE proved>>
=============================================================================
