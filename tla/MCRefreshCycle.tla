--------------------------- MODULE MCRefreshCycle ---------------------------
(***************************************************************************)
(* Small instances of RefreshCycle.  Two boundaries follow each other      *)
(* closely; the third is compared with retries that it would overtake and  *)
(* is met only by longer runs; the last lies beyond any modelled time.     *)
(* Days are three or four ticks long, so that midnight passes between the  *)
(* second and the third boundary and the coverage refresh of an old        *)
(* forecast is met.  A fast retry fits between two boundaries, a final one *)
(* may not.                                                                *)
(***************************************************************************)
EXTENDS RefreshCycle, TLC

MCBoundaries == {1, 2, 6, 40}

(* One boundary in the modelled time, so that a series of retries can run. *)
MCSparse == {1, 40}

(* Boundaries that two later ones follow in the modelled time, for a claim *)
(* about what the next wakes do.                                           *)
MCDense == {1, 2, 4, 5, 40}

(* The models are alike. *)
MCModels == Permutations(Models)

(* What is read again: of a runtime that is to be initialised anew only    *)
(* what the invariants ask about its schedule; the next wake when nothing  *)
(* runs, and only if it is still ahead; the panel as long as something is  *)
(* confirmed or about to be; and the older slot unless the newer one hides *)
(* it until it is replaced.                                                *)
MCLive ==
  <<now, newer, IF older.model = newer.model THEN NoForecast ELSE older,
    model, disk, confirmed, ready, forceNext, pc, run, tried, retries, stale,
    budget,
    IF confirmed = NoFrame /\ pc # "confirm" THEN Other ELSE panel,
    IF ready THEN <<mem, cov, force>>
    ELSE <<[EmptySchedule EXCEPT !.satisfied = mem.satisfied], 0, FALSE>>,
    IF pc \in {"idle", "screen"} /\ wakeAt > now THEN wakeAt ELSE now>>
=============================================================================
