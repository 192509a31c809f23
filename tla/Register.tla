------------------------------ MODULE Register ------------------------------
(***************************************************************************)
(* What a two-slot cache promises its callers: one register that only      *)
(* takes newer records.  A store that fails or is cut by a reset leaves    *)
(* the register as it was; only damage to the storage loses a record.      *)
(***************************************************************************)
EXTENDS Naturals

CONSTANTS Records,   \* what the register holds; each has a generation, gen
          Empty      \* the record of generation 0: nothing stored

VARIABLES value,     \* the newest stored record
          damages    \* how often the storage was damaged

Init == value = Empty /\ damages = 0

Write ==
  /\ value' \in Records /\ value'.gen > value.gen
  /\ UNCHANGED damages

Damage ==
  /\ value' \in Records /\ value'.gen <= value.gen
  /\ damages' = damages + 1

Spec == Init /\ [][Write \/ Damage]_<<value, damages>>
=============================================================================
