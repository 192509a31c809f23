------------------------------ MODULE WorkGate ------------------------------
(***************************************************************************)
(* What the power manager promises the tasks of the device: work that has  *)
(* begun ends before the device goes to sleep, and none begins after.  An  *)
(* empty battery forces the gate.                                          *)
(***************************************************************************)
CONSTANT Tasks

VARIABLES holders,   \* the tasks whose work has begun
          closed,    \* a sleep transition owns the device
          forced     \* it was forced by an empty battery

vars == <<holders, closed, forced>>

Init == holders = {} /\ closed = FALSE /\ forced = FALSE

Join(t)  == ~closed /\ holders' = holders \cup {t} /\ UNCHANGED <<closed, forced>>
Leave(t) == t \in holders /\ holders' = holders \ {t} /\ UNCHANGED <<closed, forced>>
Close    == ~closed /\ holders = {} /\ closed' = TRUE /\ UNCHANGED <<holders, forced>>
Force    == ~closed /\ closed' = TRUE /\ forced' = TRUE /\ UNCHANGED holders

(* A boot, after a sleep or a crash. *)
Boot == holders' = {} /\ closed' = FALSE /\ forced' = FALSE

Next == Close \/ Force \/ Boot \/ \E t \in Tasks : Join(t) \/ Leave(t)

Spec == Init /\ [][Next]_vars
=============================================================================
