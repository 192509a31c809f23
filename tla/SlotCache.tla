----------------------------- MODULE SlotCache ------------------------------
(***************************************************************************)
(* The two-slot caches of the forecast, the swell and the tide             *)
(* (wind_cache.c, wind_swell_cache.c, wind_tide_cache.c share the          *)
(* algorithm).  A store writes and verifies a temporary file, unlinks the  *)
(* inactive slot and renames the temporary over it; a load reads one slot  *)
(* after the other.  A store runs under the fetch lock, a load runs        *)
(* concurrently under the runtime lock, and a reset strikes between any    *)
(* two file operations.                                                    *)
(***************************************************************************)
EXTENDS Naturals

CONSTANTS
  Identities,     \* identities (spot, timezone, model) that share a cache path
  NoIdentity,     \* what an empty slot holds
  MaxGeneration,  \* UINT64_MAX
  MaxStores,      \* bound on stores
  MaxDamages,     \* bound on damaged slots
  MaxOverlap      \* stores that may replace a slot while one load runs

ASSUME CacheAssumption ==
  /\ NoIdentity \notin Identities
  /\ MaxGeneration \in Nat /\ MaxStores \in Nat /\ MaxDamages \in Nat
  /\ MaxOverlap \in Nat

VARIABLES
  slot,      \* the files .a and .b; generation 0 is a missing or invalid one
  pc,        \* where the store is: "idle", "write", "unlink" or "rename"
  target,    \* the slot it replaces
  new,       \* the record it writes
  stores,    \* stores begun so far: numbers the forecasts
  damages,   \* slots damaged so far
  load,      \* where the load is: "idle", "second" or "done"
  want,      \* the identity it asks for
  first,     \* what it read from slot a
  result,    \* what it returned
  seen,      \* what the cache held for that identity since the load began
  overlap    \* stores that replaced a slot since the load began

store == <<pc, target, new, stores>>
loader == <<load, want, first, result>>
vars == <<slot, store, damages, loader, seen, overlap>>

-----------------------------------------------------------------------------
Slots == {"a", "b"}
Empty == [gen |-> 0, id |-> NoIdentity, forecast |-> 0]
Records == [ gen : 0..MaxGeneration, id : Identities \cup {NoIdentity},
             forecast : Nat ]

(* The slot to replace: an invalid one, a first, or else the older one.    *)
Inactive_newest == IF slot["a"].gen <= slot["b"].gen THEN "b" ELSE "a"
Inactive == IF slot["a"].gen <= slot["b"].gen THEN "a" ELSE "b"

Newest == IF slot["a"].gen <= slot["b"].gen THEN slot["b"] ELSE slot["a"]

(* The generation of a new record; the last one is never passed.           *)
Generation_inactive == slot[Inactive].gen + 1
Generation == Newest.gen + 1

MayStore == Newest.gen # MaxGeneration

(* A record as a load for an identity finds it. *)
Matching(r, id) == IF r.id = id THEN r ELSE Empty

(* The record a load returns, of the two it found. *)
Chosen_second(a, b) == IF b.gen > 0 THEN b ELSE a
Chosen(a, b) == IF a.gen >= b.gen THEN a ELSE b

(* What the slots f hold for an identity. *)
NewestFor(f, id) ==
  LET found == {Matching(f[s], id) : s \in Slots}
  IN CHOOSE r \in found : \A q \in found : q.gen <= r.gen

View(id) == NewestFor(slot, id)

Observe ==
  seen' = IF load = "second" THEN seen \cup {View(want)'} ELSE seen

-----------------------------------------------------------------------------
Init ==
  /\ slot = [s \in Slots |-> Empty]
  /\ pc = "idle" /\ target = "a" /\ new = Empty /\ stores = 0 /\ damages = 0
  /\ load = "idle" /\ want = NoIdentity /\ first = Empty /\ result = Empty
  /\ seen = {} /\ overlap = 0

(* wind_cache_store reads both slots, of whatever identity, and prepares   *)
(* the next record.                                                        *)
Store(id) ==
  /\ pc = "idle" /\ stores < MaxStores
  /\ MayStore
  /\ target' = Inactive
  /\ new' = [gen |-> Generation, id |-> id, forecast |-> stores + 1]
  /\ stores' = stores + 1
  /\ pc' = "write"
  /\ UNCHANGED <<slot, damages, loader, seen, overlap>>

(* The temporary file is written, synced and read back.                    *)
Written ==
  /\ pc = "write" /\ pc' = "unlink"
  /\ UNCHANGED <<slot, target, new, stores, damages, loader, seen, overlap>>

Unlinked ==
  /\ pc = "unlink" /\ pc' = "rename"
  /\ load = "second" => overlap < MaxOverlap
  /\ slot' = [slot EXCEPT ![target] = Empty]
  /\ overlap' = IF load = "second" THEN overlap + 1 ELSE overlap
  /\ UNCHANGED <<target, new, stores, damages, loader>>
  /\ Observe

Renamed ==
  /\ pc = "rename" /\ pc' = "idle"
  /\ slot' = [slot EXCEPT ![target] = new]
  /\ UNCHANGED <<target, new, stores, damages, loader, overlap>>
  /\ Observe

(* A write, verification, unlink or rename fails: the temporary is removed *)
(* and the slot stays as it is.                                            *)
StoreFailed ==
  /\ pc # "idle" /\ pc' = "idle"
  /\ UNCHANGED <<slot, target, new, stores, damages, loader, seen, overlap>>

LoadFirst(id) ==
  /\ load # "second" /\ load' = "second"
  /\ want' = id
  /\ first' = Matching(slot["a"], id)
  /\ seen' = {View(id)}
  /\ overlap' = IF pc = "rename" THEN 1 ELSE 0
  /\ UNCHANGED <<slot, store, damages, result>>

LoadSecond ==
  /\ load = "second" /\ load' = "done"
  /\ result' = Chosen(first, Matching(slot["b"], want))
  /\ UNCHANGED <<slot, store, damages, want, first, seen, overlap>>

Reset ==
  /\ pc # "idle" \/ load = "second"
  /\ pc' = "idle" /\ load' = "idle"
  /\ UNCHANGED <<slot, target, new, stores, damages, want, first, result,
                 seen, overlap>>

(* A slot that no longer reads: a flash error, or a firmware update that   *)
(* changed the render version.                                             *)
Damage(s) ==
  /\ pc = "idle" /\ load # "second"
  /\ damages < MaxDamages /\ damages' = damages + 1
  /\ slot' = [slot EXCEPT ![s] = Empty]
  /\ UNCHANGED <<store, loader, seen, overlap>>

Next ==
  \/ \E id \in Identities : Store(id) \/ LoadFirst(id)
  \/ Written \/ Unlinked \/ Renamed \/ StoreFailed
  \/ LoadSecond \/ Reset
  \/ \E s \in Slots : Damage(s)

Spec == Init /\ [][Next]_vars

-----------------------------------------------------------------------------
(* Types; no record is of a generation a 64-bit counter cannot hold.       *)
TypeOK ==
  /\ slot \in [Slots -> Records] /\ new \in Records
  /\ pc \in {"idle", "write", "unlink", "rename"} /\ target \in Slots
  /\ stores \in Nat /\ damages \in Nat /\ overlap \in Nat
  /\ load \in {"idle", "second", "done"}
  /\ want \in Identities \cup {NoIdentity}
  /\ first \in Records /\ result \in Records /\ seen \subseteq Records

(* The newest slot is never ambiguous: two valid slots differ in           *)
(* generation, whatever failed before (wind_cache_store_with_records).     *)
GenerationsDiffer ==
  slot["a"].gen = slot["b"].gen => slot["a"].gen = 0

(* A load that runs while a store replaces a slot returns what the cache   *)
(* held for its identity at some instant of the load: never an older       *)
(* forecast, and never nothing because the slots changed places between    *)
(* its two reads (wind_cache_load_with_records against write_forecast_slot)*)
LoadRegular == load = "done" => result \in seen

(* The slots implement one register: a store replaces its record at the    *)
(* rename, and no failure and no reset loses it.                           *)
NewestRegister ==
  INSTANCE Register WITH value <- Newest

RegisterSpec == NewestRegister!Spec

(* "The other slot remains authoritative while this inactive slot is       *)
(* replaced": unlinking the inactive slot does not lose the forecast of    *)
(* the spot that is being stored.                                          *)
OwnForecastKept == [][ Unlinked => View(new.id)' = View(new.id) ]_vars
=============================================================================
