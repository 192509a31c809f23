-------------------------- MODULE SlotCacheProofs ---------------------------
(***************************************************************************)
(* The two slots implement a register that only takes newer records, for   *)
(* any number of identities, stores, failures, resets and damaged slots;   *)
(* a load that one store at most overlaps returns one of its records.      *)
(***************************************************************************)
EXTENDS SlotCache, TLAPS

Other(s) == IF s = "a" THEN "b" ELSE "a"

(* Slots are empty or of their own generation, and a store in progress     *)
(* replaces the older one by a record newer than both.                     *)
IInv ==
  /\ TypeOK
  /\ GenerationsDiffer
  /\ \A s \in Slots : slot[s].gen = 0 => slot[s] = Empty
  /\ pc # "idle" =>
       /\ \A s \in Slots : slot[s].gen < new.gen
       /\ slot[target].gen <= slot[Other(target)].gen

(* The empty record is a record, and so is what a load matches.            *)
LEMMA EmptyType == Empty \in Records /\ Empty.gen = 0
BY CacheAssumption DEF Empty, Records

(* A matched record is the slot's or the empty one.                        *)
LEMMA MatchingType ==
  ASSUME NEW r \in Records, NEW id
  PROVE  Matching(r, id) \in Records
BY EmptyType DEF Matching

(* What the slots hold for an identity is a record.                        *)
LEMMA NewestForType ==
  ASSUME NEW f \in [Slots -> Records], NEW id
  PROVE  NewestFor(f, id) \in Records
<1> DEFINE found == {Matching(f[s], id) : s \in Slots}
           x == Matching(f["a"], id)
           y == Matching(f["b"], id)
<1>1. x \in Records /\ y \in Records
  BY MatchingType DEF Slots
<1>2. found = {x, y}
  BY DEF Slots
<1>3. x.gen \in Nat /\ y.gen \in Nat
  BY <1>1, CacheAssumption DEF Records
<1> HIDE DEF x, y
<1>4. \E r \in {x, y} : \A q \in {x, y} : q.gen <= r.gen
  <2>1. CASE x.gen <= y.gen
    BY <1>3, <2>1
  <2>2. CASE y.gen <= x.gen
    BY <1>3, <2>2
  <2> QED BY <1>3, <2>1, <2>2
<1>5. NewestFor(f, id) = CHOOSE r \in {x, y} : \A q \in {x, y} : q.gen <= r.gen
  BY <1>2 DEF NewestFor
<1>6. NewestFor(f, id) \in {x, y}
  BY <1>4, <1>5
<1> QED BY <1>1, <1>6

(* The types of the history of a load. *)
LEMMA ObserveType ==
  ASSUME TypeOK, slot' \in [Slots -> Records], UNCHANGED want, Observe
  PROVE  seen' \subseteq Records
<1>1. View(want)' \in Records
  BY NewestForType DEF View
<1> QED BY <1>1 DEF Observe, TypeOK

(* IInv holds when the cache directory is empty. *)
LEMMA IInvInit ==
  ASSUME Init
  PROVE  IInv
<1>1. slot \in [Slots -> Records] /\ \A s \in Slots : slot[s] = Empty
  BY EmptyType DEF Init
<1>2. TypeOK
  BY <1>1, EmptyType DEF Init, TypeOK, Slots
<1> QED BY <1>1, <1>2, EmptyType DEF Init, IInv, GenerationsDiffer, Slots

(* IInv is inductive. *)
LEMMA IInvStep ==
  ASSUME IInv, [Next]_vars
  PROVE  IInv'
<1>1. /\ TypeOK /\ GenerationsDiffer
      /\ slot["a"] \in Records /\ slot["b"] \in Records /\ new \in Records
      /\ slot["a"].gen \in Nat /\ slot["b"].gen \in Nat /\ new.gen \in Nat
      /\ slot["a"].gen <= MaxGeneration /\ slot["b"].gen <= MaxGeneration
      /\ Slots = {"a", "b"} /\ target \in Slots
  BY CacheAssumption DEF IInv, TypeOK, Slots, Records
<1>2. CASE \E id \in Identities : Store(id)
  <2>1. PICK id \in Identities : Store(id)
    BY <1>2
  <2>2. /\ target' = Inactive /\ UNCHANGED slot
        /\ new' = [gen |-> Generation, id |-> id, forecast |-> stores + 1]
        /\ Newest.gen # MaxGeneration
    BY <2>1 DEF Store, MayStore
  <2>3. /\ target' \in Slots /\ Generation \in Nat
        /\ slot["a"].gen < Generation /\ slot["b"].gen < Generation
        /\ Generation <= MaxGeneration
        /\ slot[target'].gen <= slot[Other(target')].gen
    BY <1>1, <2>2, CacheAssumption DEF Inactive, Generation, Newest, Other
  <2>4. new' \in Records /\ new'.gen = Generation
    BY <1>1, <2>2, <2>3, CacheAssumption DEF Records, TypeOK
  <2>5. TypeOK'
    BY <1>1, <2>1, <2>3, <2>4 DEF Store, TypeOK, loader
  <2> QED BY <1>1, <2>2, <2>3, <2>4, <2>5 DEF IInv, GenerationsDiffer, Other
<1>3. CASE Written \/ StoreFailed \/ Reset
  <2>1. /\ UNCHANGED <<slot, new, target>> /\ (pc' # "idle" => pc # "idle")
        /\ UNCHANGED <<stores, damages, want, first, result, seen, overlap>>
        /\ pc' \in {"idle", "unlink"} /\ load' \in {"idle", load}
    BY <1>3 DEF Written, StoreFailed, Reset, loader
  <2>2. TypeOK'
    BY <1>1, <2>1 DEF TypeOK
  <2> QED BY <2>1, <2>2 DEF IInv, GenerationsDiffer
<1>4. CASE Unlinked
  <2>1. /\ slot' = [slot EXCEPT ![target] = Empty] /\ pc = "unlink"
        /\ pc' = "rename" /\ UNCHANGED <<target, new, stores, damages, loader>>
        /\ Observe /\ overlap' \in {overlap, overlap + 1}
    BY <1>4 DEF Unlinked
  <2>2. slot' \in [Slots -> Records]
    BY <1>1, <2>1, EmptyType DEF TypeOK
  <2>3. TypeOK'
    BY <1>1, <2>1, <2>2, ObserveType DEF TypeOK, loader
  <2>4. slot'["a"] \in {slot["a"], Empty} /\ slot'["b"] \in {slot["b"], Empty}
        /\ slot'[target] = Empty /\ slot'[Other(target)] = slot[Other(target)]
    BY <1>1, <2>1 DEF TypeOK, Other
  <2> QED BY <1>1, <2>1, <2>3, <2>4, EmptyType DEF IInv, GenerationsDiffer, Other
<1>5. CASE Renamed
  <2>1. /\ slot' = [slot EXCEPT ![target] = new] /\ pc = "rename"
        /\ pc' = "idle" /\ UNCHANGED <<target, new, stores, damages, loader, overlap>>
        /\ Observe
    BY <1>5 DEF Renamed
  <2>2. slot' \in [Slots -> Records]
    BY <1>1, <2>1 DEF TypeOK
  <2>3. TypeOK'
    BY <1>1, <2>1, <2>2, ObserveType DEF TypeOK, loader
  <2>4. slot'[target] = new /\ slot'[Other(target)] = slot[Other(target)]
        /\ slot[Other(target)].gen < new.gen
    BY <1>1, <2>1 DEF TypeOK, Other, IInv
  <2> QED BY <1>1, <2>1, <2>3, <2>4 DEF IInv, GenerationsDiffer, Other
<1>6. CASE (\E id \in Identities : LoadFirst(id)) \/ LoadSecond
  <2>1. UNCHANGED <<slot, store, damages>>
    BY <1>6 DEF LoadFirst, LoadSecond
  <2>2. TypeOK'
    <3>1. CASE \E id \in Identities : LoadFirst(id)
      <4>1. PICK id \in Identities : LoadFirst(id)
        BY <3>1
      <4>2. View(id) \in Records /\ Matching(slot["a"], id) \in Records
        BY <1>1, NewestForType, MatchingType DEF View, TypeOK
      <4> QED BY <1>1, <4>1, <4>2 DEF LoadFirst, TypeOK, store
    <3>2. CASE LoadSecond
      <4>1. Chosen(first, Matching(slot["b"], want)) \in Records
        BY <1>1, MatchingType DEF Chosen, TypeOK
      <4> QED BY <1>1, <3>2, <4>1 DEF LoadSecond, TypeOK, store
    <3> QED BY <1>6, <3>1, <3>2
  <2> QED BY <2>1, <2>2 DEF IInv, GenerationsDiffer, store
<1>7. CASE \E s \in Slots : Damage(s)
  <2>1. PICK s \in Slots : Damage(s)
    BY <1>7
  <2>2. /\ slot' = [slot EXCEPT ![s] = Empty] /\ pc = "idle"
        /\ damages' = damages + 1 /\ UNCHANGED <<store, loader, seen, overlap>>
    BY <2>1 DEF Damage
  <2>3. slot' \in [Slots -> Records]
    BY <1>1, <2>2, EmptyType DEF TypeOK
  <2>4. TypeOK'
    BY <1>1, <2>2, <2>3 DEF TypeOK, store, loader
  <2>5. slot'["a"] \in {slot["a"], Empty} /\ slot'["b"] \in {slot["b"], Empty}
        /\ slot'[s] = Empty
    BY <1>1, <2>1, <2>2 DEF TypeOK
  <2> QED BY <1>1, <2>1, <2>2, <2>4, <2>5, EmptyType
          DEF IInv, GenerationsDiffer, store
<1>8. CASE UNCHANGED vars
  BY <1>1, <1>8 DEF IInv, TypeOK, GenerationsDiffer, vars, store, loader
<1> QED BY <1>2, <1>3, <1>4, <1>5, <1>6, <1>7, <1>8 DEF Next

(* Type correctness: no generation passes the limit of its counter.        *)
THEOREM TypeCorrect == Spec => []TypeOK
<1>1. IInv => TypeOK
  BY DEF IInv
<1> QED BY <1>1, IInvInit, IInvStep, PTL DEF Spec

(* Two valid slots are never of the same generation.                       *)
THEOREM NewestUnambiguous == Spec => []GenerationsDiffer
<1>1. IInv => GenerationsDiffer
  BY DEF IInv
<1> QED BY <1>1, IInvInit, IInvStep, PTL DEF Spec

(* Every step writes the register, damages it or leaves it alone.          *)
LEMMA RegisterStep ==
  ASSUME IInv, IInv', [Next]_vars
  PROVE  [NewestRegister!Write \/ NewestRegister!Damage]_<<Newest, damages>>
<1> USE DEF NewestRegister!Write, NewestRegister!Damage
<1>1. /\ slot["a"] \in Records /\ slot["b"] \in Records /\ new \in Records
      /\ slot["a"].gen \in Nat /\ slot["b"].gen \in Nat /\ new.gen \in Nat
      /\ Slots = {"a", "b"} /\ target \in Slots
      /\ slot \in [Slots -> Records]
  BY CacheAssumption DEF IInv, TypeOK, Slots, Records
<1>2. CASE Unlinked
  <2>1. /\ slot' = [slot EXCEPT ![target] = Empty] /\ UNCHANGED damages
        /\ slot[target].gen <= slot[Other(target)].gen
    BY <1>2 DEF Unlinked, IInv
  <2>2. slot'[target] = Empty /\ slot'[Other(target)] = slot[Other(target)]
    BY <1>1, <2>1 DEF Other
  <2>3. \A s \in Slots : slot[s].gen = 0 => slot[s] = Empty
    BY DEF IInv
  <2>4. Newest' = Newest
    <3>1. CASE target = "a"
      BY <1>1, <2>1, <2>2, <3>1, EmptyType DEF Newest, Other
    <3>2. CASE target = "b"
      BY <1>1, <2>1, <2>2, <2>3, <3>2, EmptyType
         DEF Newest, Other, IInv, GenerationsDiffer
    <3> QED BY <1>1, <3>1, <3>2
  <2> QED BY <2>1, <2>4
<1>3. CASE Renamed
  <2>1. slot' = [slot EXCEPT ![target] = new] /\ UNCHANGED damages
        /\ slot["a"].gen < new.gen /\ slot["b"].gen < new.gen
    BY <1>1, <1>3 DEF Renamed, IInv
  <2>2. slot'[target] = new /\ slot'[Other(target)] = slot[Other(target)]
    BY <1>1, <2>1 DEF Other
  <2>3. Newest' = new
    <3>1. CASE target = "a"
      BY <1>1, <2>1, <2>2, <3>1 DEF Newest, Other
    <3>2. CASE target = "b"
      BY <1>1, <2>1, <2>2, <3>2 DEF Newest, Other
    <3> QED BY <1>1, <3>1, <3>2
  <2>4. Newest.gen < new.gen
    BY <2>1 DEF Newest
  <2>5. new.gen > Newest.gen
    BY <1>1, <2>4 DEF Newest
  <2> QED BY <1>1, <2>1, <2>3, <2>5
<1>4. CASE \E s \in Slots : Damage(s)
  <2>1. PICK s \in Slots : Damage(s)
    BY <1>4
  <2>2. slot' = [slot EXCEPT ![s] = Empty] /\ damages' = damages + 1
    BY <2>1 DEF Damage
  <2>3. slot'["a"] \in {slot["a"], Empty} /\ slot'["b"] \in {slot["b"], Empty}
    BY <1>1, <2>1, <2>2
  <2>4. Newest' \in Records /\ Newest'.gen <= Newest.gen
    BY <1>1, <2>3, EmptyType DEF Newest
  <2> QED BY <2>2, <2>4
<1>5. CASE UNCHANGED <<slot, damages>>
  BY <1>5 DEF Newest
<1> QED BY <1>2, <1>3, <1>4, <1>5
        DEF Next, Store, LoadFirst, Written, StoreFailed, LoadSecond, Reset, vars

(* The slots implement the register.                                       *)
THEOREM ImplementsRegister == Spec => RegisterSpec
<1>1. Init => NewestRegister!Init
  BY DEF Init, NewestRegister!Init, Newest, Slots
<1>2. IInv /\ IInv' /\ [Next]_vars
        => [NewestRegister!Write \/ NewestRegister!Damage]_<<Newest, damages>>
  BY RegisterStep
<1> QED BY <1>1, <1>2, IInvInit, IInvStep, PTL
        DEF Spec, RegisterSpec, NewestRegister!Spec

-----------------------------------------------------------------------------
(* Loads.  A load for an identity that still finds in slot a what it read  *)
(* there can combine it with slot b: that is what the cache holds now.  If *)
(* slot a was replaced since, what it has in hand with slot b is what the  *)
(* cache held before.  One store at most replaces a slot during a load.    *)
LInv ==
  /\ load = "second" =>
       /\ View(want) \in seen
       /\ overlap \in 0..1
       /\ pc = "rename" => overlap = 1
       /\ overlap = 0 => first = Matching(slot["a"], want)
       /\ pc = "rename" /\ target = "b" => first = Matching(slot["a"], want)
       /\ \/ first = Matching(slot["a"], want)
          \/ Chosen(first, Matching(slot["b"], want)) \in seen
  /\ LoadRegular

(* Two records of the same generation that match are both empty, so that   *)
(* the choice a load makes is the newest record for its identity.          *)
LEMMA ChosenIsView ==
  ASSUME IInv, NEW id
  PROVE  Chosen(Matching(slot["a"], id), Matching(slot["b"], id)) = View(id)
<1> DEFINE x == Matching(slot["a"], id)
           y == Matching(slot["b"], id)
<1>1. /\ slot["a"] \in Records /\ slot["b"] \in Records
      /\ slot["a"].gen = 0 => slot["a"] = Empty
      /\ slot["b"].gen = 0 => slot["b"] = Empty
      /\ slot["a"].gen = slot["b"].gen => slot["a"].gen = 0
  BY DEF IInv, TypeOK, Slots, GenerationsDiffer
<1>2. x \in Records /\ y \in Records /\ Empty.gen = 0
  BY <1>1, MatchingType, EmptyType
<1>3. x.gen \in Nat /\ y.gen \in Nat
  BY <1>2, CacheAssumption DEF Records
<1>4. x.gen = y.gen => x = y
  BY <1>1, <1>2 DEF Matching
<1>5. View(id) = CHOOSE r \in {x, y} : \A q \in {x, y} : q.gen <= r.gen
  BY DEF View, NewestFor, Slots
<1>6. Chosen(x, y) = IF x.gen >= y.gen THEN x ELSE y
  BY DEF Chosen
<1> HIDE DEF x, y
<1> DEFINE c == Chosen(x, y)
           P(r) == \A q \in {x, y} : q.gen <= r.gen
<1>7. c \in {x, y} /\ P(c)
  BY <1>3, <1>6
<1>8. \A r \in {x, y} : P(r) => r = c
  BY <1>3, <1>4, <1>6
<1> HIDE DEF c
<1>9. (CHOOSE r \in {x, y} : P(r)) = c
  BY <1>7, <1>8
<1> QED BY <1>5, <1>9 DEF c, x, y

(* LInv is inductive while at most one store replaces a slot during a load.*)
LEMMA LoadStep ==
  ASSUME IInv, LInv, MaxOverlap <= 1, [Next]_vars
  PROVE  LInv'
<1>1. /\ overlap \in Nat /\ target \in Slots /\ Slots = {"a", "b"}
      /\ slot \in [Slots -> Records] /\ MaxOverlap \in Nat
  BY CacheAssumption DEF IInv, TypeOK, Slots
<1>2. CASE \E id \in Identities : Store(id)
  <2>1. pc' = "write" /\ UNCHANGED <<slot, load, want, first, result, seen, overlap>>
    BY <1>2 DEF Store, loader
  <2> QED BY <2>1 DEF LInv, LoadRegular, View
<1>3. CASE Written \/ StoreFailed \/ Reset
  <2>1. /\ pc' \in {"idle", "unlink"} /\ load' \in {load, "idle"}
        /\ UNCHANGED <<slot, want, first, result, seen, overlap, target>>
    BY <1>3 DEF Written, StoreFailed, Reset, loader
  <2> QED BY <2>1 DEF LInv, LoadRegular, View
<1>4. CASE Unlinked
  <2>1. /\ pc' = "rename" /\ slot' = [slot EXCEPT ![target] = Empty]
        /\ load = "second" => overlap < MaxOverlap
        /\ overlap' = IF load = "second" THEN overlap + 1 ELSE overlap
        /\ UNCHANGED <<target, load, want, first, result>>
        /\ seen' = IF load = "second" THEN seen \cup {View(want)'} ELSE seen
    BY <1>4 DEF Unlinked, Observe, loader
  <2>2. CASE load = "second"
    <3>1. overlap = 0 /\ overlap' = 1
      BY <1>1, <2>1, <2>2
    <3>2. first = Matching(slot["a"], want) /\ View(want) \in seen
      BY <2>2, <3>1 DEF LInv
    <3>3. CASE target = "a"
      <4>1. slot'["b"] = slot["b"]
        BY <1>1, <2>1, <3>3
      <4>2. Chosen(first, Matching(slot["b"], want)) \in seen
        BY <3>2, ChosenIsView
      <4> QED BY <2>1, <2>2, <3>1, <3>3, <4>1, <4>2 DEF LInv, LoadRegular
    <3>4. CASE target = "b"
      <4>1. slot'["a"] = slot["a"]
        BY <1>1, <2>1, <3>4
      <4> QED BY <2>1, <2>2, <3>1, <3>2, <4>1 DEF LInv, LoadRegular
    <3> QED BY <1>1, <3>3, <3>4
  <2>3. CASE load # "second"
    BY <2>1, <2>3 DEF LInv, LoadRegular
  <2> QED BY <2>2, <2>3
<1>5. CASE Renamed
  <2>1. /\ pc = "rename" /\ pc' = "idle" /\ slot' = [slot EXCEPT ![target] = new]
        /\ UNCHANGED <<target, load, want, first, result, overlap>>
        /\ seen' = IF load = "second" THEN seen \cup {View(want)'} ELSE seen
    BY <1>5 DEF Renamed, Observe, loader
  <2>2. CASE load = "second"
    <3>1. overlap = 1 /\ View(want) \in seen
      BY <2>1, <2>2 DEF LInv
    <3>2. CASE target = "a"
      <4>1. slot'["b"] = slot["b"]
        BY <1>1, <2>1, <3>2
      <4>2. Chosen(first, Matching(slot["b"], want)) \in seen
        BY <2>2, <3>1, ChosenIsView DEF LInv
      <4> QED BY <2>1, <2>2, <3>1, <4>1, <4>2 DEF LInv, LoadRegular
    <3>3. CASE target = "b"
      <4>1. slot'["a"] = slot["a"]
        BY <1>1, <2>1, <3>3
      <4>2. first = Matching(slot["a"], want)
        BY <2>1, <2>2, <3>3 DEF LInv
      <4> QED BY <2>1, <2>2, <3>1, <4>1, <4>2 DEF LInv, LoadRegular
    <3> QED BY <1>1, <3>2, <3>3
  <2>3. CASE load # "second"
    BY <2>1, <2>3 DEF LInv, LoadRegular
  <2> QED BY <2>2, <2>3
<1>6. CASE \E id \in Identities : LoadFirst(id)
  <2>1. PICK id \in Identities : LoadFirst(id)
    BY <1>6
  <2>2. /\ load' = "second" /\ want' = id /\ first' = Matching(slot["a"], id)
        /\ seen' = {View(id)} /\ overlap' = IF pc = "rename" THEN 1 ELSE 0
        /\ UNCHANGED <<slot, pc, target>>
    BY <2>1 DEF LoadFirst, store
  <2> QED BY <2>2 DEF LInv, LoadRegular, View
<1>7. CASE LoadSecond
  <2>1. /\ load = "second" /\ load' = "done" /\ seen' = seen
        /\ result' = Chosen(first, Matching(slot["b"], want))
    BY <1>7 DEF LoadSecond
  <2>2. result' \in seen
    BY <2>1, ChosenIsView DEF LInv
  <2> QED BY <2>1, <2>2 DEF LInv, LoadRegular
<1>8. CASE \E s \in Slots : Damage(s)
  <2>1. load # "second" /\ UNCHANGED <<load, result, seen>>
    BY <1>8 DEF Damage, loader
  <2> QED BY <2>1 DEF LInv, LoadRegular
<1>9. CASE UNCHANGED vars
  BY <1>9 DEF LInv, LoadRegular, View, vars, store, loader
<1> QED BY <1>2, <1>3, <1>4, <1>5, <1>6, <1>7, <1>8, <1>9 DEF Next

(* A load that overlaps the replacement of at most one slot returns what   *)
(* the cache held for its identity while it ran.                           *)
THEOREM LoadIsRegular ==
  ASSUME MaxOverlap <= 1
  PROVE  Spec => []LoadRegular
<1>1. Init => LInv
  BY DEF Init, LInv, LoadRegular
<1>2. IInv /\ LInv /\ [Next]_vars => LInv'
  BY LoadStep
<1>3. LInv => LoadRegular
  BY DEF LInv
<1> QED BY <1>1, <1>2, <1>3, IInvInit, IInvStep, PTL DEF Spec
=============================================================================
