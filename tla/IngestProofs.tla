---------------------------- MODULE IngestProofs ----------------------------
(***************************************************************************)
(* For any number of polls, any feed in any order, however the database     *)
(* interleaves, aborts and loses them: an item is registered exactly if it  *)
(* is stored, it is handed on once at most, and the metadata of the source   *)
(* tells the truth.                                                        *)
(***************************************************************************)
EXTENDS Ingest, FiniteSetTheorems, TLAPS

(* What an open transaction has inserted is nobody else's and not stored;    *)
(* what waits for its hand-off is stored and in no run.                     *)
NewIsOwn ==
    /\ \A p \in Polls :
          /\ pc[p] \notin {"dedup", "handoff"} => new[p] = {}
          /\ pc[p] = "dedup" => new[p] \cap fingerprints = {}
          /\ pc[p] = "handoff" => new[p] \subseteq fingerprints /\ \A f \in new[p] : runs[f] = 0
    /\ \A p, q \in Polls : p # q => new[p] \cap new[q] = {}

OnlyStoredIsRouted == \A f \in Items \ fingerprints : runs[f] = 0

(* A poll that carries a marker to clear has the metadata as it is, or holds  *)
(* the row, or an operator has replaced it meanwhile.                       *)
MarkerInHand ==
    \A p \in Polls :
        pc[p] \in {"flush", "dedup"} =>
            /\ pc[p] = "dedup" /\ seen[p].failure => lock = p
            /\ seen[p].failure /\ ~ raced => seen[p].note = patches
            /\ ~ overlap /\ patches = 0 => meta.failure = seen[p].failure

AloneUnlessOverlap ==
    ~ overlap => \A p, q \in Polls : Polling(p) /\ Polling(q) => p = q

IInv ==
    /\ TypeOK /\ NewIsOwn /\ OnlyStoredIsRouted /\ MarkerInHand /\ AloneUnlessOverlap
    /\ StoredOnce /\ HealthIsTruthful /\ RunAtMostOnce
-----------------------------------------------------------------------------
LEMMA ItemsFinite == IsFiniteSet(Items)
<1>1. Cardinality(Documents) \in Nat /\ IsFiniteSet(Documents \ Linkless) /\ IsFiniteSet(Linkless)
  BY DocumentsAssumption, FS_CardinalityType, FS_Subset, FS_Difference
<1>2. IsFiniteSet(1..Cardinality(Documents))
  BY <1>1, FS_Interval
<1>3. IsFiniteSet((Documents \ Linkless) \X {0}) /\ IsFiniteSet(Linkless \X (1..Cardinality(Documents)))
  BY <1>1, <1>2, FS_Singleton, FS_Product
<1>. QED  BY <1>3, FS_Union DEF Items

(* A document with a link of its own has one fingerprint. *)
LEMMA OneOfADocument ==
  ASSUME NEW S \in SUBSET Items, NEW d \in Documents \ Linkless
  PROVE  Cardinality({f \in S : f[1] = d}) <= 1
<1>1. \A f \in S : f[1] = d => f = <<d, 0>>
  BY DEF Items
<1>2. {f \in S : f[1] = d} \subseteq {<<d, 0>>}
  BY <1>1
<1>3. IsFiniteSet({<<d, 0>>}) /\ Cardinality({<<d, 0>>}) = 1
  BY FS_Singleton
<1>. QED  BY <1>2, <1>3, FS_Subset

(* What a feed is fetched as.                                               *)
LEMMA FetchedItems ==
  ASSUME NEW S \in SUBSET Documents, NEW feed \in SetToSeqs(S)
  PROVE  [k \in DOMAIN feed |-> Fingerprint(feed, k)] \in Seq(Items)
<1>1. IsFiniteSet(S) /\ Cardinality(S) <= Cardinality(Documents)
  BY DocumentsAssumption, FS_Subset
<1>2. Cardinality(S) \in Nat /\ Cardinality(Documents) \in Nat
  BY <1>1, DocumentsAssumption, FS_CardinalityType
<1>3. feed \in [1..Cardinality(S) -> S]
  BY DEF SetToSeqs
<1>4. ASSUME NEW k \in 1..Cardinality(S)
      PROVE  Fingerprint(feed, k) \in Items
  BY <1>1, <1>2, <1>3, DocumentsAssumption DEF Fingerprint, Items
<1>. QED  BY <1>2, <1>3, <1>4

LEMMA InitIInv ==
  ASSUME Init
  PROVE  IInv
<1>1. TypeOK
  <2>1. patches \in 0..MaxPatches /\ faults \in 0..MaxFaults
    BY BoundsAssumption DEF Init
  <2>2. NoMeta \in Metas /\ meta \in Metas
    BY BoundsAssumption DEF Init, Metas, NoMeta
  <2>3. supported \in BOOLEAN /\ enabled \in BOOLEAN /\ overlap \in BOOLEAN /\ raced \in BOOLEAN
    BY DEF Init
  <2>4. last \in {"ok", "failed"}
    BY DEF Init
  <2>5. /\ pc \in [Polls -> Places] /\ left \in [Polls -> Seq(Items)]
        /\ new \in [Polls -> SUBSET Items] /\ seen \in [Polls -> Metas]
    BY <2>2 DEF Init, Places
  <2>. QED  BY <2>1, <2>2, <2>3, <2>4, <2>5 DEF Init, TypeOK
<1>2. NewIsOwn /\ OnlyStoredIsRouted /\ MarkerInHand /\ AloneUnlessOverlap
  BY DEF Init, NewIsOwn, OnlyStoredIsRouted, MarkerInHand, AloneUnlessOverlap, Polling
<1>3. StoredOnce
  <2>1. Cardinality(fingerprints) = 0
    BY FS_EmptySet DEF Init
  <2>2. fingerprints \in SUBSET Items
    BY DEF Init
  <2>. QED  BY <2>1, <2>2, OneOfADocument DEF Init, StoredOnce
<1>4. HealthIsTruthful
  BY DEF Init, HealthIsTruthful
<1>5. RunAtMostOnce
  BY DEF Init, RunAtMostOnce
<1>. QED  BY <1>1, <1>2, <1>3, <1>4, <1>5 DEF IInv

LEMMA CountedFailure ==
  ASSUME IInv, CountFailure
  PROVE  meta' \in Metas /\ failCount' \in Nat /\ last' \in {"ok", "failed"}
<1>1. [meta EXCEPT !.failure = TRUE] \in Metas
  BY DEF IInv, TypeOK, Metas
<1>. QED  BY <1>1 DEF IInv, TypeOK, CountFailure

LEMMA LoadStep ==
  ASSUME IInv, NEW p \in Polls, Load(p)
  PROVE  IInv'
<1>1. TypeOK'
  BY DEF IInv, TypeOK, Goto, Load, Places, health, stored
<1>2. NewIsOwn'
  BY DEF IInv, Goto, Load, NewIsOwn, stored
<1>3. OnlyStoredIsRouted'
  BY DEF IInv, Load, OnlyStoredIsRouted, stored
<1>4. MarkerInHand'
  BY DEF IInv, TypeOK, Goto, Load, MarkerInHand
<1>5. AloneUnlessOverlap'
  BY DEF IInv, TypeOK, Goto, Load, AloneUnlessOverlap, Polling
<1>6. StoredOnce'
  BY DEF IInv, Load, StoredOnce, health, stored
<1>7. HealthIsTruthful'
  BY DEF IInv, Load, HealthIsTruthful
<1>8. RunAtMostOnce'
  BY DEF IInv, Goto, Load, RunAtMostOnce, stored
<1>. QED  BY <1>1, <1>2, <1>3, <1>4, <1>5, <1>6, <1>7, <1>8 DEF IInv

LEMMA RejectTypeStep ==
  ASSUME IInv, NEW p \in Polls, RejectType(p)
  PROVE  IInv'
<1>1. TypeOK'
  BY CountedFailure DEF IInv, TypeOK, RejectType, Goto, Places, stored
<1>2. NewIsOwn'
  BY DEF IInv, Goto, RejectType, NewIsOwn, stored
<1>3. OnlyStoredIsRouted'
  BY DEF IInv, RejectType, OnlyStoredIsRouted, stored
<1>4. MarkerInHand'
  BY DEF IInv, TypeOK, Goto, RejectType, MarkerInHand, AloneUnlessOverlap, Polling
<1>5. AloneUnlessOverlap'
  BY DEF IInv, Goto, RejectType, AloneUnlessOverlap, Polling
<1>6. StoredOnce'
  BY DEF IInv, RejectType, StoredOnce, stored
<1>7. HealthIsTruthful'
  BY DEF IInv, RejectType, CountFailure, HealthIsTruthful
<1>8. RunAtMostOnce'
  BY DEF IInv, Goto, RejectType, RunAtMostOnce, stored
<1>. QED  BY <1>1, <1>2, <1>3, <1>4, <1>5, <1>6, <1>7, <1>8 DEF IInv

LEMMA FetchStep ==
  ASSUME IInv, NEW p \in Polls, Fetch(p)
  PROVE  IInv'
<1>1. TypeOK'
  <2>1. PICK S \in SUBSET Documents : \E feed \in SetToSeqs(S) :
          left' = [left EXCEPT ![p] = [k \in DOMAIN feed |-> Fingerprint(feed, k)]]
    BY DEF Fetch
  <2>2. left' \in [Polls -> Seq(Items)]
    <3>0. PICK feed \in SetToSeqs(S) :
            left' = [left EXCEPT ![p] = [k \in DOMAIN feed |-> Fingerprint(feed, k)]]
      BY <2>1
    <3> DEFINE fetched == [k \in DOMAIN feed |-> Fingerprint(feed, k)]
    <3>1. fetched \in Seq(Items)
      BY FetchedItems
    <3> HIDE DEF fetched
    <3>2. left' = [left EXCEPT ![p] = fetched]
      BY <3>0 DEF fetched
    <3>. QED  BY <3>1, <3>2 DEF IInv, TypeOK
  <2>. QED  BY <2>2 DEF IInv, TypeOK, Fetch, Goto, Places, health, stored
<1>2. NewIsOwn'
  BY DEF IInv, Goto, Fetch, NewIsOwn, stored
<1>3. OnlyStoredIsRouted'
  BY DEF IInv, Fetch, OnlyStoredIsRouted, stored
<1>4. MarkerInHand'
  BY DEF IInv, Goto, Fetch, MarkerInHand
<1>5. AloneUnlessOverlap'
  BY DEF IInv, Goto, Fetch, AloneUnlessOverlap, Polling
<1>6. StoredOnce'
  BY DEF IInv, Fetch, StoredOnce, health, stored
<1>7. HealthIsTruthful'
  BY DEF IInv, Fetch, HealthIsTruthful
<1>8. RunAtMostOnce'
  BY DEF IInv, Goto, Fetch, RunAtMostOnce, stored
<1>. QED  BY <1>1, <1>2, <1>3, <1>4, <1>5, <1>6, <1>7, <1>8 DEF IInv

LEMMA FetchFailsStep ==
  ASSUME IInv, NEW p \in Polls, FetchFails(p)
  PROVE  IInv'
<1>1. TypeOK'
  BY BoundsAssumption DEF IInv, TypeOK, Goto, FetchFails, Fault, Places, health, stored
<1>2. NewIsOwn'
  BY DEF IInv, Goto, FetchFails, NewIsOwn, stored
<1>3. OnlyStoredIsRouted'
  BY DEF IInv, FetchFails, OnlyStoredIsRouted, stored
<1>4. MarkerInHand'
  BY DEF IInv, Goto, FetchFails, MarkerInHand
<1>5. AloneUnlessOverlap'
  BY DEF IInv, Goto, FetchFails, AloneUnlessOverlap, Polling
<1>6. StoredOnce'
  BY DEF IInv, FetchFails, StoredOnce, health, stored
<1>7. HealthIsTruthful'
  BY DEF IInv, FetchFails, HealthIsTruthful
<1>8. RunAtMostOnce'
  BY DEF IInv, TypeOK, FetchFails, Fault, RunAtMostOnce
<1>. QED  BY <1>1, <1>2, <1>3, <1>4, <1>5, <1>6, <1>7, <1>8 DEF IInv

LEMMA RecordFailureStep ==
  ASSUME IInv, NEW p \in Polls, RecordFailure(p)
  PROVE  IInv'
<1>1. TypeOK'
  BY CountedFailure DEF IInv, TypeOK, RecordFailure, Goto, Places, stored
<1>2. NewIsOwn'
  BY DEF IInv, Goto, RecordFailure, NewIsOwn, stored
<1>3. OnlyStoredIsRouted'
  BY DEF IInv, RecordFailure, OnlyStoredIsRouted, stored
<1>4. MarkerInHand'
  BY DEF IInv, TypeOK, Goto, RecordFailure, MarkerInHand, AloneUnlessOverlap, Polling
<1>5. AloneUnlessOverlap'
  BY DEF IInv, Goto, RecordFailure, AloneUnlessOverlap, Polling
<1>6. StoredOnce'
  BY DEF IInv, RecordFailure, StoredOnce, stored
<1>7. HealthIsTruthful'
  BY DEF IInv, RecordFailure, CountFailure, HealthIsTruthful
<1>8. RunAtMostOnce'
  BY DEF IInv, Goto, RecordFailure, RunAtMostOnce, stored
<1>. QED  BY <1>1, <1>2, <1>3, <1>4, <1>5, <1>6, <1>7, <1>8 DEF IInv

LEMMA ReadMetaStep ==
  ASSUME IInv, NEW p \in Polls, ReadMeta(p)
  PROVE  IInv'
<1>1. TypeOK'
  BY DEF IInv, TypeOK, Goto, ReadMeta, Places, health, stored
<1>2. NewIsOwn'
  BY DEF IInv, Goto, ReadMeta, NewIsOwn, stored
<1>3. OnlyStoredIsRouted'
  BY DEF IInv, ReadMeta, OnlyStoredIsRouted, stored
<1>4. MarkerInHand'
  BY DEF IInv, TypeOK, Goto, ReadMeta, MarkerInHand, HealthIsTruthful
<1>5. AloneUnlessOverlap'
  BY DEF IInv, Goto, ReadMeta, AloneUnlessOverlap, Polling
<1>6. StoredOnce'
  BY DEF IInv, ReadMeta, StoredOnce, health, stored
<1>7. HealthIsTruthful'
  BY DEF IInv, ReadMeta, HealthIsTruthful
<1>8. RunAtMostOnce'
  BY DEF IInv, Goto, ReadMeta, RunAtMostOnce, stored
<1>. QED  BY <1>1, <1>2, <1>3, <1>4, <1>5, <1>6, <1>7, <1>8 DEF IInv

LEMMA FlushMetaStep ==
  ASSUME IInv, NEW p \in Polls, FlushMeta(p)
  PROVE  IInv'
<1>1. TypeOK'
  BY DEF IInv, TypeOK, Goto, FlushMeta, Places, health, stored
<1>2. NewIsOwn'
  BY DEF IInv, Goto, FlushMeta, NewIsOwn, stored
<1>3. OnlyStoredIsRouted'
  BY DEF IInv, FlushMeta, OnlyStoredIsRouted, stored
<1>4. MarkerInHand'
  BY NoPollAssumption DEF IInv, Goto, FlushMeta, MarkerInHand, MayWrite
<1>5. AloneUnlessOverlap'
  BY DEF IInv, Goto, FlushMeta, AloneUnlessOverlap, Polling
<1>6. StoredOnce'
  BY DEF IInv, FlushMeta, StoredOnce, health, stored
<1>7. HealthIsTruthful'
  BY DEF IInv, FlushMeta, HealthIsTruthful
<1>8. RunAtMostOnce'
  BY DEF IInv, Goto, FlushMeta, RunAtMostOnce, stored
<1>. QED  BY <1>1, <1>2, <1>3, <1>4, <1>5, <1>6, <1>7, <1>8 DEF IInv

LEMMA InsertFingerprintStep ==
  ASSUME IInv, NEW p \in Polls, InsertFingerprint(p)
  PROVE  IInv'
<1>1. TypeOK'
  BY DEF IInv, TypeOK, InsertFingerprint, health, stored
<1>2. NewIsOwn'
  <2>1. \/ new' = new
        \/ \E i : /\ i \notin fingerprints /\ new' = [new EXCEPT ![p] = @ \cup {i}]
                  /\ \A q \in Polls \ {p} : pc[q] = "dedup" => i \notin new[q]
    BY DEF InsertFingerprint, Taken, Duplicate
  <2>2. pc[p] = "dedup" /\ pc' = pc /\ fingerprints' = fingerprints /\ runs' = runs
    BY DEF InsertFingerprint, stored
  <2>3. CASE new' = new
    BY <2>2, <2>3 DEF IInv, NewIsOwn
  <2>4. ASSUME NEW i, i \notin fingerprints, new' = [new EXCEPT ![p] = @ \cup {i}],
               \A q \in Polls \ {p} : pc[q] = "dedup" => i \notin new[q]
        PROVE  NewIsOwn'
    BY <2>2, <2>4 DEF IInv, NewIsOwn
  <2>. QED  BY <2>1, <2>3, <2>4
<1>3. OnlyStoredIsRouted'
  BY DEF IInv, InsertFingerprint, OnlyStoredIsRouted, stored
<1>4. MarkerInHand'
  BY DEF IInv, InsertFingerprint, MarkerInHand
<1>5. AloneUnlessOverlap'
  BY DEF IInv, InsertFingerprint, AloneUnlessOverlap, Polling
<1>6. StoredOnce'
  BY DEF IInv, InsertFingerprint, StoredOnce, health, stored
<1>7. HealthIsTruthful'
  BY DEF IInv, InsertFingerprint, HealthIsTruthful
<1>8. RunAtMostOnce'
  BY DEF IInv, InsertFingerprint, RunAtMostOnce, stored
<1>. QED  BY <1>1, <1>2, <1>3, <1>4, <1>5, <1>6, <1>7, <1>8 DEF IInv

LEMMA CommitPollStep ==
  ASSUME IInv, NEW p \in Polls, CommitPoll(p)
  PROVE  IInv'
<1>1. TypeOK'
  <2>1. IsFiniteSet(new[p]) /\ Cardinality(new[p]) \in Nat
    BY ItemsFinite, FS_Subset, FS_CardinalityType DEF IInv, TypeOK
  <2>2. meta' \in Metas
    BY DEF IInv, TypeOK, CommitPoll, Cleared, Metas
  <2>3. updates' \in [Items -> Nat] /\ fingerprints' \subseteq Items
    BY DEF IInv, TypeOK, CommitPoll, Persist
  <2>. QED  BY <2>1, <2>2, <2>3 DEF IInv, TypeOK, CommitPoll, CountSuccess, Goto, Places
<1>2. NewIsOwn'
  BY DEF IInv, TypeOK, Goto, CommitPoll, NewIsOwn, OnlyStoredIsRouted
<1>3. OnlyStoredIsRouted'
  BY DEF IInv, CommitPoll, OnlyStoredIsRouted
<1>4. MarkerInHand'
  BY DEF IInv, TypeOK, Goto, CommitPoll, MarkerInHand, AloneUnlessOverlap, Polling, MayWrite
<1>5. AloneUnlessOverlap'
  BY DEF IInv, Goto, CommitPoll, AloneUnlessOverlap, Polling
<1>6. StoredOnce'
  <2>1. /\ IsFiniteSet(new[p]) /\ IsFiniteSet(fingerprints)
        /\ Cardinality(new[p]) \in Nat /\ Cardinality(fingerprints) \in Nat
    BY ItemsFinite, FS_Subset, FS_CardinalityType DEF IInv, TypeOK
  <2>2. new[p] \cap fingerprints = {}
    BY DEF IInv, NewIsOwn, CommitPoll
  <2>3. Cardinality(fingerprints \cup new[p]) = Cardinality(fingerprints) + Cardinality(new[p])
    <3>1. Cardinality(fingerprints \cap new[p]) = 0
      BY <2>2, FS_EmptySet
    <3>2. Cardinality(fingerprints \cup new[p])
            = Cardinality(fingerprints) + Cardinality(new[p]) - Cardinality(fingerprints \cap new[p])
      BY <2>1, FS_Union
    <3>. QED  BY <2>1, <3>1, <3>2
  <2>4. itemCount' = Cardinality(fingerprints')
    BY <2>3 DEF IInv, StoredOnce, CommitPoll, CountSuccess
  <2>5. \A f \in Items : updates'[f] = IF f \in fingerprints' THEN 1 ELSE 0
    BY <2>2 DEF IInv, StoredOnce, CommitPoll, Persist
  <2>6. fingerprints' \in SUBSET Items
    BY DEF IInv, TypeOK, CommitPoll
  <2>. QED  BY <2>4, <2>5, <2>6, OneOfADocument DEF StoredOnce
<1>7. HealthIsTruthful'
  BY DEF IInv, CommitPoll, Cleared, HealthIsTruthful, MarkerInHand
<1>8. RunAtMostOnce'
  BY DEF IInv, TypeOK, Goto, CommitPoll, RunAtMostOnce
<1>. QED  BY <1>1, <1>2, <1>3, <1>4, <1>5, <1>6, <1>7, <1>8 DEF IInv

LEMMA StoreFailsStep ==
  ASSUME IInv, NEW p \in Polls, StoreFails(p)
  PROVE  IInv'
<1>1. TypeOK'
  BY BoundsAssumption
     DEF IInv, TypeOK, Goto, StoreFails, Rollback, Fault, Places, health, stored
<1>2. NewIsOwn'
  BY DEF IInv, TypeOK, Goto, StoreFails, Rollback, NewIsOwn, stored
<1>3. OnlyStoredIsRouted'
  BY DEF IInv, StoreFails, OnlyStoredIsRouted, stored
<1>4. MarkerInHand'
  BY DEF IInv, TypeOK, Goto, StoreFails, Rollback, MarkerInHand
<1>5. AloneUnlessOverlap'
  BY DEF IInv, Goto, StoreFails, AloneUnlessOverlap, Polling
<1>6. StoredOnce'
  BY DEF IInv, StoreFails, StoredOnce, health, stored
<1>7. HealthIsTruthful'
  BY DEF IInv, StoreFails, HealthIsTruthful
<1>8. RunAtMostOnce'
  BY DEF IInv, TypeOK, StoreFails, Fault, RunAtMostOnce
<1>. QED  BY <1>1, <1>2, <1>3, <1>4, <1>5, <1>6, <1>7, <1>8 DEF IInv

LEMMA DeadlockDetectedStep ==
  ASSUME IInv, NEW p \in Polls, DeadlockDetected(p)
  PROVE  IInv'
<1>1. TypeOK'
  BY DEF IInv, TypeOK, DeadlockDetected, Rollback, Goto, Places, health, stored
<1>2. NewIsOwn'
  BY DEF IInv, TypeOK, DeadlockDetected, Rollback, Goto, NewIsOwn, stored
<1>3. OnlyStoredIsRouted'
  BY DEF IInv, DeadlockDetected, OnlyStoredIsRouted, stored
<1>4. MarkerInHand'
  BY DEF IInv, TypeOK, Goto, DeadlockDetected, Rollback, MarkerInHand
<1>5. AloneUnlessOverlap'
  BY DEF IInv, DeadlockDetected, Waits, AloneUnlessOverlap, Polling
<1>6. StoredOnce'
  BY DEF IInv, DeadlockDetected, StoredOnce, health, stored
<1>7. HealthIsTruthful'
  BY DEF IInv, DeadlockDetected, HealthIsTruthful
<1>8. RunAtMostOnce'
  BY DEF IInv, Goto, DeadlockDetected, Rollback, Waits, RunAtMostOnce, stored
<1>. QED  BY <1>1, <1>2, <1>3, <1>4, <1>5, <1>6, <1>7, <1>8 DEF IInv

LEMMA HandoffStep ==
  ASSUME IInv, NEW p \in Polls, Handoff(p)
  PROVE  IInv'
<1>1. TypeOK'
  BY DEF IInv, TypeOK, Goto, Handoff, Places, health, stored
<1>2. NewIsOwn'
  BY DEF IInv, TypeOK, Goto, Handoff, NewIsOwn, stored
<1>3. OnlyStoredIsRouted'
  BY DEF IInv, Handoff, NewIsOwn, OnlyStoredIsRouted, stored
<1>4. MarkerInHand'
  BY DEF IInv, Goto, Handoff, MarkerInHand
<1>5. AloneUnlessOverlap'
  BY DEF IInv, Goto, Handoff, AloneUnlessOverlap, Polling
<1>6. StoredOnce'
  BY DEF IInv, Handoff, StoredOnce, health, stored
<1>7. HealthIsTruthful'
  BY DEF IInv, Handoff, HealthIsTruthful
<1>8. RunAtMostOnce'
  BY DEF IInv, Goto, Handoff, RunAtMostOnce, NewIsOwn, stored
<1>. QED  BY <1>1, <1>2, <1>3, <1>4, <1>5, <1>6, <1>7, <1>8 DEF IInv

LEMMA LoseStep ==
  ASSUME IInv, NEW p \in Polls, Lose(p)
  PROVE  IInv'
<1>1. TypeOK'
  BY BoundsAssumption DEF IInv, TypeOK, Goto, Lose, Rollback, Fault, Places, health, stored
<1>2. NewIsOwn'
  BY DEF IInv, TypeOK, Goto, Lose, Rollback, NewIsOwn, stored
<1>3. OnlyStoredIsRouted'
  BY DEF IInv, Lose, OnlyStoredIsRouted, stored
<1>4. MarkerInHand'
  BY DEF IInv, TypeOK, Goto, Lose, Rollback, MarkerInHand
<1>5. AloneUnlessOverlap'
  BY DEF IInv, Goto, Lose, AloneUnlessOverlap, Polling
<1>6. StoredOnce'
  BY DEF IInv, Lose, StoredOnce, health, stored
<1>7. HealthIsTruthful'
  BY DEF IInv, Lose, HealthIsTruthful
<1>8. RunAtMostOnce'
  BY DEF IInv, TypeOK, Lose, Fault, RunAtMostOnce
<1>. QED  BY <1>1, <1>2, <1>3, <1>4, <1>5, <1>6, <1>7, <1>8 DEF IInv

LEMMA PatchMetaStep ==
  ASSUME IInv, PatchMeta
  PROVE  IInv'
<1>1. TypeOK'
  BY BoundsAssumption DEF IInv, TypeOK, PatchMeta, Metas, health, stored
<1>2. NewIsOwn'
  BY DEF IInv, PatchMeta, NewIsOwn, stored
<1>3. OnlyStoredIsRouted'
  BY DEF IInv, PatchMeta, OnlyStoredIsRouted, stored
<1>4. MarkerInHand'
  <2>. SUFFICES ASSUME NEW q \in Polls, pc[q] \in {"flush", "dedup"}
                PROVE  /\ pc[q] = "dedup" /\ seen[q].failure => lock = q
                       /\ seen[q].failure => raced'
                       /\ patches' # 0
    BY DEF MarkerInHand, PatchMeta
  <2>1. pc[q] = "dedup" => ~ seen[q].failure
    BY NoPollAssumption DEF IInv, MarkerInHand, PatchMeta
  <2>2. pc[q] = "flush" /\ seen[q].failure => raced'
    BY DEF PatchMeta
  <2>. QED  BY <2>1, <2>2 DEF IInv, TypeOK, PatchMeta
<1>5. AloneUnlessOverlap'
  BY DEF IInv, PatchMeta, AloneUnlessOverlap, Polling
<1>6. StoredOnce'
  BY DEF IInv, PatchMeta, StoredOnce, health, stored
<1>7. HealthIsTruthful'
  BY DEF IInv, TypeOK, PatchMeta, HealthIsTruthful
<1>8. RunAtMostOnce'
  BY DEF IInv, PatchMeta, RunAtMostOnce, stored
<1>. QED  BY <1>1, <1>2, <1>3, <1>4, <1>5, <1>6, <1>7, <1>8 DEF IInv

LEMMA PatchEnabledStep ==
  ASSUME IInv, PatchEnabled
  PROVE  IInv'
<1>1. TypeOK'
  BY DEF IInv, TypeOK, PatchEnabled, health, stored
<1>2. NewIsOwn'
  BY DEF IInv, PatchEnabled, NewIsOwn, stored
<1>3. OnlyStoredIsRouted'
  BY DEF IInv, PatchEnabled, OnlyStoredIsRouted, stored
<1>4. MarkerInHand'
  BY DEF IInv, PatchEnabled, MarkerInHand
<1>5. AloneUnlessOverlap'
  BY DEF IInv, PatchEnabled, AloneUnlessOverlap, Polling
<1>6. StoredOnce'
  BY DEF IInv, PatchEnabled, StoredOnce, health, stored
<1>7. HealthIsTruthful'
  BY DEF IInv, PatchEnabled, HealthIsTruthful
<1>8. RunAtMostOnce'
  BY DEF IInv, PatchEnabled, RunAtMostOnce, stored
<1>. QED  BY <1>1, <1>2, <1>3, <1>4, <1>5, <1>6, <1>7, <1>8 DEF IInv
-----------------------------------------------------------------------------
LEMMA NextKeepsIInv ==
  ASSUME IInv, [Next]_vars
  PROVE  IInv'
<1>1. ASSUME NEW p \in Polls, Progress(p)
      PROVE  IInv'
  BY <1>1, RejectTypeStep, FetchStep, RecordFailureStep, ReadMetaStep, FlushMetaStep,
       InsertFingerprintStep, CommitPollStep, DeadlockDetectedStep, HandoffStep DEF Progress
<1>2. CASE UNCHANGED vars
  BY <1>2
     DEF vars, health, stored, IInv, TypeOK, NewIsOwn, OnlyStoredIsRouted, MarkerInHand,
       AloneUnlessOverlap, Polling, StoredOnce, HealthIsTruthful, RunAtMostOnce
<1>. QED  BY <1>1, <1>2, LoadStep, FetchFailsStep, StoreFailsStep, LoseStep, PatchMetaStep,
               PatchEnabledStep DEF Next

(***************************************************************************)
(* The inductive invariant of the polls.                                    *)
(***************************************************************************)
THEOREM IngestInvariant == Spec => []IInv
<1>1. Init => IInv
  BY InitIInv
<1>2. IInv /\ [Next]_vars => IInv'
  BY NextKeepsIInv
<1>. QED  BY <1>1, <1>2, PTL DEF Spec

(***************************************************************************)
(* The polls keep the types of their state.                                 *)
(***************************************************************************)
THEOREM IngestTypes == Spec => []TypeOK
<1>1. IInv => TypeOK
  BY DEF IInv
<1>. QED  BY <1>1, IngestInvariant, PTL

(***************************************************************************)
(* register_new_items and persist_new_items_after_dedup: a fingerprint is    *)
(* committed if and only if its update is, once, and the source counts it.   *)
(***************************************************************************)
THEOREM ItemsAreStoredOnce == Spec => []StoredOnce
<1>1. IInv => StoredOnce
  BY DEF IInv
<1>. QED  BY <1>1, IngestInvariant, PTL

(***************************************************************************)
(* clear_poll_failure and record_poll_failure: the failure marker and the    *)
(* operators' metadata tell the truth.                                     *)
(***************************************************************************)
THEOREM MetadataIsTruthful == Spec => []HealthIsTruthful
<1>1. IInv => HealthIsTruthful
  BY DEF IInv
<1>. QED  BY <1>1, IngestInvariant, PTL

(***************************************************************************)
(* The hand-off to the graph: no item is in two runs, and one in none was    *)
(* left by a poll that ended early.                                        *)
(***************************************************************************)
THEOREM ItemsAreRoutedOnce == Spec => []RunAtMostOnce
<1>1. IInv => RunAtMostOnce
  BY DEF IInv
<1>. QED  BY <1>1, IngestInvariant, PTL
=============================================================================
