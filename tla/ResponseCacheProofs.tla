------------------------ MODULE ResponseCacheProofs ------------------------
(***************************************************************************)
(* Proofs about ResponseCache, for any URLs, pages, capacity and lifetime. *)
(* The number of entries is a cardinality, so finiteness of the map is     *)
(* part of the invariant.                                                  *)
(***************************************************************************)
EXTENDS ResponseCache, FiniteSetTheorems, TLAPS

Inv == IInv /\ IsFiniteSet(DOMAIN entries)

USE DEF CacheAssumption

\* An entry removed leaves no more entries behind.
LEMMA KeepShrinks ==
  ASSUME CacheAssumption, Inv, NEW S \in SUBSET DOMAIN entries, entries' = Keep(S)
  PROVE  Inv'
<1>1. DOMAIN entries' = S /\ \A u \in S : entries'[u] = entries[u]
  BY DEF Keep
<1>2. IsFiniteSet(S) /\ Cardinality(S) <= Cardinality(DOMAIN entries)
  BY FS_Subset DEF Inv
<1>3. Cardinality(S) \in Nat /\ Cardinality(DOMAIN entries) \in Nat
  BY <1>2, FS_CardinalityType DEF Inv
<1>4. SizeBounded'
  BY <1>1, <1>2, <1>3, CacheAssumption DEF Inv, IInv, SizeBounded
<1>5. TypeOK'
  <2>1. entries' = [u \in S |-> entries[u]]
    BY DEF Keep
  <2>2. \A u \in S : entries[u] \in Entry
    BY DEF Inv, IInv, TypeOK
  <2> QED
    BY <1>1, <2>1, <2>2 DEF Inv, IInv, TypeOK
<1> QED
  BY <1>1, <1>2, <1>4, <1>5 DEF Inv, IInv

\* A page put keeps the map within its capacity: it overwrites, or there was
\* room for one more.
LEMMA PutFits ==
  ASSUME CacheAssumption, Inv, NEW u \in Urls, NEW page \in Pages, Put(u, page)
  PROVE  Inv'
<1>1. CASE ~ RoomFor(u)
  BY <1>1 DEF Put, Inv, IInv, TypeOK, SizeBounded
<1>2. CASE RoomFor(u)
  <2> DEFINE D == DOMAIN entries
             e == [page |-> page, left |-> Ttl]
  <2>1. entries' = [v \in D \cup {u} |-> IF v = u THEN e ELSE entries[v]]
    BY <1>2 DEF Put
  <2>2. DOMAIN entries' = D \cup {u}
    BY <2>1
  <2>3. e \in Entry
    BY CacheAssumption DEF Entry
  <2>4. IsFiniteSet(D) /\ Cardinality(D) \in Nat
    BY FS_CardinalityType DEF Inv
  <2>5. IsFiniteSet(D \cup {u}) /\ Cardinality(D \cup {u}) <= MaxSize
    <3>1. CASE u \in D
      <4>1. D \cup {u} = D
        BY <3>1
      <4> QED
        BY <4>1, <2>4 DEF Inv, IInv, SizeBounded
    <3>2. CASE u \notin D
      <4>1. Cardinality(D) < MaxSize
        BY <1>2, <3>2 DEF RoomFor
      <4>2. IsFiniteSet(D \cup {u}) /\ Cardinality(D \cup {u}) = Cardinality(D) + 1
        BY <2>4, <3>2, FS_AddElement
      <4> QED
        BY <4>1, <4>2, <2>4, CacheAssumption
    <3> QED
      BY <3>1, <3>2
  <2>6. \A v \in D \cup {u} : (IF v = u THEN e ELSE entries[v]) \in Entry
    BY <2>3 DEF Inv, IInv, TypeOK
  <2>7. TypeOK'
    <3>1. entries' \in [D \cup {u} -> Entry]
      BY <2>1, <2>6
    <3>2. D \cup {u} \subseteq Urls
      BY DEF Inv, IInv, TypeOK
    <3> HIDE DEF D
    <3> QED
      BY <3>1, <3>2, <2>2 DEF TypeOK
  <2>8. SizeBounded' /\ IsFiniteSet(DOMAIN entries')
    BY <2>2, <2>5 DEF SizeBounded
  <2> QED
    BY <2>7, <2>8 DEF Inv, IInv
<1> QED
  BY <1>1, <1>2

\* Time changes what the entries have left, and nothing else.
LEMMA TickKeeps ==
  ASSUME CacheAssumption, Inv, Tick
  PROVE  Inv'
<1>1. DOMAIN entries' = DOMAIN entries
  BY DEF Tick
<1>2. \A u \in DOMAIN entries :
        [page |-> entries[u].page,
         left |-> IF Expired(u) THEN 0 ELSE entries[u].left - 1] \in Entry
  <2> SUFFICES ASSUME NEW u \in DOMAIN entries
               PROVE  [page |-> entries[u].page,
                       left |-> IF Expired(u) THEN 0 ELSE entries[u].left - 1] \in Entry
    OBVIOUS
  <2>1. entries[u].page \in Pages /\ entries[u].left \in 0..Ttl
    BY DEF Inv, IInv, TypeOK, Entry
  <2>2. (IF Expired(u) THEN 0 ELSE entries[u].left - 1) \in 0..Ttl
    BY <2>1, CacheAssumption DEF Expired
  <2> QED
    BY <2>1, <2>2 DEF Entry
<1>3. TypeOK'
  BY <1>1, <1>2 DEF Tick, Inv, IInv, TypeOK
<1>4. SizeBounded' /\ IsFiniteSet(DOMAIN entries')
  BY <1>1 DEF Inv, IInv, SizeBounded
<1> QED
  BY <1>3, <1>4 DEF Inv, IInv

\* The map is typed, finite and within its capacity, at first and after
\* every operation.
LEMMA InvInductive ==
  ASSUME CacheAssumption
  PROVE  /\ Init => Inv
         /\ Inv /\ [Next]_entries => Inv'
<1>1. ASSUME Init PROVE Inv
  <2>1. DOMAIN entries = {}
    BY <1>1 DEF Init
  <2>2. IsFiniteSet(DOMAIN entries) /\ Cardinality(DOMAIN entries) = 0
    BY <2>1, FS_EmptySet
  <2>3. TypeOK
    BY <1>1, <2>1 DEF Init, TypeOK
  <2> QED
    BY <2>2, <2>3, CacheAssumption DEF Inv, IInv, SizeBounded
<1>2. ASSUME Inv, [Next]_entries PROVE Inv'
  <2>1. ASSUME NEW u \in Urls, Get(u) PROVE Inv'
    <3>1. CASE u \in DOMAIN entries /\ Expired(u)
      BY <1>2, <2>1, <3>1, KeepShrinks DEF Get
    <3>2. CASE ~ (u \in DOMAIN entries /\ Expired(u))
      BY <1>2, <2>1, <3>2 DEF Get, Inv, IInv, TypeOK, SizeBounded
    <3> QED
      BY <3>1, <3>2
  <2>2. ASSUME NEW u \in Urls, NEW page \in Pages, Put(u, page) PROVE Inv'
    BY <1>2, <2>2, PutFits
  <2>3. CASE Clear
    BY <1>2, <2>3, KeepShrinks DEF Clear
  <2>4. CASE EvictExpired
    BY <1>2, <2>4, KeepShrinks DEF EvictExpired
  <2>5. CASE Tick
    BY <1>2, <2>5, TickKeeps
  <2>6. CASE UNCHANGED entries
    BY <1>2, <2>6 DEF Inv, IInv, TypeOK, SizeBounded
  <2> QED
    BY <1>2, <2>1, <2>2, <2>3, <2>4, <2>5, <2>6 DEF Next
<1> QED
  BY <1>1, <1>2

\* For the modules that use the cache: the map is typed and never holds more
\* than max_size pages, and it is a finite map.
THEOREM CacheInvariant ==
  ASSUME CacheAssumption
  PROVE  Spec => []Inv
<1> QED
  BY InvInductive, PTL DEF Spec

\* The cache stays within its capacity under any use.
THEOREM CacheBounded ==
  ASSUME CacheAssumption
  PROVE  Spec => []IInv
<1>1. Inv => IInv
  BY DEF Inv
<1> QED
  BY <1>1, CacheInvariant, PTL

\* A lookup, a put or an eviction drops no page that has not expired.
LEMMA OperationsKeepLive ==
  ASSUME CacheAssumption, Inv,
         \/ \E u \in Urls : Get(u)
         \/ \E u \in Urls, page \in Pages : Put(u, page)
         \/ EvictExpired
  PROVE  KeepsLive
<1>0. \A u \in Urls : Hit(u) => /\ entries[u].left \in 0..Ttl
                                /\ entries[u].left >= entries[u].left
                                /\ Ttl >= entries[u].left
  BY DEF Inv, IInv, TypeOK, Entry, Hit
<1>1. ASSUME NEW w \in Urls, Get(w) PROVE KeepsLive
  BY <1>0, <1>1 DEF Get, Keep, Hit, KeepsLive
<1>2. ASSUME NEW w \in Urls, NEW page \in Pages, Put(w, page) PROVE KeepsLive
  <2>1. CASE RoomFor(w)
    <3> SUFFICES ASSUME NEW u \in Urls, Hit(u)
                 PROVE  u \in DOMAIN entries' /\ entries'[u].left >= entries[u].left
      BY DEF KeepsLive
    <3>1. u \in DOMAIN entries' /\ (u = w => entries'[u].left = Ttl)
                                /\ (u # w => entries'[u] = entries[u])
      BY <1>2, <2>1 DEF Put, Hit
    <3> QED
      BY <3>1, <1>0
  <2>2. CASE ~ RoomFor(w)
    BY <1>0, <1>2, <2>2 DEF Put, Hit, KeepsLive
  <2> QED
    BY <2>1, <2>2
<1>3. CASE EvictExpired
  BY <1>0, <1>3 DEF EvictExpired, Keep, Hit, KeepsLive
<1> QED
  BY <1>1, <1>2, <1>3

\* No operation but clear drops a page that has not expired.
THEOREM LivePagesStay ==
  ASSUME CacheAssumption
  PROVE  Spec => LiveEntriesStay
<1>1. Inv /\ [Next]_entries => [Clear \/ Tick \/ KeepsLive]_entries
  BY OperationsKeepLive DEF Next
<1> QED
  BY <1>1, CacheInvariant, PTL DEF Spec, LiveEntriesStay
=============================================================================
