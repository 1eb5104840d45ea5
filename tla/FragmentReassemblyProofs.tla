---------------------- MODULE FragmentReassemblyProofs ----------------------
(***************************************************************************)
(* Theorems about FragmentReassembly, for every set of ids and messages    *)
(* and every value of the limits.                                          *)
(***************************************************************************)
EXTENDS FragmentReassembly, FunctionTheorems, FiniteSetTheorems, WellFoundedInduction, TLAPS

(* The largest element of a finite, nonempty set of indices exists.        *)
LEMMA MaxExists ==
    ASSUME NEW n \in Nat, NEW T, T \subseteq 0 .. n, T # {}
    PROVE  \E x \in T : \A y \in T : y <= x
PROOF
  <1> DEFINE U == {n - x : x \in T}
  <1>0. \A x \in T : x \in 0 .. n /\ n - x \in Nat
    OBVIOUS
  <1>1. U \subseteq Nat /\ U # {}
    BY <1>0
  <1>2. PICK u \in U : \A v \in U : ~(<<v, u>> \in OpToRel(<, Nat))
    BY <1>1, WFMin, NatLessThanWellFounded
  <1>3. \A v \in U : ~(v < u)
    BY <1>1, <1>2 DEF OpToRel
  <1>4. PICK x \in T : u = n - x
    OBVIOUS
  <1>5. \A y \in T : y <= x
    <2> TAKE y \in T
    <2>1. n - y \in U
      OBVIOUS
    <2>2. ~(n - y < n - x)
      BY <2>1, <1>3, <1>4
    <2> QED BY <2>2, <1>0
  <1> QED BY <1>5

-----------------------------------------------------------------------------
(* Chunk maps.                                                             *)

LEMMA KeyTotal == \A k \in Keys : k.total \in Nat \ {0}
  BY MsgsAssumption DEF Keys

LEMMA OfferedFinite == \A k \in Keys : IsFiniteSet(Offered(k))
PROOF
  <1> TAKE k \in Keys
  <1>1. k.total - 1 + Strays \in Int /\ 0 \in Int
    BY KeyTotal, LimitsAssumption
  <1> QED BY <1>1, FS_Interval DEF Offered

LEMMA NoFragsType == \A k \in Keys : NoFrags \in FragsOf(k) /\ DOMAIN NoFrags = {}
PROOF
  <1> TAKE k \in Keys
  <1>1. NoFrags \in [{} -> Msgs]
    BY DEF NoFrags
  <1>2. {} \in SUBSET Offered(k)
    OBVIOUS
  <1> QED BY <1>1, <1>2 DEF FragsOf, NoFrags

LEMMA FragsOfType ==
    ASSUME NEW k \in Keys, NEW fr \in FragsOf(k)
    PROVE  /\ fr \in AnyFrags
           /\ DOMAIN fr \subseteq Offered(k)
           /\ fr \in [DOMAIN fr -> Msgs]
           /\ IsFiniteSet(DOMAIN fr)
           /\ Size(fr) \in Nat
PROOF
  <1>1. fr \in AnyFrags
    BY DEF AnyFrags
  <1>2. DOMAIN fr \subseteq Offered(k) /\ fr \in [DOMAIN fr -> Msgs]
    BY DEF FragsOf
  <1>3. IsFiniteSet(Offered(k))
    BY OfferedFinite
  <1>4. IsFiniteSet(DOMAIN fr)
    BY <1>2, <1>3, FS_Subset
  <1>5. Size(fr) \in Nat
    BY <1>4, FS_CardinalityType DEF Size
  <1> QED BY <1>1, <1>2, <1>4, <1>5 DEF Size

(* Chunks that join are as many as the total.                              *)
LEMMA JoinedSize ==
    ASSUME NEW k \in Keys, NEW fr, Joins(fr, k)
    PROVE  Size(fr) = k.total
PROOF
  <1>1. Cardinality(0 .. k.total - 1) = k.total
    BY KeyTotal, FS_Interval
  <1> QED BY <1>1 DEF Joins, Indices, Size

LEMMA FragsOfIntro ==
    ASSUME NEW k \in Keys, NEW D, D \subseteq Offered(k), NEW fr \in [D -> Msgs]
    PROVE  fr \in FragsOf(k)
  BY DEF FragsOf

LEMMA PutChunkType ==
    ASSUME NEW k \in Keys, NEW fr \in FragsOf(k), NEW i \in Offered(k), NEW m \in Msgs
    PROVE  /\ PutChunk(fr, i, m) \in FragsOf(k)
           /\ DOMAIN PutChunk(fr, i, m) = DOMAIN fr \cup {i}
PROOF
  <1>1. DOMAIN PutChunk(fr, i, m) = DOMAIN fr \cup {i}
    BY DEF PutChunk
  <1>2. DOMAIN fr \cup {i} \subseteq Offered(k)
    BY FragsOfType
  <1>3. fr \in [DOMAIN fr -> Msgs]
    BY FragsOfType
  <1>4. PutChunk(fr, i, m) \in [DOMAIN fr \cup {i} -> Msgs]
    BY <1>3 DEF PutChunk
  <1> QED BY <1>1, <1>2, <1>4, FragsOfIntro

LEMMA PutChunkSize ==
    ASSUME NEW k \in Keys, NEW s, s.frags \in FragsOf(k), NEW i \in Offered(k), NEW m \in Msgs
    PROVE  Size(PutChunk(s.frags, i, m)) = Size(s.frags) + Growth(s, i)
PROOF
  <1>1. IsFiniteSet(DOMAIN s.frags)
    BY FragsOfType
  <1>2. DOMAIN PutChunk(s.frags, i, m) = DOMAIN s.frags \cup {i}
    BY DEF PutChunk
  <1>3. Cardinality(DOMAIN s.frags \cup {i})
          = IF i \in DOMAIN s.frags THEN Cardinality(DOMAIN s.frags)
            ELSE Cardinality(DOMAIN s.frags) + 1
    BY <1>1, FS_AddElement
  <1>4. Cardinality(DOMAIN s.frags) \in Nat
    BY <1>1, FS_CardinalityType
  <1> QED BY <1>2, <1>3, <1>4 DEF Size, Growth

-----------------------------------------------------------------------------
(* What the operators of the model return in a state that is typed.        *)

LEMMA SetType ==
    ASSUME TypeOK, NEW f \in ActiveIds
    PROVE  /\ f \in FragIds
           /\ sets[f] \in SetRecords
           /\ sets[f].key \in Keys
           /\ sets[f].frags \in FragsOf(sets[f].key)
  BY DEF TypeOK, ActiveIds, Active, SetRecords

LEMMA RescueType ==
    ASSUME TypeOK, NEW k \in Keys, rescue[k] # None
    PROVE  rescue[k] \in CacheRecords /\ rescue[k].frags \in FragsOf(k)
  BY DEF TypeOK, CacheRecords

LEMMA InheritableType ==
    ASSUME TypeOK, NEW k \in Keys
    PROVE  Inheritable(k) \in FragsOf(k)
  BY RescueType, NoFragsType DEF Inheritable

LEMMA TargetType ==
    ASSUME TypeOK, NEW f \in FragIds, NEW m \in Msgs
    PROVE  /\ Target(f, m) \in SetRecords
           /\ Target(f, m).key \in Keys
           /\ Target(f, m).frags \in FragsOf(Target(f, m).key)
PROOF
  <1>1. CASE Active(f)
    BY <1>1, SetType DEF Target, ActiveIds
  <1>2. CASE ~Active(f)
    <2> DEFINE k == KeyOf[m]
    <2>1. k \in Keys
      BY DEF Keys
    <2>2. Inheritable(k) \in FragsOf(k) /\ Inheritable(k) \in AnyFrags
      BY <2>1, InheritableType, FragsOfType
    <2>3. attempts[k] + 1 \in Nat
      BY <2>1 DEF TypeOK
    <2>4. 0 \in 0 .. IdleLimit + 1
      BY LimitsAssumption
    <2>5. Target(f, m) = [key |-> k, attempt |-> attempts[k] + 1, idle |-> 0,
                          frags |-> Inheritable(k)]
      BY <1>2 DEF Target, Opened
    <2> QED BY <2>1, <2>2, <2>3, <2>4, <2>5 DEF SetRecords
  <1> QED BY <1>1, <1>2

LEMMA AcceptedIndex ==
    ASSUME NEW f \in FragIds, NEW m \in Msgs, Accepted(f, m)
    PROVE  Offered(KeyOf[m]) = Offered(Target(f, m).key)
  BY DEF Accepted, SameShape, Target, Opened, Offered

LEMMA SizesType ==
    ASSUME TypeOK, NEW f \in FragIds, NEW m \in Msgs
    PROVE  /\ Size(Target(f, m).frags) \in Nat
           /\ BytesOpen(f, m) \in Nat
PROOF
  <1>1. Size(Target(f, m).frags) \in Nat
    BY TargetType, FragsOfType
  <1>2. KeyOf[m] \in Keys
    BY DEF Keys
  <1>3. Size(Inheritable(KeyOf[m])) \in Nat
    BY <1>2, InheritableType, FragsOfType
  <1>4. BytesOpen(f, m) \in Nat
    BY <1>3 DEF BytesOpen, TypeOK
  <1> QED BY <1>1, <1>4

LEMMA Floor0Type == \A n \in Int : Floor0(n) \in Nat
  BY DEF Floor0

LEMMA AllIndicesFinite == IsFiniteSet(AllIndices)
PROOF
  <1> DEFINE T == {Offered(k) : k \in Keys}
             F == [m \in Msgs |-> Offered(KeyOf[m])]
  <1>1. F \in Surjection(Msgs, T)
    <2>1. F \in [Msgs -> T]
      BY DEF Keys
    <2>2. \A t \in T : \E m \in Msgs : F[m] = t
      BY DEF Keys
    <2> QED BY <2>1, <2>2, Fun_IsSurj
  <1>2. IsFiniteSet(T)
    BY <1>1, MsgsAssumption, FS_Surjection
  <1>3. \A t \in T : IsFiniteSet(t)
    BY OfferedFinite
  <1> QED BY <1>2, <1>3, FS_UNION DEF AllIndices

LEMMA HeldFinite ==
    ASSUME NEW s, NEW D, IsFiniteSet(D)
    PROVE  IsFiniteSet(HeldIn(s, D)) /\ Cardinality(HeldIn(s, D)) \in Nat
PROOF
  <1>1. IsFiniteSet(D \X AllIndices)
    BY AllIndicesFinite, FS_Product
  <1>2. HeldIn(s, D) \subseteq D \X AllIndices
    BY DEF HeldIn
  <1> QED BY <1>1, <1>2, FS_Subset, FS_CardinalityType

LEMMA IdsFinite ==
    \A D : D \subseteq FragIds => IsFiniteSet(D) /\ Cardinality(D) \in Nat
  BY MsgsAssumption, FS_Subset, FS_CardinalityType

LEMMA LastHolderType ==
    ASSUME NEW k \in Keys, NEW o \in Orders, NEW i,
           \E f \in Merging(k) : i \in DOMAIN sets[f].frags
    PROVE  /\ LastHolder(k, i, o) \in Merging(k)
           /\ i \in DOMAIN sets[LastHolder(k, i, o)].frags
PROOF
  <1> DEFINE H == {f \in Merging(k) : i \in DOMAIN sets[f].frags}
             T == {o[f] : f \in H}
             n == Cardinality(Expired)
  <1>1. Expired \subseteq FragIds
    BY DEF Expired, ActiveIds
  <1>2. n \in Nat
    BY <1>1, IdsFinite
  <1>3. H \subseteq Expired
    BY DEF Merging
  <1>4. o \in [Expired -> 1 .. n]
    BY DEF Orders
  <1>5. T \subseteq 0 .. n /\ T # {}
    BY <1>2, <1>3, <1>4
  <1>6. PICK x \in T : \A y \in T : y <= x
    BY <1>2, <1>5, MaxExists
  <1>7. PICK f \in H : o[f] = x
    OBVIOUS
  <1>8. /\ f \in Merging(k) /\ i \in DOMAIN sets[f].frags
        /\ \A g \in Merging(k) : i \in DOMAIN sets[g].frags => o[g] <= o[f]
    BY <1>6, <1>7
  <1> QED BY <1>8 DEF LastHolder

-----------------------------------------------------------------------------
(* Type correctness.                                                       *)

SetsOK(s) == /\ s \in [FragIds -> SetRecords \cup {None}]
             /\ \A f \in FragIds : s[f] # None => s[f].frags \in FragsOf(s[f].key)

RescueOK(r) == /\ r \in [Keys -> CacheRecords \cup {None}]
               /\ \A k \in Keys : r[k] # None => r[k].frags \in FragsOf(k)

DiskOK(d) == /\ d \in [Keys -> FileRecords \cup {None}]
             /\ \A k \in Keys : d[k] # None => d[k].frags \in FragsOf(k)

LEMMA TypeParts ==
    TypeOK <=> /\ SetsOK(sets) /\ RescueOK(rescue) /\ DiskOK(disk)
               /\ globalBytes \in Nat
               /\ attempts \in [Keys -> Nat]
               /\ unsaved \in BOOLEAN
  BY DEF TypeOK, SetsOK, RescueOK, DiskOK, ActiveIds, Active

LEMMA TypePartsPrimed ==
    TypeOK' <=> /\ SetsOK(sets') /\ RescueOK(rescue') /\ DiskOK(disk')
                /\ globalBytes' \in Nat
                /\ attempts' \in [Keys -> Nat]
                /\ unsaved' \in BOOLEAN
  BY DEF TypeOK, SetsOK, RescueOK, DiskOK, ActiveIds, Active

LEMMA ImageType ==
    ASSUME NEW r, RescueOK(r), NEW a \in [Keys -> Nat]
    PROVE  DiskOK(Image(r, a))
PROOF
  <1> SUFFICES ASSUME NEW k \in Keys, r[k] # None
               PROVE  /\ Image(r, a)[k] \in FileRecords
                      /\ Image(r, a)[k].frags \in FragsOf(k)
    BY DEF DiskOK, Image
  <1>1. r[k] \in CacheRecords /\ r[k].frags \in FragsOf(k)
    BY DEF RescueOK
  <1>2. Image(r, a)[k] = [frags |-> r[k].frags, age |-> r[k].age, attempt |-> a[k]]
    BY DEF Image
  <1> QED BY <1>1, <1>2 DEF CacheRecords, FileRecords

LEMMA SaveType ==
    ASSUME TypeOK, RescueOK(rescue'), attempts' \in [Keys -> Nat], Save(rescue', attempts')
    PROVE  DiskOK(disk') /\ unsaved' \in BOOLEAN
PROOF
  <1>1. DiskOK(Image(rescue', attempts'))
    BY ImageType
  <1>2. DiskOK(disk) /\ unsaved \in BOOLEAN
    BY TypeParts
  <1> QED BY <1>1, <1>2 DEF Save

LEMMA CountType ==
    ASSUME TypeOK, NEW f \in FragIds, NEW m \in Msgs, Count(f, m)
    PROVE  attempts' \in [Keys -> Nat]
  BY DEF Count, TypeOK, Keys

LEMMA OnlyType ==
    ASSUME NEW r, RescueOK(r), NEW S
    PROVE  RescueOK(Only(r, S))
  BY DEF RescueOK, Only

LEMMA MergedType ==
    ASSUME TypeOK, NEW o \in Orders
    PROVE  /\ RescueOK(Merged(o))
           /\ \A k \in Keys : Merging(k) # {} => Merged(o)[k] # None
PROOF
  <1>1. RescueOK(Fresh)
    BY OnlyType, TypeParts DEF Fresh
  <1> SUFFICES ASSUME NEW k \in Keys, Merging(k) # {}
               PROVE  /\ Merged(o)[k] \in CacheRecords
                      /\ Merged(o)[k].frags \in FragsOf(k)
    BY <1>1, NoneAssumption DEF RescueOK, Merged
  <1> DEFINE new == UNION {DOMAIN sets[f].frags : f \in Merging(k)}
             old == DOMAIN RescueFrags(Fresh, k)
  <1>2. \A f \in Merging(k) : /\ f \in ActiveIds
                              /\ sets[f].frags \in FragsOf(k)
    BY SetType DEF Merging, Expired
  <1>3. \A f \in Merging(k) : /\ DOMAIN sets[f].frags \subseteq Offered(k)
                              /\ sets[f].frags \in [DOMAIN sets[f].frags -> Msgs]
    BY <1>2, FragsOfType
  <1>4. RescueFrags(Fresh, k) \in FragsOf(k)
    BY <1>1, NoFragsType DEF RescueOK, RescueFrags
  <1>5. /\ old \subseteq Offered(k)
        /\ \A i \in old : RescueFrags(Fresh, k)[i] \in Msgs
    BY <1>4, FragsOfType
  <1>6. \A i \in old : Fresh[k].frags = RescueFrags(Fresh, k)
    BY NoFragsType DEF RescueFrags
  <1>7. \A i \in new : sets[LastHolder(k, i, o)].frags[i] \in Msgs
    <2> TAKE i \in new
    <2>1. \E f \in Merging(k) : i \in DOMAIN sets[f].frags
      OBVIOUS
    <2>2. /\ LastHolder(k, i, o) \in Merging(k)
          /\ i \in DOMAIN sets[LastHolder(k, i, o)].frags
      BY <2>1, LastHolderType
    <2> QED BY <1>3, <2>2
  <1>8. MergedFrags(k, o) \in [old \cup new -> Msgs]
    BY <1>5, <1>6, <1>7 DEF MergedFrags
  <1>9. old \cup new \subseteq Offered(k)
    BY <1>3, <1>5
  <1>10. MergedFrags(k, o) \in FragsOf(k)
    BY <1>8, <1>9, FragsOfIntro
  <1>11. Merged(o)[k] = [frags |-> MergedFrags(k, o), age |-> 0]
    BY DEF Merged
  <1>12. 0 \in 0 .. RescueTTL + 1
    BY LimitsAssumption
  <1>13. MergedFrags(k, o) \in AnyFrags
    BY <1>10, FragsOfType
  <1> QED BY <1>10, <1>11, <1>12, <1>13 DEF CacheRecords

LEMMA AgedType ==
    ASSUME NEW limit \in Nat, NEW age \in 0 .. limit + 1
    PROVE  Older(age, limit) \in 0 .. limit + 1
  BY DEF Older

LEMMA AgedCacheType ==
    ASSUME NEW r, RescueOK(r) PROVE RescueOK(Aged(r))
PROOF
  <1> SUFFICES ASSUME NEW k \in Keys, r[k] # None
               PROVE  Aged(r)[k] \in CacheRecords /\ Aged(r)[k].frags \in FragsOf(k)
    BY DEF RescueOK, Aged
  <1>1. r[k] \in CacheRecords /\ r[k].frags \in FragsOf(k)
    BY DEF RescueOK
  <1>2. Aged(r)[k] = [r[k] EXCEPT !.age = Older(r[k].age, RescueTTL)]
    BY DEF Aged
  <1>3. Older(r[k].age, RescueTTL) \in 0 .. RescueTTL + 1
    BY <1>1, AgedType, LimitsAssumption DEF CacheRecords
  <1> QED BY <1>1, <1>2, <1>3 DEF CacheRecords

LEMMA AgedFileType ==
    ASSUME NEW d, DiskOK(d) PROVE DiskOK(Aged(d))
PROOF
  <1> SUFFICES ASSUME NEW k \in Keys, d[k] # None
               PROVE  Aged(d)[k] \in FileRecords /\ Aged(d)[k].frags \in FragsOf(k)
    BY DEF DiskOK, Aged
  <1>1. d[k] \in FileRecords /\ d[k].frags \in FragsOf(k)
    BY DEF DiskOK
  <1>2. Aged(d)[k] = [d[k] EXCEPT !.age = Older(d[k].age, RescueTTL)]
    BY DEF Aged
  <1>3. Older(d[k].age, RescueTTL) \in 0 .. RescueTTL + 1
    BY <1>1, AgedType, LimitsAssumption DEF FileRecords
  <1> QED BY <1>1, <1>2, <1>3 DEF FileRecords

(* The type invariant holds for all ids, messages and limits.              *)
THEOREM TypeCorrect == Spec => []TypeOK
PROOF
  <1>1. Init => TypeOK
    <2> SUFFICES ASSUME Init
                 PROVE  /\ SetsOK(sets) /\ RescueOK(rescue) /\ DiskOK(disk)
                        /\ globalBytes \in Nat
                        /\ attempts \in [Keys -> Nat]
                        /\ unsaved \in BOOLEAN
      BY TypeParts
    <2>1. SetsOK(sets) /\ RescueOK(rescue) /\ DiskOK(disk)
      BY DEF Init, SetsOK, RescueOK, DiskOK
    <2>2. globalBytes \in Nat /\ attempts \in [Keys -> Nat] /\ unsaved \in BOOLEAN
      BY DEF Init
    <2> QED BY <2>1, <2>2
  <1>2. TypeOK /\ [Next]_vars => TypeOK'
    <2> SUFFICES ASSUME TypeOK, [Next]_vars
                 PROVE  /\ SetsOK(sets') /\ RescueOK(rescue') /\ DiskOK(disk')
                        /\ globalBytes' \in Nat
                        /\ attempts' \in [Keys -> Nat]
                        /\ unsaved' \in BOOLEAN
      BY TypePartsPrimed
    <2>0. /\ SetsOK(sets) /\ RescueOK(rescue) /\ DiskOK(disk)
          /\ globalBytes \in Nat
          /\ attempts \in [Keys -> Nat]
          /\ unsaved \in BOOLEAN
      BY TypeParts
    <2>1. ASSUME NEW f \in FragIds, NEW m \in Msgs, NEW i \in Offered(KeyOf[m]),
                 Refuse(f, m) \/ Mismatch(f, m) \/ OverCap(f, m, i)
          PROVE  /\ SetsOK(sets') /\ RescueOK(rescue') /\ DiskOK(disk')
                 /\ globalBytes' \in Nat
                 /\ attempts' \in [Keys -> Nat]
                 /\ unsaved' \in BOOLEAN
      <3>1. CASE Refuse(f, m)
        BY <3>1, <2>0 DEF Refuse
      <3>2. CASE Mismatch(f, m)
        <4>1. Size(sets[f].frags) \in Nat
          BY <3>2, SetType, FragsOfType DEF Mismatch, ActiveIds
        <4>2. globalBytes' \in Nat
          BY <4>1, <3>2, <2>0, Floor0Type DEF Mismatch
        <4>3. SetsOK(sets')
          BY <3>2, <2>0 DEF Mismatch, SetsOK
        <4> QED BY <4>2, <4>3, <3>2, <2>0 DEF Mismatch
      <3>3. CASE OverCap(f, m, i)
        <4>1. globalBytes' \in Nat
          BY <3>3, SizesType, Floor0Type DEF OverCap
        <4>2. SetsOK(sets')
          BY <3>3, <2>0 DEF OverCap, SetsOK
        <4>3. attempts' \in [Keys -> Nat]
          BY <3>3, CountType DEF OverCap
        <4> QED BY <4>1, <4>2, <4>3, <3>3, <2>0 DEF OverCap
      <3> QED BY <2>1, <3>1, <3>2, <3>3
    <2>2. ASSUME NEW f \in FragIds, NEW m \in Msgs, NEW i \in Offered(KeyOf[m]),
                 Store(f, m, i) \/ Jam(f, m, i)
          PROVE  /\ SetsOK(sets') /\ RescueOK(rescue') /\ DiskOK(disk')
                 /\ globalBytes' \in Nat
                 /\ attempts' \in [Keys -> Nat]
                 /\ unsaved' \in BOOLEAN
      <3> DEFINE s == Target(f, m)
                 n == [s EXCEPT !.idle = 0, !.frags = PutChunk(s.frags, i, m)]
      <3>1. s \in SetRecords /\ s.key \in Keys /\ s.frags \in FragsOf(s.key)
        BY TargetType
      <3>2. i \in Offered(s.key)
        BY <2>2, AcceptedIndex DEF Store, Jam, Kept
      <3>3. PutChunk(s.frags, i, m) \in FragsOf(s.key)
        BY <3>1, <3>2, PutChunkType
      <3>4. PutChunk(s.frags, i, m) \in AnyFrags
        BY <3>1, <3>3, FragsOfType
      <3>5. n \in SetRecords /\ n.frags \in FragsOf(n.key)
        <4>1. 0 \in 0 .. IdleLimit + 1
          BY LimitsAssumption
        <4> QED BY <3>1, <3>3, <3>4, <4>1 DEF SetRecords
      <3>6. sets' = [sets EXCEPT ![f] = n]
        BY <2>2 DEF Store, Jam, Kept
      <3>7. SetsOK(sets')
        <4> HIDE DEF n
        <4> QED BY <3>5, <3>6, <2>0 DEF SetsOK
      <3>8. globalBytes' \in Nat
        BY <2>2, SizesType, Floor0Type DEF Store, Jam, Kept, Growth
      <3>9. attempts' \in [Keys -> Nat]
        BY <2>2, CountType DEF Store, Jam, Kept
      <3> QED BY <3>7, <3>8, <3>9, <2>2, <2>0 DEF Store, Jam, Kept
    <2>3. ASSUME NEW f \in FragIds, NEW m \in Msgs, NEW i \in Offered(KeyOf[m]),
                 Complete(f, m, i)
          PROVE  /\ SetsOK(sets') /\ RescueOK(rescue') /\ DiskOK(disk')
                 /\ globalBytes' \in Nat
                 /\ attempts' \in [Keys -> Nat]
                 /\ unsaved' \in BOOLEAN
      <3> DEFINE s == Target(f, m)
                 stale == {g \in ActiveIds \ {f} : sets[g].key = s.key}
      <3>1. s.key \in Keys /\ s.frags \in FragsOf(s.key)
        BY TargetType
      <3>2. SetsOK(sets')
        BY <2>3, <2>0 DEF Complete, SetsOK
      <3>3. RescueOK(rescue')
        BY <2>3, <2>0 DEF Complete, RescueOK
      <3>4. attempts' \in [Keys -> Nat]
        BY <2>3, CountType DEF Complete
      <3>5. DiskOK(disk') /\ unsaved' \in BOOLEAN
        BY <2>3, <2>0, <3>3, <3>4, SaveType DEF Complete
      <3>6. globalBytes' \in Nat
        <4>1. i \in Offered(s.key)
          BY <2>3, AcceptedIndex DEF Complete
        <4>2. Size(PutChunk(s.frags, i, m)) \in Nat
          BY <3>1, <4>1, PutChunkType, FragsOfType
        <4>3. IsFiniteSet(stale)
          BY IdsFinite DEF ActiveIds
        <4>4. Cardinality(HeldBy(stale)) \in Nat
          BY <4>3, HeldFinite DEF HeldBy
        <4>5. BytesOpen(f, m) + Growth(s, i) - Size(PutChunk(s.frags, i, m))
                - Cardinality(HeldBy(stale)) \in Int
          BY <4>2, <4>4, SizesType DEF Growth
        <4> QED BY <4>5, <2>3, Floor0Type DEF Complete
      <3> QED BY <3>2, <3>3, <3>4, <3>5, <3>6
    <2>4. CASE Receive
      <3>1. PICK t \in Transmissions : \E i \in Offered(KeyOf[t.msg]) :
                    HandleFragment(t.id, t.msg, i)
        BY <2>4 DEF Receive
      <3>2. t.id \in FragIds /\ t.msg \in Msgs
        BY MsgsAssumption
      <3> QED BY <3>1, <3>2, <2>1, <2>2, <2>3 DEF HandleFragment
    <2>5. CASE Cleanup
      <3>1. PICK o \in Orders :
              /\ \E kept : rescue' = Only(Merged(o), kept)
              /\ attempts' \in [Keys -> Nat]
              /\ sets' = [f \in FragIds |-> IF f \in Expired THEN None ELSE sets[f]]
              /\ globalBytes' = Floor0(globalBytes - Cardinality(HeldBy(Expired)))
              /\ Save(rescue', attempts') \/ UNCHANGED <<disk, unsaved>>
        BY <2>5, <2>0 DEF Cleanup
      <3>2. RescueOK(rescue')
        BY <3>1, MergedType, OnlyType
      <3>3. SetsOK(sets')
        BY <3>1, <2>0 DEF SetsOK
      <3>4. DiskOK(disk') /\ unsaved' \in BOOLEAN
        BY <3>1, <3>2, <2>0, SaveType
      <3>5. IsFiniteSet(Expired)
        BY IdsFinite DEF Expired, ActiveIds
      <3>6. Cardinality(HeldBy(Expired)) \in Nat
        BY <3>5, HeldFinite DEF HeldBy
      <3>7. globalBytes' \in Nat
        BY <3>1, <3>6, <2>0, Floor0Type
      <3> QED BY <3>1, <3>2, <3>3, <3>4, <3>7
    <2>6. CASE Tick
      <3>1. SetsOK(sets')
        <4> SUFFICES ASSUME NEW f \in FragIds, Active(f)
                     PROVE  /\ sets'[f] \in SetRecords
                            /\ sets'[f].frags \in FragsOf(sets'[f].key)
          BY <2>6 DEF Tick, SetsOK
        <4>1. sets[f] \in SetRecords /\ sets[f].frags \in FragsOf(sets[f].key)
          BY SetType DEF ActiveIds
        <4>2. sets'[f] = [sets[f] EXCEPT !.idle = Older(sets[f].idle, IdleLimit)]
          BY <2>6 DEF Tick
        <4>3. Older(sets[f].idle, IdleLimit) \in 0 .. IdleLimit + 1
          BY <4>1, AgedType, LimitsAssumption DEF SetRecords
        <4> QED BY <4>1, <4>2, <4>3 DEF SetRecords
      <3>2. RescueOK(rescue') /\ DiskOK(disk')
        BY <2>6, <2>0, AgedCacheType, AgedFileType DEF Tick
      <3> QED BY <3>1, <3>2, <2>6, <2>0 DEF Tick
    <2>7. CASE Restart
      <3> DEFINE loaded == [k \in Keys |-> IF k \in Loadable
                              THEN [frags |-> disk[k].frags, age |-> disk[k].age]
                              ELSE None]
      <3>1. RescueOK(loaded)
        <4> SUFFICES ASSUME NEW k \in Loadable
                     PROVE  /\ loaded[k] \in CacheRecords
                            /\ loaded[k].frags \in FragsOf(k)
          BY DEF RescueOK, Loadable
        <4>1. disk[k] \in FileRecords /\ disk[k].frags \in FragsOf(k) /\ k \in Keys
          BY <2>0 DEF DiskOK, Loadable
        <4> QED BY <4>1 DEF FileRecords, CacheRecords
      <3>2. PICK kept \in Survivors(loaded) :
              /\ rescue' = Only(loaded, kept)
              /\ attempts' = [k \in Keys |-> IF k \in kept THEN disk[k].attempt ELSE 0]
        BY <2>7 DEF Restart
      <3>3. RescueOK(rescue')
        <4> HIDE DEF loaded
        <4> QED BY <3>1, <3>2, OnlyType
      <3>4. kept \subseteq Loadable
        BY <3>2 DEF Survivors, Occupied
      <3>5. attempts' \in [Keys -> Nat]
        BY <3>2, <3>4, <2>0 DEF DiskOK, FileRecords, Loadable
      <3>6. SetsOK(sets')
        BY <2>7 DEF Restart, SetsOK
      <3>7. disk' = disk /\ globalBytes' = 0 /\ unsaved' = FALSE
        BY <2>7 DEF Restart
      <3> QED BY <3>3, <3>5, <3>6, <3>7, <2>0
    <2>8. CASE UNCHANGED vars
      BY <2>8, <2>0 DEF vars
    <2> QED BY <2>4, <2>5, <2>6, <2>7, <2>8 DEF Next
  <1> QED BY <1>1, <1>2, PTL DEF Spec

-----------------------------------------------------------------------------
(* Adding up what the sets hold.                                           *)

LEMMA DisjointSizes ==
    ASSUME NEW A, NEW B, IsFiniteSet(A), IsFiniteSet(B), A \cap B = {}
    PROVE  Cardinality(A \cup B) = Cardinality(A) + Cardinality(B)
PROOF
  <1>1. Cardinality(A) \in Nat /\ Cardinality(B) \in Nat
    BY FS_CardinalityType
  <1>2. Cardinality(A \cap B) = 0
    BY FS_EmptySet
  <1>3. Cardinality(A \cup B) = Cardinality(A) + Cardinality(B) - Cardinality(A \cap B)
    BY FS_Union
  <1> QED BY <1>1, <1>2, <1>3

LEMMA HeldSplit ==
    ASSUME NEW s, NEW D, D \subseteq FragIds, NEW E, E \subseteq D
    PROVE  Cardinality(HeldIn(s, D))
             = Cardinality(HeldIn(s, E)) + Cardinality(HeldIn(s, D \ E))
PROOF
  <1>1. IsFiniteSet(E) /\ IsFiniteSet(D \ E)
    BY IdsFinite
  <1>2. IsFiniteSet(HeldIn(s, E)) /\ IsFiniteSet(HeldIn(s, D \ E))
    BY <1>1, HeldFinite
  <1>3. HeldIn(s, D) = HeldIn(s, E) \cup HeldIn(s, D \ E)
    BY DEF HeldIn
  <1>4. HeldIn(s, E) \cap HeldIn(s, D \ E) = {}
    BY DEF HeldIn
  <1>5. Cardinality(HeldIn(s, E) \cup HeldIn(s, D \ E))
          = Cardinality(HeldIn(s, E)) + Cardinality(HeldIn(s, D \ E))
    BY <1>2, <1>4, DisjointSizes
  <1> QED BY <1>3, <1>5

LEMMA HeldOne ==
    ASSUME NEW s, SetsOK(s), NEW f \in FragIds, s[f] # None
    PROVE  Cardinality(HeldIn(s, {f})) = Size(s[f].frags)
PROOF
  <1> DEFINE D == DOMAIN s[f].frags
  <1>1. s[f].key \in Keys /\ s[f].frags \in FragsOf(s[f].key)
    BY DEF SetsOK, SetRecords
  <1>2. D \subseteq AllIndices /\ IsFiniteSet(D)
    BY <1>1, FragsOfType DEF AllIndices
  <1>3. HeldIn(s, {f}) = {f} \X D
    BY <1>2 DEF HeldIn
  <1>4. IsFiniteSet({f}) /\ Cardinality({f}) = 1
    BY FS_Singleton
  <1>5. Cardinality({f} \X D) = 1 * Cardinality(D) /\ Cardinality(D) \in Nat
    BY <1>2, <1>4, FS_Product, FS_CardinalityType
  <1>6. Cardinality(HeldIn(s, {f})) = Cardinality(D)
    <2> HIDE DEF D
    <2> QED BY <1>3, <1>5
  <1> QED BY <1>6 DEF Size

LEMMA HeldNone ==
    ASSUME NEW s, NEW D, \A f \in D : s[f] = None
    PROVE  Cardinality(HeldIn(s, D)) = 0
PROOF
  <1>1. HeldIn(s, D) = {}
    BY DEF HeldIn
  <1> QED BY <1>1, FS_EmptySet

LEMMA HeldSame ==
    ASSUME NEW s, NEW t, NEW D, \A f \in D : s[f] = t[f]
    PROVE  HeldIn(s, D) = HeldIn(t, D)
  BY DEF HeldIn

(* What every set but f holds.                                             *)
Rest(f) == Cardinality(HeldBy(FragIds \ {f}))

LEMMA TotalSplit ==
    ASSUME TypeOK, AccountingExact, NEW f \in FragIds
    PROVE  /\ Rest(f) \in Nat
           /\ Active(f) => globalBytes = Size(sets[f].frags) + Rest(f)
           /\ ~Active(f) => globalBytes = Rest(f)
PROOF
  <1>1. IsFiniteSet(FragIds \ {f})
    BY IdsFinite
  <1>2. Rest(f) \in Nat
    BY <1>1, HeldFinite DEF Rest, HeldBy
  <1>3. globalBytes = Cardinality(HeldIn(sets, {f})) + Rest(f)
    BY HeldSplit DEF AccountingExact, Rest, HeldBy
  <1>4. SetsOK(sets)
    BY TypeParts
  <1>5. Active(f) => Cardinality(HeldIn(sets, {f})) = Size(sets[f].frags)
    BY <1>4, HeldOne DEF Active
  <1>6. ~Active(f) => Cardinality(HeldIn(sets, {f})) = 0
    BY HeldNone DEF Active
  <1> QED BY <1>2, <1>3, <1>5, <1>6

LEMMA OpenSplit ==
    ASSUME TypeOK, AccountingExact, NEW f \in FragIds, NEW m \in Msgs
    PROVE  BytesOpen(f, m) = Size(Target(f, m).frags) + Rest(f)
PROOF
  <1>1. CASE Active(f)
    BY <1>1, TotalSplit DEF BytesOpen, Target
  <1>2. CASE ~Active(f)
    <2>1. Target(f, m).frags = Inheritable(KeyOf[m])
      BY <1>2 DEF Target, Opened
    <2>2. Size(Target(f, m).frags) \in Nat
      BY SizesType
    <2> QED BY <1>2, <2>1, <2>2, TotalSplit DEF BytesOpen
  <1> QED BY <1>1, <1>2

(* After a step the total is what the sets now hold: f by itself and the   *)
(* others, which the step left alone.                                      *)
LEMMA TotalAfter ==
    ASSUME TypeOK', NEW f \in FragIds, \A g \in FragIds \ {f} : sets'[g] = sets[g]
    PROVE  Cardinality(HeldIn(sets', FragIds))
             = (IF sets'[f] = None THEN 0 ELSE Size(sets'[f].frags)) + Rest(f)
PROOF
  <1>1. Cardinality(HeldIn(sets', FragIds))
          = Cardinality(HeldIn(sets', {f})) + Cardinality(HeldIn(sets', FragIds \ {f}))
    BY HeldSplit
  <1>2. HeldIn(sets', FragIds \ {f}) = HeldIn(sets, FragIds \ {f})
    BY HeldSame
  <1>3. SetsOK(sets')
    BY TypePartsPrimed
  <1>4. sets'[f] # None => Cardinality(HeldIn(sets', {f})) = Size(sets'[f].frags)
    BY <1>3, HeldOne
  <1>5. sets'[f] = None => Cardinality(HeldIn(sets', {f})) = 0
    BY HeldNone
  <1> QED BY <1>1, <1>2, <1>4, <1>5 DEF Rest, HeldBy

LEMMA TickKeepsFrags ==
    ASSUME TypeOK, Tick, NEW f \in FragIds
    PROVE  /\ sets'[f] = None <=> sets[f] = None
           /\ sets[f] # None => /\ sets'[f].frags = sets[f].frags
                                /\ sets'[f].key = sets[f].key
PROOF
  <1>1. CASE Active(f)
    <2>1. sets[f] \in SetRecords
      BY <1>1, SetType DEF ActiveIds
    <2>2. sets'[f] = [sets[f] EXCEPT !.idle = Older(sets[f].idle, IdleLimit)]
      BY <1>1 DEF Tick
    <2>3. Older(sets[f].idle, IdleLimit) \in 0 .. IdleLimit + 1
      BY <2>1, AgedType, LimitsAssumption DEF SetRecords
    <2>4. /\ sets'[f] \in SetRecords
          /\ sets'[f].frags = sets[f].frags /\ sets'[f].key = sets[f].key
      BY <2>1, <2>2, <2>3 DEF SetRecords
    <2> QED BY <1>1, <2>4, NoneAssumption DEF Active
  <1>2. CASE ~Active(f)
    BY <1>2 DEF Tick, Active
  <1> QED BY <1>1, <1>2

LEMMA AccountingStep ==
    ASSUME TypeOK, TypeOK', AccountingExact, [Next]_vars
    PROVE  globalBytes' = Cardinality(HeldIn(sets', FragIds))
PROOF
  <1>1. ASSUME NEW f \in FragIds, NEW m \in Msgs, NEW i \in Offered(KeyOf[m]),
               HandleFragment(f, m, i)
        PROVE  globalBytes' = Cardinality(HeldIn(sets', FragIds))
    <2> DEFINE s == Target(f, m)
    <2>0. sets \in [FragIds -> SetRecords \cup {None}]
      BY DEF TypeOK
    <2>1. CASE Refuse(f, m)
      BY <2>1 DEF Refuse, AccountingExact, HeldBy
    <2>2. CASE Mismatch(f, m)
      <3>1. sets'[f] = None /\ \A g \in FragIds \ {f} : sets'[g] = sets[g]
        BY <2>2, <2>0 DEF Mismatch
      <3>2. Size(sets[f].frags) \in Nat
        BY <2>2, SetType, FragsOfType DEF Mismatch, ActiveIds
      <3>3. globalBytes' = Rest(f)
        BY <2>2, <3>2, TotalSplit DEF Mismatch, Floor0
      <3> QED BY <3>1, <3>3, TotalAfter, TotalSplit
    <2>3. CASE OverCap(f, m, i)
      <3>1. sets'[f] = None /\ \A g \in FragIds \ {f} : sets'[g] = sets[g]
        BY <2>3, <2>0 DEF OverCap
      <3>2. globalBytes' = Rest(f)
        BY <2>3, SizesType, OpenSplit, TotalSplit DEF OverCap, Floor0
      <3> QED BY <3>1, <3>2, TotalAfter, TotalSplit
    <2>4. CASE Store(f, m, i) \/ Jam(f, m, i)
      <3> DEFINE n == [s EXCEPT !.idle = 0, !.frags = PutChunk(s.frags, i, m)]
      <3>1. s \in SetRecords /\ s.key \in Keys /\ s.frags \in FragsOf(s.key)
        BY TargetType
      <3>2. sets'[f] = n /\ \A g \in FragIds \ {f} : sets'[g] = sets[g]
        BY <2>4, <2>0 DEF Store, Jam, Kept
      <3>3. i \in Offered(s.key)
        BY <2>4, AcceptedIndex DEF Store, Jam, Kept
      <3>4. n.frags = PutChunk(s.frags, i, m) /\ n \in SetRecords
        <4>1. PutChunk(s.frags, i, m) \in AnyFrags
          BY <3>1, <3>3, PutChunkType, FragsOfType
        <4>2. 0 \in 0 .. IdleLimit + 1
          BY LimitsAssumption
        <4> QED BY <3>1, <4>1, <4>2 DEF SetRecords
      <3>5. n # None
        BY <3>4, NoneAssumption
      <3>6. Size(n.frags) = Size(s.frags) + Growth(s, i)
        BY <3>1, <3>3, <3>4, PutChunkSize
      <3>7. globalBytes' = Size(s.frags) + Growth(s, i) + Rest(f)
        BY <2>4, SizesType, OpenSplit, TotalSplit DEF Store, Jam, Kept, Floor0, Growth
      <3>8. Cardinality(HeldIn(sets', FragIds)) = Size(n.frags) + Rest(f)
        <4> HIDE DEF n
        <4> QED BY <3>2, <3>5, TotalAfter
      <3> QED BY <3>6, <3>7, <3>8, SizesType, TotalSplit DEF Growth
    <2>5. CASE Complete(f, m, i)
      <3> DEFINE stale == {g \in ActiveIds \ {f} : sets[g].key = s.key}
                 left  == (FragIds \ {f}) \ stale
      <3>1. s.frags \in FragsOf(s.key) /\ s.key \in Keys /\ i \in Offered(s.key)
        BY <2>5, TargetType, AcceptedIndex DEF Complete
      <3>2. Size(PutChunk(s.frags, i, m)) = Size(s.frags) + Growth(s, i)
        BY <3>1, PutChunkSize
      <3>3. stale \subseteq FragIds \ {f}
        BY DEF ActiveIds
      <3>4. Rest(f) = Cardinality(HeldBy(stale)) + Cardinality(HeldBy(left))
        BY <3>3, HeldSplit DEF Rest, HeldBy
      <3>5. IsFiniteSet(stale) /\ IsFiniteSet(left)
        BY <3>3, IdsFinite
      <3>6. Cardinality(HeldBy(stale)) \in Nat /\ Cardinality(HeldBy(left)) \in Nat
        BY <3>5, HeldFinite DEF HeldBy
      <3>7. globalBytes' = Cardinality(HeldBy(left))
        BY <2>5, <3>2, <3>4, <3>6, SizesType, OpenSplit DEF Complete, Floor0, Growth
      <3>8. /\ \A g \in stale \cup {f} : sets'[g] = None
            /\ \A g \in left : sets'[g] = sets[g]
        BY <2>5, <3>3 DEF Complete
      <3>9. Cardinality(HeldIn(sets', stale \cup {f})) = 0
        BY <3>8, HeldNone
      <3>10. HeldIn(sets', left) = HeldIn(sets, left)
        BY <3>8, HeldSame
      <3>11. left = FragIds \ (stale \cup {f}) /\ stale \cup {f} \subseteq FragIds
        BY <3>3
      <3>12. Cardinality(HeldIn(sets', FragIds))
               = Cardinality(HeldIn(sets', stale \cup {f})) + Cardinality(HeldIn(sets', left))
        BY <3>11, HeldSplit
      <3> QED BY <3>6, <3>7, <3>9, <3>10, <3>12 DEF HeldBy
    <2> QED BY <1>1, <2>1, <2>2, <2>3, <2>4, <2>5 DEF HandleFragment
  <1>2. CASE Receive
    <2>1. PICK t \in Transmissions : \E i \in Offered(KeyOf[t.msg]) :
                  HandleFragment(t.id, t.msg, i)
      BY <1>2 DEF Receive
    <2>2. t.id \in FragIds /\ t.msg \in Msgs
      BY MsgsAssumption
    <2> QED BY <2>1, <2>2, <1>1
  <1>3. CASE Cleanup
    <2>1. Expired \subseteq FragIds
      BY DEF Expired, ActiveIds
    <2>2. /\ sets' = [f \in FragIds |-> IF f \in Expired THEN None ELSE sets[f]]
          /\ globalBytes' = Floor0(globalBytes - Cardinality(HeldBy(Expired)))
      BY <1>3 DEF Cleanup
    <2>3. IsFiniteSet(Expired) /\ IsFiniteSet(FragIds \ Expired)
      BY <2>1, IdsFinite
    <2>4. /\ Cardinality(HeldIn(sets, Expired)) \in Nat
          /\ Cardinality(HeldIn(sets, FragIds \ Expired)) \in Nat
      BY <2>3, HeldFinite
    <2>5. globalBytes = Cardinality(HeldIn(sets, Expired))
                          + Cardinality(HeldIn(sets, FragIds \ Expired))
      BY <2>1, HeldSplit DEF AccountingExact, HeldBy
    <2>6. globalBytes' = Cardinality(HeldIn(sets, FragIds \ Expired))
      BY <2>2, <2>4, <2>5 DEF Floor0, HeldBy
    <2>7. Cardinality(HeldIn(sets', FragIds))
            = Cardinality(HeldIn(sets', Expired)) + Cardinality(HeldIn(sets', FragIds \ Expired))
      BY <2>1, HeldSplit
    <2>8. Cardinality(HeldIn(sets', Expired)) = 0
      BY <2>1, <2>2, HeldNone
    <2>9. HeldIn(sets', FragIds \ Expired) = HeldIn(sets, FragIds \ Expired)
      BY <2>2, HeldSame
    <2> QED BY <2>4, <2>6, <2>7, <2>8, <2>9
  <1>4. CASE Tick
    <2>1. ASSUME NEW f \in FragIds
          PROVE  /\ sets'[f] = None <=> sets[f] = None
                 /\ sets[f] # None => sets'[f].frags = sets[f].frags
      BY <1>4, TickKeepsFrags
    <2>2. HeldIn(sets', FragIds) = HeldIn(sets, FragIds)
      BY <2>1 DEF HeldIn
    <2> QED BY <1>4, <2>2 DEF Tick, AccountingExact, HeldBy
  <1>5. CASE Restart
    <2>1. globalBytes' = 0 /\ \A f \in FragIds : sets'[f] = None
      BY <1>5 DEF Restart
    <2> QED BY <2>1, HeldNone
  <1>6. CASE UNCHANGED vars
    BY <1>6 DEF vars, AccountingExact, HeldBy
  <1> QED BY <1>2, <1>3, <1>4, <1>5, <1>6 DEF Next

(* _global_bytes is always the size of the chunks held, whatever sets were *)
(* opened with inherited chunks, removed, purged or expired.               *)
THEOREM AccountingCorrect == Spec => []AccountingExact
PROOF
  <1>1. Init => AccountingExact
    <2> SUFFICES ASSUME Init PROVE AccountingExact
      OBVIOUS
    <2>1. \A f \in FragIds : sets[f] = None
      BY DEF Init
    <2>2. Cardinality(HeldIn(sets, FragIds)) = 0
      BY <2>1, HeldNone
    <2> QED BY <2>2 DEF Init, AccountingExact, HeldBy
  <1>2. TypeOK /\ TypeOK' /\ AccountingExact /\ [Next]_vars => AccountingExact'
    BY AccountingStep DEF AccountingExact, HeldBy
  <1> QED BY <1>1, <1>2, TypeCorrect, PTL DEF Spec

-----------------------------------------------------------------------------
(* The caps, and no set left complete.                                     *)

SetWithin(s) == Size(s.frags) <= MaxSetBytes /\ ~Joins(s.frags, s.key)

SetsWithin(S) == /\ \A f \in FragIds : S[f] # None => SetWithin(S[f])
                 /\ Cardinality({f \in FragIds : S[f] # None}) <= MaxActiveSets

CapsInv == SetsWithin(sets) /\ globalBytes <= MaxGlobalBytes

LEMMA CapsParts == CapsInv <=> WithinCaps /\ NoCompleteSetLingers
PROOF
  <1>1. ActiveIds = {f \in FragIds : sets[f] # None}
    BY DEF ActiveIds, Active
  <1> QED BY <1>1 DEF CapsInv, SetsWithin, SetWithin, WithinCaps, NoCompleteSetLingers

(* Sets that only disappear leave the rest within the caps.                *)
LEMMA FewerSets ==
    ASSUME SetsWithin(sets), NEW S,
           \A f \in FragIds : S[f] # None => S[f] = sets[f]
    PROVE  SetsWithin(S)
PROOF
  <1> DEFINE before == {f \in FragIds : sets[f] # None}
             after  == {f \in FragIds : S[f] # None}
  <1>1. after \subseteq before /\ IsFiniteSet(before)
    BY IdsFinite
  <1>2. Cardinality(after) <= Cardinality(before) /\ Cardinality(before) \in Nat
    BY <1>1, FS_Subset, FS_CardinalityType
  <1>3. IsFiniteSet(after) /\ Cardinality(after) \in Nat
    BY IdsFinite
  <1>4. Cardinality(after) <= MaxActiveSets
    BY <1>2, <1>3, LimitsAssumption DEF SetsWithin
  <1> QED BY <1>4 DEF SetsWithin

LEMMA CapsStep ==
    ASSUME TypeOK, TypeOK', AccountingExact, AccountingExact', CapsInv, [Next]_vars
    PROVE  SetsWithin(sets') /\ globalBytes' <= MaxGlobalBytes
PROOF
  <1>0. /\ SetsWithin(sets) /\ globalBytes <= MaxGlobalBytes
        /\ sets \in [FragIds -> SetRecords \cup {None}]
        /\ globalBytes \in Nat /\ globalBytes' \in Nat
    BY DEF CapsInv, TypeOK
  <1>1. ASSUME NEW f \in FragIds, NEW m \in Msgs, NEW i \in Offered(KeyOf[m]),
               HandleFragment(f, m, i)
        PROVE  SetsWithin(sets') /\ globalBytes' <= MaxGlobalBytes
    <2> DEFINE s == Target(f, m)
    <2>0. /\ s.frags \in FragsOf(s.key) /\ s.key \in Keys /\ s \in SetRecords
          /\ Size(s.frags) \in Nat /\ Rest(f) \in Nat
      BY TargetType, SizesType, TotalSplit
    <2>1. CASE Refuse(f, m)
      BY <2>1, <1>0 DEF Refuse
    <2>2. CASE Mismatch(f, m)
      <3>1. \A g \in FragIds : sets'[g] # None => sets'[g] = sets[g]
        BY <2>2, <1>0 DEF Mismatch
      <3>2. Size(sets[f].frags) \in Nat
        BY <2>2, SetType, FragsOfType DEF Mismatch, ActiveIds
      <3>3. globalBytes' <= globalBytes
        BY <2>2, <3>2, <1>0 DEF Mismatch, Floor0
      <3> QED BY <3>1, <3>3, <1>0, FewerSets, LimitsAssumption
    <2>3. CASE OverCap(f, m, i)
      <3>1. \A g \in FragIds : sets'[g] # None => sets'[g] = sets[g]
        BY <2>3, <1>0 DEF OverCap
      <3>2. globalBytes' = Rest(f)
        BY <2>3, <2>0, OpenSplit DEF OverCap, Floor0
      <3>3. Rest(f) <= globalBytes
        <4>1. Active(f) => Size(sets[f].frags) \in Nat
          BY SetType, FragsOfType DEF ActiveIds
        <4> QED BY <4>1, TotalSplit, <1>0
      <3> QED BY <3>1, <3>2, <3>3, <1>0, <2>0, FewerSets, LimitsAssumption
    <2>4. CASE Store(f, m, i) \/ Jam(f, m, i)
      <3> DEFINE n == [s EXCEPT !.idle = 0, !.frags = PutChunk(s.frags, i, m)]
      <3>1. sets'[f] = n /\ \A g \in FragIds \ {f} : sets'[g] = sets[g]
        BY <2>4, <1>0 DEF Store, Jam, Kept
      <3>2. i \in Offered(s.key)
        BY <2>4, AcceptedIndex DEF Store, Jam, Kept
      <3>3. PutChunk(s.frags, i, m) \in FragsOf(s.key)
        BY <2>0, <3>2, PutChunkType
      <3>4. n.frags = PutChunk(s.frags, i, m) /\ n.key = s.key
        BY <2>0 DEF SetRecords
      <3>5. Size(n.frags) = Size(s.frags) + Growth(s, i)
        BY <2>0, <3>2, <3>4, PutChunkSize
      <3>6. Size(n.frags) <= MaxSetBytes
        BY <2>4, <3>5 DEF Store, Jam, Kept, Fits
      <3>7. ~Joins(n.frags, n.key)
        <4>1. CASE Store(f, m, i)
          <5>1. Size(n.frags) # n.key.total
            BY <4>1, <3>4 DEF Store, Completes
          <5> QED BY <5>1, <3>4, <2>0, JoinedSize
        <4>2. CASE Jam(f, m, i)
          BY <4>2, <3>4 DEF Jam
        <4> QED BY <2>4, <4>1, <4>2
      <3>8. \A g \in FragIds : sets'[g] # None => SetWithin(sets'[g])
        <4> HIDE DEF n
        <4> QED BY <3>1, <3>6, <3>7, <1>0 DEF SetsWithin, SetWithin
      <3>9. Cardinality({g \in FragIds : sets'[g] # None}) <= MaxActiveSets
        <4> DEFINE after == {g \in FragIds : sets'[g] # None}
        <4>1. IsFiniteSet(ActiveIds) /\ IsFiniteSet(after)
          BY IdsFinite DEF ActiveIds
        <4>2. after \subseteq ActiveIds \cup {f}
          BY <3>1 DEF ActiveIds, Active
        <4>3. CASE Active(f)
          <5>1. after \subseteq ActiveIds
            BY <4>2, <4>3 DEF ActiveIds
          <5>2. Cardinality(after) <= Cardinality(ActiveIds)
            BY <4>1, <5>1, FS_Subset
          <5>3. Cardinality(ActiveIds) <= MaxActiveSets
            BY <1>0 DEF SetsWithin, ActiveIds, Active
          <5> QED BY <4>1, <5>2, <5>3, FS_CardinalityType, LimitsAssumption
        <4>4. CASE ~Active(f)
          <5>1. Cardinality(ActiveIds) < MaxActiveSets
            BY <2>4, <4>4 DEF Store, Jam, Kept, Accepted
          <5>2. f \notin ActiveIds
            BY <4>4 DEF ActiveIds
          <5>3. /\ IsFiniteSet(ActiveIds \cup {f})
                /\ Cardinality(ActiveIds \cup {f}) = Cardinality(ActiveIds) + 1
            BY <4>1, <5>2, FS_AddElement
          <5>4. Cardinality(after) <= Cardinality(ActiveIds \cup {f})
            BY <4>2, <5>3, FS_Subset
          <5>5. Cardinality(ActiveIds) \in Nat /\ Cardinality(after) \in Nat
            BY <4>1, FS_CardinalityType
          <5>6. Cardinality(after) <= MaxActiveSets
            <6> HIDE DEF after
            <6> QED BY <5>1, <5>3, <5>4, <5>5, LimitsAssumption
          <5> QED BY <5>6
        <4> QED BY <4>3, <4>4
      <3>10. globalBytes' <= MaxGlobalBytes
        <4>1. globalBytes' = BytesOpen(f, m) + Growth(s, i)
          BY <2>4, SizesType DEF Store, Jam, Kept, Floor0, Growth
        <4> QED BY <4>1, <2>4 DEF Store, Jam, Kept, Fits
      <3> QED BY <3>8, <3>9, <3>10 DEF SetsWithin
    <2>5. CASE Complete(f, m, i)
      <3> DEFINE stale == {g \in ActiveIds \ {f} : sets[g].key = s.key}
      <3>1. \A g \in FragIds : sets'[g] # None => sets'[g] = sets[g]
        BY <2>5 DEF Complete
      <3>2. IsFiniteSet(stale)
        BY IdsFinite DEF ActiveIds
      <3>3. Cardinality(HeldBy(stale)) \in Nat
        BY <3>2, HeldFinite DEF HeldBy
      <3>4. i \in Offered(s.key)
        BY <2>5, AcceptedIndex DEF Complete
      <3>5. Size(PutChunk(s.frags, i, m)) \in Nat
        BY <2>0, <3>4, PutChunkType, FragsOfType
      <3>6. BytesOpen(f, m) + Growth(s, i) <= MaxGlobalBytes
        BY <2>5 DEF Complete, Fits
      <3>7. globalBytes' = Floor0(BytesOpen(f, m) + Growth(s, i)
                                    - Size(PutChunk(s.frags, i, m))
                                    - Cardinality(HeldBy(stale)))
        BY <2>5 DEF Complete
      <3>8. BytesOpen(f, m) \in Nat /\ Growth(s, i) \in Nat
        BY SizesType DEF Growth
      <3>9. globalBytes' <= MaxGlobalBytes
        <4> HIDE DEF stale, s
        <4> QED BY <3>3, <3>5, <3>6, <3>7, <3>8, LimitsAssumption DEF Floor0
      <3> QED BY <3>1, <3>9, <1>0, FewerSets
    <2> QED BY <1>1, <2>1, <2>2, <2>3, <2>4, <2>5 DEF HandleFragment
  <1>2. CASE Receive
    <2>1. PICK t \in Transmissions : \E i \in Offered(KeyOf[t.msg]) :
                  HandleFragment(t.id, t.msg, i)
      BY <1>2 DEF Receive
    <2>2. t.id \in FragIds /\ t.msg \in Msgs
      BY MsgsAssumption
    <2> QED BY <2>1, <2>2, <1>1
  <1>3. CASE Cleanup
    <2>1. \A g \in FragIds : sets'[g] # None => sets'[g] = sets[g]
      BY <1>3 DEF Cleanup
    <2>2. globalBytes' = Floor0(globalBytes - Cardinality(HeldBy(Expired)))
      BY <1>3 DEF Cleanup
    <2>3. IsFiniteSet(Expired)
      BY IdsFinite DEF Expired, ActiveIds
    <2>4. Cardinality(HeldBy(Expired)) \in Nat
      BY <2>3, HeldFinite DEF HeldBy
    <2>5. globalBytes' <= MaxGlobalBytes
      BY <2>2, <2>4, <1>0, LimitsAssumption DEF Floor0
    <2> QED BY <2>1, <2>5, <1>0, FewerSets
  <1>4. CASE Tick
    <2>1. ASSUME NEW f \in FragIds
          PROVE  /\ sets'[f] = None <=> sets[f] = None
                 /\ sets[f] # None => /\ sets'[f].frags = sets[f].frags
                                      /\ sets'[f].key = sets[f].key
      BY <1>4, TickKeepsFrags
    <2>2. {f \in FragIds : sets'[f] # None} = {f \in FragIds : sets[f] # None}
      BY <2>1
    <2>3. SetsWithin(sets')
      BY <2>1, <2>2, <1>0 DEF SetsWithin, SetWithin
    <2> QED BY <2>3, <1>0, <1>4 DEF Tick
  <1>5. CASE Restart
    <2>1. globalBytes' = 0 /\ \A g \in FragIds : sets'[g] = None
      BY <1>5 DEF Restart
    <2> QED BY <2>1, <1>0, FewerSets, LimitsAssumption
  <1>6. CASE UNCHANGED vars
    BY <1>6, <1>0 DEF vars
  <1> QED BY <1>2, <1>3, <1>4, <1>5, <1>6 DEF Next

LEMMA CapsInvariant == Spec => []CapsInv
PROOF
  <1>1. Init => CapsInv
    <2> SUFFICES ASSUME Init PROVE CapsInv
      OBVIOUS
    <2>1. {f \in FragIds : sets[f] # None} = {}
      BY DEF Init
    <2>2. Cardinality({f \in FragIds : sets[f] # None}) <= MaxActiveSets
      BY <2>1, FS_EmptySet, LimitsAssumption
    <2> QED BY <2>1, <2>2, LimitsAssumption DEF CapsInv, SetsWithin, Init
  <1>2. TypeOK /\ TypeOK' /\ AccountingExact /\ AccountingExact' /\ CapsInv /\ [Next]_vars
          => CapsInv'
    BY CapsStep DEF CapsInv, SetsWithin, SetWithin
  <1> QED BY <1>1, <1>2, TypeCorrect, AccountingCorrect, PTL DEF Spec

(* The limits on sets, on bytes per set and on bytes in all hold.          *)
THEOREM CapsHold == Spec => []WithinCaps
PROOF
  <1>1. CapsInv => WithinCaps
    BY CapsParts
  <1> QED BY <1>1, CapsInvariant, PTL

(* No set that holds the chunks of its packet, and nothing else, stays.    *)
THEOREM CompleteSetsLeave == Spec => []NoCompleteSetLingers
PROOF
  <1>1. CapsInv => NoCompleteSetLingers
    BY CapsParts
  <1> QED BY <1>1, CapsInvariant, PTL

-----------------------------------------------------------------------------
(* The rescue cache.                                                       *)

LEMMA KeysFinite == \A S : S \subseteq Keys => IsFiniteSet(S) /\ Cardinality(S) \in Nat
PROOF
  <1>1. [m \in Msgs |-> KeyOf[m]] \in Surjection(Msgs, Keys)
    <2> DEFINE F == [m \in Msgs |-> KeyOf[m]]
    <2>1. F \in [Msgs -> Keys]
      BY DEF Keys
    <2>2. \A k \in Keys : \E m \in Msgs : F[m] = k
      BY DEF Keys
    <2> QED BY <2>1, <2>2, Fun_IsSurj
  <1>2. IsFiniteSet(Keys)
    BY <1>1, MsgsAssumption, FS_Surjection
  <1> QED BY <1>2, FS_Subset, FS_CardinalityType

(* What a restart finds in the file.                                       *)
Loaded == [k \in Keys |-> IF k \in Loadable
                          THEN [frags |-> disk[k].frags, age |-> disk[k].age] ELSE None]

(* The ways the cache and its file change.                                 *)
CacheIdle == UNCHANGED <<rescue, disk, unsaved>>

CacheTaken(k) ==
    /\ rescue[k] # None
    /\ rescue' = [rescue EXCEPT ![k] = None]
    /\ Save(rescue', attempts')

CacheSwept(o, kept) ==
    /\ kept \in IF Persist THEN Survivors(Merged(o)) ELSE {Occupied(Merged(o))}
    /\ rescue' = Only(Merged(o), kept)
    /\ Save(rescue', attempts')
    /\ StaleRescue # {} \/ Expired # {}

CacheAged == rescue' = Aged(rescue) /\ disk' = Aged(disk) /\ unsaved' = unsaved

CacheLoaded(kept) ==
    /\ kept \in Survivors(Loaded)
    /\ rescue' = Only(Loaded, kept)
    /\ UNCHANGED disk /\ unsaved' = FALSE

LEMMA NothingExpired ==
    ASSUME TypeOK, NEW o \in Orders, StaleRescue = {}, Expired = {}
    PROVE  Only(Merged(o), Occupied(Merged(o))) = rescue
PROOF
  <1>1. \A k \in Keys : Merging(k) = {}
    BY DEF Merging
  <1>2. Fresh = rescue
    BY DEF Fresh, Only, Occupied, TypeOK
  <1>3. Merged(o) = [k \in Keys |-> rescue[k]]
    BY <1>1, <1>2 DEF Merged
  <1> QED BY <1>3 DEF Only, Occupied, TypeOK

LEMMA CacheStep ==
    ASSUME TypeOK, [Next]_vars
    PROVE  \/ CacheIdle \/ CacheAged
           \/ \E k \in Keys : CacheTaken(k)
           \/ \E o \in Orders : \E kept \in SUBSET Keys : CacheSwept(o, kept)
           \/ \E kept \in SUBSET Keys : CacheLoaded(kept)
PROOF
  <1>1. CASE UNCHANGED vars
    BY <1>1 DEF vars, CacheIdle
  <1>2. CASE Receive
    <2>0. PICK t \in Transmissions : \E i \in Offered(KeyOf[t.msg]) : HandleFragment(t.id, t.msg, i)
      BY <1>2 DEF Receive
    <2>1. PICK i \in Offered(KeyOf[t.msg]) : HandleFragment(t.id, t.msg, i)
      BY <2>0
    <2> DEFINE f == t.id
               m == t.msg
    <2>2. f \in FragIds /\ m \in Msgs
      BY MsgsAssumption
    <2>3. CASE Refuse(f, m) \/ Mismatch(f, m) \/ OverCap(f, m, i) \/ Store(f, m, i)
               \/ Jam(f, m, i)
      BY <2>3 DEF Refuse, Mismatch, OverCap, Store, Jam, Kept, CacheIdle
    <2>4. CASE Complete(f, m, i)
      <3> DEFINE k == Target(f, m).key
      <3>1. k \in Keys
        BY <2>2, TargetType
      <3>2. rescue' = [rescue EXCEPT ![k] = None]
        BY <2>4 DEF Complete
      <3>3. CASE rescue[k] # None
        BY <2>4, <3>1, <3>2, <3>3 DEF Complete, CacheTaken
      <3>4. CASE rescue[k] = None
        <4>1. UNCHANGED <<disk, unsaved>>
          BY <2>4, <3>4 DEF Complete
        <4>2. rescue' = rescue
          BY <3>1, <3>2, <3>4 DEF TypeOK
        <4> QED BY <4>1, <4>2 DEF CacheIdle
      <3> QED BY <3>3, <3>4
    <2> QED BY <2>1, <2>3, <2>4 DEF HandleFragment
  <1>3. CASE Cleanup
    <2> DEFINE changed == StaleRescue # {} \/ Expired # {}
    <2>0. PICK o \in Orders :
             \E kept \in IF changed /\ Persist THEN Survivors(Merged(o)) ELSE {Occupied(Merged(o))} :
                /\ rescue' = Only(Merged(o), kept)
                /\ IF changed THEN Save(rescue', attempts') ELSE UNCHANGED <<disk, unsaved>>
      BY <1>3 DEF Cleanup
    <2>1. PICK kept \in IF changed /\ Persist THEN Survivors(Merged(o)) ELSE {Occupied(Merged(o))} :
                /\ rescue' = Only(Merged(o), kept)
                /\ IF changed THEN Save(rescue', attempts') ELSE UNCHANGED <<disk, unsaved>>
      BY <2>0
    <2>2. kept \in SUBSET Keys
      BY <2>1 DEF Survivors, Occupied
    <2>3. CASE changed
      BY <2>1, <2>2, <2>3 DEF CacheSwept
    <2>4. CASE ~changed
      BY <2>1, <2>4, NothingExpired DEF CacheIdle
    <2> QED BY <2>3, <2>4
  <1>4. CASE Tick
    BY <1>4 DEF Tick, CacheAged
  <1>5. CASE Restart
    <2>1. PICK kept \in Survivors(Loaded) : rescue' = Only(Loaded, kept)
      BY <1>5 DEF Restart, Loaded
    <2>2. kept \in SUBSET Keys
      BY <2>1 DEF Survivors, Occupied
    <2>3. UNCHANGED disk /\ unsaved' = FALSE
      BY <1>5 DEF Restart
    <2> QED BY <2>1, <2>2, <2>3 DEF CacheLoaded
  <1> QED BY <1>1, <1>2, <1>3, <1>4, <1>5 DEF Next

(* Saved or not, the file is what it was, or what the cache is.            *)
LEMMA SavedOr ==
    ASSUME Save(rescue', attempts')
    PROVE  disk' = disk \/ disk' = Image(rescue', attempts')
  BY DEF Save

-----------------------------------------------------------------------------
(* What is kept is worth keeping.                                          *)

Worth(r) == \A k \in Keys : r[k] # None => WorthKeeping(Size(r[k].frags), k.total)

LEMMA MoreIsWorth ==
    ASSUME NEW n \in Nat, NEW m \in Nat, NEW total, n <= m, WorthKeeping(n, total), total \in Nat
    PROVE  WorthKeeping(m, total)
PROOF
  <1>1. RescueDen \in Nat /\ RescueNum \in Nat
    BY LimitsAssumption
  <1>2. RescueDen * n <= RescueDen * m
    BY <1>1
  <1>3. RescueDen * n \in Int /\ RescueDen * m \in Int /\ RescueNum * total \in Int
    BY <1>1
  <1> QED BY <1>2, <1>3 DEF WorthKeeping

LEMMA MergedWorth ==
    ASSUME TypeOK, NEW o \in Orders, Worth(rescue)
    PROVE  Worth(Merged(o))
PROOF
  <1> SUFFICES ASSUME NEW k \in Keys, Merged(o)[k] # None
               PROVE  WorthKeeping(Size(Merged(o)[k].frags), k.total)
    BY DEF Worth
  <1>1. CASE Merging(k) = {}
    <2>1. Merged(o)[k] = Fresh[k]
      BY <1>1 DEF Merged
    <2>2. Fresh[k] = rescue[k]
      BY <2>1 DEF Fresh, Only
    <2> QED BY <2>1, <2>2 DEF Worth
  <1>2. CASE Merging(k) # {}
    <2>1. PICK f \in Merging(k) : WorthKeeping(Size(sets[f].frags), k.total)
      BY <1>2 DEF Merging
    <2>2. Merged(o)[k] = [frags |-> MergedFrags(k, o), age |-> 0]
      BY <1>2 DEF Merged
    <2>3. DOMAIN sets[f].frags \subseteq DOMAIN MergedFrags(k, o)
      BY DEF MergedFrags
    <2>4. MergedFrags(k, o) \in FragsOf(k)
      BY <2>2, MergedType DEF RescueOK
    <2>5. IsFiniteSet(DOMAIN MergedFrags(k, o))
      BY <2>4, FragsOfType
    <2>6. /\ IsFiniteSet(DOMAIN sets[f].frags)
          /\ Cardinality(DOMAIN sets[f].frags) <= Cardinality(DOMAIN MergedFrags(k, o))
      BY <2>3, <2>5, FS_Subset
    <2>7. /\ Cardinality(DOMAIN sets[f].frags) \in Nat
          /\ Cardinality(DOMAIN MergedFrags(k, o)) \in Nat
      BY <2>5, <2>6, FS_CardinalityType
    <2>8. k.total \in Nat
      BY KeyTotal
    <2>9. WorthKeeping(Cardinality(DOMAIN MergedFrags(k, o)), k.total)
      BY <2>1, <2>6, <2>7, <2>8, MoreIsWorth DEF Size
    <2> QED BY <2>2, <2>9 DEF Size
  <1> QED BY <1>1, <1>2

LEMMA OnlyWorth ==
    ASSUME NEW r, Worth(r), NEW S
    PROVE  Worth(Only(r, S))
  BY DEF Worth, Only

LEMMA ImageWorth ==
    ASSUME NEW r, Worth(r), NEW a
    PROVE  Worth(Image(r, a))
PROOF
  <1> SUFFICES ASSUME NEW k \in Keys, Image(r, a)[k] # None
               PROVE  WorthKeeping(Size(Image(r, a)[k].frags), k.total)
    BY DEF Worth
  <1>1. r[k] # None /\ Image(r, a)[k] = [frags |-> r[k].frags, age |-> r[k].age, attempt |-> a[k]]
    BY DEF Image
  <1>2. Image(r, a)[k].frags = r[k].frags
    BY <1>1
  <1> QED BY <1>1, <1>2 DEF Worth

(* Growing old does not change what an entry holds.                        *)
LEMMA AgedSame ==
    ASSUME NEW r, RescueOK(r) \/ DiskOK(r), NEW k \in Keys
    PROVE  /\ Aged(r)[k] = None <=> r[k] = None
           /\ r[k] # None => /\ Aged(r)[k].frags = r[k].frags
                             /\ Aged(r)[k].age = Older(r[k].age, RescueTTL)
PROOF
  <1>1. CASE r[k] = None
    BY <1>1 DEF Aged
  <1>2. CASE r[k] # None
    <2>1. r[k] \in CacheRecords \/ r[k] \in FileRecords
      BY <1>2 DEF RescueOK, DiskOK
    <2>2. Aged(r)[k] = [r[k] EXCEPT !.age = Older(r[k].age, RescueTTL)]
      BY <1>2 DEF Aged
    <2>3. Aged(r)[k].frags = r[k].frags /\ Aged(r)[k].age = Older(r[k].age, RescueTTL)
      BY <2>1, <2>2 DEF CacheRecords, FileRecords
    <2>4. Aged(r)[k] # None
      BY AgedCacheType, AgedFileType, <2>1, <2>2, NoneAssumption, AgedType, LimitsAssumption
         DEF CacheRecords, FileRecords
    <2> QED BY <1>2, <2>3, <2>4
  <1> QED BY <1>1, <1>2

LEMMA LoadedSame ==
    ASSUME NEW k \in Keys
    PROVE  Loaded[k] # None => /\ k \in Loadable /\ disk[k] # None
                               /\ Loaded[k].frags = disk[k].frags /\ Loaded[k].age = disk[k].age
  BY DEF Loaded, Loadable

LEMMA WorthStep == TypeOK /\ RescueWorthKeeping /\ [Next]_vars => RescueWorthKeeping'
PROOF
  <1> SUFFICES ASSUME TypeOK, Worth(rescue), Worth(disk), [Next]_vars
               PROVE  Worth(rescue') /\ Worth(disk')
    BY DEF RescueWorthKeeping, Worth
  <1>1. ASSUME Worth(rescue'), Save(rescue', attempts') PROVE Worth(disk')
    BY <1>1, SavedOr, ImageWorth
  <1>2. CASE CacheIdle
    BY <1>2 DEF CacheIdle
  <1>3. CASE CacheAged
    BY <1>3, AgedSame, TypeParts DEF CacheAged, Worth
  <1>4. ASSUME NEW k \in Keys, CacheTaken(k) PROVE Worth(rescue') /\ Worth(disk')
    <2>1. Worth(rescue')
      BY <1>4, TypeParts DEF CacheTaken, Worth, RescueOK
    <2> QED BY <1>1, <1>4, <2>1 DEF CacheTaken
  <1>5. ASSUME NEW o \in Orders, NEW kept, CacheSwept(o, kept) PROVE Worth(rescue') /\ Worth(disk')
    <2>1. Worth(rescue')
      BY <1>5, MergedWorth, OnlyWorth DEF CacheSwept
    <2> QED BY <1>1, <1>5, <2>1 DEF CacheSwept
  <1>6. ASSUME NEW kept, CacheLoaded(kept) PROVE Worth(rescue') /\ Worth(disk')
    <2>1. Worth(Loaded)
      BY LoadedSame DEF Worth
    <2> QED BY <1>6, <2>1, OnlyWorth DEF CacheLoaded
  <1> QED BY <1>2, <1>3, <1>4, <1>5, <1>6, CacheStep

(* No merge, eviction, save or restart leaves less than three quarters of  *)
(* a packet in the cache or in its file.                                   *)
THEOREM KeptIsWorthKeeping == Spec => []RescueWorthKeeping
PROOF
  <1>1. Init => RescueWorthKeeping
    BY DEF Init, RescueWorthKeeping
  <1> QED BY <1>1, WorthStep, TypeCorrect, PTL DEF Spec

-----------------------------------------------------------------------------
(* The limits of the cache.                                                *)

(* Fewer entries with fewer chunks are within the limits as well.          *)
LEMMA LimitsShrink ==
    ASSUME NEW r, NEW q, NEW S, NEW T, S \subseteq Keys, T \subseteq S,
           \A k \in T : q[k] # None => r[k] # None /\ DOMAIN q[k].frags \subseteq DOMAIN r[k].frags,
           WithinRescueLimits(r, S)
    PROVE  WithinRescueLimits(q, T)
PROOF
  <1>1. T \subseteq Keys
    OBVIOUS
  <1>2. /\ IsFiniteSet(S) /\ Cardinality(S) \in Nat
        /\ IsFiniteSet(T) /\ Cardinality(T) \in Nat
    BY <1>1, KeysFinite
  <1>3. Cardinality(T) <= Cardinality(S)
    BY <1>2, FS_Subset
  <1>4. HeldIn(q, T) \subseteq HeldIn(r, S)
    BY DEF HeldIn
  <1>5. /\ IsFiniteSet(HeldIn(r, S)) /\ Cardinality(HeldIn(r, S)) \in Nat
        /\ Cardinality(HeldIn(q, T)) \in Nat
    BY <1>2, HeldFinite
  <1>6. Cardinality(HeldIn(q, T)) <= Cardinality(HeldIn(r, S))
    BY <1>4, <1>5, FS_Subset
  <1>7. RescueMaxEntries \in Nat /\ RescueMaxBytes \in Nat
    BY LimitsAssumption
  <1>8. Cardinality(S) <= RescueMaxEntries /\ Cardinality(HeldIn(r, S)) <= RescueMaxBytes
    BY DEF WithinRescueLimits
  <1> QED BY <1>2, <1>3, <1>5, <1>6, <1>7, <1>8 DEF WithinRescueLimits

LEMMA OccupiedOnly ==
    ASSUME NEW r, NEW S, S \subseteq Occupied(r)
    PROVE  Occupied(Only(r, S)) = S
  BY DEF Occupied, Only

Bounded(r) == WithinRescueLimits(r, Occupied(r))

LEMMA BoundedShrink ==
    ASSUME NEW r, NEW q, Bounded(r),
           \A k \in Keys : q[k] # None => r[k] # None /\ q[k].frags = r[k].frags
    PROVE  Bounded(q)
PROOF
  <1>1. Occupied(r) \subseteq Keys /\ Occupied(q) \subseteq Occupied(r)
    BY DEF Occupied
  <1>2. \A k \in Occupied(q) : q[k] # None => r[k] # None /\ DOMAIN q[k].frags \subseteq DOMAIN r[k].frags
    BY DEF Occupied
  <1> QED BY <1>1, <1>2, LimitsShrink DEF Bounded

LEMMA SurvivorsBounded ==
    ASSUME NEW r, NEW S \in Survivors(r)
    PROVE  S \subseteq Occupied(r) /\ Bounded(Only(r, S))
PROOF
  <1>1. S \subseteq Occupied(r) /\ WithinRescueLimits(r, S)
    BY DEF Survivors
  <1>2. S \subseteq Keys
    BY <1>1 DEF Occupied
  <1>3. \A k \in S : Only(r, S)[k] # None => r[k] # None /\ DOMAIN Only(r, S)[k].frags \subseteq DOMAIN r[k].frags
    BY <1>2 DEF Only
  <1>4. WithinRescueLimits(Only(r, S), S)
    BY <1>1, <1>2, <1>3, LimitsShrink
  <1> QED BY <1>1, <1>4, OccupiedOnly DEF Bounded

(* From a cache within its limits nothing is evicted.                      *)
LEMMA SurvivorsWhole ==
    ASSUME NEW r, NEW S \in Survivors(r), Bounded(r)
    PROVE  S = Occupied(r)
PROOF
  <1> DEFINE gone == Occupied(r) \ S
  <1>1. S \subseteq Occupied(r)
        /\ (gone # {} => \E v \in gone : ~WithinRescueLimits(r, S \cup {v}))
    BY DEF Survivors
  <1>2. ASSUME NEW v \in gone PROVE WithinRescueLimits(r, S \cup {v})
    <2>1. S \cup {v} \subseteq Occupied(r) /\ Occupied(r) \subseteq Keys
      BY <1>1 DEF Occupied
    <2>2. \A k \in S \cup {v} : r[k] # None => r[k] # None /\ DOMAIN r[k].frags \subseteq DOMAIN r[k].frags
      OBVIOUS
    <2> QED BY <2>1, <2>2, LimitsShrink DEF Bounded
  <1> QED BY <1>1, <1>2

LEMMA ImageBounded ==
    ASSUME NEW r, Bounded(r), NEW a
    PROVE  Bounded(Image(r, a))
PROOF
  <1> SUFFICES ASSUME NEW k \in Keys, Image(r, a)[k] # None
               PROVE  r[k] # None /\ Image(r, a)[k].frags = r[k].frags
    BY BoundedShrink
  <1>1. r[k] # None /\ Image(r, a)[k] = [frags |-> r[k].frags, age |-> r[k].age, attempt |-> a[k]]
    BY DEF Image
  <1> QED BY <1>1

LEMMA BoundedParts == RescueBounded <=> (Persist => Bounded(rescue) /\ Bounded(disk))
  BY DEF RescueBounded, Bounded

LEMMA BoundedStep == TypeOK /\ RescueBounded /\ [Next]_vars => RescueBounded'
PROOF
  <1> SUFFICES ASSUME TypeOK, Persist, Bounded(rescue), Bounded(disk), [Next]_vars
               PROVE  Bounded(rescue') /\ Bounded(disk')
    BY BoundedParts DEF RescueBounded, Bounded
  <1>1. ASSUME Bounded(rescue'), Save(rescue', attempts') PROVE Bounded(disk')
    BY <1>1, SavedOr, ImageBounded
  <1>2. CASE CacheIdle
    BY <1>2 DEF CacheIdle
  <1>3. CASE CacheAged
    <2>1. Bounded(rescue')
      BY <1>3, AgedSame, TypeParts, BoundedShrink DEF CacheAged
    <2>2. Bounded(disk')
      BY <1>3, AgedSame, TypeParts, BoundedShrink DEF CacheAged
    <2> QED BY <2>1, <2>2
  <1>4. ASSUME NEW k \in Keys, CacheTaken(k) PROVE Bounded(rescue') /\ Bounded(disk')
    <2>1. \A j \in Keys : rescue'[j] # None => rescue[j] # None /\ rescue'[j].frags = rescue[j].frags
      BY <1>4, TypeParts DEF CacheTaken, RescueOK
    <2>2. Bounded(rescue')
      BY <2>1, BoundedShrink
    <2> QED BY <1>1, <1>4, <2>2 DEF CacheTaken
  <1>5. ASSUME NEW o \in Orders, NEW kept, CacheSwept(o, kept) PROVE Bounded(rescue') /\ Bounded(disk')
    <2>1. Bounded(rescue')
      BY <1>5, SurvivorsBounded DEF CacheSwept
    <2> QED BY <1>1, <1>5, <2>1 DEF CacheSwept
  <1>6. ASSUME NEW kept, CacheLoaded(kept) PROVE Bounded(rescue') /\ Bounded(disk')
    BY <1>6, SurvivorsBounded DEF CacheLoaded
  <1> QED BY <1>2, <1>3, <1>4, <1>5, <1>6, CacheStep

LEMMA NoneBounded == Bounded([k \in Keys |-> None])
PROOF
  <1> DEFINE r == [k \in Keys |-> None]
  <1>1. Occupied(r) = {} /\ HeldIn(r, {}) = {}
    BY DEF Occupied, HeldIn
  <1>2. Cardinality({}) = 0
    BY FS_EmptySet
  <1>3. RescueMaxEntries \in Nat /\ RescueMaxBytes \in Nat
    BY LimitsAssumption
  <1> HIDE DEF r
  <1>4. Bounded(r)
    BY <1>1, <1>2, <1>3 DEF Bounded, WithinRescueLimits
  <1> QED BY <1>4 DEF r

(* Saved before every write, loaded after every restart: with a file the   *)
(* cache and its file keep to the limits on entries and on bytes.          *)
THEOREM CacheIsBounded == Spec => []RescueBounded
PROOF
  <1>1. Init => RescueBounded
    BY NoneBounded, BoundedParts DEF Init
  <1> QED BY <1>1, BoundedStep, TypeCorrect, PTL DEF Spec

-----------------------------------------------------------------------------
(* The cache and its file.                                                 *)

Mirrors(d, r) ==
    \A k \in Keys :
        /\ r[k] # None => d[k] # None /\ d[k].frags = r[k].frags /\ d[k].age = r[k].age
        /\ r[k] = None /\ d[k] # None => d[k].age > RescueTTL

LEMMA MirrorParts == FileMirrorsCache <=> (Persist /\ ~unsaved => Mirrors(disk, rescue))
  BY DEF FileMirrorsCache, Mirrors

(* A save that succeeds makes the file the cache's image.                  *)
LEMMA ImageMirrors ==
    ASSUME NEW r, RescueOK(r), NEW a \in [Keys -> Nat]
    PROVE  Mirrors(Image(r, a), r)
PROOF
  <1> SUFFICES ASSUME NEW k \in Keys
               PROVE  /\ r[k] # None => /\ Image(r, a)[k] # None
                                        /\ Image(r, a)[k].frags = r[k].frags
                                        /\ Image(r, a)[k].age = r[k].age
                      /\ r[k] = None /\ Image(r, a)[k] # None => Image(r, a)[k].age > RescueTTL
    BY DEF Mirrors
  <1>1. CASE r[k] = None
    BY <1>1 DEF Image
  <1>2. CASE r[k] # None
    <2>1. Image(r, a)[k] = [frags |-> r[k].frags, age |-> r[k].age, attempt |-> a[k]]
      BY <1>2 DEF Image
    <2>2. r[k] \in CacheRecords
      BY <1>2 DEF RescueOK
    <2>3. Image(r, a)[k] \in FileRecords
      BY <2>1, <2>2 DEF CacheRecords, FileRecords
    <2>4. Image(r, a)[k] # None
      BY <2>3, NoneAssumption
    <2> QED BY <1>2, <2>1, <2>4
  <1> QED BY <1>1, <1>2

(* A file within the limits is loaded whole, but for what is too old.      *)
LEMMA LoadsWhole ==
    ASSUME TypeOK, Bounded(disk), NEW kept, CacheLoaded(kept)
    PROVE  \A k \in Keys :
              /\ rescue'[k] # None <=> disk[k] # None /\ disk[k].age <= RescueTTL
              /\ rescue'[k] # None => rescue'[k].frags = disk[k].frags /\ rescue'[k].age = disk[k].age
PROOF
  <1>1. \A k \in Keys : k \in Loadable => Loaded[k] # None
    <2> SUFFICES ASSUME NEW k \in Keys, k \in Loadable PROVE Loaded[k] # None
      OBVIOUS
    <2>1. disk[k] \in FileRecords
      BY DEF Loadable, TypeOK
    <2>2. Loaded[k] = [frags |-> disk[k].frags, age |-> disk[k].age]
      BY DEF Loaded
    <2>3. Loaded[k] \in CacheRecords
      BY <2>1, <2>2 DEF CacheRecords, FileRecords
    <2> QED BY <2>3, NoneAssumption
  <1>2. Bounded(Loaded)
    BY LoadedSame, BoundedShrink
  <1>3. kept = Occupied(Loaded)
    BY <1>2, SurvivorsWhole DEF CacheLoaded
  <1>4. \A k \in Keys : rescue'[k] = Loaded[k]
    BY <1>3 DEF CacheLoaded, Only, Occupied
  <1>5. \A k \in Keys : Loaded[k] # None <=> k \in Loadable
    BY <1>1, LoadedSame
  <1> QED BY <1>4, <1>5, LoadedSame DEF Loadable

LEMMA MirrorStep ==
    TypeOK /\ TypeOK' /\ RescueBounded /\ FileMirrorsCache /\ [Next]_vars => FileMirrorsCache'
PROOF
  <1> SUFFICES ASSUME TypeOK, TypeOK', RescueBounded, FileMirrorsCache, [Next]_vars, Persist, ~unsaved'
               PROVE  Mirrors(disk', rescue')
    BY DEF FileMirrorsCache, Mirrors
  <1>1. RescueOK(rescue) /\ DiskOK(disk) /\ RescueOK(rescue') /\ attempts' \in [Keys -> Nat]
    BY TypeParts, TypePartsPrimed
  <1>2. ASSUME Save(rescue', attempts') PROVE Mirrors(disk', rescue')
    <2>1. disk' = Image(rescue', attempts')
      BY <1>2 DEF Save
    <2> QED BY <1>1, <2>1, ImageMirrors
  <1>3. CASE CacheIdle
    BY <1>3, MirrorParts DEF CacheIdle
  <1>4. CASE CacheAged
    <2> SUFFICES ASSUME NEW k \in Keys
                 PROVE  /\ rescue'[k] # None => /\ disk'[k] # None
                                                /\ disk'[k].frags = rescue'[k].frags
                                                /\ disk'[k].age = rescue'[k].age
                        /\ rescue'[k] = None /\ disk'[k] # None => disk'[k].age > RescueTTL
      BY DEF Mirrors
    <2>1. Mirrors(disk, rescue)
      BY <1>4, MirrorParts DEF CacheAged
    <2>2. /\ rescue'[k] = None <=> rescue[k] = None
          /\ rescue[k] # None => /\ rescue'[k].frags = rescue[k].frags
                                 /\ rescue'[k].age = Older(rescue[k].age, RescueTTL)
      BY <1>1, <1>4, AgedSame DEF CacheAged
    <2>3. /\ disk'[k] = None <=> disk[k] = None
          /\ disk[k] # None => /\ disk'[k].frags = disk[k].frags
                               /\ disk'[k].age = Older(disk[k].age, RescueTTL)
      BY <1>1, <1>4, AgedSame DEF CacheAged
    <2>4. disk[k] # None /\ disk[k].age > RescueTTL => Older(disk[k].age, RescueTTL) > RescueTTL
      BY DEF Older
    <2> QED BY <2>1, <2>2, <2>3, <2>4 DEF Mirrors
  <1>5. ASSUME NEW k \in Keys, CacheTaken(k) PROVE Mirrors(disk', rescue')
    BY <1>2, <1>5 DEF CacheTaken
  <1>6. ASSUME NEW o \in Orders, NEW kept, CacheSwept(o, kept) PROVE Mirrors(disk', rescue')
    BY <1>2, <1>6 DEF CacheSwept
  <1>7. ASSUME NEW kept, CacheLoaded(kept) PROVE Mirrors(disk', rescue')
    <2>1. Bounded(disk) /\ disk' = disk
      BY <1>7, BoundedParts DEF CacheLoaded
    <2>2. \A k \in Keys : disk[k] # None => disk[k].age \in Nat
      BY <1>1, LimitsAssumption DEF DiskOK, FileRecords
    <2>3. \A k \in Keys :
              /\ rescue'[k] # None <=> disk[k] # None /\ disk[k].age <= RescueTTL
              /\ rescue'[k] # None => rescue'[k].frags = disk[k].frags /\ rescue'[k].age = disk[k].age
      BY <1>7, <2>1, LoadsWhole
    <2> QED BY <2>1, <2>2, <2>3, LimitsAssumption DEF Mirrors
  <1> QED BY <1>3, <1>4, <1>5, <1>6, <1>7, CacheStep

(* Unless the last save failed the file holds the cache, entry for entry:  *)
(* a restart loses nothing but sets in progress and what is too old.       *)
THEOREM FileIsMirror == Spec => []FileMirrorsCache
PROOF
  <1>1. Init => FileMirrorsCache
    BY DEF Init, FileMirrorsCache
  <1> QED BY <1>1, MirrorStep, CacheIsBounded, TypeCorrect, PTL DEF Spec

-----------------------------------------------------------------------------
(* What may make the cache hold less.                                      *)

Shrinks(k) ==
    \/ rescue'[k] # None /\ DOMAIN rescue[k].frags \subseteq DOMAIN rescue'[k].frags
    \/ \E t \in Transmissions : \E i \in Offered(KeyOf[t.msg]) :
          Complete(t.id, t.msg, i) /\ Target(t.id, t.msg).key = k
    \/ rescue[k].age > RescueTTL
    \/ /\ Outgrown
       /\ rescue'[k] = None
       /\ \A j \in Occupied(rescue)' : rescue'[j].age <= rescue[k].age
    \/ Restart /\ (~Persist \/ unsaved)

(* A merge holds what the cache held and what the sets held, no more.      *)
LEMMA MergedHolds ==
    ASSUME TypeOK, NEW o \in Orders, NEW k \in Keys
    PROVE  /\ rescue[k] # None /\ ~(rescue[k].age > RescueTTL) =>
                 /\ Merged(o)[k] # None
                 /\ DOMAIN rescue[k].frags \subseteq DOMAIN Merged(o)[k].frags
                 /\ Merged(o)[k].age \in {0, rescue[k].age}
           /\ Merged(o)[k] # None => rescue[k] # None \/ Merging(k) # {}
           /\ \A i : Merged(o)[k] # None /\ i \in DOMAIN Merged(o)[k].frags =>
                 \/ rescue[k] # None /\ i \in DOMAIN rescue[k].frags
                 \/ \E f \in Merging(k) : i \in DOMAIN sets[f].frags
PROOF
  <1>0. /\ Fresh[k] = rescue[k] \/ Fresh[k] = None
        /\ rescue[k] # None /\ ~(rescue[k].age > RescueTTL) => Fresh[k] = rescue[k]
    BY DEF Fresh, Only, Occupied, StaleRescue
  <1>1. CASE Merging(k) = {}
    <2>1. Merged(o)[k] = Fresh[k]
      BY <1>1 DEF Merged
    <2> QED BY <1>0, <2>1
  <1>2. CASE Merging(k) # {}
    <2>1. Merged(o)[k] = [frags |-> MergedFrags(k, o), age |-> 0]
      BY <1>2 DEF Merged
    <2>2. Merged(o)[k].frags = MergedFrags(k, o) /\ Merged(o)[k].age = 0
      BY <2>1
    <2>3. DOMAIN MergedFrags(k, o) = DOMAIN RescueFrags(Fresh, k) \cup UNION {DOMAIN sets[f].frags : f \in Merging(k)}
      BY DEF MergedFrags
    <2>4. DOMAIN RescueFrags(Fresh, k) = IF Fresh[k] = None THEN {} ELSE DOMAIN Fresh[k].frags
      BY DEF RescueFrags, NoFrags
    <2>5. Merged(o)[k] # None
      BY <1>2, MergedType
    <2> QED BY <1>0, <1>2, <2>2, <2>3, <2>4, <2>5
  <1> QED BY <1>1, <1>2

(* What a sweep evicts, it evicts because the cache outgrew its limits.    *)
LEMMA EvictedOutgrown ==
    ASSUME TypeOK, NEW o \in Orders, NEW kept \in Survivors(Merged(o)), kept # Occupied(Merged(o))
    PROVE  Outgrown
PROOF
  <1> DEFINE r      == Merged(o)
             keys   == Occupied(rescue) \cup {sets[f].key : f \in Expired}
             pairs  == {<<sets[c[1]].key, c[2]>> : c \in HeldBy(Expired)}
             chunks == HeldIn(rescue, Keys) \cup pairs
  <1>1. PICK v \in Occupied(r) \ kept : ~WithinRescueLimits(r, kept \cup {v})
    BY DEF Survivors
  <1> DEFINE S == kept \cup {v}
  <1>2. S \subseteq Occupied(r) /\ S \subseteq Keys
    BY <1>1 DEF Survivors, Occupied
  <1>3. \A f \in Expired : sets[f].key \in Keys
    BY SetType DEF Expired
  <1>4. keys \subseteq Keys
    BY <1>3 DEF Occupied
  <1>5. S \subseteq keys
    <2> SUFFICES ASSUME NEW k \in S PROVE k \in keys
      OBVIOUS
    <2>1. k \in Keys /\ r[k] # None
      BY <1>2 DEF Occupied
    <2>2. rescue[k] # None \/ Merging(k) # {}
      BY <2>1, MergedHolds
    <2> QED BY <2>1, <2>2 DEF Occupied, Merging
  <1>6. HeldIn(r, S) \subseteq chunks
    <2> SUFFICES ASSUME NEW c \in HeldIn(r, S) PROVE c \in chunks
      OBVIOUS
    <2>1. PICK k \in S, i \in AllIndices : c = <<k, i>>
      BY DEF HeldIn
    <2>2. k \in Keys /\ r[k] # None /\ i \in DOMAIN r[k].frags
      BY <1>2, <2>1 DEF HeldIn
    <2>3. CASE rescue[k] # None /\ i \in DOMAIN rescue[k].frags
      <3>1. c \in HeldIn(rescue, Keys)
        BY <2>1, <2>2, <2>3 DEF HeldIn
      <3> QED BY <3>1
    <2>4. CASE \E f \in Merging(k) : i \in DOMAIN sets[f].frags
      <3>1. PICK f \in Merging(k) : i \in DOMAIN sets[f].frags
        BY <2>4
      <3>2. f \in Expired /\ sets[f].key = k
        BY DEF Merging
      <3>3. sets[f] # None
        BY <3>2 DEF Expired, ActiveIds, Active
      <3> DEFINE d == <<f, i>>
      <3>4. d \in Expired \X AllIndices /\ d[1] = f /\ d[2] = i
        BY <3>2
      <3>5. d \in HeldBy(Expired)
        BY <3>1, <3>3, <3>4 DEF HeldBy, HeldIn
      <3>6. c = <<sets[d[1]].key, d[2]>>
        BY <2>1, <3>2, <3>4
      <3> QED BY <3>5, <3>6
    <2> QED BY <2>2, <2>3, <2>4, MergedHolds
  <1>7. /\ IsFiniteSet(keys) /\ Cardinality(keys) \in Nat
        /\ IsFiniteSet(S) /\ Cardinality(S) \in Nat
    BY <1>2, <1>4, KeysFinite
  <1>8. chunks \subseteq Keys \X AllIndices
    <2>1. HeldIn(rescue, Keys) \subseteq Keys \X AllIndices
      BY DEF HeldIn
    <2>2. \A c \in HeldBy(Expired) : c[1] \in Expired /\ c[2] \in AllIndices
      BY DEF HeldBy, HeldIn
    <2>3. pairs \subseteq Keys \X AllIndices
      BY <1>3, <2>2
    <2> QED BY <2>1, <2>3
  <1>9. IsFiniteSet(chunks) /\ Cardinality(chunks) \in Nat
    <2>1. IsFiniteSet(Keys \X AllIndices)
      BY KeysFinite, AllIndicesFinite, FS_Product
    <2> QED BY <1>8, <2>1, FS_Subset, FS_CardinalityType
  <1>10. Cardinality(S) <= Cardinality(keys)
    BY <1>5, <1>7, FS_Subset
  <1>11. Cardinality(HeldIn(r, S)) \in Nat /\ Cardinality(HeldIn(r, S)) <= Cardinality(chunks)
    BY <1>6, <1>7, <1>9, HeldFinite, FS_Subset
  <1>12. RescueMaxEntries \in Nat /\ RescueMaxBytes \in Nat
    BY LimitsAssumption
  <1>13. Cardinality(keys) > RescueMaxEntries \/ Cardinality(chunks) > RescueMaxBytes
    <2> HIDE DEF keys, chunks, S, r
    <2>1. ~(Cardinality(S) <= RescueMaxEntries /\ Cardinality(HeldIn(r, S)) <= RescueMaxBytes)
      BY <1>1 DEF WithinRescueLimits, S
    <2> QED BY <1>7, <1>9, <1>10, <1>11, <1>12, <2>1
  <1> QED BY <1>13 DEF Outgrown

LEMMA ShrinkStep ==
    ASSUME TypeOK, RescueBounded, FileMirrorsCache, Next, NEW k \in Occupied(rescue)
    PROVE  Shrinks(k)
PROOF
  <1>0. k \in Keys /\ rescue[k] # None /\ rescue[k].age \in Nat
    <2>1. k \in Keys /\ rescue[k] # None
      BY DEF Occupied
    <2> QED BY <2>1, LimitsAssumption, TypeParts DEF RescueOK, CacheRecords
  <1>1. ASSUME rescue' = rescue PROVE Shrinks(k)
    BY <1>0, <1>1 DEF Shrinks
  <1>2. CASE Receive
    <2>0. PICK t \in Transmissions : \E i \in Offered(KeyOf[t.msg]) : HandleFragment(t.id, t.msg, i)
      BY <1>2 DEF Receive
    <2>1. PICK i \in Offered(KeyOf[t.msg]) : HandleFragment(t.id, t.msg, i)
      BY <2>0
    <2>2. CASE \/ Refuse(t.id, t.msg) \/ Mismatch(t.id, t.msg)
               \/ OverCap(t.id, t.msg, i) \/ Store(t.id, t.msg, i)
               \/ Jam(t.id, t.msg, i)
      BY <1>1, <2>2 DEF Refuse, Mismatch, OverCap, Store, Jam, Kept
    <2>3. CASE Complete(t.id, t.msg, i)
      <3>1. CASE Target(t.id, t.msg).key = k
        BY <2>3, <3>1 DEF Shrinks
      <3>2. CASE Target(t.id, t.msg).key # k
        <4>1. rescue' = [rescue EXCEPT ![Target(t.id, t.msg).key] = None]
          BY <2>3 DEF Complete
        <4>2. rescue'[k] = rescue[k]
          BY <1>0, <3>2, <4>1, TypeParts DEF RescueOK
        <4> QED BY <1>0, <4>2 DEF Shrinks
      <3> QED BY <3>1, <3>2
    <2> QED BY <2>1, <2>2, <2>3 DEF HandleFragment
  <1>3. CASE Cleanup
    <2> DEFINE changed == StaleRescue # {} \/ Expired # {}
    <2>0. PICK o \in Orders :
             \E kept \in IF changed /\ Persist THEN Survivors(Merged(o)) ELSE {Occupied(Merged(o))} :
                rescue' = Only(Merged(o), kept)
      BY <1>3 DEF Cleanup
    <2>1. PICK kept \in IF changed /\ Persist THEN Survivors(Merged(o)) ELSE {Occupied(Merged(o))} :
                rescue' = Only(Merged(o), kept)
      BY <2>0
    <2>2. CASE rescue[k].age > RescueTTL
      BY <2>2 DEF Shrinks
    <2>3. CASE ~(rescue[k].age > RescueTTL)
      <3>1. /\ Merged(o)[k] # None
            /\ DOMAIN rescue[k].frags \subseteq DOMAIN Merged(o)[k].frags
            /\ Merged(o)[k].age \in {0, rescue[k].age}
        BY <1>0, <2>3, MergedHolds
      <3>2. CASE k \in kept
        <4>1. rescue'[k] = Merged(o)[k]
          BY <1>0, <2>1, <3>2 DEF Only
        <4> QED BY <3>1, <4>1 DEF Shrinks
      <3>3. CASE k \notin kept
        <4>1. k \in Occupied(Merged(o))
          BY <1>0, <3>1 DEF Occupied
        <4>2. kept \in Survivors(Merged(o)) /\ kept # Occupied(Merged(o))
          BY <2>1, <3>3, <4>1
        <4>3. Outgrown
          BY <4>2, EvictedOutgrown
        <4>4. rescue'[k] = None
          BY <1>0, <2>1, <3>3 DEF Only
        <4>5. \A j \in Occupied(rescue)' : rescue'[j].age <= rescue[k].age
          <5> SUFFICES ASSUME NEW j \in Occupied(rescue)' PROVE rescue'[j].age <= rescue[k].age
            OBVIOUS
          <5>1. j \in Keys /\ rescue'[j] # None
            BY DEF Occupied
          <5>2. j \in kept /\ rescue'[j] = Merged(o)[j]
            BY <2>1, <5>1 DEF Only
          <5>3. Merged(o)[k].age >= Merged(o)[j].age
            BY <3>3, <4>1, <4>2, <5>2 DEF Survivors
          <5>4. Merged(o)[j].age \in Nat
            <6>1. RescueOK(Merged(o))
              BY MergedType
            <6> QED BY <5>1, <5>2, <6>1, LimitsAssumption DEF RescueOK, CacheRecords
          <5> QED BY <1>0, <3>1, <5>2, <5>3, <5>4
        <4> QED BY <4>3, <4>4, <4>5 DEF Shrinks
      <3> QED BY <3>2, <3>3
    <2> QED BY <2>2, <2>3
  <1>4. CASE Tick
    <2>1. rescue' = Aged(rescue) /\ RescueOK(rescue)
      BY <1>4, TypeParts DEF Tick
    <2>2. rescue'[k] # None /\ rescue'[k].frags = rescue[k].frags
      BY <1>0, <2>1, AgedSame
    <2> QED BY <2>2 DEF Shrinks
  <1>5. CASE Restart
    <2>1. CASE ~Persist \/ unsaved
      BY <1>5, <2>1 DEF Shrinks
    <2>2. CASE Persist /\ ~unsaved
      <3>1. PICK kept \in Survivors(Loaded) : rescue' = Only(Loaded, kept)
        BY <1>5 DEF Restart, Loaded
      <3>2. CacheLoaded(kept)
        BY <1>5, <3>1 DEF Restart, CacheLoaded
      <3>3. Bounded(disk) /\ Mirrors(disk, rescue)
        BY <2>2, BoundedParts, MirrorParts
      <3>4. disk[k] # None /\ disk[k].frags = rescue[k].frags /\ disk[k].age = rescue[k].age
        BY <1>0, <3>3 DEF Mirrors
      <3>5. CASE rescue[k].age > RescueTTL
        BY <3>5 DEF Shrinks
      <3>6. CASE ~(rescue[k].age > RescueTTL)
        <4>1. disk[k].age <= RescueTTL
          BY <1>0, <3>4, <3>6, LimitsAssumption
        <4>2. rescue'[k] # None /\ rescue'[k].frags = disk[k].frags
          BY <1>0, <3>2, <3>3, <3>4, <4>1, LoadsWhole
        <4> QED BY <3>4, <4>2 DEF Shrinks
      <3> QED BY <3>5, <3>6
    <2> QED BY <2>1, <2>2
  <1> QED BY <1>2, <1>3, <1>4, <1>5 DEF Next

(* The cache loses chunks only to a packet that was reassembled, to age,   *)
(* to its limits with the oldest first, or to a save that failed.          *)
THEOREM CacheNeverForgets == Spec => RescueNeverForgets
PROOF
  <1>1. TypeOK /\ RescueBounded /\ FileMirrorsCache /\ [Next]_vars
           => [\A k \in Occupied(rescue) : Shrinks(k)]_vars
    BY ShrinkStep
  <1>2. RescueNeverForgets <=> [][\A k \in Occupied(rescue) : Shrinks(k)]_vars
    BY DEF RescueNeverForgets, Shrinks
  <1> QED BY <1>1, <1>2, TypeCorrect, CacheIsBounded, FileIsMirror, PTL DEF Spec

-----------------------------------------------------------------------------
(* Packets are made of the chunks of one message.                          *)

(* No two messages are of one sender, size and type, and no two that are   *)
(* transmitted under one set id are of one size and type: set ids are drawn *)
(* at random by their senders, and their sender is not compared.           *)
Distinguished ==
    /\ \A m, n \in Msgs : KeyOf[m] = KeyOf[n] => m = n
    /\ \A s, t \in Transmissions :
          (/\ s.id = t.id
           /\ KeyOf[s.msg].total = KeyOf[t.msg].total
           /\ KeyOf[s.msg].type = KeyOf[t.msg].type) => s.msg = t.msg

OfKey(frags, k) == \A i \in DOMAIN frags : KeyOf[frags[i]] = k

CacheOfKey(r) == \A k \in Keys : r[k] # None => OfKey(r[k].frags, k)

(* A set's chunks are of its key, and so is what is transmitted under its  *)
(* id with its shape.                                                      *)
SetOfKey(f, s) ==
    /\ OfKey(s.frags, s.key)
    /\ \E m \in Msgs : [id |-> f, msg |-> m] \in Transmissions /\ KeyOf[m] = s.key

SetsOfKey(S) == \A f \in FragIds : S[f] # None => SetOfKey(f, S[f])

PureInv == SetsOfKey(sets) /\ CacheOfKey(rescue) /\ CacheOfKey(disk)

LEMMA MergedOfKey ==
    ASSUME TypeOK, NEW o \in Orders, CacheOfKey(rescue), SetsOfKey(sets)
    PROVE  CacheOfKey(Merged(o))
PROOF
  <1> SUFFICES ASSUME NEW k \in Keys, Merged(o)[k] # None
               PROVE  OfKey(Merged(o)[k].frags, k)
    BY DEF CacheOfKey
  <1>1. Fresh[k] = rescue[k] \/ Fresh[k] = None
    BY DEF Fresh, Only
  <1>2. CASE Merging(k) = {}
    BY <1>1, <1>2 DEF Merged, CacheOfKey
  <1>3. CASE Merging(k) # {}
    <2> DEFINE new == UNION {DOMAIN sets[f].frags : f \in Merging(k)}
    <2>1. Merged(o)[k] = [frags |-> MergedFrags(k, o), age |-> 0]
      BY <1>3 DEF Merged
    <2>2. ASSUME NEW i \in new
          PROVE  KeyOf[sets[LastHolder(k, i, o)].frags[i]] = k
      <3> DEFINE f == LastHolder(k, i, o)
      <3>1. f \in Merging(k) /\ i \in DOMAIN sets[f].frags
        BY LastHolderType
      <3>2. f \in FragIds /\ sets[f] # None /\ sets[f].key = k
        BY <3>1 DEF Merging, Expired, ActiveIds, Active
      <3> QED BY <3>1, <3>2 DEF SetsOfKey, SetOfKey, OfKey
    <2>3. ASSUME NEW i \in DOMAIN RescueFrags(Fresh, k)
          PROVE  KeyOf[Fresh[k].frags[i]] = k
      <3>1. Fresh[k] # None
        BY NoFragsType DEF RescueFrags
      <3> QED BY <1>1, <3>1 DEF RescueFrags, CacheOfKey, OfKey
    <2>4. OfKey(MergedFrags(k, o), k)
      BY <2>2, <2>3 DEF OfKey, MergedFrags
    <2> QED BY <2>1, <2>4
  <1> QED BY <1>2, <1>3

LEMMA OnlyOfKey ==
    ASSUME NEW r, CacheOfKey(r), NEW S
    PROVE  CacheOfKey(Only(r, S))
  BY DEF CacheOfKey, Only

LEMMA ImageOfKey ==
    ASSUME NEW r, CacheOfKey(r), NEW a
    PROVE  CacheOfKey(Image(r, a))
PROOF
  <1> SUFFICES ASSUME NEW k \in Keys, Image(r, a)[k] # None
               PROVE  OfKey(Image(r, a)[k].frags, k)
    BY DEF CacheOfKey
  <1>1. r[k] # None /\ Image(r, a)[k] = [frags |-> r[k].frags, age |-> r[k].age, attempt |-> a[k]]
    BY DEF Image
  <1>2. Image(r, a)[k].frags = r[k].frags
    BY <1>1
  <1> QED BY <1>1, <1>2 DEF CacheOfKey

LEMMA CachePureStep ==
    ASSUME TypeOK, PureInv, [Next]_vars
    PROVE  CacheOfKey(rescue') /\ CacheOfKey(disk')
PROOF
  <1>0. CacheOfKey(rescue) /\ CacheOfKey(disk) /\ SetsOfKey(sets)
    BY DEF PureInv
  <1>1. ASSUME CacheOfKey(rescue'), Save(rescue', attempts') PROVE CacheOfKey(disk')
    BY <1>0, <1>1, SavedOr, ImageOfKey
  <1>2. CASE CacheIdle
    BY <1>0, <1>2 DEF CacheIdle
  <1>3. CASE CacheAged
    BY <1>0, <1>3, AgedSame, TypeParts DEF CacheAged, CacheOfKey
  <1>4. ASSUME NEW k \in Keys, CacheTaken(k) PROVE CacheOfKey(rescue') /\ CacheOfKey(disk')
    <2>1. CacheOfKey(rescue')
      BY <1>0, <1>4, TypeParts DEF CacheTaken, CacheOfKey, RescueOK
    <2> QED BY <1>1, <1>4, <2>1 DEF CacheTaken
  <1>5. ASSUME NEW o \in Orders, NEW kept, CacheSwept(o, kept)
        PROVE  CacheOfKey(rescue') /\ CacheOfKey(disk')
    <2>1. CacheOfKey(rescue')
      BY <1>0, <1>5, MergedOfKey, OnlyOfKey DEF CacheSwept
    <2> QED BY <1>1, <1>5, <2>1 DEF CacheSwept
  <1>6. ASSUME NEW kept, CacheLoaded(kept) PROVE CacheOfKey(rescue') /\ CacheOfKey(disk')
    <2>1. CacheOfKey(Loaded)
      BY <1>0, LoadedSame DEF CacheOfKey
    <2> QED BY <1>0, <1>6, <2>1, OnlyOfKey DEF CacheLoaded
  <1> QED BY <1>2, <1>3, <1>4, <1>5, <1>6, CacheStep

(* The set a chunk is put into is of the chunk's key, before and after.    *)
LEMMA TargetOfKey ==
    ASSUME Distinguished, TypeOK, PureInv, NEW t \in Transmissions,
           NEW i \in Offered(KeyOf[t.msg]), Accepted(t.id, t.msg)
    PROVE  /\ Target(t.id, t.msg).key = KeyOf[t.msg]
           /\ OfKey(PutChunk(Target(t.id, t.msg).frags, i, t.msg), KeyOf[t.msg])
PROOF
  <1> DEFINE f == t.id
             m == t.msg
             k == KeyOf[m]
  <1>0. /\ f \in FragIds /\ m \in Msgs /\ k \in Keys
        /\ [id |-> f, msg |-> m] = t
    BY MsgsAssumption DEF Keys
  <1>1. Target(f, m).key = k /\ OfKey(Target(f, m).frags, k)
    <2>1. CASE Active(f)
      <3>1. SameShape(f, m) /\ Target(f, m) = sets[f] /\ SetOfKey(f, sets[f])
        BY <1>0, <2>1 DEF Accepted, Target, PureInv, SetsOfKey, Active
      <3>2. PICK n \in Msgs : [id |-> f, msg |-> n] \in Transmissions /\ KeyOf[n] = sets[f].key
        BY <3>1 DEF SetOfKey
      <3> DEFINE s == [id |-> f, msg |-> n]
      <3>3. s.id = t.id /\ s.msg = n /\ s \in Transmissions
        BY <3>2
      <3>4. KeyOf[n].total = KeyOf[m].total /\ KeyOf[n].type = KeyOf[m].type
        BY <3>1, <3>2 DEF SameShape
      <3>5. n = m
        BY <3>3, <3>4 DEF Distinguished
      <3> QED BY <3>1, <3>2, <3>5 DEF SetOfKey
    <2>2. CASE ~Active(f)
      <3>1. Target(f, m) = Opened(k)
        BY <2>2 DEF Target
      <3>2. OfKey(Inheritable(k), k)
        BY <1>0, NoFragsType DEF Inheritable, PureInv, CacheOfKey, OfKey
      <3> QED BY <3>1, <3>2 DEF Opened
    <2> QED BY <2>1, <2>2
  <1>2. OfKey(PutChunk(Target(f, m).frags, i, m), k)
    BY <1>1 DEF OfKey, PutChunk
  <1> QED BY <1>1, <1>2

LEMMA PureSetsStep ==
    ASSUME Distinguished, TypeOK, PureInv, [Next]_vars
    PROVE  SetsOfKey(sets')
PROOF
  <1>0. SetsOfKey(sets) /\ sets \in [FragIds -> SetRecords \cup {None}]
    BY DEF PureInv, TypeOK
  <1>1. ASSUME \A f \in FragIds : sets'[f] = sets[f] \/ sets'[f] = None
        PROVE  SetsOfKey(sets')
    BY <1>0, <1>1 DEF SetsOfKey
  <1>2. CASE Receive
    <2>1. PICK t \in Transmissions : \E i \in Offered(KeyOf[t.msg]) : HandleFragment(t.id, t.msg, i)
      BY <1>2 DEF Receive
    <2>2. PICK i \in Offered(KeyOf[t.msg]) : HandleFragment(t.id, t.msg, i)
      BY <2>1
    <2> DEFINE f == t.id
               m == t.msg
               s == Target(f, m)
    <2>3. f \in FragIds /\ m \in Msgs /\ [id |-> f, msg |-> m] = t
      BY MsgsAssumption
    <2>4. CASE Refuse(f, m) \/ Mismatch(f, m) \/ OverCap(f, m, i) \/ Complete(f, m, i)
      <3>1. \A g \in FragIds : sets'[g] = sets[g] \/ sets'[g] = None
        BY <1>0, <2>3, <2>4 DEF Refuse, Mismatch, OverCap, Complete
      <3> QED BY <1>1, <3>1
    <2>5. CASE Store(f, m, i) \/ Jam(f, m, i)
      <3> DEFINE n == [s EXCEPT !.idle = 0, !.frags = PutChunk(s.frags, i, m)]
      <3>1. s \in SetRecords
        BY <2>3, TargetType
      <3>2. sets'[f] = n /\ \A g \in FragIds \ {f} : sets'[g] = sets[g]
        BY <1>0, <2>3, <2>5 DEF Store, Jam, Kept
      <3>3. s.key = KeyOf[m] /\ OfKey(PutChunk(s.frags, i, m), KeyOf[m])
        BY <2>5, TargetOfKey DEF Store, Jam, Kept
      <3>4. n.key = s.key /\ n.frags = PutChunk(s.frags, i, m)
        BY <3>1 DEF SetRecords
      <3>5. SetOfKey(f, n)
        BY <2>3, <3>3, <3>4 DEF SetOfKey
      <3> HIDE DEF n
      <3> QED BY <1>0, <2>3, <3>2, <3>5 DEF SetsOfKey
    <2> QED BY <2>2, <2>4, <2>5 DEF HandleFragment
  <1>3. CASE Cleanup
    <2>1. \A f \in FragIds : sets'[f] = sets[f] \/ sets'[f] = None
      BY <1>3 DEF Cleanup
    <2> QED BY <1>1, <2>1
  <1>4. CASE Tick
    <2>1. \A f \in FragIds : sets'[f] # None => SetOfKey(f, sets'[f])
      BY <1>0, <1>4, TickKeepsFrags DEF SetsOfKey, SetOfKey
    <2> QED BY <2>1 DEF SetsOfKey
  <1>5. CASE Restart
    <2>1. \A f \in FragIds : sets'[f] = None
      BY <1>5 DEF Restart
    <2> QED BY <1>1, <2>1
  <1>6. CASE UNCHANGED vars
    <2>1. \A f \in FragIds : sets'[f] = sets[f]
      BY <1>6 DEF vars
    <2> QED BY <1>1, <2>1
  <1> QED BY <1>2, <1>3, <1>4, <1>5, <1>6 DEF Next

LEMMA PureEvents ==
    ASSUME Distinguished, TypeOK, PureInv, ReassembledPure, [Next]_vars
    PROVE  ReassembledPure'
PROOF
  <1> USE DEF ReassembledPure
  <1>1. ASSUME \A e \in events' : e.type # "packet"
        PROVE  ReassembledPure'
    BY <1>1
  <1>2. CASE Receive
    <2>1. PICK t \in Transmissions : \E i \in Offered(KeyOf[t.msg]) : HandleFragment(t.id, t.msg, i)
      BY <1>2 DEF Receive
    <2>2. PICK i \in Offered(KeyOf[t.msg]) : HandleFragment(t.id, t.msg, i)
      BY <2>1
    <2> DEFINE f == t.id
               m == t.msg
               s == Target(f, m)
               whole == PutChunk(s.frags, i, m)
    <2>3. f \in FragIds /\ m \in Msgs
      BY MsgsAssumption
    <2>4. \A e \in StartedEvent(f, m) : e.type # "packet"
      BY DEF StartedEvent
    <2>5. CASE Refuse(f, m) \/ Mismatch(f, m) \/ OverCap(f, m, i) \/ Store(f, m, i)
               \/ Jam(f, m, i)
      <3>1. events' = {} \/ events' = StartedEvent(f, m)
        BY <2>5 DEF Refuse, Mismatch, OverCap, Store, Jam, Kept
      <3> QED BY <1>1, <2>4, <3>1
    <2>6. CASE Complete(f, m, i)
      <3>1. s.key = KeyOf[m] /\ OfKey(whole, KeyOf[m])
        BY <2>6, TargetOfKey DEF Complete
      <3>2. s.key \in Keys /\ s.frags \in FragsOf(s.key)
        BY <2>3, TargetType
      <3>3. \A j \in DOMAIN whole : whole[j] \in Msgs
        <4>1. s.frags \in [DOMAIN s.frags -> Msgs]
          BY <3>2, FragsOfType
        <4> HIDE DEF s
        <4> QED BY <2>3, <4>1 DEF PutChunk
      <3>4. \A j \in DOMAIN whole : whole[j] = m
        BY <2>3, <3>1, <3>3 DEF OfKey, Distinguished
      <3>5. PICK ok \in Decodes(whole) :
              events' = StartedEvent(f, m) \cup
                 IF ok THEN {[type |-> "packet", id |-> f, key |-> s.key, frags |-> whole]}
                            \cup IF s.attempt > 1
                                 THEN {[type |-> "completed", id |-> f, attempt |-> s.attempt]}
                                 ELSE {}
                       ELSE {}
        BY <2>6 DEF Complete
      <3>6. ASSUME NEW e \in events', e.type = "packet"
            PROVE  e.frags = whole
        BY <2>4, <3>5, <3>6
      <3> QED BY <2>3, <3>4, <3>6
    <2> QED BY <2>2, <2>5, <2>6 DEF HandleFragment
  <1>3. CASE Cleanup
    <2>1. PICK o \in Orders : events' = Notices(o)
      BY <1>3 DEF Cleanup
    <2> QED BY <1>1, <2>1 DEF Notices
  <1>4. CASE Tick \/ Restart
    BY <1>1, <1>4 DEF Tick, Restart
  <1>5. CASE UNCHANGED vars
    BY <1>5 DEF vars
  <1> QED BY <1>2, <1>3, <1>4, <1>5 DEF Next

(* What is handed on as a packet is made of the chunks of one message,     *)
(* inherited from earlier attempts or merged in the cache as they may be,  *)
(* and through restarts, as long as no two messages look alike to the      *)
(* manager: same sender, size and type, or same set id, size and type.     *)
THEOREM PacketsPure ==
    ASSUME Distinguished
    PROVE  Spec => []ReassembledPure
PROOF
  <1>1. Init => PureInv /\ ReassembledPure
    BY DEF Init, PureInv, SetsOfKey, CacheOfKey, ReassembledPure
  <1>2. TypeOK /\ PureInv /\ ReassembledPure /\ [Next]_vars => PureInv' /\ ReassembledPure'
    BY CachePureStep, PureSetsStep, PureEvents DEF PureInv
  <1> QED BY <1>1, <1>2, TypeCorrect, PTL DEF Spec

=============================================================================
