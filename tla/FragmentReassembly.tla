------------------------- MODULE FragmentReassembly -------------------------
(***************************************************************************)
(* Inbound reassembly of fragmented packets: FragmentManager in            *)
(* server/bitchatd/mesh/fragment_manager.py.                               *)
(*                                                                         *)
(* A sender cuts a packet into chunks and labels them with a fresh set id; *)
(* a retransmission of the packet uses another id.  The manager collects   *)
(* chunks per id, gives up on a set that hears nothing for IdleLimit, and  *)
(* keeps a nearly complete set in a rescue cache, persisted to disk, from  *)
(* which the next attempt of the same (sender, total, type) inherits.      *)
(*                                                                         *)
(* Abstractions: the bytes of chunk i of message m are m itself (the index *)
(* is the place it is stored under), so every chunk counts one unit of     *)
(* size; the clock is a set of saturating ages; the whole body of a        *)
(* synchronous handler is one step, as it runs under the lock on the       *)
(* event loop.                                                             *)
(***************************************************************************)
EXTENDS Integers, FiniteSets

CONSTANTS
    FragIds,            \* fragment set ids
    Msgs,               \* messages: the contents a sender may transmit
    KeyOf,              \* [Msgs -> [sender, total, type]]: the rescue key
    Transmissions,      \* records [id, msg]: which set ids carry which message
    None,               \* no set, no cache entry
    MaxFragmentsPerId,  \* constants.py: MAX_FRAGMENTS_PER_ID
    MaxActiveSets,      \* constants.py: MAX_ACTIVE_FRAGMENT_SETS
    MaxSetBytes,        \* constants.py: MAX_FRAGMENT_TOTAL_BYTES, in chunks
    MaxGlobalBytes,     \* constants.py: MAX_GLOBAL_FRAGMENT_BYTES, in chunks
    RescueNum,          \* _RESCUE_MIN_FRACTION = RescueNum / RescueDen
    RescueDen,
    RescueMaxEntries,   \* _RESCUE_MAX_ENTRIES
    RescueMaxBytes,     \* _RESCUE_MAX_BYTES, in chunks
    IdleLimit,          \* _inactivity_limit_ms, in ticks
    RescueTTL,          \* _RESCUE_TTL_MS, in ticks
    Persist,            \* whether a rescue_cache_path is configured
    Strays,             \* bound on the index values past the end that arrive
    MaxAttempts         \* bound on the attempts made for one key

Keys == {KeyOf[m] : m \in Msgs}

ASSUME MsgsAssumption ==
    /\ IsFiniteSet(FragIds)
    /\ IsFiniteSet(Msgs)
    /\ \A m \in Msgs : KeyOf[m].total \in Nat \ {0}
    /\ Transmissions \subseteq [id : FragIds, msg : Msgs]

ASSUME LimitsAssumption ==
    /\ {MaxFragmentsPerId, MaxActiveSets, MaxSetBytes, MaxGlobalBytes} \subseteq Nat
    /\ {RescueMaxEntries, RescueMaxBytes, IdleLimit, RescueTTL, Strays, MaxAttempts} \subseteq Nat
    /\ RescueNum \in Nat \ {0} /\ RescueDen \in Nat \ {0}
    /\ Persist \in BOOLEAN

VARIABLES
    sets,        \* _sets: id -> [key, attempt, idle, frags] or None
    globalBytes, \* _global_bytes
    rescue,      \* _rescue and _rescue_ts: key -> [frags, age] or None
    attempts,    \* _attempt_count, 0 when absent
    disk,        \* the rescue cache file: key -> [frags, age, attempt] or None
    events,      \* what the last handler call returned or called back
    unsaved      \* history: the last save of the cache did not reach the disk

vars == <<sets, globalBytes, rescue, attempts, disk, events, unsaved>>

-----------------------------------------------------------------------------
(* Sets of chunks and the sizes they add up to.                            *)

Indices(k) == 0 .. k.total - 1

(* The indices a fragment may carry: the header's field is never compared  *)
(* with the total.                                                         *)
Offered(k) == 0 .. k.total - 1 + Strays

NoFrags == [i \in {} |-> None]

PutChunk(frags, i, m) ==
    [j \in DOMAIN frags \cup {i} |-> IF j = i THEN m ELSE frags[j]]

Size(frags) == Cardinality(DOMAIN frags)

Active(f) == sets[f] # None

ActiveIds == {f \in FragIds : Active(f)}

AllIndices == UNION {Offered(k) : k \in Keys}

HeldIn(s, D) ==
    {c \in D \X AllIndices : s[c[1]] # None /\ c[2] \in DOMAIN s[c[1]].frags}

HeldBy(D) == HeldIn(sets, D)

Floor0(n) == IF n < 0 THEN 0 ELSE n

Occupied(r) == {k \in Keys : r[k] # None}

RescueFrags(r, k) == IF r[k] = None THEN NoFrags ELSE r[k].frags

(* A partial set is worth keeping from three quarters on.                  *)
WorthKeeping(n, total) == RescueDen * n >= RescueNum * total

-----------------------------------------------------------------------------
(* The rescue cache: eviction, saving and loading.                         *)

WithinRescueLimits(r, S) ==
    /\ Cardinality(S) <= RescueMaxEntries
    /\ Cardinality(HeldIn(r, S)) <= RescueMaxBytes

(* Mutant: nothing is evicted.                                             *)
SurvivorsAll(r) == {Occupied(r)}

(* Oldest entries go, one at a time, until the rest is within the limits:  *)
(* the entries that survive are the youngest, and the last one to go had   *)
(* to go.                                                                  *)
Survivors(r) ==
    {S \in SUBSET Occupied(r) :
        LET gone == Occupied(r) \ S IN
        /\ WithinRescueLimits(r, S)
        /\ \A v \in gone, s \in S : r[v].age >= r[s].age
        /\ gone # {} => \E v \in gone :
              /\ \A w \in gone : r[w].age >= r[v].age
              /\ ~WithinRescueLimits(r, S \cup {v})}

Only(r, S) == [k \in Keys |-> IF k \in S THEN r[k] ELSE None]

Image(r, a) ==
    [k \in Keys |-> IF r[k] = None THEN None
                    ELSE [frags |-> r[k].frags, age |-> r[k].age, attempt |-> a[k]]]

(* A save writes the file by rename: it happens or it does not (an OSError *)
(* is logged and swallowed; a crash before it leaves the old file).        *)
Save(r, a) ==
    IF Persist
    THEN \E ok \in BOOLEAN :
            /\ disk' = IF ok THEN Image(r, a) ELSE disk
            /\ unsaved' = ~ok
    ELSE UNCHANGED <<disk, unsaved>>

(* Mutant: an entry just at its time to live is not loaded.                *)
LoadableYounger == {k \in Keys : disk[k] # None /\ disk[k].age < RescueTTL}

Loadable == {k \in Keys : disk[k] # None /\ disk[k].age <= RescueTTL}

Init ==
    /\ sets = [f \in FragIds |-> None]
    /\ globalBytes = 0
    /\ rescue = [k \in Keys |-> None]
    /\ attempts = [k \in Keys |-> 0]
    /\ disk = [k \in Keys |-> None]
    /\ events = {}
    /\ unsaved = FALSE

(* The process stops at any point between two handlers and starts again:   *)
(* partial sets are lost, the cache comes back from the file.              *)
Restart ==
    LET loaded == [k \in Keys |-> IF k \in Loadable
                                  THEN [frags |-> disk[k].frags, age |-> disk[k].age]
                                  ELSE None]
    IN \E kept \in Survivors(loaded) :
        /\ rescue' = Only(loaded, kept)
        /\ attempts' = [k \in Keys |-> IF k \in kept THEN disk[k].attempt ELSE 0]
        /\ sets' = [f \in FragIds |-> None]
        /\ globalBytes' = 0
        /\ events' = {}
        /\ unsaved' = FALSE
        /\ UNCHANGED disk

-----------------------------------------------------------------------------
(* A fragment arrives.                                                     *)

(* Mutant: the type of the set is not compared.                            *)
SameShapeTotalOnly(f, m) == sets[f].key.total = KeyOf[m].total

SameShape(f, m) == /\ sets[f].key.total = KeyOf[m].total
                   /\ sets[f].key.type = KeyOf[m].type

Inheritable(k) ==
    IF rescue[k] # None /\ rescue[k].age < RescueTTL THEN rescue[k].frags ELSE NoFrags

Opened(k) == [key |-> k, attempt |-> attempts[k] + 1, idle |-> 0, frags |-> Inheritable(k)]

(* The set a chunk is put into, and the byte total once that set is open.  *)
Target(f, m) == IF Active(f) THEN sets[f] ELSE Opened(KeyOf[m])

(* Mutant: inherited chunks are not counted.                               *)
BytesOpenForgotten(f, m) == globalBytes

BytesOpen(f, m) == IF Active(f) THEN globalBytes
                   ELSE globalBytes + Size(Inheritable(KeyOf[m]))

Count(f, m) ==
    attempts' = IF Active(f) THEN attempts ELSE [attempts EXCEPT ![KeyOf[m]] = @ + 1]

Growth(s, i) == IF i \in DOMAIN s.frags THEN 0 ELSE 1

(* Mutant: the global cap is checked without the inherited chunks.         *)
FitsBeforeInheriting(f, m, i) ==
    LET s == Target(f, m) IN
    /\ Size(s.frags) + Growth(s, i) <= MaxSetBytes
    /\ globalBytes + Growth(s, i) <= MaxGlobalBytes

Fits(f, m, i) ==
    LET s == Target(f, m) IN
    /\ Size(s.frags) + Growth(s, i) <= MaxSetBytes
    /\ BytesOpen(f, m) + Growth(s, i) <= MaxGlobalBytes

(* The fragment is neither refused for its total nor, opening a set, for   *)
(* the number of active sets.                                              *)
Accepted(f, m) ==
    /\ KeyOf[m].total <= MaxFragmentsPerId
    /\ IF Active(f) THEN SameShape(f, m)
       ELSE /\ Cardinality(ActiveIds) < MaxActiveSets
            /\ attempts[KeyOf[m]] < MaxAttempts

(* Mutant: completeness is tested before the chunk is stored.              *)
CompletesLate(f, m, i) == Size(Target(f, m).frags) = Target(f, m).key.total

(* Chunks are counted, whatever their indices.                             *)
Completes(f, m, i) ==
    Size(PutChunk(Target(f, m).frags, i, m)) = Target(f, m).key.total

(* They join into a packet only if they are the chunks 0 .. total - 1.     *)
Joins(frags, k) == DOMAIN frags = Indices(k)

StartedEvent(f, m) ==
    LET s == Opened(KeyOf[m]) IN
    IF ~Active(f) /\ s.frags # NoFrags
    THEN {[type |-> "started", id |-> f, attempt |-> s.attempt]}
    ELSE {}

Refuse(f, m) ==
    /\ \/ KeyOf[m].total > MaxFragmentsPerId
       \/ /\ ~Active(f)
          /\ Cardinality(ActiveIds) >= MaxActiveSets
    /\ events' = {}
    /\ UNCHANGED <<sets, globalBytes, rescue, attempts, disk, unsaved>>

(* An active set of another shape under this id: the set is thrown away.   *)
Mismatch(f, m) ==
    /\ KeyOf[m].total <= MaxFragmentsPerId
    /\ Active(f) /\ ~SameShape(f, m)
    /\ sets' = [sets EXCEPT ![f] = None]
    /\ globalBytes' = Floor0(globalBytes - Size(sets[f].frags))
    /\ events' = {}
    /\ UNCHANGED <<rescue, attempts, disk, unsaved>>

(* The chunk exceeds a size cap: its set is removed, a new set included    *)
(* (the test that would spare it compares an id with chunk indices).       *)
OverCap(f, m, i) ==
    /\ Accepted(f, m)
    /\ ~Fits(f, m, i)
    /\ Count(f, m)
    /\ sets' = [sets EXCEPT ![f] = None]
    /\ globalBytes' = Floor0(BytesOpen(f, m) - Size(Target(f, m).frags))
    /\ events' = {}
    /\ UNCHANGED <<rescue, disk, unsaved>>

Kept(f, m, i) ==
    /\ sets' = [sets EXCEPT ![f] = [Target(f, m) EXCEPT !.idle = 0,
                                                        !.frags = PutChunk(@, i, m)]]
    /\ globalBytes' = Floor0(BytesOpen(f, m) + Growth(Target(f, m), i))

Store(f, m, i) ==
    /\ Accepted(f, m)
    /\ Fits(f, m, i)
    /\ ~Completes(f, m, i)
    /\ Count(f, m)
    /\ Kept(f, m, i)
    /\ events' = StartedEvent(f, m)
    /\ UNCHANGED <<rescue, disk, unsaved>>

(* As many chunks as the total, one of them past the end: the join raises  *)
(* KeyError, the handler is left with the chunk stored and no callback     *)
(* made, and the set stays until it expires.                               *)
Jam(f, m, i) ==
    /\ Accepted(f, m)
    /\ Fits(f, m, i)
    /\ Completes(f, m, i)
    /\ ~Joins(PutChunk(Target(f, m).frags, i, m), Target(f, m).key)
    /\ Count(f, m)
    /\ Kept(f, m, i)
    /\ events' = {}
    /\ UNCHANGED <<rescue, disk, unsaved>>

(* Chunks of one message decode to it; a mixture may decode to nothing.    *)
Decodes(frags) ==
    IF \E m \in Msgs : \A i \in DOMAIN frags : frags[i] = m THEN {TRUE} ELSE BOOLEAN

(* The last chunk: the packet is handed on, every other set of the same    *)
(* key is purged, and the key's rescue entry is dropped and saved away;    *)
(* its attempt count stays.                                                *)
Complete(f, m, i) ==
    LET s     == Target(f, m)
        whole == PutChunk(s.frags, i, m)
        stale == {g \in ActiveIds \ {f} : sets[g].key = s.key}
    IN
    /\ Accepted(f, m)
    /\ Fits(f, m, i)
    /\ Completes(f, m, i)
    /\ Joins(whole, s.key)
    /\ Count(f, m)
    /\ sets' = [g \in FragIds |-> IF g \in stale \cup {f} THEN None ELSE sets[g]]
    /\ globalBytes' = Floor0(BytesOpen(f, m) + Growth(s, i) - Size(whole)
                               - Cardinality(HeldBy(stale)))
    /\ rescue' = [rescue EXCEPT ![s.key] = None]
    /\ IF rescue[s.key] # None THEN Save(rescue', attempts') ELSE UNCHANGED <<disk, unsaved>>
    /\ \E ok \in Decodes(whole) :
          events' = StartedEvent(f, m) \cup
             IF ok THEN {[type |-> "packet", id |-> f, key |-> s.key, frags |-> whole]}
                        \cup IF s.attempt > 1
                             THEN {[type |-> "completed", id |-> f, attempt |-> s.attempt]}
                             ELSE {}
                   ELSE {}

HandleFragment(f, m, i) ==
    \/ Refuse(f, m)
    \/ Mismatch(f, m)
    \/ OverCap(f, m, i)
    \/ Store(f, m, i)
    \/ Jam(f, m, i)
    \/ Complete(f, m, i)

Receive == \E t \in Transmissions : \E i \in Offered(KeyOf[t.msg]) :
               HandleFragment(t.id, t.msg, i)

-----------------------------------------------------------------------------
(* The periodic cleanup.                                                   *)

StaleRescue == {k \in Occupied(rescue) : rescue[k].age > RescueTTL}

(* Mutant: a set expires one unit later than the clock of a set runs.      *)
ExpiredLate == {f \in ActiveIds : sets[f].idle > IdleLimit + 1}

Expired == {f \in ActiveIds : sets[f].idle > IdleLimit}

(* The order in which the expired sets are visited.                        *)
Orders == {o \in [Expired -> 1 .. Cardinality(Expired)] :
              \A f, g \in Expired : o[f] = o[g] => f = g}

Fresh == Only(rescue, Occupied(rescue) \ StaleRescue)

(* Mutant: every expired set is merged, however sparse.                    *)
MergingAll(k) == {f \in Expired : sets[f].key = k}

(* The expired sets of a key that are merged into its rescue entry.        *)
Merging(k) == {f \in Expired : sets[f].key = k /\ WorthKeeping(Size(sets[f].frags), k.total)}

(* Chunk i of the merged entry is that of the last merged set to hold it.  *)
LastHolder(k, i, o) ==
    CHOOSE f \in Merging(k) :
        /\ i \in DOMAIN sets[f].frags
        /\ \A g \in Merging(k) : i \in DOMAIN sets[g].frags => o[g] <= o[f]

(* Mutant: an expired set replaces what the cache held.                    *)
MergedFragsReplacing(k, o) ==
    LET new == UNION {DOMAIN sets[f].frags : f \in Merging(k)} IN
    [i \in new |-> sets[LastHolder(k, i, o)].frags[i]]

MergedFrags(k, o) ==
    LET new == UNION {DOMAIN sets[f].frags : f \in Merging(k)} IN
    [i \in DOMAIN RescueFrags(Fresh, k) \cup new |->
        IF i \in new THEN sets[LastHolder(k, i, o)].frags[i] ELSE Fresh[k].frags[i]]

Merged(o) == [k \in Keys |-> IF Merging(k) = {} THEN Fresh[k]
                             ELSE [frags |-> MergedFrags(k, o), age |-> 0]]

(* What is still missing when f, merged with the cache as the sets visited *)
(* before it left it, expires.                                             *)
Missing(f, o) ==
    LET k == sets[f].key IN
    Indices(k) \ (DOMAIN sets[f].frags \cup DOMAIN RescueFrags(Fresh, k)
                  \cup UNION {DOMAIN sets[g].frags : g \in {h \in Merging(k) : o[h] < o[f]}})

Notices(o) == {[type |-> "expired", id |-> f, attempt |-> sets[f].attempt,
                missing |-> Missing(f, o)] : f \in {g \in Expired : Missing(g, o) # {}}}

Cleanup ==
    \E o \in Orders :
        LET changed == StaleRescue # {} \/ Expired # {} IN
        \E kept \in IF changed /\ Persist THEN Survivors(Merged(o)) ELSE {Occupied(Merged(o))} :
            /\ rescue' = Only(Merged(o), kept)
            /\ attempts' = [k \in Keys |->
                  IF k \in StaleRescue \/ k \in Occupied(Merged(o)) \ kept
                  THEN 0 ELSE attempts[k]]
            /\ sets' = [f \in FragIds |-> IF f \in Expired THEN None ELSE sets[f]]
            /\ globalBytes' = Floor0(globalBytes - Cardinality(HeldBy(Expired)))
            /\ IF changed THEN Save(rescue', attempts') ELSE UNCHANGED <<disk, unsaved>>
            /\ events' = Notices(o)

(* A unit of time passes; an age past its limit need not grow further.     *)
Older(age, limit) == IF age > limit THEN age ELSE age + 1

Aged(r) == [k \in Keys |-> IF r[k] = None THEN None
                           ELSE [r[k] EXCEPT !.age = Older(@, RescueTTL)]]

Tick ==
    /\ sets' = [f \in FragIds |-> IF Active(f)
                                  THEN [sets[f] EXCEPT !.idle = Older(@, IdleLimit)]
                                  ELSE None]
    /\ rescue' = Aged(rescue)
    /\ disk' = Aged(disk)
    /\ events' = {}
    /\ UNCHANGED <<globalBytes, attempts, unsaved>>

Next == Receive \/ Cleanup \/ Tick \/ Restart

Spec == Init /\ [][Next]_vars

(* The cleanup task sleeps, runs and sleeps again for as long as the       *)
(* daemon lives, and time passes.                                          *)
FairSpec == Spec /\ WF_vars(Tick) /\ WF_vars(Cleanup)

-----------------------------------------------------------------------------
(* Properties.                                                             *)

FragsOf(k) == UNION {[D -> Msgs] : D \in SUBSET Offered(k)}

AnyFrags == UNION {FragsOf(k) : k \in Keys}

SetRecords == [key : Keys, attempt : Nat, idle : 0 .. IdleLimit + 1, frags : AnyFrags]

CacheRecords == [frags : AnyFrags, age : 0 .. RescueTTL + 1]

FileRecords == [frags : AnyFrags, age : 0 .. RescueTTL + 1, attempt : Nat]

ASSUME NoneAssumption == None \notin SetRecords \cup CacheRecords \cup FileRecords

(* Type invariant: chunks of known messages, stored under indices that a   *)
(* header can carry (not only those below the total).                      *)
TypeOK ==
    /\ sets \in [FragIds -> SetRecords \cup {None}]
    /\ rescue \in [Keys -> CacheRecords \cup {None}]
    /\ disk \in [Keys -> FileRecords \cup {None}]
    /\ \A f \in ActiveIds : sets[f].frags \in FragsOf(sets[f].key)
    /\ \A k \in Keys : rescue[k] # None => rescue[k].frags \in FragsOf(k)
    /\ \A k \in Keys : disk[k] # None => disk[k].frags \in FragsOf(k)
    /\ globalBytes \in Nat
    /\ attempts \in [Keys -> Nat]
    /\ unsaved \in BOOLEAN

(* The running byte total, kept by additions and floored subtractions in   *)
(* handle_fragment and _remove_set, is what the active sets hold: chunks   *)
(* inherited from the rescue cache and sets purged by another set's        *)
(* completion included.                                                    *)
AccountingExact == globalBytes = Cardinality(HeldBy(FragIds))

(* No sequence of fragments, inheritances and completions takes the        *)
(* manager past its limits on sets, bytes per set and bytes in all.        *)
WithinCaps ==
    /\ Cardinality(ActiveIds) <= MaxActiveSets
    /\ globalBytes <= MaxGlobalBytes
    /\ \A f \in ActiveIds : Size(sets[f].frags) <= MaxSetBytes

(* A set that holds the chunks of its packet, and nothing else, has been   *)
(* handed on, however many of them were inherited.  (A set that also holds *)
(* a chunk past the end may stay full: see Jam.)                           *)
NoCompleteSetLingers == \A f \in ActiveIds : ~Joins(sets[f].frags, sets[f].key)

(* What the cache holds, in memory and in the file, is worth inheriting:   *)
(* as many distinct chunks as three quarters of its packet, through every  *)
(* merge.                                                                  *)
RescueWorthKeeping ==
    \A k \in Keys :
        /\ rescue[k] # None => WorthKeeping(Size(rescue[k].frags), k.total)
        /\ disk[k] # None => WorthKeeping(Size(disk[k].frags), k.total)

(* With a file configured the cache never stays over its limits, in memory *)
(* or in the file (_evict_rescue_if_needed runs before every save).        *)
RescueBounded ==
    Persist => /\ WithinRescueLimits(rescue, Occupied(rescue))
               /\ WithinRescueLimits(disk, Occupied(disk))

(* Unless the last save failed, the file holds the cache: a restart loses  *)
(* only the sets in progress and entries past their time to live.          *)
FileMirrorsCache ==
    Persist /\ ~unsaved =>
        \A k \in Keys :
            /\ rescue[k] # None => /\ disk[k] # None
                                   /\ disk[k].frags = rescue[k].frags
                                   /\ disk[k].age = rescue[k].age
            /\ rescue[k] = None /\ disk[k] # None => disk[k].age > RescueTTL

(* The cache and the sets that just expired, taken together, are more than *)
(* the cache may hold.                                                     *)
Outgrown ==
    LET keys   == Occupied(rescue) \cup {sets[f].key : f \in Expired}
        chunks == HeldIn(rescue, Keys)
                  \cup {<<sets[c[1]].key, c[2]>> : c \in HeldBy(Expired)}
    IN Cardinality(keys) > RescueMaxEntries \/ Cardinality(chunks) > RescueMaxBytes

(* A chunk leaves the rescue cache only because a set of its key was       *)
(* reassembled, because the entry is too old, because the cache outgrew    *)
(* its limits and nothing kept is older, or in a restart that finds no     *)
(* copy of it: merging an expired set never loses chunks.                  *)
RescueNeverForgets ==
    [][\A k \in Occupied(rescue) :
          \/ rescue'[k] # None /\ DOMAIN rescue[k].frags \subseteq DOMAIN rescue'[k].frags
          \/ \E t \in Transmissions : \E i \in Offered(KeyOf[t.msg]) :
                Complete(t.id, t.msg, i) /\ Target(t.id, t.msg).key = k
          \/ rescue[k].age > RescueTTL
          \/ /\ Outgrown
             /\ rescue'[k] = None
             /\ \A j \in Occupied(rescue)' : rescue'[j].age <= rescue[k].age
          \/ Restart /\ (~Persist \/ unsaved)
      ]_vars

(* A set neither stays nor holds the radio for ever: it ends by completing *)
(* or expiring unless chunks for it never stop arriving.                   *)
EverySetEnds ==
    \A f \in FragIds : <>[](f \in ActiveIds) => []<>(f \in ActiveIds /\ sets[f].idle = 0)

(* A reassembled packet is made of the chunks of one message.              *)
ReassembledPure ==
    \A e \in events : e.type = "packet" =>
        \E m \in Msgs : \A i \in DOMAIN e.frags : e.frags[i] = m

=============================================================================
