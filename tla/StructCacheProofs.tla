-------------------------- MODULE StructCacheProofs --------------------------
(***************************************************************************)
(* For every set of structs, headers and records: a deserialization that   *)
(* skips what was learned comes to what one that skips nothing would, if   *)
(* its struct is Cacheable, whatever the others are.  The invariant is of  *)
(* the cache alone, whatever operation is next: what it has learned, and   *)
(* what it is learning, the struct of its key ignores under the names it   *)
(* holds, if that struct is Cacheable.                                     *)
(***************************************************************************)
EXTENDS StructCache, Arithmetic

Ignorable(t, v) ==
    {c \in 1..v.columns : ~Unreadable(v, c) /\ Reading(t, v, c) = Unread /\ ~t.deny}

Views == {View(h) : h \in Headers} \cup {NoView}
Caches ==
    [view : Views, key : Nat, ignored : SUBSET Nat, observing : SUBSET Nat, wide : BOOLEAN,
     wide_ignored : SUBSET Nat, wide_observing : SUBSET Nat, learned : BOOLEAN, active : BOOLEAN]

Learned(c) == \A t \in Structs : Cacheable(t) /\ t.key = c.key /\ c.learned =>
                  c.ignored \cup c.wide_ignored \subseteq Ignorable(t, c.view)
Learning(c) == \A t \in Structs : Cacheable(t) /\ t.key = c.key /\ c.active =>
                  c.observing \cup c.wide_observing \subseteq Ignorable(t, c.view)
Sound(c) == c \in Caches /\ Learned(c) /\ Learning(c)

IInv ==
    /\ header \in Headers \cup {Nothing}
    /\ consumes \in BOOLEAN /\ initialized \in BOOLEAN /\ ready \in BOOLEAN
    /\ Sound(cache)
    /\ ready /\ header # Nothing => cache.view = View(header)
    /\ AsAfresh

-----------------------------------------------------------------------------
(* Columns that a struct ignores can be skipped: nothing else it is told,  *)
(* no refusal and no value changes.                                        *)
LEMMA SkippingIsUnseen ==
    ASSUME NEW t, NEW v, NEW r, NEW skipped \in SUBSET Ignorable(t, v)
    PROVE  Outcome(t, v, r, skipped) = Outcome(t, v, r, {})
<1>1. \A c \in skipped : /\ ~Unreadable(v, c) /\ ~t.deny
                         /\ Reading(t, v, c).field = NoField
                         /\ Reading(t, v, c).kind = "ignored"
  BY DEF Ignorable, Unread
<1>2. \A c : Duplicate(t, v, skipped, c) <=> Duplicate(t, v, {}, c)
  BY <1>1 DEF Duplicate, Offered
<1>3. \A c : Refusal(t, v, r, skipped, c) = Refusal(t, v, r, {}, c)
  BY <1>2 DEF Refusal
<1>4. \A c \in skipped : Refusal(t, v, r, {}, c) = "none"
  BY <1>1 DEF Refusal, Unknown, Duplicate, Misfit
<1>5. Refused(t, v, r, skipped) = Refused(t, v, r, {})
  BY <1>3, <1>4 DEF Refused, Offered
<1>6. Filled(t, v, skipped) = Filled(t, v, {})
  BY <1>1 DEF Filled, Offered
<1>7. Missing(t, v, skipped) = Missing(t, v, {})
  BY <1>6 DEF Missing
<1> HIDE DEF Refused, Filled, Missing, Refusal
<1> QED
  BY <1>3, <1>5, <1>6, <1>7, Zenon DEF Outcome

(* A header record without malformed names is its own view.                *)
LEMMA ViewsHoldNames ==
    ASSUME NEW h \in Headers
    PROVE  /\ View(h).columns = Len(h) /\ Len(h) \in Nat
           /\ View(h).invalid = 0 => View(h).names = h /\ h \in Seq(Names)
           /\ \A c \in 1..View(h).columns :
                 ~Unreadable(View(h), c) => View(h).names[c] \in Names
<1> DEFINE f == FirstMalformed(h)
<1>1. h \in Seq(Names \cup {NotUtf8}) /\ Len(h) \in Nat
  BY DataAssumption
<1>2. CASE Malformed(h) = {}
  <2>1. View(h) = [columns |-> Len(h), invalid |-> 0, names |-> h]
    BY <1>2 DEF View, FirstMalformed
  <2>2. \A c \in 1..Len(h) : h[c] \in Names
    BY <1>1, <1>2 DEF Malformed
  <2>3. h \in Seq(Names)
    BY <1>1, <2>2
  <2> QED
    BY <1>1, <2>1, <2>2, <2>3
<1>3. CASE Malformed(h) # {}
  <2>1. f \in 1..Len(h) /\ \A e \in Malformed(h) : f <= e
    <3>1. Malformed(h) \subseteq Nat /\ Malformed(h) \subseteq 1..Len(h)
      BY <1>1 DEF Malformed
    <3>2. \E d \in Malformed(h) : \A e \in Malformed(h) : d <= e
      BY <1>3, <3>1, LeastExists
    <3> QED
      BY <1>3, <3>1, <3>2 DEF FirstMalformed
  <2>2. View(h) = [columns |-> Len(h), invalid |-> f, names |-> SubSeq(h, 1, f - 1)]
    BY <1>1, <2>1 DEF View
  <2>3. \A c \in 1..Len(h) : c < f => h[c] \in Names /\ SubSeq(h, 1, f - 1)[c] = h[c]
    <3> TAKE c \in 1..Len(h)
    <3> HAVE c < f
    <3>1. h[c] \in Names
      BY <1>1, <2>1 DEF Malformed
    <3>2. c \in 1..(f - 1) /\ f - 1 <= Len(h) /\ f \in Nat
      BY <1>1, <2>1
    <3> HIDE DEF f
    <3>3. SubSeq(h, 1, f - 1)[c] = h[c]
      BY <1>1, <3>2
    <3> QED
      BY <3>1, <3>3
  <2> HIDE DEF f
  <2> QED
    BY <1>1, <2>1, <2>2, <2>3 DEF Unreadable
<1> QED
  BY <1>2, <1>3

(* What is left standing when the headers look unchanged is their view.    *)
LEMMA UnchangedIsSynced ==
    ASSUME NEW c \in Caches, NEW h \in Headers, Unchanged(c, h)
    PROVE  c.view = View(h)
<1>1. CASE c.view = NoView
  <2>1. h = <<>>
    BY <1>1 DEF NoView, Unchanged
  <2>2. Len(h) = 0 /\ Malformed(h) = {}
    BY <2>1 DEF Malformed
  <2> QED
    BY <1>1, <2>1, <2>2 DEF View, FirstMalformed, NoView
<1>2. CASE c.view # NoView
  <2>1. PICK g \in Headers : c.view = View(g)
    BY <1>2 DEF Caches, Views
  <2>2. g = h
    BY <2>1, ViewsHoldNames DEF Unchanged
  <2> QED
    BY <2>1, <2>2
<1> QED
  BY <1>1, <1>2

-----------------------------------------------------------------------------
(* Each method of the cache leaves it sound.                               *)
LEMMA ResetSound == Sound(Reset)
BY DEF Sound, Learned, Learning, Caches, Views, Reset

LEMMA SyncSound ==
    ASSUME NEW c, Sound(c), NEW h \in Headers \cup {Nothing}
    PROVE  /\ Sound(Sync(c, h))
           /\ h # Nothing => Sync(c, h).view = View(h)
<1>1. CASE h = Nothing
  BY <1>1, ResetSound DEF Sync
<1>2. CASE h # Nothing /\ Unchanged(c, h)
  BY <1>2, UnchangedIsSynced DEF Sync, Sound
<1>3. CASE h # Nothing /\ ~Unchanged(c, h)
  <2>1. (Len(h) > WordColumns) \in BOOLEAN /\ View(h) \in Views
    BY <1>3 DEF Views
  <2>2. Sync(c, h) = [Reset EXCEPT !.view = View(h), !.wide = Len(h) > WordColumns]
    BY <1>3 DEF Sync
  <2> DEFINE s == Sync(c, h)
             w == Len(h) > WordColumns
             v == View(h)
  <2>3. s = [Reset EXCEPT !.view = v, !.wide = w] /\ w \in BOOLEAN /\ v \in Views
    BY <2>1, <2>2
  <2> HIDE DEF s, w, v
  <2>4. s \in Caches /\ s.view = v /\ ~s.learned /\ ~s.active
    BY <2>3 DEF Caches, Reset
  <2>5. Sound(s) /\ s.view = v
    BY <2>4 DEF Sound, Learned, Learning
  <2> QED
    BY <2>5 DEF s, v
<1> QED
  BY <1>1, <1>2, <1>3

LEMMA BeginSound ==
    ASSUME NEW c, Sound(c), NEW t \in Structs \cup Maps
    PROVE  /\ Sound(BeginStruct(c, t))
           /\ BeginStruct(c, t).view = c.view
           /\ t.shape = "struct" => t \in Structs /\ BeginStruct(c, t).key = t.key
           /\ Skips(c, t) /\ Cacheable(t) =>
                 Ignored(BeginStruct(c, t)) \subseteq Ignorable(t, c.view)
<1>1. t.shape = "struct" => t \in Structs /\ t.key \in Nat
  BY DataAssumption DEF Types, MapTypes
<1>2. t.shape \in {"struct", "map"}
  BY DataAssumption DEF Types, MapTypes
<1> DEFINE k == Rekeyed(c, t)
<1>3. ASSUME t.shape = "struct"
      PROVE  /\ k \in Caches /\ Learned(k) /\ k.view = c.view /\ k.key = t.key
             /\ k = c \/ ~k.learned
  <2>1. CASE c.key = t.key
    BY <2>1 DEF Rekeyed, Sound
  <2>2. CASE c.key # t.key
    <3>1. k = [c EXCEPT !.key = t.key, !.ignored = {}, !.wide_ignored = {}, !.learned = FALSE]
      BY <2>2 DEF Rekeyed
    <3>2. k \in Caches /\ k.view = c.view /\ k.key = t.key /\ ~k.learned
      BY <1>1, <1>3, <3>1 DEF Sound, Caches
    <3> QED
      BY <3>2 DEF Learned
  <2> QED
    BY <2>1, <2>2
<1>4. CASE t.shape = "map"
  BY <1>4 DEF BeginStruct, Skips
<1>5. CASE t.shape = "struct" /\ Skips(c, t)
  <2>1. BeginStruct(c, t) = k /\ k.learned
    BY <1>5 DEF BeginStruct, Skips
  <2>2. Ignored(k) \subseteq k.ignored \cup k.wide_ignored
    BY DEF Ignored, InWord
  <2>3. k = c
    BY <1>3, <1>5, <2>1
  <2> QED
    BY <1>1, <1>3, <1>5, <2>1, <2>2, <2>3 DEF Learned
<1>6. CASE t.shape = "struct" /\ ~Skips(c, t)
  <2> DEFINE b == BeginStruct(c, t)
  <2>1. b = [k EXCEPT !.observing = {}, !.wide_observing = {}, !.active = TRUE]
    BY <1>6 DEF BeginStruct
  <2> HIDE DEF b, k
  <2>2. /\ b \in Caches /\ b.view = c.view /\ b.key = t.key
        /\ b.observing = {} /\ b.wide_observing = {}
        /\ b.learned = k.learned /\ b.ignored = k.ignored /\ b.wide_ignored = k.wide_ignored
    BY <1>3, <1>6, <2>1 DEF Caches
  <2>3. Learned(b) /\ Learning(b)
    BY <1>3, <1>6, <2>2 DEF Learned, Learning
  <2>4. Sound(b) /\ b.view = c.view /\ b.key = t.key
    BY <2>2, <2>3 DEF Sound
  <2> QED
    BY <1>1, <1>6, <2>4 DEF b
<1> QED
  BY <1>2, <1>4, <1>5, <1>6

LEMMA NoteSound ==
    ASSUME NEW c, Sound(c), NEW t \in Structs, c.key = t.key,
           NEW columns \in SUBSET Nat, Cacheable(t) => columns \subseteq Ignorable(t, c.view)
    PROVE  Sound(NoteIgnored(c, columns)) /\ NoteIgnored(c, columns).view = c.view
<1> DEFINE n == NoteIgnored(c, columns)
           o == c.observing \cup InWord(columns)
           w == IF c.wide THEN c.wide_observing \cup (columns \ InWord(columns)) ELSE c.wide_observing
<1>1. n = [c EXCEPT !.observing = o, !.wide_observing = w]
  BY DEF NoteIgnored
<1>2. o \subseteq c.observing \cup columns /\ w \subseteq c.wide_observing \cup columns
  BY DEF InWord
<1>3. c \in Caches /\ o \in SUBSET Nat /\ w \in SUBSET Nat
  BY <1>2 DEF Sound, Caches
<1> HIDE DEF n, o, w
<1>4. /\ n \in Caches /\ n.view = c.view /\ n.key = c.key
      /\ n.observing = o /\ n.wide_observing = w /\ n.active = c.active
      /\ n.learned = c.learned /\ n.ignored = c.ignored /\ n.wide_ignored = c.wide_ignored
  BY <1>1, <1>3 DEF Caches
<1>5. \A s \in Structs : Cacheable(s) /\ s.key = t.key => s = t
  <2>1. \A s \in Structs : s.shape = "struct"
    BY DataAssumption DEF Types
  <2> QED
    BY <2>1 DEF Cacheable, OnItsOwn
<1>6. Learned(n)
  BY <1>4 DEF Sound, Learned
<1>7. Learning(n)
  BY <1>2, <1>4, <1>5 DEF Sound, Learning
<1> QED
  BY <1>4, <1>6, <1>7 DEF Sound, n

LEMMA CommitSound ==
    ASSUME NEW c, Sound(c)
    PROVE  Sound(Commit(c)) /\ Commit(c).view = c.view
<1>1. CASE c.active
  <2> DEFINE n == Commit(c)
  <2>1. n = [c EXCEPT !.active = FALSE, !.learned = TRUE,
                      !.ignored = c.observing, !.wide_ignored = c.wide_observing]
    BY <1>1 DEF Commit
  <2> HIDE DEF n
  <2>2. /\ n \in Caches /\ n.view = c.view /\ n.key = c.key /\ ~n.active
        /\ n.ignored = c.observing /\ n.wide_ignored = c.wide_observing
    BY <2>1 DEF Sound, Caches
  <2> QED
    BY <1>1, <2>2 DEF Sound, Learned, Learning, n
<1>2. CASE ~c.active
  BY <1>2 DEF Commit
<1> QED
  BY <1>1, <1>2

LEMMA SettledSound ==
    ASSUME NEW c, Sound(c), NEW succeeded \in BOOLEAN
    PROVE  Sound(Settled(c, succeeded)) /\ Settled(c, succeeded).view = c.view
BY CommitSound DEF Settled

(* What a struct is seen to discard it ignores: it does not read it, and   *)
(* has not refused it.                                                     *)
LEMMA DiscardedIgnorable ==
    ASSUME NEW t \in Structs, Cacheable(t), NEW h \in Headers, NEW r
    PROVE  Discarded(t, View(h), r, {}) \subseteq Ignorable(t, View(h))
<1> DEFINE v == View(h)
<1> SUFFICES ASSUME NEW c \in Discarded(t, v, r, {})
             PROVE  c \in Ignorable(t, v)
  OBVIOUS
<1>1. c \in 1..v.columns /\ Reading(t, v, c).kind = "ignored"
  BY DEF Discarded, Offered
<1>2. c \notin Refused(t, v, r, {})
  <2>1. v.columns \in Nat
    BY ViewsHoldNames
  <2> QED
    BY <1>1, <2>1 DEF Discarded
<1>3. ~Unreadable(v, c) /\ ~Unknown(t, v, c)
  BY <1>1, <1>2 DEF Refused, Offered, Refusal
<1>4. v.names[c] \in Names
  BY <1>1, <1>3, ViewsHoldNames
<1>5. Reading(t, v, c) = Unread
  <2>1. t.shape = "struct"
    BY DataAssumption DEF Types
  <2> QED
    BY <1>1, <1>4, <2>1 DEF Reading, Cacheable, ReadsItsFields
<1>6. ~t.deny
  BY <1>3, <1>5 DEF Unknown, Unread
<1> QED
  BY <1>1, <1>3, <1>5, <1>6 DEF Ignorable

-----------------------------------------------------------------------------
(* The cache and what it says of the headers, whatever is asked for.       *)
LEMMA SyncedSound ==
    ASSUME IInv
    PROVE  Sound(Synced) /\ (header # Nothing => Synced.view = View(header))
BY SyncSound DEF IInv, Synced

LEMMA DeserializeStep ==
    ASSUME IInv, NEW t \in Structs \cup Maps, NEW r \in Records, Deserialize(t, r)
    PROVE  IInv'
<1> DEFINE s == Synced
           b == BeginStruct(s, t)
           skipped == IF Skips(s, t) THEN Ignored(b) ELSE {}
           outcome == Outcome(t, b.view, r, skipped)
           noted == IF t.shape = "struct" /\ ~Skips(s, t)
                    THEN NoteIgnored(b, Discarded(t, b.view, r, skipped))
                    ELSE b
<1>1. header \in Headers /\ header # Nothing
  BY DEF Deserialize, IInv
<1>2. Sound(s) /\ s.view = View(header)
  BY <1>1, SyncedSound
<1>3. /\ cache' = Settled(noted, outcome.why = "none")
      /\ last' = [type |-> t, header |-> header, record |-> r, outcome |-> outcome]
      /\ ready' = TRUE /\ UNCHANGED <<header, consumes, initialized>>
  BY DEF Deserialize
<1> HIDE DEF s
<1>4. /\ Sound(b) /\ b.view = View(header)
      /\ t.shape = "struct" => t \in Structs /\ b.key = t.key
      /\ Skips(s, t) /\ Cacheable(t) => Ignored(b) \subseteq Ignorable(t, View(header))
  BY <1>2, BeginSound
<1> HIDE DEF b
<1>5. Cacheable(t) => outcome = Outcome(t, View(header), r, {})
  BY <1>4, SkippingIsUnseen
<1>6. Sound(noted) /\ noted.view = View(header)
  <2>1. CASE t.shape = "struct" /\ ~Skips(s, t)
    <3> DEFINE d == Discarded(t, View(header), r, {})
    <3>1. noted = NoteIgnored(b, d)
      BY <1>4, <2>1
    <3>2. t \in Structs /\ (Cacheable(t) => d \subseteq Ignorable(t, View(header)))
      BY <1>1, <1>4, <2>1, DiscardedIgnorable
    <3>3. d \subseteq Nat
      BY <1>1, ViewsHoldNames DEF Discarded, Offered
    <3> HIDE DEF d, noted
    <3> QED
      BY <1>4, <2>1, <3>1, <3>2, <3>3, NoteSound
  <2>2. CASE ~(t.shape = "struct" /\ ~Skips(s, t))
    BY <1>4, <2>2
  <2> QED
    BY <2>1, <2>2
<1> HIDE DEF noted, outcome
<1>7. Sound(cache') /\ cache'.view = View(header)
  BY <1>3, <1>6, SettledSound
<1>8. AsAfresh'
  BY <1>3, <1>5 DEF AsAfresh
<1> QED
  BY <1>3, <1>7, <1>8 DEF IInv, Sound, Learned, Learning

LEMMA InitInvariant ==
    ASSUME Init
    PROVE  IInv
<1>1. header \in Headers \cup {Nothing} /\ consumes \in BOOLEAN /\ initialized \in BOOLEAN
  BY DEF Init, Policy
<1> QED
  BY <1>1, ResetSound DEF Init, IInv, AsAfresh

LEMMA StepInvariant ==
    ASSUME IInv, [Next]_vars
    PROVE  IInv'
<1>1. ASSUME NEW t \in Structs \cup Maps, NEW r \in Records, Deserialize(t, r)
      PROVE  IInv'
  BY <1>1, DeserializeStep
<1>2. ASSUME NEW succeeded \in BOOLEAN, DeserializePositionally(succeeded)
      PROVE  IInv'
  <2> DEFINE s == Synced
  <2>1. Sound(s) /\ (header # Nothing => s.view = View(header))
    BY SyncedSound
  <2>2. cache' = Settled(s, succeeded) /\ last' = Nothing
    BY <1>2 DEF DeserializePositionally
  <2> HIDE DEF s
  <2>3. Sound(cache') /\ (header # Nothing => cache'.view = View(header))
    BY <2>1, <2>2, SettledSound
  <2> QED
    BY <1>2, <2>2, <2>3 DEF DeserializePositionally, IInv, AsAfresh, Sound, Learned, Learning
<1> USE DEF IInv, AsAfresh, Sound, Learned, Learning
<1>3. ASSUME NEW h \in Headers \cup {Nothing}, Discover(h)
      PROVE  IInv'
  BY <1>3 DEF Discover
<1>4. CASE RestoreCursor
  BY <1>4 DEF RestoreCursor
<1>5. CASE ResetHeaders
  BY <1>5 DEF ResetHeaders
<1>6. ASSUME NEW h \in Headers, SetHeaders(h)
      PROVE  IInv'
  BY <1>6 DEF SetHeaders
<1>7. ASSUME NEW h \in Headers \cup {Nothing}, NEW first \in BOOLEAN, ResetFor(h, first)
      PROVE  IInv'
  BY <1>7, ResetSound DEF ResetFor
<1>8. CASE UNCHANGED vars
  BY <1>8 DEF vars
<1> QED
  BY <1>1, <1>2, <1>3, <1>4, <1>5, <1>6, <1>7, <1>8 DEF Next

(* What the cache has learned never shows in a map, or in a struct that    *)
(* shares its key with no other and has no field that ignores its column:  *)
(* under headers read, given, forgotten or replaced, and whatever structs  *)
(* that are neither of this came between, a line comes to what it would    *)
(* with nothing learned.                                                   *)
THEOREM CacheIsTransparent == Spec => []AsAfresh
<1>1. IInv => AsAfresh
  BY DEF IInv
<1> QED
  BY <1>1, InitInvariant, StepInvariant, PTL DEF Spec
=============================================================================
