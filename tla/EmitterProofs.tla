--------------------------- MODULE EmitterProofs ---------------------------
(***************************************************************************)
(* For every threshold, however many records and however many emitters     *)
(* write the file in turn: the invariants of Emitter.  Those that do not   *)
(* name the whole document follow from one inductive invariant, IInv; that *)
(* the document stays intact, from IInv, SingleLines and Kept.             *)
(***************************************************************************)
EXTENDS Emitter, Arithmetic, FiniteSetTheorems, SequenceTheorems

EndsAt(content, i) == \E k \in 1..Len(content) : content[k].id = i /\ content[k].last

(* A piece comes after the last piece of every record after n that is      *)
(* before its own.                                                         *)
InOrder(content, n) ==
    \A k \in 1..Len(content) : \A j \in Nat :
        n < j /\ j < content[k].id => \E l \in 1..(k - 1) : content[l].id = j /\ content[l].last

(* What a record after n, or several, are encoded to, up to record m.      *)
Encodes(content, n, m) ==
    /\ content \in Seq(Pieces)
    /\ InOrder(content, n)
    /\ \A i \in (n + 1)..m : EndsAt(content, i)

(* The file never skips to a record before the one before it has ended;    *)
(* while an emitter lives, file and buffer hold every record accepted.     *)
Ordered == InOrder(file, 0)
Complete == live => Encodes(file \o buffer, 0, Len(accepted))

(* What a flush covered is in the file.                                    *)
Covered == flushed <= Cardinality(Whole)

(* Nothing is in the buffer before an emitter has committed a record.      *)
Fresh == live /\ ~started => buffer = <<>>

(* What MatchFirst compares with is the width of the document's records.   *)
LearnedFirst ==
    format.policy = "MatchFirst" /\ live /\ accepted # <<>> => expected = accepted[1].fields
OneWidth ==
    /\ format.policy = "Exact" =>
          \A i \in 1..Len(accepted) : accepted[i].fields = ExactFields
    /\ format.policy = "MatchFirst" =>
          \A i \in 1..Len(accepted) : accepted[i].fields = accepted[1].fields

(* A header is only outstanding while there is none.                       *)
HeaderDue ==
    live /\ headers = "Pending" => \A i \in 1..Len(accepted) : accepted[i].kind # "header"

Bounded == Len(accepted) <= MaxRecords

IInv ==
    /\ TypeOK
    /\ Bounded
    /\ Ordered
    /\ Complete
    /\ Covered
    /\ Fresh
    /\ LearnedFirst
    /\ OneWidth
    /\ HeaderDue
    /\ HeaderOnce
    /\ BufferBelowThreshold

(* Pieces written one after another make one text, however they are grouped *)
(* (the buffer's flush and its refill in io_emitter.rs).                    *)
LEMMA JoinedPieces ==
    ASSUME NEW x \in Seq(Pieces), NEW y \in Seq(Pieces), NEW z \in Seq(Pieces)
    PROVE  (x \o y) \o z = x \o (y \o z) /\ x \o y \in Seq(Pieces)
  BY ONLY ConcatAssociative, ConcatProperties

-----------------------------------------------------------------------------
(* Encodings follow one another.                                           *)
LEMMA EncodesConcat ==
    ASSUME NEW n \in Nat, NEW m \in Nat, NEW p \in Nat, n <= m, m <= p,
           NEW a, NEW b, Encodes(a, n, m), Encodes(b, m, p)
    PROVE  Encodes(a \o b, n, p)
<1>1. a \in Seq(Pieces) /\ b \in Seq(Pieces)
  BY DEF Encodes
<1> DEFINE c == a \o b
<1>2. /\ c \in Seq(Pieces) /\ Len(c) = Len(a) + Len(b)
      /\ Len(a) \in Nat /\ Len(b) \in Nat
      /\ \A k \in 1..Len(a) : c[k] = a[k]
      /\ \A k \in 1..Len(b) : c[Len(a) + k] = b[k]
  BY <1>1, ConcatProperties, LenProperties
<1> HIDE DEF c
<1>3. ASSUME NEW i \in (n + 1)..p
      PROVE  EndsAt(c, i)
  <2>1. CASE i <= m
    <3>1. PICK k \in 1..Len(a) : a[k].id = i /\ a[k].last
      BY <2>1 DEF Encodes, EndsAt
    <3>2. k \in 1..Len(c) /\ c[k] = a[k]
      BY <1>2
    <3> QED  BY <3>1, <3>2 DEF EndsAt
  <2>2. CASE i > m
    <3>1. PICK k \in 1..Len(b) : b[k].id = i /\ b[k].last
      BY <2>2 DEF Encodes, EndsAt
    <3>2. Len(a) + k \in 1..Len(c) /\ c[Len(a) + k] = b[k]
      BY <1>2
    <3> QED  BY <3>1, <3>2 DEF EndsAt
  <2> QED  BY <2>1, <2>2
<1>4. ASSUME NEW k \in 1..Len(c), NEW j \in Nat, n < j, j < c[k].id
      PROVE  \E l \in 1..(k - 1) : c[l].id = j /\ c[l].last
  <2>1. CASE k \in 1..Len(a)
    <3>1. PICK l \in 1..(k - 1) : a[l].id = j /\ a[l].last
      BY <1>2, <1>4, <2>1 DEF Encodes, InOrder
    <3>2. c[l] = a[l] /\ l \in 1..(k - 1)
      BY <1>2, <2>1, <3>1
    <3> QED  BY ONLY <3>1, <3>2
  <2>2. CASE k \notin 1..Len(a)
    <3>1. k - Len(a) \in 1..Len(b) /\ c[k] = b[k - Len(a)]
      BY <1>2, <2>2
    <3>2. CASE j <= m
      <4>0. j \in (n + 1)..m
        BY <1>4, <3>2
      <4>1. PICK l \in 1..Len(a) : a[l].id = j /\ a[l].last
        BY <4>0 DEF Encodes, EndsAt
      <4>2. l \in 1..(k - 1) /\ c[l] = a[l]
        BY <1>2, <2>2
      <4> QED  BY <4>1, <4>2
    <3>3. CASE j > m
      <4>1. PICK l \in 1..(k - Len(a) - 1) : b[l].id = j /\ b[l].last
        BY <1>4, <3>1, <3>3 DEF Encodes, InOrder
      <4>2. Len(a) + l \in 1..(k - 1) /\ l \in 1..Len(b)
        BY <1>2, <3>1
      <4>3. c[Len(a) + l] = b[l]
        BY <1>2, <4>2
      <4> QED  BY <4>1, <4>2, <4>3
    <3> QED  BY <3>2, <3>3
  <2> QED  BY <2>1, <2>2
<1>5. InOrder(c, n)
  BY <1>4 DEF InOrder
<1> QED  BY <1>2, <1>3, <1>5 DEF Encodes, c

(* What is cut off the end of a file does not disturb what is left.        *)
LEMMA PrefixInOrder ==
    ASSUME NEW a \in Seq(Pieces), NEW b \in Seq(Pieces), NEW n \in Nat, InOrder(a \o b, n)
    PROVE  InOrder(a, n)
<1>1. /\ Len(a \o b) = Len(a) + Len(b) /\ Len(a) \in Nat /\ Len(b) \in Nat
      /\ \A k \in 1..Len(a) : (a \o b)[k] = a[k]
  BY ConcatProperties, LenProperties
<1>2. ASSUME NEW k \in 1..Len(a), NEW j \in Nat, n < j, j < a[k].id
      PROVE  \E l \in 1..(k - 1) : a[l].id = j /\ a[l].last
  <2>1. k \in 1..Len(a \o b) /\ (a \o b)[k] = a[k]
    BY <1>1
  <2>2. PICK l \in 1..(k - 1) : (a \o b)[l].id = j /\ (a \o b)[l].last
    BY <1>2, <2>1 DEF InOrder
  <2>3. (a \o b)[l] = a[l]
    BY <1>1
  <2> QED  BY <2>2, <2>3
<1> QED  BY <1>2 DEF InOrder

(* One record, a header and a record, and the byte-order mark.             *)
LEMMA RecordEncodes ==
    ASSUME NEW n \in Nat, n + 1 <= MaxRecords, NEW u \in Records
    PROVE  Encodes(Encoded(n + 1, u), n, n + 1)
<1> DEFINE size == IF u.multiline THEN 3 ELSE 2
           bytes == [i \in 1..size |-> Piece(n + 1, i, size, i > 1)]
<1>1. Encoded(n + 1, u) = bytes
  BY DEF Encoded
<1>2. size \in {2, 3}
  OBVIOUS
<1>3. n + 1 \in 0..MaxRecords
  BY BoundsAssumption
<1>4. \A i \in 1..size : Piece(n + 1, i, size, i > 1) \in Pieces
  BY <1>2, <1>3 DEF Piece, Pieces
<1>5. bytes \in Seq(Pieces) /\ Len(bytes) = size
  <2>1. size \in Nat /\ bytes \in [1..size -> Pieces]
    BY <1>2, <1>4
  <2> HIDE DEF bytes, size
  <2> QED  BY <2>1
<1>6. \A k \in 1..size : bytes[k].id = n + 1
  BY DEF Piece
<1>7. bytes[size].last /\ size \in 1..size
  <2>1. size \in 1..size
    BY <1>2
  <2>2. Piece(n + 1, size, size, size > 1).last
    BY Zenon DEF Piece
  <2> HIDE DEF size
  <2> QED  BY <2>1, <2>2
<1> HIDE DEF bytes, size
<1>8. InOrder(bytes, n)
  BY <1>5, <1>6 DEF InOrder
<1>9. EndsAt(bytes, n + 1)
  BY <1>5, <1>6, <1>7 DEF EndsAt
<1> QED  BY <1>1, <1>5, <1>8, <1>9 DEF Encodes

LEMMA HeaderAndRecordEncodes ==
    ASSUME NEW n \in Nat, n + 2 <= MaxRecords, NEW u \in Records
    PROVE  Encodes(HeaderAndRecord(n, u), n, n + 2)
<1>1. Header(u) \in Records
  BY DEF Header, Records
<1>2. n + 1 \in Nat /\ n + 1 <= MaxRecords /\ (n + 1) + 1 = n + 2 /\ n + 2 \in Nat
  BY BoundsAssumption
<1>3. Encodes(Encoded(n + 1, Header(u)), n, n + 1)
  BY <1>1, <1>2, RecordEncodes
<1>4. Encodes(Encoded(n + 2, u), n + 1, n + 2)
  BY <1>2, RecordEncodes
<1> QED  BY <1>2, <1>3, <1>4, EncodesConcat DEF HeaderAndRecord

LEMMA BomEncodes ==
    ASSUME NEW n \in Nat
    PROVE  Encodes(Bom, n, n)
<1>1. Bom \in Seq(Pieces) /\ Len(Bom) = 2 /\ \A k \in 1..2 : Bom[k].id = 0
  BY BoundsAssumption DEF Bom, Piece, Pieces
<1>2. InOrder(Bom, n)
  BY <1>1 DEF InOrder
<1> QED  BY <1>1, <1>2 DEF Encodes

-----------------------------------------------------------------------------
(* The records that are all in the file are the first ones.                *)
LEMMA WholeIsPrefix ==
    ASSUME TypeOK, Ordered
    PROVE  /\ Cardinality(Whole) \in 0..Len(accepted)
           /\ Whole = 1..Cardinality(Whole)
<1> DEFINE n == Len(accepted)
           T == {i \in 1..(n + 1) : i \notin Whole}
<1>1. n \in Nat /\ Whole \subseteq 1..n
  BY DEF TypeOK, Whole
<1> HIDE DEF n
<1>2. n + 1 \in T
  BY <1>1
<1>3. PICK m \in T : \A i \in T : m <= i
  <2>1. T \subseteq Nat /\ T # {}
    BY <1>1, <1>2
  <2> QED  BY <2>1, LeastExists
<1>4. m \in 1..(n + 1) /\ m \notin Whole
  BY <1>3
<1>5. \A i \in 1..(m - 1) : i \in Whole
  <2> TAKE i \in 1..(m - 1)
  <2>1. i \in 1..(n + 1) /\ ~(m <= i)
    BY <1>1, <1>4
  <2> QED  BY <1>3, <2>1
<1>6. \A i \in Whole : i \in 1..(m - 1)
  <2> TAKE i \in Whole
  <2>1. i \in 1..n
    BY <1>1
  <2>2. CASE i < m
    BY <1>4, <2>1, <2>2
  <2>3. CASE m < i
    <3>1. PICK k \in 1..Len(file) : file[k].id = i /\ file[k].last
      BY DEF Whole
    <3>2. m \in Nat /\ 0 < m
      BY <1>1, <1>4
    <3>3. PICK l \in 1..(k - 1) : file[l].id = m /\ file[l].last
      BY <2>3, <3>1, <3>2 DEF Ordered, InOrder
    <3>4. l \in 1..Len(file) /\ m \in 1..n
      BY <1>1, <1>4, <2>1, <2>3, LenProperties DEF TypeOK
    <3>5. m \in Whole
      BY <3>3, <3>4 DEF Whole, n
    <3> QED  BY <1>4, <3>5
  <2>4. i < m \/ m < i
    BY <1>1, <1>4, <2>1
  <2> QED  BY <2>2, <2>3, <2>4
<1>7. Whole = 1..(m - 1)
  BY <1>5, <1>6
<1>8. Cardinality(Whole) = m - 1
  <2>1. 1 \in Int /\ m - 1 \in Int /\ m - 1 >= 0
    BY <1>1, <1>4
  <2>2. Cardinality(1..(m - 1)) = IF 1 > m - 1 THEN 0 ELSE (m - 1) - 1 + 1
    BY <2>1, FS_Interval
  <2> QED  BY <1>7, <2>1, <2>2
<1> QED  BY <1>1, <1>4, <1>7, <1>8 DEF n

(* Writing more to the file loses no record of it.                         *)
LEMMA WholeGrows ==
    ASSUME TypeOK, Ordered, NEW x \in Seq(Pieces), file' = file \o x,
           accepted' \in Seq(Records), Len(accepted) <= Len(accepted')
    PROVE  Cardinality(Whole) <= Cardinality(Whole')
<1>1. /\ file \in Seq(Pieces) /\ Len(file) \in Nat /\ Len(x) \in Nat
      /\ Len(accepted) \in Nat /\ Len(accepted') \in Nat
  BY LenProperties DEF TypeOK
<1>2. Len(file') = Len(file) + Len(x) /\ \A k \in 1..Len(file) : file'[k] = file[k]
  BY <1>1, ConcatProperties
<1>3. Whole \subseteq Whole'
  <2> SUFFICES ASSUME NEW i \in Whole PROVE i \in Whole'
    OBVIOUS
  <2>1. i \in 1..Len(accepted')
    BY <1>1 DEF Whole
  <2>2. PICK k \in 1..Len(file) : file[k].id = i /\ file[k].last
    BY DEF Whole
  <2>3. k \in 1..Len(file') /\ file'[k] = file[k]
    BY <1>1, <1>2
  <2> QED  BY <2>1, <2>2, <2>3 DEF Whole
<1>4. IsFiniteSet(Whole')
  <2>1. IsFiniteSet(1..Len(accepted'))
    BY <1>1, FS_Interval
  <2>2. Whole' \subseteq 1..Len(accepted')
    BY DEF Whole
  <2> QED  BY <2>1, <2>2, FS_Subset
<1> QED  BY <1>3, <1>4, FS_Subset

(* Draining moves pieces from the buffer to the file and loses none.       *)
LEMMA WrittenMoves ==
    ASSUME file \in Seq(Pieces), NEW content \in Seq(Pieces), NEW n \in 0..Len(content),
           Written(content, n)
    PROVE  /\ file' = file \o SubSeq(content, 1, n) /\ SubSeq(content, 1, n) \in Seq(Pieces)
           /\ file' \in Seq(Pieces) /\ buffer' \in Seq(Pieces)
           /\ file' \o buffer' = file \o content
           /\ n = Len(content) => buffer' = <<>>
<1> DEFINE head == SubSeq(content, 1, n)
           tail == SubSeq(content, n + 1, Len(content))
<1>1. file' = file \o head /\ buffer' = tail
  BY DEF Written
<1>2. Len(content) \in Nat /\ \A i \in 1..Len(content) : content[i] \in Pieces
  BY LenProperties, ElementOfSeq
<1>3. head \in Seq(Pieces) /\ tail \in Seq(Pieces)
  BY <1>2, SubSeqProperties
<1>4. head \o tail = SubSeq(content, 1, Len(content))
  <2>1. 1 \in 1..(Len(content) + 1) /\ n \in (1 - 1)..Len(content) /\ Len(content) \in n..Len(content)
    BY <1>2
  <2> QED  BY <2>1, ConcatAdjacentSubSeq
<1>5. head \o tail = content
  BY <1>4, SubSeqFull
<1>6. n = Len(content) => tail = <<>>
  BY <1>2, SubSeqEmpty
<1> HIDE DEF head, tail
<1>7. (file \o head) \o tail = file \o (head \o tail)
  BY <1>3, JoinedPieces
<1>8. file' \in Seq(Pieces)
  BY <1>1, <1>3, ConcatProperties
<1> QED  BY <1>1, <1>3, <1>5, <1>6, <1>7, <1>8 DEF head

-----------------------------------------------------------------------------
(* A document without records, nor a file, has them all.                   *)
LEMMA InitIInv == Init => IInv
<1> SUFFICES ASSUME Init PROVE IInv
  OBVIOUS
<1>1. file = <<>> /\ buffer = <<>> /\ accepted = <<>> /\ flushed = 0 /\ ~failed
  BY DEF Init
<1>2. TypeOK
  <2>1. file \in Seq(Pieces) /\ buffer \in Seq(Pieces) /\ accepted \in Seq(Records)
    BY <1>1
  <2>2. sessions \in 1..MaxSessions /\ flushed \in 0..MaxRecords
    BY SessionsAssumption, BoundsAssumption DEF Init
  <2>3. bom \in BOOLEAN /\ format \in Formats
    BY DEF Init, Formats
  <2> QED  BY <2>1, <2>2, <2>3 DEF Init, TypeOK
<1>3. Ordered
  BY <1>1 DEF Ordered, InOrder
<1>4. Complete
  <2>1. file \o buffer = <<>> /\ Len(accepted) = 0 /\ <<>> \in Seq(Pieces) /\ Len(<<>>) = 0
    BY <1>1, ConcatEmptySeq
  <2>2. InOrder(<<>>, 0)
    BY DEF InOrder
  <2> QED  BY <2>1, <2>2 DEF Complete, Encodes
<1>5. Covered
  <2>1. Whole = {}
    BY <1>1 DEF Whole
  <2> QED  BY <1>1, <2>1, FS_EmptySet DEF Covered
<1>6. Bounded /\ BufferBelowThreshold /\ Fresh
  BY <1>1, BoundsAssumption, ThresholdAssumption DEF Bounded, BufferBelowThreshold, Fresh
<1>7. LearnedFirst /\ OneWidth /\ HeaderDue /\ HeaderOnce
  BY <1>1 DEF LearnedFirst, OneWidth, HeaderDue, HeaderOnce
<1> QED  BY <1>2, <1>3, <1>4, <1>5, <1>6, <1>7 DEF IInv

(* What a commit does, whichever call it ends.                             *)
LEMMA AcceptStep ==
    ASSUME IInv, live, live' = live, NEW units \in Seq(Records), units # <<>>,
           NEW bytes, Encodes(bytes, Len(accepted), Len(accepted) + Len(units)),
           Accept(units, bytes)
    PROVE  /\ file' \in Seq(Pieces) /\ buffer' \in Seq(Pieces)
           /\ accepted' \in Seq(Records) /\ failed' \in BOOLEAN
           /\ Bounded' /\ Ordered' /\ Complete' /\ Covered' /\ Fresh'
           /\ BufferBelowThreshold'
<1> DEFINE n == Len(accepted)
           m == n + Len(units)
           content == IF ~started /\ bom THEN Bom \o (buffer \o bytes) ELSE buffer \o bytes
<1>1. /\ file \in Seq(Pieces) /\ buffer \in Seq(Pieces) /\ accepted \in Seq(Records)
      /\ n \in Nat /\ Len(units) \in Nat /\ m \in Nat /\ n <= m
      /\ bytes \in Seq(Pieces)
  BY LenProperties DEF IInv, TypeOK, Encodes
<1>2. Encodes(file \o buffer, 0, n) /\ Encodes(bytes, n, m)
  BY DEF IInv, Complete
<1>3. accepted' \in Seq(Records) /\ Len(accepted') = m /\ m <= MaxRecords
  BY <1>1, ConcatProperties DEF Accept
<1>4. content \in Seq(Pieces) /\ Encodes(file \o content, 0, m)
  <2>1. buffer \o bytes \in Seq(Pieces)
    BY <1>1, ConcatProperties
  <2>2. CASE ~started /\ bom
    <3>1. buffer = <<>> /\ file \o buffer = file /\ buffer \o bytes = bytes
      BY <1>1, <2>2, ConcatEmptySeq DEF IInv, Fresh
    <3>2. content = Bom \o bytes
      BY <2>2, <3>1
    <3>3. Encodes(Bom, n, n) /\ Bom \in Seq(Pieces)
      BY <1>1, BomEncodes DEF Encodes
    <3>4. Encodes(file \o Bom, 0, n)
      BY <1>1, <1>2, <3>1, <3>3, EncodesConcat
    <3>5. Encodes((file \o Bom) \o bytes, 0, m)
      BY <1>1, <1>2, <3>4, EncodesConcat
    <3>6. (file \o Bom) \o bytes = file \o (Bom \o bytes)
      <4>1. file \in Seq(Pieces) /\ Bom \in Seq(Pieces) /\ bytes \in Seq(Pieces)
        BY <1>1, <3>3
      <4> QED  BY ONLY <4>1, JoinedPieces, SMTT(30)
    <3>7. Bom \o bytes \in Seq(Pieces)
      BY <1>1, <3>3, ConcatProperties
    <3> QED  BY <3>2, <3>5, <3>6, <3>7
  <2>3. CASE ~(~started /\ bom)
    <3>1. content = buffer \o bytes
      BY <2>3
    <3>2. Encodes((file \o buffer) \o bytes, 0, m)
      BY <1>1, <1>2, EncodesConcat
    <3>3. (file \o buffer) \o bytes = file \o (buffer \o bytes)
      BY <1>1, JoinedPieces
    <3> QED  BY <2>1, <3>1, <3>2, <3>3
  <2> QED  BY <2>2, <2>3
<1>5. \/ /\ Full(content)
         /\ \E k \in 0..Len(content) : Written(content, k) /\ failed' = (k < Len(content))
      \/ ~Full(content) /\ buffer' = content /\ UNCHANGED <<file, failed>>
  BY DEF Accept
<1>6. started' = TRUE /\ flushed' = flushed
  BY DEF Accept, history
<1> HIDE DEF content, n, m
<1>7. \E x \in Seq(Pieces) :
         /\ file' = file \o x /\ file' \in Seq(Pieces) /\ buffer' \in Seq(Pieces)
         /\ file' \o buffer' = file \o content
         /\ failed' \in BOOLEAN /\ (failed' \/ Len(buffer') < Threshold)
  <2>1. CASE Full(content)
    <3>1. PICK k \in 0..Len(content) : Written(content, k) /\ failed' = (k < Len(content))
      BY <1>5, <2>1
    <3>2. /\ file' = file \o SubSeq(content, 1, k) /\ SubSeq(content, 1, k) \in Seq(Pieces)
          /\ file' \in Seq(Pieces) /\ buffer' \in Seq(Pieces)
          /\ file' \o buffer' = file \o content
          /\ k = Len(content) => buffer' = <<>>
      BY <1>1, <1>4, <3>1, WrittenMoves
    <3>3. failed' \/ Len(buffer') < Threshold
      <4>1. k < Len(content) \/ k = Len(content)
        BY <1>4, LenProperties
      <4>2. CASE k < Len(content)
        BY <3>1, <4>2
      <4>3. CASE k = Len(content)
        BY <3>2, <4>3, ThresholdAssumption
      <4> QED  BY <4>1, <4>2, <4>3
    <3>4. failed' \in BOOLEAN
      BY <3>1
    <3> QED  BY <3>2, <3>3, <3>4
  <2>2. CASE ~Full(content)
    <3>1. buffer' = content /\ file' = file /\ failed' = failed
      BY <1>5, <2>2
    <3>2. Len(content) < Threshold
      BY <1>4, <2>2, LenProperties, ThresholdAssumption DEF Full
    <3>3. <<>> \in Seq(Pieces) /\ file \o <<>> = file
      BY <1>1, ConcatEmptySeq
    <3>4. failed \in BOOLEAN
      BY DEF IInv, TypeOK
    <3> QED  BY <1>1, <1>4, <3>1, <3>2, <3>3, <3>4
  <2> QED  BY <2>1, <2>2
<1>8. PICK x \in Seq(Pieces) :
         /\ file' = file \o x /\ file' \in Seq(Pieces) /\ buffer' \in Seq(Pieces)
         /\ file' \o buffer' = file \o content
         /\ failed' \in BOOLEAN /\ (failed' \/ Len(buffer') < Threshold)
  BY <1>7
<1>9. Complete'
  BY <1>3, <1>4, <1>8 DEF Complete
<1>10. Ordered'
  <2>1. InOrder(file' \o buffer', 0)
    BY <1>4, <1>8 DEF Encodes
  <2> QED  BY <1>8, <2>1, PrefixInOrder DEF Ordered
<1>11. Covered'
  <2>1. Cardinality(Whole) <= Cardinality(Whole')
    BY <1>1, <1>3, <1>8, WholeGrows DEF IInv, n, m
  <2>2. Cardinality(Whole) \in Nat /\ Cardinality(Whole') \in Nat
    <3>1. Whole \subseteq 1..Len(accepted) /\ Whole' \subseteq 1..Len(accepted')
      BY DEF Whole
    <3>2. IsFiniteSet(1..Len(accepted)) /\ IsFiniteSet(1..Len(accepted'))
      BY <1>1, <1>3, FS_Interval DEF n
    <3> QED  BY <3>1, <3>2, FS_Subset, FS_CardinalityType
  <2> QED  BY <1>6, <2>1, <2>2 DEF IInv, TypeOK, Covered
<1>12. Bounded' /\ Fresh' /\ BufferBelowThreshold'
  BY <1>3, <1>6, <1>8 DEF Bounded, Fresh, BufferBelowThreshold
<1> QED  BY <1>3, <1>8, <1>9, <1>10, <1>11, <1>12

(* A record that is admitted has the width of those before it.             *)
LEMMA CountStep ==
    ASSUME IInv, live, format' = format, NEW f \in 1..MaxFields,
           NEW units \in Seq(Records), units # <<>>,
           \A i \in 1..Len(units) : units[i].fields = f,
           Admits(f), expected' = Learned(f), accepted' = accepted \o units
    PROVE  LearnedFirst' /\ OneWidth' /\ expected' \in {NotLearned} \cup 1..MaxFields
<1>1. /\ accepted \in Seq(Records) /\ format \in Formats
      /\ expected \in {NotLearned} \cup 1..MaxFields
  BY DEF IInv, TypeOK
<1>2. /\ Len(accepted) \in Nat /\ Len(units) \in Nat \ {0}
      /\ Len(accepted') = Len(accepted) + Len(units)
      /\ \A i \in 1..Len(accepted) : accepted'[i] = accepted[i]
      /\ \A i \in (Len(accepted) + 1)..Len(accepted') : accepted'[i].fields = f
  <2>1. /\ Len(accepted) \in Nat /\ Len(units) \in Nat \ {0}
        /\ Len(accepted') = Len(accepted) + Len(units)
        /\ \A i \in 1..(Len(accepted) + Len(units)) :
              accepted'[i] = IF i <= Len(accepted) THEN accepted[i] ELSE units[i - Len(accepted)]
    BY <1>1, LenProperties, EmptySeq, ConcatProperties
  <2> QED  BY <2>1
<1>3. f # NotLearned
  BY DEF NotLearned
<1>4. CASE format.policy = "Exact"
  <2>1. f = ExactFields
    BY <1>4 DEF Admits
  <2>2. \A i \in 1..Len(accepted) : accepted[i].fields = ExactFields
    BY <1>4 DEF IInv, OneWidth
  <2>3. ASSUME NEW i \in 1..Len(accepted')
        PROVE  accepted'[i].fields = ExactFields
    <3>1. i \in 1..Len(accepted) \/ i \in (Len(accepted) + 1)..Len(accepted')
      BY <1>2
    <3> QED  BY <1>2, <2>1, <2>2, <3>1
  <2>4. expected' = expected
    BY <1>4 DEF Learned
  <2> QED  BY <1>1, <1>4, <2>3, <2>4 DEF LearnedFirst, OneWidth
<1>5. CASE format.policy = "MatchFirst"
  <2>1. expected' = f
    BY <1>5 DEF Learned
  <2>2. \A i \in 1..Len(accepted) : accepted[i].fields = f
    <3>1. TAKE i \in 1..Len(accepted)
    <3>2. accepted # <<>>
      BY <1>1, <1>2, EmptySeq
    <3>3. expected = accepted[1].fields /\ accepted[i].fields = accepted[1].fields
      BY <1>5, <3>2 DEF IInv, LearnedFirst, OneWidth
    <3>4. accepted[1] \in Records
      BY <1>1, <1>2, ElementOfSeq
    <3>5. expected = f
      BY <1>5, <3>3, <3>4 DEF Admits, NotLearned, Records
    <3> QED  BY <3>3, <3>5
  <2>3. ASSUME NEW i \in 1..Len(accepted')
        PROVE  accepted'[i].fields = f
    <3>1. i \in 1..Len(accepted) \/ i \in (Len(accepted) + 1)..Len(accepted')
      BY <1>2
    <3> QED  BY <1>2, <2>2, <3>1
  <2>4. 1 \in 1..Len(accepted')
    BY <1>2
  <2> QED  BY <1>5, <2>1, <2>3, <2>4 DEF LearnedFirst, OneWidth
<1>6. CASE format.policy = "Flexible"
  BY <1>1, <1>6 DEF LearnedFirst, OneWidth, Learned
<1> QED  BY <1>1, <1>4, <1>5, <1>6 DEF Formats

(* The widths are uniform once they are all the first one's.               *)
LEMMA UniformFromOneWidth ==
    ASSUME OneWidth, format \in Formats
    PROVE  UniformFieldCount
BY DEF OneWidth, UniformFieldCount, Formats

(* What there is on disk only ever counts whole records.                   *)
LEMMA WholeCount ==
    ASSUME accepted \in Seq(Records)
    PROVE  Cardinality(Whole) \in Nat
<1>1. Whole \subseteq 1..Len(accepted) /\ Len(accepted) \in Nat
  BY LenProperties DEF Whole
<1>2. IsFiniteSet(1..Len(accepted))
  BY <1>1, FS_Interval
<1> QED  BY <1>1, <1>2, FS_Subset, FS_CardinalityType

-----------------------------------------------------------------------------
LEMMA EmitIInv ==
    ASSUME IInv, NEW u \in DataRecords, Emit(u)
    PROVE  IInv'
<1> DEFINE n == Len(accepted)
<1>1. /\ u \in Records /\ <<u>> \in Seq(Records) /\ <<u>> # <<>> /\ Len(<<u>>) = 1
      /\ u.fields \in 1..MaxFields /\ u.kind = "data"
  BY MultilineAssumption DEF DataRecords, Records
<1>2. /\ live /\ live' = live /\ format' = format /\ bom' = bom /\ UNCHANGED history
      /\ headers' = headers /\ Admits(u.fields) /\ expected' = Learned(u.fields)
      /\ Accept(<<u>>, Encoded(n + 1, u)) /\ accepted' = accepted \o <<u>>
      /\ n + 1 <= MaxRecords /\ started' = TRUE
  BY <1>1 DEF Emit, Accept
<1>3. n \in Nat /\ accepted \in Seq(Records)
  BY LenProperties DEF IInv, TypeOK
<1>4. Encodes(Encoded(n + 1, u), n, n + Len(<<u>>))
  BY <1>1, <1>2, <1>3, RecordEncodes
<1>5. /\ file' \in Seq(Pieces) /\ buffer' \in Seq(Pieces)
      /\ accepted' \in Seq(Records) /\ failed' \in BOOLEAN
      /\ Bounded' /\ Ordered' /\ Complete' /\ Covered' /\ Fresh'
      /\ BufferBelowThreshold'
  BY <1>1, <1>2, <1>4, AcceptStep
<1>6. LearnedFirst' /\ OneWidth' /\ expected' \in {NotLearned} \cup 1..MaxFields
  <2>1. \A i \in 1..Len(<<u>>) : <<u>>[i].fields = u.fields
    BY <1>1
  <2> QED  BY <1>1, <1>2, <2>1, CountStep
<1>7. TypeOK'
  BY <1>2, <1>5, <1>6 DEF IInv, TypeOK, history
<1>8. HeaderDue' /\ HeaderOnce'
  <2>1. /\ Len(accepted') = n + 1 /\ \A i \in 1..n : accepted'[i] = accepted[i]
        /\ accepted'[n + 1] = u
    BY <1>1, <1>2, <1>3, ConcatProperties
  <2>2. \A i \in 1..Len(accepted') : i \in 1..n \/ accepted'[i].kind # "header"
    BY <1>1, <1>3, <2>1
  <2> QED  BY <1>2, <1>3, <2>1, <2>2 DEF IInv, HeaderDue, HeaderOnce
<1> QED  BY <1>5, <1>6, <1>7, <1>8 DEF IInv

LEMMA SerializeFirstIInv ==
    ASSUME IInv, NEW u \in DataRecords, NEW named \in BOOLEAN, SerializeFirst(u, named)
    PROVE  IInv'
<1> DEFINE n == Len(accepted)
           units == IF named THEN <<Header(u), u>> ELSE <<u>>
           bytes == IF named THEN HeaderAndRecord(n, u) ELSE Encoded(n + 1, u)
<1>1. /\ u \in Records /\ u.fields \in 1..MaxFields /\ u.kind = "data"
      /\ Header(u) \in Records /\ Header(u).fields = u.fields
  BY MultilineAssumption DEF DataRecords, Records, Header
<1>2. /\ units \in Seq(Records) /\ units # <<>>
      /\ Len(units) = IF named THEN 2 ELSE 1
      /\ \A i \in 1..Len(units) : units[i].fields = u.fields
      /\ \A i \in 2..Len(units) : units[i].kind # "header"
  <2>1. CASE named
    BY <1>1, <2>1
  <2>2. CASE ~named
    BY <1>1, <2>2
  <2> QED  BY <2>1, <2>2
<1>3. Accept(units, bytes)
  BY DEF SerializeFirst
<1> HIDE DEF units
<1>4. /\ live /\ live' = live /\ format' = format /\ bom' = bom /\ UNCHANGED history
      /\ headers = "Pending" /\ headers' = "Written"
      /\ Admits(u.fields) /\ expected' = Learned(u.fields)
      /\ accepted' = accepted \o units
      /\ n + Len(units) <= MaxRecords /\ started' = TRUE
  BY <1>3 DEF SerializeFirst, Accept
<1>5. n \in Nat /\ accepted \in Seq(Records)
  BY LenProperties DEF IInv, TypeOK
<1>6. Encodes(bytes, n, n + Len(units))
  BY <1>1, <1>2, <1>4, <1>5, RecordEncodes, HeaderAndRecordEncodes
<1> HIDE DEF bytes
<1>7. /\ file' \in Seq(Pieces) /\ buffer' \in Seq(Pieces)
      /\ accepted' \in Seq(Records) /\ failed' \in BOOLEAN
      /\ Bounded' /\ Ordered' /\ Complete' /\ Covered' /\ Fresh'
      /\ BufferBelowThreshold'
  BY <1>2, <1>3, <1>4, <1>6, AcceptStep
<1>8. LearnedFirst' /\ OneWidth' /\ expected' \in {NotLearned} \cup 1..MaxFields
  BY <1>1, <1>2, <1>4, CountStep
<1>9. TypeOK'
  BY <1>4, <1>7, <1>8 DEF IInv, TypeOK, history
<1>10. HeaderDue' /\ HeaderOnce'
  <2>1. /\ Len(accepted') = n + Len(units)
        /\ \A i \in 1..n : accepted'[i] = accepted[i]
        /\ \A i \in (n + 1)..Len(accepted') : accepted'[i] = units[i - n]
    <3>1. /\ Len(accepted') = n + Len(units)
          /\ \A i \in 1..(n + Len(units)) :
                accepted'[i] = IF i <= n THEN accepted[i] ELSE units[i - n]
      BY <1>2, <1>4, <1>5, ConcatProperties
    <3>2. n \in Nat /\ Len(units) \in Nat
      BY <1>2, <1>5, LenProperties
    <3> HIDE DEF n, units
    <3>3. \A i \in 1..n : accepted'[i] = accepted[i]
      BY <3>1, <3>2
    <3>4. \A i \in (n + 1)..Len(accepted') : accepted'[i] = units[i - n]
      BY <3>1, <3>2
    <3> QED  BY <3>1, <3>3, <3>4
  <2>2. \A i \in 1..n : accepted[i].kind # "header"
    BY <1>4 DEF IInv, HeaderDue
  <2>3. ASSUME NEW i \in 1..Len(accepted'), accepted'[i].kind = "header"
        PROVE  i = n + 1
    <3>1. i \in 1..n \/ i = n + 1 \/ i - n \in 2..Len(units)
      BY <1>2, <1>5, <2>1
    <3>2. i \notin 1..n
      BY <2>1, <2>2, <2>3
    <3>3. ~(i - n \in 2..Len(units))
      BY <1>2, <1>5, <2>1, <2>3
    <3> QED  BY <3>1, <3>2, <3>3
  <2> QED  BY <1>4, <2>3 DEF HeaderDue, HeaderOnce
<1> QED  BY <1>7, <1>8, <1>9, <1>10 DEF IInv

(* A rejected record leaves nothing behind.                                *)
LEMMA RejectLeavesNothing ==
    ASSUME TypeOK, NEW u \in DataRecords, Reject(u)
    PROVE  UNCHANGED vars
<1>1. buffer \in Seq(Pieces) /\ Len(accepted) \in Nat
  BY LenProperties DEF TypeOK
<1>2. PICK n \in 0..Len(Encoded(Len(accepted) + 1, u)) :
         buffer' = RolledBack(buffer \o SubSeq(Encoded(Len(accepted) + 1, u), 1, n), Len(buffer))
  BY DEF Reject
<1> DEFINE bytes == Encoded(Len(accepted) + 1, u)
           part == SubSeq(bytes, 1, n)
           AnyPiece == [id : Nat, part : 1..3, last : BOOLEAN, ends : BOOLEAN]
<1>3. Pieces \subseteq AnyPiece /\ buffer \in Seq(AnyPiece)
  <2>1. Pieces \subseteq AnyPiece
    BY BoundsAssumption DEF Pieces
  <2> QED  BY <1>1, <2>1, SeqMonotonic
<1>4. bytes \in Seq(AnyPiece)
  <2> DEFINE size == IF u.multiline THEN 3 ELSE 2
  <2>1. bytes = [i \in 1..size |-> Piece(Len(accepted) + 1, i, size, i > 1)]
    BY DEF Encoded
  <2>2. size \in {2, 3}
    OBVIOUS
  <2>3. \A i \in 1..size : Piece(Len(accepted) + 1, i, size, i > 1) \in AnyPiece
    BY <1>1, <2>2 DEF Piece
  <2>4. size \in Nat /\ bytes \in [1..size -> AnyPiece]
    BY <2>1, <2>2, <2>3
  <2> HIDE DEF bytes, size, AnyPiece
  <2> QED  BY <2>4
<1> HIDE DEF bytes, AnyPiece
<1>5. part \in Seq(AnyPiece)
  <2>1. n \in 0..Len(bytes) /\ Len(bytes) \in Nat /\ \A i \in 1..Len(bytes) : bytes[i] \in AnyPiece
    BY <1>2, <1>4, LenProperties, ElementOfSeq DEF bytes
  <2>2. \A i \in 1..n : bytes[i] \in AnyPiece
    BY <2>1
  <2> QED  BY <2>1, <2>2, SubSeqProperties
<1> HIDE DEF part
<1>6. SubSeq(buffer \o part, 1, Len(buffer)) = buffer
  <2>1. CASE buffer = <<>>
    BY <2>1, SubSeqEmpty
  <2>2. CASE buffer # <<>>
    <3>1. 1 \in 1..Len(buffer) /\ Len(buffer) \in 1..Len(buffer)
      BY <1>1, <2>2, EmptySeq
    <3> QED  BY <1>3, <1>5, <3>1, SubSeqOfConcat1, SubSeqFull
  <2> QED  BY <2>1, <2>2
<1>7. buffer' = buffer
  BY <1>2, <1>6 DEF RolledBack, bytes, part
<1> QED  BY <1>7 DEF Reject, vars, core, history

LEMMA RejectIInv ==
    ASSUME IInv, NEW u \in DataRecords, Reject(u)
    PROVE  IInv'
<1>1. UNCHANGED vars
  BY RejectLeavesNothing DEF IInv
<1> QED  BY <1>1 DEF IInv, vars, core, history, TypeOK, Bounded, Ordered, Complete, Covered,
                     Whole, Fresh, LearnedFirst, OneWidth, HeaderDue, HeaderOnce, BufferBelowThreshold

(* A flush fails or it does not.                                           *)
LEMMA FailureIsBoolean ==
    ASSUME FlushSink
    PROVE  failed' \in BOOLEAN
<1>1. PICK n \in 0..Len(buffer) : failed' \in {TRUE, n < Len(buffer)}
  BY DEF FlushSink
<1>2. CASE failed' = TRUE
  BY <1>2
<1>3. CASE failed' = (n < Len(buffer))
  BY <1>3
<1> QED  BY <1>1, <1>2, <1>3

(* flush and into_inner: a buffer that is drained is all in the file.      *)
LEMMA FlushIInv ==
    ASSUME IInv, FlushSink, live' \in BOOLEAN, failed' => live'
    PROVE  IInv'
<1>1. /\ file \in Seq(Pieces) /\ buffer \in Seq(Pieces) /\ accepted \in Seq(Records)
      /\ flushed \in 0..MaxRecords /\ live /\ ~failed
  BY DEF IInv, TypeOK, FlushSink
<1>2. PICK n \in 0..Len(buffer) : Written(buffer, n) /\ failed' \in {TRUE, n < Len(buffer)}
  BY DEF FlushSink
<1>3. /\ UNCHANGED <<format, bom, started, expected, headers, accepted, sessions>>
      /\ flushed' = IF failed' THEN flushed ELSE Len(accepted)
  BY DEF FlushSink
<1>4. /\ file' = file \o SubSeq(buffer, 1, n) /\ SubSeq(buffer, 1, n) \in Seq(Pieces)
      /\ file' \in Seq(Pieces) /\ buffer' \in Seq(Pieces)
      /\ file' \o buffer' = file \o buffer
      /\ n = Len(buffer) => buffer' = <<>>
  BY <1>1, <1>2, WrittenMoves
<1>5. Encodes(file' \o buffer', 0, Len(accepted)) /\ Complete'
  BY <1>1, <1>3, <1>4 DEF IInv, Complete
<1>6. Ordered'
  BY <1>4, <1>5, PrefixInOrder DEF Ordered, Encodes
<1>7. ~failed' => buffer' = <<>>
  <2>1. n < Len(buffer) \/ n = Len(buffer)
    BY <1>1, <1>2, LenProperties
  <2> QED  BY <1>2, <1>4, <2>1
<1>8. Covered'
  <2>1. Cardinality(Whole) <= Cardinality(Whole')
    <3>1. accepted' \in Seq(Records) /\ Len(accepted) <= Len(accepted')
      BY <1>1, <1>3, LenProperties
    <3>2. TypeOK /\ Ordered
      BY DEF IInv
    <3> QED  BY <1>4, <3>1, <3>2, WholeGrows
  <2>2. Cardinality(Whole) \in Nat /\ Cardinality(Whole') \in Nat
    <3>1. accepted' \in Seq(Records)
      BY <1>1, <1>3
    <3>2. Whole' \subseteq 1..Len(accepted') /\ IsFiniteSet(1..Len(accepted'))
      BY <3>1, FS_Interval, LenProperties DEF Whole
    <3> QED  BY <1>1, <3>2, WholeCount, FS_Subset, FS_CardinalityType
  <2>3. CASE failed'
    BY <1>1, <1>3, <2>1, <2>2, <2>3 DEF IInv, Covered
  <2>4. CASE ~failed'
    <3>1. file' \o buffer' = file'
      BY <1>4, <1>7, <2>4, ConcatEmptySeq
    <3>2. \A i \in 1..Len(accepted') : EndsAt(file', i)
      BY <1>3, <1>5, <3>1 DEF Encodes
    <3>3. Whole' = 1..Len(accepted)
      BY <1>3, <3>2 DEF Whole, EndsAt
    <3>4. Len(accepted) \in Nat
      BY <1>1, LenProperties
    <3>5. Cardinality(1..Len(accepted)) = Len(accepted)
      <4>1. 1 \in Int /\ Len(accepted) \in Int
        BY <3>4
      <4>2. Cardinality(1..Len(accepted)) =
               IF 1 > Len(accepted) THEN 0 ELSE Len(accepted) - 1 + 1
        BY <4>1, FS_Interval
      <4> QED  BY <3>4, <4>2
    <3> QED  BY <1>3, <2>4, <3>3, <3>4, <3>5 DEF Covered
  <2> QED  BY <2>3, <2>4
<1>9. TypeOK' /\ Bounded'
  <2>1. Len(accepted) \in 0..MaxRecords
    BY <1>1, LenProperties, BoundsAssumption DEF IInv, Bounded
  <2>2. flushed' \in 0..MaxRecords
    BY <1>1, <1>3, <2>1
  <2>3. failed' \in BOOLEAN
    BY FailureIsBoolean
  <2> QED  BY <1>3, <1>4, <2>2, <2>3 DEF IInv, TypeOK, Bounded
<1>10. Fresh'
  <2>1. CASE started
    BY <1>3, <2>1 DEF Fresh
  <2>2. CASE ~started
    <3>1. buffer = <<>>
      BY <1>1, <2>2 DEF IInv, Fresh
    <3>2. n = Len(buffer)
      BY <1>2, <3>1
    <3> QED  BY <1>4, <3>2 DEF Fresh
  <2> QED  BY <2>1, <2>2
<1>11. BufferBelowThreshold'
  BY <1>7, ThresholdAssumption DEF BufferBelowThreshold
<1>12. LearnedFirst' /\ OneWidth' /\ HeaderDue' /\ HeaderOnce'
  BY <1>1, <1>3 DEF IInv, LearnedFirst, OneWidth, HeaderDue, HeaderOnce
<1> QED  BY <1>5, <1>6, <1>8, <1>9, <1>10, <1>11, <1>12 DEF IInv

(* Drop writes what it can of the buffer; Abandon writes nothing.          *)
LEMMA LostIInv ==
    ASSUME IInv, Drop \/ Abandon
    PROVE  IInv'
<1>1. /\ file \in Seq(Pieces) /\ buffer \in Seq(Pieces) /\ accepted \in Seq(Records)
      /\ live /\ live' = FALSE /\ buffer' = <<>>
      /\ UNCHANGED <<format, bom, started, expected, headers, failed, accepted, history>>
  BY DEF IInv, TypeOK, Drop, Abandon
<1>2. \E x \in Seq(Pieces), y \in Seq(Pieces) : x \o y = buffer /\ file' = file \o x
  <2>1. CASE Drop
    <3>1. PICK n \in 0..Len(buffer) : file' = file \o SubSeq(buffer, 1, n)
      BY <2>1 DEF Drop
    <3> DEFINE x == SubSeq(buffer, 1, n)
               y == SubSeq(buffer, n + 1, Len(buffer))
    <3>2. Len(buffer) \in Nat /\ \A i \in 1..Len(buffer) : buffer[i] \in Pieces
      BY <1>1, LenProperties, ElementOfSeq
    <3>3. x \in Seq(Pieces) /\ y \in Seq(Pieces)
      BY <3>2, SubSeqProperties
    <3>4. x \o y = buffer
      <4>1. 1 \in 1..(Len(buffer) + 1) /\ n \in (1 - 1)..Len(buffer) /\ Len(buffer) \in n..Len(buffer)
        BY <3>2
      <4>2. x \o y = SubSeq(buffer, 1, Len(buffer))
        BY <1>1, <4>1, ConcatAdjacentSubSeq
      <4> QED  BY <1>1, <4>2, SubSeqFull
    <3> QED  BY <3>1, <3>3, <3>4
  <2>2. CASE Abandon
    <3>1. file' = file
      BY <2>2 DEF Abandon
    <3>2. <<>> \in Seq(Pieces) /\ <<>> \o buffer = buffer /\ file \o <<>> = file
      BY <1>1, ConcatEmptySeq
    <3> QED  BY <1>1, <3>1, <3>2
  <2> QED  BY <2>1, <2>2
<1>3. PICK x \in Seq(Pieces), y \in Seq(Pieces) : x \o y = buffer /\ file' = file \o x
  BY <1>2
<1>4. file' \in Seq(Pieces) /\ file' \o y = file \o buffer
  <2>1. (file \o x) \o y = file \o (x \o y)
    <3>1. file \in Seq(Pieces) /\ x \in Seq(Pieces) /\ y \in Seq(Pieces)
      BY <1>1
    <3> QED  BY ONLY <3>1, JoinedPieces
  <2>2. file \o x \in Seq(Pieces)
    BY <1>1, ConcatProperties
  <2> QED  BY <1>3, <2>1, <2>2
<1>5. Ordered'
  <2>1. InOrder(file' \o y, 0)
    BY <1>1, <1>4 DEF IInv, Complete, Encodes
  <2> QED  BY <1>3, <1>4, <2>1, PrefixInOrder DEF Ordered
<1>6. Covered'
  <2>1. Cardinality(Whole) <= Cardinality(Whole')
    <3>1. accepted' \in Seq(Records) /\ Len(accepted) <= Len(accepted')
      BY <1>1, LenProperties
    <3>2. TypeOK /\ Ordered
      BY DEF IInv
    <3> QED  BY <1>3, <3>1, <3>2, WholeGrows
  <2>2. accepted' \in Seq(Records)
    BY <1>1
  <2>3. Whole' \subseteq 1..Len(accepted') /\ IsFiniteSet(1..Len(accepted'))
    BY <2>2, FS_Interval, LenProperties DEF Whole
  <2>4. Cardinality(Whole) \in Nat /\ Cardinality(Whole') \in Nat
    BY <1>1, <2>3, WholeCount, FS_Subset, FS_CardinalityType
  <2> QED  BY <1>1, <2>1, <2>4 DEF IInv, TypeOK, Covered, history
<1>7. TypeOK' /\ Bounded'
  <2>1. <<>> \in Seq(Pieces)
    BY EmptySeq
  <2>2. TypeOK'
    BY <1>1, <1>4, <2>1 DEF IInv, TypeOK, history
  <2> QED  BY <1>1, <2>2 DEF IInv, Bounded
<1>8. Complete' /\ Fresh' /\ LearnedFirst' /\ HeaderDue' /\ BufferBelowThreshold'
  BY <1>1 DEF Complete, Fresh, LearnedFirst, HeaderDue, BufferBelowThreshold
<1>9. OneWidth' /\ HeaderOnce'
  BY <1>1 DEF IInv, OneWidth, HeaderOnce
<1> QED  BY <1>5, <1>6, <1>7, <1>8, <1>9 DEF IInv

(* append_path: what the next emitter knows of the document is true of it. *)
LEMMA AppendIInv ==
    ASSUME IInv, AppendPath
    PROVE  IInv'
<1> DEFINE n == Cardinality(Whole)
<1>1. /\ file \in Seq(Pieces) /\ accepted \in Seq(Records) /\ Len(accepted) \in Nat
      /\ ~live /\ live' = TRUE /\ failed' = FALSE /\ buffer' = <<>> /\ started' = FALSE
      /\ sessions' = sessions + 1 /\ sessions < MaxSessions
      /\ bom' \in BOOLEAN
      /\ expected' = ResumedFields /\ headers' = ResumedHeaders
      /\ accepted' = SubSeq(accepted, 1, n) /\ UNCHANGED <<format, file, flushed>>
  BY LenProperties DEF IInv, TypeOK, AppendPath, Formats
<1>2. n \in 0..Len(accepted) /\ Whole = 1..n
  BY WholeIsPrefix DEF IInv
<1> HIDE DEF n
<1>3. /\ accepted' \in Seq(Records) /\ Len(accepted') = n
      /\ \A i \in 1..n : accepted'[i] = accepted[i]
  <2>1. \A i \in 1..n : accepted[i] \in Records
    BY <1>1, <1>2, ElementOfSeq
  <2>2. n \in Int /\ 1 \in Int /\ n - 1 + 1 = n
    BY <1>1, <1>2
  <2>3. /\ SubSeq(accepted, 1, n) \in Seq(Records)
        /\ Len(SubSeq(accepted, 1, n)) = IF 1 <= n THEN n - 1 + 1 ELSE 0
        /\ \A i \in 1..(n - 1 + 1) : SubSeq(accepted, 1, n)[i] = accepted[1 + i - 1]
    BY <2>1, <2>2, SubSeqProperties
  <2>4. \A i \in 1..n : 1 + i - 1 = i
    BY <1>2
  <2> QED  BY <1>1, <1>2, <2>2, <2>3, <2>4
<1>4. Ordered'
  BY <1>1 DEF IInv, Ordered
<1>5. Complete'
  <2>1. file' \o buffer' = file
    BY <1>1, ConcatEmptySeq
  <2>2. ASSUME NEW i \in (0 + 1)..n
        PROVE  EndsAt(file, i)
    <3>1. i \in Whole
      BY <1>2
    <3> QED  BY <3>1 DEF Whole, EndsAt
  <2> QED  BY <1>1, <1>3, <2>1, <2>2 DEF IInv, Ordered, Complete, Encodes
<1>6. Covered'
  <2>1. Whole' = 1..n
    <3>1. \A i \in 1..n : i \in Whole
      BY <1>2
    <3>2. \A i \in 1..n : i \in Whole'
      BY <1>1, <1>3, <3>1 DEF Whole
    <3>3. Whole' \subseteq 1..n
      BY <1>3 DEF Whole
    <3> QED  BY <3>2, <3>3
  <2> QED  BY <1>1, <1>2, <2>1 DEF IInv, Covered, n
<1>7. (file = <<>> \/ file = Bom) => n = 0
  <2>1. ASSUME file = <<>> \/ file = Bom, NEW i \in Whole
        PROVE  FALSE
    <3>1. i \in 1..Len(accepted) /\ \E k \in 1..Len(file) : file[k].id = i
      BY DEF Whole
    <3>2. \A k \in 1..Len(file) : file[k].id = 0
      BY <2>1 DEF Bom, Piece
    <3> QED  BY <1>1, <3>1, <3>2
  <2>2. 1 \in 1..n \/ n = 0
    BY <1>1, <1>2
  <2> QED  BY <1>2, <2>1, <2>2
<1>8. DocumentState # "HasRecords" => n = 0
  BY <1>7 DEF AppendPath, DocumentState
<1>9. LearnedFirst' /\ expected' \in {NotLearned} \cup 1..MaxFields
  <2>1. CASE DocumentState = "HasRecords" /\ format.policy = "MatchFirst"
    <3>1. 1 \in Whole
      BY <2>1 DEF AppendPath
    <3>2. 1 \in 1..n /\ 1 \in 1..Len(accepted)
      BY <1>1, <1>2, <3>1
    <3>3. accepted[1] \in Records /\ accepted'[1] = accepted[1]
      BY <1>1, <1>3, <3>2, ElementOfSeq
    <3>4. expected' = accepted[1].fields
      BY <1>1, <2>1 DEF ResumedFields
    <3> QED  BY <1>1, <3>3, <3>4 DEF LearnedFirst, Records
  <2>2. CASE ~(DocumentState = "HasRecords" /\ format.policy = "MatchFirst")
    <3>1. expected' = NotLearned
      BY <1>1, <2>2 DEF ResumedFields
    <3>2. format.policy = "MatchFirst" => accepted' = <<>>
      BY <1>3, <1>8, <2>2, EmptySeq
    <3> QED  BY <1>1, <3>1, <3>2 DEF LearnedFirst
  <2> QED  BY <2>1, <2>2
<1>10. OneWidth'
  <2>1. \A i \in 1..Len(accepted') : i \in 1..Len(accepted) /\ 1 \in 1..n
    BY <1>1, <1>2, <1>3
  <2> QED  BY <1>1, <1>3, <2>1 DEF IInv, OneWidth
<1>12. HeaderDue' /\ headers' \in {"Disabled", "Pending", "Written"}
  BY <1>1, <1>3, <1>8 DEF HeaderDue, ResumedHeaders
<1>13. HeaderOnce'
  <2>1. \A i \in 1..Len(accepted') : i \in 1..Len(accepted) /\ accepted'[i] = accepted[i]
    BY <1>1, <1>2, <1>3
  <2> QED  BY <2>1 DEF IInv, HeaderOnce
<1>14. TypeOK' /\ Bounded'
  <2>1. <<>> \in Seq(Pieces)
    BY EmptySeq
  <2>2. sessions' \in 1..MaxSessions
    BY <1>1, SessionsAssumption DEF IInv, TypeOK
  <2>3. n <= MaxRecords
    BY <1>1, <1>2, BoundsAssumption DEF IInv, Bounded
  <2> QED  BY <1>1, <1>3, <1>9, <1>12, <2>1, <2>2, <2>3 DEF IInv, TypeOK, Bounded
<1>15. Fresh' /\ BufferBelowThreshold'
  BY <1>1, ThresholdAssumption DEF Fresh, BufferBelowThreshold
<1> QED  BY <1>4, <1>5, <1>6, <1>9, <1>10, <1>12, <1>13, <1>14, <1>15 DEF IInv

-----------------------------------------------------------------------------
(* No step of an emitter, of its end, or of the next one disturbs IInv.    *)
LEMMA StepIInv == IInv /\ [Next]_vars => IInv'
<1> SUFFICES ASSUME IInv, [Next]_vars PROVE IInv'
  OBVIOUS
<1>1. CASE UNCHANGED vars
  BY <1>1 DEF IInv, vars, core, history, TypeOK, Bounded, Ordered, Complete, Covered, Whole,
              Fresh, LearnedFirst, OneWidth, HeaderDue, HeaderOnce, BufferBelowThreshold
<1>2. ASSUME NEW u \in DataRecords, Emit(u)
      PROVE  IInv'
  BY <1>2, EmitIInv
<1>3. ASSUME NEW u \in DataRecords, Reject(u)
      PROVE  IInv'
  BY <1>3, RejectIInv
<1>4. ASSUME NEW u \in DataRecords, NEW named \in BOOLEAN, SerializeFirst(u, named)
      PROVE  IInv'
  BY <1>4, SerializeFirstIInv
<1>5. CASE Flush
  <2>1. FlushSink /\ live' \in BOOLEAN /\ live'
    BY <1>5 DEF Flush, FlushSink, IInv, TypeOK
  <2> QED  BY <2>1, FlushIInv
<1>6. CASE IntoInner
  <2>1. FlushSink /\ live' = failed'
    BY <1>6 DEF IntoInner
  <2>2. failed' \in BOOLEAN
    BY <2>1, FailureIsBoolean
  <2> QED  BY <2>1, <2>2, FlushIInv
<1>7. CASE Drop \/ Abandon
  BY <1>7, LostIInv
<1>8. CASE AppendPath
  BY <1>8, AppendIInv
<1> QED  BY <1>1, <1>2, <1>3, <1>4, <1>5, <1>6, <1>7, <1>8 DEF Next

LEMMA AlwaysIInv == Spec => []IInv
<1>1. Init => IInv
  BY InitIInv
<1>2. IInv /\ [Next]_vars => IInv'
  BY StepIInv
<1> QED  BY <1>1, <1>2, PTL DEF Spec

(* The emitter's state keeps its types, its counters their bounds.         *)
THEOREM EmitterTypeOK == Spec => []TypeOK
<1>1. IInv => TypeOK
  BY DEF IInv
<1> QED  BY <1>1, AlwaysIInv, PTL

(* What an Ok from flush or into_inner covered is in the file, and stays   *)
(* in it, whatever fails, is dropped or is taken up again afterwards and   *)
(* whatever the threshold; records may span lines.                         *)
THEOREM FlushedStays == Spec => []FlushedSurvives
<1>1. IInv => FlushedSurvives
  <2> SUFFICES ASSUME IInv PROVE FlushedSurvives
    OBVIOUS
  <2>1. Cardinality(Whole) \in Nat /\ flushed \in Nat
    BY WholeCount DEF IInv, TypeOK
  <2> QED  BY <2>1 DEF IInv, Covered, FlushedSurvives
<1> QED  BY <1>1, AlwaysIInv, PTL

(* The field count policy holds for the file, not just for one emitter.    *)
THEOREM FieldCountIsUniform == Spec => []UniformFieldCount
<1>1. IInv => UniformFieldCount
  BY UniformFromOneWidth DEF IInv, TypeOK
<1> QED  BY <1>1, AlwaysIInv, PTL

(* A document has one header at most, however often it is taken up again.  *)
THEOREM OneHeader == Spec => []HeaderOnce
<1>1. IInv => HeaderOnce
  BY DEF IInv
<1> QED  BY <1>1, AlwaysIInv, PTL

(* Between calls the buffer holds less than the threshold.                 *)
THEOREM BufferIsBounded == Spec => []BufferBelowThreshold
<1>1. IInv => BufferBelowThreshold
  BY DEF IInv
<1> QED  BY <1>1, AlwaysIInv, PTL

-----------------------------------------------------------------------------
(* When no record spans lines, only its last piece looks like its end.     *)
EndsAreLast(content) == \A k \in 1..Len(content) : content[k].ends => content[k].last
SingleLines == EndsAreLast(file) /\ EndsAreLast(buffer)

LEMMA EndsConcat ==
    ASSUME NEW S, NEW a \in Seq(S), NEW b \in Seq(S), EndsAreLast(a), EndsAreLast(b)
    PROVE  EndsAreLast(a \o b)
<1>1. /\ Len(a \o b) = Len(a) + Len(b) /\ Len(a) \in Nat /\ Len(b) \in Nat
      /\ \A k \in 1..(Len(a) + Len(b)) :
            (a \o b)[k] = IF k <= Len(a) THEN a[k] ELSE b[k - Len(a)]
  BY ConcatProperties, LenProperties
<1>2. ASSUME NEW k \in 1..Len(a \o b), (a \o b)[k].ends
      PROVE  (a \o b)[k].last
  <2>1. CASE k <= Len(a)
    <3>1. k \in 1..Len(a) /\ (a \o b)[k] = a[k]
      BY <1>1, <2>1
    <3> QED  BY <1>2, <3>1 DEF EndsAreLast
  <2>2. CASE ~(k <= Len(a))
    <3>1. k - Len(a) \in 1..Len(b) /\ (a \o b)[k] = b[k - Len(a)]
      BY <1>1, <2>2
    <3> QED  BY <1>2, <3>1 DEF EndsAreLast
  <2> QED  BY <2>1, <2>2
<1> QED  BY <1>2 DEF EndsAreLast

LEMMA EndsOfPart ==
    ASSUME NEW S, NEW a \in Seq(S), NEW m \in Nat \ {0}, NEW n \in 0..Len(a), EndsAreLast(a)
    PROVE  EndsAreLast(SubSeq(a, m, n)) /\ SubSeq(a, m, n) \in Seq(S)
<1>1. /\ Len(a) \in Nat /\ \A i \in 1..Len(a) : a[i] \in S
      /\ m \in Int /\ n \in Int
  BY LenProperties, ElementOfSeq
<1>2. \A i \in m..n : a[i] \in S
  BY <1>1
<1>3. /\ SubSeq(a, m, n) \in Seq(S)
      /\ Len(SubSeq(a, m, n)) = IF m <= n THEN n - m + 1 ELSE 0
      /\ \A i \in 1..(n - m + 1) : SubSeq(a, m, n)[i] = a[m + i - 1]
  BY <1>1, <1>2, SubSeqProperties
<1>4. ASSUME NEW i \in 1..Len(SubSeq(a, m, n)), SubSeq(a, m, n)[i].ends
      PROVE  SubSeq(a, m, n)[i].last
  <2>1. i \in 1..(n - m + 1) /\ m + i - 1 \in 1..Len(a)
    BY <1>1, <1>3
  <2>2. SubSeq(a, m, n)[i] = a[m + i - 1]
    BY <1>3, <2>1
  <2> QED  BY <1>4, <2>1, <2>2 DEF EndsAreLast
<1> QED  BY <1>3, <1>4 DEF EndsAreLast

(* Draining moves whole pieces.                                            *)
LEMMA WrittenEnds ==
    ASSUME file \in Seq(Pieces), EndsAreLast(file),
           NEW content \in Seq(Pieces), EndsAreLast(content),
           NEW k \in 0..Len(content), Written(content, k)
    PROVE  SingleLines'
<1>1. Len(content) \in Nat /\ Len(content) \in 0..Len(content)
      /\ 1 \in Nat \ {0} /\ k + 1 \in Nat \ {0}
  BY LenProperties
<1>2. EndsAreLast(SubSeq(content, 1, k)) /\ SubSeq(content, 1, k) \in Seq(Pieces)
  BY <1>1, EndsOfPart
<1>3. EndsAreLast(SubSeq(content, k + 1, Len(content)))
  BY <1>1, EndsOfPart
<1>4. EndsAreLast(file \o SubSeq(content, 1, k))
  BY <1>2, EndsConcat
<1> QED  BY <1>3, <1>4 DEF SingleLines, Written

(* A record on one line, and the mark, end in their last piece.            *)
LEMMA EncodedEnds ==
    ASSUME NEW n \in Nat, NEW u \in Records, ~u.multiline
    PROVE  EndsAreLast(Encoded(n, u))
<1>1. Encoded(n, u) = [i \in 1..2 |-> Piece(n, i, 2, i > 1)]
  BY DEF Encoded
<1>2. \A i \in 1..2 : Piece(n, i, 2, i > 1).ends => Piece(n, i, 2, i > 1).last
  BY DEF Piece
<1>3. Len(Encoded(n, u)) = 2
  BY <1>1
<1> QED  BY <1>1, <1>2, <1>3 DEF EndsAreLast

LEMMA BomEnds == EndsAreLast(Bom)
<1>1. Len(Bom) = 2 /\ \A k \in 1..2 : ~Bom[k].ends
  BY DEF Bom, Piece
<1> QED  BY <1>1 DEF EndsAreLast

(* What a commit writes or keeps back.                                     *)
LEMMA AcceptEnds ==
    ASSUME TypeOK, SingleLines, NEW units, NEW bytes \in Seq(Pieces), EndsAreLast(bytes),
           Accept(units, bytes)
    PROVE  SingleLines'
<1> DEFINE content == IF ~started /\ bom THEN Bom \o (buffer \o bytes) ELSE buffer \o bytes
<1>1. file \in Seq(Pieces) /\ buffer \in Seq(Pieces) /\ EndsAreLast(file)
  BY DEF TypeOK, SingleLines
<1>2. content \in Seq(Pieces) /\ EndsAreLast(content)
  <2>1. buffer \o bytes \in Seq(Pieces)
    BY <1>1, ConcatProperties
  <2>2. EndsAreLast(buffer \o bytes)
    BY <1>1, EndsConcat DEF SingleLines
  <2>3. Bom \in Seq(Pieces)
    BY BomEncodes DEF Encodes
  <2>4. Bom \o (buffer \o bytes) \in Seq(Pieces)
    BY <2>1, <2>3, ConcatProperties
  <2>5. EndsAreLast(Bom \o (buffer \o bytes))
    BY <2>1, <2>2, <2>3, BomEnds, EndsConcat
  <2> QED  BY <2>1, <2>2, <2>4, <2>5
<1>3. \/ \E k \in 0..Len(content) : Written(content, k)
      \/ buffer' = content /\ file' = file
  BY DEF Accept
<1> HIDE DEF content
<1>4. CASE buffer' = content /\ file' = file
  BY <1>2, <1>4 DEF SingleLines
<1>5. ASSUME NEW k \in 0..Len(content), Written(content, k)
      PROVE  SingleLines'
  BY <1>1, <1>2, <1>5, WrittenEnds
<1> QED  BY <1>3, <1>4, <1>5

LEMMA SingleLinesStep ==
    ASSUME Multiline \subseteq {FALSE}, IInv, SingleLines, [Next]_vars
    PROVE  SingleLines'
<1>1. /\ file \in Seq(Pieces) /\ buffer \in Seq(Pieces) /\ Len(accepted) \in Nat
      /\ TypeOK /\ EndsAreLast(file) /\ EndsAreLast(buffer)
  BY LenProperties DEF IInv, TypeOK, SingleLines
<1>2. CASE UNCHANGED <<file, buffer>>
  BY <1>2 DEF SingleLines
<1>3. ASSUME NEW u \in DataRecords, Emit(u)
      PROVE  SingleLines'
  <2>1. u \in Records /\ ~u.multiline
    BY MultilineAssumption DEF DataRecords, Records
  <2>2. Len(accepted) + 1 <= MaxRecords /\ Len(accepted) + 1 \in Nat
    BY <1>1, <1>3 DEF Emit, Accept
  <2>3. Encoded(Len(accepted) + 1, u) \in Seq(Pieces)
    BY <1>1, <2>1, <2>2, RecordEncodes DEF Encodes
  <2>4. EndsAreLast(Encoded(Len(accepted) + 1, u))
    BY <2>1, <2>2, EncodedEnds
  <2>5. Accept(<<u>>, Encoded(Len(accepted) + 1, u))
    BY <1>3 DEF Emit
  <2> QED  BY <1>1, <2>3, <2>4, <2>5, AcceptEnds
<1>4. ASSUME NEW u \in DataRecords, NEW named \in BOOLEAN, SerializeFirst(u, named)
      PROVE  SingleLines'
  <2> DEFINE n == Len(accepted)
  <2>1. /\ u \in Records /\ ~u.multiline
        /\ Header(u) \in Records /\ ~Header(u).multiline
    BY MultilineAssumption DEF DataRecords, Records, Header
  <2>2. CASE named
    <3>1. Accept(<<Header(u), u>>, HeaderAndRecord(n, u))
      BY <1>4, <2>2 DEF SerializeFirst
    <3>2. n + 2 <= MaxRecords
      <4>1. Len(<<Header(u), u>>) = 2
        OBVIOUS
      <4> QED  BY <3>1, <4>1 DEF Accept
    <3>3. /\ n + 1 \in Nat /\ n + 2 \in Nat /\ n + 1 <= MaxRecords
          /\ (n + 1) + 1 = n + 2
      BY <1>1, <3>2, BoundsAssumption
    <3>4. Encoded(n + 1, Header(u)) \in Seq(Pieces) /\ EndsAreLast(Encoded(n + 1, Header(u)))
      BY <1>1, <2>1, <3>3, RecordEncodes, EncodedEnds DEF Encodes
    <3>5. Encoded(n + 2, u) \in Seq(Pieces) /\ EndsAreLast(Encoded(n + 2, u))
      <4>1. Encodes(Encoded((n + 1) + 1, u), n + 1, (n + 1) + 1)
        BY <2>1, <3>2, <3>3, RecordEncodes
      <4> QED  BY <2>1, <3>3, <4>1, EncodedEnds DEF Encodes
    <3>6. HeaderAndRecord(n, u) \in Seq(Pieces) /\ EndsAreLast(HeaderAndRecord(n, u))
      BY <3>4, <3>5, EndsConcat, ConcatProperties DEF HeaderAndRecord
    <3> QED  BY <1>1, <3>1, <3>6, AcceptEnds
  <2>3. CASE ~named
    <3>1. Accept(<<u>>, Encoded(n + 1, u))
      BY <1>4, <2>3 DEF SerializeFirst
    <3>2. n + 1 <= MaxRecords /\ n + 1 \in Nat
      BY <1>1, <3>1 DEF Accept
    <3>3. Encoded(n + 1, u) \in Seq(Pieces) /\ EndsAreLast(Encoded(n + 1, u))
      BY <1>1, <2>1, <3>2, RecordEncodes, EncodedEnds DEF Encodes
    <3> QED  BY <1>1, <3>1, <3>3, AcceptEnds
  <2> QED  BY <2>2, <2>3
<1>5. ASSUME NEW u \in DataRecords, Reject(u)
      PROVE  SingleLines'
  BY <1>1, <1>5, RejectLeavesNothing DEF SingleLines, vars, core
<1>6. CASE Flush \/ IntoInner
  <2>1. PICK n \in 0..Len(buffer) : Written(buffer, n)
    BY <1>6 DEF Flush, IntoInner, FlushSink
  <2> QED  BY <1>1, <2>1, WrittenEnds
<1>7. CASE Drop
  <2>1. PICK n \in 0..Len(buffer) : file' = file \o SubSeq(buffer, 1, n)
    BY <1>7 DEF Drop
  <2>2. EndsAreLast(SubSeq(buffer, 1, n)) /\ SubSeq(buffer, 1, n) \in Seq(Pieces)
    <3>1. 1 \in Nat \ {0}
      OBVIOUS
    <3> QED  BY <1>1, <3>1, EndsOfPart
  <2>3. EndsAreLast(file')
    BY <1>1, <2>1, <2>2, EndsConcat
  <2>4. buffer' = <<>>
    BY <1>7 DEF Drop
  <2> QED  BY <2>3, <2>4 DEF SingleLines, EndsAreLast
<1>8. CASE Abandon \/ AppendPath
  <2>1. buffer' = <<>> /\ file' = file
    BY <1>8 DEF Abandon, AppendPath
  <2> QED  BY <1>1, <2>1 DEF SingleLines, EndsAreLast
<1> QED  BY <1>2, <1>3, <1>4, <1>5, <1>6, <1>7, <1>8 DEF Next, vars, core

-----------------------------------------------------------------------------
(* When no record spans lines every record is two pieces, so the document  *)
(* of n records can be written down piece by piece.                        *)
Rows(n) ==
    [k \in 1..(2 * n) |-> Piece((k + 1) \div 2, IF k % 2 = 1 THEN 1 ELSE 2, 2, k % 2 = 0)]
WholeDocument(marked, n) == (IF marked THEN Bom ELSE <<>>) \o Rows(n)
MarkLen(marked) == IF marked THEN 2 ELSE 0

(* Neighbouring pieces of the same document are the same pieces.           *)
LEMMA RowsAre ==
    ASSUME NEW n \in Nat, n <= MaxRecords
    PROVE  /\ Rows(n) \in Seq(Pieces) /\ Len(Rows(n)) = 2 * n
           /\ \A k \in 1..(2 * n) :
                 /\ Rows(n)[k] = Piece((k + 1) \div 2, IF k % 2 = 1 THEN 1 ELSE 2, 2, k % 2 = 0)
                 /\ Rows(n)[k].id = (k + 1) \div 2 /\ Rows(n)[k].id \in 1..n
                 /\ Rows(n)[k].last = (k % 2 = 0)
<1> DEFINE P(k) == Piece((k + 1) \div 2, IF k % 2 = 1 THEN 1 ELSE 2, 2, k % 2 = 0)
<1>1. 2 * n \in Nat
  OBVIOUS
<1> HIDE DEF P
<1>2. ASSUME NEW k \in 1..(2 * n)
      PROVE  /\ P(k) \in Pieces
             /\ P(k).id = (k + 1) \div 2 /\ P(k).id \in 1..n
             /\ P(k).last = (k % 2 = 0)
  <2>1. /\ (k + 1) \div 2 \in 1..n /\ (k + 1) \div 2 \in 0..MaxRecords
        /\ k % 2 = 0 \/ k % 2 = 1
    BY BoundsAssumption
  <2> DEFINE i == (k + 1) \div 2
             p == IF k % 2 = 1 THEN 1 ELSE 2
  <2>2. p \in 1..3 /\ (p = 2) = (k % 2 = 0) /\ (p = 2) \in BOOLEAN /\ (k % 2 = 0) \in BOOLEAN
    BY <2>1
  <2>3. i \in 1..n /\ i \in 0..MaxRecords
    BY <2>1
  <2> HIDE DEF i, p
  <2>4. P(k) = [id |-> i, part |-> p, last |-> p = 2, ends |-> k % 2 = 0]
    BY DEF P, Piece, i, p
  <2>5. P(k) \in Pieces
    BY <2>2, <2>3, <2>4 DEF Pieces
  <2>6. P(k).id = i /\ P(k).last = (p = 2)
    BY <2>2, <2>4
  <2> QED  BY <2>2, <2>3, <2>5, <2>6 DEF i
<1>3. Rows(n) = [k \in 1..(2 * n) |-> P(k)]
  BY DEF Rows, P
<1>4. Rows(n) \in [1..(2 * n) -> Pieces] /\ \A k \in 1..(2 * n) : Rows(n)[k] = P(k)
  BY <1>2, <1>3
<1>5. Rows(n) \in Seq(Pieces) /\ Len(Rows(n)) = 2 * n
  BY <1>1, <1>4
<1>6. \A k \in 1..(2 * n) : /\ Rows(n)[k].id = (k + 1) \div 2 /\ Rows(n)[k].id \in 1..n
                            /\ Rows(n)[k].last = (k % 2 = 0)
  BY <1>2, <1>4
<1> QED  BY <1>4, <1>5, <1>6 DEF P

(* The two pieces of one more record are the next row.                     *)
LEMMA NextRow ==
    ASSUME NEW n \in Nat, n + 1 <= MaxRecords, NEW u \in Records, ~u.multiline
    PROVE  Rows(n) \o Encoded(n + 1, u) = Rows(n + 1)
<1> DEFINE a == Rows(n)
           b == Encoded(n + 1, u)
           c == Rows(n + 1)
           P(k) == Piece((k + 1) \div 2, IF k % 2 = 1 THEN 1 ELSE 2, 2, k % 2 = 0)
<1>1. /\ a \in Seq(Pieces) /\ Len(a) = 2 * n /\ \A k \in 1..(2 * n) : a[k] = P(k)
  <2>1. n <= MaxRecords
    BY BoundsAssumption
  <2> QED  BY <2>1, RowsAre
<1>2. c \in Seq(Pieces) /\ Len(c) = 2 * (n + 1) /\ \A k \in 1..(2 * (n + 1)) : c[k] = P(k)
  <2>1. n + 1 \in Nat
    OBVIOUS
  <2> QED  BY <2>1, RowsAre
<1>3. b = [i \in 1..2 |-> Piece(n + 1, i, 2, i > 1)] /\ b \in Seq(Pieces)
  BY RecordEncodes DEF Encoded, Encodes
<1>4. Len(b) = 2 /\ b[1] = Piece(n + 1, 1, 2, FALSE) /\ b[2] = Piece(n + 1, 2, 2, TRUE)
  <2>1. (1 > 1) = FALSE /\ (2 > 1) = TRUE
    OBVIOUS
  <2>2. Len(b) = 2 /\ b[1] = Piece(n + 1, 1, 2, 1 > 1) /\ b[2] = Piece(n + 1, 2, 2, 2 > 1)
    BY <1>3
  <2> QED  BY <2>1, <2>2
<1>5. P(2 * n + 1) = Piece(n + 1, 1, 2, FALSE) /\ P(2 * n + 2) = Piece(n + 1, 2, 2, TRUE)
  <2>1. /\ (2 * n + 1 + 1) \div 2 = n + 1 /\ (2 * n + 1) % 2 = 1
        /\ (2 * n + 2 + 1) \div 2 = n + 1 /\ (2 * n + 2) % 2 = 0
    OBVIOUS
  <2>2. ((2 * n + 1) % 2 = 0) = FALSE /\ ((2 * n + 2) % 2 = 0) = TRUE
    BY <2>1
  <2> QED  BY <2>1, <2>2
<1> HIDE DEF a, b, c, P
<1>6. /\ a \o b \in Seq(Pieces) /\ Len(a \o b) = 2 * n + 2
      /\ \A k \in 1..(2 * n + 2) :
            (a \o b)[k] = IF k <= 2 * n THEN a[k] ELSE b[k - 2 * n]
  <2>1. /\ a \o b \in Seq(Pieces) /\ Len(a \o b) = Len(a) + Len(b)
        /\ \A k \in 1..(Len(a) + Len(b)) :
              (a \o b)[k] = IF k <= Len(a) THEN a[k] ELSE b[k - Len(a)]
    BY <1>1, <1>3, ConcatProperties
  <2> QED  BY <1>1, <1>4, <2>1
<1>7. ASSUME NEW k \in 1..(2 * n + 2)
      PROVE  (a \o b)[k] = c[k]
  <2>1. c[k] = P(k)
    BY <1>2
  <2>0. 2 * n \in Nat
    OBVIOUS
  <2>2. CASE k <= 2 * n
    BY <1>1, <1>6, <2>1, <2>2
  <2>3. CASE k = 2 * n + 1
    <3>1. ~(k <= 2 * n) /\ k - 2 * n = 1
      BY <2>0, <2>3
    <3> QED  BY <1>4, <1>5, <1>6, <2>1, <2>3, <3>1
  <2>4. CASE k = 2 * n + 2
    <3>1. ~(k <= 2 * n) /\ k - 2 * n = 2
      BY <2>0, <2>4
    <3> QED  BY <1>4, <1>5, <1>6, <2>1, <2>4, <3>1
  <2>5. k <= 2 * n \/ k = 2 * n + 1 \/ k = 2 * n + 2
    BY <2>0
  <2> QED  BY <2>2, <2>3, <2>4, <2>5
<1>8. Len(c) = 2 * n + 2
  BY <1>2
<1> QED  BY <1>2, <1>6, <1>7, <1>8, SeqEqual DEF a, b, c

(* FlattenSeq joins from the left: its result is the last value of         *)
(* whatever satisfies its recursion.                                       *)
LEMMA FlattenIs ==
    ASSUME NEW n \in Nat \ {0}, NEW s, Len(s) = n, NEW g,
           \A i \in 1..n : g[i] = IF i = 1 THEN s[i] ELSE g[i - 1] \o s[i]
    PROVE  FlattenSeq(s) = g[n]
<1> DEFINE Joins(f) == f = [i \in 1..n |-> IF i = 1 THEN s[i] ELSE f[i - 1] \o s[i]]
           h == CHOOSE f : Joins(f)
           w == [i \in 1..n |-> g[i]]
<1>1. FlattenSeq(s) = h[n]
  BY DEF FlattenSeq
<1>2. Joins(w)
  <2>1. ASSUME NEW i \in 1..n
        PROVE  g[i] = IF i = 1 THEN s[i] ELSE w[i - 1] \o s[i]
    <3>1. i # 1 => i - 1 \in 1..n
      OBVIOUS
    <3> QED  BY <3>1
  <2> QED  BY <2>1
<1>3. Joins(h)
  BY <1>2
<1> HIDE DEF h
<1>4. \A i \in 1..n : h[i] = IF i = 1 THEN s[i] ELSE h[i - 1] \o s[i]
  BY <1>3
<1> HIDE DEF Joins
<1> DEFINE T == {i \in 1..n : h[i] # g[i]}
<1>5. T = {}
  <2>1. SUFFICES ASSUME T # {} PROVE FALSE
    OBVIOUS
  <2>2. PICK i \in T : \A j \in T : i <= j
    <3>1. T \subseteq Nat
      OBVIOUS
    <3> QED  BY <2>1, <3>1, LeastExists
  <2>3. CASE i = 1
    BY <1>4, <2>3
  <2>4. CASE i # 1
    <3>1. i - 1 \in 1..n /\ i - 1 \notin T
      BY <2>2, <2>4
    <3> QED  BY <1>4, <2>4, <3>1
  <2> QED  BY <2>3, <2>4
<1>6. n \in 1..n
  OBVIOUS
<1>7. h[n] = g[n]
  BY <1>5, <1>6
<1> QED  BY <1>1, <1>7

(* The document is the mark and the rows of the records accepted.          *)
LEMMA DocumentIs ==
    ASSUME TypeOK, Bounded, \A i \in 1..Len(accepted) : ~accepted[i].multiline
    PROVE  Document = WholeDocument(format.bom, Len(accepted))
<1> DEFINE n == Len(accepted)
           s == [i \in 1..n |-> Encoded(i, accepted[i])]
           g == [i \in 1..n |-> Rows(i)]
<1>1. n \in Nat /\ n <= MaxRecords /\ \A i \in 1..n : accepted[i] \in Records
  BY LenProperties, ElementOfSeq DEF TypeOK, Bounded
<1>2. Len(s) = n
  BY <1>1
<1>3. FlattenSeq(s) = Rows(n)
  <2>1. CASE n = 0
    <3>1. s = <<>> /\ Rows(n) = <<>>
      BY <2>1 DEF Rows
    <3> QED  BY <1>2, <2>1, <3>1 DEF FlattenSeq
  <2>2. CASE n # 0
    <3>1. ASSUME NEW i \in 1..n
          PROVE  Rows(i) = IF i = 1 THEN s[i] ELSE g[i - 1] \o s[i]
      <4>1. /\ i - 1 \in Nat /\ (i - 1) + 1 = i /\ i <= MaxRecords
            /\ accepted[i] \in Records /\ ~accepted[i].multiline
        BY <1>1, BoundsAssumption
      <4>2. Rows(i - 1) \o s[i] = Rows(i)
        BY <4>1, NextRow
      <4>3. CASE i = 1
        <5>1. Rows(0) = <<>> /\ i - 1 = 0 /\ Rows(0) \in Seq(Pieces)
          <6>1. 0 \in Nat /\ 0 <= MaxRecords
            BY BoundsAssumption
          <6>2. Rows(0) \in Seq(Pieces) /\ Len(Rows(0)) = 0
            BY <6>1, RowsAre
          <6> QED  BY <4>3, <6>2, EmptySeq
        <5>2. s[i] \in Seq(Pieces)
          BY <4>1, RecordEncodes DEF Encodes
        <5>3. <<>> \o s[i] = s[i]
          BY <5>2, ConcatEmptySeq
        <5> QED  BY <4>2, <4>3, <5>1, <5>3
      <4>4. CASE i # 1
        <5>1. i - 1 \in 1..n
          BY <1>1, <4>4
        <5>2. g[i - 1] = Rows(i - 1)
          BY <5>1
        <5> QED  BY <4>2, <4>4, <5>2
      <4> QED  BY <4>3, <4>4
    <3>2. \A i \in 1..n : g[i] = IF i = 1 THEN s[i] ELSE g[i - 1] \o s[i]
      BY <3>1
    <3>3. g[n] = Rows(n) /\ n \in Nat \ {0}
      BY <1>1, <2>2
    <3> HIDE DEF g, s, n
    <3> QED  BY <1>2, <3>2, <3>3, FlattenIs
  <2> QED  BY <2>1, <2>2
<1> QED  BY <1>3 DEF Document, WholeDocument

(* While an emitter lives, the file and its buffer are the document, short *)
(* of a byte-order mark that the first commit is still to put in front;    *)
(* the file on its own is the beginning of it.                             *)
Kept ==
    /\ \A i \in 1..Len(accepted) : ~accepted[i].multiline
    /\ \E rest \in Seq(Pieces) : file \o rest = WholeDocument(format.bom, Len(accepted))
    /\ live /\ (started \/ ~bom) => file \o buffer = WholeDocument(format.bom, Len(accepted))
    /\ live /\ ~started /\ bom =>
          accepted = <<>> /\ file \o Bom = WholeDocument(format.bom, Len(accepted))

(* The document's pieces, and that it grows by what a record is encoded to.*)
LEMMA DocumentGrows ==
    ASSUME NEW marked \in BOOLEAN, NEW n \in Nat, n + 1 <= MaxRecords,
           NEW u \in Records, ~u.multiline
    PROVE  WholeDocument(marked, n) \o Encoded(n + 1, u) = WholeDocument(marked, n + 1)
<1> DEFINE mark == IF marked THEN Bom ELSE <<>>
<1>1. Bom \in Seq(Pieces)
  BY BomEncodes DEF Encodes
<1>2. mark \in Seq(Pieces)
  BY <1>1
<1>3. Rows(n) \in Seq(Pieces)
  BY BoundsAssumption, RowsAre
<1>4. Encoded(n + 1, u) \in Seq(Pieces)
  BY RecordEncodes DEF Encodes
<1>5. Rows(n) \o Encoded(n + 1, u) = Rows(n + 1)
  BY NextRow
<1> HIDE DEF mark
<1>6. (mark \o Rows(n)) \o Encoded(n + 1, u) = mark \o (Rows(n) \o Encoded(n + 1, u))
  BY <1>2, <1>3, <1>4, JoinedPieces
<1> QED  BY <1>5, <1>6 DEF WholeDocument, mark

LEMMA DocumentType ==
    ASSUME NEW marked \in BOOLEAN, NEW n \in Nat, n <= MaxRecords
    PROVE  WholeDocument(marked, n) \in Seq(Pieces)
<1>1. Bom \in Seq(Pieces) /\ <<>> \in Seq(Pieces)
  BY BomEncodes, EmptySeq DEF Encodes
<1>2. Rows(n) \in Seq(Pieces)
  BY RowsAre
<1> QED  BY <1>1, <1>2, ConcatProperties DEF WholeDocument

(* What a commit puts in the buffer, or writes, continues the document.    *)
LEMMA AcceptKeeps ==
    ASSUME IInv, Kept, live, live' = live, format' = format, bom' = bom,
           NEW units \in Seq(Records), \A i \in 1..Len(units) : ~units[i].multiline,
           NEW bytes \in Seq(Pieces), Accept(units, bytes),
           WholeDocument(format.bom, Len(accepted)) \o bytes
             = WholeDocument(format.bom, Len(accepted) + Len(units))
    PROVE  Kept'
<1> DEFINE n == Len(accepted)
           content == IF ~started /\ bom THEN Bom \o (buffer \o bytes) ELSE buffer \o bytes
<1>1. /\ file \in Seq(Pieces) /\ buffer \in Seq(Pieces) /\ accepted \in Seq(Records)
      /\ n \in Nat /\ Len(units) \in Nat /\ Bom \in Seq(Pieces)
  BY LenProperties, BomEncodes DEF IInv, TypeOK, Encodes
<1>2. content \in Seq(Pieces) /\ file \o content = WholeDocument(format.bom, n) \o bytes
  <2>1. buffer \o bytes \in Seq(Pieces)
    BY <1>1, ConcatProperties
  <2>2. CASE ~started /\ bom
    <3>1. buffer = <<>> /\ file \o Bom = WholeDocument(format.bom, n)
      BY <2>2 DEF IInv, Fresh, Kept
    <3>2. content = Bom \o bytes
      BY <1>1, <2>2, <3>1, ConcatEmptySeq
    <3>3. (file \o Bom) \o bytes = file \o (Bom \o bytes) /\ Bom \o bytes \in Seq(Pieces)
      <4>1. file \in Seq(Pieces) /\ Bom \in Seq(Pieces) /\ bytes \in Seq(Pieces)
        BY <1>1
      <4> QED  BY ONLY <4>1, JoinedPieces
    <3> QED  BY <3>1, <3>2, <3>3
  <2>3. CASE ~(~started /\ bom)
    <3>1. started \/ ~bom
      BY <2>3
    <3>2. file \o buffer = WholeDocument(format.bom, n)
      BY <3>1 DEF Kept
    <3>3. content = buffer \o bytes
      BY <2>3
    <3>4. (file \o buffer) \o bytes = file \o (buffer \o bytes)
      <4>1. file \in Seq(Pieces) /\ buffer \in Seq(Pieces) /\ bytes \in Seq(Pieces)
        BY <1>1
      <4> QED  BY ONLY <4>1, JoinedPieces
    <3> QED  BY <2>1, <3>2, <3>3, <3>4
  <2> QED  BY <2>2, <2>3
<1>3. /\ \/ \E k \in 0..Len(content) : Written(content, k)
         \/ buffer' = content /\ file' = file
      /\ started' = TRUE /\ accepted' = accepted \o units
  BY DEF Accept
<1> HIDE DEF content
<1>4. file' \o buffer' = file \o content /\ buffer' \in Seq(Pieces)
  <2>1. ASSUME NEW k \in 0..Len(content), Written(content, k)
        PROVE  file' \o buffer' = file \o content /\ buffer' \in Seq(Pieces)
    BY <1>1, <1>2, <2>1, WrittenMoves
  <2> QED  BY <1>2, <1>3, <2>1
<1>5. /\ Len(accepted') = n + Len(units)
      /\ \A i \in 1..(n + Len(units)) :
            accepted'[i] = IF i <= n THEN accepted[i] ELSE units[i - n]
  BY <1>1, <1>3, ConcatProperties
<1>6. ASSUME NEW i \in 1..Len(accepted')
      PROVE  ~accepted'[i].multiline
  <2>1. CASE i <= n
    <3>1. i \in 1..n /\ accepted'[i] = accepted[i]
      BY <1>1, <1>5, <2>1
    <3> QED  BY <3>1 DEF Kept
  <2>2. CASE ~(i <= n)
    <3>1. i - n \in 1..Len(units) /\ accepted'[i] = units[i - n]
      BY <1>1, <1>5, <2>2
    <3> QED  BY <3>1
  <2> QED  BY <2>1, <2>2
<1>7. file' \o buffer' = WholeDocument(format'.bom, Len(accepted'))
  BY <1>2, <1>4, <1>5
<1> QED  BY <1>3, <1>4, <1>6, <1>7 DEF Kept

(* What moves from the buffer to the file.                                 *)
LEMMA FlushKeeps ==
    ASSUME IInv, Kept, FlushSink
    PROVE  Kept'
<1>1. /\ file \in Seq(Pieces) /\ buffer \in Seq(Pieces) /\ live
      /\ UNCHANGED <<format, bom, started, accepted>>
  BY DEF IInv, TypeOK, FlushSink
<1>2. PICK n \in 0..Len(buffer) : Written(buffer, n)
  BY DEF FlushSink
<1>3. file' \o buffer' = file \o buffer /\ buffer' \in Seq(Pieces)
  BY <1>1, <1>2, WrittenMoves
<1>4. CASE started \/ ~bom
  <2>1. file' \o buffer' = WholeDocument(format'.bom, Len(accepted'))
    BY <1>1, <1>3, <1>4 DEF Kept
  <2>2. \A i \in 1..Len(accepted') : ~accepted'[i].multiline
    BY <1>1 DEF Kept
  <2> QED  BY <1>1, <1>3, <1>4, <2>1, <2>2 DEF Kept
<1>5. CASE ~started /\ bom
  <2>1. buffer = <<>>
    BY <1>1, <1>5 DEF IInv, Fresh
  <2>2. n = 0 /\ SubSeq(buffer, 1, n) = <<>>
    BY <1>2, <2>1
  <2>3. file' = file
    <3>1. file' = file \o <<>>
      BY <1>2, <2>2 DEF Written
    <3> QED  BY <1>1, <3>1, ConcatEmptySeq
  <2> QED  BY <1>1, <1>5, <2>3 DEF Kept
<1> QED  BY <1>4, <1>5

(* What is lost with the emitter was not in the file.                      *)
LEMMA LostKeeps ==
    ASSUME IInv, Kept, Drop \/ Abandon
    PROVE  Kept'
<1>1. /\ file \in Seq(Pieces) /\ buffer \in Seq(Pieces) /\ live /\ ~live'
      /\ UNCHANGED <<format, bom, started, accepted>>
  BY DEF IInv, TypeOK, Drop, Abandon
<1>2. CASE Abandon
  BY <1>1, <1>2 DEF Kept, Abandon
<1>3. CASE Drop
  <2>1. PICK n \in 0..Len(buffer) : file' = file \o SubSeq(buffer, 1, n)
    BY <1>3 DEF Drop
  <2>2. CASE started \/ ~bom
    <3> DEFINE head == SubSeq(buffer, 1, n)
               tail == SubSeq(buffer, n + 1, Len(buffer))
    <3>1. Len(buffer) \in Nat /\ \A i \in 1..Len(buffer) : buffer[i] \in Pieces
      BY <1>1, LenProperties, ElementOfSeq
    <3>2. head \in Seq(Pieces) /\ tail \in Seq(Pieces)
      BY <3>1, SubSeqProperties
    <3>3. head \o tail = buffer
      <4>1. /\ 1 \in 1..(Len(buffer) + 1) /\ n \in (1 - 1)..Len(buffer)
            /\ Len(buffer) \in n..Len(buffer)
        BY <3>1
      <4>2. head \o tail = SubSeq(buffer, 1, Len(buffer))
        BY <1>1, <4>1, ConcatAdjacentSubSeq
      <4> QED  BY <1>1, <4>2, SubSeqFull
    <3>4. file' = file \o head
      BY <2>1
    <3> HIDE DEF head, tail
    <3>5. (file \o head) \o tail = file \o (head \o tail)
      BY <1>1, <3>2, JoinedPieces
    <3>6. file' \o tail = WholeDocument(format'.bom, Len(accepted'))
      BY <1>1, <2>2, <3>3, <3>4, <3>5 DEF Kept
    <3>7. \A i \in 1..Len(accepted') : ~accepted'[i].multiline
      BY <1>1 DEF Kept
    <3> QED  BY <1>1, <3>2, <3>6, <3>7 DEF Kept
  <2>3. CASE ~started /\ bom
    <3>1. buffer = <<>>
      BY <1>1, <2>3 DEF IInv, Fresh
    <3>2. n = 0 /\ SubSeq(buffer, 1, n) = <<>>
      BY <2>1, <3>1
    <3>3. file' = file
      BY <1>1, <2>1, <3>2, ConcatEmptySeq
    <3> QED  BY <1>1, <3>3 DEF Kept
  <2> QED  BY <2>2, <2>3
<1> QED  BY <1>2, <1>3

(* The pieces of the document, one by one.                                 *)
LEMMA DocumentPieces ==
    ASSUME NEW marked \in BOOLEAN, NEW n \in Nat, n <= MaxRecords
    PROVE  /\ WholeDocument(marked, n) \in Seq(Pieces)
           /\ Len(WholeDocument(marked, n)) = MarkLen(marked) + 2 * n
           /\ \A j \in 1..MarkLen(marked) :
                 /\ WholeDocument(marked, n)[j] = Bom[j]
                 /\ WholeDocument(marked, n)[j].id = 0
                 /\ ~WholeDocument(marked, n)[j].ends
           /\ \A k \in 1..(2 * n) : WholeDocument(marked, n)[MarkLen(marked) + k] = Rows(n)[k]
<1> DEFINE mark == IF marked THEN Bom ELSE <<>>
           d == WholeDocument(marked, n)
           b == MarkLen(marked)
<1>1. Bom \in Seq(Pieces) /\ Len(Bom) = 2 /\ \A j \in 1..2 : Bom[j].id = 0 /\ ~Bom[j].ends
  <2>1. Bom \in Seq(Pieces)
    BY BomEncodes DEF Encodes
  <2>2. Len(Bom) = 2 /\ \A j \in 1..2 : Bom[j].id = 0 /\ ~Bom[j].ends
    BY DEF Bom, Piece
  <2> QED  BY <2>1, <2>2
<1>2. /\ mark \in Seq(Pieces) /\ Len(mark) = b
      /\ \A j \in 1..b : mark[j] = Bom[j] /\ mark[j].id = 0 /\ ~mark[j].ends
  <2>1. CASE marked
    BY <1>1, <2>1 DEF MarkLen
  <2>2. CASE ~marked
    <3>1. mark = <<>> /\ b = 0
      BY <2>2 DEF MarkLen
    <3> HIDE DEF mark, b
    <3> QED  BY <3>1
  <2> QED  BY <2>1, <2>2
<1>3. Rows(n) \in Seq(Pieces) /\ Len(Rows(n)) = 2 * n /\ 2 * n \in Nat
  BY RowsAre
<1>4. d = mark \o Rows(n)
  BY DEF WholeDocument
<1>8. b \in Nat
  BY DEF MarkLen
<1> HIDE DEF mark, d, b
<1>5. /\ d \in Seq(Pieces) /\ Len(d) = b + 2 * n
      /\ \A j \in 1..(b + 2 * n) : d[j] = IF j <= b THEN mark[j] ELSE Rows(n)[j - b]
  <2>1. /\ d \in Seq(Pieces) /\ Len(d) = Len(mark) + Len(Rows(n))
        /\ \A j \in 1..(Len(mark) + Len(Rows(n))) :
              d[j] = IF j <= Len(mark) THEN mark[j] ELSE Rows(n)[j - Len(mark)]
    BY <1>2, <1>3, <1>4, ConcatProperties
  <2> QED  BY <1>2, <1>3, <2>1
<1>6. \A j \in 1..b : d[j] = mark[j]
  BY <1>3, <1>5, <1>8
<1>7. ASSUME NEW k \in 1..(2 * n)
      PROVE  d[b + k] = Rows(n)[k]
  <2>1. b + k \in 1..(b + 2 * n) /\ ~(b + k <= b) /\ (b + k) - b = k
    BY <1>3, <1>8
  <2> QED  BY <1>5, <2>1
<1> QED  BY <1>2, <1>5, <1>6, <1>7 DEF d, b

(* A beginning of the document that ends with a record is the document of  *)
(* the records up to that one.                                             *)
LEMMA EndsWithRecord ==
    ASSUME NEW marked \in BOOLEAN, NEW n \in Nat, n <= MaxRecords,
           NEW a \in Seq(Pieces), NEW rest \in Seq(Pieces),
           a \o rest = WholeDocument(marked, n),
           a # <<>>, Last(a).ends, Last(a).last
    PROVE  \E k \in 0..n : a = WholeDocument(marked, k)
<1> DEFINE b == MarkLen(marked)
           d == WholeDocument(marked, n)
           m == Len(a)
<1>1. b \in Nat
  BY DEF MarkLen
<1>2. /\ d \in Seq(Pieces) /\ Len(d) = b + 2 * n
      /\ \A j \in 1..b : d[j] = Bom[j] /\ ~d[j].ends
      /\ \A k \in 1..(2 * n) : d[b + k] = Rows(n)[k]
  BY DocumentPieces
<1>3. /\ m \in Nat \ {0} /\ m <= b + 2 * n
      /\ \A j \in 1..m : a[j] = d[j]
  <2>1. /\ Len(a \o rest) = Len(a) + Len(rest) /\ Len(a) \in Nat /\ Len(rest) \in Nat
        /\ \A j \in 1..Len(a) : (a \o rest)[j] = a[j]
    BY ConcatProperties, LenProperties
  <2>2. Len(a) # 0
    BY EmptySeq
  <2> QED  BY <1>2, <2>1, <2>2
<1>4. d[m].ends /\ d[m].last
  <2>1. a[m] = d[m]
    BY <1>3
  <2> QED  BY <2>1 DEF Last
<1> HIDE DEF b, d, m
<1>5. m > b
  <2>1. m <= b => m \in 1..b
    BY <1>1, <1>3
  <2> QED  BY <1>1, <1>2, <1>3, <1>4, <2>1
<1>6. m - b \in 1..(2 * n) /\ (m - b) % 2 = 0
  <2>1. m - b \in 1..(2 * n) /\ b + (m - b) = m
    BY <1>1, <1>3, <1>5
  <2>2. d[m] = Rows(n)[m - b]
    BY <1>2, <2>1
  <2>3. Rows(n)[m - b].last = ((m - b) % 2 = 0)
    BY <2>1, RowsAre
  <2> QED  BY <1>4, <2>1, <2>2, <2>3
<1>7. PICK k \in 0..n : m = b + 2 * k
  <2> DEFINE r == m - b
  <2>2. r \in 1..(2 * n) /\ r % 2 = 0
    BY <1>6
  <2>3. m = b + r
    BY <1>1, <1>3
  <2> HIDE DEF r
  <2>4. r \div 2 \in 0..n /\ r = 2 * (r \div 2)
    BY <2>2
  <2>1. r \div 2 \in 0..n /\ m = b + 2 * (r \div 2)
    BY <2>3, <2>4
  <2> QED  BY <2>1
<1> DEFINE e == WholeDocument(marked, k)
<1>8. /\ e \in Seq(Pieces) /\ Len(e) = b + 2 * k
      /\ \A j \in 1..b : e[j] = Bom[j]
      /\ \A i \in 1..(2 * k) : e[b + i] = Rows(k)[i]
  <2>1. k \in Nat /\ k <= MaxRecords
    BY BoundsAssumption
  <2> QED  BY <1>1, <2>1, DocumentPieces DEF b
<1> HIDE DEF e
<1>9. ASSUME NEW j \in 1..m
      PROVE  a[j] = e[j]
  <2>1. CASE j <= b
    <3>1. j \in 1..b
      BY <2>1
    <3> QED  BY <1>2, <1>3, <1>8, <3>1
  <2>2. CASE j > b
    <3>1. j - b \in 1..(2 * k) /\ j - b \in 1..(2 * n) /\ b + (j - b) = j
      BY <1>1, <1>3, <1>7, <2>2
    <3>2. Rows(n)[j - b] = Rows(k)[j - b]
      <4>1. k \in Nat /\ k <= MaxRecords
        BY BoundsAssumption
      <4> QED  BY <3>1, <4>1, RowsAre
    <3>3. e[j] = Rows(k)[j - b]
      BY <1>8, <3>1
    <3>4. d[j] = Rows(n)[j - b]
      BY <1>2, <3>1
    <3> QED  BY <1>3, <3>2, <3>3, <3>4
  <2> QED  BY <1>1, <2>1, <2>2
<1>10. a = e
  BY <1>7, <1>8, <1>9, SeqEqual DEF m
<1> QED  BY <1>10 DEF e

(* Which records are in a file that is the document of the first k.        *)
LEMMA WholeOfDocument ==
    ASSUME TypeOK, Bounded, NEW k \in 0..Len(accepted), file = WholeDocument(format.bom, k)
    PROVE  Whole = 1..k
<1> DEFINE b == MarkLen(format.bom)
<1>1. /\ format.bom \in BOOLEAN /\ Len(accepted) \in Nat /\ k \in Nat /\ k <= MaxRecords
      /\ b \in Nat
  BY LenProperties, BoundsAssumption DEF MarkLen, TypeOK, Bounded, Formats
<1>2. /\ Len(file) = b + 2 * k
      /\ \A j \in 1..b : file[j].id = 0
      /\ \A i \in 1..(2 * k) : file[b + i] = Rows(k)[i]
  BY <1>1, DocumentPieces
<1>3. \A i \in 1..(2 * k) : /\ Rows(k)[i].id = (i + 1) \div 2 /\ Rows(k)[i].id \in 1..k
                            /\ Rows(k)[i].last = (i % 2 = 0)
  BY <1>1, RowsAre
<1> HIDE DEF b
<1>4. ASSUME NEW i \in Whole
      PROVE  i \in 1..k
  <2>1. PICK j \in 1..Len(file) : file[j].id = i
    BY DEF Whole
  <2>2. i # 0
    BY <1>1 DEF Whole
  <2>3. j - b \in 1..(2 * k) /\ b + (j - b) = j
    <3>1. j \notin 1..b
      BY <1>2, <2>1, <2>2
    <3> QED  BY <1>1, <1>2, <3>1
  <2>4. file[j] = Rows(k)[j - b]
    BY <1>2, <2>3
  <2> QED  BY <1>3, <2>1, <2>3, <2>4
<1>5. ASSUME NEW i \in 1..k
      PROVE  i \in Whole
  <2>1. 2 * i \in 1..(2 * k) /\ (2 * i + 1) \div 2 = i /\ (2 * i) % 2 = 0
    BY <1>1
  <2>2. file[b + 2 * i].id = i /\ file[b + 2 * i].last
    BY <1>2, <1>3, <2>1
  <2>3. b + 2 * i \in 1..Len(file) /\ i \in 1..Len(accepted)
    BY <1>1, <1>2, <2>1
  <2> QED  BY <2>2, <2>3 DEF Whole
<1> QED  BY <1>4, <1>5

(* append_path: what it takes up is a document, of the records that are    *)
(* all there.                                                              *)
LEMMA AppendKeeps ==
    ASSUME IInv, Kept, SingleLines, AppendPath
    PROVE  Kept'
<1> DEFINE N == Len(accepted)
           n == Cardinality(Whole)
<1>1. /\ file \in Seq(Pieces) /\ accepted \in Seq(Records) /\ N \in Nat /\ N <= MaxRecords
      /\ format.bom \in BOOLEAN
      /\ live' = TRUE /\ buffer' = <<>> /\ started' = FALSE
      /\ bom' = (format.bom /\ DocumentState = "Empty")
      /\ accepted' = SubSeq(accepted, 1, n) /\ UNCHANGED <<format, file>>
  BY LenProperties DEF IInv, TypeOK, Bounded, AppendPath, Formats
<1>2. n \in 0..N
  BY WholeIsPrefix DEF IInv
<1>3. PICK rest \in Seq(Pieces) : file \o rest = WholeDocument(format.bom, N)
  BY DEF Kept
<1> HIDE DEF n
<1>4. Len(accepted') = n /\ \A i \in 1..n : accepted'[i] = accepted[i]
  <2>1. \A i \in 1..n : accepted[i] \in Records
    BY <1>1, <1>2, ElementOfSeq
  <2>2. n \in Int /\ 1 \in Int /\ n - 1 + 1 = n
    BY <1>1, <1>2
  <2>3. /\ Len(SubSeq(accepted, 1, n)) = IF 1 <= n THEN n - 1 + 1 ELSE 0
        /\ \A i \in 1..(n - 1 + 1) : SubSeq(accepted, 1, n)[i] = accepted[1 + i - 1]
    BY <2>1, <2>2, SubSeqProperties
  <2>4. \A i \in 1..n : 1 + i - 1 = i
    BY <1>2
  <2> QED  BY <1>1, <1>2, <2>2, <2>3, <2>4
<1>5. \A i \in 1..Len(accepted') : ~accepted'[i].multiline
  <2>1. \A i \in 1..n : i \in 1..N
    BY <1>1, <1>2
  <2> QED  BY <1>4, <2>1 DEF Kept
<1>6. ASSUME NEW k \in 0..N, file = WholeDocument(format.bom, k)
      PROVE  n = k
  <2>1. Whole = 1..k
    BY <1>6, WholeOfDocument DEF IInv
  <2>2. Cardinality(1..k) = k
    <3>1. 1 \in Int /\ k \in Int
      BY <1>1
    <3>2. Cardinality(1..k) = IF 1 > k THEN 0 ELSE k - 1 + 1
      BY <3>1, FS_Interval
    <3> QED  BY <1>1, <3>2
  <2> QED  BY <2>1, <2>2 DEF n
<1>7. CASE file = <<>>
  <2>1. n = 0
    <3>1. Whole = {}
      BY <1>7 DEF Whole
    <3> QED  BY <3>1, FS_EmptySet DEF n
  <2>2. bom' = format.bom /\ accepted' = <<>>
    <3>1. DocumentState = "Empty"
      BY <1>7 DEF DocumentState
    <3>2. accepted' = <<>>
      BY <1>1, <2>1, SubSeqEmpty
    <3> QED  BY <1>1, <3>1, <3>2
  <2>3. Rows(0) = <<>>
    <3>1. 0 \in Nat /\ 0 <= MaxRecords
      BY BoundsAssumption
    <3>2. Rows(0) \in Seq(Pieces) /\ Len(Rows(0)) = 0
      BY <3>1, RowsAre
    <3> QED  BY <3>2, EmptySeq
  <2>4. Bom \in Seq(Pieces) /\ <<>> \in Seq(Pieces)
    BY BomEncodes, EmptySeq DEF Encodes
  <2>5. CASE format.bom
    <3>1. WholeDocument(format.bom, 0) = Bom /\ file' \o Bom = Bom
      BY <1>1, <1>7, <2>3, <2>4, <2>5, ConcatEmptySeq DEF WholeDocument
    <3> QED  BY <1>1, <1>4, <1>5, <2>1, <2>2, <2>4, <2>5, <3>1 DEF Kept
  <2>6. CASE ~format.bom
    <3>1. WholeDocument(format.bom, 0) = <<>> /\ file' \o buffer' = <<>>
      BY <1>1, <1>7, <2>3, <2>4, <2>6, ConcatEmptySeq DEF WholeDocument
    <3> QED  BY <1>1, <1>4, <1>5, <2>1, <2>2, <2>4, <2>6, <3>1 DEF Kept
  <2> QED  BY <2>5, <2>6
<1>8. CASE file # <<>>
  <2>1. \E k \in 0..N : file = WholeDocument(format.bom, k)
    <3>1. CASE file = Bom
      <4>1. Len(Bom) = 2 /\ Bom[1].id = 0 /\ Bom \in Seq(Pieces)
        <5>1. Len(Bom) = 2 /\ Bom[1].id = 0
          BY DEF Bom, Piece
        <5> QED  BY <5>1, BomEncodes DEF Encodes
      <4>2. CASE format.bom
        <5>1. Rows(0) = <<>>
          <6>1. 0 \in Nat /\ 0 <= MaxRecords
            BY BoundsAssumption
          <6>2. Rows(0) \in Seq(Pieces) /\ Len(Rows(0)) = 0
            BY <6>1, RowsAre
          <6> QED  BY <6>2, EmptySeq
        <5>2. WholeDocument(format.bom, 0) = Bom
          BY <4>1, <4>2, <5>1, ConcatEmptySeq DEF WholeDocument
        <5> QED  BY <1>1, <3>1, <5>2
      <4>3. CASE ~format.bom
        <5>1. 1 \in 1..Len(file) /\ file[1].id = 0
          BY <3>1, <4>1
        <5>2. /\ Len(file \o rest) = Len(file) + Len(rest) /\ Len(rest) \in Nat
              /\ \A j \in 1..Len(file) : (file \o rest)[j] = file[j]
          BY <1>1, ConcatProperties, LenProperties
        <5>3. Rows(N) \in Seq(Pieces) /\ WholeDocument(format.bom, N) = Rows(N)
          <6>1. Rows(N) \in Seq(Pieces)
            BY <1>1, RowsAre
          <6> QED  BY <4>3, <6>1, ConcatEmptySeq DEF WholeDocument
        <5>4. 1 \in 1..(2 * N) /\ Rows(N)[1].id = 0
          <6>1. Len(Rows(N)) = 2 * N
            BY <1>1, RowsAre
          <6> QED  BY <1>3, <3>1, <4>1, <5>1, <5>2, <5>3, <6>1
        <5>5. Rows(N)[1].id \in 1..N
          BY <1>1, <5>4, RowsAre
        <5> QED  BY <1>1, <5>4, <5>5
      <4> QED  BY <4>2, <4>3
    <3>2. CASE file # Bom
      <4>1. Last(file).ends
        BY <1>8, <3>2 DEF AppendPath, DocumentState
      <4>2. Last(file).last
        <5>1. Len(file) \in 1..Len(file)
          BY <1>1, <1>8, EmptySeq
        <5> QED  BY <4>1, <5>1 DEF Last, SingleLines, EndsAreLast
      <4> QED  BY <1>1, <1>3, <1>8, <4>1, <4>2, EndsWithRecord
    <3> QED  BY <3>1, <3>2
  <2>2. PICK k \in 0..N : file = WholeDocument(format.bom, k)
    BY <2>1
  <2>3. n = k
    BY <1>6, <2>2
  <2>4. bom' = FALSE
    <3>1. DocumentState # "Empty"
      BY <1>8 DEF DocumentState
    <3> QED  BY <1>1, <3>1
  <2>5. file' \o buffer' = WholeDocument(format'.bom, Len(accepted')) /\ buffer' \in Seq(Pieces)
    BY <1>1, <1>4, <2>2, <2>3, ConcatEmptySeq, EmptySeq
  <2> QED  BY <1>1, <1>5, <2>4, <2>5 DEF Kept
<1> QED  BY <1>7, <1>8

(* Only records on one line are emitted, and each step keeps the document. *)
LEMMA KeptStep ==
    ASSUME Multiline \subseteq {FALSE}, IInv, Kept, SingleLines, [Next]_vars
    PROVE  Kept'
<1> DEFINE n == Len(accepted)
<1>1. n \in Nat /\ format.bom \in BOOLEAN
  BY LenProperties DEF IInv, TypeOK, Formats
<1>2. CASE UNCHANGED vars
  BY <1>2 DEF Kept, vars, core
<1>3. ASSUME NEW u \in DataRecords, Emit(u)
      PROVE  Kept'
  <2>1. u \in Records /\ ~u.multiline /\ <<u>> \in Seq(Records) /\ Len(<<u>>) = 1
    <3>1. u \in Records /\ ~u.multiline
      BY MultilineAssumption DEF DataRecords, Records
    <3> QED  BY <3>1
  <2>2. Accept(<<u>>, Encoded(n + 1, u)) /\ live /\ UNCHANGED <<live, format, bom>>
    BY <1>3 DEF Emit, Accept
  <2>3. n + 1 <= MaxRecords
    BY <2>1, <2>2 DEF Accept
  <2>4. Encoded(n + 1, u) \in Seq(Pieces)
    BY <1>1, <2>1, <2>3, RecordEncodes DEF Encodes
  <2>5. WholeDocument(format.bom, n) \o Encoded(n + 1, u) = WholeDocument(format.bom, n + 1)
    BY <1>1, <2>1, <2>3, DocumentGrows
  <2>6. \A i \in 1..Len(<<u>>) : ~<<u>>[i].multiline
    BY <2>1
  <2> QED  BY <2>1, <2>2, <2>4, <2>5, <2>6, AcceptKeeps
<1>4. ASSUME NEW u \in DataRecords, NEW named \in BOOLEAN, SerializeFirst(u, named)
      PROVE  Kept'
  <2>1. /\ u \in Records /\ ~u.multiline
        /\ Header(u) \in Records /\ ~Header(u).multiline
    BY MultilineAssumption DEF DataRecords, Records, Header
  <2>2. CASE named
    <3> DEFINE units == <<Header(u), u>>
               first == Encoded(n + 1, Header(u))
               second == Encoded(n + 2, u)
    <3>1. /\ Accept(units, first \o second) /\ live
          /\ UNCHANGED <<live, format, bom>>
      BY <1>4, <2>2 DEF SerializeFirst, Accept, HeaderAndRecord
    <3>2. units \in Seq(Records) /\ Len(units) = 2
      BY <2>1
    <3>3. /\ n + 1 \in Nat /\ n + 2 \in Nat /\ n + 1 <= MaxRecords /\ n + 2 <= MaxRecords
          /\ (n + 1) + 1 = n + 2
      <4>1. n + 2 <= MaxRecords
        BY <3>1, <3>2 DEF Accept
      <4> QED  BY <1>1, <4>1, BoundsAssumption
    <3>4. first \in Seq(Pieces) /\ second \in Seq(Pieces)
      <4>1. Encodes(Encoded((n + 1) + 1, u), n + 1, (n + 1) + 1)
        BY <2>1, <3>3, RecordEncodes
      <4> QED  BY <1>1, <2>1, <3>3, <4>1, RecordEncodes DEF Encodes
    <3>5. WholeDocument(format.bom, n) \o first = WholeDocument(format.bom, n + 1)
      BY <1>1, <2>1, <3>3, DocumentGrows
    <3>6. WholeDocument(format.bom, n + 1) \o second = WholeDocument(format.bom, n + 2)
      <4>1. WholeDocument(format.bom, n + 1) \o Encoded((n + 1) + 1, u)
               = WholeDocument(format.bom, (n + 1) + 1)
        BY <1>1, <2>1, <3>3, DocumentGrows
      <4> QED  BY <3>3, <4>1
    <3>7. WholeDocument(format.bom, n) \in Seq(Pieces)
      <4>1. n <= MaxRecords
        BY <1>1, <3>3, BoundsAssumption
      <4> QED  BY <1>1, <4>1, DocumentType
    <3>8. \A i \in 1..Len(units) : ~units[i].multiline
      BY <2>1, <3>2
    <3> HIDE DEF first, second, units
    <3>9. WholeDocument(format.bom, n) \o (first \o second) = WholeDocument(format.bom, n + 2)
      <4>1. (WholeDocument(format.bom, n) \o first) \o second
               = WholeDocument(format.bom, n) \o (first \o second)
        BY <3>4, <3>7, JoinedPieces
      <4> QED  BY <3>5, <3>6, <4>1
    <3>10. first \o second \in Seq(Pieces)
      BY <3>4, ConcatProperties
    <3> QED  BY <3>1, <3>2, <3>8, <3>9, <3>10, AcceptKeeps
  <2>3. CASE ~named
    <3>1. Accept(<<u>>, Encoded(n + 1, u)) /\ live /\ UNCHANGED <<live, format, bom>>
      BY <1>4, <2>3 DEF SerializeFirst, Accept
    <3>2. <<u>> \in Seq(Records) /\ Len(<<u>>) = 1 /\ \A i \in 1..Len(<<u>>) : ~<<u>>[i].multiline
      BY <2>1
    <3>3. n + 1 <= MaxRecords
      BY <3>1, <3>2 DEF Accept
    <3>4. Encoded(n + 1, u) \in Seq(Pieces)
      BY <1>1, <2>1, <3>3, RecordEncodes DEF Encodes
    <3>5. WholeDocument(format.bom, n) \o Encoded(n + 1, u) = WholeDocument(format.bom, n + 1)
      BY <1>1, <2>1, <3>3, DocumentGrows
    <3> QED  BY <3>1, <3>2, <3>4, <3>5, AcceptKeeps
  <2> QED  BY <2>2, <2>3
<1>5. ASSUME NEW u \in DataRecords, Reject(u)
      PROVE  Kept'
  <2>1. UNCHANGED vars
    BY <1>5, RejectLeavesNothing DEF IInv
  <2> QED  BY <2>1 DEF Kept, vars, core
<1>6. CASE Flush
  <2>1. FlushSink
    BY <1>6 DEF Flush
  <2> QED  BY <2>1, FlushKeeps
<1>7. CASE IntoInner
  <2>1. FlushSink
    BY <1>7 DEF IntoInner
  <2> QED  BY <2>1, FlushKeeps
<1>8. CASE Drop \/ Abandon
  BY <1>8, LostKeeps
<1>9. CASE AppendPath
  BY <1>9, AppendKeeps
<1> QED  BY <1>2, <1>3, <1>4, <1>5, <1>6, <1>7, <1>8, <1>9 DEF Next

LEMMA InitKept == Init => Kept
<1> SUFFICES ASSUME Init PROVE Kept
  OBVIOUS
<1>1. /\ file = <<>> /\ buffer = <<>> /\ accepted = <<>> /\ ~started
      /\ bom = format.bom /\ Len(accepted) = 0 /\ format.bom \in BOOLEAN
  BY DEF Init, Formats
<1>2. Rows(0) = <<>>
  <2>1. 0 \in Nat /\ 0 <= MaxRecords
    BY BoundsAssumption
  <2>2. Rows(0) \in Seq(Pieces) /\ Len(Rows(0)) = 0
    BY <2>1, RowsAre
  <2> QED  BY <2>2, EmptySeq
<1>3. Bom \in Seq(Pieces) /\ <<>> \in Seq(Pieces)
  BY BomEncodes, EmptySeq DEF Encodes
<1>4. \A i \in 1..Len(accepted) : ~accepted[i].multiline
  BY <1>1
<1>5. CASE format.bom
  <2>1. WholeDocument(format.bom, 0) = Bom /\ file \o Bom = Bom
    BY <1>1, <1>2, <1>3, <1>5, ConcatEmptySeq DEF WholeDocument
  <2>2. \E rest \in Seq(Pieces) : file \o rest = WholeDocument(format.bom, 0)
    BY <1>3, <2>1
  <2>3. bom /\ ~started
    BY <1>1, <1>5
  <2> QED  BY <1>1, <1>4, <2>1, <2>2, <2>3 DEF Kept
<1>6. CASE ~format.bom
  <2>1. WholeDocument(format.bom, 0) = <<>> /\ file \o buffer = <<>>
    BY <1>1, <1>2, <1>3, <1>6, ConcatEmptySeq DEF WholeDocument
  <2>2. \E rest \in Seq(Pieces) : file \o rest = WholeDocument(format.bom, 0)
    BY <1>1, <1>3, <2>1
  <2>3. ~bom
    BY <1>1, <1>6
  <2> QED  BY <1>1, <1>4, <2>1, <2>2, <2>3 DEF Kept
<1> QED  BY <1>5, <1>6

(* As long as no record spans lines, the file and the buffer of a living   *)
(* emitter are the document of every record accepted, in order and each    *)
(* once, and the file is never anything but the beginning of it: through   *)
(* rejected records, failed writes, lost buffers and resumed documents.    *)
(* (With records that span lines append_path takes up a document that ends *)
(* in the middle of one, and the statement is false.)                      *)
THEOREM DocumentStaysIntact ==
    ASSUME Multiline \subseteq {FALSE}
    PROVE  Spec => []DocumentIntact
<1>1. Init => SingleLines
  BY DEF Init, SingleLines, EndsAreLast
<1>2. IInv /\ SingleLines /\ [Next]_vars => SingleLines'
  BY SingleLinesStep
<1>3. IInv /\ SingleLines /\ Kept /\ [Next]_vars => Kept'
  BY KeptStep
<1>4. IInv /\ Kept => DocumentIntact
  <2> SUFFICES ASSUME IInv, Kept PROVE DocumentIntact
    OBVIOUS
  <2>1. Document = WholeDocument(format.bom, Len(accepted))
    BY DocumentIs DEF IInv, Kept
  <2>2. PICK rest \in Seq(Pieces) : file \o rest = Document
    BY <2>1 DEF Kept
  <2>3. file \in Seq(Pieces) /\ Len(file) \in Nat /\ Len(rest) \in Nat
    BY LenProperties DEF IInv, TypeOK
  <2>4. /\ file \o rest \in Seq(Pieces) /\ Len(file \o rest) = Len(file) + Len(rest)
        /\ \A j \in 1..Len(file) : (file \o rest)[j] = file[j]
    BY <2>3, ConcatProperties
  <2>5. SubSeq(file, 1, Len(file)) = SubSeq(Document, 1, Len(file))
    <3>1. SubSeq(file, 1, Len(file)) = file
      BY <2>3, SubSeqFull
    <3>2. CASE file = <<>>
      BY <2>2, <2>3, <3>2, SubSeqEmpty
    <3>3. CASE file # <<>>
      <4>1. 1 \in 1..Len(file) /\ Len(file) \in 1..Len(file)
        BY <2>3, <3>3, EmptySeq
      <4> QED  BY <2>2, <2>3, <4>1, SubSeqOfConcat1
    <3> QED  BY <3>2, <3>3
  <2>6. IsPrefix(file, Document)
    BY <2>2, <2>3, <2>4, <2>5 DEF IsPrefix
  <2>7. live /\ accepted # <<>> => file \o buffer = Document
    BY <2>1 DEF Kept, IInv, TypeOK
  <2> QED  BY <2>6, <2>7 DEF DocumentIntact
<1> QED  BY <1>1, <1>2, <1>3, <1>4, InitKept, AlwaysIInv, PTL DEF Spec
=============================================================================
