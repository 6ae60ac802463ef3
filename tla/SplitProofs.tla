---------------------------- MODULE SplitProofs ----------------------------
(***************************************************************************)
(* The boundary pass finds record starts, for documents and formats of any *)
(* size: proofs of the invariants of Split.                                *)
(***************************************************************************)
EXTENDS Split, TLAPS

(* Where the parser may go with one byte: always to one of its modes.      *)
LEMMA NextModeType ==
    ASSUME NEW b \in Bytes, mode \in Modes, ~Failed
    PROVE  NextMode(b) \in Modes
  BY DEF Modes, Failed, NextMode, ModeAfter, FieldOpens, QuotedFieldEnds, Separated

(* Stride is a number of bytes, and that many bytes for each of the chunks *)
(* wanted would cover the document.                                        *)
LEMMA StrideCovers ==
    ASSUME length \in Nat, wanted \in Nat \ {0}
    PROVE  Stride \in Nat /\ Stride * wanted >= length /\ (length > 0 => Stride > 0)
  <1> DEFINE n == length + wanted - 1
  <1>1. n \in Nat /\ n \div wanted \in Nat /\ n = wanted * (n \div wanted) + (n % wanted) /\ n % wanted < wanted /\ n % wanted >= 0
    OBVIOUS
  <1> HIDE DEF n
  <1>2. Stride = n \div wanted
    BY DEF Stride, n
  <1> DEFINE s == n \div wanted
  <1>3. s * wanted >= length
    <2>1. s * wanted = n - (n % wanted)
      BY <1>1
    <2> QED  BY <2>1, <1>1 DEF n
  <1>4. length > 0 => s > 0
    <2> SUFFICES ASSUME length > 0, s = 0 PROVE FALSE
      BY <1>1
    <2>1. n = n % wanted
      BY <1>1
    <2> QED  BY <2>1, <1>1 DEF n
  <1> QED  BY <1>1, <1>2, <1>3, <1>4

(* A position of three numbers.                                            *)
LEMMA PositionType ==
    ASSUME NEW b \in Nat, NEW l \in Nat, NEW r \in Nat
    PROVE  Position(b, l, r) \in Positions
  BY DEF Position, Positions

-----------------------------------------------------------------------------
(* The first state is of the right types.                                  *)
LEMMA SplitInit == Init => TypeOK
<1> SUFFICES ASSUME Init PROVE TypeOK
  OBVIOUS
<1>1. length \in Nat /\ wanted \in Nat \ {0} /\ Stride \in Nat
  BY StrideCovers, LengthsAssumption, WantedAssumption DEF Init
<1>2. Start \in Positions
  BY PositionType DEF Start
<1>3. Start.line \in Nat /\ Start.record \in Nat
  BY DEF Start, Position
<1>4. splits \in Seq(Positions) /\ starts \subseteq Positions
  BY <1>2 DEF Init
<1>5. line \in Nat /\ record \in Nat /\ target \in Nat
  BY <1>1, <1>3 DEF Init
<1>6. in_quotes \in BOOLEAN /\ mode \in Modes
  BY DEF Init, Modes
<1>7. at \in 0..length /\ failedAt \in 0..length /\ feeds \in Nat /\ parsed \in Nat
  BY <1>1 DEF Init
<1> QED  BY <1>4, <1>5, <1>6, <1>7 DEF Init, TypeOK

(* And so is the state after any step.                                     *)
LEMMA SplitStep == TypeOK /\ [Next]_vars => TypeOK'
<1> SUFFICES ASSUME TypeOK, [Next]_vars PROVE TypeOK'
  OBVIOUS
<1>0. length \in Nat /\ wanted \in Nat \ {0} /\ Stride \in Nat
  BY StrideCovers, LengthsAssumption, WantedAssumption DEF TypeOK
<1>1. CASE Read
  <2>1. PICK b \in Bytes : Scan(b) /\ Parse(b)
    BY <1>1 DEF Read
  <2>2. /\ format' \in Formats /\ length' \in Lengths /\ wanted' \in Wanted
        /\ at' \in 0..length' /\ length' = length /\ at + 1 \in 0..length
        /\ at \in Nat /\ at + 1 \in Nat
    BY <1>0, <1>1 DEF Read, arguments, TypeOK
  <2>3. line' \in Nat /\ record' \in Nat
    BY <2>1 DEF Scan, TypeOK
  <2>4. in_quotes' \in BOOLEAN
    BY <2>1, Zenon DEF Scan, TypeOK
  <2>5. target' \in Nat /\ splits' \in Seq(Positions)
    <3>1. Position(at + 1, line', record') \in Positions
      BY <2>2, <2>3, PositionType
    <3>2. Append(splits, Position(at + 1, line', record')) \in Seq(Positions)
      BY <3>1 DEF TypeOK
    <3>3. \/ Boundary(at + 1)
          \/ UNCHANGED <<record, target, splits>>
      BY <2>1 DEF Scan
    <3>4. \/ /\ splits' = Append(splits, Position(at + 1, line', record'))
             /\ target' = at + 1 + Stride
          \/ UNCHANGED <<target, splits>>
      BY <3>3 DEF Boundary
    <3>5. at + 1 + Stride \in Nat
      BY <1>0, <2>2
    <3> QED  BY <3>2, <3>4, <3>5 DEF TypeOK
  <2>6. feeds' \in Nat /\ parsed' \in Nat
    BY <2>1 DEF Parse, TypeOK
  <2>7. mode' \in Modes
    <3>1. "malformed" \in Modes
      BY DEF Modes
    <3> QED  BY <3>1, <2>1, NextModeType DEF Parse, TypeOK
  <2>8. starts' \subseteq Positions
    <3>1. Position(at + 1, 1 + feeds', parsed') \in Positions
      BY <2>2, <2>6, PositionType
    <3> QED  BY <3>1, <2>1 DEF Parse, TypeOK
  <2>9. failedAt' \in 0..length'
    BY <2>1, <2>2, <1>0 DEF Parse, TypeOK
  <2> QED  BY <2>2, <2>3, <2>4, <2>5, <2>6, <2>7, <2>8, <2>9 DEF TypeOK
<1>2. CASE EndOfDocument
  BY <1>2, <1>0 DEF EndOfDocument, TypeOK, arguments, scanner, Modes
<1>3. CASE UNCHANGED vars
  BY <1>3 DEF vars, arguments, scanner, parser, TypeOK
<1> QED  BY <1>1, <1>2, <1>3 DEF Next

(* Every variable keeps its type: in particular the error the parser stops *)
(* at lies inside the document (split.rs boundaries, borrowed_parser.rs).  *)
THEOREM SplitTypeOK == Spec => []TypeOK
<1> QED  BY SplitInit, SplitStep, PTL DEF Spec

-----------------------------------------------------------------------------
(* Counting quotes is enough.  While the parser has not failed, the pass   *)
(* is inside quotes exactly when the parser is inside a quoted field, so a *)
(* record ends for the one exactly when it ends for the other.             *)
QuoteParity ==
    ~Failed => /\ in_quotes <=> mode = "quoted"
               /\ mode = "cr" => format.kind # "byte"
               /\ record = parsed

(* One byte, as long as the parser makes sense of it.                      *)
LEMMA SameRecordEnds ==
    ASSUME NEW b \in Bytes, TypeOK, ~Failed, QuoteParity,
           format.ending \notin format.padding \cup format.skips,
           NextMode(b) # "malformed"
    PROVE  /\ (NextMode(b) = "quoted") <=> IF b = "quote" THEN ~in_quotes ELSE in_quotes
           /\ (NextMode(b) = "start") <=>
                 /\ b = format.ending
                 /\ ~(IF b = "quote" THEN ~in_quotes ELSE in_quotes)
           /\ NextMode(b) = "cr" => format.kind # "byte"
<1>1. FormatOK(format)
  BY FormatsAssumption DEF TypeOK
<1>2. /\ format.ending \in Bytes \ {"quote", "delim"}
      /\ format.kind \in {"newline", "crlf", "byte"}
      /\ format.kind # "byte" => format.ending = "lf"
      /\ "quote" \notin format.padding /\ "quote" \notin format.skips
      /\ "lf" \notin format.padding /\ "lf" \notin format.skips
  BY <1>1 DEF FormatOK
<1>3. CASE mode \in {"start", "field"}
  BY <1>2, <1>3 DEF QuoteParity, Failed, NextMode, ModeAfter, FieldOpens, Separated, Bytes
<1>4. CASE mode = "unquoted"
  BY <1>2, <1>4 DEF QuoteParity, Failed, NextMode, ModeAfter, Separated, Bytes
<1>5. CASE mode = "quoted"
  BY <1>2, <1>5 DEF QuoteParity, Failed, NextMode, ModeAfter, Bytes
<1>6. CASE mode \in {"closed", "padding"}
  BY <1>2, <1>6 DEF QuoteParity, Failed, NextMode, ModeAfter, QuotedFieldEnds, Separated, Bytes
<1>7. CASE mode = "cr"
  BY <1>2, <1>7 DEF QuoteParity, Failed, NextMode, ModeAfter, Bytes
<1> QED  BY <1>3, <1>4, <1>5, <1>6, <1>7 DEF TypeOK, Modes, Failed

(* The inductive invariant behind BoundariesAreRecordStarts.               *)
Agreement ==
    /\ TypeOK
    /\ QuoteParity
    /\ line = 1 + feeds
    /\ Failed => failedAt <= at
    /\ BoundariesAreRecordStarts

(* The boundary the pass finds in one byte, if it finds one.               *)
FoundHere == Position(at + 1, line', record')

(* One byte of the pass adds that boundary or none, and never another.     *)
LEMMA BoundaryFound ==
    ASSUME NEW b \in Bytes, Scan(b), TypeOK
    PROVE  \/ UNCHANGED splits
           \/ /\ splits' = Append(splits, FoundHere)
              /\ b = format.ending /\ ~in_quotes'
              /\ record' = record + 1
  BY DEF Scan, Boundary, FoundHere

(* What is to be shown of the boundaries after a byte: only the new one is *)
(* in question, as long as record starts and the error are not taken back. *)
LEMMA BoundariesStay ==
    ASSUME NEW b \in Bytes, Scan(b), TypeOK, BoundariesAreRecordStarts,
           starts \subseteq starts',
           Failed => Failed' /\ failedAt' = failedAt,
           /\ b = format.ending /\ ~in_quotes' /\ record' = record + 1
             => FoundHere \in starts' \/ (Failed' /\ FoundHere.byte >= failedAt')
    PROVE  BoundariesAreRecordStarts'
<1> SUFFICES ASSUME NEW i \in 1..Len(splits')
             PROVE  splits'[i] \in starts' \/ (Failed' /\ splits'[i].byte >= failedAt')
  BY DEF BoundariesAreRecordStarts
<1>1. CASE UNCHANGED splits
  BY <1>1 DEF BoundariesAreRecordStarts
<1>2. CASE /\ splits' = Append(splits, FoundHere)
           /\ b = format.ending /\ ~in_quotes'
           /\ record' = record + 1
  <2>1. splits \in Seq(Positions)
    BY DEF TypeOK
  <2>2. Len(splits') = Len(splits) + 1 /\ Len(splits) \in Nat
    BY <1>2, <2>1
  <2>3. CASE i \in 1..Len(splits)
    <3>1. splits'[i] = splits[i]
      BY <1>2, <2>1, <2>3
    <3> QED  BY <3>1, <2>3 DEF BoundariesAreRecordStarts
  <2>4. CASE i = Len(splits) + 1
    <3>1. splits'[i] = FoundHere
      BY <1>2, <2>1, <2>4
    <3> QED  BY <3>1, <1>2
  <2> QED  BY <2>2, <2>3, <2>4
<1> QED  BY <1>1, <1>2, BoundaryFound

(* "Boundaries land only at true record starts" (split.rs:40), for every   *)
(* document, as long as no format pads with its own record ending.         *)
THEOREM BoundariesFound ==
    ASSUME UnpaddedEndings
    PROVE  Spec => []BoundariesAreRecordStarts
<1>1. Init => Agreement
  <2> SUFFICES ASSUME Init PROVE Agreement
    OBVIOUS
  <2>1. TypeOK
    BY SplitInit
  <2>2. QuoteParity /\ line = 1 + feeds /\ ~Failed
    BY DEF Init, QuoteParity, Failed, Start, Position
  <2>3. BoundariesAreRecordStarts
    BY DEF Init, BoundariesAreRecordStarts
  <2> QED  BY <2>1, <2>2, <2>3 DEF Agreement
<1>2. Agreement /\ [Next]_vars => Agreement'
  <2> SUFFICES ASSUME Agreement, [Next]_vars PROVE Agreement'
    OBVIOUS
  <2>0. TypeOK /\ TypeOK'
    BY SplitStep DEF Agreement
  <2>1. CASE Read
    <3>1. PICK b \in Bytes : Scan(b) /\ Parse(b)
      BY <2>1 DEF Read
    <3>2. at' = at + 1 /\ at \in Nat /\ feeds \in Nat /\ parsed \in Nat /\ length \in Nat /\ failedAt \in Nat
      BY <2>0, <2>1, LengthsAssumption DEF Read, TypeOK
    <3>3. line' = 1 + feeds'
      BY <3>1, <3>2 DEF Agreement, Scan, Parse
    <3>4. FoundHere = Position(at + 1, 1 + feeds', record') /\ FoundHere.byte = at + 1
      BY <3>3 DEF FoundHere, Position
    <3>5. CASE /\ ~Failed
               /\ mode' = NextMode(b) /\ NextMode(b) # "malformed"
               /\ IF mode' = "start"
                    THEN /\ parsed' = parsed + 1
                         /\ starts' = starts \cup {Position(at + 1, 1 + feeds', parsed')}
                    ELSE UNCHANGED <<parsed, starts>>
      <4>1. format.ending \notin format.padding \cup format.skips
        BY <2>0 DEF TypeOK, UnpaddedEndings
      <4>2. /\ (mode' = "quoted") <=> IF b = "quote" THEN ~in_quotes ELSE in_quotes
            /\ (mode' = "start") <=>
                  /\ b = format.ending
                  /\ ~(IF b = "quote" THEN ~in_quotes ELSE in_quotes)
            /\ mode' = "cr" => format.kind # "byte"
        BY <2>0, <3>5, <4>1, SameRecordEnds DEF Agreement
      <4>3. in_quotes' = IF b = "quote" THEN ~in_quotes ELSE in_quotes
        BY <3>1 DEF Scan
      <4>4. (in_quotes' <=> mode' = "quoted") /\ ((mode' = "start") <=> (b = format.ending /\ ~in_quotes'))
        BY <4>2, <4>3, Zenon
      <4>5. record' = parsed'
        BY <4>4, <3>1, <3>5 DEF Scan, Agreement, QuoteParity
      <4>6. format' = format /\ ~Failed'
        BY <2>1, <3>5 DEF Read, arguments, Failed
      <4>7. QuoteParity'
        BY <4>2, <4>4, <4>5, <4>6 DEF QuoteParity
      <4>8. b = format.ending /\ ~in_quotes' => FoundHere \in starts'
        BY <4>4, <4>5, <3>4, <3>5
      <4>9. starts \subseteq starts'
        BY <3>5
      <4>10. BoundariesAreRecordStarts'
        BY <4>8, <4>9, <2>0, <3>1, <3>5, BoundariesStay DEF Agreement
      <4> QED  BY <2>0, <3>3, <4>6, <4>7, <4>10 DEF Agreement
    <3>6. CASE /\ ~Failed
               /\ mode' = "malformed" /\ failedAt' \in {at, at + 1}
               /\ UNCHANGED <<parsed, starts>>
      <4>1. Failed' /\ failedAt' <= at + 1
        BY <3>2, <3>6 DEF Failed
      <4>2. BoundariesAreRecordStarts'
        BY <4>1, <3>4, <2>0, <3>1, <3>2, <3>6, BoundariesStay DEF Agreement
      <4> QED  BY <2>0, <3>2, <3>3, <4>1, <4>2 DEF Agreement, QuoteParity
    <3>7. CASE Failed /\ UNCHANGED <<mode, parsed, starts, failedAt>>
      <4>1. Failed' /\ failedAt' <= at + 1 /\ failedAt' = failedAt
        BY <3>2, <3>7 DEF Failed, Agreement
      <4>2. BoundariesAreRecordStarts'
        BY <4>1, <3>4, <2>0, <3>1, <3>2, <3>7, BoundariesStay DEF Agreement
      <4> QED  BY <2>0, <3>2, <3>3, <4>1, <4>2 DEF Agreement, QuoteParity
    <3> QED
      <4>1. CASE ~Failed /\ mode' = NextMode(b)
        BY <4>1, <3>1, <3>5, <3>6 DEF Parse
      <4> QED  BY <4>1, <3>1, <3>6, <3>7 DEF Parse
  <2>2. CASE EndOfDocument
    <3>1. Failed' /\ failedAt' <= at' /\ ~Failed
      BY <2>0, <2>2, LengthsAssumption DEF EndOfDocument, Failed, TypeOK
    <3>2. BoundariesAreRecordStarts'
      BY <2>2, <3>1 DEF EndOfDocument, scanner, Agreement, BoundariesAreRecordStarts
    <3> QED  BY <2>0, <2>2, <3>1, <3>2 DEF EndOfDocument, scanner, Agreement, QuoteParity
  <2>3. CASE UNCHANGED vars
    BY <2>0, <2>3 DEF vars, arguments, scanner, parser, Agreement, QuoteParity, Failed,
                      BoundariesAreRecordStarts
  <2> QED  BY <2>1, <2>2, <2>3 DEF Next
<1>3. Agreement => BoundariesAreRecordStarts
  BY DEF Agreement
<1> QED  BY <1>1, <1>2, <1>3, PTL DEF Spec

-----------------------------------------------------------------------------
Last == splits[Len(splits)]

(* The inductive invariant behind the number and the size of the chunks:   *)
(* each boundary is a stride or more past the one before.                  *)
Spacing ==
    /\ TypeOK
    /\ Len(splits) >= 1
    /\ \A i \in 1..Len(splits) : splits[i].byte <= at
    /\ ChunksAreNotEmpty
    /\ target = Last.byte + Stride
    /\ (Len(splits) - 1) * Stride <= Last.byte

(* What TypeOK says of the arguments and of the boundaries.                *)
LEMMA SplitsType ==
    ASSUME TypeOK
    PROVE  /\ length \in Nat /\ wanted \in Nat \ {0}
           /\ splits \in Seq(Positions) /\ Len(splits) \in Nat
           /\ \A i \in 1..Len(splits) : splits[i].byte \in Nat
<1>1. length \in Nat /\ wanted \in Nat \ {0}
  BY LengthsAssumption, WantedAssumption DEF TypeOK
<1>2. splits \in Seq(Positions)
  BY DEF TypeOK
<1>3. Len(splits) \in Nat /\ \A i \in 1..Len(splits) : splits[i] \in Positions
  BY <1>2
<1> QED  BY <1>1, <1>2, <1>3 DEF Positions

(* The first boundary is the start of the document.                        *)
LEMMA SpacingInit == Init => Spacing
<1> SUFFICES ASSUME Init PROVE Spacing
  OBVIOUS
<1>1. TypeOK
  BY SplitInit
<1>2. Len(splits) = 1 /\ splits[1].byte = 0 /\ Last.byte = 0
  BY DEF Init, Start, Position, Last
<1>3. Stride \in Nat
  BY StrideCovers, LengthsAssumption, WantedAssumption DEF Init
<1> QED  BY <1>1, <1>2, <1>3 DEF Spacing, ChunksAreNotEmpty, Init

(* The next one, if there is one, lies a stride or more past the last.     *)
LEMMA SpacingStep == Spacing /\ [Next]_vars => Spacing'
<1> SUFFICES ASSUME Spacing, [Next]_vars PROVE Spacing'
  OBVIOUS
<1>0. TypeOK /\ TypeOK'
  BY SplitStep DEF Spacing
<1>1. CASE Read
  <2>1. PICK b \in Bytes : Scan(b) /\ Parse(b)
    BY <1>1 DEF Read
  <2>2. at' = at + 1 /\ at \in Nat /\ UNCHANGED <<length, wanted>> /\ length \in Nat
    BY <1>0, <1>1, LengthsAssumption DEF Read, arguments, TypeOK
  <2>3. Stride' = Stride /\ Stride \in Nat
    BY <1>0, <2>2, StrideCovers, LengthsAssumption, WantedAssumption DEF TypeOK, Stride
  <2> DEFINE n == Len(splits)
  <2>4. /\ splits \in Seq(Positions) /\ n \in Nat \ {0}
        /\ \A i \in 1..n : splits[i].byte \in Nat /\ splits[i].byte <= at
    BY <1>0, SplitsType DEF Spacing
  <2>5. CASE UNCHANGED <<splits, target>>
    <3>1. ChunksAreNotEmpty' /\ Last' = Last
      BY <2>2, <2>5 DEF Spacing, ChunksAreNotEmpty, Last
    <3>2. \A i \in 1..Len(splits') : splits'[i].byte <= at'
      BY <2>2, <2>4, <2>5
    <3> QED  BY <1>0, <2>3, <2>5, <3>1, <3>2 DEF Spacing
  <2>6. CASE /\ at + 1 >= target /\ at + 1 < length
             /\ splits' = Append(splits, FoundHere)
             /\ target' = at + 1 + Stride
    <3>1. FoundHere.byte = at + 1
      BY DEF FoundHere, Position
    <3>2. /\ Len(splits') = n + 1
          /\ \A i \in 1..n : splits'[i] = splits[i]
          /\ splits'[n + 1] = FoundHere
      BY <2>4, <2>6
    <3>3. Last'.byte = at + 1
      BY <3>1, <3>2 DEF Last
    <3>4. \A i \in 1..Len(splits') : splits'[i].byte <= at'
      BY <3>1, <3>2, <2>2, <2>4
    <3>5. ChunksAreNotEmpty'
      <4>1. ASSUME NEW i \in 1..(n + 1), NEW j \in 1..(n + 1), i < j
            PROVE  splits'[i].byte < splits'[j].byte
        <5>1. i \in 1..n
          BY <2>4, <4>1
        <5>2. CASE j \in 1..n
          BY <3>2, <4>1, <5>1, <5>2 DEF Spacing, ChunksAreNotEmpty
        <5>3. CASE j = n + 1
          <6>1. splits[i].byte \in Nat /\ splits[i].byte <= at
            BY <2>4, <5>1
          <6> QED  BY <2>2, <3>1, <3>2, <5>1, <5>3, <6>1
        <5> QED  BY <2>4, <5>2, <5>3
      <4>2. ASSUME NEW i \in 2..(n + 1)
            PROVE  splits'[i].byte < length'
        BY <4>2, <3>1, <3>2, <2>2, <2>4, <2>6 DEF Spacing, ChunksAreNotEmpty
      <4> QED  BY <4>1, <4>2, <3>2 DEF ChunksAreNotEmpty
    <3>6. (Len(splits') - 1) * Stride' <= Last'.byte
      <4>1. Last.byte + Stride <= at + 1 /\ (n - 1) * Stride <= Last.byte /\ Last.byte \in Nat
        BY <2>4, <2>6 DEF Spacing, Last
      <4>2. n * Stride = (n - 1) * Stride + Stride
        BY <2>3, <2>4
      <4>3. n * Stride \in Nat /\ (n - 1) * Stride \in Nat
        BY <2>3, <2>4
      <4>4. n * Stride <= at + 1
        BY <4>1, <4>2, <4>3, <2>2, <2>3
      <4> QED  BY <4>4, <3>2, <3>3, <2>3, <2>4
    <3> QED  BY <1>0, <3>2, <3>3, <3>4, <3>5, <3>6, <2>2, <2>3, <2>4, <2>6 DEF Spacing
  <2> QED  BY <2>1, <2>5, <2>6 DEF Scan, Boundary, FoundHere
<1>2. CASE EndOfDocument
  BY <1>0, <1>2 DEF EndOfDocument, arguments, scanner, Spacing, ChunksAreNotEmpty, Last, Stride
<1>3. CASE UNCHANGED vars
  BY <1>0, <1>3 DEF vars, arguments, scanner, Spacing, ChunksAreNotEmpty, Last, Stride
<1> QED  BY <1>1, <1>2, <1>3 DEF Next

(* No chunk is empty: every worker that claims one has a record to read    *)
(* (split.rs boundaries).                                                   *)
THEOREM NoEmptyChunks == Spec => []ChunksAreNotEmpty
<1>1. Spacing => ChunksAreNotEmpty
  BY DEF Spacing
<1> QED  BY <1>1, SpacingInit, SpacingStep, PTL DEF Spec

(* "Locate up to `wanted` record boundaries" (split.rs:36): the stride is  *)
(* rounded up, so wanted of them cover the document.                       *)
THEOREM NoMoreThanWanted == Spec => []AtMostWanted
<1>1. Spacing => AtMostWanted
  <2> SUFFICES ASSUME Spacing, ~AtMostWanted PROVE FALSE
    OBVIOUS
  <2>1. length \in Nat /\ wanted \in Nat \ {0} /\ Len(splits) \in Nat
    BY SplitsType DEF Spacing
  <2>2. Stride \in Nat /\ Stride * wanted >= length
    BY <2>1, StrideCovers
  <2> DEFINE m == Len(splits) - 1
  <2>3. Last.byte < length /\ Last.byte \in Nat
    BY <2>1, SplitsType DEF Spacing, ChunksAreNotEmpty, Last, AtMostWanted
  <2>4. m \in Nat /\ m >= wanted /\ m * Stride <= Last.byte
    BY <2>1 DEF Spacing, AtMostWanted
  <2> HIDE DEF m
  <2>5. m * Stride >= wanted * Stride /\ m * Stride \in Nat /\ wanted * Stride = Stride * wanted
    BY <2>1, <2>2, <2>4
  <2>6. wanted * Stride \in Nat
    BY <2>1, <2>2
  <2> QED  BY <2>1, <2>2, <2>3, <2>4, <2>5, <2>6
<1> QED  BY <1>1, SpacingInit, SpacingStep, PTL DEF Spec
=============================================================================
