-------------------------- MODULE StreamingProofs ---------------------------
(***************************************************************************)
(* However a stream is cut into reads, whatever its format and however     *)
(* long it is: what the window of a streaming parser holds, that each line *)
(* is counted once, and that what is answered is in the stream.  The front *)
(* end drops what comes before the engine's anchor, so all rests on the    *)
(* engine never being anywhere but in its window, whatever it has been     *)
(* asked; and since what it has parsed it may parse again, on its tally    *)
(* never covering what it has not passed, and on what it takes for settled *)
(* being settled.                                                          *)
(***************************************************************************)
EXTENDS IoParser, PushParser, Arithmetic, SequenceTheorems, FiniteSetTheorems

(* What a parser is in the middle of: of a record that goes on, and of one *)
(* that does not.                                                          *)
Open == {"start", "field", "unquoted", "quoted", "closed", "padding", "cr", "escaped",
         "quoted_escaped"}
Modes == Open \cup {"ended", "malformed", "too large"}
States == [mode : Modes, at : Int, fields : Nat, plain : BOOLEAN]
Verdicts == {"ok", "syntax", "too large", "unterminated"}
Kinds == Verdicts \cup {"none", "failed", "width", "rejected bom", "io"}
ErrorsAt == [kind : Kinds, byte : Int, line : Int, record : Int]

(* What a front end lets its engine's checkpoints be: whether they always  *)
(* lie in the window, and whether its formats have comments to be in.      *)
Parsers == [near : BOOLEAN, comments : BOOLEAN]
Suits(q, f) == f.comments => q.comments

(* The engine over a window of n bytes.                                    *)
Starts(n, q) == IF q.near THEN (0..n) \cup {NO_OFFSET} ELSE Nat
Resumes(n, q) ==
    [record_start : Starts(n, q), scanned_to : Nat, field_start : Nat, in_quotes : BOOLEAN,
     ignored : IF q.comments THEN BOOLEAN ELSE {FALSE}]
Engines(n, q) ==
    [location : 0..n, line_base : Nat, folded_upto : Nat, folded_lines : Nat,
     record_index : Nat, expected : Nat, headers : BOOLEAN,
     cursor_start : (0..n) \cup {NO_OFFSET}, cursor_end : Int, cursor_index : Nat,
     resume : Resumes(n, q), failed : BOOLEAN]

(* What an operation of it leaves behind.                                  *)
Outs(n, q) ==
    [engine : Engines(n, q), tag : {"record", "none", "error"}, terminated : BOOLEAN,
     error : ErrorsAt]

-----------------------------------------------------------------------------
(* The earlier and the later of two offsets.                               *)
LEMMA MinOfTwo ==
    ASSUME NEW a \in Int, NEW b \in Int
    PROVE  Min({a, b}) \in {a, b} /\ Min({a, b}) <= a /\ Min({a, b}) <= b
<1>1. \E x \in {a, b} : \A y \in {a, b} : x <= y
  OBVIOUS
<1> QED  BY <1>1 DEF Min

LEMMA MaxOfTwo ==
    ASSUME NEW a \in Int, NEW b \in Int
    PROVE  Max({a, b}) \in {a, b} /\ Max({a, b}) >= a /\ Max({a, b}) >= b
<1>1. \E x \in {a, b} : \A y \in {a, b} : x >= y
  OBVIOUS
<1> QED  BY <1>1 DEF Max

(* The first of some places in a window.                                   *)
LEMMA MinOfPlaces ==
    ASSUME NEW S, S \subseteq Nat, S # {}
    PROVE  Min(S) \in S /\ \A y \in S : Min(S) <= y
<1>1. \E x \in S : \A y \in S : x <= y
  BY LeastExists
<1> QED  BY <1>1 DEF Min

(* The bytes of a window can be counted, and the line feeds among them.    *)
LEMMA FeedsType ==
    ASSUME NEW w, NEW a \in Int, NEW b \in Int
    PROVE  Feeds(w, a, b) \in Nat
<1>1. IsFiniteSet((a + 1)..b)
  BY FS_Interval
<1>2. {i \in (a + 1)..b : w[i] = "lf"} \subseteq (a + 1)..b
  OBVIOUS
<1> QED  BY <1>1, <1>2, FS_Subset, FS_CardinalityType DEF Feeds

-----------------------------------------------------------------------------
(* A byte takes the parser from one mode to another.                       *)
LEMMA SeparatedModes ==
    ASSUME NEW f, NEW b, NEW otherwise \in Open \cup {"malformed"}
    PROVE  Separated(f, b, otherwise) \in Open \cup {"malformed"}
BY DEF Separated, Open

LEMMA NextModeIsMode ==
    ASSUME NEW f, NEW m \in Open, NEW b
    PROVE  NextMode(f, m, b) \in Open \cup {"malformed"}
<1>1. FieldOpens(f, b) \in Open \cup {"malformed"}
  BY SeparatedModes DEF FieldOpens, Open
<1>2. QuotedFieldEnds(f, b) \in Open \cup {"malformed"}
  BY SeparatedModes DEF QuotedFieldEnds, Open
<1>3. Separated(f, b, "unquoted") \in Open \cup {"malformed"}
  BY SeparatedModes DEF Open
<1>4. m \notin {"escaped", "quoted_escaped"} => ModeAfter(f, m, b) \in Open \cup {"malformed"}
  BY <1>1, <1>2, <1>3 DEF ModeAfter, Open
<1> QED  BY <1>2, <1>4 DEF NextMode, Open

(* What is read of a record stays one, and never lies beyond what has been *)
(* read, unless it is malformed.                                           *)
LEMMA ReadByteType ==
    ASSUME NEW f, NEW over, NEW s \in States, NEW b, NEW i \in Int
    PROVE  /\ ReadByte(f, over, s, b, i) \in States
           /\ \/ ReadByte(f, over, s, b, i) = s
              \/ ReadByte(f, over, s, b, i).mode = "malformed"
              \/ ReadByte(f, over, s, b, i).at = i
<1> DEFINE m == NextMode(f, s.mode, b)
           t == ReadByte(f, over, s, b, i)
<1>1. CASE s.mode \in {"ended", "malformed", "too large"}
  BY <1>1 DEF ReadByte
<1>2. CASE s.mode \notin {"ended", "malformed", "too large"}
  <2>1. s.mode \in Open
    BY <1>2 DEF States, Modes
  <2>2. m \in Open \cup {"malformed"}
    BY <2>1, NextModeIsMode
  <2> DEFINE mode == CASE m = "malformed" -> m
                       [] m # "malformed" /\ i > over
                            /\ m # "closed" /\ ~(s.mode = "closed" /\ m = "field") -> "too large"
                       [] OTHER -> IF m = "start" THEN "ended" ELSE m
             at == IF m # "malformed" THEN i ELSE IF s.mode = "cr" THEN i - 2 ELSE i - 1
             fields == IF m = "field" THEN s.fields + 1 ELSE s.fields
             plain == s.plain /\ b # "quote" /\ ~(f.escapes /\ b = "esc")
  <2>3. t = [mode |-> mode, at |-> at, fields |-> fields, plain |-> plain]
    BY <1>2 DEF ReadByte
  <2>4. mode \in Modes /\ (m = "malformed" => mode = "malformed")
    <3> HIDE DEF m
    <3> QED  BY <2>2 DEF Modes, Open
  <2>5. at \in Int /\ (m # "malformed" => at = i)
    <3> HIDE DEF m
    <3> QED  OBVIOUS
  <2>6. fields \in Nat
    <3> HIDE DEF m
    <3> QED  BY DEF States
  <2>7. plain \in BOOLEAN
    OBVIOUS
  <2> HIDE DEF mode, at, fields, plain, m
  <2> QED  BY <2>3, <2>4, <2>5, <2>6, <2>7 DEF States
<1> QED  BY <1>1, <1>2

(* A record read byte by byte, and what it is taken for where it stops.    *)
Judged(f, w, p, s) ==
    LET Verdict(v, at) ==
            [verdict |-> v, at |-> at, terminated |-> s.mode = "ended",
             fields |-> s.fields, plain |-> s.plain]
    IN  CASE s.mode = "malformed" -> Verdict("syntax", s.at)
          [] s.mode = "too large" \/ (s.mode = "closed" /\ s.at > p + f.limit) ->
               Verdict("too large", s.at)
          [] s.mode \in {"quoted", "quoted_escaped"} -> Verdict("unterminated", Len(w))
          [] s.mode = "cr" -> Verdict("syntax", Len(w) - 1)
          [] OTHER -> Verdict("ok", s.at)

LEMMA PhysicalRecordRun ==
    ASSUME NEW f, NEW w, Len(w) \in Nat, NEW p \in 0..Len(w)
    PROVE  \E run :
              /\ run[p] = [mode |-> "start", at |-> p, fields |-> 1, plain |-> TRUE]
              /\ \A i \in (p + 1)..Len(w) :
                    run[i] = ReadByte(f, p + f.limit, run[i - 1], w[i], i)
              /\ \A i \in p..Len(w) :
                    run[i] \in States /\ (run[i].mode # "malformed" => run[i].at \in p..i)
              /\ PhysicalRecord(f, w, p) = Judged(f, w, p, run[Len(w)])
<1> DEFINE n == Len(w)
           a == [mode |-> "start", at |-> p, fields |-> 1, plain |-> TRUE]
           Runs(r) == r = [i \in p..n |-> IF i = p THEN a
                                          ELSE ReadByte(f, p + f.limit, r[i - 1], w[i], i)]
           run == CHOOSE r : Runs(r)
           G == [i \in (p + 1)..n |-> [s \in States |-> ReadByte(f, p + f.limit, s, w[i], i)]]
<1>0. p \in Int /\ n \in Int /\ p <= n
  OBVIOUS
<1>1. a \in States
  BY DEF States, Modes, Open
<1>2. G \in [(p + 1)..n -> [States -> States]]
  <2>1. ASSUME NEW i \in (p + 1)..n
        PROVE  [s \in States |-> ReadByte(f, p + f.limit, s, w[i], i)] \in [States -> States]
    BY ReadByteType
  <2> QED  BY <2>1
<1>3. \E r : Runs(r)
  <2>1. PICK r \in [p..n -> States] : r[p] = a /\ \A i \in (p + 1)..n : r[i] = G[i][r[i - 1]]
    <3>1. G \in Steps(States, p, n)
      BY <1>2 DEF Steps
    <3>2. Follows(States, p, n, a, G)
      <4> HIDE DEF a, G, n
      <4> QED  BY <1>0, <1>1, <3>1, Recursion
    <3> QED  BY <3>2 DEF Follows
  <2>2. ASSUME NEW i \in p..n
        PROVE  r[i] = IF i = p THEN a ELSE ReadByte(f, p + f.limit, r[i - 1], w[i], i)
    <3>1. CASE i = p
      BY <2>1, <3>1
    <3>2. CASE i # p
      <4>1. i \in (p + 1)..n /\ i - 1 \in p..n
        BY <3>2
      <4>2. r[i - 1] \in States /\ r[i] = G[i][r[i - 1]]
        BY <2>1, <4>1
      <4> QED  BY <3>2, <4>1, <4>2
    <3> QED  BY <3>1, <3>2
  <2>3. Runs(r)
    BY <2>1, <2>2
  <2> QED  BY <2>3
<1>4. Runs(run)
  BY <1>3
<1> HIDE DEF run
<1>5. run[p] = a /\ \A i \in (p + 1)..n : run[i] = ReadByte(f, p + f.limit, run[i - 1], w[i], i)
  <2>1. \A i \in p..n : run[i] = IF i = p THEN a
                                 ELSE ReadByte(f, p + f.limit, run[i - 1], w[i], i)
    BY <1>4
  <2>2. p \in p..n /\ \A i \in (p + 1)..n : i \in p..n /\ i # p
    BY <1>0
  <2> HIDE DEF a, n
  <2> QED  BY <2>1, <2>2
<1> DEFINE T == {i \in p..n : /\ run[i] \in States
                              /\ run[i].mode # "malformed" => run[i].at \in p..i}
<1>6. \A i \in p..n : i \in T
  <2>1. p \in T
    BY <1>1, <1>5
  <2>2. ASSUME NEW i \in (p + 1)..n, i - 1 \in T
        PROVE  i \in T
    <3>1. run[i - 1] \in States /\ i \in Int /\ i \in p..n
      BY <2>2
    <3>2. /\ run[i] \in States
          /\ run[i] = run[i - 1] \/ run[i].mode = "malformed" \/ run[i].at = i
      BY <1>5, <3>1, ReadByteType
    <3>3. run[i - 1].mode # "malformed" => run[i - 1].at \in p..(i - 1)
      BY <2>2
    <3>4. run[i].mode # "malformed" => run[i].at \in p..i
      BY <3>1, <3>2, <3>3
    <3> QED  BY <3>1, <3>2, <3>4
  <2> HIDE DEF T, n
  <2> QED  BY <1>0, <2>1, <2>2, Upward
<1>7. PhysicalRecord(f, w, p) = Judged(f, w, p, run[n])
  BY Zenon DEF PhysicalRecord, Judged, run
<1>8. \A i \in p..n : run[i] \in States /\ (run[i].mode # "malformed" => run[i].at \in p..i)
  BY <1>6
<1> HIDE DEF a, T
<1> QED  BY Zenon, <1>5, <1>7, <1>8 DEF a

(* The record at an offset ends in the window, if it is not an error.      *)
LEMMA PhysicalRecordType ==
    ASSUME NEW f, NEW w, Len(w) \in Nat, NEW p \in 0..Len(w)
    PROVE  /\ PhysicalRecord(f, w, p).verdict \in Verdicts
           /\ PhysicalRecord(f, w, p).at \in Int
           /\ PhysicalRecord(f, w, p).terminated \in BOOLEAN
           /\ PhysicalRecord(f, w, p).fields \in Nat
           /\ PhysicalRecord(f, w, p).plain \in BOOLEAN
           /\ PhysicalRecord(f, w, p).verdict = "ok" =>
                 PhysicalRecord(f, w, p).at \in p..Len(w)
<1> DEFINE n == Len(w)
<1>1. PICK run :
         /\ run[p] = [mode |-> "start", at |-> p, fields |-> 1, plain |-> TRUE]
         /\ \A i \in (p + 1)..Len(w) :
               run[i] = ReadByte(f, p + f.limit, run[i - 1], w[i], i)
         /\ \A i \in p..Len(w) :
               run[i] \in States /\ (run[i].mode # "malformed" => run[i].at \in p..i)
         /\ PhysicalRecord(f, w, p) = Judged(f, w, p, run[Len(w)])
  BY ZenonT(60), PhysicalRecordRun
<1> DEFINE s == run[n]
           Verdict(v, at) == [verdict |-> v, at |-> at, terminated |-> s.mode = "ended",
                              fields |-> s.fields, plain |-> s.plain]
<1>7. s \in States /\ (s.mode # "malformed" => s.at \in p..n)
  <2>1. n \in p..n
    OBVIOUS
  <2> QED  BY <1>1, <2>1
<1>8. PhysicalRecord(f, w, p) =
         CASE s.mode = "malformed" -> Verdict("syntax", s.at)
           [] s.mode = "too large" \/ (s.mode = "closed" /\ s.at > p + f.limit) ->
                Verdict("too large", s.at)
           [] s.mode \in {"quoted", "quoted_escaped"} -> Verdict("unterminated", n)
           [] s.mode = "cr" -> Verdict("syntax", n - 1)
           [] OTHER -> Verdict("ok", s.at)
  BY Zenon, <1>1 DEF Judged
<1> HIDE DEF s
<1>9. /\ s.at \in Int /\ s.fields \in Nat /\ s.plain \in BOOLEAN /\ n \in Int /\ n - 1 \in Int
  BY <1>7 DEF States
<1>10. \E v \in Verdicts, at \in Int :
          /\ PhysicalRecord(f, w, p) = Verdict(v, at)
          /\ v = "ok" => s.mode # "malformed" /\ at = s.at
  <2> HIDE DEF Verdict
  <2> QED  BY <1>8, <1>9 DEF Verdicts
<1> QED  BY <1>7, <1>9, <1>10

-----------------------------------------------------------------------------
(* The engine, anywhere else in the window and with another checkpoint.    *)
LEMMA Moved ==
    ASSUME NEW q \in Parsers, NEW n \in Nat, NEW e \in Engines(n, q), NEW at \in 0..n,
           NEW r \in Resumes(n, q)
    PROVE  /\ [e EXCEPT !.location = at] \in Engines(n, q)
           /\ [e EXCEPT !.resume = r] \in Engines(n, q)
           /\ [e EXCEPT !.location = at, !.resume = r] \in Engines(n, q)
BY DEF Engines

LEMMA StartsAre ==
    ASSUME NEW q \in Parsers, NEW n \in Nat
    PROVE  /\ Starts(n, q) \subseteq Nat /\ 0..n \subseteq Starts(n, q)
           /\ NO_OFFSET \in Starts(n, q) /\ NO_OFFSET \in Nat
           /\ \A at \in Starts(n, q), by \in 0..n :
                 by <= at /\ at # NO_OFFSET => at - by \in Starts(n - by, q)
           /\ q.near => Starts(n, q) = (0..n) \cup {NO_OFFSET}
<1>1. NO_OFFSET \in Nat
  BY DEF NO_OFFSET
<1>2. CASE q.near
  <2>1. \A m : Starts(m, q) = (0..m) \cup {NO_OFFSET}
    BY <1>2 DEF Starts
  <2> QED  BY <1>1, <2>1
<1>3. CASE ~q.near
  <2>1. \A m : Starts(m, q) = Nat
    BY <1>3 DEF Starts
  <2> QED  BY <1>1, <1>3, <2>1
<1> QED  BY <1>2, <1>3

LEMMA FreshResumes ==
    ASSUME NEW q \in Parsers, NEW n \in Nat
    PROVE  /\ \A at \in 0..n : Fresh(at) \in Resumes(n, q)
           /\ q.comments => \A at \in 0..n, to \in Nat : Ignored(at, to) \in Resumes(n, q)
           /\ Unset \in Resumes(n, q)
<1>0. 0..n \subseteq Starts(n, q) /\ NO_OFFSET \in Starts(n, q) /\ NO_OFFSET \in Nat
  BY StartsAre
<1>1. ASSUME NEW at \in 0..n PROVE Fresh(at) \in Resumes(n, q)
  <2>1. at \in Starts(n, q) /\ at \in Nat
    BY <1>0
  <2> QED  BY <2>1 DEF Fresh, Resumes
<1>2. ASSUME q.comments, NEW at \in 0..n, NEW to \in Nat PROVE Ignored(at, to) \in Resumes(n, q)
  <2>1. at \in Starts(n, q) /\ at \in Nat
    BY <1>0
  <2> QED  BY <1>2, <2>1 DEF Fresh, Ignored, Resumes
<1>3. Unset \in Resumes(n, q)
  BY <1>0 DEF Fresh, Unset, Resumes
<1> QED  BY <1>1, <1>2, <1>3

LEMMA SkipCommentType ==
    ASSUME NEW f, NEW q \in Parsers, Suits(q, f), f.comments, NEW w, Len(w) \in Nat,
           NEW e \in Engines(Len(w), q)
    PROVE  SkipComment(f, w, e) \in Engines(Len(w), q)
<1> DEFINE n == Len(w)
           start == IF Resuming(w, e) THEN e.resume.scanned_to ELSE e.location
           ends == EndingsFrom(f, w, start)
<1>1. e.location \in 0..n /\ start \in Nat
  BY DEF Engines, Resumes
<1>2. ends # {} => Min(ends) \in 0..n
  <2>1. \A at \in ends : at \in (start + 1)..n
    BY DEF EndingsFrom
  <2> HIDE DEF ends, start
  <2>2. ends \subseteq Nat /\ ends \subseteq 0..n
    BY <1>1, <2>1
  <2> QED  BY <2>2, MinOfPlaces
<1>3. Max({e.location, n - 2}) \in Nat
  <2>1. e.location \in Int /\ n - 2 \in Int /\ e.location >= 0
    BY <1>1
  <2>2. Max({e.location, n - 2}) \in {e.location, n - 2} /\ Max({e.location, n - 2}) >= e.location
    BY ONLY <2>1, MaxOfTwo
  <2> QED  BY <2>1, <2>2
<1>4. Unset \in Resumes(n, q) /\ Ignored(e.location, Max({e.location, n - 2})) \in Resumes(n, q)
  BY <1>1, <1>3, FreshResumes DEF Suits
<1>5. CASE ends # {}
  <2> HIDE DEF ends
  <2>1. [e EXCEPT !.location = Min(ends), !.resume = Unset] \in Engines(n, q)
    BY <1>2, <1>4, <1>5, Moved
  <2> QED  BY <1>5, <2>1 DEF SkipComment, ends, start
<1>6. CASE ends = {}
  <2> HIDE DEF ends
  <2>1. n \in 0..n
    OBVIOUS
  <2>2. [e EXCEPT !.location = n, !.resume = Ignored(e.location, Max({e.location, n - 2}))]
           \in Engines(n, q)
    BY <1>4, <2>1, Moved
  <2> QED  BY <1>6, <2>2 DEF SkipComment, ends, start
<1> QED  BY <1>5, <1>6

LEMMA EndingWidthFits ==
    ASSUME NEW f, NEW w, Len(w) \in Nat, NEW at \in 0..Len(w)
    PROVE  at + EndingWidth(f, w, at) \in 0..Len(w)
BY DEF EndingWidth, HasByte

(* One comment or blank line is passed, and what is left of all of them.   *)
PastOne(f, w, c) ==
    IF f.comments /\ (Resuming(w, c) \/ HasByte(w, c.location, "hash"))
      THEN SkipComment(f, w, c)
      ELSE IF f.skip_blank
        THEN [c EXCEPT !.location = @ + EndingWidth(f, w, @)]
        ELSE c
PastAll(e, c) ==
    IF (e.resume.ignored \/ c.location # e.location) /\ ~c.resume.ignored
      THEN [c EXCEPT !.resume = Fresh(c.location)]
      ELSE c

SkipsBy(f, w, q, e, skip) ==
    /\ skip[0] = e
    /\ \A k \in (0 + 1)..Len(w) : skip[k] = PastOne(f, w, skip[k - 1])
    /\ \A k \in 0..Len(w) : skip[k] \in Engines(Len(w), q)
    /\ SkipIgnored(f, w, e) = PastAll(e, skip[Len(w)])

LEMMA SkipIgnoredRun ==
    ASSUME NEW f, NEW q \in Parsers, Suits(q, f), NEW w, Len(w) \in Nat,
           NEW e \in Engines(Len(w), q)
    PROVE  \E skip : SkipsBy(f, w, q, e, skip)
<1> DEFINE n == Len(w)
           SkipOne(c) ==
               IF f.comments /\ (Resuming(w, c) \/ HasByte(w, c.location, "hash"))
                 THEN SkipComment(f, w, c)
                 ELSE IF f.skip_blank
                   THEN [c EXCEPT !.location = @ + EndingWidth(f, w, @)]
                   ELSE c
           Runs(r) == r = [k \in 0..n |-> IF k = 0 THEN e ELSE SkipOne(r[k - 1])]
           skip == CHOOSE r : Runs(r)
           G == [k \in 1..n |-> [c \in Engines(n, q) |-> SkipOne(c)]]
<1>1. ASSUME NEW c \in Engines(n, q)
      PROVE  SkipOne(c) \in Engines(n, q)
  <2>1. c.location \in 0..n
    BY DEF Engines
  <2>2. f.comments => SkipComment(f, w, c) \in Engines(n, q)
    BY SkipCommentType
  <2>3. [c EXCEPT !.location = c.location + EndingWidth(f, w, c.location)] \in Engines(n, q)
    BY <2>1, EndingWidthFits DEF Engines
  <2> QED  BY <2>2, <2>3
<1>2. G \in Steps(Engines(n, q), 0, n)
  <2> HIDE DEF SkipOne
  <2>1. G \in [1..n -> [Engines(n, q) -> Engines(n, q)]]
    BY <1>1
  <2> QED  BY <2>1 DEF Steps
<1> HIDE DEF SkipOne
<1>3. \E r : Runs(r)
  <2>1. Follows(Engines(n, q), 0, n, e, G)
    <3>1. 0 \in Int /\ n \in Int /\ 0 <= n
      OBVIOUS
    <3> HIDE DEF G, n
    <3> QED  BY <1>2, <3>1, Recursion DEF n
  <2>2. PICK r \in [0..n -> Engines(n, q)] :
           r[0] = e /\ \A k \in (0 + 1)..n : r[k] = G[k][r[k - 1]]
    BY <2>1 DEF Follows
  <2>3. ASSUME NEW k \in 0..n
        PROVE  r[k] = IF k = 0 THEN e ELSE SkipOne(r[k - 1])
    <3>1. CASE k = 0
      BY <2>2, <3>1
    <3>2. CASE k # 0
      <4>1. k \in 1..n /\ k \in (0 + 1)..n /\ k - 1 \in 0..n
        BY <3>2
      <4>2. r[k - 1] \in Engines(n, q) /\ r[k] = G[k][r[k - 1]]
        BY <2>2, <4>1
      <4> QED  BY <3>2, <4>1, <4>2
    <3> QED  BY <3>1, <3>2
  <2>4. Runs(r)
    BY <2>2, <2>3
  <2> QED  BY <2>4
<1>4. Runs(skip)
  BY <1>3
<1> HIDE DEF skip
<1>5. skip[0] = e /\ \A k \in (0 + 1)..n : skip[k] = SkipOne(skip[k - 1])
  BY <1>4
<1>6. \A k \in 0..n : skip[k] \in Engines(n, q)
  <2> DEFINE T == {k \in 0..n : skip[k] \in Engines(n, q)}
  <2>1. 0 \in T
    BY <1>5
  <2>2. \A k \in (0 + 1)..n : k - 1 \in T => k \in T
    BY <1>1, <1>5
  <2>3. 0 \in Int /\ n \in Int
    OBVIOUS
  <2>4. \A k \in 0..n : k \in T
    <3> HIDE DEF T, n
    <3> QED  BY <2>1, <2>2, <2>3, Upward
  <2> QED  BY <2>4
<1>7. SkipIgnored(f, w, e) = PastAll(e, skip[n])
  BY Zenon DEF SkipIgnored, PastAll, skip, SkipOne
<1>8. \A c : SkipOne(c) = PastOne(f, w, c)
  BY Zenon DEF SkipOne, PastOne
<1> QED  BY <1>5, <1>6, <1>7, <1>8 DEF SkipsBy

LEMMA SkipIgnoredType ==
    ASSUME NEW f, NEW q \in Parsers, Suits(q, f), NEW w, Len(w) \in Nat,
           NEW e \in Engines(Len(w), q)
    PROVE  SkipIgnored(f, w, e) \in Engines(Len(w), q)
<1> DEFINE n == Len(w)
<1>1. PICK skip : SkipsBy(f, w, q, e, skip)
  BY SkipIgnoredRun
<1>2. skip[n] \in Engines(n, q) /\ SkipIgnored(f, w, e) = PastAll(e, skip[n])
  BY <1>1 DEF SkipsBy
<1>3. ASSUME NEW c \in Engines(n, q)
      PROVE  PastAll(e, c) \in Engines(n, q)
  <2>1. c.location \in 0..n
    BY DEF Engines
  <2>2. [c EXCEPT !.resume = Fresh(c.location)] \in Engines(n, q)
    BY <2>1, FreshResumes, Moved
  <2> QED  BY <2>2 DEF PastAll
<1> QED  BY <1>2, <1>3

-----------------------------------------------------------------------------
(* An operation leaves an engine behind, and what it tells of it.          *)
LEMMA ErrorAtType ==
    ASSUME NEW q \in Parsers, NEW w, NEW n \in Nat, NEW e \in Engines(n, q),
           NEW kind \in Kinds, NEW at \in Int
    PROVE  ErrorAt(w, e, kind, at) \in ErrorsAt
<1>1. Feeds(w, 0, at) \in Nat
  BY FeedsType
<1>2. e.line_base \in Nat /\ e.record_index \in Nat
  BY DEF Engines
<1>3. ErrorAt(w, e, kind, at) = [kind |-> kind, byte |-> at, line |-> e.line_base + Feeds(w, 0, at),
                                 record |-> e.record_index]
  BY DEF ErrorAt
<1> QED  BY <1>1, <1>2, <1>3 DEF ErrorsAt

LEMMA RecordType ==
    ASSUME NEW q \in Parsers, NEW n \in Nat, NEW e \in Engines(n, q),
           NEW terminated \in BOOLEAN
    PROVE  /\ Record(e, terminated) \in Outs(n, q)
           /\ Record(e, terminated).engine = e /\ Record(e, terminated).tag = "record"
<1>1. NoError \in ErrorsAt
  BY DEF NoError, ErrorsAt, Kinds
<1> QED  BY <1>1 DEF Record, Outs

LEMMA NothingType ==
    ASSUME NEW q \in Parsers, NEW n \in Nat, NEW e \in Engines(n, q)
    PROVE  Nothing(e) \in Outs(n, q) /\ Nothing(e).engine = e /\ Nothing(e).tag = "none"
<1>1. NoError \in ErrorsAt
  BY DEF NoError, ErrorsAt, Kinds
<1> QED  BY <1>1 DEF Nothing, Outs

LEMMA FailureType ==
    ASSUME NEW q \in Parsers, NEW n \in Nat, NEW e \in Engines(n, q), NEW error \in ErrorsAt
    PROVE  /\ Failure(e, error) \in Outs(n, q)
           /\ Failure(e, error).engine = e /\ Failure(e, error).tag = "error"
BY DEF Failure, Outs

LEMMA FoldType ==
    ASSUME NEW f, NEW q \in Parsers, Suits(q, f), NEW n \in Nat,
           NEW e \in Engines(n, q), NEW record, NEW owned,
           record.at \in 0..n
    PROVE  Fold(f, e, record, owned) \in Engines(n, q)
<1> DEFINE lines == e.folded_lines + (IF record.terminated THEN 1 ELSE 0)
<1>1. lines \in Nat /\ record.at \in Nat
  BY DEF Engines
<1>2. Fold(f, e, record, owned) \in {e, [e EXCEPT !.folded_upto = record.at, !.folded_lines = lines]}
  BY DEF Fold
<1> HIDE DEF lines
<1> QED  BY <1>1, <1>2 DEF Engines

(* The record at the engine's location is parsed, wherever that is.        *)
LEMMA ParseRecordType ==
    ASSUME NEW f, NEW q \in Parsers, Suits(q, f), NEW w, Len(w) \in Nat,
           NEW e \in Engines(Len(w), q), NEW owned
    PROVE  /\ ParseRecord(f, w, e, owned) \in Outs(Len(w), q)
           /\ ParseRecord(f, w, e, owned).tag \in {"record", "error"}
           /\ ParseRecord(f, w, e, owned).engine.cursor_start = e.cursor_start
<1> DEFINE n == Len(w)
           record == PhysicalRecord(f, w, e.location)
           parsed == [Fold(f, e, record, owned) EXCEPT !.location = record.at]
           passed == [parsed EXCEPT !.record_index = @ + 1,
                                    !.expected = IF f.match_first THEN record.fields ELSE @]
           Fails(c, kind, at) == Failure([c EXCEPT !.failed = TRUE], ErrorAt(w, c, kind, at))
           o == ParseRecord(f, w, e, owned)
<1>1. e.location \in 0..n /\ n \in Nat
  BY DEF Engines
<1>2. /\ record.verdict \in Verdicts /\ record.at \in Int /\ record.terminated \in BOOLEAN
      /\ record.fields \in Nat
      /\ record.verdict = "ok" => record.at \in e.location..n
  BY <1>1, PhysicalRecordType
<1>3. o = CASE record.verdict # "ok" -> Fails(e, record.verdict, record.at)
            [] /\ record.verdict = "ok"
               /\ f.match_first /\ e.expected \notin {0, record.fields} ->
                 Fails(parsed, "width", record.at)
            [] OTHER -> Record(passed, record.terminated)
  BY Zenon DEF ParseRecord, record, parsed, passed, Fails
<1>4. ASSUME NEW c \in Engines(n, q), NEW kind \in Kinds, c.cursor_start = e.cursor_start
      PROVE  /\ Fails(c, kind, record.at) \in Outs(n, q)
             /\ Fails(c, kind, record.at).tag = "error"
             /\ Fails(c, kind, record.at).engine.cursor_start = e.cursor_start
  <2>1. /\ [c EXCEPT !.failed = TRUE] \in Engines(n, q)
        /\ [c EXCEPT !.failed = TRUE].cursor_start = c.cursor_start
    BY DEF Engines
  <2>2. ErrorAt(w, c, kind, record.at) \in ErrorsAt
    BY <1>1, <1>2, <1>4, ErrorAtType
  <2> DEFINE x == [c EXCEPT !.failed = TRUE]
             error == ErrorAt(w, c, kind, record.at)
  <2>3. x \in Engines(n, q) /\ error \in ErrorsAt /\ x.cursor_start = e.cursor_start
    BY <1>4, <2>1, <2>2
  <2>4. Fails(c, kind, record.at) = Failure(x, error)
    OBVIOUS
  <2> HIDE DEF record, Fails, x, error
  <2>5. /\ Failure(x, error) \in Outs(n, q)
        /\ Failure(x, error).engine = x /\ Failure(x, error).tag = "error"
    BY <1>1, <2>3, FailureType
  <2> QED  BY <2>3, <2>4, <2>5
<1>5. record.verdict = "ok" => /\ parsed \in Engines(n, q) /\ parsed.cursor_start = e.cursor_start
                               /\ passed \in Engines(n, q) /\ passed.cursor_start = e.cursor_start
  <2>1. SUFFICES ASSUME record.verdict = "ok"
                 PROVE  /\ parsed \in Engines(n, q) /\ parsed.cursor_start = e.cursor_start
                        /\ passed \in Engines(n, q) /\ passed.cursor_start = e.cursor_start
    OBVIOUS
  <2>2. record.at \in 0..n
    BY <1>1, <1>2, <2>1
  <2> HIDE DEF record
  <2>3. Fold(f, e, record, owned) \in Engines(n, q)
    BY <1>1, <2>2, FoldType
  <2>4. Fold(f, e, record, owned).cursor_start = e.cursor_start
    BY DEF Fold, Engines
  <2>5. parsed \in Engines(n, q) /\ parsed.cursor_start = e.cursor_start
    BY <2>2, <2>3, <2>4 DEF Engines
  <2> HIDE DEF parsed
  <2>6. passed \in Engines(n, q) /\ passed.cursor_start = e.cursor_start
    <3> DEFINE number == parsed.record_index + 1
               width == IF f.match_first THEN record.fields ELSE parsed.expected
    <3>1. number \in Nat /\ width \in Nat
      BY SMTT(30), <1>2, <2>5 DEF Engines
    <3>2. passed = [parsed EXCEPT !.record_index = number, !.expected = width]
      BY <2>5 DEF Engines
    <3> HIDE DEF number, width, passed
    <3> QED  BY <2>5, <3>1, <3>2 DEF Engines
  <2> QED  BY <2>5, <2>6
<1>6. CASE record.verdict # "ok"
  <2>1. record.verdict \in Kinds
    BY <1>2 DEF Kinds
  <2> HIDE DEF record, Fails
  <2> QED  BY <1>3, <1>4, <1>6, <2>1
<1>7. CASE record.verdict = "ok"
  <2> HIDE DEF record, parsed, passed
  <2>1. /\ Fails(parsed, "width", record.at) \in Outs(n, q)
        /\ Fails(parsed, "width", record.at).tag = "error"
        /\ Fails(parsed, "width", record.at).engine.cursor_start = e.cursor_start
    BY <1>4, <1>5, <1>7 DEF Kinds
  <2>2. /\ Record(passed, record.terminated) \in Outs(n, q)
        /\ Record(passed, record.terminated).tag = "record"
        /\ Record(passed, record.terminated).engine = passed
    BY <1>1, <1>2, <1>5, <1>7, RecordType
  <2> HIDE DEF Fails
  <2> QED  BY <1>3, <1>5, <1>7, <2>1, <2>2
<1> QED  BY <1>6, <1>7

LEMMA NextRecordType ==
    ASSUME NEW f, NEW q \in Parsers, Suits(q, f), NEW w, Len(w) \in Nat,
           NEW e \in Engines(Len(w), q)
    PROVE  NextRecord(f, w, e) \in Outs(Len(w), q)
<1> DEFINE c == IF SkipsRecords(f) THEN SkipIgnored(f, w, e) ELSE e
<1>1. c \in Engines(Len(w), q)
  BY SkipIgnoredType
<1>2. NextRecord(f, w, e) = IF c.location = Len(w) THEN Nothing(c) ELSE ParseRecord(f, w, c, FALSE)
  BY DEF NextRecord
<1> HIDE DEF c
<1>4. Nothing(c) \in Outs(Len(w), q)
  BY <1>1, NothingType
<1>5. ParseRecord(f, w, c, FALSE) \in Outs(Len(w), q)
  BY <1>1, ParseRecordType
<1> QED  BY <1>2, <1>4, <1>5

(* The headers are looked for.                                             *)
LEMMA KnowHeadersType ==
    ASSUME NEW q \in Parsers, NEW n \in Nat, NEW e \in Engines(n, q)
    PROVE  KnowHeaders(e) \in Engines(n, q)
BY DEF KnowHeaders, Engines

LEMMA HeadersType ==
    ASSUME NEW f, NEW q \in Parsers, Suits(q, f), NEW w, Len(w) \in Nat,
           NEW e \in Engines(Len(w), q)
    PROVE  /\ HeadersOfInput(f, w, e) \in Outs(Len(w), q)
           /\ HeadersOfWindow(f, w, e) \in Outs(Len(w), q)
           /\ HeadersOfWindow(f, w, e).tag \in {"none", "error"}
<1> DEFINE n == Len(w)
<1>1. KnowHeaders(e) \in Engines(n, q) /\ Nothing(KnowHeaders(e)) \in Outs(n, q)
      /\ Nothing(KnowHeaders(e)).tag = "none"
  BY KnowHeadersType, NothingType
<1>2. HeadersOfInput(f, w, e) \in Outs(n, q)
  BY <1>1, NextRecordType DEF HeadersOfInput
<1> DEFINE o == NextRecord(f, w, e)
           ensured == IF o.tag = "record" /\ o.engine.location < Len(w)
                        THEN Nothing(KnowHeaders(o.engine))
                        ELSE IF o.tag = "error" THEN o ELSE Nothing(o.engine)
<1>3. o \in Outs(n, q) /\ o.engine \in Engines(n, q)
  BY NextRecordType DEF Outs
<1> HIDE DEF o
<1>4. /\ Nothing(KnowHeaders(o.engine)) \in Outs(n, q) /\ Nothing(KnowHeaders(o.engine)).tag = "none"
      /\ Nothing(o.engine) \in Outs(n, q) /\ Nothing(o.engine).tag = "none"
  BY <1>3, KnowHeadersType, NothingType
<1>5. ensured \in Outs(n, q) /\ ensured.tag \in {"none", "error"}
  BY <1>3, <1>4
<1>6. HeadersOfWindow(f, w, e) =
         IF e.headers \/ ~f.headers THEN Nothing(KnowHeaders(e)) ELSE ensured
  BY Zenon DEF HeadersOfWindow, ensured, o
<1> HIDE DEF ensured
<1> QED  BY <1>1, <1>2, <1>5, <1>6

-----------------------------------------------------------------------------
(* The record before is settled, and the next one positioned.              *)
LEMMA SettleType ==
    ASSUME NEW f, NEW q \in Parsers, Suits(q, f), NEW w, Len(w) \in Nat,
           NEW e \in Engines(Len(w), q)
    PROVE  Settle(f, w, e) \in Outs(Len(w), q)
<1>1. [e EXCEPT !.record_index = e.cursor_index] \in Engines(Len(w), q)
  BY DEF Engines
<1>2. ParseRecord(f, w, [e EXCEPT !.record_index = e.cursor_index], FALSE) \in Outs(Len(w), q)
  BY <1>1, ParseRecordType
<1>3. Nothing(e) \in Outs(Len(w), q)
  BY NothingType
<1> QED  BY <1>2, <1>3 DEF Settle

LEMMA PositionType ==
    ASSUME NEW f, NEW q \in Parsers, Suits(q, f), NEW w, Len(w) \in Nat,
           NEW e \in Engines(Len(w), q)
    PROVE  Position(f, w, e) \in Engines(Len(w), q)
<1> DEFINE n == Len(w)
           later == Max({e.location, e.resume.record_start})
           restored ==
               IF ~e.resume.ignored /\ e.resume.record_start <= Len(w)
                 THEN [e EXCEPT !.location = Max({@, e.resume.record_start})] ELSE e
           c == IF SkipsRecords(f) THEN SkipIgnored(f, w, restored) ELSE e
<1>1. e.location \in 0..n /\ e.resume.record_start \in Nat
  BY StartsAre DEF Engines, Resumes
<1>2. e.resume.record_start <= n => later \in 0..n
  <2>1. SUFFICES ASSUME e.resume.record_start <= n PROVE later \in 0..n
    OBVIOUS
  <2>2. e.resume.record_start \in 0..n
    BY <1>1, <2>1
  <2>3. e.location \in Int /\ e.resume.record_start \in Int
    BY <1>1, <2>2
  <2>4. later \in {e.location, e.resume.record_start}
    BY ONLY <2>3, MaxOfTwo
  <2> HIDE DEF later
  <2> QED  BY <1>1, <2>2, <2>4
<1>3. restored \in Engines(n, q)
  <2>1. restored = IF ~e.resume.ignored /\ e.resume.record_start <= n
                     THEN [e EXCEPT !.location = later] ELSE e
    BY DEF Engines
  <2> HIDE DEF later, restored
  <2> QED  BY <1>2, <2>1 DEF Engines
<1>4. c \in Engines(n, q)
  <2> HIDE DEF restored
  <2> QED  BY <1>3, SkipIgnoredType
<1>5. Position(f, w, e) =
         IF c.location = n THEN [c EXCEPT !.cursor_start = NO_OFFSET]
         ELSE [c EXCEPT !.cursor_start = c.location, !.cursor_index = c.record_index,
                        !.cursor_end = NO_OFFSET]
  BY Zenon DEF Position, c, restored
<1> HIDE DEF c
<1>6. [c EXCEPT !.cursor_start = NO_OFFSET] \in Engines(n, q)
  BY <1>4 DEF Engines
<1>7. [c EXCEPT !.cursor_start = c.location, !.cursor_index = c.record_index,
                !.cursor_end = NO_OFFSET] \in Engines(n, q)
  <2>1. /\ c.location \in (0..n) \cup {NO_OFFSET} /\ c.record_index \in Nat
        /\ NO_OFFSET \in Int
    BY <1>4 DEF Engines, NO_OFFSET
  <2> QED  BY <1>4, <2>1 DEF Engines
<1> QED  BY <1>5, <1>6, <1>7

-----------------------------------------------------------------------------
(* The scan for a record's end before the record is parsed.                *)
Scans ==
    [scanned_to : Nat, field_start : Nat, in_quotes : BOOLEAN,
     verdict : {"scanning", "lacks", "unproven"}]

LEMMA LacksStepType ==
    ASSUME NEW f, NEW w, NEW len, NEW s \in Scans
    PROVE  LacksStep(f, w, len, s) \in Scans
<1> DEFINE To(n) == [s EXCEPT !.scanned_to = @ + n]
           Field(n) == [To(n) EXCEPT !.field_start = s.scanned_to + n, !.in_quotes = FALSE]
           Stop(v) == [s EXCEPT !.verdict = v]
<1>1. /\ To(1) \in Scans /\ To(2) \in Scans
      /\ To(1).in_quotes \in BOOLEAN
  BY DEF Scans
<1>2. [To(1) EXCEPT !.in_quotes = TRUE] \in Scans
  BY <1>1 DEF Scans
<1>3. Field(1) \in Scans /\ Field(2) \in Scans
  <2>1. s.scanned_to + 1 \in Nat /\ s.scanned_to + 2 \in Nat
    BY DEF Scans
  <2> HIDE DEF To
  <2> QED  BY <1>1, <2>1 DEF Scans
<1>4. Stop("lacks") \in Scans /\ Stop("unproven") \in Scans
  BY DEF Scans
<1>5. Stop(IF len < Len(w) THEN "unproven" ELSE "lacks") \in Scans
  BY <1>4
<1> HIDE DEF To, Field, Stop
<1>6. LacksStep(f, w, len, s) \in
         {s, To(1), To(2), [To(1) EXCEPT !.in_quotes = TRUE], Field(1), Field(2),
          Stop("unproven"), Stop(IF len < Len(w) THEN "unproven" ELSE "lacks")}
  BY DEF LacksStep, To, Field, Stop
<1> QED  BY <1>1, <1>2, <1>3, <1>4, <1>5, <1>6

LEMMA LacksScanType ==
    ASSUME NEW f, NEW q \in Parsers, Suits(q, f), NEW w, Len(w) \in Nat,
           NEW e \in Engines(Len(w), q)
    PROVE  LacksScan(f, w, e) \in Scans
<1> DEFINE n == Len(w) + 1
           begun == [scanned_to |-> e.resume.scanned_to, field_start |-> e.resume.field_start,
                     in_quotes |-> e.resume.in_quotes, verdict |-> "scanning"]
           len == Min({Len(w), e.resume.record_start + f.limit + 1})
           Runs(r) == r = [k \in 0..n |-> IF k = 0 THEN begun ELSE LacksStep(f, w, len, r[k - 1])]
           scan == CHOOSE r : Runs(r)
           G == [k \in 1..n |-> [s \in Scans |-> LacksStep(f, w, len, s)]]
<1> HIDE DEF len
<1>1. begun \in Scans
  BY DEF Engines, Resumes, Scans
<1>2. G \in Steps(Scans, 0, n)
  <2>1. G \in [1..n -> [Scans -> Scans]]
    BY LacksStepType
  <2> QED  BY <2>1 DEF Steps
<1> HIDE DEF begun
<1>3. \E r : Runs(r)
  <2>1. Follows(Scans, 0, n, begun, G)
    <3>1. 0 \in Int /\ n \in Int /\ 0 <= n
      OBVIOUS
    <3> HIDE DEF G, n
    <3> QED  BY <1>1, <1>2, <3>1, Recursion
  <2>2. PICK r \in [0..n -> Scans] :
           r[0] = begun /\ \A k \in (0 + 1)..n : r[k] = G[k][r[k - 1]]
    BY <2>1 DEF Follows
  <2>3. ASSUME NEW k \in 0..n
        PROVE  r[k] = IF k = 0 THEN begun ELSE LacksStep(f, w, len, r[k - 1])
    <3>1. CASE k = 0
      BY <2>2, <3>1
    <3>2. CASE k # 0
      <4>1. k \in 1..n /\ k \in (0 + 1)..n /\ k - 1 \in 0..n
        BY <3>2
      <4>2. r[k - 1] \in Scans /\ r[k] = G[k][r[k - 1]]
        BY <2>2, <4>1
      <4> QED  BY <3>2, <4>1, <4>2
    <3> QED  BY <3>1, <3>2
  <2>4. Runs(r)
    BY <2>2, <2>3
  <2> QED  BY <2>4
<1>4. Runs(scan)
  BY <1>3
<1> HIDE DEF scan
<1>5. scan[0] = begun /\ \A k \in (0 + 1)..n : scan[k] = LacksStep(f, w, len, scan[k - 1])
  BY <1>4
<1> DEFINE T == {k \in 0..n : scan[k] \in Scans}
<1>6. 0 \in T
  BY <1>1, <1>5
<1>7. \A k \in (0 + 1)..n : k - 1 \in T => k \in T
  BY <1>5, LacksStepType
<1>8. n \in 0..n /\ 0 \in Int /\ n \in Int
  OBVIOUS
<1>9. n \in T
  <2> HIDE DEF T, n
  <2> QED  BY <1>6, <1>7, <1>8, Upward
<1>10. LacksScan(f, w, e) = scan[n]
  BY Zenon DEF LacksScan, scan, begun, len
<1> QED  BY <1>9, <1>10

LEMMA PausedType ==
    ASSUME NEW q \in Parsers, NEW n \in Nat, NEW e \in Engines(n, q), NEW s \in Scans
    PROVE  Paused(e, s) \in Engines(n, q)
<1> DEFINE r == [record_start |-> e.resume.record_start, scanned_to |-> s.scanned_to,
                 field_start |-> s.field_start, in_quotes |-> s.in_quotes, ignored |-> FALSE]
<1>1. r \in Resumes(n, q)
  BY DEF Engines, Resumes, Scans
<1>2. Paused(e, s) = [e EXCEPT !.resume = r]
  BY DEF Paused
<1> HIDE DEF r
<1> QED  BY <1>1, <1>2 DEF Engines

LEMMA CheckpointType ==
    ASSUME NEW q \in Parsers, NEW w, NEW n \in Nat, NEW start \in 0..n, NEW o \in Outs(n, q)
    PROVE  /\ Checkpoint(w, start, o) \in Outs(n, q)
           /\ Checkpoint(w, start, o).tag = o.tag
           /\ Checkpoint(w, start, o).engine.cursor_start = o.engine.cursor_start
<1>1. o.engine \in Engines(n, q)
  BY DEF Outs
<1>2. Fresh(start) \in Resumes(n, q)
  BY FreshResumes
<1>3. /\ [o.engine EXCEPT !.resume = Fresh(start)] \in Engines(n, q)
      /\ [o.engine EXCEPT !.resume = Fresh(start)].cursor_start = o.engine.cursor_start
  BY <1>1, <1>2 DEF Engines
<1>4. Checkpoint(w, start, o) \in {o, [o EXCEPT !.engine = [o.engine EXCEPT !.resume = Fresh(start)]]}
  BY DEF Checkpoint, Outs
<1> QED  BY <1>3, <1>4 DEF Outs

-----------------------------------------------------------------------------
(* A record found is one that is positioned.                               *)
Found(n, q, o) == o \in Outs(n, q) /\ (o.tag = "record" => Positioned(o.engine))

LEMMA ParserFailedType ==
    ASSUME NEW q \in Parsers, NEW w, Len(w) \in Nat, NEW e \in Engines(Len(w), q)
    PROVE  ParserFailed(w, e) \in Outs(Len(w), q) /\ ParserFailed(w, e).tag = "error"
<1>1. e.location \in Int
  BY DEF Engines
<1>2. ErrorAt(w, e, "failed", e.location) \in ErrorsAt
  BY <1>1, ErrorAtType DEF Kinds
<1> QED  BY <1>2, FailureType DEF ParserFailed

(* try_advance_window and try_read_window_owned: up to the record.         *)
LEMMA TryWindowType ==
    ASSUME NEW f, NEW q \in Parsers, Suits(q, f), NEW w, Len(w) \in Nat,
           NEW e \in Engines(Len(w), q), NEW owned \in BOOLEAN
    PROVE  Found(Len(w), q, TryWindow(f, w, e, owned))
<1> DEFINE n == Len(w)
           Ended(o) ==
               IF owned /\ o.tag = "record"
                 THEN [o EXCEPT !.terminated = @ \/ EndedOnTerminator(f, w, o.engine)]
                 ELSE [o EXCEPT !.engine.cursor_end =
                                   IF o.tag = "record" THEN o.engine.location ELSE @]
           Parsed(c, scan) ==
               IF c.resume.record_start = c.location /\ scan.verdict = "lacks"
                 THEN Nothing(Paused(c, scan))
                 ELSE Checkpoint(w, c.location, Ended(ParseRecord(f, w, c, owned)))
           PositionedAt(c) == IF Positioned(c) THEN Parsed(c, LacksScan(f, w, c)) ELSE Nothing(c)
           Onward(o) ==
               IF o.tag = "error" THEN o ELSE PositionedAt(Position(f, w, o.engine))
           Headed(o) == IF o.tag # "error" /\ (owned \/ o.engine.headers)
                          THEN Onward(Settle(f, w, o.engine)) ELSE o
<1>1. ASSUME NEW o \in Outs(n, q)
      PROVE  /\ Ended(o) \in Outs(n, q) /\ Ended(o).tag = o.tag
             /\ Ended(o).engine.cursor_start = o.engine.cursor_start
  <2>1. /\ o.engine \in Engines(n, q) /\ o.terminated \in BOOLEAN
        /\ EndedOnTerminator(f, w, o.engine) \in BOOLEAN
    BY DEF Outs, EndedOnTerminator
  <2> DEFINE last == IF o.tag = "record" THEN o.engine.location ELSE o.engine.cursor_end
             t == o.terminated \/ EndedOnTerminator(f, w, o.engine)
  <2>2. last \in Int /\ t \in BOOLEAN
    BY SMTT(30), <2>1 DEF Engines
  <2>3. Ended(o) \in {[o EXCEPT !.terminated = t],
                      [o EXCEPT !.engine = [o.engine EXCEPT !.cursor_end = last]]}
    BY <2>1 DEF Outs
  <2> HIDE DEF last, t, Ended
  <2>4. /\ [o.engine EXCEPT !.cursor_end = last] \in Engines(n, q)
        /\ [o.engine EXCEPT !.cursor_end = last].cursor_start = o.engine.cursor_start
    BY <2>1, <2>2 DEF Engines
  <2> QED  BY <2>1, <2>2, <2>3, <2>4 DEF Outs
<1>2. ASSUME NEW c \in Engines(n, q), Positioned(c), NEW scan \in Scans
      PROVE  Found(n, q, Parsed(c, scan))
  <2> DEFINE o == ParseRecord(f, w, c, owned)
             ended == Ended(o)
  <2>1. Nothing(Paused(c, scan)) \in Outs(n, q) /\ Nothing(Paused(c, scan)).tag = "none"
    BY PausedType, NothingType
  <2>2. o \in Outs(n, q) /\ o.engine.cursor_start = c.cursor_start
    BY ParseRecordType
  <2> HIDE DEF o, Ended
  <2>3. ended \in Outs(n, q) /\ ended.engine.cursor_start = c.cursor_start
    BY <1>1, <2>2
  <2>4. c.location \in 0..n
    BY DEF Engines
  <2> HIDE DEF ended
  <2>5. /\ Checkpoint(w, c.location, ended) \in Outs(n, q)
        /\ Checkpoint(w, c.location, ended).engine.cursor_start = c.cursor_start
    BY <2>3, <2>4, CheckpointType
  <2>6. Found(n, q, Nothing(Paused(c, scan))) /\ Found(n, q, Checkpoint(w, c.location, ended))
    BY <1>2, <2>1, <2>5 DEF Found, Positioned
  <2>7. Parsed(c, scan) = IF c.resume.record_start = c.location /\ scan.verdict = "lacks"
                            THEN Nothing(Paused(c, scan)) ELSE Checkpoint(w, c.location, ended)
    BY DEF ended, o, Ended
  <2> HIDE DEF Parsed
  <2> QED  BY <2>6, <2>7
<1> HIDE DEF Parsed
<1>3. ASSUME NEW c \in Engines(n, q)
      PROVE  Found(n, q, PositionedAt(c))
  <2>1. Found(n, q, Nothing(c))
    BY NothingType DEF Found
  <2>2. Positioned(c) => Found(n, q, Parsed(c, LacksScan(f, w, c)))
    BY <1>2, LacksScanType
  <2> QED  BY <2>1, <2>2
<1> HIDE DEF PositionedAt
<1>4. ASSUME NEW o \in Outs(n, q)
      PROVE  Found(n, q, Onward(o))
  <2>1. o.engine \in Engines(n, q)
    BY DEF Outs
  <2>2. Found(n, q, PositionedAt(Position(f, w, o.engine)))
    BY <1>3, <2>1, PositionType
  <2> QED  BY <2>2 DEF Found
<1> HIDE DEF Onward
<1>5. ASSUME NEW o \in Outs(n, q), o.tag # "record"
      PROVE  Found(n, q, Headed(o))
  <2>1. o.engine \in Engines(n, q)
    BY DEF Outs
  <2>2. Found(n, q, Onward(Settle(f, w, o.engine)))
    BY <1>4, <2>1, SettleType
  <2> QED  BY <1>5, <2>2 DEF Found
<1>6. TryWindow(f, w, e, owned) =
         CASE e.failed -> ParserFailed(w, e)
           [] ~e.failed /\ owned -> Headed(Nothing(e))
           [] OTHER -> Headed(HeadersOfWindow(f, w, e))
  BY Zenon DEF TryWindow, Headed, Onward, PositionedAt, Parsed
<1>7. Found(n, q, ParserFailed(w, e))
  BY ParserFailedType DEF Found
<1>8. Found(n, q, Headed(Nothing(e)))
  BY <1>5, NothingType
<1>9. Found(n, q, Headed(HeadersOfWindow(f, w, e)))
  <2>1. HeadersOfWindow(f, w, e) \in Outs(n, q) /\ HeadersOfWindow(f, w, e).tag # "record"
    BY HeadersType
  <2> QED  BY <1>5, <2>1
<1> HIDE DEF Headed
<1> QED  BY <1>6, <1>7, <1>8, <1>9 DEF Engines

-----------------------------------------------------------------------------
(* What a front end is told: of a record only when it is positioned, if it *)
(* is not to be read into the caller's storage.                            *)
Stays(n, q, o) == o.engine \in Engines(n, q)
Shows(n, q, o) == Stays(n, q, o) /\ (o.tag = "record" => Positioned(o.engine))

LEMMA AnswersAre ==
    ASSUME NEW e, NEW tag, NEW o
    PROVE  /\ Answers(e, tag).engine = e /\ Answers(e, tag).tag = tag
           /\ Errs(o).engine = o.engine /\ Errs(o).tag = "error"
           /\ Owned(e).engine = Release(e)
BY DEF Answers, Errs, Owned

LEMMA ErrsShow ==
    ASSUME NEW q \in Parsers, NEW n \in Nat, NEW o \in Outs(n, q)
    PROVE  Shows(n, q, Errs(o))
<1>1. o.engine \in Engines(n, q)
  BY DEF Outs
<1>2. Errs(o).engine = o.engine /\ Errs(o).tag = "error"
  BY AnswersAre
<1> QED  BY <1>1, <1>2 DEF Shows, Stays

LEMMA AnswersShow ==
    ASSUME NEW q \in Parsers, NEW n \in Nat, NEW e \in Engines(n, q),
           NEW tag, tag = "record" => Positioned(e)
    PROVE  Shows(n, q, Answers(e, tag))
<1>1. Answers(e, tag).engine = e /\ Answers(e, tag).tag = tag
  BY AnswersAre
<1> QED  BY <1>1 DEF Shows, Stays

(* advance.                                                                *)
LEMMA AdvanceType ==
    ASSUME NEW f, NEW q \in Parsers, Suits(q, f), NEW w, Len(w) \in Nat,
           NEW e \in Engines(Len(w), q)
    PROVE  Shows(Len(w), q, Advance(f, w, e))
<1> DEFINE n == Len(w)
           At(c) == Answers(c, IF Positioned(c) THEN "record" ELSE "done")
           Onward(o) == IF o.tag = "error" THEN Errs(o) ELSE At(Position(f, w, o.engine))
           Headed(o) == IF o.tag = "error" THEN Errs(o) ELSE Onward(Settle(f, w, o.engine))
<1>1. ASSUME NEW c \in Engines(n, q)
      PROVE  Shows(n, q, At(c))
  BY AnswersShow
<1> HIDE DEF At
<1>2. ASSUME NEW o \in Outs(n, q)
      PROVE  Shows(n, q, Onward(o))
  <2>1. o.engine \in Engines(n, q)
    BY DEF Outs
  <2>2. Shows(n, q, At(Position(f, w, o.engine)))
    BY <1>1, <2>1, PositionType
  <2>3. Shows(n, q, Errs(o))
    BY ErrsShow
  <2> QED  BY <2>2, <2>3
<1> HIDE DEF Onward
<1>3. ASSUME NEW o \in Outs(n, q)
      PROVE  Shows(n, q, Headed(o))
  <2>1. o.engine \in Engines(n, q)
    BY DEF Outs
  <2>2. Shows(n, q, Onward(Settle(f, w, o.engine)))
    BY <1>2, <2>1, SettleType
  <2>3. Shows(n, q, Errs(o))
    BY ErrsShow
  <2> QED  BY <2>2, <2>3
<1> HIDE DEF Headed
<1>4. Advance(f, w, e) = IF e.failed THEN Errs(ParserFailed(w, e)) ELSE Headed(HeadersOfInput(f, w, e))
  BY Zenon DEF Advance, Headed, Onward, At
<1>5. Shows(n, q, Errs(ParserFailed(w, e)))
  BY ParserFailedType, ErrsShow
<1>6. Shows(n, q, Headed(HeadersOfInput(f, w, e)))
  BY <1>3, HeadersType
<1> QED  BY <1>4, <1>5, <1>6

(* The positioned record is parsed, for a view or into storage.            *)
LEMMA RewindType ==
    ASSUME NEW q \in Parsers, NEW n \in Nat, NEW e \in Engines(n, q), Positioned(e)
    PROVE  /\ RewindToCurrent(e) \in Engines(n, q)
           /\ RewindToCurrent(e).cursor_start = e.cursor_start
<1> DEFINE number == IF e.location # e.cursor_start THEN e.cursor_index ELSE e.record_index
<1>1. e.cursor_start \in 0..n /\ number \in Nat
  BY DEF Engines, Positioned
<1>2. RewindToCurrent(e) = [e EXCEPT !.location = e.cursor_start, !.record_index = number]
  BY DEF RewindToCurrent, Engines
<1> HIDE DEF number
<1> QED  BY <1>1, <1>2 DEF Engines

LEMMA MaterializeType ==
    ASSUME NEW f, NEW q \in Parsers, Suits(q, f), NEW w, Len(w) \in Nat,
           NEW e \in Engines(Len(w), q), Positioned(e)
    PROVE  /\ Materialize(f, w, e) \in Outs(Len(w), q)
           /\ Materialize(f, w, e).tag \in {"record", "error"}
           /\ Positioned(Materialize(f, w, e).engine)
<1> DEFINE n == Len(w)
           o == ParseRecord(f, w, RewindToCurrent(e), FALSE)
           ended == IF o.tag = "error" THEN o
                    ELSE [o EXCEPT !.engine.cursor_end = o.engine.location]
<1>1. RewindToCurrent(e) \in Engines(n, q) /\ RewindToCurrent(e).cursor_start = e.cursor_start
  BY RewindType
<1>2. /\ o \in Outs(n, q) /\ o.engine.cursor_start = e.cursor_start
      /\ o.tag \in {"record", "error"}
  <2> DEFINE c == RewindToCurrent(e)
  <2>1. c \in Engines(n, q) /\ c.cursor_start = e.cursor_start
    BY <1>1
  <2> HIDE DEF c
  <2>2. \A owned : /\ ParseRecord(f, w, c, owned) \in Outs(n, q)
                   /\ ParseRecord(f, w, c, owned).tag \in {"record", "error"}
                   /\ ParseRecord(f, w, c, owned).engine.cursor_start = c.cursor_start
    BY <2>1, ParseRecordType
  <2> QED  BY <2>1, <2>2 DEF c
<1> HIDE DEF o
<1>3. o.engine \in Engines(n, q) /\ o.engine.location \in Int
  BY <1>2 DEF Outs, Engines
<1>4. /\ [o.engine EXCEPT !.cursor_end = o.engine.location] \in Engines(n, q)
      /\ [o.engine EXCEPT !.cursor_end = o.engine.location].cursor_start = e.cursor_start
  BY <1>2, <1>3 DEF Engines
<1>5. ended \in {o, [o EXCEPT !.engine = [o.engine EXCEPT !.cursor_end = o.engine.location]]}
  BY <1>2 DEF Outs
<1> HIDE DEF ended
<1>6. ended \in Outs(n, q) /\ ended.tag = o.tag /\ ended.engine.cursor_start = e.cursor_start
  BY <1>2, <1>3, <1>4, <1>5 DEF Outs
<1>7. Materialize(f, w, e) = IF e.cursor_end # NO_OFFSET THEN Record(e, FALSE) ELSE ended
  BY Zenon DEF Materialize, ended, o
<1>8. /\ Record(e, FALSE) \in Outs(n, q) /\ Record(e, FALSE).tag = "record"
      /\ Record(e, FALSE).engine = e
  BY RecordType
<1> QED  BY <1>2, <1>6, <1>7, <1>8 DEF Positioned

LEMMA RecordIntoType ==
    ASSUME NEW f, NEW q \in Parsers, Suits(q, f), NEW w, Len(w) \in Nat,
           NEW e \in Engines(Len(w), q), Positioned(e)
    PROVE  Stays(Len(w), q, RecordInto(f, w, e))
<1>1. RewindToCurrent(e) \in Engines(Len(w), q)
  BY RewindType
<1>2. ParseRecord(f, w, RewindToCurrent(e), TRUE) \in Outs(Len(w), q)
  BY <1>1, ParseRecordType
<1> QED  BY <1>2 DEF RecordInto, Stays, Outs

-----------------------------------------------------------------------------
(* What a try that came to nothing gives up.                               *)
LEMMA RestoredType ==
    ASSUME NEW q \in Parsers, NEW n \in Nat, NEW saved \in Engines(n, q),
           NEW e \in Engines(n, q)
    PROVE  RestoreCursor(saved, e) \in Engines(n, q) /\ RestoreChunkCursor(saved, e) \in Engines(n, q)
<1>1. RestoreCursor(saved, e) \in Engines(n, q)
  BY DEF RestoreCursor, Engines
<1> DEFINE upto == Min({e.folded_upto, saved.location})
<1>2. upto \in Nat
  <2>1. e.folded_upto \in Int /\ saved.location \in Int
        /\ e.folded_upto \in Nat /\ saved.location \in Nat
    BY DEF Engines
  <2>2. upto \in {e.folded_upto, saved.location}
    BY ONLY <2>1, MinOfTwo
  <2> HIDE DEF upto
  <2> QED  BY <2>1, <2>2
<1>3. RestoreChunkCursor(saved, e) =
         [e EXCEPT !.location = saved.location, !.record_index = saved.record_index,
                   !.folded_upto = upto, !.folded_lines = saved.folded_lines,
                   !.expected = saved.expected, !.headers = saved.headers,
                   !.cursor_start = NO_OFFSET, !.cursor_end = NO_OFFSET, !.failed = FALSE]
  BY DEF RestoreChunkCursor, Engines
<1>4. NO_OFFSET \in Int
  BY DEF NO_OFFSET
<1> HIDE DEF upto
<1>5. RestoreChunkCursor(saved, e) \in Engines(n, q)
  BY ZenonT(30), <1>2, <1>3, <1>4 DEF Engines
<1> QED  BY <1>1, <1>5

LEMMA ReleaseType ==
    ASSUME NEW q \in Parsers, NEW n \in Nat, NEW e \in Engines(n, q)
    PROVE  Release(e) \in Engines(n, q)
<1>1. NO_OFFSET \in Int
  BY DEF NO_OFFSET
<1> QED  BY <1>1 DEF Release, Engines

-----------------------------------------------------------------------------
(* The operations of the front end.                                        *)
LEMMA AdvanceWindowType ==
    ASSUME NEW f, NEW q \in Parsers, Suits(q, f), NEW w, Len(w) \in Nat,
           NEW e \in Engines(Len(w), q), NEW atEnd
    PROVE  /\ Shows(Len(w), q, AdvanceWindow(f, w, e, atEnd))
           /\ Shows(Len(w), q, AdvanceWindowLazily(f, w, e, atEnd))
           /\ Shows(Len(w), q, AdvanceWindowEagerly(f, w, e, atEnd))
<1> DEFINE n == Len(w)
           o == TryWindow(f, w, e, FALSE)
           a == Advance(f, w, e)
<1>1. Found(n, q, o)
  BY TryWindowType
<1>2. Shows(n, q, a)
  BY AdvanceType
<1> HIDE DEF o, a
<1>3. o \in Outs(n, q) /\ o.engine \in Engines(n, q) /\ (o.tag = "record" => Positioned(o.engine))
  BY <1>1 DEF Found, Outs
<1>4. o.tag = "record" => Shows(n, q, Answers(o.engine, "record"))
  BY <1>3, AnswersShow
<1>5. RestoreCursor(e, o.engine) \in Engines(n, q)
  BY <1>3, RestoredType
<1>6. Shows(n, q, Answers(RestoreCursor(e, o.engine), "more"))
  BY <1>5, AnswersShow
<1>7. Shows(n, q, Advance(f, w, RestoreCursor(e, o.engine)))
  BY <1>5, AdvanceType
<1>8. Shows(n, q, Errs(o))
  BY <1>3, ErrsShow
<1>9. Shows(n, q, AdvanceWindowLazily(f, w, e, atEnd))
  <2> DEFINE tried == CASE Whole(w, o) -> Answers(o.engine, "record")
                        [] Certain(w, o) -> Advance(f, w, RestoreCursor(e, o.engine))
                        [] OTHER -> Answers(RestoreCursor(e, o.engine), "more")
  <2>1. AdvanceWindowLazily(f, w, e, atEnd) = IF atEnd THEN a ELSE tried
    BY Zenon DEF AdvanceWindowLazily, tried, o, a
  <2>2. Shows(n, q, tried)
    BY <1>4, <1>6, <1>7 DEF Whole, Certain
  <2> QED  BY <1>2, <2>1, <2>2
<1>10. Shows(n, q, AdvanceWindowEagerly(f, w, e, atEnd))
  <2> DEFINE tried == CASE Whole(w, o) -> Answers(o.engine, "record")
                        [] Certain(w, o) -> Errs(o)
                        [] OTHER -> Answers(RestoreCursor(e, o.engine), "more")
             Parsed(x) == IF x.tag = "error" THEN Errs(x) ELSE Answers(x.engine, "record")
             last == IF a.tag = "record" THEN Parsed(Materialize(f, w, a.engine)) ELSE a
  <2>1. AdvanceWindowEagerly(f, w, e, atEnd) = IF atEnd THEN last ELSE tried
    BY Zenon DEF AdvanceWindowEagerly, tried, last, Parsed, o, a
  <2>2. Shows(n, q, tried)
    BY <1>4, <1>6, <1>8 DEF Whole, Certain
  <2>3. a.tag = "record" => Shows(n, q, Parsed(Materialize(f, w, a.engine)))
    <3>1. SUFFICES ASSUME a.tag = "record"
                   PROVE  Shows(n, q, Parsed(Materialize(f, w, a.engine)))
      OBVIOUS
    <3>2. a.engine \in Engines(n, q) /\ Positioned(a.engine)
      BY <1>2, <3>1 DEF Shows, Stays
    <3> DEFINE x == Materialize(f, w, a.engine)
    <3>3. x \in Outs(n, q) /\ Positioned(x.engine)
      BY <3>2, MaterializeType
    <3> HIDE DEF x
    <3>4. x.engine \in Engines(n, q)
      BY <3>3 DEF Outs
    <3>5. Shows(n, q, Errs(x)) /\ Shows(n, q, Answers(x.engine, "record"))
      BY <3>3, <3>4, ErrsShow, AnswersShow
    <3>6. Shows(n, q, Parsed(x))
      BY <3>5
    <3> HIDE DEF Parsed
    <3> QED  BY <3>6 DEF x
  <2> HIDE DEF Parsed
  <2> QED  BY <1>2, <2>1, <2>2, <2>3
<1>11. Shows(n, q, AdvanceWindow(f, w, e, atEnd))
  <2> DEFINE tried == CASE Whole(w, o) -> Answers(o.engine, "record")
                        [] Certain(w, o) -> Errs(o)
                        [] OTHER -> Answers(RestoreChunkCursor(e, o.engine), "more")
  <2>1. AdvanceWindow(f, w, e, atEnd) = IF atEnd THEN a ELSE tried
    BY Zenon DEF AdvanceWindow, tried, o, a
  <2>2. RestoreChunkCursor(e, o.engine) \in Engines(n, q)
    BY <1>3, RestoredType
  <2>3. Shows(n, q, Answers(RestoreChunkCursor(e, o.engine), "more"))
    BY <2>2, AnswersShow
  <2>4. Shows(n, q, tried)
    BY <1>4, <1>8, <2>3 DEF Whole, Certain
  <2> QED  BY <1>2, <2>1, <2>4
<1> QED  BY <1>9, <1>10, <1>11

LEMMA ReadWindowOwnedType ==
    ASSUME NEW f, NEW q \in Parsers, Suits(q, f), NEW w, Len(w) \in Nat,
           NEW e \in Engines(Len(w), q), NEW atEnd
    PROVE  Stays(Len(w), q, ReadWindowOwned(f, w, e, atEnd))
<1> DEFINE n == Len(w)
           o == TryWindow(f, w, e, TRUE)
           a == Advance(f, w, e)
           tried == CASE Whole(w, o) -> Owned(o.engine)
                      [] Certain(w, o) -> Errs(o)
                      [] OTHER -> Answers(RestoreChunkCursor(e, o.engine), "more")
           Parsed(x) == IF x.tag = "error" THEN Errs(x) ELSE Owned(x.engine)
           last == IF a.tag = "record" THEN Parsed(ParseRecord(f, w, a.engine, TRUE)) ELSE a
<1>1. ReadWindowOwned(f, w, e, atEnd) = IF atEnd THEN last ELSE tried
  BY Zenon DEF ReadWindowOwned, tried, last, Parsed, o, a
<1>2. ASSUME NEW c \in Engines(n, q)
      PROVE  Stays(n, q, Owned(c))
  <2>1. Owned(c).engine = Release(c)
    BY AnswersAre
  <2>2. Release(c) \in Engines(n, q)
    BY ReleaseType
  <2> QED  BY <2>1, <2>2 DEF Stays
<1>3. o \in Outs(n, q) /\ o.engine \in Engines(n, q)
  BY TryWindowType DEF Found, Outs
<1>4. Stays(n, q, a)
  BY AdvanceType DEF Shows
<1> HIDE DEF o, a
<1>5. Stays(n, q, tried)
  <2>1. RestoreChunkCursor(e, o.engine) \in Engines(n, q)
    BY <1>3, RestoredType
  <2>2. Stays(n, q, Errs(o)) /\ Stays(n, q, Answers(RestoreChunkCursor(e, o.engine), "more"))
    BY <1>3, <2>1, AnswersAre DEF Stays
  <2>3. Stays(n, q, Owned(o.engine))
    BY <1>2, <1>3
  <2> QED  BY <2>2, <2>3
<1>6. Stays(n, q, last)
  <2> DEFINE x == ParseRecord(f, w, a.engine, TRUE)
  <2>1. a.engine \in Engines(n, q)
    BY <1>4 DEF Stays
  <2>2. x \in Outs(n, q)
    BY <2>1, ParseRecordType
  <2> HIDE DEF x
  <2>3. x.engine \in Engines(n, q)
    BY <2>2 DEF Outs
  <2>4. Stays(n, q, Errs(x)) /\ Stays(n, q, Owned(x.engine))
    BY <1>2, <2>3, AnswersAre DEF Stays
  <2>5. Stays(n, q, Parsed(x))
    BY <2>4
  <2> HIDE DEF Parsed
  <2> QED  BY <1>4, <2>5 DEF x
<1> QED  BY <1>1, <1>5, <1>6

LEMMA HeadersWindowType ==
    ASSUME NEW f, NEW q \in Parsers, Suits(q, f), NEW w, Len(w) \in Nat,
           NEW e \in Engines(Len(w), q), NEW atEnd
    PROVE  Stays(Len(w), q, HeadersWindow(f, w, e, atEnd))
<1> DEFINE n == Len(w)
           o == IF atEnd THEN HeadersOfInput(f, w, e) ELSE HeadersOfWindow(f, w, e)
           Tried(x) ==
               CASE x.tag = "error" /\ (atEnd \/ Certain(w, x)) ->
                      Errs([x EXCEPT !.engine = KnowHeaders(@)])
                 [] x.tag # "error" /\ (atEnd \/ x.engine.headers) ->
                      Answers(KnowHeaders(x.engine), "record")
                 [] OTHER -> Answers(RestoreCursor(e, x.engine), "more")
<1>1. o \in Outs(n, q)
  BY HeadersType
<1> HIDE DEF o
<1>2. o.engine \in Engines(n, q)
  BY <1>1 DEF Outs
<1>3. KnowHeaders(o.engine) \in Engines(n, q) /\ RestoreCursor(e, o.engine) \in Engines(n, q)
  BY <1>2, KnowHeadersType, RestoredType
<1>4. [o EXCEPT !.engine = KnowHeaders(@)].engine = KnowHeaders(o.engine)
  BY <1>1 DEF Outs
<1>5. /\ Stays(n, q, Errs([o EXCEPT !.engine = KnowHeaders(@)]))
      /\ Stays(n, q, Answers(KnowHeaders(o.engine), "record"))
      /\ Stays(n, q, Answers(RestoreCursor(e, o.engine), "more"))
  BY ZenonT(60), <1>3, <1>4, AnswersAre DEF Stays
<1>6. Stays(n, q, Tried(o))
  BY <1>5
<1>7. HeadersWindow(f, w, e, atEnd) = Tried(o)
  BY Zenon DEF HeadersWindow, o, Tried
<1> QED  BY <1>6, <1>7

-----------------------------------------------------------------------------
(* What the engine no longer needs is dropped from the window: never a     *)
(* byte of what it is at, of the positioned record, or of the checkpoint.  *)
LEMMA WindowAnchorType ==
    ASSUME NEW q \in Parsers, NEW n \in Nat, NEW e \in Engines(n, q)
    PROVE  /\ WindowAnchor(e) \in 0..n /\ WindowAnchor(e) <= e.cursor_start
           /\ ~e.resume.ignored /\ e.location < e.cursor_start => WindowAnchor(e) = e.location
<1> DEFINE cursor == Min({e.cursor_start, e.location})
           scanned == Min({cursor, e.resume.scanned_to})
<1>1. /\ e.cursor_start \in (0..n) \cup {NO_OFFSET} /\ e.location \in 0..n
      /\ e.resume.scanned_to \in Nat
  BY DEF Engines, Resumes
<1>2. e.cursor_start \in Nat /\ e.cursor_start \in Int /\ e.location \in Int
  BY <1>1 DEF NO_OFFSET
<1>3. cursor \in {e.cursor_start, e.location} /\ cursor <= e.cursor_start /\ cursor <= e.location
  BY ONLY <1>2, MinOfTwo
<1> HIDE DEF cursor
<1>4. cursor \in 0..n /\ cursor \in Int /\ e.resume.scanned_to \in Int
  BY <1>1, <1>2, <1>3
<1>5. scanned \in {cursor, e.resume.scanned_to} /\ scanned <= cursor
  BY ONLY <1>4, MinOfTwo
<1>6. WindowAnchor(e) = IF e.resume.ignored THEN scanned ELSE cursor
  BY DEF WindowAnchor, cursor
<1> HIDE DEF scanned
<1>7. e.location < e.cursor_start => cursor = e.location
  BY <1>2, <1>3
<1> QED  BY <1>1, <1>2, <1>3, <1>4, <1>5, <1>6, <1>7

LEMMA AnchorType ==
    ASSUME NEW q \in Parsers, q.near, NEW n \in Nat, NEW e \in Engines(n, q)
    PROVE  Anchor(e) \in 0..n /\ (Positioned(e) => Anchor(e) <= e.cursor_start)
<1> DEFINE later == Max({WindowAnchor(e), e.resume.record_start})
<1>1. WindowAnchor(e) \in 0..n /\ WindowAnchor(e) <= e.cursor_start
  BY WindowAnchorType
<1>2. e.resume.record_start \in (0..n) \cup {NO_OFFSET}
  BY StartsAre DEF Engines, Resumes
<1>3. e.resume.record_start # NO_OFFSET => later \in 0..n
  <2>1. SUFFICES ASSUME e.resume.record_start # NO_OFFSET PROVE later \in 0..n
    OBVIOUS
  <2>2. e.resume.record_start \in 0..n
    BY <1>2, <2>1
  <2>3. WindowAnchor(e) \in Int /\ e.resume.record_start \in Int
    BY <1>1, <2>2
  <2>4. later \in {WindowAnchor(e), e.resume.record_start}
    BY ONLY <2>3, MaxOfTwo
  <2> QED  BY <1>1, <2>2, <2>4
<1>4. Anchor(e) = IF ~Positioned(e) /\ ~e.resume.ignored /\ e.resume.record_start # NO_OFFSET
                    THEN later ELSE WindowAnchor(e)
  BY DEF Anchor
<1> HIDE DEF later
<1> QED  BY <1>1, <1>3, <1>4

LEMMA ShiftResumeType ==
    ASSUME NEW q \in Parsers, NEW n \in Nat, NEW by \in 0..n, NEW r \in Resumes(n, q)
    PROVE  ShiftResume(r, by) \in Resumes(n - by, q)
<1> DEFINE S == {r.record_start, r.scanned_to, r.field_start}
           left == Max({0, r.scanned_to - by})
           shifted == [r EXCEPT !.record_start = @ - by, !.scanned_to = @ - by,
                                !.field_start = @ - by]
<1>1. /\ r.record_start \in Starts(n, q) /\ r.record_start \in Nat /\ r.scanned_to \in Nat
      /\ r.field_start \in Nat /\ n - by \in Nat
  BY StartsAre DEF Resumes
<1>2. CASE r.record_start = NO_OFFSET
  <2>1. NO_OFFSET \in Starts(n - by, q)
    BY <1>1, StartsAre
  <2> QED  BY <1>2, <2>1 DEF ShiftResume, Resumes
<1>3. CASE r.record_start # NO_OFFSET /\ r.ignored /\ r.record_start < by
  <2>1. 0 \in Int /\ r.scanned_to - by \in Int
    BY <1>1
  <2>2. left \in Nat
    <3>1. left \in {0, r.scanned_to - by} /\ left >= 0
      BY ONLY <2>1, MaxOfTwo
    <3> HIDE DEF left
    <3> QED  BY <2>1, <3>1
  <2>3. ShiftResume(r, by) = Ignored(0, left)
    BY <1>3 DEF ShiftResume
  <2> HIDE DEF left
  <2>4. q.comments
    BY <1>3 DEF Resumes
  <2> QED  BY <1>1, <2>2, <2>3, <2>4, FreshResumes
<1>4. CASE r.record_start # NO_OFFSET /\ ~(r.ignored /\ r.record_start < by)
  <2>1. ShiftResume(r, by) = IF Min(S) >= by THEN shifted ELSE Unset
    BY <1>4 DEF ShiftResume
  <2>2. S \subseteq Nat /\ S # {}
    BY <1>1
  <2>3. \A y \in S : Min(S) <= y /\ Min(S) \in Nat
    BY <2>2, MinOfPlaces
  <2>4. Min(S) >= by => /\ r.record_start - by \in Starts(n - by, q) /\ r.scanned_to - by \in Nat
                        /\ r.field_start - by \in Nat
    <3> DEFINE least == Min(S)
    <3>1. least <= r.record_start /\ least <= r.scanned_to /\ least <= r.field_start /\ least \in Nat
      BY <2>3
    <3> HIDE DEF least
    <3>2. least >= by => /\ r.record_start >= by /\ r.scanned_to - by \in Nat
                         /\ r.field_start - by \in Nat
      BY <1>1, <3>1
    <3>3. least >= by => r.record_start - by \in Starts(n - by, q)
      BY <1>1, <1>4, <3>2, StartsAre
    <3> QED  BY <3>2, <3>3 DEF least
  <2>5. Unset \in Resumes(n - by, q)
    BY <1>1, FreshResumes
  <2>6. Min(S) >= by => shifted \in Resumes(n - by, q)
    <3>1. shifted = [r EXCEPT !.record_start = r.record_start - by,
                              !.scanned_to = r.scanned_to - by, !.field_start = r.field_start - by]
      BY DEF Resumes
    <3> HIDE DEF S, shifted
    <3> QED  BY <2>4, <3>1 DEF Resumes
  <2> HIDE DEF S, shifted
  <2> QED  BY <2>1, <2>5, <2>6
<1> QED  BY <1>2, <1>3, <1>4

LEMMA ShiftWindowType ==
    ASSUME NEW q \in Parsers, NEW w, Len(w) \in Nat, NEW e \in Engines(Len(w), q),
           NEW by \in 0..Len(w),
           Positioned(e) => by <= e.cursor_start
    PROVE  ShiftWindow(w, e, by) \in Engines(Len(w) - by, q)
<1> DEFINE n == Len(w)
           tallied == e.folded_upto >= by /\ e.folded_upto <= n
           overshot == Feeds(w, by, e.folded_upto)
           Shifted(at) == IF at = NO_OFFSET THEN at ELSE at - by
           dropped == IF tallied THEN Max({0, e.folded_lines - overshot}) ELSE Feeds(w, 0, by)
           base == e.line_base + dropped
           upto == IF tallied THEN e.folded_upto - by ELSE 0
           lines == IF tallied THEN overshot ELSE 0
           location == Max({0, e.location - by})
           start == Shifted(e.cursor_start)
           end == Shifted(e.cursor_end)
           r == ShiftResume(e.resume, by)
<1>1. /\ e.location \in 0..n /\ e.line_base \in Nat /\ e.folded_upto \in Nat
      /\ e.folded_lines \in Nat /\ e.cursor_start \in (0..n) \cup {NO_OFFSET}
      /\ e.cursor_end \in Int /\ e.resume \in Resumes(n, q) /\ n - by \in Nat /\ by \in Int
  BY DEF Engines
<1>2. overshot \in Nat /\ Feeds(w, 0, by) \in Nat
  BY <1>1, FeedsType
<1> HIDE DEF overshot
<1>3. base \in Nat
  <2>1. 0 \in Int /\ e.folded_lines - overshot \in Int
    BY <1>1, <1>2
  <2> DEFINE rest == Max({0, e.folded_lines - overshot})
  <2>2. rest \in {0, e.folded_lines - overshot} /\ rest >= 0
    BY ONLY <2>1, MaxOfTwo
  <2> HIDE DEF rest
  <2>3. rest \in Nat
    BY <2>1, <2>2
  <2>4. dropped \in {rest, Feeds(w, 0, by)}
    BY DEF rest
  <2> HIDE DEF dropped
  <2> QED  BY <1>1, <1>2, <2>3, <2>4
<1>4. upto \in Nat /\ lines \in Nat
  BY <1>1, <1>2
<1>5. location \in 0..(n - by)
  <2>1. 0 \in Int /\ e.location - by \in Int /\ e.location - by <= n - by
    BY <1>1
  <2>2. location \in {0, e.location - by} /\ location >= 0
    BY ONLY <2>1, MaxOfTwo
  <2> HIDE DEF location
  <2> QED  BY <1>1, <2>1, <2>2
<1>6. start \in (0..(n - by)) \cup {NO_OFFSET}
  BY <1>1 DEF Positioned
<1>7. end \in Int
  BY <1>1
<1>8. r \in Resumes(n - by, q)
  BY <1>1, ShiftResumeType
<1> DEFINE shifted ==
               [e EXCEPT !.line_base = base, !.folded_upto = upto, !.folded_lines = lines,
                         !.location = location, !.cursor_start = start, !.cursor_end = end,
                         !.resume = r]
<1>9. ShiftWindow(w, e, by) = IF by = 0 THEN e ELSE shifted
  BY DEF ShiftWindow, overshot, Engines
<1> HIDE DEF base, upto, lines, location, start, end, r
<1>10. shifted \in Engines(n - by, q)
  BY <1>3, <1>4, <1>5, <1>6, <1>7, <1>8 DEF Engines
<1> HIDE DEF shifted
<1>11. by = 0 => n - by = n
  BY <1>1
<1> QED  BY <1>9, <1>10, <1>11

(* A window that grows is still one the engine is in.                      *)
LEMMA EnginesGrow ==
    ASSUME NEW q \in Parsers, NEW n \in Nat, NEW m \in Nat, NEW e \in Engines(n, q)
    PROVE  e \in Engines(n + m, q)
<1>1. 0..n \subseteq 0..(n + m) /\ Starts(n, q) \subseteq Starts(n + m, q)
  BY DEF Starts
<1>2. Resumes(n, q) \subseteq Resumes(n + m, q)
  BY <1>1 DEF Resumes
<1> QED  BY <1>1, <1>2 DEF Engines

(* What lies beyond the engine and the checkpoints it may have is no loss. *)
LEMMA EnginesShrink ==
    ASSUME NEW q \in Parsers, ~q.near, NEW n \in Nat, NEW m \in Nat, NEW e \in Engines(n, q),
           e.location <= m, ~Positioned(e)
    PROVE  e \in Engines(m, q)
<1>1. Resumes(n, q) = Resumes(m, q)
  BY DEF Resumes, Starts
<1>2. e.location \in 0..m /\ e.cursor_start = NO_OFFSET
  BY DEF Engines, Positioned
<1> QED  BY <1>1, <1>2 DEF Engines

(* What comes before a literal's next place is skipped.                    *)
LEMMA SkipRecordsType ==
    ASSUME NEW q \in Parsers, NEW n \in Nat, NEW e \in Engines(n, q),
           NEW bytes \in 0..(n - e.location),
           NEW records \in Nat
    PROVE  SkipRecords(e, bytes, records) \in Engines(n, q)
<1>1. e.location \in 0..n /\ e.record_index \in Nat /\ NO_OFFSET \in Int
  BY DEF Engines, NO_OFFSET
<1>2. e.location + bytes \in 0..n /\ e.record_index + records \in Nat
  BY <1>1
<1>3. Unset \in Resumes(n, q)
  BY FreshResumes
<1>4. SkipRecords(e, bytes, records) =
         [e EXCEPT !.location = e.location + bytes, !.record_index = e.record_index + records,
                   !.cursor_start = NO_OFFSET, !.cursor_end = NO_OFFSET, !.resume = Unset]
  BY DEF SkipRecords, Engines
<1> QED  BY <1>1, <1>2, <1>3, <1>4 DEF Engines

-----------------------------------------------------------------------------
(* The engine begins, and begins again, over an empty window.              *)
LEMMA NewEngineType ==
    ASSUME NEW q \in Parsers, NEW n \in Nat
    PROVE  NewEngine \in Engines(n, q)
<1>1. Unset \in Resumes(n, q) /\ NO_OFFSET \in Int
  BY FreshResumes DEF NO_OFFSET
<1> QED  BY <1>1 DEF NewEngine, Engines

LEMMA ResetType ==
    ASSUME NEW q \in Parsers, NEW n \in Nat, NEW e \in Engines(n, q), NEW line \in Nat,
           NEW record \in Nat, NEW f
    PROVE  /\ ResetPosition(e, line, record) \in Engines(0, q)
           /\ ResetHeaders(f, ResetPosition(e, line, record)) \in Engines(0, q)
<1>1. NewEngine \in Engines(0, q)
  BY NewEngineType
<1>2. e.expected \in Nat /\ e.headers \in BOOLEAN
  BY DEF Engines
<1>3. ResetPosition(e, line, record) \in Engines(0, q)
  BY <1>1, <1>2 DEF ResetPosition, Engines
<1> DEFINE c == ResetPosition(e, line, record)
           headers == IF f.headers THEN FALSE ELSE c.headers
           expected == IF f.match_first THEN 0 ELSE c.expected
<1> HIDE DEF c
<1>4. headers \in BOOLEAN /\ expected \in Nat
  BY <1>3 DEF Engines, c
<1>5. ResetHeaders(f, c) = [c EXCEPT !.headers = headers, !.expected = expected]
  BY <1>3 DEF ResetHeaders, Engines, c
<1> HIDE DEF headers, expected
<1>6. ResetHeaders(f, c) \in Engines(0, q)
  BY <1>3, <1>4, <1>5 DEF Engines, c
<1> QED  BY <1>3, <1>6 DEF c

LEMMA SkipDetectedBomType ==
    ASSUME NEW q \in Parsers, NEW w, Len(w) \in Nat, NEW e \in Engines(Len(w), q)
    PROVE  SkipDetectedBom(w, e) \in Engines(Len(w), q)
BY SMTT(30) DEF SkipDetectedBom, StartsWithBom, Engines

-----------------------------------------------------------------------------
(* What the whole stream comes to: where its records are.                  *)
OutcomesOf(n, q) ==
    [tag : {"done"}, at : {n}, engine : Engines(n, q)]
    \cup [tag : {"error"}, error : ErrorsAt, engine : Engines(n, q)]
    \cup [tag : {"record"}, terminated : BOOLEAN, engine : Engines(n, q),
          record : [start : 0..n, end : 0..n, index : Nat]]

LEMMA OutcomesAre ==
    ASSUME NEW q \in Parsers, NEW n \in Nat, NEW o \in OutcomesOf(n, q)
    PROVE  /\ o.engine \in Engines(n, q)
           /\ o.tag = "record" => o.record.start \in 0..n /\ o.record.index \in Nat
BY DEF OutcomesOf

LEMMA SliceParseType ==
    ASSUME NEW f, NEW q \in Parsers, Suits(q, f), NEW s, Len(s) \in Nat
    PROVE  SliceParse(f, s) \in Seq(OutcomesOf(Len(s), q))
<1> DEFINE n == Len(s)
           O == OutcomesOf(n, q)
           S == Seq(O) \ {<<>>}
           Told(c, o) ==
               CASE c.location = Len(s) -> [tag |-> "done", at |-> Len(s), engine |-> c]
                 [] c.location # Len(s) /\ o.tag = "error" ->
                      [tag |-> "error", error |-> o.error, engine |-> o.engine]
                 [] c.location # Len(s) /\ o.tag = "record" ->
                      [tag |-> "record", terminated |-> o.terminated, engine |-> o.engine,
                       record |-> [start |-> c.location, end |-> o.engine.location,
                                   index |-> c.record_index]]
           At(c) == Told(c, ParseRecord(f, s, c, FALSE))
           After(e) == At(SkipIgnored(f, s, [e EXCEPT !.resume = Unset]))
           Start == IF f.bom = "detect" THEN SkipDetectedBom(s, NewEngine) ELSE NewEngine
           Continued(outcomes) ==
               LET last == outcomes[Len(outcomes)]
               IN  IF last.tag = "record" THEN Append(outcomes, After(last.engine)) ELSE outcomes
           Runs(r) == r = [k \in 0..n |-> IF k = 0 THEN <<After(Start)>> ELSE Continued(r[k - 1])]
           run == CHOOSE r : Runs(r)
           Data(outcomes) ==
               IF f.headers /\ outcomes[1].tag = "record" THEN Tail(outcomes) ELSE outcomes
           G == [k \in 1..n |-> [x \in S |-> Continued(x)]]
<1>1. ASSUME NEW c \in Engines(n, q)
      PROVE  At(c) \in O
  <2> DEFINE o == ParseRecord(f, s, c, FALSE)
  <2>1. \A owned : /\ ParseRecord(f, s, c, owned) \in Outs(n, q)
                   /\ ParseRecord(f, s, c, owned).tag \in {"record", "error"}
    BY ParseRecordType
  <2>2. o \in Outs(n, q) /\ o.tag \in {"record", "error"}
    BY <2>1
  <2> HIDE DEF o
  <2>3. o.engine \in Engines(n, q) /\ o.terminated \in BOOLEAN /\ o.error \in ErrorsAt
    BY <2>2 DEF Outs
  <2>4. c.location \in 0..n /\ c.record_index \in Nat /\ o.engine.location \in 0..n
    BY <2>3 DEF Engines
  <2>5. CASE c.location = n
    <3>1. Told(c, o) = [tag |-> "done", at |-> n, engine |-> c]
      BY <2>5
    <3> HIDE DEF Told
    <3>2. Told(c, o) \in O
      BY <3>1 DEF OutcomesOf
    <3> QED  BY <3>2 DEF o, Told
  <2>6. CASE c.location # n /\ o.tag = "error"
    <3>1. Told(c, o) = [tag |-> "error", error |-> o.error, engine |-> o.engine]
      BY <2>6
    <3> HIDE DEF Told
    <3>2. Told(c, o) \in O
      BY <2>3, <3>1 DEF OutcomesOf
    <3> QED  BY <3>2 DEF o, Told
  <2>7. CASE c.location # n /\ o.tag = "record"
    <3> DEFINE r == [start |-> c.location, end |-> o.engine.location, index |-> c.record_index]
    <3>1. Told(c, o) = [tag |-> "record", terminated |-> o.terminated, engine |-> o.engine,
                        record |-> r]
      BY <2>7
    <3>2. r \in [start : 0..n, end : 0..n, index : Nat]
      BY <2>4
    <3> HIDE DEF Told, r
    <3>3. Told(c, o) \in O
      BY <2>3, <3>1, <3>2 DEF OutcomesOf
    <3> QED  BY <3>3 DEF o, Told
  <2> QED  BY <2>2, <2>5, <2>6, <2>7
<1> HIDE DEF At
<1>2. ASSUME NEW e \in Engines(n, q)
      PROVE  After(e) \in O
  <2>1. Unset \in Resumes(n, q)
    BY FreshResumes
  <2>2. [e EXCEPT !.resume = Unset] \in Engines(n, q)
    BY <2>1 DEF Engines
  <2> QED  BY <1>1, <2>2, SkipIgnoredType
<1> HIDE DEF After
<1>3. <<After(Start)>> \in S
  <2>1. Start \in Engines(n, q)
    BY NewEngineType, SkipDetectedBomType
  <2> QED  BY <1>2, <2>1
<1> HIDE DEF Start, O
<1>4. ASSUME NEW x \in S
      PROVE  Continued(x) \in S
  <2>1. x \in Seq(O) /\ Len(x) \in 1..Len(x)
    BY EmptySeq
  <2>2. x[Len(x)] \in O
    BY <2>1
  <2>3. After(x[Len(x)].engine) \in O
    BY <1>2, <2>2, OutcomesAre DEF O
  <2>4. Append(x, After(x[Len(x)].engine)) \in Seq(O) /\ Append(x, After(x[Len(x)].engine)) # <<>>
    BY <2>1, <2>3
  <2> QED  BY <2>4
<1> HIDE DEF Continued
<1>5. G \in Steps(S, 0, n)
  <2> HIDE DEF S
  <2>1. G \in [1..n -> [S -> S]]
    BY <1>4
  <2> QED  BY <2>1 DEF Steps
<1> DEFINE first == <<After(Start)>>
<1> HIDE DEF S, first
<1>6. first \in S
  BY <1>3 DEF first
<1>7. \E r : Runs(r)
  <2>1. Follows(S, 0, n, first, G)
    <3>1. 0 \in Int /\ n \in Int /\ 0 <= n
      OBVIOUS
    <3> HIDE DEF G, n
    <3> QED  BY <1>5, <1>6, <3>1, Recursion
  <2>2. PICK r \in [0..n -> S] :
           r[0] = first /\ \A k \in (0 + 1)..n : r[k] = G[k][r[k - 1]]
    BY <2>1 DEF Follows
  <2>3. ASSUME NEW k \in 0..n
        PROVE  r[k] = IF k = 0 THEN first ELSE Continued(r[k - 1])
    <3>1. CASE k = 0
      BY <2>2, <3>1
    <3>2. CASE k # 0
      <4>1. k \in 1..n /\ k \in (0 + 1)..n /\ k - 1 \in 0..n
        BY <3>2
      <4>2. r[k - 1] \in S /\ r[k] = G[k][r[k - 1]]
        BY <2>2, <4>1
      <4> QED  BY <3>2, <4>1, <4>2
    <3> QED  BY <3>1, <3>2
  <2>4. Runs(r)
    BY <2>2, <2>3 DEF first
  <2> QED  BY <2>4
<1>8. Runs(run)
  BY <1>7
<1> HIDE DEF run
<1>9. run[0] = first /\ \A k \in (0 + 1)..n : run[k] = Continued(run[k - 1])
  BY SMTT(30), <1>8 DEF first
<1> DEFINE T == {k \in 0..n : run[k] \in S}
<1>10. 0 \in T
  BY <1>6, <1>9
<1>11. \A k \in (0 + 1)..n : k - 1 \in T => k \in T
  BY <1>4, <1>9
<1>12. n \in 0..n /\ 0 \in Int /\ n \in Int
  OBVIOUS
<1>13. n \in T
  <2> HIDE DEF T, n
  <2> QED  BY <1>10, <1>11, <1>12, Upward
<1>14. run[n] \in S
  BY <1>13
<1>15. Data(run[n]) \in Seq(O)
  <2> DEFINE x == run[n]
  <2>1. x \in Seq(O) /\ x # <<>>
    BY <1>14 DEF S
  <2> HIDE DEF x
  <2>2. Data(x) \in Seq(O)
    BY <2>1, HeadTailProperties
  <2> QED  BY <2>2 DEF x
<1>16. <<[tag |-> "error", error |-> RejectedBom, engine |-> NewEngine]>> \in Seq(O)
  <2>1. RejectedBom \in ErrorsAt
    BY DEF RejectedBom, ErrorsAt, Kinds
  <2>2. NewEngine \in Engines(n, q)
    BY NewEngineType
  <2>3. [tag |-> "error", error |-> RejectedBom, engine |-> NewEngine] \in O
    BY <2>1, <2>2 DEF O, OutcomesOf
  <2> QED  BY <2>3
<1>17. SliceParse(f, s) =
          IF f.bom = "reject" /\ StartsWithBom(s)
            THEN <<[tag |-> "error", error |-> RejectedBom, engine |-> NewEngine]>>
            ELSE Data(run[n])
  BY Zenon DEF SliceParse, run, Continued, After, At, Start
<1> QED  BY <1>15, <1>16, <1>17 DEF O

-----------------------------------------------------------------------------
(* The last of some places in a window.                                    *)
LEMMA MaxOfPlaces ==
    ASSUME NEW n \in Nat, NEW S, S \subseteq 0..n, S # {}
    PROVE  Max(S) \in S
<1> DEFINE R == {n - x : x \in S}
<1>1. R \subseteq Nat /\ R # {}
  OBVIOUS
<1>2. PICK m \in R : \A y \in R : m <= y
  BY <1>1, LeastExists
<1>3. PICK x \in S : m = n - x
  BY <1>2
<1>4. \A y \in S : x >= y
  <2> TAKE y \in S
  <2>1. n - y \in R /\ x \in 0..n /\ y \in 0..n
    OBVIOUS
  <2> QED  BY <1>2, <1>3, <2>1
<1>5. \E z \in S : \A y \in S : z >= y
  BY <1>4
<1> QED  BY <1>5 DEF Max

(* What comes before a literal lies in the window.                         *)
LEMMA BeforeLiteralType ==
    ASSUME NEW w \in Seq(STRING), NEW from \in 0..Len(w), NEW literal \in Seq(STRING)
    PROVE  Len(BeforeLiteral(w, from, literal)) \in 0..(Len(w) - from)
<1> DEFINE n == Len(w)
           hits == {i \in from..(Len(w) - Len(literal)) :
                       SubSeq(w, i + 1, i + Len(literal)) = literal}
           P == {Len(w)} \cup hits
<1>1. n \in Nat /\ Len(literal) \in Nat
  BY LenProperties
<1>2. \A i \in P : i \in from..n \/ i = n
  BY <1>1
<1>3. P \subseteq Nat /\ P # {} /\ P \subseteq from..n
  BY <1>1, <1>2
<1> HIDE DEF P
<1>4. Min(P) \in from..n
  BY <1>3, MinOfPlaces
<1>5. BeforeLiteral(w, from, literal) = SubSeq(w, from + 1, Min(P))
  BY DEF BeforeLiteral, P
<1> DEFINE to == Min(P)
<1>6. to \in from..n
  BY <1>4
<1> HIDE DEF to
<1>7. \A i \in (from + 1)..to : w[i] \in STRING
  BY <1>1, <1>6, ElementOfSeq
<1>8. Len(SubSeq(w, from + 1, to)) = IF from + 1 <= to THEN to - (from + 1) + 1 ELSE 0
  BY <1>1, <1>6, <1>7, SubSeqProperties
<1>9. Len(SubSeq(w, from + 1, to)) \in 0..(n - from)
  BY <1>1, <1>6, <1>8
<1> QED  BY <1>5, <1>9 DEF to

(* A window of the stream with its first bytes dropped and the next ones   *)
(* read is the window of the stream that begins and ends so much later.    *)
LEMMA WindowMoves ==
    ASSUME NEW s \in Seq(STRING), NEW c \in Nat, NEW p \in c..Len(s),
           NEW a \in 0..(p - c), NEW m \in 0..(Len(s) - p), NEW w, w = SubSeq(s, c + 1, p)
    PROVE  /\ w \in Seq(STRING) /\ Len(w) = p - c
           /\ SubSeq(w, a + 1, Len(w)) \o SubSeq(s, p + 1, p + m) = SubSeq(s, c + a + 1, p + m)
<1> DEFINE l == p - c
           kept == SubSeq(w, a + 1, l)
           read == SubSeq(s, p + 1, p + m)
           moved == SubSeq(s, c + a + 1, p + m)
<1>1. Len(s) \in Nat /\ \A i \in 1..Len(s) : s[i] \in STRING
  BY LenProperties
<1>2. l \in Nat /\ a \in 0..l /\ m \in Nat /\ p \in Nat /\ p + m <= Len(s)
  BY <1>1
<1>3. /\ w \in Seq(STRING) /\ Len(w) = l
      /\ \A i \in 1..l : w[i] = s[c + i]
  <2>1. \A i \in (c + 1)..p : s[i] \in STRING
    BY <1>1
  <2>2. /\ w \in Seq(STRING) /\ Len(w) = IF c + 1 <= p THEN p - (c + 1) + 1 ELSE 0
        /\ \A i \in 1..(p - (c + 1) + 1) : w[i] = s[c + 1 + i - 1]
    BY <2>1, <1>1, SubSeqProperties
  <2>3. \A i \in 1..l : c + 1 + i - 1 = c + i /\ i \in 1..(p - (c + 1) + 1)
    BY <1>1
  <2> QED  BY <1>1, <2>2, <2>3
<1>4. /\ kept \in Seq(STRING) /\ Len(kept) = l - a
      /\ \A i \in 1..(l - a) : kept[i] = s[c + a + i]
  <2>1. \A i \in (a + 1)..l : w[i] \in STRING
    BY <1>2, <1>3, ElementOfSeq
  <2>2. /\ kept \in Seq(STRING) /\ Len(kept) = IF a + 1 <= l THEN l - (a + 1) + 1 ELSE 0
        /\ \A i \in 1..(l - (a + 1) + 1) : kept[i] = w[a + 1 + i - 1]
    BY <1>2, <2>1, SubSeqProperties
  <2>3. ASSUME NEW i \in 1..(l - a)
        PROVE  kept[i] = s[c + a + i]
    <3>1. i \in 1..(l - (a + 1) + 1) /\ a + 1 + i - 1 = a + i /\ a + i \in 1..l
          /\ c + (a + i) = c + a + i
      BY <1>2
    <3> QED  BY <1>3, <2>2, <3>1
  <2> QED  BY <1>2, <2>2, <2>3
<1>5. /\ read \in Seq(STRING) /\ Len(read) = m
      /\ \A i \in 1..m : read[i] = s[p + i]
  <2>1. \A i \in (p + 1)..(p + m) : s[i] \in STRING
    BY <1>1, <1>2
  <2>2. /\ read \in Seq(STRING)
        /\ Len(read) = IF p + 1 <= p + m THEN (p + m) - (p + 1) + 1 ELSE 0
        /\ \A i \in 1..((p + m) - (p + 1) + 1) : read[i] = s[p + 1 + i - 1]
    BY <1>2, <2>1, SubSeqProperties
  <2>3. \A i \in 1..m : p + 1 + i - 1 = p + i /\ i \in 1..((p + m) - (p + 1) + 1)
    BY <1>2
  <2> QED  BY <1>2, <2>2, <2>3
<1>6. /\ moved \in Seq(STRING) /\ Len(moved) = (l - a) + m
      /\ \A i \in 1..((l - a) + m) : moved[i] = s[c + a + i]
  <2>1. \A i \in (c + a + 1)..(p + m) : s[i] \in STRING
    BY <1>1, <1>2
  <2>2. /\ moved \in Seq(STRING)
        /\ Len(moved) = IF c + a + 1 <= p + m THEN (p + m) - (c + a + 1) + 1 ELSE 0
        /\ \A i \in 1..((p + m) - (c + a + 1) + 1) : moved[i] = s[c + a + 1 + i - 1]
    <3> DEFINE from == c + a + 1
               to == p + m
    <3>1. from \in Int /\ to \in Int
      BY <1>2
    <3>2. \A i \in from..to : s[i] \in STRING
      BY <2>1
    <3> HIDE DEF from, to
    <3>3. /\ SubSeq(s, from, to) \in Seq(STRING)
          /\ Len(SubSeq(s, from, to)) = IF from <= to THEN to - from + 1 ELSE 0
          /\ \A i \in 1..(to - from + 1) : SubSeq(s, from, to)[i] = s[from + i - 1]
      BY <3>1, <3>2, SubSeqProperties
    <3> QED  BY <3>3 DEF from, to
  <2>3. \A i \in 1..((l - a) + m) : c + a + 1 + i - 1 = c + a + i
                                    /\ i \in 1..((p + m) - (c + a + 1) + 1)
    BY <1>2
  <2> QED  BY <1>2, <2>2, <2>3
<1> DEFINE both == kept \o read
<1>7. /\ both \in Seq(STRING) /\ Len(both) = (l - a) + m
      /\ \A i \in 1..((l - a) + m) : both[i] = IF i <= l - a THEN kept[i] ELSE read[i - (l - a)]
  <2> HIDE DEF kept, read, l
  <2>1. /\ both \in Seq(STRING) /\ Len(both) = Len(kept) + Len(read)
        /\ \A i \in 1..(Len(kept) + Len(read)) :
              both[i] = IF i <= Len(kept) THEN kept[i] ELSE read[i - Len(kept)]
    BY <1>4, <1>5, ConcatProperties
  <2> QED  BY <1>4, <1>5, <2>1
<1>8. ASSUME NEW i \in 1..((l - a) + m)
      PROVE  both[i] = moved[i]
  <2>1. CASE i <= l - a
    <3>1. i \in 1..(l - a)
      BY <2>1
    <3> HIDE DEF both, kept, read, moved
    <3> QED  BY <1>4, <1>6, <1>7, <2>1, <3>1
  <2>2. CASE ~(i <= l - a)
    <3>1. i - (l - a) \in 1..m /\ p + (i - (l - a)) = c + a + i
      BY <1>2, <2>2
    <3>2. both[i] = read[i - (l - a)]
      BY <1>7, <2>2
    <3>3. read[i - (l - a)] = s[p + (i - (l - a))]
      BY <1>5, <3>1
    <3> HIDE DEF both, kept, read, moved
    <3> QED  BY <1>6, <3>1, <3>2, <3>3
  <2> QED  BY <2>1, <2>2
<1>9. both = moved
  <2> HIDE DEF both, moved, l
  <2> QED  BY <1>6, <1>7, <1>8, SeqEqual
<1> QED  BY <1>3, <1>9

-----------------------------------------------------------------------------
(* The pull parser's checkpoints lie in its window, in a comment or not.   *)
Pulled == [near |-> TRUE, comments |-> TRUE]

LEMMA PulledSuits == Pulled \in Parsers /\ Pulled.near /\ \A f : Suits(Pulled, f)
BY DEF Pulled, Parsers, Suits

(* The invariant: the window is where it says in the stream, the engine in *)
(* the window, a seek goes to a record of the stream, and the engine is at *)
(* a record whenever one can be looked at.                                 *)
InWindow ==
    /\ format \in Formats
    /\ stream \in Streams[format]
    /\ pos \in 0..Len(stream)
    /\ consumed \in 0..pos
    /\ WindowIsStream
    /\ engine \in Engines(Len(window), Pulled)
Aimed == target = 0 \/ (target \in DOMAIN Outcomes /\ Outcomes[target].tag = "record")
Viewable ==
    /\ answer.tag = "line" => call = "none" /\ ~hungry /\ Positioned(engine)
    /\ call \in {"field", "first"} =>
          ~hungry /\ bom # "pending" /\ headers_resolved /\ Positioned(engine)
WindowInv == InWindow /\ Aimed /\ Viewable

LEMMA WindowFacts ==
    ASSUME InWindow
    PROVE  /\ stream \in Seq(STRING) /\ Len(stream) \in Nat
           /\ window \in Seq(STRING) /\ Len(window) = pos - consumed
           /\ Len(window) \in Nat
           /\ pos \in Nat /\ consumed \in Nat
<1>1. stream \in Seq(STRING)
  BY StreamsAssumption DEF InWindow
<1>2. Len(stream) \in Nat
  BY <1>1, LenProperties
<1>3. pos \in 0..Len(stream) /\ consumed \in 0..pos /\ window = SubSeq(stream, consumed + 1, pos)
  BY DEF InWindow, WindowIsStream
<1>4. /\ consumed \in Nat /\ pos \in Nat /\ pos \in consumed..Len(stream)
      /\ 0 \in 0..(pos - consumed) /\ 0 \in 0..(Len(stream) - pos)
  BY <1>2, <1>3
<1>5. window \in Seq(STRING) /\ Len(window) = pos - consumed
  BY <1>1, <1>3, <1>4, WindowMoves
<1> QED  BY <1>1, <1>2, <1>4, <1>5, LenProperties

(* The whole stream's outcomes are of the stream.                          *)
LEMMA OutcomesType ==
    ASSUME InWindow
    PROVE  Outcomes \in Seq(OutcomesOf(Len(stream), Pulled))
<1>1. Outcomes = SliceParse(format, stream)
  BY DEF InWindow, Outcomes, Slices
<1> QED  BY <1>1, WindowFacts, SliceParseType, PulledSuits

(* Nothing is read or dropped, wherever the engine goes.                   *)
LEMMA StaysInWindow ==
    ASSUME InWindow, UNCHANGED <<format, stream, pos, window, consumed>>,
           engine' \in Engines(Len(window), Pulled)
    PROVE  InWindow'
BY DEF InWindow, WindowIsStream

LEMMA StaysAimed ==
    ASSUME Aimed, UNCHANGED <<format, stream, target>>
    PROVE  Aimed'
BY DEF Aimed, Outcomes, Slices

(* The engine's bytes are dropped up to its anchor, and some are read.     *)
LEMMA CompactKeeps ==
    ASSUME InWindow, UNCHANGED <<format, stream>>, NEW n \in 0..(Len(stream) - pos),
           Compact(SubSeq(stream, pos + 1, pos + n)), pos' = pos + n
    PROVE  InWindow'
<1> DEFINE a == Anchor(engine)
           l == Len(window)
<1>1. /\ stream \in Seq(STRING) /\ Len(stream) \in Nat /\ l \in Nat /\ l = pos - consumed
      /\ pos \in Nat /\ consumed \in Nat /\ engine \in Engines(l, Pulled)
      /\ pos \in 0..Len(stream) /\ consumed \in 0..pos
  BY WindowFacts DEF InWindow
<1>2. a \in 0..l /\ (Positioned(engine) => a <= engine.cursor_start)
  BY <1>1, AnchorType, PulledSuits
<1>3. engine' \in Engines(l - a, Pulled)
  BY <1>1, <1>2, ShiftWindowType, PulledSuits DEF Compact
<1>4. consumed' = consumed + a
      /\ window' = SubSeq(window, a + 1, l) \o SubSeq(stream, pos + 1, pos + n)
  BY DEF Compact
<1> HIDE DEF a
<1>5. window = SubSeq(stream, consumed + 1, pos) /\ pos \in consumed..Len(stream)
      /\ a \in 0..(pos - consumed)
  BY <1>1, <1>2 DEF InWindow, WindowIsStream
<1>6. SubSeq(window, a + 1, l) \o SubSeq(stream, pos + 1, pos + n)
         = SubSeq(stream, consumed + a + 1, pos + n)
  BY <1>1, <1>5, WindowMoves
<1>7. window' = SubSeq(stream, consumed' + 1, pos')
  BY <1>4, <1>6
<1>8. /\ pos' \in 0..Len(stream) /\ consumed' \in 0..pos' /\ consumed' \in Nat
      /\ pos' \in consumed'..Len(stream) /\ 0 \in 0..(pos' - consumed')
      /\ 0 \in 0..(Len(stream) - pos')
  BY <1>1, <1>2, <1>4
<1>9. Len(window') = pos' - consumed'
  BY ZenonT(60), <1>1, <1>7, <1>8, WindowMoves
<1>10. WindowIsStream'
  <2>1. consumed' + Len(window') = pos'
    BY <1>8, <1>9
  <2> QED  BY <1>7, <2>1 DEF WindowIsStream
<1>11. engine' \in Engines(Len(window'), Pulled)
  <2>1. l - a \in Nat /\ Len(window') = (l - a) + n /\ n \in Nat
    BY <1>1, <1>2, <1>4, <1>9
  <2> QED  BY <1>3, <2>1, EnginesGrow, PulledSuits
<1> QED  BY <1>8, <1>10, <1>11 DEF InWindow

(* The stream is gone back or forward in.                                  *)
LEMMA ResetKeeps ==
    ASSUME InWindow, NEW location, ResetStreamPosition(location),
           location.byte \in 0..Len(stream), engine' \in Engines(0, Pulled)
    PROVE  InWindow'
<1>1. Len(stream) \in Nat
  BY WindowFacts
<1>2. /\ pos' = location.byte /\ consumed' = location.byte /\ window' = <<>>
      /\ format' = format /\ stream' = stream
  BY DEF ResetStreamPosition
<1> DEFINE b == location.byte
<1>3. b \in 0..Len(stream) /\ b \in Nat
  BY <1>1
<1> HIDE DEF b
<1>4. SubSeq(stream, b + 1, b) = <<>>
  BY <1>3, SubSeqEmpty
<1>5. Len(window') = 0
  BY <1>2, EmptySeq
<1>6. WindowIsStream'
  BY <1>2, <1>3, <1>4, <1>5 DEF WindowIsStream, b
<1> QED  BY <1>2, <1>3, <1>5, <1>6 DEF InWindow, b

-----------------------------------------------------------------------------
(* One lemma for each of the front end's steps.                            *)
LEMMA InitWindow == Init => WindowInv
<1> SUFFICES ASSUME Init PROVE WindowInv
  OBVIOUS
<1>1. format \in Formats /\ stream \in Streams[format] /\ pos = 0 /\ consumed = 0 /\ window = <<>>
  BY DEF Init
<1>2. stream \in Seq(STRING) /\ Len(stream) \in Nat
  BY <1>1, StreamsAssumption, LenProperties
<1>3. Len(window) = 0 /\ SubSeq(stream, 0 + 1, 0) = <<>>
  BY <1>1, EmptySeq, SubSeqEmpty
<1>4. engine \in Engines(Len(window), Pulled)
  BY <1>3, NewEngineType, PulledSuits DEF Init
<1>5. InWindow
  BY <1>1, <1>2, <1>3, <1>4 DEF InWindow, WindowIsStream
<1>6. Aimed /\ Viewable
  BY DEF Init, Aimed, Viewable, NoAnswer
<1> QED  BY <1>5, <1>6 DEF WindowInv

LEMMA CallKeeps ==
    ASSUME WindowInv, NEW reads, Call(reads), reads \in {"line", "owned", "match"}
    PROVE  WindowInv'
<1>1. InWindow'
  BY StaysInWindow DEF WindowInv, InWindow, Call, parser, reader
<1>2. Aimed'
  BY StaysAimed DEF WindowInv, Call
<1>3. Viewable'
  BY DEF Call, NoAnswer, Viewable
<1> QED  BY <1>1, <1>2, <1>3 DEF WindowInv

(* A call that ends leaves nothing to be looked at, but a line.            *)
LEMMA ReturnKeeps ==
    ASSUME NEW with, Return(with),
           with.tag = "line" => ~hungry /\ Positioned(engine')
    PROVE  Viewable'
BY DEF Return, Viewable

LEMMA RefuseKeeps ==
    ASSUME WindowInv, Refuse
    PROVE  WindowInv'
<1> DEFINE with == [tag |-> "error", error |-> ErrorAt(window, engine, "failed", 0)]
<1>1. InWindow'
  BY StaysInWindow DEF WindowInv, InWindow, Refuse, parser, reader
<1>2. Aimed'
  BY StaysAimed DEF WindowInv, Refuse, Return
<1>3. Return(with) /\ with.tag # "line"
  BY DEF Refuse
<1>4. Viewable'
  <2> HIDE DEF with
  <2> QED  BY <1>3, ReturnKeeps
<1> QED  BY <1>1, <1>2, <1>4 DEF WindowInv

LEMMA ResolveBomKeeps ==
    ASSUME WindowInv, ResolveBom
    PROVE  WindowInv'
<1>1. Len(window) \in Nat /\ engine \in Engines(Len(window), Pulled)
  BY WindowFacts DEF WindowInv, InWindow
<1>2. engine' \in Engines(Len(window), Pulled)
  BY <1>1, SkipDetectedBomType, PulledSuits DEF ResolveBom
<1>3. InWindow'
  BY <1>2, StaysInWindow DEF WindowInv, ResolveBom, reader
<1>4. Aimed'
  BY StaysAimed DEF WindowInv, ResolveBom, caller
<1>5. Viewable'
  BY DEF WindowInv, Viewable, ResolveBom, caller
<1> QED  BY <1>3, <1>4, <1>5 DEF WindowInv

LEMMA RejectBomKeeps ==
    ASSUME WindowInv, RejectBom
    PROVE  WindowInv'
<1>1. InWindow'
  BY StaysInWindow DEF WindowInv, InWindow, RejectBom, reader
<1>2. Aimed'
  BY StaysAimed DEF WindowInv, RejectBom, Return
<1>3. Viewable'
  BY DEF RejectBom, Return, Viewable
<1> QED  BY <1>1, <1>2, <1>3 DEF WindowInv

LEMMA EnsureHeadersKeeps ==
    ASSUME WindowInv, EnsureHeaders
    PROVE  WindowInv'
<1> DEFINE o == HeadersWindow(format, window, engine, eof)
<1>1. Len(window) \in Nat /\ engine \in Engines(Len(window), Pulled)
  BY WindowFacts DEF WindowInv, InWindow
<1>2. o.engine \in Engines(Len(window), Pulled)
  BY <1>1, HeadersWindowType, PulledSuits DEF Stays
<1>3. /\ Turn(o)
      /\ \/ AsksForMore(o)
         \/ Errors(o)
         \/ /\ headers_resolved' = TRUE
            /\ UNCHANGED <<failed, call, hungry, caller>>
      /\ ~headers_resolved
  BY DEF EnsureHeaders
<1> HIDE DEF o
<1>4. InWindow'
  BY <1>2, <1>3, StaysInWindow DEF WindowInv, Turn, reader
<1>5. UNCHANGED target
  BY <1>3 DEF AsksForMore, Errors, Fail, Return, caller
<1>6. Aimed'
  BY <1>3, <1>5, StaysAimed DEF WindowInv, Turn
<1>7. call # "none" /\ answer.tag # "line" /\ call \notin {"field", "first"}
  BY <1>3 DEF Turn, WindowInv, Viewable
<1>8. Viewable'
  <2>1. CASE AsksForMore(o)
    BY <1>7, <2>1 DEF AsksForMore, caller, Viewable
  <2>2. CASE Errors(o)
    BY <2>2 DEF Errors, Fail, Return, Viewable
  <2>3. CASE UNCHANGED <<failed, call, hungry, caller>>
    BY <1>7, <2>3 DEF caller, Viewable
  <2> QED  BY <1>3, <2>1, <2>2, <2>3
<1> QED  BY <1>4, <1>6, <1>8 DEF WindowInv

LEMMA SkipToCandidateKeeps ==
    ASSUME WindowInv, SkipToCandidate
    PROVE  WindowInv'
<1> DEFINE searched == BeforeLiteral(window, engine.location, Literal)
           ends == {i \in 1..Len(searched) : searched[i] = format.ending}
           n == Len(window)
<1>1. /\ n \in Nat /\ engine \in Engines(n, Pulled) /\ window \in Seq(STRING)
      /\ engine.location \in 0..n /\ Literal \in Seq(STRING)
  BY WindowFacts, FilterAssumption DEF WindowInv, InWindow, Engines
<1>2. Len(searched) \in 0..(n - engine.location)
  BY <1>1, BeforeLiteralType
<1>3. engine' = engine \/ (ends # {} /\ engine' = SkipRecords(engine, Max(ends), Cardinality(ends)))
  BY DEF SkipToCandidate, filter
<1> DEFINE l == Len(searched)
<1>4. ends \subseteq 1..l /\ l \in 0..(n - engine.location)
  BY <1>2
<1> HIDE DEF ends, l
<1>5. ends # {} => Max(ends) \in 0..(n - engine.location) /\ Cardinality(ends) \in Nat
  <2>1. SUFFICES ASSUME ends # {}
                 PROVE  Max(ends) \in 0..(n - engine.location) /\ Cardinality(ends) \in Nat
    OBVIOUS
  <2>2. l \in Nat /\ ends \subseteq 0..l
    BY <1>1, <1>4
  <2>3. Max(ends) \in ends
    BY <2>1, <2>2, MaxOfPlaces
  <2>4. 1 \in Int /\ l \in Int
    BY <2>2
  <2>5. IsFiniteSet(1..l)
    BY ONLY <2>4, FS_Interval
  <2>6. Cardinality(ends) \in Nat
    BY <1>4, <2>5, FS_Subset, FS_CardinalityType
  <2>7. Max(ends) \in 1..l
    BY <1>4, <2>3
  <2> QED  BY <1>1, <1>4, <2>6, <2>7
<1>6. engine' \in Engines(n, Pulled)
  BY <1>1, <1>3, <1>5, SkipRecordsType, PulledSuits
<1>7. InWindow'
  BY <1>6, StaysInWindow DEF WindowInv, SkipToCandidate, reader
<1>8. Aimed'
  BY StaysAimed DEF WindowInv, SkipToCandidate, caller
<1>9. Viewable'
  BY DEF WindowInv, Viewable, SkipToCandidate, caller
<1> QED  BY <1>7, <1>8, <1>9 DEF WindowInv

(* What the engine is asked for past the headers: a record that is shown   *)
(* rather than read into the caller's storage stays positioned.            *)
LEMMA ScanKeeps ==
    ASSUME WindowInv, Scan
    PROVE  WindowInv'
<1> DEFINE n == Len(window)
           o == IF call = "owned" THEN ReadWindowOwned(format, window, engine, eof)
                ELSE IF SkipsRecords(format) /\ bom # "rejected"
                  THEN AdvanceWindowEagerly(format, window, engine, eof)
                ELSE AdvanceWindowLazily(format, window, engine, eof)
           line == IF call = "owned"
                     THEN [tag |-> "record", record |-> RebasedRecord(o.record)]
                     ELSE [tag |-> "line"]
<1>1. n \in Nat /\ engine \in Engines(n, Pulled)
  BY WindowFacts DEF WindowInv, InWindow
<1>2. o.engine \in Engines(n, Pulled) /\ (o.tag = "record" /\ call # "owned" => Positioned(o.engine))
  <2>1. Stays(n, Pulled, ReadWindowOwned(format, window, engine, eof))
    BY <1>1, ReadWindowOwnedType, PulledSuits
  <2>2. /\ Shows(n, Pulled, AdvanceWindowLazily(format, window, engine, eof))
        /\ Shows(n, Pulled, AdvanceWindowEagerly(format, window, engine, eof))
    BY <1>1, AdvanceWindowType, PulledSuits
  <2> QED  BY <2>1, <2>2 DEF Stays, Shows
<1>3. /\ Turn(o) /\ headers_resolved /\ call \in {"line", "owned", "candidate", "seek"}
      /\ \/ AsksForMore(o)
         \/ Errors(o)
         \/ /\ o.tag = "done" /\ call # "seek"
            /\ Return([tag |-> "done"])
            /\ UNCHANGED <<failed, headers_resolved, next>>
         \/ /\ o.tag \in {"done", "record"} /\ call = "seek"
            /\ call' = IF o.tag = "done" THEN "move" ELSE "first"
            /\ UNCHANGED <<failed, headers_resolved, hungry, caller>>
         \/ /\ o.tag = "record" /\ call \in {"line", "owned"}
            /\ Return(line)
            /\ next' = next + 1
            /\ UNCHANGED <<failed, headers_resolved>>
         \/ /\ o.tag = "record" /\ call = "candidate"
            /\ call' = "field"
            /\ UNCHANGED <<failed, headers_resolved, hungry, caller>>
  BY DEF Scan
<1>4. /\ line.tag = "line" => call # "owned"
  OBVIOUS
<1> HIDE DEF o, line
<1>5. InWindow'
  BY <1>2, <1>3, StaysInWindow DEF WindowInv, Turn, reader
<1>6. UNCHANGED target
  BY <1>3 DEF AsksForMore, Errors, Fail, Return, caller
<1>7. Aimed'
  BY <1>3, <1>6, StaysAimed DEF WindowInv, Turn
<1>8. ~hungry /\ bom # "pending" /\ bom' = bom /\ engine' = o.engine /\ answer.tag # "line"
  BY <1>3 DEF Turn, WindowInv, Viewable
<1>9. Viewable'
  <2>1. CASE AsksForMore(o)
    BY <1>3, <1>8, <2>1 DEF AsksForMore, caller, Viewable
  <2>2. CASE Errors(o)
    BY <2>2 DEF Errors, Fail, Return, Viewable
  <2>3. CASE Return([tag |-> "done"])
    BY <2>3 DEF Return, Viewable
  <2>4. CASE /\ o.tag \in {"done", "record"} /\ call = "seek"
             /\ call' = IF o.tag = "done" THEN "move" ELSE "first"
             /\ UNCHANGED <<failed, headers_resolved, hungry, caller>>
    BY <1>2, <1>3, <1>8, <2>4 DEF caller, Viewable
  <2>5. CASE /\ o.tag = "record" /\ Return(line)
    <3>1. line.tag = "line" => ~hungry /\ Positioned(engine')
      BY <1>2, <1>4, <1>8, <2>5
    <3> QED  BY <2>5, <3>1, ReturnKeeps
  <2>6. CASE /\ o.tag = "record" /\ call = "candidate" /\ call' = "field"
             /\ UNCHANGED <<failed, headers_resolved, hungry, caller>>
    BY <1>2, <1>3, <1>8, <2>6 DEF caller, Viewable
  <2> QED  BY <1>3, <2>1, <2>2, <2>3, <2>4, <2>5, <2>6
<1> QED  BY <1>5, <1>7, <1>9 DEF WindowInv

LEMMA LookKeeps ==
    ASSUME WindowInv, Look
    PROVE  WindowInv'
<1> DEFINE n == Len(window)
           o == Materialize(format, window, engine)
<1>1. n \in Nat /\ engine \in Engines(n, Pulled)
  BY WindowFacts DEF WindowInv, InWindow
<1>2. call = "field" /\ Positioned(engine) /\ ~hungry
  BY DEF Look, WindowInv, Viewable
<1>3. o \in Outs(n, Pulled) /\ Positioned(o.engine)
  BY <1>1, <1>2, MaterializeType, PulledSuits
<1>4. /\ engine' = o.engine
      /\ \/ Fail(o.error)
         \/ Return([tag |-> "line"])
         \/ call' = "match" /\ UNCHANGED <<failed, hungry, caller>>
      /\ UNCHANGED <<format, stream, reader, window, consumed, bom, headers_resolved, filter>>
  BY DEF Look
<1> HIDE DEF o
<1>5. o.engine \in Engines(n, Pulled)
  BY <1>3 DEF Outs
<1>6. InWindow'
  BY <1>4, <1>5, StaysInWindow DEF WindowInv, reader
<1>7. UNCHANGED target
  BY <1>4 DEF Fail, Return, caller
<1>8. Aimed'
  BY <1>4, <1>7, StaysAimed DEF WindowInv
<1>9. Viewable'
  <2>1. CASE Fail(o.error)
    BY <2>1 DEF Fail, Return, Viewable
  <2>2. CASE Return([tag |-> "line"])
    BY <1>2, <1>3, <1>4, <2>2, ReturnKeeps
  <2>3. CASE call' = "match" /\ UNCHANGED <<failed, hungry, caller>>
    BY <1>2, <2>3 DEF caller, WindowInv, Viewable
  <2> QED  BY <1>4, <2>1, <2>2, <2>3
<1> QED  BY <1>6, <1>8, <1>9 DEF WindowInv

(* What is read is what the stream has next.                               *)
LEMMA RefillKeeps ==
    ASSUME WindowInv, Refill
    PROVE  WindowInv'
<1> DEFINE left == Len(stream) - pos
<1>1. pos \in 0..Len(stream) /\ Len(stream) \in Nat
  BY WindowFacts DEF WindowInv, InWindow
<1>2. left \in Nat /\ left \in Int
  BY <1>1
<1>3. PICK n \in IF left = 0 THEN {0} ELSE {Min({r, left}) : r \in Reads} :
         Compact(SubSeq(stream, pos + 1, pos + n)) /\ pos' = pos + n
  BY DEF Refill
<1>4. n \in 0..left
  <2>1. CASE left = 0
    BY <1>3, <2>1
  <2>2. CASE left # 0
    <3>1. PICK r \in Reads : n = Min({r, left})
      BY <1>3, <2>2
    <3> HIDE DEF left
    <3>2. r \in Nat /\ r \in Int
      BY ReadsAssumption
    <3>3. n \in {r, left} /\ n <= left
      BY <1>2, <3>1, <3>2, MinOfTwo
    <3> QED  BY <1>2, <3>2, <3>3
  <2> QED  BY <2>1, <2>2
<1>5. InWindow'
  BY <1>3, <1>4, CompactKeeps DEF WindowInv, Refill
<1>6. Aimed'
  BY StaysAimed DEF WindowInv, Refill, caller
<1>7. Viewable'
  BY DEF Refill, WindowInv, Viewable, caller
<1> QED  BY <1>5, <1>6, <1>7 DEF WindowInv

LEMMA ReadFailsKeeps ==
    ASSUME WindowInv, ReadFails
    PROVE  WindowInv'
<1>1. pos \in 0..Len(stream) /\ Len(stream) \in Nat /\ pos \in Nat
  BY WindowFacts DEF WindowInv, InWindow
<1>2. SubSeq(stream, pos + 1, pos + 0) = <<>>
  BY <1>1, SubSeqEmpty
<1>3. Compact(SubSeq(stream, pos + 1, pos + 0)) /\ pos' = pos + 0 /\ 0 \in 0..(Len(stream) - pos)
  <2>1. Compact(<<>>) /\ pos' = pos
    BY DEF ReadFails, reader
  <2>2. Compact(SubSeq(stream, pos + 1, pos + 0))
    BY <1>2, <2>1 DEF Compact
  <2> QED  BY <1>1, <2>1, <2>2
<1>4. InWindow'
  BY <1>3, CompactKeeps DEF WindowInv, ReadFails
<1>5. Aimed'
  BY StaysAimed DEF WindowInv, ReadFails
<1>6. Viewable'
  BY DEF ReadFails, Viewable
<1> QED  BY <1>4, <1>5, <1>6 DEF WindowInv

LEMMA ViewKeeps ==
    ASSUME WindowInv, View
    PROVE  WindowInv'
<1> DEFINE n == Len(window)
           o == IF bom = "rejected" THEN Failure(engine, RejectedBom)
                ELSE Materialize(format, window, engine)
           with == [tag |-> "record",
                    record |-> RebasedRecord([start |-> o.engine.cursor_start,
                                              end   |-> o.engine.cursor_end,
                                              index |-> o.engine.cursor_index])]
<1>1. n \in Nat /\ engine \in Engines(n, Pulled)
  BY WindowFacts DEF WindowInv, InWindow
<1>2. Positioned(engine)
  BY DEF View, WindowInv, Viewable
<1>3. o.engine \in Engines(n, Pulled)
  <2>1. Materialize(format, window, engine) \in Outs(n, Pulled)
    BY <1>1, <1>2, MaterializeType, PulledSuits
  <2>2. Failure(engine, RejectedBom).engine = engine
    BY DEF Failure
  <2> QED  BY <1>1, <2>1, <2>2 DEF Outs
<1>4. /\ engine' = o.engine
      /\ Fail(o.error) \/ Return(with)
      /\ UNCHANGED <<format, stream, reader, window, consumed, bom, headers_resolved, filter, next>>
  BY Zenon DEF View, o, with
<1>5. with.tag # "line"
  OBVIOUS
<1> HIDE DEF o, with
<1>6. InWindow'
  BY <1>3, <1>4, StaysInWindow DEF WindowInv, reader
<1>7. Aimed'
  BY <1>4, StaysAimed DEF WindowInv, Fail, Return
<1>8. Viewable'
  <2>1. CASE Fail(o.error)
    BY <2>1 DEF Fail, Return, Viewable
  <2>2. CASE Return(with)
    BY <1>5, <2>2, ReturnKeeps
  <2> QED  BY <1>4, <2>1, <2>2
<1> QED  BY <1>6, <1>7, <1>8 DEF WindowInv

LEMMA SeekKeeps ==
    ASSUME WindowInv, NEW i \in Places, Seek(i)
    PROVE  WindowInv'
<1>1. InWindow'
  BY StaysInWindow DEF WindowInv, InWindow, Seek, parser, reader
<1>2. Aimed'
  BY DEF Places, Seek, Aimed, Outcomes, Slices
<1>3. Viewable'
  BY DEF Seek, NoAnswer, Viewable
<1> QED  BY <1>1, <1>2, <1>3 DEF WindowInv

LEMMA ReadFirstKeeps ==
    ASSUME WindowInv, ReadFirst
    PROVE  WindowInv'
<1> DEFINE n == Len(window)
           o == RecordInto(format, window, engine)
<1>1. n \in Nat /\ engine \in Engines(n, Pulled)
  BY WindowFacts DEF WindowInv, InWindow
<1>2. call = "first" /\ Positioned(engine) /\ answer.tag # "line"
  BY DEF ReadFirst, WindowInv, Viewable
<1>3. o.engine \in Engines(n, Pulled)
  BY <1>1, <1>2, RecordIntoType, PulledSuits DEF Stays
<1>4. /\ engine' = o.engine
      /\ \/ Return([tag |-> "unrebased", error |-> o.error])
         \/ call' = "move" /\ UNCHANGED <<hungry, answer, target, moves>>
      /\ UNCHANGED <<format, stream, reader, window, consumed, failed, bom, headers_resolved, filter>>
  BY DEF ReadFirst
<1> HIDE DEF o
<1>5. InWindow'
  BY <1>3, <1>4, StaysInWindow DEF WindowInv, reader
<1>6. Aimed'
  BY <1>4, StaysAimed DEF WindowInv, Return
<1>7. Viewable'
  BY <1>2, <1>4 DEF Return, Viewable
<1> QED  BY <1>5, <1>6, <1>7 DEF WindowInv

(* A seek lands on a record of the stream, or at its start.                *)
LEMMA MoveKeeps ==
    ASSUME WindowInv, Move
    PROVE  WindowInv'
<1> DEFINE place == PlaceOf(target)
           n == Len(stream)
<1>1. /\ n \in Nat /\ Outcomes \in Seq(OutcomesOf(n, Pulled))
      /\ Len(window) \in Nat /\ engine \in Engines(Len(window), Pulled)
  BY WindowFacts, OutcomesType DEF WindowInv, InWindow
<1>2. place.byte \in 0..n /\ place.line \in Nat /\ place.record \in Nat
  <2>1. CASE target = 0
    <3>1. place = [byte |-> 0, line |-> 1 + Feeds(stream, 0, 0), record |-> 0]
      BY <2>1 DEF PlaceOf, Place
    <3>2. Feeds(stream, 0, 0) \in Nat
      BY FeedsType
    <3> HIDE DEF place
    <3> QED  BY <1>1, <3>1, <3>2
  <2>2. CASE target # 0
    <3>1. target \in DOMAIN Outcomes /\ Outcomes[target].tag = "record"
      BY <2>2 DEF WindowInv, Aimed
    <3>2. Outcomes[target] \in OutcomesOf(n, Pulled)
      BY <1>1, <3>1, LenProperties, ElementOfSeq
    <3> DEFINE r == Outcomes[target].record
    <3>3. r.start \in 0..n /\ r.index \in Nat
      BY <1>1, <3>1, <3>2, OutcomesAre, PulledSuits
    <3>4. place = [byte |-> r.start, line |-> 1 + Feeds(stream, 0, r.start), record |-> r.index]
      BY <2>2 DEF PlaceOf, Place
    <3> HIDE DEF place, r
    <3>5. Feeds(stream, 0, r.start) \in Nat
      BY <3>3, FeedsType
    <3> QED  BY <3>3, <3>4, <3>5
  <2> QED  BY <2>1, <2>2
<1>3. ResetStreamPosition(place) /\ engine' = ResetPosition(engine, place.line, place.record)
      /\ call' = "none"
  BY DEF Move
<1> HIDE DEF place
<1>4. engine' \in Engines(0, Pulled)
  BY <1>1, <1>2, <1>3, ResetType, PulledSuits
<1>5. InWindow'
  BY <1>2, <1>3, <1>4, ResetKeeps DEF WindowInv
<1>6. Aimed'
  BY <1>3, StaysAimed DEF WindowInv, ResetStreamPosition
<1>7. Viewable'
  BY <1>3 DEF ResetStreamPosition, NoAnswer, Viewable
<1> QED  BY <1>5, <1>6, <1>7 DEF WindowInv

LEMMA MoveFailsKeeps ==
    ASSUME WindowInv, MoveFails
    PROVE  WindowInv'
<1>1. InWindow'
  BY StaysInWindow DEF WindowInv, InWindow, MoveFails, parser, reader
<1>2. Aimed'
  BY StaysAimed DEF WindowInv, MoveFails, Return
<1>3. Viewable'
  BY DEF MoveFails, Return, Viewable
<1> QED  BY <1>1, <1>2, <1>3 DEF WindowInv

LEMMA RewindKeeps ==
    ASSUME WindowInv, Rewind
    PROVE  WindowInv'
<1> DEFINE start == [byte |-> 0]
<1>1. Len(stream) \in Nat /\ Len(window) \in Nat /\ engine \in Engines(Len(window), Pulled)
  BY WindowFacts DEF WindowInv, InWindow
<1>2. ResetStreamPosition(start) /\ engine' = ResetHeaders(format, ResetPosition(engine, 1, 0))
      /\ call = "none" /\ call' = call
  BY DEF Rewind
<1>3. engine' \in Engines(0, Pulled)
  BY <1>1, <1>2, ResetType, PulledSuits
<1>4. start.byte \in 0..Len(stream)
  BY <1>1
<1> HIDE DEF start
<1>5. InWindow'
  BY <1>2, <1>3, <1>4, ResetKeeps DEF WindowInv
<1>6. Aimed'
  BY <1>2, StaysAimed DEF WindowInv, ResetStreamPosition
<1>7. Viewable'
  BY <1>2 DEF ResetStreamPosition, NoAnswer, Viewable
<1> QED  BY <1>5, <1>6, <1>7 DEF WindowInv

-----------------------------------------------------------------------------
(* However the stream is cut into reads, and wherever the caller moves in  *)
(* it, the window is the stream from `consumed` on as far as the reader    *)
(* has come: compact, refill and reset_stream_position skip no byte and    *)
(* keep none twice, for every stream and every format.                     *)
LEMMA StepKeepsWindow == WindowInv /\ [Next]_vars => WindowInv'
<1> SUFFICES ASSUME WindowInv, [Next]_vars PROVE WindowInv'
  OBVIOUS
<1>1. ASSUME NEW reads \in Calls[format], Call(reads) PROVE WindowInv'
  <2>1. reads \in {"line", "owned", "match"}
    BY CallsAssumption DEF WindowInv, InWindow
  <2> QED  BY <1>1, <2>1, CallKeeps
<1>2. ASSUME Step PROVE WindowInv'
  BY <1>2, RefuseKeeps, ResolveBomKeeps, RejectBomKeeps, EnsureHeadersKeeps, SkipToCandidateKeeps,
     ScanKeeps, LookKeeps, RefillKeeps, ReadFailsKeeps, ReadFirstKeeps, MoveKeeps, MoveFailsKeeps
     DEF Step
<1>3. CASE View
  BY <1>3, ViewKeeps
<1>4. ASSUME NEW i \in Places, Seek(i) PROVE WindowInv'
  BY <1>4, SeekKeeps
<1>5. CASE Rewind
  BY <1>5, RewindKeeps
<1>6. CASE UNCHANGED vars
  <2>1. InWindow'
    BY <1>6, StaysInWindow DEF WindowInv, InWindow, vars, parser, reader
  <2>2. Aimed'
    BY <1>6, StaysAimed DEF WindowInv, vars, caller
  <2>3. Viewable'
    BY <1>6 DEF WindowInv, Viewable, vars, parser, caller
  <2> QED  BY <2>1, <2>2, <2>3 DEF WindowInv
<1> QED  BY <1>1, <1>2, <1>3, <1>4, <1>5, <1>6 DEF Next

THEOREM WindowHoldsTheStream == Spec => []WindowIsStream
<1>1. WindowInv => WindowIsStream
  BY DEF WindowInv, InWindow
<1> QED  BY <1>1, InitWindow, StepKeepsWindow, PTL DEF Spec

-----------------------------------------------------------------------------
(* A piece of a window of the stream is a piece of the stream.             *)
LEMMA PieceOfWindow ==
    ASSUME NEW s \in Seq(STRING), NEW c \in Nat, NEW p \in c..Len(s),
           NEW a \in 0..(p - c), NEW b \in a..(p - c), NEW w, w = SubSeq(s, c + 1, p)
    PROVE  /\ w \in Seq(STRING) /\ Len(w) = p - c
           /\ SubSeq(w, a + 1, b) = SubSeq(s, c + a + 1, c + b) /\ Len(SubSeq(w, a + 1, b)) = b - a
<1> DEFINE l == p - c
           piece == SubSeq(w, a + 1, b)
           moved == SubSeq(s, c + a + 1, c + b)
<1>1. Len(s) \in Nat /\ \A i \in 1..Len(s) : s[i] \in STRING
  BY LenProperties
<1>2. l \in Nat /\ a \in 0..l /\ b \in a..l /\ p \in Nat /\ c + b <= Len(s)
  BY <1>1
<1>3. /\ w \in Seq(STRING) /\ Len(w) = l
      /\ \A i \in 1..l : w[i] = s[c + i]
  <2>1. \A i \in (c + 1)..p : s[i] \in STRING
    BY <1>1
  <2>2. /\ w \in Seq(STRING) /\ Len(w) = IF c + 1 <= p THEN p - (c + 1) + 1 ELSE 0
        /\ \A i \in 1..(p - (c + 1) + 1) : w[i] = s[c + 1 + i - 1]
    BY <2>1, <1>1, SubSeqProperties
  <2>3. \A i \in 1..l : c + 1 + i - 1 = c + i /\ i \in 1..(p - (c + 1) + 1)
    BY <1>1
  <2> QED  BY <1>1, <2>2, <2>3
<1>4. /\ piece \in Seq(STRING) /\ Len(piece) = b - a
      /\ \A i \in 1..(b - a) : piece[i] = s[c + a + i]
  <2>1. \A i \in (a + 1)..b : w[i] \in STRING
    BY <1>2, <1>3, ElementOfSeq
  <2>2. /\ piece \in Seq(STRING) /\ Len(piece) = IF a + 1 <= b THEN b - (a + 1) + 1 ELSE 0
        /\ \A i \in 1..(b - (a + 1) + 1) : piece[i] = w[a + 1 + i - 1]
    BY <1>2, <2>1, SubSeqProperties
  <2>3. ASSUME NEW i \in 1..(b - a)
        PROVE  piece[i] = s[c + a + i]
    <3>1. i \in 1..(b - (a + 1) + 1) /\ a + 1 + i - 1 = a + i /\ a + i \in 1..l
          /\ c + (a + i) = c + a + i
      BY <1>2
    <3> QED  BY <1>3, <2>2, <3>1
  <2> QED  BY <1>2, <2>2, <2>3
<1>5. /\ moved \in Seq(STRING) /\ Len(moved) = b - a
      /\ \A i \in 1..(b - a) : moved[i] = s[c + a + i]
  <2> DEFINE from == c + a + 1
             to == c + b
  <2>1. from \in Int /\ to \in Int /\ \A i \in from..to : s[i] \in STRING
    BY <1>1, <1>2
  <2>2. /\ SubSeq(s, from, to) \in Seq(STRING)
        /\ Len(SubSeq(s, from, to)) = IF from <= to THEN to - from + 1 ELSE 0
        /\ \A i \in 1..(to - from + 1) : SubSeq(s, from, to)[i] = s[from + i - 1]
    <3> HIDE DEF from, to
    <3> QED  BY <2>1, SubSeqProperties
  <2>3. (IF from <= to THEN to - from + 1 ELSE 0) = b - a
    BY <1>2
  <2>4. \A i \in 1..(b - a) : from + i - 1 = c + a + i /\ i \in 1..(to - from + 1)
    BY <1>2
  <2> QED  BY <2>2, <2>3, <2>4
<1>6. piece = moved
  <2> HIDE DEF piece, moved, l
  <2> QED  BY <1>4, <1>5, SeqEqual
<1> QED  BY <1>3, <1>4, <1>6

(* The push parser may keep less of a chunk than its engine has looked at. *)
Pushed == [near |-> FALSE, comments |-> IF format.comments THEN TRUE ELSE FALSE]

LEMMA PushedSuits == Pushed \in Parsers /\ ~Pushed.near /\ Suits(Pushed, format)
BY DEF Pushed, Parsers, Suits

(* The invariant: the loan is of the stream, the engine in what it looks   *)
(* at, and at a record when the caller was told of one.                    *)
Taken == fed + (IF loan.borrowed THEN loan.len ELSE loan.absorbed)
Lending ==
    /\ loan \in [lent : BOOLEAN, len : Nat, absorbed : Nat, stride : Nat, borrowed : BOOLEAN]
    /\ loan.absorbed <= loan.len
    /\ fed \in Nat /\ fed + loan.len <= Len(stream)
    /\ ~loan.lent => loan = NoLoan
InBuffer ==
    /\ format \in Formats
    /\ stream \in Streams[format]
    /\ Lending
    /\ consumed \in Nat
    /\ BufferIsStream
    /\ engine \in Engines(Len(Buffer), Pushed)
Told ==
    /\ answer.tag = "line" => loan.lent /\ call = "none" /\ Positioned(engine)
    /\ ~loan.lent => call = "none"
BufferInv == InBuffer /\ Told

LEMMA BufferFacts ==
    ASSUME InBuffer
    PROVE  /\ stream \in Seq(STRING) /\ Len(stream) \in Nat /\ Len(stream) < NO_OFFSET
           /\ format.limit \in Nat
           /\ Taken \in Nat /\ Taken \in consumed..Len(stream) /\ consumed \in Nat
           /\ Buffer = SubSeq(stream, consumed + 1, Taken) /\ Buffer \in Seq(STRING)
           /\ Len(Buffer) = Taken - consumed /\ Len(Buffer) \in Nat
           /\ engine \in Engines(Len(Buffer), Pushed)
<1>1. /\ stream \in Seq(STRING) /\ Len(stream) < NO_OFFSET /\ format.limit \in Nat
  BY StreamsAssumption, SlicesAssumption, LimitsAssumption DEF InBuffer
<1>2. Len(stream) \in Nat
  BY <1>1, LenProperties
<1>3. Taken \in Nat /\ Taken <= Len(stream) /\ consumed \in Nat
  BY <1>2 DEF InBuffer, Lending, Taken
<1>4. consumed + Len(Buffer) = Taken /\ Buffer = SubSeq(stream, consumed + 1, Taken)
  BY DEF InBuffer, BufferIsStream, Taken
<1> DEFINE b == Buffer
           t == Taken
<1>5. \A i \in (consumed + 1)..t : stream[i] \in STRING
  BY <1>1, <1>2, <1>3, ElementOfSeq
<1>6. b \in Seq(STRING) /\ Len(b) = IF consumed + 1 <= t THEN t - (consumed + 1) + 1 ELSE 0
  <2>1. b = SubSeq(stream, consumed + 1, t) /\ consumed + 1 \in Int /\ t \in Int
    BY <1>3, <1>4
  <2> HIDE DEF b, t
  <2> QED  BY <1>5, <2>1, SubSeqProperties
<1>7. Len(b) \in Nat /\ consumed + Len(b) = t
  BY <1>4, <1>6, LenProperties
<1>8. consumed <= Taken /\ Len(Buffer) = Taken - consumed
  BY <1>3, <1>7
<1> QED  BY <1>1, <1>2, <1>3, <1>4, <1>6, <1>7, <1>8 DEF InBuffer

(* What of the loan was not absorbed.                                      *)
LEMMA RestFacts ==
    ASSUME InBuffer
    PROVE  /\ fed + loan.absorbed \in Nat /\ fed + loan.len \in (fed + loan.absorbed)..Len(stream)
           /\ Rest = SubSeq(stream, (fed + loan.absorbed) + 1, fed + loan.len)
           /\ Rest \in Seq(STRING) /\ Len(Rest) = loan.len - loan.absorbed /\ Len(Rest) \in Nat
           /\ loan.borrowed => Buffer = Rest /\ consumed = fed + loan.absorbed /\ window = <<>>
           /\ ~loan.borrowed => Buffer = window /\ Taken = fed + loan.absorbed
<1> DEFINE c == fed + loan.absorbed
           p == fed + loan.len
<1>1. /\ stream \in Seq(STRING) /\ Len(stream) \in Nat
      /\ Len(Buffer) = Taken - consumed /\ consumed \in Nat
  BY BufferFacts
<1>2. /\ loan.len \in Nat /\ loan.absorbed \in Nat /\ fed \in Nat
      /\ loan.absorbed <= loan.len /\ fed + loan.len <= Len(stream) /\ loan.borrowed \in BOOLEAN
  BY DEF InBuffer, Lending
<1>3. c \in Nat /\ p \in Nat /\ p \in c..Len(stream) /\ 0 \in 0..(p - c) /\ p - c = loan.len - loan.absorbed
  BY <1>1, <1>2
<1>4. Rest = SubSeq(stream, c + 1, p)
  BY DEF Rest
<1>5. Rest \in Seq(STRING) /\ Len(Rest) = p - c
  <2> HIDE DEF c, p
  <2> QED  BY <1>1, <1>3, <1>4, PieceOfWindow
<1>6. loan.borrowed => Buffer = Rest /\ consumed = c /\ window = <<>>
  <2>1. SUFFICES ASSUME loan.borrowed PROVE Buffer = Rest /\ consumed = c /\ window = <<>>
    OBVIOUS
  <2>2. Buffer = Rest /\ Taken = p /\ window = <<>>
    BY <2>1 DEF Buffer, Taken, InBuffer, BufferIsStream
  <2>3. p - c = p - consumed
    BY <1>1, <1>5, <2>2
  <2> HIDE DEF c, p
  <2> QED  BY <1>1, <1>3, <2>2, <2>3
<1>7. ~loan.borrowed => Buffer = window /\ Taken = c
  BY DEF Buffer, Taken
<1>8. Len(Rest) \in Nat /\ Len(Rest) = loan.len - loan.absorbed
  BY <1>3, <1>5
<1> QED  BY <1>3, <1>4, <1>5, <1>6, <1>7, <1>8

(* Nothing of the stream changes hands.                                    *)
LEMMA StaysInBuffer ==
    ASSUME InBuffer, UNCHANGED <<format, stream, fed, loan, window, consumed>>,
           engine' \in Engines(Len(Buffer), Pushed)
    PROVE  InBuffer'
BY DEF InBuffer, BufferIsStream, Lending, Buffer, Rest, Pushed

(* Something does, and the engine looks at the stream from `consumed` on   *)
(* as far as it was taken.                                                 *)
LEMMA ChangesHands ==
    ASSUME InBuffer, UNCHANGED <<format, stream>>, Lending', consumed' \in Nat,
           consumed' <= Taken', Buffer' = SubSeq(stream, consumed' + 1, Taken'),
           engine' \in Engines(Taken' - consumed', Pushed), loan'.borrowed => window' = <<>>
    PROVE  InBuffer'
<1> DEFINE c == consumed'
           t == Taken'
           b == Buffer'
<1>1. stream \in Seq(STRING) /\ Len(stream) \in Nat
  BY BufferFacts
<1>2. t \in Nat /\ t <= Len(stream)
  <2> DEFINE l == loan'.len
             a == loan'.absorbed
             f == fed'
             n == Len(stream)
  <2>1. l \in Nat /\ a \in Nat /\ a <= l /\ f \in Nat /\ f + l <= n /\ n \in Nat
    BY <1>1 DEF Lending
  <2>2. t \in {f + l, f + a}
    BY DEF Taken
  <2> HIDE DEF l, a, f, n, t
  <2>3. t \in Nat /\ t <= n
    BY ONLY <2>1, <2>2
  <2> QED  BY <2>3 DEF n
<1>3. c \in Nat /\ c <= t /\ b = SubSeq(stream, c + 1, t)
  OBVIOUS
<1>4. Len(b) = t - c /\ c + Len(b) = t
  <2> HIDE DEF b, c, t
  <2>1. t \in c..Len(stream) /\ 0 \in 0..(t - c)
    BY <1>1, <1>2, <1>3
  <2>2. Len(b) = t - c
    BY <1>1, <1>3, <2>1, PieceOfWindow
  <2> QED  BY <1>2, <1>3, <2>2
<1>5. BufferIsStream'
  BY <1>3, <1>4 DEF BufferIsStream, Taken
<1>6. engine' \in Engines(Len(b), Pushed')
  BY <1>4 DEF Pushed
<1> QED  BY <1>5, <1>6 DEF InBuffer

-----------------------------------------------------------------------------
(* A call that ends leaves nothing to be looked at, but a line.            *)
LEMMA PushReturnKeeps ==
    ASSUME NEW with, PushReturn(with), loan'.lent, with.tag = "line" => Positioned(engine')
    PROVE  Told'
BY DEF PushReturn, Told

LEMMA CallGoesOn ==
    ASSUME Told, call # "none", UNCHANGED <<call, answer>>, loan'.lent
    PROVE  Told'
BY DEF Told

LEMMA PushInitBuffer == PushInit => BufferInv
<1> SUFFICES ASSUME PushInit PROVE BufferInv
  OBVIOUS
<1>1. /\ format \in Formats /\ stream \in Streams[format] /\ fed = 0 /\ consumed = 0
      /\ window = <<>> /\ engine = NewEngine /\ call = "none" /\ answer = NoAnswer
      /\ loan = NoLoan
  BY DEF PushInit
<1>2. stream \in Seq(STRING) /\ Len(stream) \in Nat
  BY <1>1, StreamsAssumption, LenProperties
<1>3. Lending
  BY <1>1, <1>2 DEF Lending, NoLoan
<1>4. Buffer = <<>> /\ Len(Buffer) = 0 /\ SubSeq(stream, 0 + 1, 0) = <<>>
  BY <1>1, <1>2, EmptySeq, SubSeqEmpty DEF Buffer, NoLoan
<1>5. BufferIsStream
  BY <1>1, <1>4 DEF BufferIsStream, NoLoan
<1>6. engine \in Engines(Len(Buffer), Pushed)
  BY <1>1, <1>4, NewEngineType, PushedSuits
<1>7. Told
  BY <1>1 DEF Told, NoAnswer
<1> QED  BY <1>1, <1>3, <1>5, <1>6, <1>7 DEF BufferInv, InBuffer

(* The next of the stream is lent: looked at where it is when there is     *)
(* nothing in the window.                                                  *)
LEMMA ChunkKeeps ==
    ASSUME BufferInv, NEW n \in Nat, Chunk(n)
    PROVE  BufferInv'
<1> DEFINE lent == [lent |-> TRUE, len |-> n, absorbed |-> 0, stride |-> 0,
                    borrowed |-> window = <<>>]
<1>1. /\ ~loan.lent /\ n <= Len(stream) - fed /\ loan' = lent
      /\ UNCHANGED <<format, stream, fed, window, consumed, engine, call, answer>>
  BY DEF Chunk, NoLoan, arguments, lender
<1>2. InBuffer /\ loan = NoLoan
  BY <1>1 DEF BufferInv, InBuffer, Lending
<1>3. /\ stream \in Seq(STRING) /\ Len(stream) \in Nat /\ fed \in Nat /\ consumed \in Nat
      /\ Buffer = window /\ Taken = fed /\ Len(window) \in Nat /\ Len(window) = fed - consumed
      /\ window = SubSeq(stream, consumed + 1, fed) /\ consumed <= fed
      /\ engine \in Engines(Len(window), Pushed)
  <2>1. Buffer = window /\ Taken = fed /\ fed \in Nat
    BY <1>2 DEF Buffer, Taken, NoLoan, InBuffer, Lending
  <2> QED  BY <1>2, <2>1, BufferFacts
<1>4. Lending'
  BY <1>1, <1>3 DEF Lending
<1>5. window = <<>> => InBuffer'
  <2>1. SUFFICES ASSUME window = <<>> PROVE InBuffer'
    OBVIOUS
  <2>2. loan'.borrowed /\ Taken' = fed + n /\ Buffer' = SubSeq(stream, (fed + 0) + 1, fed + n)
    BY <1>1, <2>1 DEF Taken, Buffer, Rest
  <2>3. Len(window) = 0 /\ fed = consumed
    BY <1>3, <2>1, EmptySeq
  <2>4. Taken' - consumed' = 0 + n /\ consumed' <= Taken' /\ fed + 0 = consumed'
    BY <1>1, <1>3, <2>2, <2>3
  <2>5. engine' \in Engines(Taken' - consumed', Pushed)
    BY <1>1, <1>3, <2>3, <2>4, PushedSuits, EnginesGrow
  <2>6. window' = <<>> /\ consumed' \in Nat
    BY <1>1, <1>3, <2>1
  <2>7. Buffer' = SubSeq(stream, consumed' + 1, Taken')
    BY <2>2, <2>4
  <2> QED  BY <1>1, <1>2, <1>4, <2>4, <2>5, <2>6, <2>7, ChangesHands
<1>6. window # <<>> => InBuffer'
  <2>1. SUFFICES ASSUME window # <<>> PROVE InBuffer'
    OBVIOUS
  <2>2. ~loan'.borrowed /\ Taken' = fed + 0 /\ Buffer' = window
    BY <1>1, <2>1 DEF Taken, Buffer
  <2>3. Taken' = fed /\ consumed' <= Taken' /\ consumed' \in Nat
    BY <1>1, <1>3, <2>2
  <2>4. engine' \in Engines(Taken' - consumed', Pushed)
    BY <1>1, <1>3, <2>3
  <2>5. Buffer' = SubSeq(stream, consumed' + 1, Taken')
    BY <1>1, <1>3, <2>2, <2>3
  <2> QED  BY <1>1, <1>2, <1>4, <2>2, <2>3, <2>4, <2>5, ChangesHands
<1>7. InBuffer'
  BY <1>5, <1>6
<1>8. Told'
  BY <1>1 DEF BufferInv, Told
<1> QED  BY <1>7, <1>8 DEF BufferInv

LEMMA PushCallKeeps ==
    ASSUME BufferInv, NEW reads, PushCall(reads)
    PROVE  BufferInv'
<1>1. InBuffer'
  BY StaysInBuffer DEF BufferInv, InBuffer, PushCall, arguments, lender
<1>2. Told'
  BY DEF BufferInv, Told, PushCall, NoAnswer
<1> QED  BY <1>1, <1>2 DEF BufferInv

LEMMA PushRefuseKeeps ==
    ASSUME BufferInv, PushRefuse
    PROVE  BufferInv'
<1> DEFINE with == [tag |-> "error",
                    error |-> IF deferred # NoError THEN deferred
                              ELSE Rebased(ErrorAt(Buffer, engine, "failed", engine.location))]
<1>1. InBuffer'
  BY StaysInBuffer DEF BufferInv, InBuffer, PushRefuse, arguments, lender
<1>2. PushReturn(with) /\ with.tag # "line" /\ call # "none" /\ UNCHANGED loan
  BY DEF PushRefuse
<1>3. Told'
  <2> HIDE DEF with
  <2> QED  BY <1>2, PushReturnKeeps DEF BufferInv, Told
<1> QED  BY <1>1, <1>3 DEF BufferInv

LEMMA PushRejectBomKeeps ==
    ASSUME BufferInv, PushRejectBom
    PROVE  BufferInv'
<1>1. InBuffer'
  BY StaysInBuffer DEF BufferInv, InBuffer, PushRejectBom, arguments
<1>2. Told'
  BY DEF BufferInv, Told, PushRejectBom, PushFail, PushReturn
<1> QED  BY <1>1, <1>2 DEF BufferInv

(* A view of the line the caller was told of.                              *)
LEMMA PushViewKeeps ==
    ASSUME BufferInv, PushView
    PROVE  BufferInv'
<1> DEFINE o == Materialize(format, Buffer, engine)
           with == [tag |-> "record",
                    record |-> RebasedRecord([start |-> o.engine.cursor_start,
                                              end   |-> o.engine.cursor_end,
                                              index |-> o.engine.cursor_index])]
<1>1. Len(Buffer) \in Nat /\ engine \in Engines(Len(Buffer), Pushed)
  BY BufferFacts DEF BufferInv
<1>2. Positioned(engine) /\ loan.lent
  BY DEF PushView, BufferInv, Told
<1>3. o \in Outs(Len(Buffer), Pushed)
  BY <1>1, <1>2, MaterializeType, PushedSuits
<1>4. /\ engine' = o.engine
      /\ PushFail(Rebased(o.error)) \/ PushReturn(with)
      /\ UNCHANGED <<arguments, fed, loan, window, consumed>>
  BY Zenon DEF PushView, o, with
<1>5. with.tag # "line"
  OBVIOUS
<1> HIDE DEF o, with
<1>6. engine' \in Engines(Len(Buffer), Pushed)
  BY <1>3, <1>4 DEF Outs
<1>7. InBuffer'
  BY <1>4, <1>6, StaysInBuffer DEF BufferInv, arguments
<1>8. Told'
  <2>1. CASE PushFail(Rebased(o.error))
    BY <1>4, <2>1 DEF PushFail, PushReturn, Told
  <2>2. CASE PushReturn(with)
    BY <1>2, <1>4, <1>5, <2>2, PushReturnKeeps
  <2> QED  BY <1>4, <2>1, <2>2
<1> QED  BY <1>7, <1>8 DEF BufferInv

LEMMA PushResetKeeps ==
    ASSUME BufferInv, Reset
    PROVE  BufferInv'
<1>1. /\ ~loan.lent /\ fed' = 0 /\ window' = <<>> /\ engine' = NewEngine /\ consumed' = 0
      /\ UNCHANGED <<format, stream, loan, call, answer>>
  BY DEF Reset, arguments
<1>2. InBuffer /\ loan = NoLoan
  BY <1>1 DEF BufferInv, InBuffer, Lending
<1>3. stream \in Seq(STRING) /\ Len(stream) \in Nat
  BY <1>2, BufferFacts
<1>4. Lending'
  BY <1>1, <1>2, <1>3 DEF Lending, NoLoan
<1>5. Buffer' = <<>> /\ Taken' = 0 /\ ~loan'.borrowed
  BY <1>1, <1>2 DEF Buffer, Taken, NoLoan
<1>6. SubSeq(stream, 0 + 1, 0) = <<>>
  BY <1>3, SubSeqEmpty
<1>7. engine' \in Engines(0, Pushed)
  BY <1>1, NewEngineType, PushedSuits
<1>8. InBuffer'
  <2>1. Taken' - consumed' = 0 /\ consumed' \in Nat /\ consumed' <= Taken'
    BY <1>1, <1>5
  <2>2. Buffer' = SubSeq(stream, consumed' + 1, Taken')
    BY <1>1, <1>5, <1>6
  <2> QED  BY <1>1, <1>2, <1>4, <1>5, <1>7, <2>1, <2>2, ChangesHands
<1>9. Told'
  BY <1>1 DEF BufferInv, Told
<1> QED  BY <1>8, <1>9 DEF BufferInv

-----------------------------------------------------------------------------
(* The first elements of what comes after a piece continue it.             *)
LEMMA PieceGoesOn ==
    ASSUME NEW s \in Seq(STRING), NEW c \in Nat, NEW p \in c..Len(s), NEW e \in p..Len(s),
           NEW take \in 0..(e - p), NEW w, w = SubSeq(s, c + 1, p),
           NEW r, r = SubSeq(s, p + 1, e)
    PROVE  /\ w \o SubSeq(r, 1, take) = SubSeq(s, c + 1, p + take)
           /\ Len(w \o SubSeq(r, 1, take)) = (p - c) + take
<1> DEFINE q == p + take
           l == p - c
<1>1. Len(s) \in Nat
  BY LenProperties
<1>2. /\ p \in Nat /\ e \in Nat /\ take \in Nat /\ l \in Nat
      /\ 0 \in 0..l /\ l \in 0..l /\ 0 \in 0..(e - p) /\ take \in 0..(Len(s) - p)
      /\ c + 0 + 1 = c + 1 /\ p + 0 + 1 = p + 1 /\ 0 + 1 = 1 /\ c + l = p
      /\ q \in c..Len(s) /\ 0 \in 0..(q - c) /\ q - c = l + take
  BY <1>1
<1>3. SubSeq(r, 1, take) = SubSeq(s, p + 1, q)
  <2>1. SubSeq(r, 0 + 1, take) = SubSeq(s, p + 0 + 1, p + take)
    BY <1>2, PieceOfWindow
  <2> QED  BY <1>2, <2>1
<1>4. SubSeq(w, 1, l) = w /\ Len(w) = l
  <2>1. SubSeq(w, 0 + 1, l) = SubSeq(s, c + 0 + 1, c + l) /\ Len(w) = l
    BY <1>2, PieceOfWindow
  <2> HIDE DEF l
  <2> QED  BY <1>2, <2>1
<1>5. SubSeq(w, 1, l) \o SubSeq(s, p + 1, q) = SubSeq(s, c + 1, q)
  <2>1. SubSeq(w, 0 + 1, Len(w)) \o SubSeq(s, p + 1, p + take) = SubSeq(s, c + 0 + 1, p + take)
    BY <1>2, WindowMoves
  <2> HIDE DEF l
  <2> QED  BY <1>2, <1>4, <2>1
<1>6. Len(SubSeq(s, c + 1, q)) = q - c
  <2> DEFINE whole == SubSeq(s, c + 1, q)
  <2> HIDE DEF q
  <2>1. Len(whole) = q - c
    BY <1>2, PieceOfWindow
  <2> QED  BY <2>1
<1> QED  BY <1>2, <1>3, <1>4, <1>5, <1>6

(* So do the first bytes of what was not absorbed, and the window.         *)
LEMMA WindowGoesOn ==
    ASSUME InBuffer, ~loan.borrowed, NEW take \in 0..Len(Rest)
    PROVE  /\ window \o SubSeq(Rest, 1, take) = SubSeq(stream, consumed + 1, Taken + take)
           /\ Len(window \o SubSeq(Rest, 1, take)) = Len(window) + take
           /\ Taken + take <= fed + loan.len
<1> DEFINE e == fed + loan.len
           kept == loan.absorbed
<1>1. /\ stream \in Seq(STRING) /\ consumed \in Nat /\ Taken \in consumed..Len(stream)
      /\ Len(window) = Taken - consumed /\ window = SubSeq(stream, consumed + 1, Taken)
      /\ e \in Taken..Len(stream) /\ Rest = SubSeq(stream, Taken + 1, e)
      /\ Len(Rest) = loan.len - kept /\ Taken = fed + kept
  <2>1. Buffer = window /\ Taken = fed + loan.absorbed
    BY RestFacts
  <2> QED  BY <2>1, BufferFacts, RestFacts
<1>2. loan.len \in Nat /\ kept \in Nat /\ fed \in Nat /\ Taken \in Nat
  <2>1. loan.len \in Nat /\ kept \in Nat /\ fed \in Nat
    BY DEF InBuffer, Lending
  <2> QED  BY <2>1, BufferFacts
<1>3. e - Taken = loan.len - kept
  <2> HIDE DEF kept
  <2> QED  BY <1>1, <1>2
<1>4. take \in 0..(e - Taken)
  BY <1>1, <1>3
<1> HIDE DEF e, kept
<1>5. Taken + take <= e
  <2> DEFINE t == Taken
  <2>1. t \in Nat /\ e \in Int /\ take \in 0..(e - t)
    BY <1>1, <1>2, <1>4
  <2> HIDE DEF t
  <2>2. t + take <= e
    BY ONLY <2>1
  <2> QED  BY <2>2 DEF t
<1>6. /\ window \o SubSeq(Rest, 1, take) = SubSeq(stream, consumed + 1, Taken + take)
        /\ Len(window \o SubSeq(Rest, 1, take)) = (Taken - consumed) + take
  <2> DEFINE t == Taken
             w == window
             r == Rest
             c == consumed
  <2>1. /\ stream \in Seq(STRING) /\ c \in Nat /\ t \in c..Len(stream) /\ e \in t..Len(stream)
        /\ take \in 0..(e - t) /\ w = SubSeq(stream, c + 1, t) /\ r = SubSeq(stream, t + 1, e)
    BY <1>1, <1>4
  <2> HIDE DEF t, w, r, c
  <2>2. /\ w \o SubSeq(r, 1, take) = SubSeq(stream, c + 1, t + take)
        /\ Len(w \o SubSeq(r, 1, take)) = (t - c) + take
    BY ONLY <2>1, PieceGoesOn
  <2> QED  BY <2>2 DEF t, w, r, c
<1> QED  BY <1>1, <1>5, <1>6 DEF e

(* More of the loan is copied.                                             *)
LEMMA AbsorbingKeeps ==
    ASSUME InBuffer, loan.lent, ~loan.borrowed, NEW take \in 0..Len(Rest), NEW stride \in Nat,
           window' = window \o SubSeq(Rest, 1, take),
           loan' = [loan EXCEPT !.absorbed = @ + take, !.stride = stride],
           engine' \in Engines(Len(window), Pushed),
           UNCHANGED <<format, stream, fed, consumed>>
    PROVE  InBuffer'
<1>1. /\ window' = SubSeq(stream, consumed + 1, Taken + take)
      /\ Taken + take <= fed + loan.len
  BY WindowGoesOn
<1>2. /\ consumed \in Nat /\ Taken \in Nat /\ consumed <= Taken /\ Len(window) = Taken - consumed
      /\ Taken = fed + loan.absorbed /\ Len(window) \in Nat
  BY BufferFacts, RestFacts
<1>3. /\ loan \in [lent : BOOLEAN, len : Nat, absorbed : Nat, stride : Nat, borrowed : BOOLEAN]
      /\ fed \in Nat /\ fed + loan.len <= Len(stream) /\ take \in Nat
  BY RestFacts DEF InBuffer, Lending
<1> DEFINE absorbed == loan.absorbed + take
<1>4. absorbed \in Nat /\ absorbed <= loan.len /\ fed + absorbed = Taken + take
  <2> DEFINE t == Taken
             a == loan.absorbed
             l == loan.len
  <2>1. /\ t \in Nat /\ a \in Nat /\ l \in Nat /\ fed \in Nat /\ take \in Nat
        /\ t = fed + a /\ t + take <= fed + l
    BY <1>1, <1>2, <1>3
  <2> HIDE DEF t, a, l
  <2>2. a + take \in Nat /\ a + take <= l /\ fed + (a + take) = t + take
    BY ONLY <2>1
  <2> QED  BY <2>2 DEF t, a, l
<1>5. loan' = [loan EXCEPT !.absorbed = absorbed, !.stride = stride]
  BY <1>3
<1> HIDE DEF absorbed
<1>6. Lending'
  BY <1>3, <1>4, <1>5 DEF Lending
<1>7. ~loan'.borrowed /\ Taken' = Taken + take /\ Buffer' = window'
  BY <1>3, <1>4, <1>5 DEF Taken, Buffer
<1>8. Taken' - consumed' = Len(window) + take /\ consumed' <= Taken' /\ consumed' \in Nat
  <2> DEFINE t == Taken
             n == Len(window)
             u == Taken'
  <2>1. /\ t \in Nat /\ consumed \in Nat /\ consumed <= t /\ n = t - consumed /\ take \in Nat
        /\ u = t + take
    BY <1>2, <1>3, <1>7
  <2> HIDE DEF t, n, u
  <2>2. u - consumed = n + take /\ consumed <= u
    BY ONLY <2>1
  <2> QED  BY <1>2, <2>2 DEF t, n, u
<1>9. engine' \in Engines(Taken' - consumed', Pushed)
  BY <1>2, <1>3, <1>8, EnginesGrow, PushedSuits
<1>10. Buffer' = SubSeq(stream, consumed' + 1, Taken')
  BY <1>1, <1>7
<1> QED  BY <1>6, <1>7, <1>8, <1>9, <1>10, ChangesHands

(* A byte more than the record limit fits in the window.                   *)
LEMMA RoomType ==
    ASSUME InBuffer, Len(window) \in Nat, NEW e \in Engines(Len(window), Pushed)
    PROVE  Room(e) \in Nat
<1> DEFINE left == format.limit + 1 - Pending(e)
<1>1. format.limit \in Nat
  BY BufferFacts
<1>2. 0 \in Int /\ left \in Int
  BY <1>1 DEF Pending, Engines
<1>3. Room(e) = Max({0, left})
  BY DEF Room
<1> HIDE DEF left
<1>4. Max({0, left}) \in {0, left} /\ Max({0, left}) >= 0
  BY ONLY <1>2, MaxOfTwo
<1> QED  BY <1>2, <1>3, <1>4

LEMMA AbsorbedType ==
    ASSUME InBuffer, ~loan.borrowed, NEW e \in Engines(Len(window), Pushed)
    PROVE  \E take \in 0..Len(Rest), stride \in Nat :
              /\ Absorbed(e).window = window \o SubSeq(Rest, 1, take)
              /\ Absorbed(e).loan = [loan EXCEPT !.absorbed = @ + take, !.stride = stride]
<1> DEFINE scanned == Min({loan.stride, Len(Rest)})
           found == {i \in scanned + 1..Len(Rest) : Rest[i] = format.ending}
           boundary == IF found = {} THEN Len(Rest) ELSE Min({Min(found) + 1, Len(Rest)})
           take == Min({boundary, Room(e)})
           stride == Max({2 * loan.stride, Stride})
<1>1. /\ Len(Rest) \in Nat /\ Len(window) \in Nat /\ format.limit \in Nat
      /\ loan \in [lent : BOOLEAN, len : Nat, absorbed : Nat, stride : Nat, borrowed : BOOLEAN]
  BY BufferFacts, RestFacts DEF InBuffer, Lending
<1>2. Room(e) \in Nat
  BY <1>1, RoomType
<1>3. scanned \in Nat
  <2>1. loan.stride \in Int /\ Len(Rest) \in Int
    BY <1>1
  <2>2. scanned \in {loan.stride, Len(Rest)}
    BY ONLY <2>1, MinOfTwo
  <2> HIDE DEF scanned
  <2> QED  BY <1>1, <2>2
<1>4. boundary \in 0..Len(Rest)
  <2>1. found \subseteq Nat
    BY <1>3
  <2>2. found # {} => Min(found) \in Nat
    <3> HIDE DEF found
    <3> QED  BY <2>1, MinOfPlaces
  <2> DEFINE past == Min(found) + 1
             nearer == Min({past, Len(Rest)})
  <2>3. found # {} => nearer \in 0..Len(Rest)
    <3>1. SUFFICES ASSUME found # {} PROVE nearer \in 0..Len(Rest)
      OBVIOUS
    <3>2. past \in Nat /\ past \in Int /\ Len(Rest) \in Int
      <4> DEFINE first == Min(found)
      <4>1. first \in Nat
        BY <2>2, <3>1
      <4> HIDE DEF first
      <4> QED  BY <1>1, <4>1 DEF first
    <3> HIDE DEF past
    <3>3. nearer \in {past, Len(Rest)} /\ nearer <= Len(Rest)
      BY ONLY <3>2, MinOfTwo
    <3> HIDE DEF nearer
    <3> QED  BY <1>1, <3>2, <3>3
  <2>4. boundary = IF found = {} THEN Len(Rest) ELSE nearer
    OBVIOUS
  <2> HIDE DEF boundary, nearer, found
  <2> QED  BY <1>1, <2>3, <2>4
<1> HIDE DEF boundary, scanned
<1>5. take \in 0..Len(Rest)
  <2>1. boundary \in Int /\ Room(e) \in Int
    BY <1>2, <1>4
  <2>2. take \in {boundary, Room(e)} /\ take <= boundary
    BY ONLY <2>1, MinOfTwo
  <2> HIDE DEF take
  <2> QED  BY <1>1, <1>2, <1>4, <2>2
<1>6. stride \in Nat
  <2> DEFINE twice == 2 * loan.stride
  <2>1. twice \in Nat /\ Stride \in Nat
    BY <1>1, ChunksAssumption
  <2> HIDE DEF twice
  <2>2. twice \in Int /\ Stride \in Int
    BY <2>1
  <2>3. Max({twice, Stride}) \in {twice, Stride}
    BY ONLY <2>2, MaxOfTwo
  <2> QED  BY <2>1, <2>3 DEF twice
<1>7. /\ Absorbed(e).window = window \o SubSeq(Rest, 1, take)
      /\ Absorbed(e).loan = [loan EXCEPT !.absorbed = loan.absorbed + take, !.stride = stride]
  BY <1>1 DEF Absorbed, boundary, scanned
<1> HIDE DEF take, stride
<1> QED  BY <1>1, <1>5, <1>6, <1>7

(* The rest of the loan is looked at where it is, from where the engine is *)
(* in the window.                                                          *)
LEMMA BorrowingKeeps ==
    ASSUME InBuffer, loan.lent, ~loan.borrowed, NEW e \in Engines(Len(window), Pushed),
           Pending(e) <= loan.absorbed, EnterBorrowed(e), UNCHANGED <<format, stream, fed>>
    PROVE  InBuffer'
<1> DEFINE n == Len(window)
           at == e.location
           absorbed == loan.absorbed - (n - at)
           t == fed + loan.len
<1>1. /\ n \in Nat /\ at \in 0..n /\ n - (n - at) = at /\ fed \in Nat /\ consumed \in Nat
      /\ Taken = fed + loan.absorbed /\ n = Taken - consumed /\ Taken \in Nat
      /\ loan \in [lent : BOOLEAN, len : Nat, absorbed : Nat, stride : Nat, borrowed : BOOLEAN]
      /\ loan.absorbed <= loan.len /\ fed + loan.len <= Len(stream)
  <2>1. Buffer = window /\ Taken = fed + loan.absorbed
    BY RestFacts
  <2>2. n \in Nat /\ n = Taken - consumed /\ Taken \in Nat /\ consumed \in Nat
    BY <2>1, BufferFacts
  <2>3. at \in 0..n
    BY DEF Engines
  <2>4. n - (n - at) = at
    BY <2>2, <2>3
  <2> QED  BY <2>1, <2>2, <2>3, <2>4 DEF InBuffer, Lending
<1>2. /\ engine' = ShiftWindow(window, Release(e), at) /\ consumed' = consumed + at
      /\ window' = <<>> /\ loan' = [loan EXCEPT !.absorbed = absorbed, !.borrowed = TRUE]
      /\ n - at <= loan.absorbed
  BY <1>1 DEF EnterBorrowed, Pending
<1>3. /\ absorbed \in Nat /\ absorbed <= loan.len /\ fed + absorbed = consumed + at
      /\ consumed + at \in Nat /\ consumed + at <= t
      /\ t - (consumed + at) = (n - at) + (t - Taken) /\ n - at \in Nat /\ t - Taken \in Nat
  <2> DEFINE k == Taken
             a == loan.absorbed
             l == loan.len
  <2>1. /\ k \in Nat /\ a \in Nat /\ l \in Nat /\ fed \in Nat /\ n \in Nat /\ at \in 0..n
        /\ consumed \in Nat /\ k = fed + a /\ a <= l /\ n = k - consumed /\ n - at <= a
    BY <1>1, <1>2
  <2> HIDE DEF k, a, l, n, at
  <2>2. /\ a - (n - at) \in Nat /\ a - (n - at) <= l /\ fed + (a - (n - at)) = consumed + at
        /\ consumed + at \in Nat /\ consumed + at <= fed + l
        /\ (fed + l) - (consumed + at) = (n - at) + ((fed + l) - k)
        /\ n - at \in Nat /\ (fed + l) - k \in Nat
    BY ONLY <2>1
  <2> QED  BY <2>2 DEF k, a, l
<1> HIDE DEF absorbed
<1>4. Lending'
  BY <1>1, <1>2, <1>3 DEF Lending
<1>5. /\ loan'.borrowed /\ Taken' = t
      /\ Buffer' = SubSeq(stream, (fed + absorbed) + 1, t)
  BY <1>1, <1>2 DEF Taken, Buffer, Rest
<1>6. engine' \in Engines(n - at, Pushed)
  <2>1. Release(e) \in Engines(n, Pushed) /\ ~Positioned(Release(e))
    <3>1. Release(e) \in Engines(n, Pushed)
      BY <1>1, ReleaseType, PushedSuits
    <3>2. Release(e).cursor_start = NO_OFFSET
      BY DEF Release, Engines
    <3> QED  BY <3>1, <3>2 DEF Positioned
  <2> QED  BY <1>1, <1>2, <2>1, ShiftWindowType, PushedSuits
<1>7. Taken' - consumed' = (n - at) + (t - Taken) /\ n - at \in Nat /\ t - Taken \in Nat
  BY <1>2, <1>3, <1>5
<1>8. engine' \in Engines(Taken' - consumed', Pushed)
  BY <1>6, <1>7, EnginesGrow, PushedSuits
<1>9. /\ consumed' \in Nat /\ consumed' <= Taken'
      /\ Buffer' = SubSeq(stream, consumed' + 1, Taken')
  BY <1>2, <1>3, <1>5
<1> QED  BY <1>2, <1>4, <1>8, <1>9, ChangesHands

(* What a turn of the push parser leaves of the call.                      *)
LEMMA PauseKeepsTold ==
    ASSUME Told, call # "none", loan'.lent, Pauses \/ UNCHANGED <<call, answer>>
    PROVE  Told'
<1>1. CASE Pauses
  <2>1. PushReturn([tag |-> "pause"]) /\ [tag |-> "pause"].tag # "line"
    BY <1>1 DEF Pauses
  <2> QED  BY <2>1, PushReturnKeeps
<1>2. CASE UNCHANGED <<call, answer>>
  BY <1>2, CallGoesOn
<1> QED  BY <1>1, <1>2

LEMMA FailureKeepsTold ==
    ASSUME NEW error, PushFail(error), loan'.lent
    PROVE  Told'
<1> DEFINE with == [tag |-> "error", error |-> error]
<1>1. PushReturn(with) /\ with.tag # "line"
  BY DEF PushFail
<1> HIDE DEF with
<1> QED  BY <1>1, PushReturnKeeps

LEMMA OversizedType ==
    ASSUME InBuffer, NEW w, Len(w) \in Nat, NEW e \in Engines(Len(w), Pushed)
    PROVE  Oversized(w, e).engine \in Engines(Len(w), Pushed)
<1>1. Shows(Len(w), Pushed, AdvanceWindow(format, w, e, FALSE))
  BY AdvanceWindowType, PushedSuits
<1>2. Oversized(w, e).engine = AdvanceWindow(format, w, e, FALSE).engine
  BY DEF Oversized
<1> QED  BY <1>1, <1>2 DEF Shows, Stays

(* A record is told of.                                                    *)
LEMMA ReportsKeeps ==
    ASSUME BufferInv, call # "none", NEW o, Stays(Len(Buffer), Pushed, o),
           ~Direct => Positioned(o.engine), Reports(o),
           UNCHANGED <<format, stream, fed, loan, window, consumed>>
    PROVE  BufferInv'
<1> DEFINE p == IF Direct THEN Record(o.engine, FALSE) ELSE RecordInto(format, Buffer, o.engine)
           with == [tag |-> "record",
                    record |-> RebasedRecord([o.record EXCEPT !.end = p.engine.location])]
<1>1. /\ Len(Buffer) \in Nat /\ o.engine \in Engines(Len(Buffer), Pushed)
      /\ loan.lent /\ loan'.lent
  BY BufferFacts DEF BufferInv, Told, Stays
<1>2. \/ /\ call = "line" /\ engine' = o.engine /\ PushReturn([tag |-> "line"])
      \/ /\ engine' = p.engine
         /\ PushFail(p.error) \/ PushReturn(with)
  BY Zenon DEF Reports, p, with
<1>3. p.engine \in Engines(Len(Buffer), Pushed)
  <2>1. Direct => p.engine = o.engine
    BY DEF Record
  <2>2. ~Direct => Stays(Len(Buffer), Pushed, RecordInto(format, Buffer, o.engine))
    BY <1>1, RecordIntoType, PushedSuits
  <2>3. ~Direct => p = RecordInto(format, Buffer, o.engine)
    OBVIOUS
  <2> HIDE DEF p
  <2> QED  BY <1>1, <2>1, <2>2, <2>3 DEF Stays
<1>4. with.tag # "line"
  OBVIOUS
<1> HIDE DEF p, with
<1>5. engine' \in Engines(Len(Buffer), Pushed)
  BY <1>1, <1>2, <1>3
<1>6. InBuffer'
  BY <1>5, StaysInBuffer DEF BufferInv
<1>7. Told'
  <2>1. CASE call = "line" /\ engine' = o.engine /\ PushReturn([tag |-> "line"])
    <3>1. Positioned(engine')
      BY <2>1 DEF Direct
    <3> QED  BY <1>1, <2>1, <3>1, PushReturnKeeps
  <2>2. CASE PushFail(p.error)
    BY <1>1, <2>2, FailureKeepsTold
  <2>3. CASE PushReturn(with)
    BY <1>1, <1>4, <2>3, PushReturnKeeps
  <2> QED  BY <1>2, <2>1, <2>2, <2>3
<1> QED  BY <1>6, <1>7 DEF BufferInv

(* There is none in the window yet.                                        *)
LEMMA GoesOnKeeps ==
    ASSUME BufferInv, call # "none", ~loan.borrowed, NEW e \in Engines(Len(window), Pushed),
           NEW refusal, GoesOn(e, refusal), UNCHANGED <<format, stream, fed>>
    PROVE  BufferInv'
<1>1. /\ InBuffer /\ Told /\ loan.lent /\ Buffer = window /\ Len(window) \in Nat
      /\ loan \in [lent : BOOLEAN, len : Nat, absorbed : Nat, stride : Nat, borrowed : BOOLEAN]
  <2>1. InBuffer /\ Told /\ loan.lent
    BY DEF BufferInv, Told
  <2>2. Buffer = window
    BY DEF Buffer
  <2> QED  BY <2>1, <2>2, BufferFacts DEF InBuffer, Lending
<1>2. \/ /\ Pending(e) <= loan.absorbed /\ EnterBorrowed(e) /\ UNCHANGED <<call, answer>>
      \/ /\ Pauses /\ engine' = e /\ UNCHANGED <<window, consumed, loan>>
      \/ /\ engine' = Oversized(window, e).engine /\ PushFail(Oversized(window, e).error)
         /\ UNCHANGED <<window, consumed, loan>>
      \/ /\ window' = Absorbed(e).window /\ loan' = Absorbed(e).loan /\ engine' = e
         /\ Pauses \/ UNCHANGED <<call, answer>>
         /\ UNCHANGED consumed
  BY Zenon DEF GoesOn
<1>3. CASE Pending(e) <= loan.absorbed /\ EnterBorrowed(e) /\ UNCHANGED <<call, answer>>
  <2>1. InBuffer'
    BY <1>1, <1>3, BorrowingKeeps
  <2>2. loan'.lent
    BY <1>1, <1>3 DEF EnterBorrowed
  <2> QED  BY <1>1, <1>3, <2>1, <2>2, CallGoesOn DEF BufferInv
<1>4. CASE Pauses /\ engine' = e /\ UNCHANGED <<window, consumed, loan>>
  <2>1. InBuffer'
    BY <1>1, <1>4, StaysInBuffer
  <2> QED  BY <1>1, <1>4, <2>1, PauseKeepsTold DEF BufferInv
<1>5. CASE /\ engine' = Oversized(window, e).engine /\ PushFail(Oversized(window, e).error)
           /\ UNCHANGED <<window, consumed, loan>>
  <2>1. engine' \in Engines(Len(Buffer), Pushed)
    BY <1>1, <1>5, OversizedType
  <2>2. InBuffer'
    BY <1>1, <1>5, <2>1, StaysInBuffer
  <2>3. Told'
    BY <1>1, <1>5, FailureKeepsTold
  <2> QED  BY <2>2, <2>3 DEF BufferInv
<1>6. CASE /\ window' = Absorbed(e).window /\ loan' = Absorbed(e).loan /\ engine' = e
           /\ Pauses \/ UNCHANGED <<call, answer>>
           /\ UNCHANGED consumed
  <2>1. PICK take \in 0..Len(Rest), stride \in Nat :
           /\ Absorbed(e).window = window \o SubSeq(Rest, 1, take)
           /\ Absorbed(e).loan = [loan EXCEPT !.absorbed = @ + take, !.stride = stride]
    BY <1>1, AbsorbedType
  <2>2. InBuffer'
    BY <1>1, <1>6, <2>1, AbsorbingKeeps
  <2>3. loan'.lent
    BY <1>1, <1>6, <2>1
  <2> QED  BY <1>1, <1>6, <2>2, <2>3, PauseKeepsTold DEF BufferInv
<1> QED  BY <1>2, <1>3, <1>4, <1>5, <1>6

LEMMA PushScanKeeps ==
    ASSUME BufferInv, PushScan
    PROVE  BufferInv'
<1> DEFINE b == Buffer
           n == Len(b)
           c == PastBom(Buffer)
           o == IF RefusedBefore THEN Answers(c, "more")
                ELSE IF Direct THEN ReadWindowOwned(format, Buffer, c, AtEnd)
                ELSE AdvanceWindow(format, Buffer, c, AtEnd)
           refusal == IF o.tag = "more" /\ ~AtEnd THEN Len(window) ELSE refused
<1>1. n \in Nat /\ engine \in Engines(n, Pushed) /\ InBuffer /\ Told
  BY BufferFacts DEF BufferInv
<1>2. c \in Engines(n, Pushed)
  BY <1>1, SkipDetectedBomType, PushedSuits DEF PastBom
<1>3. Stays(n, Pushed, o) /\ (o.tag = "record" /\ ~Direct => Positioned(o.engine))
  <2> DEFINE read == ReadWindowOwned(format, b, c, AtEnd)
             advanced == AdvanceWindow(format, b, c, AtEnd)
             again == Answers(c, "more")
  <2>1. o = IF RefusedBefore THEN again ELSE IF Direct THEN read ELSE advanced
    OBVIOUS
  <2> HIDE DEF c, b, o
  <2>2. Stays(n, Pushed, read)
    BY <1>1, <1>2, ReadWindowOwnedType, PushedSuits
  <2>3. Shows(n, Pushed, advanced)
    BY <1>1, <1>2, AdvanceWindowType, PushedSuits
  <2>4. Shows(n, Pushed, again)
    <3>1. "more" # "record"
      OBVIOUS
    <3> QED  BY <1>1, <1>2, <3>1, AnswersShow, PushedSuits
  <2>5. again.tag = "more"
    BY AnswersAre
  <2> HIDE DEF read, advanced, again
  <2> QED  BY <2>1, <2>2, <2>3, <2>4, <2>5 DEF Shows
<1>4. /\ call # "none" /\ UNCHANGED <<format, stream, fed>>
      /\ \/ /\ o.tag = "record" /\ Reports(o) /\ UNCHANGED <<loan, window, consumed>>
         \/ /\ engine' = o.engine /\ PushFail(Rebased(o.error)) /\ UNCHANGED <<loan, window, consumed>>
         \/ /\ engine' = o.engine /\ Pauses /\ UNCHANGED <<loan, window, consumed>>
         \/ /\ ~loan.borrowed /\ GoesOn(o.engine, refusal)
  BY Zenon DEF PushScan, Looks, arguments, o, c, refusal
<1> HIDE DEF o, c, refusal
<1>5. o.engine \in Engines(n, Pushed) /\ (loan' = loan => loan'.lent)
  BY <1>1, <1>3, <1>4 DEF Stays, Told
<1>6. CASE o.tag = "record" /\ Reports(o) /\ UNCHANGED <<loan, window, consumed>>
  BY <1>3, <1>4, <1>6, ReportsKeeps
<1>7. CASE engine' = o.engine /\ PushFail(Rebased(o.error)) /\ UNCHANGED <<loan, window, consumed>>
  <2>1. InBuffer'
    BY <1>1, <1>4, <1>5, <1>7, StaysInBuffer
  <2> QED  BY <1>5, <1>7, <2>1, FailureKeepsTold DEF BufferInv
<1>8. CASE engine' = o.engine /\ Pauses /\ UNCHANGED <<loan, window, consumed>>
  <2>1. InBuffer'
    BY <1>1, <1>4, <1>5, <1>8, StaysInBuffer
  <2> QED  BY <1>1, <1>4, <1>5, <1>8, <2>1, PauseKeepsTold DEF BufferInv
<1>9. CASE ~loan.borrowed /\ GoesOn(o.engine, refusal)
  <2>1. Len(window) = n
    BY <1>9 DEF Buffer
  <2> QED  BY <1>4, <1>5, <1>9, <2>1, GoesOnKeeps
<1> QED  BY <1>4, <1>6, <1>7, <1>8, <1>9

-----------------------------------------------------------------------------
(* The chunk is given back: the window takes some more of it.              *)
LEMMA SettleAbsorbingKeeps ==
    ASSUME InBuffer, ~loan.borrowed, SettleAbsorbing, loan' = NoLoan,
           UNCHANGED <<format, stream>>
    PROVE  InBuffer'
<1> DEFINE take == IF failed THEN 0 ELSE Min({Len(Rest), Room(engine)})
           kept == window \o SubSeq(Rest, 1, take)
<1>1. /\ Len(Rest) \in Nat /\ Len(window) \in Nat /\ consumed \in Nat /\ Taken \in Nat
      /\ consumed <= Taken /\ Len(window) = Taken - consumed /\ Taken = fed + loan.absorbed
      /\ engine \in Engines(Len(window), Pushed)
      /\ fed + loan.len \in Nat /\ fed + loan.len <= Len(stream) /\ Len(stream) \in Nat
  <2>1. Buffer = window /\ Taken = fed + loan.absorbed /\ Len(Rest) \in Nat
    BY RestFacts
  <2>2. fed + loan.len \in Nat /\ fed + loan.len <= Len(stream)
    BY DEF InBuffer, Lending
  <2> QED  BY <2>1, <2>2, BufferFacts
<1>2. take \in 0..Len(Rest)
  <2> DEFINE l == Len(Rest)
             r == Room(engine)
             least == Min({l, r})
  <2>1. l \in Nat /\ r \in Nat /\ l \in Int /\ r \in Int
    BY <1>1, RoomType
  <2> HIDE DEF l, r
  <2>2. least \in {l, r} /\ least <= l
    BY ONLY <2>1, MinOfTwo
  <2> HIDE DEF least
  <2>3. least \in 0..l
    BY <2>1, <2>2
  <2> QED  BY <2>1, <2>3 DEF least, l, r
<1>3. /\ window' = kept /\ fed' = fed + loan.absorbed + take /\ UNCHANGED consumed
      /\ engine' \in {engine, Oversized(kept, engine).engine}
  BY DEF SettleAbsorbing
<1> HIDE DEF take
<1>4. /\ kept = SubSeq(stream, consumed + 1, Taken + take) /\ Len(kept) = Len(window) + take
      /\ Taken + take <= fed + loan.len
  BY <1>2, WindowGoesOn
<1> DEFINE k == Taken
<1>5. fed' = k + take /\ fed' \in Nat /\ fed' <= Len(stream) /\ (k + take) - consumed = Len(kept)
      /\ consumed <= fed' /\ Len(kept) \in Nat /\ take \in Nat
  <2> DEFINE l == Len(kept)
             n == Len(window)
             e == fed + loan.len
             m == Len(stream)
             f == fed'
  <2>1. f = k + take /\ k + take <= e /\ take \in Nat /\ k \in Nat /\ e \in Nat /\ e <= m
        /\ m \in Nat /\ n \in Nat /\ n = k - consumed /\ l = n + take /\ consumed \in Nat
        /\ consumed <= k
    BY <1>1, <1>2, <1>3, <1>4
  <2> HIDE DEF k, l, n, e, m, f
  <2>2. f = k + take /\ f \in Nat /\ f <= m /\ (k + take) - consumed = l /\ consumed <= f
        /\ l \in Nat /\ take \in Nat
    BY ONLY <2>1
  <2> QED  BY <2>2 DEF l, m, f
<1>6. Lending'
  BY <1>5 DEF Lending, NoLoan
<1>7. Taken' = fed' /\ Buffer' = kept /\ ~loan'.borrowed
  BY <1>3, <1>5 DEF Taken, Buffer, NoLoan
<1> HIDE DEF kept
<1>8. engine' \in Engines(Len(kept), Pushed)
  <2>1. engine \in Engines(Len(kept), Pushed)
    BY <1>1, <1>4, <1>5, EnginesGrow, PushedSuits
  <2>2. Oversized(kept, engine).engine \in Engines(Len(kept), Pushed)
    BY <1>5, <2>1, OversizedType
  <2> QED  BY <1>3, <2>1, <2>2
<1>9. /\ engine' \in Engines(Taken' - consumed', Pushed) /\ consumed' \in Nat /\ consumed' <= Taken'
      /\ Buffer' = SubSeq(stream, consumed' + 1, Taken')
  <2>1. Taken' - consumed' = Len(kept)
    <3>1. Taken' = k + take /\ consumed' = consumed
      BY <1>3, <1>5, <1>7
    <3>2. (k + take) - consumed = Len(kept)
      BY <1>5
    <3> HIDE DEF k
    <3> QED  BY <3>1, <3>2
  <2> QED  BY <1>1, <1>3, <1>4, <1>5, <1>7, <1>8, <2>1
<1> QED  BY <1>6, <1>7, <1>9, ChangesHands

(* What is left of a chunk is cut at the record limit, which is known to   *)
(* leave the engine in the window when it is at the start of it.  It is not*)
(* when it is in a comment.                                                *)
Uncut == format.comments => Len(stream) <= format.limit

LEMMA CutType ==
    ASSUME InBuffer, Uncut, NEW w, Len(w) \in Nat, Len(w) <= Len(stream),
           NEW e \in Engines(Len(w), Pushed), ~Positioned(e),
           NEW a, a = WindowAnchor(e), NEW take \in 0..(Len(w) - a),
           take \in {Len(w) - a, format.limit + 1}
    PROVE  ShiftWindow(w, e, a) \in Engines(take, Pushed)
<1> DEFINE n == Len(w)
           s == ShiftWindow(w, e, a)
<1>1. a \in 0..n /\ (~e.resume.ignored /\ e.location < e.cursor_start => a = e.location)
  BY WindowAnchorType, PushedSuits
<1>2. s \in Engines(n - a, Pushed)
  BY <1>1, ShiftWindowType, PushedSuits
<1>3. CASE take = n - a
  BY <1>2, <1>3
<1>4. CASE take # n - a
  <2>1. /\ format.limit \in Nat /\ Len(stream) \in Nat /\ Len(stream) < NO_OFFSET
        /\ take = format.limit + 1 /\ take \in 0..(n - a)
    BY <1>4, BufferFacts
  <2>2. ~format.comments
    BY <1>1, <1>4, <2>1 DEF Uncut
  <2>3. /\ ~e.resume.ignored /\ e.cursor_start = NO_OFFSET /\ e.location \in 0..n
    BY <2>2 DEF Engines, Resumes, Pushed, Positioned
  <2>4. a = e.location
    <3> DEFINE at == e.location
               m == Len(stream)
    <3>1. at \in 0..n /\ n <= m /\ n \in Nat /\ m \in Nat /\ m < NO_OFFSET /\ NO_OFFSET \in Nat
      BY <2>1, <2>3 DEF NO_OFFSET
    <3> HIDE DEF at, m
    <3>2. at < NO_OFFSET
      BY <3>1
    <3> QED  BY <1>1, <2>3, <3>2 DEF at
  <2>5. s.location = 0 /\ ~Positioned(s)
    <3>1. CASE a = 0
      <4>1. s = e
        BY <3>1 DEF ShiftWindow
      <4> QED  BY <2>4, <3>1, <4>1
    <3>2. CASE a # 0
      <4> DEFINE zero == Max({0, e.location - a})
      <4>1. s.location = zero /\ s.cursor_start = NO_OFFSET
        BY <2>3, <3>2 DEF ShiftWindow, Engines
      <4>2. 0 \in Int /\ e.location - a = 0
        BY <2>3, <2>4
      <4>3. zero \in {0, 0}
        BY <4>2, MaxOfTwo
      <4> HIDE DEF s, zero
      <4> QED  BY <4>1, <4>3 DEF Positioned
    <3> QED  BY <3>1, <3>2
  <2>6. s.location <= take /\ take \in Nat /\ n - a \in Nat
    BY <1>1, <2>1, <2>5
  <2> HIDE DEF s
  <2>7. s \in Engines(take, Pushed)
    BY <1>2, <2>5, <2>6, EnginesShrink, PushedSuits
  <2> QED  BY <2>7 DEF s
<1> QED  BY <1>3, <1>4

(* The chunk is given back: the window takes what was not looked at.       *)
LEMMA SettleBorrowedKeeps ==
    ASSUME InBuffer, Uncut, loan.borrowed, SettleBorrowed, loan' = NoLoan,
           UNCHANGED <<format, stream>>
    PROVE  InBuffer'
<1> DEFINE w == Rest
           n == Len(w)
           e == Release(engine)
           a == WindowAnchor(e)
           take == Min({n - a, format.limit + 1})
           kept == SubSeq(w, a + 1, a + take)
           p == fed + loan.len
<1>1. /\ n \in Nat /\ consumed \in Nat /\ consumed = fed + loan.absorbed
      /\ p \in consumed..Len(stream) /\ w = SubSeq(stream, consumed + 1, p) /\ n = p - consumed
      /\ engine \in Engines(n, Pushed) /\ stream \in Seq(STRING) /\ Len(stream) \in Nat
      /\ format.limit \in Nat /\ n <= Len(stream)
  <2>1. Buffer = Rest /\ consumed = fed + loan.absorbed
    BY RestFacts
  <2>2. n = p - consumed
    <3>1. n = Taken - consumed /\ Taken = p
      BY <2>1, BufferFacts DEF Taken
    <3> QED  BY <3>1
  <2>3. p \in consumed..Len(stream) /\ w = SubSeq(stream, consumed + 1, p)
    BY <2>1, RestFacts
  <2>4. engine \in Engines(n, Pushed) /\ n \in Nat /\ consumed \in Nat
    BY <2>1, BufferFacts
  <2>5. stream \in Seq(STRING) /\ Len(stream) \in Nat /\ format.limit \in Nat
    BY BufferFacts
  <2>6. n <= Len(stream)
    <3> HIDE DEF p
    <3> QED  BY <2>2, <2>3, <2>4, <2>5
  <2> QED  BY <2>1, <2>2, <2>3, <2>4, <2>5, <2>6
<1>2. /\ engine' = ShiftWindow(w, e, a) /\ consumed' = consumed + a /\ window' = kept
      /\ fed' = fed + loan.absorbed + a + take
  BY DEF SettleBorrowed
<1> HIDE DEF w, p, a, e
<1>3. e \in Engines(n, Pushed) /\ ~Positioned(e)
  <2>1. Release(engine).cursor_start = NO_OFFSET
    BY <1>1 DEF Release, Engines
  <2> QED  BY <1>1, <2>1, ReleaseType, PushedSuits DEF Positioned, e
<1>4. a \in 0..n
  BY <1>1, <1>3, WindowAnchorType, PushedSuits DEF a
<1>5. take \in 0..(n - a) /\ take \in {n - a, format.limit + 1}
  <2> DEFINE l == n - a
             m == format.limit + 1
  <2>1. l \in Nat /\ m \in Nat /\ l \in Int /\ m \in Int
    <3>1. n \in Nat /\ a \in 0..n /\ format.limit \in Nat
      BY <1>1, <1>4
    <3> HIDE DEF n
    <3>2. n - a \in Nat /\ format.limit + 1 \in Nat
      BY ONLY <3>1
    <3> QED  BY <3>2
  <2>2. take = Min({l, m})
    OBVIOUS
  <2> HIDE DEF l, m, take
  <2>3. Min({l, m}) \in {l, m} /\ Min({l, m}) <= l
    BY ONLY <2>1, MinOfTwo
  <2>4. take \in 0..l
    BY <2>1, <2>2, <2>3
  <2> QED  BY <2>2, <2>3, <2>4 DEF l, m
<1> HIDE DEF take
<1>6. engine' \in Engines(take, Pushed)
  <2>1. Len(w) \in Nat /\ Len(w) <= Len(stream) /\ take \in 0..(Len(w) - a)
        /\ take \in {Len(w) - a, format.limit + 1} /\ e \in Engines(Len(w), Pushed)
        /\ a = WindowAnchor(e)
    BY <1>1, <1>3, <1>5 DEF a
  <2> QED  BY <1>2, <1>3, <2>1, CutType
<1> DEFINE to == a + take
<1>7. /\ to \in a..(p - consumed) /\ a \in 0..(p - consumed) /\ take \in Nat /\ a \in Nat
      /\ fed' = consumed + to /\ fed' \in Nat /\ fed' <= Len(stream)
      /\ fed' - consumed' = take /\ consumed' <= fed' /\ consumed' \in Nat
  <2> DEFINE k == loan.absorbed
             m == Len(stream)
             f == fed'
             c == consumed'
  <2>1. /\ n \in Nat /\ consumed \in Nat /\ p \in consumed..m /\ m \in Nat /\ n = p - consumed
        /\ a \in 0..n /\ take \in 0..(n - a) /\ c = consumed + a /\ consumed = fed + k
        /\ f = fed + k + a + take
    BY <1>1, <1>2, <1>4, <1>5
  <2>2. f = consumed + a + take
    BY <2>1
  <2> HIDE DEF k, m, f, c, n
  <2>3. /\ a + take \in a..(p - consumed) /\ a \in 0..(p - consumed) /\ take \in Nat /\ a \in Nat
        /\ f = consumed + (a + take) /\ f \in Nat /\ f <= m
        /\ f - c = take /\ c <= f /\ c \in Nat
    BY ONLY <2>1, <2>2
  <2> QED  BY <2>3 DEF f, c, m
<1>8. kept = SubSeq(stream, consumed + a + 1, consumed + to)
  <2>1. kept = SubSeq(w, a + 1, to)
    OBVIOUS
  <2> HIDE DEF to, kept, n
  <2> DEFINE c == consumed
  <2>2. /\ stream \in Seq(STRING) /\ c \in Nat /\ p \in c..Len(stream) /\ a \in 0..(p - c)
        /\ to \in a..(p - c) /\ w = SubSeq(stream, c + 1, p)
    BY <1>1, <1>7
  <2> HIDE DEF c
  <2>3. SubSeq(w, a + 1, to) = SubSeq(stream, c + a + 1, c + to)
    BY ONLY <2>2, PieceOfWindow
  <2> QED  BY <2>1, <2>3 DEF c
<1> HIDE DEF kept, to
<1>9. Lending'
  BY <1>7 DEF Lending, NoLoan
<1>10. Taken' = fed' /\ Buffer' = kept /\ ~loan'.borrowed
  BY <1>2, <1>7 DEF Taken, Buffer, NoLoan
<1>11. /\ engine' \in Engines(Taken' - consumed', Pushed) /\ consumed' \in Nat
       /\ consumed' <= Taken' /\ Buffer' = SubSeq(stream, consumed' + 1, Taken')
  BY <1>2, <1>6, <1>7, <1>8, <1>10
<1> QED  BY <1>9, <1>10, <1>11, ChangesHands

LEMMA DoneKeeps ==
    ASSUME BufferInv, Uncut, Done
    PROVE  BufferInv'
<1>1. /\ IF loan.borrowed THEN SettleBorrowed ELSE SettleAbsorbing
      /\ loan' = NoLoan /\ UNCHANGED <<format, stream>>
      /\ call = "none" /\ UNCHANGED call /\ answer' = NoAnswer
  BY DEF Done, arguments
<1>2. InBuffer'
  BY <1>1, SettleBorrowedKeeps, SettleAbsorbingKeeps DEF BufferInv
<1>3. Told'
  BY <1>1 DEF Told, NoAnswer
<1> QED  BY <1>2, <1>3 DEF BufferInv

-----------------------------------------------------------------------------
LEMMA StepKeepsBuffer ==
    ASSUME BufferInv, Uncut, [PushNext]_push_vars
    PROVE  BufferInv'
<1>1. ASSUME NEW n \in Sizes \cup {Len(stream) - fed}, Chunk(n)
      PROVE  BufferInv'
  <2>1. Len(stream) - fed \in Nat
    <3>1. Len(stream) \in Nat
      BY BufferFacts DEF BufferInv
    <3>2. fed \in Nat /\ loan.len \in Nat /\ fed + loan.len <= Len(stream)
      BY DEF BufferInv, InBuffer, Lending
    <3> QED  BY <3>1, <3>2
  <2>2. n \in Nat
    BY <2>1, ChunksAssumption
  <2> QED  BY <1>1, <2>2, ChunkKeeps
<1>2. CASE Finish
  <2>1. InBuffer'
    BY <1>2, StaysInBuffer DEF BufferInv, InBuffer, Finish, arguments, lender
  <2>2. Told'
    BY <1>2 DEF BufferInv, Told, Finish
  <2> QED  BY <2>1, <2>2 DEF BufferInv
<1>3. ASSUME NEW reads \in Methods[format], PushCall(reads)
      PROVE  BufferInv'
  BY <1>3, PushCallKeeps
<1>4. CASE PushStep
  BY <1>4, PushRefuseKeeps, PushRejectBomKeeps, PushScanKeeps DEF PushStep
<1>5. CASE PushView
  BY <1>5, PushViewKeeps
<1>6. CASE Done
  BY <1>6, DoneKeeps
<1>7. CASE Reset
  BY <1>7, PushResetKeeps
<1>8. CASE UNCHANGED push_vars
  <2>1. InBuffer'
    BY <1>8, StaysInBuffer DEF BufferInv, InBuffer, push_vars, arguments, lender
  <2>2. Told'
    BY <1>8 DEF BufferInv, Told, push_vars
  <2> QED  BY <2>1, <2>2 DEF BufferInv
<1> QED  BY <1>1, <1>2, <1>3, <1>4, <1>5, <1>6, <1>7, <1>8 DEF PushNext

LEMMA StepKeepsUncut ==
    ASSUME [PushNext]_push_vars
    PROVE  UNCHANGED <<format, stream>>
BY DEF PushNext, Chunk, Finish, PushCall, PushStep, PushRefuse, PushRejectBom, PushScan, Looks,
       PushView, Done, Reset, push_vars, arguments

(* What the push parser's engine looks at, window or loan, is the stream   *)
(* from `consumed` on as far as the parser took it, however the stream is  *)
(* cut and whenever a chunk is given back.  For a format with comments, of *)
(* streams that the record limit cuts nowhere.                             *)
THEOREM BufferHoldsTheStream == PushSpec => [](Uncut => BufferIsStream)
<1>2. (Uncut => BufferInv) /\ [PushNext]_push_vars => (Uncut => BufferInv)'
  BY StepKeepsBuffer, StepKeepsUncut DEF Uncut
<1>3. BufferInv => BufferIsStream
  BY DEF BufferInv, InBuffer
<1>4. (Uncut => BufferInv) => (Uncut => BufferIsStream)
  BY <1>3
<1>5. PushInit => (Uncut => BufferInv)
  BY PushInitBuffer
<1> QED  BY <1>2, <1>4, <1>5, PTL DEF PushSpec

-----------------------------------------------------------------------------
(* The line feeds of a piece of a window: of none, of one byte more, of two*)
(* pieces, of the same piece elsewhere.                                    *)
LEMMA FeedsOfNothing ==
    ASSUME NEW w, NEW a \in Int, NEW b \in Int, b <= a
    PROVE  Feeds(w, a, b) = 0
<1>1. {i \in (a + 1)..b : w[i] = "lf"} = {}
  OBVIOUS
<1> QED  BY <1>1, FS_EmptySet DEF Feeds

LEMMA FeedsStep ==
    ASSUME NEW w, NEW a \in Int, NEW b \in Int, a < b
    PROVE  Feeds(w, a, b) = Feeds(w, a, b - 1) + (IF w[b] = "lf" THEN 1 ELSE 0)
<1> DEFINE S == {i \in (a + 1)..(b - 1) : w[i] = "lf"}
           T == {i \in (a + 1)..b : w[i] = "lf"}
<1>1. IsFiniteSet(S)
  <2>1. a + 1 \in Int /\ b - 1 \in Int /\ S \subseteq (a + 1)..(b - 1)
    OBVIOUS
  <2> HIDE DEF S
  <2> QED  BY <2>1, FS_Interval, FS_Subset
<1>2. CASE w[b] = "lf"
  <2>1. T = S \cup {b} /\ b \notin S
    BY <1>2
  <2> HIDE DEF S, T
  <2>2. Cardinality(T) = Cardinality(S) + 1
    BY <1>1, <2>1, FS_AddElement
  <2> QED  BY <1>2, <2>2 DEF Feeds, S, T
<1>3. CASE w[b] # "lf"
  <2>1. T = S
    BY <1>3
  <2>2. Feeds(w, a, b) = Feeds(w, a, b - 1)
    BY <2>1 DEF Feeds
  <2>3. Feeds(w, a, b - 1) \in Nat
    BY FeedsType
  <2> QED  BY <1>3, <2>2, <2>3
<1> QED  BY <1>2, <1>3

LEMMA FeedsAbsent ==
    ASSUME NEW w, NEW a \in Int, NEW b \in Int, \A i \in (a + 1)..b : w[i] # "lf"
    PROVE  Feeds(w, a, b) = 0
<1>1. {i \in (a + 1)..b : w[i] = "lf"} = {}
  OBVIOUS
<1> QED  BY <1>1, FS_EmptySet DEF Feeds

AlikeFrom(v, w, a, b, d) == \A i \in (a + 1)..b : v[i] = w[d + i]
FeedAlike(v, w, a, b, d) == Feeds(v, a, b) = Feeds(w, d + a, d + b)

LEMMA FeedsOfAlike ==
    ASSUME NEW v, NEW w, NEW a \in Int, NEW b \in Int, NEW d \in Int, AlikeFrom(v, w, a, b, d)
    PROVE  FeedAlike(v, w, a, b, d)
<1>0. \A i \in (a + 1)..b : v[i] = w[d + i]
  BY DEF AlikeFrom
<1> SUFFICES Feeds(v, a, b) = Feeds(w, d + a, d + b)
  BY DEF FeedAlike
<1> DEFINE T == {k \in a..b : Feeds(v, a, k) = Feeds(w, d + a, d + k)}
<1>1. CASE b < a
  <2>1. Feeds(v, a, b) = 0
    BY <1>1, FeedsOfNothing
  <2>2. d + a \in Int /\ d + b \in Int /\ d + b <= d + a
    BY <1>1
  <2>3. Feeds(w, d + a, d + b) = 0
    BY ONLY <2>2, FeedsOfNothing
  <2> QED  BY <2>1, <2>3
<1>2. CASE a <= b
  <2>1. a \in T
    <3>1. Feeds(v, a, a) = 0
      BY FeedsOfNothing
    <3>2. d + a \in Int
      OBVIOUS
    <3>3. Feeds(w, d + a, d + a) = 0
      BY ONLY <3>2, FeedsOfNothing
    <3> QED  BY <1>2, <3>1, <3>3
  <2>2. ASSUME NEW k \in (a + 1)..b, k - 1 \in T
        PROVE  k \in T
    <3> DEFINE from == d + a
               to == d + k
    <3>1. k \in Int /\ a < k /\ k \in a..b /\ from \in Int /\ to \in Int /\ from < to
          /\ to - 1 = d + (k - 1)
      OBVIOUS
    <3>2. Feeds(v, a, k) = Feeds(v, a, k - 1) + (IF v[k] = "lf" THEN 1 ELSE 0)
      BY <3>1, FeedsStep
    <3>3. v[k] = w[to]
      BY <1>0
    <3>4. Feeds(v, a, k - 1) = Feeds(w, from, d + (k - 1))
      BY <2>2
    <3> HIDE DEF from, to, T
    <3>5. Feeds(w, from, to) = Feeds(w, from, to - 1) + (IF w[to] = "lf" THEN 1 ELSE 0)
      BY <3>1, FeedsStep
    <3>6. Feeds(v, a, k) = Feeds(w, from, to)
      BY <3>1, <3>2, <3>3, <3>4, <3>5
    <3> QED  BY <3>1, <3>6 DEF from, to, T
  <2>3. b \in a..b
    BY <1>2
  <2> HIDE DEF T
  <2>4. b \in T
    BY <2>1, <2>2, <2>3, Upward
  <2> QED  BY <2>4 DEF T
<1> QED  BY <1>1, <1>2

LEMMA FeedsSum ==
    ASSUME NEW w, NEW a \in Int, NEW b \in Int, NEW c \in Int, a <= b, b <= c
    PROVE  Feeds(w, a, c) = Feeds(w, a, b) + Feeds(w, b, c)
<1> DEFINE T == {k \in b..c : Feeds(w, a, k) = Feeds(w, a, b) + Feeds(w, b, k)}
<1>1. b \in T
  <2>1. Feeds(w, b, b) = 0 /\ Feeds(w, a, b) \in Nat
    BY FeedsOfNothing, FeedsType
  <2> QED  BY <2>1
<1>2. ASSUME NEW k \in (b + 1)..c, k - 1 \in T
      PROVE  k \in T
  <2>1. k \in Int /\ a < k /\ b < k /\ k \in b..c /\ k - 1 \in Int
    OBVIOUS
  <2>2. /\ Feeds(w, a, k) = Feeds(w, a, k - 1) + (IF w[k] = "lf" THEN 1 ELSE 0)
        /\ Feeds(w, b, k) = Feeds(w, b, k - 1) + (IF w[k] = "lf" THEN 1 ELSE 0)
    BY <2>1, FeedsStep
  <2>3. Feeds(w, a, k - 1) = Feeds(w, a, b) + Feeds(w, b, k - 1)
    BY <1>2
  <2>4. Feeds(w, a, b) \in Nat /\ Feeds(w, b, k - 1) \in Nat
    BY <2>1, FeedsType
  <2>5. Feeds(w, a, k) = Feeds(w, a, b) + Feeds(w, b, k)
    BY <2>2, <2>3, <2>4
  <2> QED  BY <2>1, <2>5
<1>3. c \in b..c
  OBVIOUS
<1> HIDE DEF T
<1>4. c \in T
  BY <1>1, <1>2, <1>3, Upward
<1> QED  BY <1>4 DEF T

(* A record without quotes or escapes: while it goes on it has come to no  *)
(* line feed, and the one it comes to ends it.                             *)
Unquoted == {"start", "field", "unquoted", "cr"}
LineFeedEnds(f) == f.ending = "lf" /\ "lf" \notin f.skips

LEMMA UnquotedModes ==
    ASSUME NEW f, LineFeedEnds(f), NEW m \in Unquoted, NEW b, b # "quote", ~(f.escapes /\ b = "esc")
    PROVE  /\ NextMode(f, m, b) \in Unquoted \cup {"malformed"}
           /\ NextMode(f, m, b) = "start" => b = "lf"
           /\ NextMode(f, m, b) \in Unquoted /\ NextMode(f, m, b) # "start" => b # "lf"
<1> DEFINE Fits(n) == /\ n \in Unquoted \cup {"malformed"}
                      /\ n = "start" => b = "lf"
                      /\ n \in Unquoted /\ n # "start" => b # "lf"
<1>1. Fits(Separated(f, b, "unquoted"))
  BY DEF Separated, Unquoted, LineFeedEnds
<1>2. Fits(FieldOpens(f, b))
  <2> HIDE DEF Fits
  <2> QED  BY <1>1 DEF FieldOpens
<1>3. Fits(ModeAfter(f, m, b))
  <2>1. CASE m = "start"
    <3> HIDE DEF Fits
    <3> QED  BY <1>2, <2>1 DEF ModeAfter
  <2>2. CASE m = "field"
    <3>1. ModeAfter(f, m, b) = IF b \in f.skips THEN "field" ELSE FieldOpens(f, b)
      BY <2>2 DEF ModeAfter
    <3>2. b \in f.skips => Fits("field")
      BY DEF Unquoted, LineFeedEnds
    <3> HIDE DEF Fits
    <3> QED  BY <1>2, <3>1, <3>2
  <2>3. CASE m = "unquoted"
    <3>1. ModeAfter(f, m, b) = Separated(f, b, "unquoted")
      BY <2>3 DEF ModeAfter
    <3> HIDE DEF Fits
    <3> QED  BY <1>1, <3>1
  <2>4. CASE m = "cr"
    BY <2>4 DEF ModeAfter, Unquoted
  <2> QED  BY <2>1, <2>2, <2>3, <2>4 DEF Unquoted
<1>4. NextMode(f, m, b) = ModeAfter(f, m, b)
  BY DEF NextMode, Unquoted
<1> QED  BY <1>3, <1>4

(* What has been read of a record from p on, as far as byte i.             *)
Plainly(w, p, i, s) ==
    s.plain =>
        /\ s.mode \in Unquoted \cup {"ended", "malformed", "too large"}
        /\ s.mode \in Unquoted => s.at = i /\ \A j \in (p + 1)..i : w[j] # "lf"
        /\ s.mode = "ended" => /\ s.at \in (p + 1)..i /\ w[s.at] = "lf"
                               /\ \A j \in (p + 1)..(s.at - 1) : w[j] # "lf"

LEMMA ReadPlainly ==
    ASSUME NEW f, LineFeedEnds(f), NEW w, NEW p \in Nat, NEW i \in Nat, p < i, NEW over,
           NEW s \in States, Plainly(w, p, i - 1, s)
    PROVE  Plainly(w, p, i, ReadByte(f, over, s, w[i], i))
<1> DEFINE b == w[i]
           m == NextMode(f, s.mode, b)
           t == ReadByte(f, over, s, b, i)
<1> SUFFICES Plainly(w, p, i, t)
  OBVIOUS
<1>1. CASE s.mode \in {"ended", "malformed", "too large"}
  <2>1. t = s
    BY <1>1 DEF ReadByte
  <2>2. Plainly(w, p, i, s)
    <3>1. s.mode \notin Unquoted
      BY <1>1 DEF Unquoted
    <3>2. (p + 1)..(i - 1) \subseteq (p + 1)..i
      OBVIOUS
    <3> QED  BY <3>1, <3>2 DEF Plainly
  <2> QED  BY <2>1, <2>2
<1>2. CASE s.mode \notin {"ended", "malformed", "too large"}
  <2> DEFINE mode == CASE m = "malformed" -> m
                       [] m # "malformed" /\ i > over
                            /\ m # "closed" /\ ~(s.mode = "closed" /\ m = "field") -> "too large"
                       [] OTHER -> IF m = "start" THEN "ended" ELSE m
             at == IF m # "malformed" THEN i ELSE IF s.mode = "cr" THEN i - 2 ELSE i - 1
             fields == IF m = "field" THEN s.fields + 1 ELSE s.fields
             plain == s.plain /\ b # "quote" /\ ~(f.escapes /\ b = "esc")
  <2>1. t = [mode |-> mode, at |-> at, fields |-> fields, plain |-> plain]
    BY <1>2 DEF ReadByte
  <2>2. t.mode = mode /\ t.at = at /\ t.plain = plain
    <3> HIDE DEF mode, at, fields, plain, t
    <3> QED  BY <2>1
  <2>3. SUFFICES ASSUME plain PROVE Plainly(w, p, i, t)
    <3> HIDE DEF plain, t
    <3> QED  BY <2>2 DEF Plainly
  <2>4. /\ s.mode \in Unquoted /\ s.at = i - 1 /\ \A j \in (p + 1)..(i - 1) : w[j] # "lf"
    BY <1>2, <2>3 DEF Plainly
  <2>5. /\ m \in Unquoted \cup {"malformed"}
        /\ m = "start" => b = "lf"
        /\ m \in Unquoted /\ m # "start" => b # "lf"
    BY <2>3, <2>4, UnquotedModes
  <2> HIDE DEF m
  <2>6. \/ mode \in {"malformed", "too large"}
        \/ mode = "ended" /\ m = "start"
        \/ mode = m /\ m \in Unquoted /\ m # "start"
    BY <2>5
  <2>7. m # "malformed" => at = i
    OBVIOUS
  <2> HIDE DEF mode, at, t
  <2>8. CASE mode \in {"malformed", "too large"}
    BY <2>2, <2>8 DEF Plainly, Unquoted
  <2>9. CASE mode = "ended" /\ m = "start"
    <3>1. t.mode = "ended" /\ t.at = i /\ w[i] = "lf"
      BY <2>2, <2>5, <2>7, <2>9
    <3>2. i \in (p + 1)..i /\ "ended" \notin Unquoted
      BY DEF Unquoted
    <3> QED  BY <2>4, <3>1, <3>2 DEF Plainly
  <2>10. CASE mode = m /\ m \in Unquoted /\ m # "start"
    <3>1. t.mode \in Unquoted /\ t.at = i /\ w[i] # "lf" /\ t.mode # "ended"
      BY <2>2, <2>5, <2>7, <2>10 DEF Unquoted
    <3>2. \A j \in (p + 1)..i : j = i \/ j \in (p + 1)..(i - 1)
      OBVIOUS
    <3>3. \A j \in (p + 1)..i : w[j] # "lf"
      BY <2>4, <3>1, <3>2
    <3> QED  BY <3>1, <3>3 DEF Plainly
  <2> QED  BY <2>6, <2>8, <2>9, <2>10
<1> QED  BY <1>1, <1>2

(* It has the line feed it ends with and no other: it need not be searched.*)
LEMMA PlainRecordFeeds ==
    ASSUME NEW f, LineFeedEnds(f), NEW w, Len(w) \in Nat, NEW p \in 0..Len(w),
           PhysicalRecord(f, w, p).plain, PhysicalRecord(f, w, p).verdict = "ok"
    PROVE  Feeds(w, p, PhysicalRecord(f, w, p).at)
              = IF PhysicalRecord(f, w, p).terminated THEN 1 ELSE 0
<1> DEFINE n == Len(w)
           record == PhysicalRecord(f, w, p)
<1>1. PICK run :
         /\ run[p] = [mode |-> "start", at |-> p, fields |-> 1, plain |-> TRUE]
         /\ \A i \in (p + 1)..Len(w) :
               run[i] = ReadByte(f, p + f.limit, run[i - 1], w[i], i)
         /\ \A i \in p..Len(w) :
               run[i] \in States /\ (run[i].mode # "malformed" => run[i].at \in p..i)
         /\ PhysicalRecord(f, w, p) = Judged(f, w, p, run[Len(w)])
  BY Zenon, PhysicalRecordRun
<1> DEFINE T == {i \in p..n : Plainly(w, p, i, run[i])}
<1>2. \A i \in p..n : i \in T
  <2>1. p \in T
    <3>1. run[p].mode = "start" /\ run[p].at = p
      BY <1>1
    <3>2. (p + 1)..p = {} /\ p \in p..n
      OBVIOUS
    <3>3. "start" \in Unquoted
      BY DEF Unquoted
    <3> QED  BY <3>1, <3>2, <3>3 DEF Plainly
  <2>2. ASSUME NEW i \in (p + 1)..n, i - 1 \in T
        PROVE  i \in T
    <3> DEFINE s == run[i - 1]
    <3>1. i \in Nat /\ p \in Nat /\ p < i /\ i \in p..n /\ i - 1 \in p..n
      OBVIOUS
    <3>2. s \in States /\ Plainly(w, p, i - 1, s)
      BY <1>1, <2>2, <3>1
    <3>3. run[i] = ReadByte(f, p + f.limit, s, w[i], i)
      BY <1>1, <2>2
    <3> HIDE DEF s
    <3>4. Plainly(w, p, i, run[i])
      BY <3>1, <3>2, <3>3, ReadPlainly
    <3> QED  BY <3>1, <3>4
  <2>3. p \in Int /\ n \in Int
    OBVIOUS
  <2> HIDE DEF T
  <2> QED  BY <2>1, <2>2, <2>3, Upward
<1> DEFINE s == run[n]
           Verdict(v, at) == [verdict |-> v, at |-> at, terminated |-> s.mode = "ended",
                              fields |-> s.fields, plain |-> s.plain]
<1>3. Plainly(w, p, n, s) /\ s.plain \in BOOLEAN
  <2>1. n \in T /\ n \in p..n
    BY <1>2
  <2> QED  BY <1>1, <2>1 DEF States
<1>4. record =
         CASE s.mode = "malformed" -> Verdict("syntax", s.at)
           [] s.mode = "too large" \/ (s.mode = "closed" /\ s.at > p + f.limit) ->
                Verdict("too large", s.at)
           [] s.mode \in {"quoted", "quoted_escaped"} -> Verdict("unterminated", n)
           [] s.mode = "cr" -> Verdict("syntax", n - 1)
           [] OTHER -> Verdict("ok", s.at)
  BY Zenon, <1>1 DEF Judged
<1> HIDE DEF s
<1>5. \/ \E at : record = Verdict("syntax", at) \/ record = Verdict("too large", at)
                   \/ record = Verdict("unterminated", at)
      \/ record = Verdict("ok", s.at) /\ s.mode \notin {"malformed", "too large"}
  <2> HIDE DEF Verdict, record
  <2> QED  BY <1>4
<1>6. /\ record.at = s.at /\ record.terminated = (s.mode = "ended") /\ s.plain
      /\ s.mode \notin {"malformed", "too large"}
  <2>1. record.plain /\ record.verdict = "ok"
    OBVIOUS
  <2>2. record = Verdict("ok", s.at) /\ s.mode \notin {"malformed", "too large"}
    <3>1. \A at : /\ Verdict("syntax", at).verdict # "ok" /\ Verdict("too large", at).verdict # "ok"
                  /\ Verdict("unterminated", at).verdict # "ok"
      OBVIOUS
    <3> HIDE DEF record, Verdict
    <3> QED  BY Zenon, <1>5, <2>1, <3>1
  <2>3. /\ Verdict("ok", s.at).at = s.at /\ Verdict("ok", s.at).terminated = (s.mode = "ended")
        /\ Verdict("ok", s.at).plain = s.plain
    OBVIOUS
  <2> HIDE DEF record, Verdict
  <2> QED  BY <2>1, <2>2, <2>3
<1> SUFFICES Feeds(w, p, record.at) = IF record.terminated THEN 1 ELSE 0
  OBVIOUS
<1>7. CASE s.mode = "ended"
  <2> DEFINE k == s.at
  <2>1. k \in (p + 1)..n /\ w[k] = "lf" /\ \A j \in (p + 1)..(k - 1) : w[j] # "lf"
    BY <1>3, <1>6, <1>7 DEF Plainly
  <2> HIDE DEF k
  <2>2. k \in Int /\ p \in Int /\ p < k /\ k - 1 \in Int
    BY <2>1
  <2>3. Feeds(w, p, k) = Feeds(w, p, k - 1) + 1
    BY <2>1, <2>2, FeedsStep
  <2>4. Feeds(w, p, k - 1) = 0
    BY <2>1, <2>2, FeedsAbsent
  <2>5. Feeds(w, p, k) = 1
    BY <2>3, <2>4
  <2>6. record.terminated
    BY <1>6, <1>7
  <2> HIDE DEF record
  <2> QED  BY <1>6, <2>5, <2>6 DEF k
<1>8. CASE s.mode # "ended"
  <2>1. s.at = n /\ \A j \in (p + 1)..n : w[j] # "lf"
    BY <1>3, <1>6, <1>8 DEF Plainly, Unquoted
  <2>2. Feeds(w, p, n) = 0
    BY <2>1, FeedsAbsent
  <2>3. ~record.terminated
    BY <1>6, <1>8
  <2> HIDE DEF record
  <2> QED  BY <1>6, <2>1, <2>2, <2>3
<1> QED  BY <1>7, <1>8

-----------------------------------------------------------------------------
(* The tally of an engine over a window: it covers no more than the engine *)
(* has passed, and is right.  A comment is gone on with behind its start,  *)
(* so that the engine never goes back.                                     *)
GoesOnBehind(r) == r.ignored => r.record_start <= r.scanned_to
Tallied(w, e) ==
    /\ e.folded_upto <= e.location
    /\ e.folded_lines = Feeds(w, 0, e.folded_upto)
    /\ GoesOnBehind(e.resume)

(* From e, an engine has come to c: not back, and its tally to bytes only  *)
(* if it had come as far as e was.                                         *)
Counts(w, e, c) ==
    /\ Tallied(w, c)
    /\ e.location <= c.location
    /\ c.line_base = e.line_base
    /\ c.folded_upto # e.folded_upto => e.folded_upto = e.location /\ e.location <= c.folded_upto

(* The simplest way there: nothing is counted.                             *)
KeepsTally(e, c) ==
    /\ e.location <= c.location
    /\ c.line_base = e.line_base
    /\ c.folded_upto = e.folded_upto
    /\ c.folded_lines = e.folded_lines
    /\ GoesOnBehind(c.resume)

LEMMA KeptIsCounted ==
    ASSUME NEW q \in Parsers, NEW n \in Nat, NEW w, NEW e \in Engines(n, q), NEW c \in Engines(n, q),
           Tallied(w, e), KeepsTally(e, c)
    PROVE  Counts(w, e, c)
<1>1. e.location \in Nat /\ c.location \in Nat /\ e.folded_upto \in Nat
  BY DEF Engines
<1> QED  BY <1>1 DEF Counts, KeepsTally, Tallied

LEMMA KeptByItself ==
    ASSUME NEW q \in Parsers, NEW n \in Nat, NEW w, NEW e \in Engines(n, q), Tallied(w, e)
    PROVE  KeepsTally(e, e) /\ Counts(w, e, e)
<1>1. KeepsTally(e, e)
  BY DEF KeepsTally, Tallied, Engines
<1> QED  BY <1>1, KeptIsCounted

LEMMA KeptOn ==
    ASSUME NEW q \in Parsers, NEW n \in Nat, NEW e \in Engines(n, q), NEW c \in Engines(n, q),
           NEW d \in Engines(n, q), KeepsTally(e, c), KeepsTally(c, d)
    PROVE  KeepsTally(e, d)
<1>1. e.location \in Nat /\ c.location \in Nat /\ d.location \in Nat
  BY DEF Engines
<1> QED  BY <1>1 DEF KeepsTally

LEMMA CountedOn ==
    ASSUME NEW q \in Parsers, NEW n \in Nat, NEW w, NEW e \in Engines(n, q), NEW c \in Engines(n, q),
           NEW d \in Engines(n, q), Tallied(w, e), Counts(w, e, c), Counts(w, c, d)
    PROVE  Counts(w, e, d)
<1>1. /\ e.location \in Nat /\ c.location \in Nat /\ d.location \in Nat
      /\ e.folded_upto \in Nat /\ c.folded_upto \in Nat /\ d.folded_upto \in Nat
  BY DEF Engines
<1>2. /\ e.folded_upto <= e.location /\ e.location <= c.location /\ c.location <= d.location
      /\ d.line_base = e.line_base /\ Tallied(w, d)
      /\ c.folded_upto # e.folded_upto => e.folded_upto = e.location /\ e.location <= c.folded_upto
      /\ d.folded_upto # c.folded_upto => c.folded_upto = c.location /\ c.location <= d.folded_upto
  BY DEF Counts, Tallied
<1>3. d.folded_upto # e.folded_upto => e.folded_upto = e.location /\ e.location <= d.folded_upto
  BY <1>1, <1>2
<1> QED  BY <1>1, <1>2, <1>3 DEF Counts

-----------------------------------------------------------------------------
(* A record that is parsed is counted as it is, or not at all.             *)
LEMMA FoldCounts ==
    ASSUME NEW f, "lf" \notin f.skips, NEW q \in Parsers, Suits(q, f), NEW w, Len(w) \in Nat,
           NEW e \in Engines(Len(w), q), Tallied(w, e), NEW owned,
           PhysicalRecord(f, w, e.location).verdict = "ok"
    PROVE  /\ Fold(f, e, PhysicalRecord(f, w, e.location), owned) \in Engines(Len(w), q)
           /\ Counts(w, e, [Fold(f, e, PhysicalRecord(f, w, e.location), owned)
                              EXCEPT !.location = PhysicalRecord(f, w, e.location).at])
           /\ Fold(f, e, PhysicalRecord(f, w, e.location), owned).expected = e.expected
<1> DEFINE n == Len(w)
           record == PhysicalRecord(f, w, e.location)
           p == e.location
           c == Fold(f, e, record, owned)
           d == [c EXCEPT !.location = record.at]
           lines == e.folded_lines + (IF record.terminated THEN 1 ELSE 0)
<1>1. p \in 0..n /\ e.folded_upto \in Nat /\ e.folded_lines \in Nat
  BY DEF Engines
<1>2. record.at \in p..n /\ record.terminated \in BOOLEAN
  BY <1>1, PhysicalRecordType
<1>3. c \in Engines(n, q)
  BY <1>1, <1>2, FoldType
<1>4. /\ c.line_base = e.line_base /\ c.resume = e.resume /\ c.expected = e.expected
      /\ c.cursor_start = e.cursor_start
      /\ \/ c.folded_upto = e.folded_upto /\ c.folded_lines = e.folded_lines
         \/ /\ record.plain /\ e.folded_upto = p /\ f.ending = "lf"
            /\ c.folded_upto = record.at /\ c.folded_lines = lines
  BY DEF Fold, Engines
<1> DEFINE at == record.at
<1>5. /\ d.location = at /\ d.line_base = e.line_base /\ d.resume = e.resume
      /\ d.folded_upto = c.folded_upto /\ d.folded_lines = c.folded_lines
  BY <1>3, <1>4 DEF Engines
<1> HIDE DEF c, d
<1>6. CASE c.folded_upto = e.folded_upto /\ c.folded_lines = e.folded_lines
  <2>1. e.folded_upto <= at /\ p <= at
    BY <1>1, <1>2 DEF Tallied
  <2> QED  BY <1>3, <1>4, <1>5, <1>6, <2>1 DEF Counts, Tallied, c, d
<1>7. CASE /\ record.plain /\ e.folded_upto = p /\ f.ending = "lf"
           /\ c.folded_upto = record.at /\ c.folded_lines = lines
  <2>1. Feeds(w, p, at) = IF record.terminated THEN 1 ELSE 0
    BY <1>1, <1>7, PlainRecordFeeds DEF LineFeedEnds
  <2>2. p \in Int /\ at \in Int /\ 0 <= p /\ p <= at /\ 0 \in Int
    BY <1>1, <1>2
  <2>3. Feeds(w, 0, at) = Feeds(w, 0, p) + Feeds(w, p, at)
    BY <2>2, FeedsSum
  <2>4. e.folded_lines = Feeds(w, 0, p)
    BY <1>7 DEF Tallied
  <2>5. d.folded_lines = Feeds(w, 0, at) /\ d.folded_upto = at
    BY <1>5, <1>7, <2>1, <2>3, <2>4
  <2> HIDE DEF at, p
  <2>6. GoesOnBehind(d.resume) /\ at <= at
    BY <1>5, <2>2 DEF Tallied
  <2>7. Tallied(w, d)
    BY <1>5, <2>5, <2>6 DEF Tallied
  <2> QED  BY <1>3, <1>4, <1>5, <1>7, <2>2, <2>5, <2>7 DEF Counts, c, d, p, at
<1> QED  BY <1>4, <1>6, <1>7

(* The record at p is whole, e is where it ends, and knows its width.      *)
HasRead(f, w, p, e) ==
    /\ PhysicalRecord(f, w, p).verdict = "ok"
    /\ e.location = PhysicalRecord(f, w, p).at
    /\ f.match_first => e.expected = PhysicalRecord(f, w, p).fields

(* What comes of the record at the engine's location.                      *)
LEMMA ParseRecordCounts ==
    ASSUME NEW f, "lf" \notin f.skips, NEW q \in Parsers, Suits(q, f), NEW w, Len(w) \in Nat,
           NEW e \in Engines(Len(w), q), Tallied(w, e), NEW owned
    PROVE  /\ Counts(w, e, ParseRecord(f, w, e, owned).engine)
           /\ ParseRecord(f, w, e, owned).tag = "record" =>
                 HasRead(f, w, e.location, ParseRecord(f, w, e, owned).engine)
           /\ /\ PhysicalRecord(f, w, e.location).verdict = "ok"
              /\ f.match_first => e.expected = PhysicalRecord(f, w, e.location).fields
              => ParseRecord(f, w, e, owned).tag = "record"
<1> DEFINE n == Len(w)
           record == PhysicalRecord(f, w, e.location)
           x == Fold(f, e, record, owned)
           parsed == [x EXCEPT !.location = record.at]
           passed == [parsed EXCEPT !.record_index = @ + 1,
                                    !.expected = IF f.match_first THEN record.fields ELSE @]
           Fails(c, kind, at) == Failure([c EXCEPT !.failed = TRUE], ErrorAt(w, c, kind, at))
           o == ParseRecord(f, w, e, owned)
<1>1. o = CASE record.verdict # "ok" -> Fails(e, record.verdict, record.at)
            [] /\ record.verdict = "ok"
               /\ f.match_first /\ e.expected \notin {0, record.fields} ->
                 Fails(parsed, "width", record.at)
            [] OTHER -> Record(passed, record.terminated)
  BY Zenon DEF ParseRecord, record, parsed, passed, Fails, x
<1>2. ASSUME NEW c, NEW kind, NEW at
      PROVE  Fails(c, kind, at).engine = [c EXCEPT !.failed = TRUE] /\ Fails(c, kind, at).tag = "error"
  BY DEF Failure
<1>3. ASSUME NEW c, NEW t
      PROVE  Record(c, t).engine = c /\ Record(c, t).tag = "record"
  BY DEF Record
<1>4. e.location \in 0..n /\ record.fields \in Nat
      /\ (record.verdict = "ok" => record.at \in e.location..n)
  <2>1. e.location \in 0..n
    BY DEF Engines
  <2> QED  BY <2>1, PhysicalRecordType
<1> HIDE DEF Fails, record
<1>5. CASE record.verdict # "ok"
  <2>1. o.engine = [e EXCEPT !.failed = TRUE] /\ o.tag = "error"
    BY <1>1, <1>2, <1>5
  <2> DEFINE c == [e EXCEPT !.failed = TRUE]
  <2>2. /\ c \in Engines(n, q) /\ c.location = e.location /\ c.line_base = e.line_base
        /\ c.folded_upto = e.folded_upto /\ c.folded_lines = e.folded_lines /\ c.resume = e.resume
    BY DEF Engines
  <2> HIDE DEF c
  <2>3. Counts(w, e, c)
    BY <1>4, <2>2, KeptIsCounted DEF KeepsTally, Tallied
  <2>4. Counts(w, e, o.engine)
    BY <2>1, <2>3 DEF c
  <2> QED  BY <1>5, <2>1, <2>4 DEF record
<1>6. CASE record.verdict = "ok"
  <2>0. record = PhysicalRecord(f, w, e.location)
    BY DEF record
  <2>1. /\ x \in Engines(n, q) /\ Counts(w, e, parsed) /\ x.expected = e.expected
    <3>1. PhysicalRecord(f, w, e.location).verdict = "ok"
      BY <1>6, <2>0
    <3> DEFINE r == PhysicalRecord(f, w, e.location)
               y == Fold(f, e, r, owned)
    <3>2. y \in Engines(n, q)
      BY <3>1, FoldCounts
    <3>3. y.expected = e.expected
      BY DEF Fold, Engines
    <3>4. Counts(w, e, [y EXCEPT !.location = r.at])
      BY Zenon, <3>1, FoldCounts
    <3> QED  BY Zenon, <2>0, <3>2, <3>3, <3>4
  <2>2. parsed \in Engines(n, q) /\ parsed.location = record.at /\ parsed.expected = e.expected
    <3> HIDE DEF x
    <3>1. record.at \in 0..n
      BY <1>4, <1>6
    <3> QED  BY <2>1, <3>1 DEF Engines
  <2> HIDE DEF x, parsed
  <2>3. CASE f.match_first /\ e.expected \notin {0, record.fields}
    <3>1. o.engine = [parsed EXCEPT !.failed = TRUE] /\ o.tag = "error"
      BY <1>1, <1>2, <1>6, <2>3
    <3>2. Counts(w, e, [parsed EXCEPT !.failed = TRUE])
      BY <2>1, <2>2 DEF Engines, Counts, Tallied
    <3>3. ~(f.match_first => e.expected = record.fields)
      BY <2>3
    <3> QED  BY <3>1, <3>2, <3>3 DEF record
  <2>4. CASE ~(f.match_first /\ e.expected \notin {0, record.fields})
    <3>1. o.engine = passed /\ o.tag = "record"
      <4> HIDE DEF passed
      <4> QED  BY <1>1, <1>3, <1>6, <2>4
    <3>2. /\ passed.location = record.at
          /\ f.match_first => passed.expected = record.fields
          /\ Counts(w, e, passed)
      BY <2>1, <2>2 DEF Engines, Counts, Tallied
    <3> HIDE DEF passed
    <3> QED  BY <1>6, <3>1, <3>2 DEF record, HasRead
  <2> QED  BY <2>3, <2>4
<1> QED  BY <1>5, <1>6

-----------------------------------------------------------------------------
(* Comments and blank lines are passed uncounted.                          *)
LEMMA ResumesGoOn ==
    /\ GoesOnBehind(Unset)
    /\ \A at : GoesOnBehind(Fresh(at))
    /\ \A at, to : at <= to => GoesOnBehind(Ignored(at, to))
BY DEF GoesOnBehind, Unset, Fresh, Ignored

LEMMA SkipCommentCounts ==
    ASSUME NEW f, NEW q \in Parsers, Suits(q, f), f.comments, NEW w, Len(w) \in Nat,
           NEW e \in Engines(Len(w), q), GoesOnBehind(e.resume)
    PROVE  KeepsTally(e, SkipComment(f, w, e))
<1> DEFINE n == Len(w)
           p == e.location
           start == IF Resuming(w, e) THEN e.resume.scanned_to ELSE e.location
           ends == EndingsFrom(f, w, start)
           left == Ignored(p, Max({p, n - 2}))
<1>1. p \in 0..n /\ start \in Nat /\ p <= start
  <2>1. p \in 0..n /\ e.resume.scanned_to \in Nat
    BY DEF Engines, Resumes
  <2>2. Resuming(w, e) => p <= e.resume.scanned_to
    BY DEF Resuming, GoesOnBehind
  <2> QED  BY <2>1, <2>2
<1>2. CASE ends # {}
  <2>1. \A at \in ends : at \in (start + 1)..n
    BY DEF EndingsFrom
  <2> DEFINE at == Min(ends)
             c == [e EXCEPT !.location = at, !.resume = Unset]
  <2>2. SkipComment(f, w, e) = c
    BY <1>2 DEF SkipComment
  <2> HIDE DEF ends, start
  <2>3. ends \subseteq Nat
    BY <1>1, <2>1
  <2>4. at \in ends
    BY <1>2, <2>3, MinOfPlaces
  <2>5. p <= at
    BY <1>1, <2>1, <2>4
  <2> HIDE DEF at
  <2>6. KeepsTally(e, c)
    BY <2>5, ResumesGoOn DEF KeepsTally, Engines
  <2> QED  BY <2>2, <2>6
<1>3. CASE ends = {}
  <2> DEFINE c == [e EXCEPT !.location = n, !.resume = left]
  <2>1. SkipComment(f, w, e) = c
    BY <1>3 DEF SkipComment
  <2>2. p \in Int /\ n - 2 \in Int /\ p <= n
    BY <1>1
  <2>3. p <= Max({p, n - 2})
    BY ONLY <2>2, MaxOfTwo
  <2>4. GoesOnBehind(left)
    BY <2>3, ResumesGoOn
  <2> HIDE DEF left
  <2>5. KeepsTally(e, c)
    BY <2>2, <2>4 DEF KeepsTally, Engines
  <2> QED  BY <2>1, <2>5
<1> QED  BY <1>2, <1>3

LEMMA SkipIgnoredCounts ==
    ASSUME NEW f, NEW q \in Parsers, Suits(q, f), NEW w, Len(w) \in Nat,
           NEW e \in Engines(Len(w), q), GoesOnBehind(e.resume)
    PROVE  KeepsTally(e, SkipIgnored(f, w, e))
<1> DEFINE n == Len(w)
<1>1. PICK skip : SkipsBy(f, w, q, e, skip)
  BY SkipIgnoredRun
<1>2. /\ skip[0] = e
      /\ \A k \in (0 + 1)..n : skip[k] = PastOne(f, w, skip[k - 1])
      /\ \A k \in 0..n : skip[k] \in Engines(n, q)
      /\ SkipIgnored(f, w, e) = PastAll(e, skip[n])
  BY <1>1 DEF SkipsBy
<1>3. KeepsTally(e, e)
  BY DEF KeepsTally, Engines
<1>4. ASSUME NEW c \in Engines(n, q), KeepsTally(e, c)
      PROVE  KeepsTally(c, PastOne(f, w, c))
  <2>1. GoesOnBehind(c.resume)
    BY <1>4 DEF KeepsTally
  <2>2. f.comments => KeepsTally(c, SkipComment(f, w, c))
    BY <2>1, SkipCommentCounts
  <2>3. KeepsTally(c, c)
    BY <2>1 DEF KeepsTally, Engines
  <2> DEFINE at == c.location + EndingWidth(f, w, c.location)
             d == [c EXCEPT !.location = at]
  <2>4. c.location <= at
    <3>1. EndingWidth(f, w, c.location) \in {0, 1, 2}
      BY DEF EndingWidth
    <3>2. c.location \in Nat
      BY DEF Engines
    <3> QED  BY <3>1, <3>2
  <2>5. KeepsTally(c, d)
    <3> HIDE DEF at
    <3> QED  BY <2>1, <2>4 DEF KeepsTally, Engines
  <2>6. PastOne(f, w, c) \in {c, d} \/ (f.comments /\ PastOne(f, w, c) = SkipComment(f, w, c))
    BY DEF PastOne
  <2> HIDE DEF d
  <2> QED  BY <2>2, <2>3, <2>5, <2>6
<1>5. \A k \in 0..n : KeepsTally(e, skip[k])
  <2> DEFINE T == {k \in 0..n : KeepsTally(e, skip[k])}
  <2>1. 0 \in T
    BY <1>2, <1>3
  <2>2. ASSUME NEW k \in (0 + 1)..n, k - 1 \in T
        PROVE  k \in T
    <3>1. k - 1 \in 0..n /\ k \in 0..n
      OBVIOUS
    <3>2. /\ skip[k - 1] \in Engines(n, q) /\ skip[k] \in Engines(n, q)
          /\ KeepsTally(e, skip[k - 1])
      BY <1>2, <2>2, <3>1
    <3>3. KeepsTally(skip[k - 1], skip[k])
      BY <1>2, <1>4, <3>2
    <3>4. KeepsTally(e, skip[k])
      BY <3>2, <3>3, KeptOn
    <3> QED  BY <3>1, <3>4
  <2>3. 0 \in Int /\ n \in Int
    OBVIOUS
  <2>4. \A k \in 0..n : k \in T
    <3> HIDE DEF T, n
    <3> QED  BY <2>1, <2>2, <2>3, Upward
  <2> QED  BY <2>4
<1> DEFINE c == skip[n]
           d == [c EXCEPT !.resume = Fresh(c.location)]
<1>6. c \in Engines(n, q) /\ KeepsTally(e, c)
  BY <1>2, <1>5
<1>7. SkipIgnored(f, w, e) \in {c, d}
  BY <1>2 DEF PastAll
<1> HIDE DEF c
<1>8. KeepsTally(e, d)
  BY <1>6, ResumesGoOn DEF KeepsTally, Engines
<1> QED  BY <1>6, <1>7, <1>8

-----------------------------------------------------------------------------
(* What the tally is of, and where the engine is, without the rest of it.  *)
SameTally(c, d) ==
    /\ d.location = c.location /\ d.line_base = c.line_base /\ d.resume = c.resume
    /\ d.folded_upto = c.folded_upto /\ d.folded_lines = c.folded_lines

LEMMA AlikeCounted ==
    ASSUME NEW w, NEW e, NEW c, NEW d, SameTally(c, d)
    PROVE  /\ Tallied(w, c) => Tallied(w, d)
           /\ Counts(w, e, c) => Counts(w, e, d)
           /\ Counts(w, d, e) => Counts(w, c, e)
           /\ KeepsTally(e, c) => KeepsTally(e, d)
BY DEF SameTally, Counts, Tallied, KeepsTally

LEMMA NextRecordCounts ==
    ASSUME NEW f, "lf" \notin f.skips, NEW q \in Parsers, Suits(q, f), NEW w, Len(w) \in Nat,
           NEW e \in Engines(Len(w), q), Tallied(w, e)
    PROVE  Counts(w, e, NextRecord(f, w, e).engine)
<1> DEFINE n == Len(w)
           c == IF SkipsRecords(f) THEN SkipIgnored(f, w, e) ELSE e
           o == ParseRecord(f, w, c, FALSE)
<1>1. c \in Engines(n, q)
  BY SkipIgnoredType
<1>2. GoesOnBehind(e.resume)
  BY DEF Tallied
<1>3. KeepsTally(e, c)
  BY <1>2, SkipIgnoredCounts, KeptByItself
<1>4. NextRecord(f, w, e) = IF c.location = n THEN Nothing(c) ELSE o
  BY DEF NextRecord
<1> HIDE DEF c
<1>5. Counts(w, e, c)
  BY <1>1, <1>3, KeptIsCounted
<1>6. Tallied(w, c)
  BY <1>5 DEF Counts
<1>7. o.engine \in Engines(n, q)
  <2>1. o \in Outs(n, q)
    BY <1>1, ParseRecordType
  <2> QED  BY <2>1 DEF Outs
<1>8. Counts(w, c, o.engine)
  BY <1>1, <1>6, ParseRecordCounts
<1>9. Counts(w, e, o.engine)
  <2> DEFINE d == o.engine
  <2>1. d \in Engines(n, q) /\ Counts(w, c, d)
    BY <1>7, <1>8
  <2> HIDE DEF d
  <2>2. Counts(w, e, d)
    BY <1>1, <1>5, <2>1, CountedOn
  <2> QED  BY <2>2 DEF d
<1>10. Nothing(c).engine = c
  BY DEF Nothing
<1> HIDE DEF o
<1> QED  BY <1>4, <1>5, <1>9, <1>10

(* The headers.                                                            *)
LEMMA KnowHeadersCounts ==
    ASSUME NEW q \in Parsers, NEW n \in Nat, NEW e \in Engines(n, q)
    PROVE  SameTally(e, KnowHeaders(e))
BY DEF SameTally, KnowHeaders, Engines

LEMMA HeadersCounts ==
    ASSUME NEW f, "lf" \notin f.skips, NEW q \in Parsers, Suits(q, f), NEW w, Len(w) \in Nat,
           NEW e \in Engines(Len(w), q), Tallied(w, e)
    PROVE  /\ Counts(w, e, HeadersOfInput(f, w, e).engine)
           /\ Counts(w, e, HeadersOfWindow(f, w, e).engine)
<1> DEFINE n == Len(w)
           c == KnowHeaders(e)
           i == NextRecord(f, w, c)
           o == NextRecord(f, w, e)
           ensured == IF o.tag = "record" /\ o.engine.location < Len(w)
                        THEN Nothing(KnowHeaders(o.engine))
                        ELSE IF o.tag = "error" THEN o ELSE Nothing(o.engine)
<1>1. c \in Engines(n, q) /\ SameTally(e, c)
  BY KnowHeadersType, KnowHeadersCounts
<1>2. Counts(w, e, c) /\ Tallied(w, c)
  BY <1>1, KeptByItself, AlikeCounted
<1>3. Counts(w, e, o.engine)
  BY NextRecordCounts
<1>4. o.engine \in Engines(n, q)
  BY NextRecordType DEF Outs
<1>5. HeadersOfWindow(f, w, e) = IF e.headers \/ ~f.headers THEN Nothing(c) ELSE ensured
  BY Zenon DEF HeadersOfWindow, ensured, o, c
<1>6. HeadersOfInput(f, w, e) = IF e.headers \/ ~f.headers THEN Nothing(c) ELSE i
  BY Zenon DEF HeadersOfInput, c, i
<1> HIDE DEF c, o
<1>7. Counts(w, c, i.engine)
  BY <1>1, <1>2, NextRecordCounts
<1>8. Counts(w, e, i.engine)
  <2> HIDE DEF i
  <2> QED  BY <1>1, <1>7, AlikeCounted
<1>9. \A x : Nothing(x).engine = x
  BY DEF Nothing
<1>10. Counts(w, e, ensured.engine)
  <2> DEFINE x == KnowHeaders(o.engine)
  <2>1. SameTally(o.engine, x)
    BY <1>4, KnowHeadersCounts
  <2>2. Counts(w, e, x)
    <3> HIDE DEF x
    <3> QED  BY <1>3, <2>1, AlikeCounted
  <2> HIDE DEF x
  <2>3. ensured \in {Nothing(x), o, Nothing(o.engine)}
    BY DEF x
  <2> HIDE DEF ensured
  <2> QED  BY <1>3, <1>9, <2>2, <2>3
<1> HIDE DEF ensured, i
<1> QED  BY <1>2, <1>5, <1>6, <1>8, <1>9, <1>10

(* The record before is settled, and the next one positioned, where the    *)
(* engine is then.                                                         *)
LEMMA SettleCounts ==
    ASSUME NEW f, "lf" \notin f.skips, NEW q \in Parsers, Suits(q, f), NEW w, Len(w) \in Nat,
           NEW e \in Engines(Len(w), q), Tallied(w, e)
    PROVE  Counts(w, e, Settle(f, w, e).engine)
<1> DEFINE c == [e EXCEPT !.record_index = e.cursor_index]
           o == ParseRecord(f, w, c, FALSE)
<1>1. c \in Engines(Len(w), q) /\ SameTally(e, c)
  BY DEF SameTally, Engines
<1>2. Settle(f, w, e) \in {o, Nothing(e)}
  BY DEF Settle
<1> HIDE DEF c
<1>3. Tallied(w, c)
  BY <1>1, AlikeCounted
<1>4. Counts(w, c, o.engine)
  BY <1>1, <1>3, ParseRecordCounts
<1> HIDE DEF o
<1>5. Counts(w, e, o.engine)
  BY <1>1, <1>4, AlikeCounted
<1>6. Counts(w, e, e) /\ Nothing(e).engine = e
  BY KeptByItself DEF Nothing
<1> QED  BY <1>2, <1>5, <1>6

LEMMA PositionCounts ==
    ASSUME NEW f, NEW q \in Parsers, Suits(q, f), NEW w, Len(w) \in Nat,
           NEW e \in Engines(Len(w), q), GoesOnBehind(e.resume)
    PROVE  /\ KeepsTally(e, Position(f, w, e))
           /\ Positioned(Position(f, w, e)) =>
                 Position(f, w, e).cursor_start = Position(f, w, e).location
<1> DEFINE n == Len(w)
           later == Max({e.location, e.resume.record_start})
           restored ==
               IF ~e.resume.ignored /\ e.resume.record_start <= Len(w)
                 THEN [e EXCEPT !.location = Max({@, e.resume.record_start})] ELSE e
           c == IF SkipsRecords(f) THEN SkipIgnored(f, w, restored) ELSE e
<1>1. e.location \in 0..n /\ e.resume.record_start \in Nat
  BY StartsAre DEF Engines, Resumes
<1>2. KeepsTally(e, e)
  BY DEF KeepsTally, Engines
<1>3. restored \in Engines(n, q) /\ KeepsTally(e, restored)
  <2>1. restored = IF ~e.resume.ignored /\ e.resume.record_start <= n
                     THEN [e EXCEPT !.location = later] ELSE e
    BY DEF Engines
  <2>2. e.location \in Int /\ e.resume.record_start \in Int
    BY <1>1
  <2>3. later \in {e.location, e.resume.record_start} /\ e.location <= later
    BY ONLY <2>2, MaxOfTwo
  <2>4. e.resume.record_start <= n => later \in 0..n
    <3> HIDE DEF later
    <3> QED  BY <1>1, <2>3
  <2> HIDE DEF later, restored
  <2>5. CASE ~e.resume.ignored /\ e.resume.record_start <= n
    <3>1. restored = [e EXCEPT !.location = later] /\ later \in 0..n
      BY <2>1, <2>4, <2>5
    <3> QED  BY <2>3, <3>1 DEF KeepsTally, Engines
  <2> QED  BY <1>2, <2>1, <2>5
<1>4. c \in Engines(n, q) /\ KeepsTally(e, c)
  <2>1. GoesOnBehind(restored.resume)
    BY <1>3 DEF KeepsTally
  <2> HIDE DEF restored
  <2> DEFINE d == SkipIgnored(f, w, restored)
  <2>2. d \in Engines(n, q) /\ KeepsTally(restored, d)
    BY <1>3, <2>1, SkipIgnoredType, SkipIgnoredCounts
  <2> HIDE DEF d
  <2>3. KeepsTally(e, d)
    BY <1>3, <2>2, KeptOn
  <2> QED  BY <1>2, <2>2, <2>3 DEF d
<1> DEFINE x == [c EXCEPT !.cursor_start = NO_OFFSET]
           y == [c EXCEPT !.cursor_start = c.location, !.cursor_index = c.record_index,
                          !.cursor_end = NO_OFFSET]
<1>5. Position(f, w, e) = IF c.location = n THEN x ELSE y
  BY Zenon DEF Position, c, restored, x, y
<1> HIDE DEF c
<1>6. /\ SameTally(c, x) /\ x.cursor_start = NO_OFFSET
      /\ SameTally(c, y) /\ y.cursor_start = y.location
  BY <1>4 DEF SameTally, Engines
<1> HIDE DEF x, y
<1>7. KeepsTally(e, x) /\ KeepsTally(e, y)
  BY <1>4, <1>6, AlikeCounted
<1> QED  BY <1>5, <1>6, <1>7 DEF Positioned

-----------------------------------------------------------------------------
(* A record that is advanced to is where the engine is, or has been read,  *)
(* and the engine is where it ends.                                        *)
Reparses(f, w, e) == e.location = e.cursor_start \/ HasRead(f, w, e.cursor_start, e)

(* What comes of an operation from e: counted, and any record it finds can *)
(* be read again.                                                          *)
Passes(f, w, e, o) ==
    /\ Counts(w, e, o.engine)
    /\ o.tag = "record" => Reparses(f, w, o.engine)

LEMMA FoundOn ==
    ASSUME NEW f, NEW q \in Parsers, NEW w, Len(w) \in Nat, NEW e \in Engines(Len(w), q),
           NEW c \in Engines(Len(w), q), Tallied(w, e), Counts(w, e, c), NEW o,
           o.engine \in Engines(Len(w), q), Passes(f, w, c, o)
    PROVE  Passes(f, w, e, o)
<1> DEFINE d == o.engine
<1>1. d \in Engines(Len(w), q) /\ Counts(w, c, d)
  BY DEF Passes
<1> HIDE DEF d
<1>2. Counts(w, e, d)
  BY <1>1, CountedOn
<1> QED  BY <1>2 DEF Passes, d

LEMMA PausedCounts ==
    ASSUME NEW q \in Parsers, NEW n \in Nat, NEW e \in Engines(n, q), NEW s
    PROVE  KeepsTally(e, Paused(e, s))
<1> DEFINE r == [record_start |-> e.resume.record_start, scanned_to |-> s.scanned_to,
                 field_start |-> s.field_start, in_quotes |-> s.in_quotes, ignored |-> FALSE]
<1>1. GoesOnBehind(r)
  BY DEF GoesOnBehind
<1>2. Paused(e, s) = [e EXCEPT !.resume = r]
  BY DEF Paused
<1> HIDE DEF r
<1> QED  BY <1>1, <1>2 DEF KeepsTally, Engines

LEMMA CheckpointCounts ==
    ASSUME NEW f, NEW q \in Parsers, NEW w, NEW n \in Nat, NEW e, NEW start, NEW o \in Outs(n, q),
           Passes(f, w, e, o)
    PROVE  Passes(f, w, e, Checkpoint(w, start, o))
<1> DEFINE c == o.engine
           d == [c EXCEPT !.resume = Fresh(start)]
           p == [o EXCEPT !.engine = d]
<1>1. c \in Engines(n, q)
  BY DEF Outs
<1>2. Checkpoint(w, start, o) \in {o, p}
  BY DEF Checkpoint, Outs
<1>3. p.engine = d /\ p.tag = o.tag
  BY DEF Outs
<1>4. /\ d.location = c.location /\ d.line_base = c.line_base /\ d.cursor_start = c.cursor_start
      /\ d.folded_upto = c.folded_upto /\ d.folded_lines = c.folded_lines
      /\ d.expected = c.expected /\ GoesOnBehind(d.resume)
  BY <1>1, ResumesGoOn DEF Engines
<1>5. Counts(w, e, c) /\ (o.tag = "record" => Reparses(f, w, c))
  BY DEF Passes
<1> HIDE DEF c, d, p
<1>6. Counts(w, e, d) /\ (o.tag = "record" => Reparses(f, w, d))
  BY <1>4, <1>5 DEF Counts, Tallied, Reparses, HasRead
<1> QED  BY <1>2, <1>3, <1>6 DEF Passes

LEMMA TryWindowCounts ==
    ASSUME NEW f, "lf" \notin f.skips, NEW q \in Parsers, Suits(q, f), NEW w, Len(w) \in Nat,
           NEW e \in Engines(Len(w), q), Tallied(w, e), NEW owned \in BOOLEAN
    PROVE  Passes(f, w, e, TryWindow(f, w, e, owned))
<1> DEFINE n == Len(w)
           Ended(o) ==
               IF owned /\ o.tag = "record"
                 THEN [o EXCEPT !.terminated = @ \/ EndedOnTerminator(f, w, o.engine)]
                 ELSE [o EXCEPT !.engine.cursor_end =
                                   IF o.tag = "record" THEN o.engine.location ELSE @]
           Parsed(c, scan) ==
               IF c.resume.record_start = c.location /\ scan.verdict = "lacks"
                 THEN Nothing(Paused(c, scan))
                 ELSE Checkpoint(w, c.location, Ended(ParseRecord(f, w, c, owned)))
           PositionedAt(c) == IF Positioned(c) THEN Parsed(c, LacksScan(f, w, c)) ELSE Nothing(c)
           Onward(o) ==
               IF o.tag = "error" THEN o ELSE PositionedAt(Position(f, w, o.engine))
           Headed(o) == IF o.tag # "error" /\ (owned \/ o.engine.headers)
                          THEN Onward(Settle(f, w, o.engine)) ELSE o
           IsFine(c, o) == o.engine \in Engines(n, q) /\ Passes(f, w, c, o)
<1>0. ASSUME NEW c \in Engines(n, q), NEW d \in Engines(n, q), Counts(w, c, d)
      PROVE  IsFine(c, Nothing(d))
  <2>1. Nothing(d).engine = d /\ Nothing(d).tag = "none"
    BY DEF Nothing
  <2> QED  BY <1>0, <2>1 DEF Passes
<1>1. ASSUME NEW o \in Outs(n, q)
      PROVE  /\ Ended(o) \in Outs(n, q) /\ Ended(o).tag = o.tag
             /\ SameTally(o.engine, Ended(o).engine)
             /\ Ended(o).engine.cursor_start = o.engine.cursor_start
             /\ Ended(o).engine.expected = o.engine.expected
  <2>1. /\ o.engine \in Engines(n, q) /\ o.terminated \in BOOLEAN
        /\ EndedOnTerminator(f, w, o.engine) \in BOOLEAN
    BY DEF Outs, EndedOnTerminator
  <2> DEFINE last == IF o.tag = "record" THEN o.engine.location ELSE o.engine.cursor_end
             t == o.terminated \/ EndedOnTerminator(f, w, o.engine)
             d == [o.engine EXCEPT !.cursor_end = last]
  <2>2. last \in Int /\ t \in BOOLEAN
    BY SMTT(30), <2>1 DEF Engines
  <2>3. Ended(o) \in {[o EXCEPT !.terminated = t], [o EXCEPT !.engine = d]}
    BY <2>1 DEF Outs
  <2> HIDE DEF last, t, Ended
  <2>4. /\ d \in Engines(n, q) /\ d.cursor_start = o.engine.cursor_start
        /\ d.expected = o.engine.expected /\ SameTally(o.engine, d)
    BY <2>1, <2>2 DEF Engines, SameTally
  <2>5. SameTally(o.engine, o.engine)
    BY DEF SameTally
  <2> HIDE DEF d
  <2> QED  BY <2>1, <2>2, <2>3, <2>4, <2>5 DEF Outs
<1>2. ASSUME NEW c \in Engines(n, q), Tallied(w, c), Positioned(c), c.cursor_start = c.location,
             NEW scan \in Scans
      PROVE  IsFine(c, Parsed(c, scan))
  <2> DEFINE o == ParseRecord(f, w, c, owned)
             ended == Ended(o)
             paused == Paused(c, scan)
  <2>1. IsFine(c, Nothing(paused))
    <3>1. paused \in Engines(n, q) /\ KeepsTally(c, paused)
      BY PausedType, PausedCounts
    <3> HIDE DEF paused, IsFine
    <3>2. Counts(w, c, paused)
      BY <1>2, <3>1, KeptIsCounted
    <3> QED  BY <1>0, <3>1, <3>2
  <2>2. /\ o \in Outs(n, q) /\ o.engine.cursor_start = c.cursor_start
    BY ParseRecordType
  <2>3. Counts(w, c, o.engine) /\ (o.tag = "record" => HasRead(f, w, c.location, o.engine))
    BY <1>2, ParseRecordCounts
  <2> HIDE DEF o, Ended
  <2>4. /\ ended \in Outs(n, q) /\ ended.engine.cursor_start = c.cursor_start
        /\ ended.tag = o.tag /\ SameTally(o.engine, ended.engine)
        /\ ended.engine.expected = o.engine.expected
    BY <1>1, <2>2
  <2>5. c.location \in 0..n
    BY DEF Engines
  <2> HIDE DEF ended
  <2>6. Counts(w, c, ended.engine)
    BY <2>3, <2>4, AlikeCounted
  <2>7. Passes(f, w, c, ended)
    BY <1>2, <2>3, <2>4, <2>6 DEF Passes, Reparses, HasRead, SameTally
  <2> DEFINE p == Checkpoint(w, c.location, ended)
  <2>8. p \in Outs(n, q) /\ Passes(f, w, c, p)
    BY <2>4, <2>5, <2>7, CheckpointType, CheckpointCounts
  <2> HIDE DEF p
  <2>9. IsFine(c, p)
    BY <2>8 DEF Outs
  <2>10. Parsed(c, scan) = IF c.resume.record_start = c.location /\ scan.verdict = "lacks"
                            THEN Nothing(paused) ELSE p
    BY DEF ended, o, Ended, p
  <2> HIDE DEF Parsed, IsFine
  <2> QED  BY <2>1, <2>9, <2>10
<1> HIDE DEF Parsed
<1>3. ASSUME NEW c \in Engines(n, q), Tallied(w, c), Positioned(c) => c.cursor_start = c.location
      PROVE  IsFine(c, PositionedAt(c))
  <2>1. IsFine(c, Nothing(c))
    <3>1. Counts(w, c, c)
      BY <1>3, KeptByItself
    <3> HIDE DEF IsFine
    <3> QED  BY <1>0, <3>1
  <2> HIDE DEF IsFine
  <2>2. Positioned(c) => IsFine(c, Parsed(c, LacksScan(f, w, c)))
    BY <1>2, <1>3, LacksScanType
  <2> QED  BY <2>1, <2>2
<1> HIDE DEF PositionedAt
<1>9. ASSUME NEW c \in Engines(n, q), Tallied(w, c), NEW d \in Engines(n, q), Counts(w, c, d),
             NEW o, IsFine(d, o)
      PROVE  IsFine(c, o)
  BY <1>9, FoundOn
<1>4. ASSUME NEW o \in Outs(n, q), Tallied(w, o.engine)
      PROVE  IsFine(o.engine, Onward(o))
  <2> DEFINE c == o.engine
             d == Position(f, w, c)
  <2>1. c \in Engines(n, q)
    BY DEF Outs
  <2>2. GoesOnBehind(c.resume)
    BY <1>4 DEF Tallied
  <2>3. Counts(w, c, c)
    BY <1>4, <2>1, KeptByItself
  <2>4. o.tag = "error" => IsFine(c, o)
    BY <1>4, <2>1, <2>3 DEF Passes
  <2> HIDE DEF IsFine, c
  <2>5. /\ d \in Engines(n, q) /\ KeepsTally(c, d)
        /\ Positioned(d) => d.cursor_start = d.location
    BY <2>1, <2>2, PositionType, PositionCounts
  <2> HIDE DEF d
  <2>6. Tallied(w, c)
    BY <1>4 DEF c
  <2>7. Counts(w, c, d) /\ Tallied(w, d)
    BY <2>1, <2>5, <2>6, KeptIsCounted DEF Counts
  <2>8. IsFine(d, PositionedAt(d))
    BY <1>3, <2>5, <2>7
  <2>9. IsFine(c, PositionedAt(d))
    BY <1>9, <2>1, <2>5, <2>6, <2>7, <2>8
  <2> QED  BY <2>4, <2>9 DEF c, d
<1> HIDE DEF Onward
<1>5. ASSUME NEW o \in Outs(n, q), Counts(w, e, o.engine), o.tag # "record"
      PROVE  IsFine(e, Headed(o))
  <2> DEFINE c == o.engine
             s == Settle(f, w, c)
             d == s.engine
             x == Onward(s)
  <2>1. c \in Engines(n, q) /\ Counts(w, e, c) /\ Tallied(w, c)
    BY <1>5 DEF Outs, Counts
  <2>2. IsFine(e, o)
    BY <1>5, <2>1 DEF Passes
  <2> HIDE DEF c, IsFine
  <2>3. s \in Outs(n, q) /\ Counts(w, c, d)
    BY <2>1, SettleType, SettleCounts
  <2> HIDE DEF s
  <2>4. d \in Engines(n, q) /\ Tallied(w, d)
    BY <2>3 DEF Outs, Counts
  <2>5. IsFine(d, x)
    BY <1>4, <2>3, <2>4
  <2> HIDE DEF d, x
  <2>6. IsFine(c, x)
    BY <1>9, <2>1, <2>3, <2>4, <2>5
  <2>7. IsFine(e, x)
    BY <1>9, <2>1, <2>6
  <2> QED  BY <2>2, <2>7 DEF c, s, x
<1> HIDE DEF Headed, IsFine
<1>6. TryWindow(f, w, e, owned) =
         CASE e.failed -> ParserFailed(w, e)
           [] ~e.failed /\ owned -> Headed(Nothing(e))
           [] OTHER -> Headed(HeadersOfWindow(f, w, e))
  BY Zenon DEF TryWindow, Headed, Onward, PositionedAt, Parsed
<1>7. Counts(w, e, e)
  BY KeptByItself
<1>8. IsFine(e, ParserFailed(w, e))
  <2>1. ParserFailed(w, e).engine = e /\ ParserFailed(w, e).tag = "error"
    BY DEF ParserFailed, Failure
  <2> QED  BY <1>7, <2>1 DEF IsFine, Passes
<1>10. IsFine(e, Headed(Nothing(e)))
  <2>1. Nothing(e) \in Outs(n, q) /\ Nothing(e).engine = e /\ Nothing(e).tag = "none"
    BY NothingType
  <2> QED  BY <1>5, <1>7, <2>1
<1>11. IsFine(e, Headed(HeadersOfWindow(f, w, e)))
  <2>1. HeadersOfWindow(f, w, e) \in Outs(n, q) /\ HeadersOfWindow(f, w, e).tag # "record"
    BY HeadersType
  <2>2. Counts(w, e, HeadersOfWindow(f, w, e).engine)
    BY HeadersCounts
  <2> QED  BY <1>5, <2>1, <2>2
<1>12. IsFine(e, TryWindow(f, w, e, owned))
  BY <1>6, <1>8, <1>10, <1>11 DEF Engines
<1> QED  BY <1>12 DEF IsFine

-----------------------------------------------------------------------------
(* The same of what only the window has to be right about.                 *)
StaysTallied(w, e, o) == Tallied(w, o.engine) /\ o.engine.line_base = e.line_base
TellsOf(f, w, e, o) == StaysTallied(w, e, o) /\ (o.tag = "record" => Reparses(f, w, o.engine))

LEMMA PassesTells ==
    ASSUME NEW f, NEW w, NEW e, NEW o, Passes(f, w, e, o)
    PROVE  TellsOf(f, w, e, o)
BY DEF Passes, TellsOf, StaysTallied, Counts

LEMMA AdvanceCounts ==
    ASSUME NEW f, "lf" \notin f.skips, NEW q \in Parsers, Suits(q, f), NEW w, Len(w) \in Nat,
           NEW e \in Engines(Len(w), q), Tallied(w, e)
    PROVE  Passes(f, w, e, Advance(f, w, e))
<1> DEFINE n == Len(w)
           At(c) == Answers(c, IF Positioned(c) THEN "record" ELSE "done")
           Onward(o) == IF o.tag = "error" THEN Errs(o) ELSE At(Position(f, w, o.engine))
           Headed(o) == IF o.tag = "error" THEN Errs(o) ELSE Onward(Settle(f, w, o.engine))
           IsFine(c, o) == o.engine \in Engines(n, q) /\ Passes(f, w, c, o)
<1>1. ASSUME NEW c \in Engines(n, q), NEW o \in Outs(n, q), Counts(w, c, o.engine)
      PROVE  IsFine(c, Errs(o))
  <2>1. Errs(o).engine = o.engine /\ Errs(o).tag = "error" /\ o.engine \in Engines(n, q)
    BY AnswersAre DEF Outs
  <2> QED  BY <1>1, <2>1 DEF Passes
<1>2. ASSUME NEW c \in Engines(n, q), NEW d \in Engines(n, q), Counts(w, c, d),
             Positioned(d) => d.cursor_start = d.location
      PROVE  IsFine(c, At(d))
  <2> DEFINE t == IF Positioned(d) THEN "record" ELSE "done"
  <2>1. At(d).engine = d /\ At(d).tag = t
    BY AnswersAre
  <2> HIDE DEF At
  <2> QED  BY <1>2, <2>1 DEF Passes, Reparses
<1> HIDE DEF At
<1>3. ASSUME NEW o \in Outs(n, q), Tallied(w, o.engine)
      PROVE  IsFine(o.engine, Onward(o))
  <2> DEFINE c == o.engine
             d == Position(f, w, c)
  <2>1. c \in Engines(n, q)
    BY DEF Outs
  <2>2. GoesOnBehind(c.resume) /\ Counts(w, c, c)
    BY <1>3, <2>1, KeptByItself DEF Tallied
  <2>3. IsFine(c, Errs(o))
    BY <1>1, <2>1, <2>2
  <2> HIDE DEF IsFine, c
  <2>4. /\ d \in Engines(n, q) /\ KeepsTally(c, d)
        /\ Positioned(d) => d.cursor_start = d.location
    BY <2>1, <2>2, PositionType, PositionCounts
  <2> HIDE DEF d
  <2>5. Tallied(w, c)
    BY <1>3 DEF c
  <2>6. Counts(w, c, d)
    BY <2>1, <2>4, <2>5, KeptIsCounted
  <2>7. IsFine(c, At(d))
    BY <1>2, <2>1, <2>4, <2>6
  <2> QED  BY <2>3, <2>7 DEF c, d
<1> HIDE DEF Onward
<1>4. ASSUME NEW c \in Engines(n, q), Tallied(w, c), NEW d \in Engines(n, q), Counts(w, c, d),
             NEW o, IsFine(d, o)
      PROVE  IsFine(c, o)
  BY <1>4, FoundOn
<1>5. ASSUME NEW o \in Outs(n, q), Counts(w, e, o.engine)
      PROVE  IsFine(e, Headed(o))
  <2> DEFINE c == o.engine
             s == Settle(f, w, c)
             d == s.engine
             x == Onward(s)
  <2>1. c \in Engines(n, q) /\ Counts(w, e, c) /\ Tallied(w, c)
    BY <1>5 DEF Outs, Counts
  <2>2. IsFine(e, Errs(o))
    BY <1>1, <1>5
  <2> HIDE DEF c, IsFine
  <2>3. s \in Outs(n, q) /\ Counts(w, c, d)
    BY <2>1, SettleType, SettleCounts
  <2> HIDE DEF s
  <2>4. d \in Engines(n, q) /\ Tallied(w, d)
    BY <2>3 DEF Outs, Counts
  <2>5. IsFine(d, x)
    BY <1>3, <2>3, <2>4
  <2> HIDE DEF d, x
  <2>6. IsFine(c, x)
    BY <1>4, <2>1, <2>3, <2>4, <2>5
  <2>7. IsFine(e, x)
    BY <1>4, <2>1, <2>6
  <2> QED  BY <2>2, <2>7 DEF c, s, x
<1> HIDE DEF Headed, IsFine
<1>6. Advance(f, w, e) = IF e.failed THEN Errs(ParserFailed(w, e)) ELSE Headed(HeadersOfInput(f, w, e))
  BY Zenon DEF Advance, Headed, Onward, At
<1>7. IsFine(e, Errs(ParserFailed(w, e)))
  <2>1. ParserFailed(w, e).engine = e
    BY DEF ParserFailed, Failure
  <2>2. ParserFailed(w, e) \in Outs(n, q)
    BY ParserFailedType
  <2>3. Counts(w, e, e)
    BY KeptByItself
  <2> QED  BY <1>1, <2>1, <2>2, <2>3
<1>8. IsFine(e, Headed(HeadersOfInput(f, w, e)))
  BY <1>5, HeadersType, HeadersCounts
<1>9. IsFine(e, Advance(f, w, e))
  BY <1>6, <1>7, <1>8
<1> QED  BY <1>9 DEF IsFine

(* A record that is read again is not counted again, and not refused.      *)
ReadsAgain(f, w, q, e, o) ==
    /\ StaysTallied(w, e, o)
    /\ o.engine \in Engines(Len(w), q) /\ o.engine.cursor_start = e.cursor_start
    /\ o.tag = "record" => HasRead(f, w, e.cursor_start, o.engine)

LEMMA ReadAgainCounts ==
    ASSUME NEW f, "lf" \notin f.skips, NEW q \in Parsers, Suits(q, f), NEW w, Len(w) \in Nat,
           NEW e \in Engines(Len(w), q), Tallied(w, e), Positioned(e), Reparses(f, w, e), NEW owned
    PROVE  ReadsAgain(f, w, q, e, ParseRecord(f, w, RewindToCurrent(e), owned))
<1> DEFINE n == Len(w)
           number == IF e.location # e.cursor_start THEN e.cursor_index ELSE e.record_index
           p == e.cursor_start
           c == RewindToCurrent(e)
           o == ParseRecord(f, w, c, owned)
<1>1. c \in Engines(n, q) /\ c.cursor_start = p
  BY RewindType
<1>2. /\ c.location = p /\ c.line_base = e.line_base /\ c.resume = e.resume
      /\ c.folded_upto = e.folded_upto /\ c.folded_lines = e.folded_lines
      /\ c.expected = e.expected
  <2>1. c = [e EXCEPT !.location = p, !.record_index = number]
    BY DEF RewindToCurrent, Engines
  <2> HIDE DEF number, c
  <2> QED  BY <2>1 DEF Engines
<1>3. /\ e.location \in 0..n /\ p \in 0..n /\ e.folded_upto \in Nat /\ e.folded_upto <= e.location
  BY DEF Engines, Positioned, Tallied
<1> HIDE DEF c
<1>4. o \in Outs(n, q) /\ o.engine.cursor_start = p
  BY <1>1, ParseRecordType
<1>5. CASE e.folded_upto <= p
  <2>1. Tallied(w, c)
    BY <1>2, <1>5 DEF Tallied
  <2>2. Counts(w, c, o.engine) /\ (o.tag = "record" => HasRead(f, w, p, o.engine))
    BY <1>1, <1>2, <2>1, ParseRecordCounts
  <2> HIDE DEF o
  <2>3. StaysTallied(w, e, o) /\ o.engine \in Engines(n, q)
    BY <1>2, <1>4, <2>2 DEF StaysTallied, Counts, Outs
  <2> QED  BY <1>4, <2>2, <2>3 DEF ReadsAgain, o, c
<1>6. CASE ~(e.folded_upto <= p)
  <2> DEFINE record == PhysicalRecord(f, w, c.location)
             parsed == [c EXCEPT !.location = record.at]
             passed == [parsed EXCEPT !.record_index = @ + 1,
                                      !.expected = IF f.match_first THEN record.fields ELSE @]
  <2>1. HasRead(f, w, p, e)
    BY <1>3, <1>6 DEF Reparses
  <2>2. /\ record.verdict = "ok" /\ record.at = e.location
        /\ f.match_first => c.expected = record.fields
    BY <1>2, <2>1 DEF HasRead
  <2>3. Fold(f, c, record, owned) = c
    BY <1>2, <1>6, <1>3 DEF Fold
  <2>4. parsed \in Engines(n, q) /\ parsed.expected = c.expected /\ parsed.location = e.location
        /\ parsed.line_base = c.line_base /\ parsed.resume = c.resume
        /\ parsed.folded_upto = c.folded_upto /\ parsed.folded_lines = c.folded_lines
    <3> HIDE DEF record
    <3> QED  BY <1>1, <1>3, <2>2 DEF Engines
  <2>5. o = Record(passed, record.terminated)
    <3> HIDE DEF passed
    <3>1. ~(f.match_first /\ c.expected \notin {0, record.fields})
      BY <2>2
    <3> QED  BY <2>2, <2>3, <3>1 DEF ParseRecord, passed
  <2>6. o.engine = passed
    BY <2>5 DEF Record
  <2> HIDE DEF record, parsed
  <2>7. /\ passed.location = e.location /\ passed.line_base = e.line_base
        /\ passed.resume = e.resume
        /\ passed.folded_upto = e.folded_upto /\ passed.folded_lines = e.folded_lines
        /\ f.match_first => passed.expected = record.fields
    BY <1>2, <2>4 DEF Engines
  <2> HIDE DEF passed, o
  <2>8. StaysTallied(w, e, o) /\ HasRead(f, w, p, o.engine)
    BY <1>2, <2>2, <2>6, <2>7 DEF StaysTallied, Tallied, HasRead, record
  <2>9. o.engine \in Engines(n, q)
    BY <1>4 DEF Outs
  <2> QED  BY <1>4, <2>8, <2>9 DEF ReadsAgain, o, c
<1> QED  BY <1>5, <1>6

LEMMA RecordIntoCounts ==
    ASSUME NEW f, "lf" \notin f.skips, NEW q \in Parsers, Suits(q, f), NEW w, Len(w) \in Nat,
           NEW e \in Engines(Len(w), q), Tallied(w, e), Positioned(e), Reparses(f, w, e)
    PROVE  StaysTallied(w, e, RecordInto(f, w, e))
<1> DEFINE o == ParseRecord(f, w, RewindToCurrent(e), TRUE)
<1>1. ReadsAgain(f, w, q, e, o)
  BY ReadAgainCounts
<1> QED  BY <1>1 DEF RecordInto, ReadsAgain

LEMMA MaterializeCounts ==
    ASSUME NEW f, "lf" \notin f.skips, NEW q \in Parsers, Suits(q, f), NEW w, Len(w) \in Nat,
           NEW e \in Engines(Len(w), q), Tallied(w, e), Positioned(e), Reparses(f, w, e)
    PROVE  TellsOf(f, w, e, Materialize(f, w, e))
<1> DEFINE n == Len(w)
           o == ParseRecord(f, w, RewindToCurrent(e), FALSE)
           c == o.engine
           d == [c EXCEPT !.cursor_end = c.location]
           ended == IF o.tag = "error" THEN o
                    ELSE [o EXCEPT !.engine.cursor_end = o.engine.location]
<1>1. /\ StaysTallied(w, e, o) /\ c \in Engines(n, q) /\ c.cursor_start = e.cursor_start
      /\ o.tag = "record" => HasRead(f, w, e.cursor_start, c)
  <2>1. ReadsAgain(f, w, q, e, o)
    BY ReadAgainCounts
  <2> HIDE DEF o
  <2> QED  BY <2>1 DEF ReadsAgain
<1>2. o \in Outs(n, q)
  <2>1. RewindToCurrent(e) \in Engines(n, q)
    BY RewindType
  <2> QED  BY <2>1, ParseRecordType
<1>3. Materialize(f, w, e) = IF e.cursor_end # NO_OFFSET THEN Record(e, FALSE) ELSE ended
  BY Zenon DEF Materialize, ended, o
<1> HIDE DEF o
<1>4. ended \in {o, [o EXCEPT !.engine = d]} /\ [o EXCEPT !.engine = d].engine = d
      /\ [o EXCEPT !.engine = d].tag = o.tag
  BY <1>2 DEF Outs
<1>5. TellsOf(f, w, e, o)
  BY <1>1 DEF TellsOf, Reparses
<1> HIDE DEF ended
<1>6. SameTally(c, d) /\ d.cursor_start = c.cursor_start /\ d.expected = c.expected
  <2> HIDE DEF c
  <2> QED  BY <1>1 DEF SameTally, Engines
<1>7. TellsOf(f, w, e, [o EXCEPT !.engine = d])
  <2> HIDE DEF d
  <2> QED  BY <1>4, <1>5, <1>6 DEF TellsOf, StaysTallied, Tallied, SameTally, Reparses, HasRead
<1>8. TellsOf(f, w, e, Record(e, FALSE))
  BY DEF Record, TellsOf, StaysTallied
<1> HIDE DEF d
<1> QED  BY <1>3, <1>4, <1>5, <1>7, <1>8

-----------------------------------------------------------------------------
(* What is given up had counted nothing of what is kept.                   *)
LEMMA RestoredCounts ==
    ASSUME NEW q \in Parsers, NEW w, NEW n \in Nat, NEW saved \in Engines(n, q), NEW e \in Engines(n, q),
           Tallied(w, saved), Counts(w, saved, e)
    PROVE  /\ Counts(w, saved, RestoreCursor(saved, e))
           /\ Counts(w, saved, RestoreChunkCursor(saved, e))
<1> DEFINE upto == Min({e.folded_upto, saved.location})
           c == RestoreCursor(saved, e)
           d == RestoreChunkCursor(saved, e)
<1>1. /\ e.folded_upto \in Nat /\ e.folded_upto \in Int
      /\ saved.location \in Nat /\ saved.location \in Int /\ saved.folded_upto \in Nat
  BY DEF Engines
<1>2. upto = saved.folded_upto
  <2>1. /\ upto \in {e.folded_upto, saved.location}
        /\ upto <= e.folded_upto /\ upto <= saved.location
    BY ONLY <1>1, MinOfTwo
  <2>2. /\ saved.folded_upto <= saved.location
        /\ e.folded_upto # saved.folded_upto =>
              saved.folded_upto = saved.location /\ saved.location <= e.folded_upto
    BY DEF Tallied, Counts
  <2> HIDE DEF upto
  <2> QED  BY <1>1, <2>1, <2>2
<1>3. c \in Engines(n, q) /\ d \in Engines(n, q)
  BY RestoredType
<1>4. /\ c.location = saved.location /\ c.line_base = saved.line_base /\ c.resume = e.resume
      /\ c.folded_upto = saved.folded_upto /\ c.folded_lines = saved.folded_lines
  BY DEF RestoreCursor, Engines
<1>5. /\ d.location = saved.location /\ d.line_base = e.line_base /\ d.resume = e.resume
      /\ d.folded_upto = upto /\ d.folded_lines = saved.folded_lines
  <2>1. d = [e EXCEPT !.location = saved.location, !.record_index = saved.record_index,
                      !.folded_upto = upto, !.folded_lines = saved.folded_lines,
                      !.expected = saved.expected, !.headers = saved.headers,
                      !.cursor_start = NO_OFFSET, !.cursor_end = NO_OFFSET, !.failed = FALSE]
    BY DEF RestoreChunkCursor, Engines
  <2> HIDE DEF d, upto
  <2> QED  BY <2>1 DEF Engines
<1>6. GoesOnBehind(e.resume) /\ e.line_base = saved.line_base
  BY DEF Counts, Tallied
<1> HIDE DEF c, d, upto
<1>7. KeepsTally(saved, c) /\ KeepsTally(saved, d)
  BY <1>1, <1>2, <1>4, <1>5, <1>6 DEF KeepsTally
<1>8. Counts(w, saved, c) /\ Counts(w, saved, d)
  BY <1>3, <1>7, KeptIsCounted
<1> QED  BY <1>8 DEF c, d

LEMMA ReleaseCounts ==
    ASSUME NEW q \in Parsers, NEW n \in Nat, NEW e \in Engines(n, q)
    PROVE  SameTally(e, Release(e))
BY DEF SameTally, Release, Engines

(* The operations of the front ends.                                       *)
LEMMA AdvanceWindowCounts ==
    ASSUME NEW f, "lf" \notin f.skips, NEW q \in Parsers, Suits(q, f), NEW w, Len(w) \in Nat,
           NEW e \in Engines(Len(w), q), Tallied(w, e), NEW atEnd
    PROVE  /\ TellsOf(f, w, e, AdvanceWindow(f, w, e, atEnd))
           /\ TellsOf(f, w, e, AdvanceWindowLazily(f, w, e, atEnd))
           /\ TellsOf(f, w, e, AdvanceWindowEagerly(f, w, e, atEnd))
<1> DEFINE n == Len(w)
           o == TryWindow(f, w, e, FALSE)
           a == Advance(f, w, e)
           c == RestoreCursor(e, o.engine)
           d == RestoreChunkCursor(e, o.engine)
           b == Advance(f, w, c)
<1>1. Passes(f, w, e, o) /\ Passes(f, w, e, a)
  BY TryWindowCounts, AdvanceCounts
<1>2. o \in Outs(n, q) /\ a.engine \in Engines(n, q) /\ (a.tag = "record" => Positioned(a.engine))
  BY TryWindowType, AdvanceType DEF Found, Shows, Stays
<1> HIDE DEF o, a
<1>3. o.engine \in Engines(n, q)
  BY <1>2 DEF Outs
<1>4. c \in Engines(n, q) /\ Counts(w, e, c) /\ Counts(w, e, d)
  BY <1>1, <1>3, RestoredType, RestoredCounts DEF Passes
<1> HIDE DEF c, d
<1>5. Tallied(w, c) /\ c.line_base = e.line_base
  BY <1>4 DEF Counts
<1>6. Passes(f, w, c, b)
  BY <1>4, <1>5, AdvanceCounts
<1> HIDE DEF b
<1>7. TellsOf(f, w, e, a) /\ TellsOf(f, w, e, b)
  BY <1>1, <1>5, <1>6, PassesTells DEF TellsOf, StaysTallied
<1>8. TellsOf(f, w, e, Errs(o))
  BY <1>1, AnswersAre DEF Passes, Counts, TellsOf, StaysTallied
<1>9. o.tag = "record" => TellsOf(f, w, e, Answers(o.engine, "record"))
  BY <1>1, AnswersAre DEF Passes, Counts, TellsOf, StaysTallied
<1>10. TellsOf(f, w, e, Answers(c, "more")) /\ TellsOf(f, w, e, Answers(d, "more"))
  BY <1>4, AnswersAre DEF Counts, TellsOf, StaysTallied
<1>11. TellsOf(f, w, e, AdvanceWindowLazily(f, w, e, atEnd))
  <2> DEFINE tried == CASE Whole(w, o) -> Answers(o.engine, "record")
                        [] Certain(w, o) -> b
                        [] OTHER -> Answers(c, "more")
  <2>1. AdvanceWindowLazily(f, w, e, atEnd) = IF atEnd THEN a ELSE tried
    BY Zenon DEF AdvanceWindowLazily, tried, o, a, b, c
  <2>2. TellsOf(f, w, e, tried)
    BY <1>7, <1>9, <1>10 DEF Whole, Certain
  <2> HIDE DEF tried
  <2> QED  BY <1>7, <2>1, <2>2
<1>12. TellsOf(f, w, e, AdvanceWindow(f, w, e, atEnd))
  <2> DEFINE tried == CASE Whole(w, o) -> Answers(o.engine, "record")
                        [] Certain(w, o) -> Errs(o)
                        [] OTHER -> Answers(d, "more")
  <2>1. AdvanceWindow(f, w, e, atEnd) = IF atEnd THEN a ELSE tried
    BY Zenon DEF AdvanceWindow, tried, o, a, d
  <2>2. TellsOf(f, w, e, tried)
    BY <1>8, <1>9, <1>10 DEF Whole, Certain
  <2> HIDE DEF tried
  <2> QED  BY <1>7, <2>1, <2>2
<1>13. TellsOf(f, w, e, AdvanceWindowEagerly(f, w, e, atEnd))
  <2> DEFINE tried == CASE Whole(w, o) -> Answers(o.engine, "record")
                        [] Certain(w, o) -> Errs(o)
                        [] OTHER -> Answers(c, "more")
             Parsed(x) == IF x.tag = "error" THEN Errs(x) ELSE Answers(x.engine, "record")
             last == IF a.tag = "record" THEN Parsed(Materialize(f, w, a.engine)) ELSE a
  <2>1. AdvanceWindowEagerly(f, w, e, atEnd) = IF atEnd THEN last ELSE tried
    BY Zenon DEF AdvanceWindowEagerly, tried, last, Parsed, o, a, c
  <2>2. TellsOf(f, w, e, tried)
    BY <1>8, <1>9, <1>10 DEF Whole, Certain
  <2>3. a.tag = "record" => TellsOf(f, w, e, Parsed(Materialize(f, w, a.engine)))
    <3>1. SUFFICES ASSUME a.tag = "record"
                   PROVE  TellsOf(f, w, e, Parsed(Materialize(f, w, a.engine)))
      OBVIOUS
    <3> DEFINE y == a.engine
               x == Materialize(f, w, y)
    <3>2. y \in Engines(n, q) /\ Positioned(y)
      BY <1>2, <3>1
    <3>3. Tallied(w, y) /\ y.line_base = e.line_base /\ Reparses(f, w, y)
      BY <1>7, <3>1 DEF TellsOf, StaysTallied
    <3> HIDE DEF y
    <3>4. TellsOf(f, w, y, x) /\ x.tag \in {"record", "error"}
      BY <3>2, <3>3, MaterializeCounts, MaterializeType
    <3> HIDE DEF x
    <3>5. TellsOf(f, w, e, Parsed(x))
      BY <3>3, <3>4, AnswersAre DEF TellsOf, StaysTallied
    <3> HIDE DEF Parsed
    <3> QED  BY <3>5 DEF x, y
  <2> HIDE DEF Parsed, tried
  <2> QED  BY <1>7, <2>1, <2>2, <2>3
<1> QED  BY <1>11, <1>12, <1>13

LEMMA ReadWindowOwnedCounts ==
    ASSUME NEW f, "lf" \notin f.skips, NEW q \in Parsers, Suits(q, f), NEW w, Len(w) \in Nat,
           NEW e \in Engines(Len(w), q), Tallied(w, e), NEW atEnd
    PROVE  StaysTallied(w, e, ReadWindowOwned(f, w, e, atEnd))
<1> DEFINE n == Len(w)
           o == TryWindow(f, w, e, TRUE)
           a == Advance(f, w, e)
           d == RestoreChunkCursor(e, o.engine)
           tried == CASE Whole(w, o) -> Owned(o.engine)
                      [] Certain(w, o) -> Errs(o)
                      [] OTHER -> Answers(d, "more")
           Parsed(x) == IF x.tag = "error" THEN Errs(x) ELSE Owned(x.engine)
           last == IF a.tag = "record" THEN Parsed(ParseRecord(f, w, a.engine, TRUE)) ELSE a
<1>1. Passes(f, w, e, o) /\ Passes(f, w, e, a)
  BY TryWindowCounts, AdvanceCounts
<1>2. o \in Outs(n, q) /\ a.engine \in Engines(n, q)
  BY TryWindowType, AdvanceType DEF Found, Shows, Stays
<1>3. ReadWindowOwned(f, w, e, atEnd) = IF atEnd THEN last ELSE tried
  BY Zenon DEF ReadWindowOwned, tried, last, Parsed, o, a, d
<1> HIDE DEF o, a
<1>4. o.engine \in Engines(n, q)
  BY <1>2 DEF Outs
<1>5. Counts(w, e, o.engine) /\ Counts(w, e, a.engine) /\ Counts(w, e, d)
  BY <1>1, <1>4, RestoredCounts DEF Passes
<1> HIDE DEF d
<1>6. ASSUME NEW c \in Engines(n, q), Tallied(w, c), c.line_base = e.line_base
      PROVE  StaysTallied(w, e, Owned(c))
  <2> DEFINE x == Release(c)
  <2>1. SameTally(c, x)
    BY ReleaseCounts
  <2>2. Owned(c).engine = x
    BY AnswersAre
  <2> HIDE DEF x
  <2> QED  BY <1>6, <2>1, <2>2 DEF StaysTallied, SameTally, Tallied
<1>7. /\ StaysTallied(w, e, a) /\ StaysTallied(w, e, Errs(o))
      /\ StaysTallied(w, e, Answers(d, "more")) /\ StaysTallied(w, e, Owned(o.engine))
  BY <1>4, <1>5, <1>6, AnswersAre DEF StaysTallied, Counts
<1>8. StaysTallied(w, e, tried)
  BY <1>7
<1>9. StaysTallied(w, e, last)
  <2> DEFINE y == a.engine
             x == ParseRecord(f, w, y, TRUE)
             c == x.engine
  <2>1. y \in Engines(n, q) /\ Tallied(w, y) /\ y.line_base = e.line_base
    BY <1>2, <1>5 DEF Counts
  <2> HIDE DEF y
  <2>2. x \in Outs(n, q) /\ Counts(w, y, x.engine)
    BY <2>1, ParseRecordType, ParseRecordCounts
  <2> HIDE DEF x
  <2>3. c \in Engines(n, q) /\ Tallied(w, c) /\ c.line_base = e.line_base
    BY <2>1, <2>2 DEF Outs, Counts
  <2>4. StaysTallied(w, e, Errs(x)) /\ StaysTallied(w, e, Owned(c))
    BY <1>6, <2>3, AnswersAre DEF StaysTallied
  <2>5. StaysTallied(w, e, Parsed(x))
    BY <2>4
  <2> HIDE DEF Parsed
  <2> QED  BY <1>7, <2>5 DEF x, y
<1> HIDE DEF last, tried
<1> QED  BY <1>3, <1>8, <1>9

LEMMA HeadersWindowCounts ==
    ASSUME NEW f, "lf" \notin f.skips, NEW q \in Parsers, Suits(q, f), NEW w, Len(w) \in Nat,
           NEW e \in Engines(Len(w), q), Tallied(w, e), NEW atEnd
    PROVE  StaysTallied(w, e, HeadersWindow(f, w, e, atEnd))
<1> DEFINE n == Len(w)
           o == IF atEnd THEN HeadersOfInput(f, w, e) ELSE HeadersOfWindow(f, w, e)
           c == KnowHeaders(o.engine)
           d == RestoreCursor(e, o.engine)
           Tried(x) ==
               CASE x.tag = "error" /\ (atEnd \/ Certain(w, x)) ->
                      Errs([x EXCEPT !.engine = KnowHeaders(@)])
                 [] x.tag # "error" /\ (atEnd \/ x.engine.headers) ->
                      Answers(KnowHeaders(x.engine), "record")
                 [] OTHER -> Answers(RestoreCursor(e, x.engine), "more")
<1>1. o \in Outs(n, q) /\ Counts(w, e, o.engine)
  BY HeadersType, HeadersCounts
<1>2. HeadersWindow(f, w, e, atEnd) = Tried(o)
  BY Zenon DEF HeadersWindow, o, Tried
<1> HIDE DEF o
<1>3. o.engine \in Engines(n, q)
  BY <1>1 DEF Outs
<1>4. SameTally(o.engine, c) /\ Counts(w, e, d)
  BY <1>1, <1>3, KnowHeadersCounts, RestoredCounts
<1>5. [o EXCEPT !.engine = KnowHeaders(@)].engine = c
  BY <1>1 DEF Outs
<1> HIDE DEF c, d
<1>6. Counts(w, e, c)
  BY <1>1, <1>4, AlikeCounted
<1>7. /\ StaysTallied(w, e, Errs([o EXCEPT !.engine = KnowHeaders(@)]))
      /\ StaysTallied(w, e, Answers(c, "record")) /\ StaysTallied(w, e, Answers(d, "more"))
  <2>1. Tallied(w, c) /\ Tallied(w, d) /\ c.line_base = e.line_base /\ d.line_base = e.line_base
    BY <1>4, <1>6 DEF Counts
  <2> DEFINE y == [o EXCEPT !.engine = KnowHeaders(@)]
  <2>2. y.engine = c
    BY <1>5
  <2> HIDE DEF y
  <2>3. StaysTallied(w, e, Errs(y))
    BY <2>1, <2>2, AnswersAre DEF StaysTallied
  <2>4. StaysTallied(w, e, Answers(c, "record")) /\ StaysTallied(w, e, Answers(d, "more"))
    BY <2>1, AnswersAre DEF StaysTallied
  <2> QED  BY <2>3, <2>4 DEF y
<1>8. StaysTallied(w, e, Tried(o))
  BY <1>7 DEF c, d
<1> QED  BY <1>2, <1>8

(* An engine that has counted nothing, and one that is moved on.           *)
LEMMA NewCounts ==
    ASSUME NEW w, NEW e, e.folded_upto = 0, e.folded_lines = 0, e.location \in Nat,
           GoesOnBehind(e.resume)
    PROVE  Tallied(w, e)
<1>1. Feeds(w, 0, 0) = 0
  BY FeedsOfNothing
<1> QED  BY <1>1 DEF Tallied

LEMMA MovedOnCounts ==
    ASSUME NEW q \in Parsers, NEW n \in Nat, NEW w, NEW e \in Engines(n, q), Tallied(w, e)
    PROVE  /\ Tallied(w, SkipDetectedBom(w, e)) /\ SkipDetectedBom(w, e).line_base = e.line_base
           /\ \A bytes \in Nat : \A records :
                 /\ Tallied(w, SkipRecords(e, bytes, records))
                 /\ SkipRecords(e, bytes, records).line_base = e.line_base
<1>1. e.location \in Nat /\ e.folded_upto \in Nat
  BY DEF Engines
<1>2. Tallied(w, SkipDetectedBom(w, e)) /\ SkipDetectedBom(w, e).line_base = e.line_base
  <2> DEFINE c == [e EXCEPT !.location = 3]
  <2>1. c.location = 3 /\ c.line_base = e.line_base /\ c.resume = e.resume
        /\ c.folded_upto = e.folded_upto /\ c.folded_lines = e.folded_lines
    BY DEF Engines
  <2>2. SkipDetectedBom(w, e) = e \/ (e.location = 0 /\ SkipDetectedBom(w, e) = c)
    BY DEF SkipDetectedBom
  <2> HIDE DEF c
  <2>3. e.location = 0 => Tallied(w, c)
    BY <1>1, <2>1 DEF Tallied
  <2> QED  BY <2>1, <2>2, <2>3
<1>3. ASSUME NEW bytes \in Nat, NEW records
      PROVE  /\ Tallied(w, SkipRecords(e, bytes, records))
             /\ SkipRecords(e, bytes, records).line_base = e.line_base
  <2> DEFINE at == e.location + bytes
             number == e.record_index + records
             c == [e EXCEPT !.location = at, !.record_index = number,
                            !.cursor_start = NO_OFFSET, !.cursor_end = NO_OFFSET, !.resume = Unset]
  <2>1. SkipRecords(e, bytes, records) = c
    BY DEF SkipRecords, Engines
  <2>2. e.folded_upto <= at
    BY <1>1 DEF Tallied
  <2> HIDE DEF at, number
  <2>3. c.location = at /\ c.line_base = e.line_base /\ c.resume = Unset
        /\ c.folded_upto = e.folded_upto /\ c.folded_lines = e.folded_lines
    BY DEF Engines
  <2> HIDE DEF c
  <2> QED  BY <2>1, <2>2, <2>3, ResumesGoOn DEF Tallied
<1> QED  BY <1>2, <1>3

-----------------------------------------------------------------------------
(* When bytes leave the window their lines are in line_base, and the tally *)
(* is of what is left of those it covered.                                 *)
LEMMA ShiftResumeGoesOn ==
    ASSUME NEW q \in Parsers, NEW n \in Nat, NEW by \in 0..n, NEW r \in Resumes(n, q),
           GoesOnBehind(r)
    PROVE  GoesOnBehind(ShiftResume(r, by))
<1> DEFINE left == Max({0, r.scanned_to - by})
           shifted == [r EXCEPT !.record_start = @ - by, !.scanned_to = @ - by,
                                !.field_start = @ - by]
<1>1. r.record_start \in Nat /\ r.scanned_to \in Nat /\ r.field_start \in Nat
  BY StartsAre DEF Resumes
<1>2. GoesOnBehind(Ignored(0, left))
  <2>1. 0 \in Int /\ r.scanned_to - by \in Int
    BY <1>1
  <2>2. 0 <= left
    BY ONLY <2>1, MaxOfTwo
  <2> QED  BY <2>2, ResumesGoOn
<1>3. GoesOnBehind(shifted)
  <2> DEFINE a == r.record_start - by
             b == r.scanned_to - by
             c == r.field_start - by
  <2>1. r.ignored => a <= b
    BY <1>1 DEF GoesOnBehind
  <2>2. shifted = [r EXCEPT !.record_start = a, !.scanned_to = b, !.field_start = c]
    BY DEF Resumes
  <2> HIDE DEF a, b, c, shifted
  <2>3. shifted.ignored = r.ignored /\ shifted.record_start = a /\ shifted.scanned_to = b
    BY <2>2 DEF Resumes
  <2> QED  BY <2>1, <2>3 DEF GoesOnBehind
<1>4. GoesOnBehind(Unset)
  BY ResumesGoOn
<1>5. ShiftResume(r, by) \in {r, Ignored(0, left), shifted, Unset}
  BY DEF ShiftResume
<1> HIDE DEF left, shifted
<1> QED  BY <1>2, <1>3, <1>4, <1>5

LeavesBehind(w, e, by, c) ==
    /\ c.line_base = e.line_base + Feeds(w, 0, by)
    /\ c.folded_upto \in Nat /\ c.folded_upto <= c.location
    /\ c.location \in Nat /\ by + c.location <= Len(w)
    /\ c.folded_lines = Feeds(w, by, by + c.folded_upto)
    /\ GoesOnBehind(c.resume)

LEMMA ShiftCounts ==
    ASSUME NEW q \in Parsers, NEW w, Len(w) \in Nat, NEW by \in 0..Len(w),
           NEW e \in Engines(Len(w), q), Tallied(w, e)
    PROVE  LeavesBehind(w, e, by, ShiftWindow(w, e, by))
<1> DEFINE n == Len(w)
           c == ShiftWindow(w, e, by)
           u == e.folded_upto
           tallied == u >= by /\ u <= n
           overshot == Feeds(w, by, u)
           left == Max({0, e.location - by})
           counted == Max({0, e.folded_lines - overshot})
           left_behind == Feeds(w, 0, by)
           base == e.line_base + (IF tallied THEN counted ELSE left_behind)
           Shifted(at) == IF at = NO_OFFSET THEN at ELSE at - by
           resume == ShiftResume(e.resume, by)
<1>1. /\ e.location \in 0..n /\ u \in Nat /\ e.folded_lines \in Nat /\ by \in Nat /\ by \in Int
      /\ u <= e.location /\ u <= n /\ e.line_base \in Nat /\ e.resume \in Resumes(n, q)
      /\ e.folded_lines = Feeds(w, 0, u) /\ GoesOnBehind(e.resume)
  BY DEF Engines, Tallied
<1>2. left_behind \in Nat
  BY <1>1, FeedsType
<1>3. GoesOnBehind(resume)
  BY <1>1, ShiftResumeGoesOn
<1>4. /\ left \in Nat /\ by + left <= n
      /\ u >= by => u - by <= left
  <2>1. 0 \in Int /\ e.location - by \in Int
    BY <1>1
  <2>2. left \in {0, e.location - by} /\ left >= 0 /\ left >= e.location - by
    BY ONLY <2>1, MaxOfTwo
  <2> HIDE DEF left
  <2> QED  BY <1>1, <2>1, <2>2
<1>5. tallied => counted = left_behind
  <2>1. SUFFICES ASSUME tallied PROVE counted = left_behind
    OBVIOUS
  <2>2. Feeds(w, 0, u) = left_behind + overshot /\ overshot \in Nat
    <3>1. 0 \in Int /\ u \in Int /\ 0 <= by /\ by <= u
      BY <1>1, <2>1
    <3> QED  BY <1>1, <3>1, FeedsSum, FeedsType
  <2> HIDE DEF overshot, left_behind
  <2>3. 0 \in Int /\ e.folded_lines - overshot \in Int /\ e.folded_lines - overshot = left_behind
    BY <1>1, <1>2, <2>2
  <2>4. counted \in {0, e.folded_lines - overshot} /\ counted >= 0
        /\ counted >= e.folded_lines - overshot
    BY ONLY <2>3, MaxOfTwo
  <2> HIDE DEF counted
  <2> QED  BY <1>2, <2>3, <2>4
<1>6. CASE by = 0
  <2>1. c = e
    BY <1>6 DEF ShiftWindow
  <2>2. Feeds(w, 0, 0) = 0
    BY FeedsOfNothing
  <2>3. e.line_base = e.line_base + Feeds(w, 0, by) /\ by + u = u /\ by + e.location <= n
    BY <1>1, <1>6, <2>2
  <2> HIDE DEF c
  <2> QED  BY <1>1, <1>6, <2>1, <2>3 DEF LeavesBehind, c
<1>7. CASE by # 0
  <2> DEFINE d == [e EXCEPT
                     !.line_base = base,
                     !.folded_upto = IF tallied THEN u - by ELSE 0,
                     !.folded_lines = IF tallied THEN overshot ELSE 0,
                     !.location = left,
                     !.cursor_start = Shifted(@),
                     !.cursor_end = Shifted(@),
                     !.resume = resume]
             upto == IF tallied THEN u - by ELSE 0
             lines == IF tallied THEN overshot ELSE 0
  <2>1. c = d
    BY <1>7 DEF ShiftWindow, Engines
  <2>2. base = e.line_base + left_behind
    BY <1>5
  <2>3. upto \in Nat /\ upto <= left
    <3> HIDE DEF left, overshot
    <3> QED  BY <1>1, <1>4
  <2>4. lines = Feeds(w, by, by + upto)
    <3>1. CASE tallied
      <4>1. by + upto = u
        BY <1>1, <3>1
      <4> QED  BY <3>1, <4>1
    <3>2. CASE ~tallied
      <4>1. by + upto = by /\ Feeds(w, by, by) = 0
        BY <1>1, <3>2, FeedsOfNothing
      <4> QED  BY <3>2, <4>1
    <3> QED  BY <3>1, <3>2
  <2>5. /\ d.line_base = base /\ d.folded_upto = upto /\ d.folded_lines = lines
        /\ d.location = left /\ d.resume = resume
    <3> HIDE DEF base, upto, lines, left, resume
    <3> QED  BY DEF Engines, base, upto, lines
  <2> HIDE DEF c, d, base, upto, lines, left, resume
  <2> QED  BY <1>3, <1>4, <2>1, <2>2, <2>3, <2>4, <2>5 DEF LeavesBehind, c
<1> QED  BY <1>6, <1>7

-----------------------------------------------------------------------------
(* The same of the stream, whose byte k is the last before the window: so  *)
(* said, it does not matter where the window ends.                         *)
Alike(w, s, k) == \A i \in 1..Len(w) : w[i] = s[k + i]
OnTally(s, k, e) ==
    /\ e.folded_upto <= e.location
    /\ e.line_base = 1 + Feeds(s, 0, k)
    /\ e.folded_lines = Feeds(s, k, k + e.folded_upto)
    /\ GoesOnBehind(e.resume)

LEMMA TalliedHere ==
    ASSUME NEW q \in Parsers, NEW w, Len(w) \in Nat, NEW s, NEW k \in Nat, Alike(w, s, k),
           NEW e \in Engines(Len(w), q)
    PROVE  OnTally(s, k, e) <=> Tallied(w, e) /\ e.line_base = 1 + Feeds(s, 0, k)
<1> DEFINE u == e.folded_upto
<1>1. u \in Int /\ 0 \in Int /\ k \in Int /\ k + 0 = k
  BY DEF Engines
<1>2. u <= e.location => Feeds(w, 0, u) = Feeds(s, k, k + u)
  <2>1. SUFFICES ASSUME u <= e.location PROVE Feeds(w, 0, u) = Feeds(s, k, k + u)
    OBVIOUS
  <2>4. u <= Len(w)
    BY <2>1 DEF Engines
  <2> HIDE DEF u
  <2>2. AlikeFrom(w, s, 0, u, k)
    BY <1>1, <2>4 DEF Alike, AlikeFrom
  <2>3. FeedAlike(w, s, 0, u, k)
    BY <1>1, <2>2, FeedsOfAlike
  <2> QED  BY <1>1, <2>3 DEF FeedAlike
<1> QED  BY <1>2 DEF OnTally, Tallied

LEMMA ShiftOnTally ==
    ASSUME NEW q \in Parsers, NEW w, Len(w) \in Nat, NEW s, NEW k \in Nat, Alike(w, s, k),
           NEW e \in Engines(Len(w), q), OnTally(s, k, e), NEW by \in 0..Len(w)
    PROVE  OnTally(s, k + by, ShiftWindow(w, e, by))
<1> DEFINE c == ShiftWindow(w, e, by)
           u == c.folded_upto
           b == by + u
<1>1. Tallied(w, e) /\ e.line_base = 1 + Feeds(s, 0, k)
  BY TalliedHere
<1>2. LeavesBehind(w, e, by, c)
  BY <1>1, ShiftCounts
<1> HIDE DEF c
<1>3. /\ c.line_base = e.line_base + Feeds(w, 0, by)
      /\ u \in Nat /\ u <= c.location
      /\ c.location \in Nat /\ by + c.location <= Len(w)
      /\ c.folded_lines = Feeds(w, by, b)
      /\ GoesOnBehind(c.resume)
  BY <1>2 DEF LeavesBehind
<1>4. 0 \in Int /\ by \in Int /\ b \in Int /\ k \in Int /\ k + 0 = k /\ k + by \in Int
      /\ 0 <= k /\ k <= k + by /\ k + b = (k + by) + u
  BY <1>3
<1>5. Feeds(w, 0, by) = Feeds(s, k, k + by)
  <2>1. AlikeFrom(w, s, 0, by, k)
    BY DEF Alike, AlikeFrom
  <2>2. FeedAlike(w, s, 0, by, k)
    BY <1>4, <2>1, FeedsOfAlike
  <2> QED  BY <1>4, <2>2 DEF FeedAlike
<1>6. Feeds(w, by, b) = Feeds(s, k + by, k + b)
  <2>1. AlikeFrom(w, s, by, b, k)
    BY <1>3 DEF Alike, AlikeFrom
  <2> HIDE DEF b
  <2>2. FeedAlike(w, s, by, b, k)
    BY <1>4, <2>1, FeedsOfAlike
  <2> QED  BY <2>2 DEF FeedAlike
<1>7. Feeds(s, 0, k + by) = Feeds(s, 0, k) + Feeds(s, k, k + by)
  BY <1>4, FeedsSum
<1>8. Feeds(s, 0, k) \in Nat /\ Feeds(s, k, k + by) \in Nat
  BY <1>4, FeedsType
<1>9. c.line_base = 1 + Feeds(s, 0, k + by)
  BY <1>1, <1>3, <1>5, <1>7, <1>8
<1>10. c.folded_lines = Feeds(s, k + by, (k + by) + u)
  BY <1>3, <1>4, <1>6
<1> QED  BY <1>3, <1>9, <1>10 DEF OnTally, c

-----------------------------------------------------------------------------
(* The pull parser: its engine is on the tally of the stream, and whatever *)
(* record a caller can be looking at can be read again.                    *)
InSight == answer.tag = "line" \/ call \in {"field", "first"}
OnTheTally ==
    /\ OnTally(stream, consumed, engine)
    /\ InSight => Reparses(format, window, engine)

LEMMA PieceIsAlike ==
    ASSUME NEW s \in Seq(STRING), NEW k \in Nat, NEW p \in k..Len(s), NEW w,
           w = SubSeq(s, k + 1, p)
    PROVE  Alike(w, s, k)
<1>1. Len(s) \in Nat /\ \A i \in (k + 1)..p : s[i] \in STRING
  <2>1. Len(s) \in Nat /\ \A i \in 1..Len(s) : s[i] \in STRING
    BY LenProperties
  <2> QED  BY <2>1
<1>2. k + 1 \in Int /\ p \in Int
  BY <1>1
<1>3. /\ Len(w) = IF k + 1 <= p THEN p - (k + 1) + 1 ELSE 0
      /\ \A i \in 1..(p - (k + 1) + 1) : w[i] = s[k + 1 + i - 1]
  BY <1>1, <1>2, SubSeqProperties
<1>4. ASSUME NEW i \in 1..Len(w)
      PROVE  w[i] = s[k + i]
  <2>1. i \in 1..(p - (k + 1) + 1) /\ k + 1 + i - 1 = k + i
    BY <1>2, <1>3
  <2> QED  BY <1>3, <2>1
<1> QED  BY <1>4 DEF Alike

LEMMA WindowIsAlike ==
    ASSUME InWindow
    PROVE  Alike(window, stream, consumed)
<1>1. /\ stream \in Seq(STRING) /\ Len(stream) \in Nat /\ consumed \in Nat
      /\ pos \in 0..Len(stream) /\ consumed \in 0..pos
      /\ window = SubSeq(stream, consumed + 1, pos)
  BY WindowFacts DEF InWindow, WindowIsStream
<1>2. pos \in consumed..Len(stream)
  BY <1>1
<1> QED  BY <1>1, <1>2, PieceIsAlike

(* What the lemmas about the engine ask for.                               *)
LEMMA WindowTallied ==
    ASSUME WindowInv, OnTheTally
    PROVE  /\ Pulled \in Parsers /\ Suits(Pulled, format) /\ "lf" \notin format.skips
           /\ Len(window) \in Nat /\ consumed \in Nat /\ engine \in Engines(Len(window), Pulled)
           /\ Alike(window, stream, consumed)
           /\ Tallied(window, engine) /\ engine.line_base = 1 + Feeds(stream, 0, consumed)
<1>1. /\ Len(window) \in Nat /\ consumed \in Nat /\ engine \in Engines(Len(window), Pulled)
      /\ Alike(window, stream, consumed) /\ Pulled \in Parsers
  BY WindowFacts, WindowIsAlike, PulledSuits DEF WindowInv, InWindow
<1>2. Tallied(window, engine) /\ engine.line_base = 1 + Feeds(stream, 0, consumed)
  BY <1>1, TalliedHere DEF OnTheTally
<1>3. "lf" \notin format.skips
  BY SkipsAssumption DEF WindowInv, InWindow
<1> QED  BY <1>1, <1>2, <1>3, PulledSuits

(* The engine goes on in the same window.                                  *)
LEMMA EngineOnTally ==
    ASSUME WindowInv, WindowInv', OnTheTally, UNCHANGED <<format, stream, window, consumed>>,
           Tallied(window, engine'), engine'.line_base = engine.line_base
    PROVE  OnTally(stream, consumed, engine)'
<1>1. /\ Len(window) \in Nat /\ consumed \in Nat /\ Pulled \in Parsers
      /\ Alike(window, stream, consumed) /\ engine.line_base = 1 + Feeds(stream, 0, consumed)
  BY WindowTallied
<1>2. engine' \in Engines(Len(window), Pulled)
  BY DEF WindowInv, InWindow
<1>3. OnTally(stream, consumed, engine')
  BY <1>1, <1>2, TalliedHere
<1>4. stream' = stream /\ consumed' = consumed
  OBVIOUS
<1> QED  BY <1>3, <1>4

LEMMA StaysOnTally ==
    ASSUME WindowInv, WindowInv', OnTheTally, UNCHANGED <<format, stream, window, consumed>>,
           NEW o, StaysTallied(window, engine, o), engine' = o.engine
    PROVE  OnTally(stream, consumed, engine)'
BY EngineOnTally DEF StaysTallied

(* Nothing can be looked at.                                               *)
LEMMA NothingInSight ==
    ASSUME OnTally(stream, consumed, engine)', ~InSight'
    PROVE  OnTheTally'
BY DEF OnTheTally

(* The engine's bytes are dropped up to its anchor.                        *)
LEMMA CompactOnTally ==
    ASSUME WindowInv, OnTheTally, UNCHANGED stream, NEW read, Compact(read)
    PROVE  OnTally(stream, consumed, engine)'
<1> DEFINE a == Anchor(engine)
<1>1. /\ Len(window) \in Nat /\ consumed \in Nat /\ engine \in Engines(Len(window), Pulled)
      /\ Alike(window, stream, consumed) /\ Pulled \in Parsers
  BY WindowTallied
<1>2. a \in 0..Len(window)
  BY <1>1, AnchorType, PulledSuits
<1>3. consumed' = consumed + a /\ engine' = ShiftWindow(window, engine, a)
  BY DEF Compact
<1> HIDE DEF a
<1>4. OnTally(stream, consumed + a, ShiftWindow(window, engine, a))
  BY <1>1, <1>2, ShiftOnTally DEF OnTheTally
<1>5. OnTally(stream', consumed', engine')
  BY <1>3, <1>4
<1> QED  BY <1>5

(* It starts anywhere in the stream, told the line.                        *)
LEMMA StartsOnTally ==
    ASSUME NEW s, NEW k \in Nat, NEW e, e.location = 0, e.folded_upto = 0, e.folded_lines = 0,
           e.resume = Unset, e.line_base = 1 + Feeds(s, 0, k)
    PROVE  OnTally(s, k, e)
<1>1. Feeds(s, k, k + 0) = 0
  <2>1. k \in Int /\ k + 0 = k
    OBVIOUS
  <2> QED  BY <2>1, FeedsOfNothing
<1> QED  BY <1>1, ResumesGoOn DEF OnTally

LEMMA ResetOnTally ==
    ASSUME NEW s, NEW k \in Nat, NEW e, NEW record, NEW f
    PROVE  /\ OnTally(s, k, ResetPosition(e, 1 + Feeds(s, 0, k), record))
           /\ OnTally(s, 0, ResetHeaders(f, ResetPosition(e, 1, record)))
<1> DEFINE line == 1 + Feeds(s, 0, k)
           c == ResetPosition(e, line, record)
           b == ResetPosition(e, 1, record)
           d == ResetHeaders(f, b)
<1>1. /\ c.location = 0 /\ c.folded_upto = 0 /\ c.folded_lines = 0 /\ c.resume = Unset
      /\ c.line_base = line
  <2> HIDE DEF line
  <2> QED  BY DEF ResetPosition, NewEngine
<1>2. /\ d.location = 0 /\ d.folded_upto = 0 /\ d.folded_lines = 0 /\ d.resume = Unset
      /\ d.line_base = 1
  BY DEF ResetPosition, ResetHeaders, NewEngine
<1>3. 1 = 1 + Feeds(s, 0, 0) /\ 0 \in Nat
  BY FeedsOfNothing
<1> HIDE DEF c, d
<1>4. OnTally(s, k, c)
  BY <1>1, StartsOnTally
<1>5. OnTally(s, 0, d)
  BY <1>2, <1>3, StartsOnTally
<1> QED  BY <1>4, <1>5 DEF c, d

LEMMA NewOnTally ==
    ASSUME NEW s
    PROVE  OnTally(s, 0, NewEngine)
<1>1. 1 = 1 + Feeds(s, 0, 0) /\ 0 \in Nat
  BY FeedsOfNothing
<1>2. /\ NewEngine.location = 0 /\ NewEngine.folded_upto = 0 /\ NewEngine.folded_lines = 0
      /\ NewEngine.resume = Unset /\ NewEngine.line_base = 1
  BY DEF NewEngine
<1> QED  BY <1>1, <1>2, StartsOnTally

-----------------------------------------------------------------------------
(* One lemma for each of the front end's steps.                            *)
LEMMA InitOnTally == Init => OnTheTally
<1> SUFFICES ASSUME Init PROVE OnTheTally
  OBVIOUS
<1>1. engine = NewEngine /\ consumed = 0 /\ ~InSight
  BY DEF Init, InSight, NoAnswer
<1>2. OnTally(stream, 0, NewEngine)
  BY NewOnTally
<1> QED  BY <1>1, <1>2 DEF OnTheTally

(* The engine has not moved.                                               *)
LEMMA EngineIsKept ==
    ASSUME OnTheTally, UNCHANGED <<stream, consumed, engine>>, ~InSight'
    PROVE  OnTheTally'
BY DEF OnTheTally

LEMMA ResolveBomTallies ==
    ASSUME WindowInv, WindowInv', OnTheTally, ResolveBom
    PROVE  OnTheTally'
<1>1. engine' = engine \/ engine' = SkipDetectedBom(window, engine)
  BY DEF ResolveBom
<1>2. Tallied(window, engine') /\ engine'.line_base = engine.line_base
  BY <1>1, WindowTallied, MovedOnCounts
<1>3. OnTally(stream, consumed, engine)'
  BY <1>2, EngineOnTally DEF ResolveBom
<1>4. ~InSight'
  BY DEF ResolveBom, caller, InSight, WindowInv, Viewable
<1> QED  BY <1>3, <1>4, NothingInSight

LEMMA EnsureHeadersTallies ==
    ASSUME WindowInv, WindowInv', OnTheTally, EnsureHeaders
    PROVE  OnTheTally'
<1> DEFINE o == HeadersWindow(format, window, engine, eof)
<1>1. StaysTallied(window, engine, o)
  BY WindowTallied, HeadersWindowCounts
<1>2. /\ Turn(o)
      /\ \/ AsksForMore(o)
         \/ Errors(o)
         \/ UNCHANGED <<failed, call, hungry, caller>>
      /\ ~headers_resolved
  BY DEF EnsureHeaders
<1> HIDE DEF o
<1>3. OnTally(stream, consumed, engine)'
  BY <1>1, <1>2, StaysOnTally DEF Turn
<1>4. ~InSight
  BY <1>2 DEF Turn, InSight, WindowInv, Viewable
<1>5. ~InSight'
  BY <1>2, <1>4 DEF AsksForMore, Errors, Fail, Return, caller, InSight
<1> QED  BY <1>3, <1>5, NothingInSight

LEMMA SkipToCandidateTallies ==
    ASSUME WindowInv, WindowInv', OnTheTally, SkipToCandidate
    PROVE  OnTheTally'
<1> DEFINE searched == BeforeLiteral(window, engine.location, Literal)
           ends == {i \in 1..Len(searched) : searched[i] = format.ending}
           bytes == Max(ends)
           records == Cardinality(ends)
           c == SkipRecords(engine, bytes, records)
<1>1. engine' = engine \/ (ends # {} /\ engine' = c)
  BY DEF SkipToCandidate, filter
<1>2. ends # {} => bytes \in Nat
  <2>1. /\ Len(window) \in Nat /\ engine \in Engines(Len(window), Pulled) /\ window \in Seq(STRING)
        /\ engine.location \in 0..Len(window) /\ Literal \in Seq(STRING)
    BY WindowFacts, FilterAssumption DEF WindowInv, InWindow, Engines
  <2>2. Len(searched) \in Nat
    BY <2>1, BeforeLiteralType
  <2> SUFFICES ASSUME ends # {} PROVE Max(ends) \in Nat
    OBVIOUS
  <2>3. ends \subseteq 0..Len(searched) /\ ends \subseteq Nat
    BY <2>2
  <2> HIDE DEF ends, searched
  <2>4. Max(ends) \in ends
    BY <2>2, <2>3, MaxOfPlaces
  <2> QED  BY <2>3, <2>4
<1> HIDE DEF ends, bytes, records
<1>3. ends # {} => Tallied(window, c) /\ c.line_base = engine.line_base
  BY <1>2, WindowTallied, MovedOnCounts
<1> HIDE DEF c
<1>4. Tallied(window, engine') /\ engine'.line_base = engine.line_base
  BY <1>1, <1>3, WindowTallied
<1>5. OnTally(stream, consumed, engine)'
  BY <1>4, EngineOnTally DEF SkipToCandidate
<1>6. ~InSight'
  BY DEF SkipToCandidate, caller, InSight, WindowInv, Viewable
<1> QED  BY <1>5, <1>6, NothingInSight

(* A record that is shown can be read again.                               *)
LEMMA ScanTallies ==
    ASSUME WindowInv, WindowInv', OnTheTally, Scan
    PROVE  OnTheTally'
<1> DEFINE o == IF call = "owned" THEN ReadWindowOwned(format, window, engine, eof)
                ELSE IF SkipsRecords(format) /\ bom # "rejected"
                  THEN AdvanceWindowEagerly(format, window, engine, eof)
                ELSE AdvanceWindowLazily(format, window, engine, eof)
           line == IF call = "owned"
                     THEN [tag |-> "record", record |-> RebasedRecord(o.record)]
                     ELSE [tag |-> "line"]
<1>1. StaysTallied(window, engine, o)
      /\ (call # "owned" /\ o.tag = "record" => Reparses(format, window, o.engine))
  <2>1. StaysTallied(window, engine, ReadWindowOwned(format, window, engine, eof))
    BY WindowTallied, ReadWindowOwnedCounts
  <2>2. /\ TellsOf(format, window, engine, AdvanceWindowLazily(format, window, engine, eof))
        /\ TellsOf(format, window, engine, AdvanceWindowEagerly(format, window, engine, eof))
    BY WindowTallied, AdvanceWindowCounts
  <2> QED  BY <2>1, <2>2 DEF TellsOf
<1>2. /\ Turn(o) /\ call \in {"line", "owned", "candidate", "seek"}
      /\ \/ AsksForMore(o)
         \/ Errors(o)
         \/ /\ o.tag = "done" /\ call # "seek"
            /\ Return([tag |-> "done"])
         \/ /\ o.tag \in {"done", "record"} /\ call = "seek"
            /\ call' = IF o.tag = "done" THEN "move" ELSE "first"
            /\ UNCHANGED <<failed, headers_resolved, hungry, caller>>
         \/ /\ o.tag = "record" /\ call \in {"line", "owned"}
            /\ Return(line)
         \/ /\ o.tag = "record" /\ call = "candidate"
            /\ call' = "field"
            /\ UNCHANGED <<failed, headers_resolved, hungry, caller>>
  BY DEF Scan
<1>3. line.tag = "line" => call # "owned"
  OBVIOUS
<1> HIDE DEF o, line
<1>4. OnTally(stream, consumed, engine)'
  BY <1>1, <1>2, StaysOnTally DEF Turn
<1>5. ~InSight
  BY <1>2 DEF Turn, InSight, WindowInv, Viewable
<1>6. InSight' => call # "owned" /\ o.tag = "record"
  BY <1>2, <1>3, <1>5 DEF AsksForMore, Errors, Fail, Return, caller, InSight
<1>7. format' = format /\ window' = window /\ engine' = o.engine
  BY <1>2 DEF Turn
<1>8. InSight' => Reparses(format', window', engine')
  BY <1>1, <1>6, <1>7
<1> QED  BY <1>4, <1>8 DEF OnTheTally

LEMMA LookTallies ==
    ASSUME WindowInv, WindowInv', OnTheTally, Look
    PROVE  OnTheTally'
<1> DEFINE o == Materialize(format, window, engine)
<1>1. call = "field" /\ Positioned(engine) /\ answer.tag # "line"
  BY DEF Look, WindowInv, Viewable
<1>2. Reparses(format, window, engine)
  BY <1>1 DEF OnTheTally, InSight
<1>3. TellsOf(format, window, engine, o)
  BY <1>1, <1>2, WindowTallied, MaterializeCounts
<1>4. /\ engine' = o.engine
      /\ \/ Fail(o.error)
         \/ o.tag = "record" /\ Return([tag |-> "line"])
         \/ call' = "match" /\ UNCHANGED <<failed, hungry, caller>>
      /\ UNCHANGED <<format, stream, reader, window, consumed, bom, headers_resolved, filter>>
  BY DEF Look
<1> HIDE DEF o
<1>5. OnTally(stream, consumed, engine)'
  BY <1>3, <1>4, StaysOnTally DEF TellsOf
<1>6. InSight' => o.tag = "record"
  BY <1>1, <1>4 DEF Fail, Return, caller, InSight
<1>7. InSight' => Reparses(format', window', engine')
  BY <1>3, <1>4, <1>6 DEF TellsOf
<1> QED  BY <1>5, <1>7 DEF OnTheTally

LEMMA RefillTallies ==
    ASSUME WindowInv, OnTheTally, Refill
    PROVE  OnTheTally'
<1>1. PICK read : Compact(read)
  BY DEF Refill
<1>2. OnTally(stream, consumed, engine)'
  BY <1>1, CompactOnTally DEF Refill
<1>3. ~InSight'
  BY DEF Refill, caller, InSight, WindowInv, Viewable
<1> QED  BY <1>2, <1>3, NothingInSight

LEMMA ReadFailsTallies ==
    ASSUME WindowInv, OnTheTally, ReadFails
    PROVE  OnTheTally'
<1>1. OnTally(stream, consumed, engine)'
  BY CompactOnTally DEF ReadFails
<1>2. ~InSight'
  BY DEF ReadFails, InSight
<1> QED  BY <1>1, <1>2, NothingInSight

LEMMA ViewTallies ==
    ASSUME WindowInv, WindowInv', OnTheTally, View
    PROVE  OnTheTally'
<1> DEFINE o == IF bom = "rejected" THEN Failure(engine, RejectedBom)
                ELSE Materialize(format, window, engine)
           with == [tag |-> "record",
                    record |-> RebasedRecord([start |-> o.engine.cursor_start,
                                              end   |-> o.engine.cursor_end,
                                              index |-> o.engine.cursor_index])]
<1>1. answer.tag = "line" /\ Positioned(engine)
  BY DEF View, WindowInv, Viewable
<1>2. Reparses(format, window, engine)
  BY <1>1 DEF OnTheTally, InSight
<1>3. StaysTallied(window, engine, o)
  <2>1. StaysTallied(window, engine, Materialize(format, window, engine))
    BY <1>1, <1>2, WindowTallied, MaterializeCounts DEF TellsOf
  <2>2. StaysTallied(window, engine, Failure(engine, RejectedBom))
    BY WindowTallied DEF Failure, StaysTallied
  <2> QED  BY <2>1, <2>2
<1>4. /\ engine' = o.engine
      /\ Fail(o.error) \/ Return(with)
      /\ UNCHANGED <<format, stream, reader, window, consumed, bom, headers_resolved, filter, next>>
  BY Zenon DEF View, o, with
<1>5. with.tag # "line"
  OBVIOUS
<1> HIDE DEF o, with
<1>6. OnTally(stream, consumed, engine)'
  BY <1>3, <1>4, StaysOnTally
<1>7. ~InSight'
  BY <1>4, <1>5 DEF Fail, Return, InSight
<1> QED  BY <1>6, <1>7, NothingInSight

LEMMA ReadFirstTallies ==
    ASSUME WindowInv, WindowInv', OnTheTally, ReadFirst
    PROVE  OnTheTally'
<1> DEFINE o == RecordInto(format, window, engine)
<1>1. call = "first" /\ Positioned(engine) /\ answer.tag # "line"
  BY DEF ReadFirst, WindowInv, Viewable
<1>2. Reparses(format, window, engine)
  BY <1>1 DEF OnTheTally, InSight
<1>3. StaysTallied(window, engine, o)
  BY <1>1, <1>2, WindowTallied, RecordIntoCounts
<1>4. /\ engine' = o.engine
      /\ \/ Return([tag |-> "unrebased", error |-> o.error])
         \/ call' = "move" /\ UNCHANGED <<hungry, answer, target, moves>>
      /\ UNCHANGED <<format, stream, reader, window, consumed, failed, bom, headers_resolved, filter>>
  BY DEF ReadFirst
<1> HIDE DEF o
<1>5. OnTally(stream, consumed, engine)'
  BY <1>3, <1>4, StaysOnTally
<1>6. ~InSight'
  BY <1>1, <1>4 DEF Return, InSight
<1> QED  BY <1>5, <1>6, NothingInSight

(* A seek says the line it goes to, and the start of a stream is line 1.   *)
LEMMA MoveTallies ==
    ASSUME WindowInv, OnTheTally, Move
    PROVE  OnTheTally'
<1> DEFINE place == PlaceOf(target)
           byte == place.byte
           record == place.record
<1>1. /\ ResetStreamPosition(place) /\ engine' = ResetPosition(engine, place.line, record)
      /\ call' = "none"
  BY DEF Move
<1>2. place.line = 1 + Feeds(stream, 0, byte)
  BY DEF PlaceOf, Place
<1>3. byte \in Nat
  <2> HIDE DEF place
  <2>1. pos' = byte /\ consumed' = byte
    BY <1>1 DEF ResetStreamPosition
  <2>2. (pos \in 0..Len(stream) /\ consumed \in 0..pos)'
    BY MoveKeeps DEF WindowInv, InWindow
  <2>3. (Len(stream) \in Nat)'
    BY MoveKeeps, WindowFacts DEF WindowInv
  <2> QED  BY <2>1, <2>2, <2>3
<1> HIDE DEF place, byte, record
<1>4. OnTally(stream, byte, ResetPosition(engine, 1 + Feeds(stream, 0, byte), record))
  BY <1>3, ResetOnTally
<1>5. consumed' = byte /\ stream' = stream /\ answer' = NoAnswer
  BY <1>1 DEF ResetStreamPosition, byte
<1>6. engine' = ResetPosition(engine, 1 + Feeds(stream, 0, byte), record)
  BY <1>1, <1>2
<1>7. OnTally(stream', consumed', engine')
  BY <1>4, <1>5, <1>6
<1>8. ~InSight'
  BY <1>1, <1>5 DEF InSight, NoAnswer
<1> QED  BY <1>7, <1>8 DEF OnTheTally

LEMMA RewindTallies ==
    ASSUME Rewind
    PROVE  OnTheTally'
<1>1. /\ engine' = ResetHeaders(format, ResetPosition(engine, 1, 0)) /\ call' = "none"
      /\ consumed' = 0 /\ stream' = stream /\ answer' = NoAnswer
  BY DEF Rewind, ResetStreamPosition
<1>2. 0 \in Nat
  OBVIOUS
<1>3. OnTally(stream, 0, ResetHeaders(format, ResetPosition(engine, 1, 0)))
  BY <1>2, ResetOnTally
<1>4. OnTally(stream', consumed', engine')
  BY <1>1, <1>3
<1>5. ~InSight'
  BY <1>1 DEF InSight, NoAnswer
<1> QED  BY <1>4, <1>5 DEF OnTheTally

-----------------------------------------------------------------------------
LEMMA StepKeepsTheTally == WindowInv /\ OnTheTally /\ [Next]_vars => OnTheTally'
<1> SUFFICES ASSUME WindowInv, OnTheTally, [Next]_vars PROVE OnTheTally'
  OBVIOUS
<1>1. WindowInv'
  BY StepKeepsWindow
<1>2. ASSUME NEW reads \in Calls[format], Call(reads) PROVE OnTheTally'
  <2>1. reads \in {"line", "owned", "match"}
    BY CallsAssumption DEF WindowInv, InWindow
  <2>2. ~InSight'
    BY <1>2, <2>1 DEF Call, InSight, NoAnswer
  <2> QED  BY <1>2, <2>2, EngineIsKept DEF Call, parser
<1>3. ASSUME Step PROVE OnTheTally'
  <2>1. CASE Refuse
    <3>1. ~InSight'
      BY <2>1 DEF Refuse, Return, InSight
    <3> QED  BY <2>1, <3>1, EngineIsKept DEF Refuse, parser
  <2>2. CASE RejectBom
    <3>1. ~InSight'
      BY <2>2 DEF RejectBom, Return, InSight
    <3> QED  BY <2>2, <3>1, EngineIsKept DEF RejectBom
  <2>3. CASE MoveFails
    <3>1. ~InSight'
      BY <2>3 DEF MoveFails, Return, InSight
    <3> QED  BY <2>3, <3>1, EngineIsKept DEF MoveFails, parser
  <2> QED  BY <1>1, <1>3, <2>1, <2>2, <2>3, ResolveBomTallies, EnsureHeadersTallies,
              SkipToCandidateTallies, ScanTallies, LookTallies, RefillTallies, ReadFailsTallies,
              ReadFirstTallies, MoveTallies DEF Step
<1>4. CASE View
  BY <1>1, <1>4, ViewTallies
<1>5. ASSUME NEW i \in Places, Seek(i) PROVE OnTheTally'
  <2>1. ~InSight'
    BY <1>5 DEF Seek, InSight, NoAnswer
  <2> QED  BY <1>5, <2>1, EngineIsKept DEF Seek, parser
<1>6. CASE Rewind
  BY <1>6, RewindTallies
<1>7. CASE UNCHANGED vars
  BY <1>7 DEF OnTheTally, InSight, vars, parser, caller
<1> QED  BY <1>2, <1>3, <1>4, <1>5, <1>6, <1>7 DEF Next

(* A line is counted once and only once: for every stream, however it is   *)
(* cut into reads, whatever is dropped, parsed again, skipped or sought,   *)
(* the lines of the bytes that have left the window are in line_base and   *)
(* those of the bytes the tally covers are in it.                          *)
THEOREM EveryLineIsTallied == Spec => []LinesTallied
<1>1. WindowInv /\ OnTheTally => LinesTallied
  BY WindowTallied DEF LinesTallied, Tallied
<1>2. Init => WindowInv /\ OnTheTally
  BY InitWindow, InitOnTally
<1>3. WindowInv /\ OnTheTally /\ [Next]_vars => (WindowInv /\ OnTheTally)'
  BY StepKeepsWindow, StepKeepsTheTally
<1> QED  BY <1>1, <1>2, <1>3, PTL DEF Spec

-----------------------------------------------------------------------------
(* The push parser: the same of the window, or of the loan it looks at.    *)
OnThePushTally ==
    /\ OnTally(stream, consumed, engine)
    /\ answer.tag = "line" => Reparses(format, Buffer, engine)

LEMMA BufferIsAlike ==
    ASSUME InBuffer
    PROVE  Alike(Buffer, stream, consumed)
<1> DEFINE b == Buffer
           t == Taken
<1>1. /\ stream \in Seq(STRING) /\ consumed \in Nat /\ t \in consumed..Len(stream)
      /\ b = SubSeq(stream, consumed + 1, t)
  BY BufferFacts
<1> HIDE DEF b, t
<1>2. Alike(b, stream, consumed)
  BY <1>1, PieceIsAlike
<1> QED  BY <1>2 DEF b

LEMMA BufferTallied ==
    ASSUME BufferInv, OnThePushTally
    PROVE  /\ Pushed \in Parsers /\ Suits(Pushed, format) /\ "lf" \notin format.skips
           /\ Len(Buffer) \in Nat /\ consumed \in Nat /\ engine \in Engines(Len(Buffer), Pushed)
           /\ Alike(Buffer, stream, consumed)
           /\ Tallied(Buffer, engine) /\ engine.line_base = 1 + Feeds(stream, 0, consumed)
<1>1. /\ Len(Buffer) \in Nat /\ consumed \in Nat /\ engine \in Engines(Len(Buffer), Pushed)
      /\ Alike(Buffer, stream, consumed) /\ Pushed \in Parsers
  BY BufferFacts, BufferIsAlike, PushedSuits DEF BufferInv
<1>2. Tallied(Buffer, engine) /\ engine.line_base = 1 + Feeds(stream, 0, consumed)
  <2> DEFINE b == Buffer
  <2>1. Len(b) \in Nat /\ engine \in Engines(Len(b), Pushed) /\ Alike(b, stream, consumed)
    BY <1>1
  <2> HIDE DEF b
  <2>2. Tallied(b, engine) /\ engine.line_base = 1 + Feeds(stream, 0, consumed)
    BY <1>1, <2>1, TalliedHere DEF OnThePushTally
  <2> QED  BY <2>2 DEF b
<1>3. "lf" \notin format.skips
  BY SkipsAssumption DEF BufferInv, InBuffer
<1> QED  BY <1>1, <1>2, <1>3, PushedSuits

(* An engine that looks at the buffer is on the tally when it is tallied.  *)
LEMMA TalliedInBuffer ==
    ASSUME BufferInv, OnThePushTally, NEW e \in Engines(Len(Buffer), Pushed), Tallied(Buffer, e),
           e.line_base = engine.line_base
    PROVE  OnTally(stream, consumed, e)
<1> DEFINE b == Buffer
<1>1. /\ Len(b) \in Nat /\ consumed \in Nat /\ Pushed \in Parsers /\ e \in Engines(Len(b), Pushed)
      /\ Alike(b, stream, consumed) /\ engine.line_base = 1 + Feeds(stream, 0, consumed)
      /\ Tallied(b, e)
  BY BufferTallied
<1> HIDE DEF b
<1> QED  BY <1>1, TalliedHere

(* An engine that is released and drops what it looks at up to `by`.       *)
LEMMA ReleasedOnTally ==
    ASSUME NEW q \in Parsers, NEW w, Len(w) \in Nat, NEW s, NEW k \in Nat, Alike(w, s, k),
           NEW e \in Engines(Len(w), q), OnTally(s, k, e), NEW by \in 0..Len(w)
    PROVE  OnTally(s, k + by, ShiftWindow(w, Release(e), by))
<1> DEFINE d == Release(e)
<1>1. d \in Engines(Len(w), q)
  BY ReleaseType
<1>2. OnTally(s, k, d)
  BY ReleaseCounts DEF SameTally, OnTally
<1> HIDE DEF d
<1>3. OnTally(s, k + by, ShiftWindow(w, d, by))
  BY <1>1, <1>2, ShiftOnTally
<1> QED  BY <1>3 DEF d

(* No line can be looked at.                                               *)
LEMMA NoLineInSight ==
    ASSUME OnTally(stream, consumed, engine)', answer'.tag # "line"
    PROVE  OnThePushTally'
BY DEF OnThePushTally

LEMMA PushEngineIsKept ==
    ASSUME OnThePushTally, UNCHANGED <<stream, consumed, engine>>, answer'.tag # "line"
    PROVE  OnThePushTally'
BY DEF OnThePushTally

LEMMA PushInitOnTally == PushInit => OnThePushTally
<1> SUFFICES ASSUME PushInit PROVE OnThePushTally
  OBVIOUS
<1>1. engine = NewEngine /\ consumed = 0 /\ answer.tag # "line"
  BY DEF PushInit, NoAnswer
<1>2. OnTally(stream, 0, NewEngine)
  BY NewOnTally
<1> QED  BY <1>1, <1>2 DEF OnThePushTally

LEMMA PushViewTallies ==
    ASSUME BufferInv, OnThePushTally, PushView
    PROVE  OnThePushTally'
<1> DEFINE o == Materialize(format, Buffer, engine)
           with == [tag |-> "record",
                    record |-> RebasedRecord([start |-> o.engine.cursor_start,
                                              end   |-> o.engine.cursor_end,
                                              index |-> o.engine.cursor_index])]
<1>1. Positioned(engine) /\ Reparses(format, Buffer, engine)
  BY DEF PushView, BufferInv, Told, OnThePushTally
<1>2. TellsOf(format, Buffer, engine, o) /\ o \in Outs(Len(Buffer), Pushed)
  <2> DEFINE b == Buffer
             x == Materialize(format, b, engine)
  <2>1. /\ Len(b) \in Nat /\ engine \in Engines(Len(b), Pushed) /\ Tallied(b, engine)
        /\ Pushed \in Parsers /\ Suits(Pushed, format) /\ "lf" \notin format.skips
        /\ Reparses(format, b, engine)
    BY <1>1, BufferTallied
  <2> HIDE DEF b
  <2>2. TellsOf(format, b, engine, x) /\ x \in Outs(Len(b), Pushed)
    BY <1>1, <2>1, MaterializeCounts, MaterializeType
  <2> QED  BY <2>2 DEF b
<1>3. /\ engine' = o.engine
      /\ PushFail(Rebased(o.error)) \/ PushReturn(with)
      /\ UNCHANGED <<arguments, fed, loan, window, consumed>>
  BY Zenon DEF PushView, o, with
<1>4. with.tag # "line"
  OBVIOUS
<1> HIDE DEF o, with
<1>5. OnTally(stream, consumed, o.engine)
  BY <1>2, TalliedInBuffer DEF Outs, TellsOf, StaysTallied
<1>6. stream' = stream /\ consumed' = consumed /\ engine' = o.engine
  BY <1>3 DEF arguments
<1>7. OnTally(stream', consumed', engine')
  BY <1>5, <1>6
<1>8. answer'.tag # "line"
  BY <1>3, <1>4 DEF PushFail, PushReturn
<1> QED  BY <1>7, <1>8, NoLineInSight

-----------------------------------------------------------------------------
(* A record is told of: it is looked at, or was read.                      *)
LEMMA ReportsTallies ==
    ASSUME BufferInv, OnThePushTally, NEW o, o.engine \in Engines(Len(Buffer), Pushed),
           StaysTallied(Buffer, engine, o),
           ~Direct => Positioned(o.engine) /\ Reparses(format, Buffer, o.engine), Reports(o),
           UNCHANGED <<format, stream, fed, loan, window, consumed>>
    PROVE  OnThePushTally'
<1> DEFINE b == Buffer
           p == IF Direct THEN Record(o.engine, FALSE) ELSE RecordInto(format, Buffer, o.engine)
           with == [tag |-> "record",
                    record |-> RebasedRecord([o.record EXCEPT !.end = p.engine.location])]
<1>1. \/ /\ call = "line" /\ engine' = o.engine /\ PushReturn([tag |-> "line"])
      \/ /\ engine' = p.engine
         /\ PushFail(p.error) \/ PushReturn(with)
  BY Zenon DEF Reports, p, with
<1>2. /\ Len(b) \in Nat /\ Pushed \in Parsers /\ Suits(Pushed, format) /\ "lf" \notin format.skips
      /\ o.engine \in Engines(Len(b), Pushed)
      /\ Tallied(b, o.engine) /\ o.engine.line_base = engine.line_base
  BY BufferTallied DEF StaysTallied
<1>3. OnTally(stream, consumed, o.engine)
  BY <1>2, TalliedInBuffer
<1>4. OnTally(stream, consumed, p.engine)
  <2> DEFINE x == RecordInto(format, b, o.engine)
  <2>1. Direct => p.engine = o.engine
    BY DEF Record
  <2>2. ~Direct => p = x
    OBVIOUS
  <2>3. ~Direct => OnTally(stream, consumed, x.engine)
    <3>1. SUFFICES ASSUME ~Direct PROVE OnTally(stream, consumed, x.engine)
      OBVIOUS
    <3>2. Positioned(o.engine) /\ Reparses(format, b, o.engine)
      BY <3>1
    <3> HIDE DEF b
    <3>3. StaysTallied(b, o.engine, x) /\ Stays(Len(b), Pushed, x)
      BY <1>2, <3>2, RecordIntoCounts, RecordIntoType
    <3> HIDE DEF x
    <3>4. x.engine \in Engines(Len(b), Pushed) /\ Tallied(b, x.engine)
          /\ x.engine.line_base = engine.line_base
      BY <1>2, <3>3 DEF Stays, StaysTallied
    <3> QED  BY <3>4, TalliedInBuffer DEF b
  <2> HIDE DEF p, x
  <2> QED  BY <1>3, <2>1, <2>2, <2>3
<1>5. with.tag # "line"
  OBVIOUS
<1> HIDE DEF p, with
<1>6. CASE call = "line" /\ engine' = o.engine /\ PushReturn([tag |-> "line"])
  <2>1. OnTally(stream', consumed', engine')
    BY <1>3, <1>6
  <2>2. Reparses(format, Buffer, o.engine)
    BY <1>6 DEF Direct
  <2>3. format' = format /\ Buffer' = Buffer
    BY DEF Buffer, Rest
  <2>4. Reparses(format', Buffer', engine')
    BY <1>6, <2>2, <2>3
  <2> QED  BY <2>1, <2>4 DEF OnThePushTally
<1>7. CASE engine' = p.engine /\ (PushFail(p.error) \/ PushReturn(with))
  <2>1. OnTally(stream', consumed', engine')
    BY <1>4, <1>7
  <2>2. answer'.tag # "line"
    BY <1>5, <1>7 DEF PushFail, PushReturn
  <2> QED  BY <2>1, <2>2, NoLineInSight
<1> QED  BY <1>1, <1>6, <1>7

(* What is too long is looked at once more, for another error.             *)
LEMMA OversizedTallies ==
    ASSUME InBuffer, NEW w, Len(w) \in Nat, Alike(w, stream, consumed),
           NEW e \in Engines(Len(w), Pushed), OnTally(stream, consumed, e)
    PROVE  OnTally(stream, consumed, Oversized(w, e).engine)
<1> DEFINE o == AdvanceWindow(format, w, e, FALSE)
<1>1. /\ Pushed \in Parsers /\ Suits(Pushed, format) /\ "lf" \notin format.skips /\ consumed \in Nat
  BY BufferFacts, PushedSuits, SkipsAssumption DEF InBuffer
<1>2. Tallied(w, e) /\ e.line_base = 1 + Feeds(stream, 0, consumed)
  BY <1>1, TalliedHere
<1>3. TellsOf(format, w, e, o)
  BY <1>1, <1>2, AdvanceWindowCounts
<1>4. o.engine \in Engines(Len(w), Pushed)
  BY <1>1, AdvanceWindowType DEF Shows, Stays
<1>5. Oversized(w, e).engine = o.engine
  BY DEF Oversized
<1> HIDE DEF o
<1>6. OnTally(stream, consumed, o.engine)
  BY <1>1, <1>2, <1>3, <1>4, TalliedHere DEF TellsOf, StaysTallied
<1> QED  BY <1>5, <1>6

(* There is none in the window yet.                                        *)
LEMMA GoesOnTallies ==
    ASSUME BufferInv, OnThePushTally, call # "none", ~loan.borrowed,
           NEW e \in Engines(Len(window), Pushed), OnTally(stream, consumed, e),
           NEW refusal, GoesOn(e, refusal), UNCHANGED <<format, stream, fed>>
    PROVE  OnThePushTally'
<1>1. /\ InBuffer /\ answer.tag # "line" /\ Len(window) \in Nat /\ consumed \in Nat
      /\ Alike(window, stream, consumed) /\ Pushed \in Parsers
  <2>1. Buffer = window /\ InBuffer /\ answer.tag # "line"
    BY DEF Buffer, BufferInv, Told
  <2> QED  BY <2>1, BufferFacts, BufferIsAlike, PushedSuits
<1>2. \/ /\ EnterBorrowed(e) /\ UNCHANGED <<call, answer>>
      \/ /\ Pauses /\ engine' = e /\ UNCHANGED <<window, consumed, loan>>
      \/ /\ engine' = Oversized(window, e).engine /\ PushFail(Oversized(window, e).error)
         /\ UNCHANGED <<window, consumed, loan>>
      \/ /\ engine' = e
         /\ Pauses \/ UNCHANGED <<call, answer>>
         /\ UNCHANGED consumed
  BY Zenon DEF GoesOn
<1>3. answer'.tag # "line"
  BY <1>1, <1>2 DEF Pauses, PushFail, PushReturn
<1>4. OnTally(stream', consumed', engine')
  <2>1. CASE EnterBorrowed(e)
    <3> DEFINE at == Len(window) - Pending(e)
    <3>1. at \in 0..Len(window)
      BY <1>1 DEF Pending, Engines
    <3>2. engine' = ShiftWindow(window, Release(e), at) /\ consumed' = consumed + at
      BY <2>1 DEF EnterBorrowed
    <3> HIDE DEF at
    <3>3. OnTally(stream, consumed + at, ShiftWindow(window, Release(e), at))
      BY <1>1, <3>1, ReleasedOnTally
    <3> QED  BY <3>2, <3>3
  <2>2. CASE engine' = e /\ UNCHANGED consumed
    BY <2>2
  <2>3. CASE engine' = Oversized(window, e).engine /\ UNCHANGED consumed
    <3>1. OnTally(stream, consumed, Oversized(window, e).engine)
      BY <1>1, OversizedTallies
    <3> QED  BY <2>3, <3>1
  <2> QED  BY <1>2, <2>1, <2>2, <2>3
<1> QED  BY <1>3, <1>4, NoLineInSight

LEMMA PushScanTallies ==
    ASSUME BufferInv, OnThePushTally, PushScan
    PROVE  OnThePushTally'
<1> DEFINE b == Buffer
           n == Len(b)
           c == PastBom(Buffer)
           o == IF RefusedBefore THEN Answers(c, "more")
                ELSE IF Direct THEN ReadWindowOwned(format, Buffer, c, AtEnd)
                ELSE AdvanceWindow(format, Buffer, c, AtEnd)
           refusal == IF o.tag = "more" /\ ~AtEnd THEN Len(window) ELSE refused
           Sound(x) == /\ x.engine \in Engines(n, Pushed) /\ StaysTallied(b, engine, x)
                       /\ x.tag = "record" /\ ~Direct =>
                             Positioned(x.engine) /\ Reparses(format, b, x.engine)
<1>1. /\ n \in Nat /\ engine \in Engines(n, Pushed) /\ Tallied(b, engine)
      /\ Pushed \in Parsers /\ Suits(Pushed, format) /\ "lf" \notin format.skips
      /\ answer.tag = "line" => call = "none"
  BY BufferTallied DEF BufferInv, Told
<1>2. c \in Engines(n, Pushed) /\ Tallied(b, c) /\ c.line_base = engine.line_base
  <2>1. c = engine \/ c = SkipDetectedBom(b, engine)
    BY DEF PastBom
  <2> HIDE DEF b, c
  <2>2. SkipDetectedBom(b, engine) \in Engines(n, Pushed)
    BY <1>1, SkipDetectedBomType
  <2>3. Tallied(b, SkipDetectedBom(b, engine))
        /\ SkipDetectedBom(b, engine).line_base = engine.line_base
    BY <1>1, MovedOnCounts
  <2> QED  BY <1>1, <2>1, <2>2, <2>3
<1>3. Sound(o)
  <2> DEFINE read == ReadWindowOwned(format, b, c, AtEnd)
             advanced == AdvanceWindow(format, b, c, AtEnd)
             again == Answers(c, "more")
  <2>1. o = IF RefusedBefore THEN again ELSE IF Direct THEN read ELSE advanced
    OBVIOUS
  <2> HIDE DEF c, b, o
  <2>2. Stays(n, Pushed, read) /\ StaysTallied(b, c, read)
    BY <1>1, <1>2, ReadWindowOwnedType, ReadWindowOwnedCounts
  <2>3. Shows(n, Pushed, advanced) /\ TellsOf(format, b, c, advanced)
    BY <1>1, <1>2, AdvanceWindowType, AdvanceWindowCounts
  <2>4. again.tag = "more" /\ again.engine = c
    BY AnswersAre
  <2> HIDE DEF read, advanced, again
  <2>5. Direct => Sound(read)
    BY <1>2, <2>2 DEF Stays, StaysTallied
  <2>6. Sound(advanced)
    BY <1>2, <2>3 DEF Shows, Stays, TellsOf, StaysTallied
  <2>7. Sound(again)
    BY <1>2, <2>4 DEF StaysTallied
  <2> HIDE DEF Sound
  <2> QED  BY <2>1, <2>5, <2>6, <2>7
<1>4. /\ call # "none" /\ UNCHANGED <<format, stream, fed>>
      /\ \/ /\ o.tag = "record" /\ Reports(o) /\ UNCHANGED <<loan, window, consumed>>
         \/ /\ engine' = o.engine /\ PushFail(Rebased(o.error)) /\ UNCHANGED <<loan, window, consumed>>
         \/ /\ engine' = o.engine /\ Pauses /\ UNCHANGED <<loan, window, consumed>>
         \/ /\ ~loan.borrowed /\ GoesOn(o.engine, refusal)
  BY Zenon DEF PushScan, Looks, arguments, o, c, refusal
<1> HIDE DEF o, c, refusal
<1>5. o.engine \in Engines(Len(Buffer), Pushed) /\ StaysTallied(Buffer, engine, o)
      /\ (o.tag = "record" /\ ~Direct => Positioned(o.engine) /\ Reparses(format, Buffer, o.engine))
  BY <1>3
<1> HIDE DEF Sound
<1>6. OnTally(stream, consumed, o.engine)
  BY <1>5, TalliedInBuffer DEF StaysTallied
<1>7. CASE o.tag = "record" /\ Reports(o) /\ UNCHANGED <<loan, window, consumed>>
  BY <1>4, <1>5, <1>7, ReportsTallies
<1>8. CASE engine' = o.engine /\ (PushFail(Rebased(o.error)) \/ Pauses) /\ UNCHANGED consumed
  <2>1. OnTally(stream', consumed', engine')
    BY <1>4, <1>6, <1>8
  <2>2. answer'.tag # "line"
    BY <1>8 DEF PushFail, Pauses, PushReturn
  <2> QED  BY <2>1, <2>2, NoLineInSight
<1>9. CASE ~loan.borrowed /\ GoesOn(o.engine, refusal)
  <2>1. o.engine \in Engines(Len(window), Pushed)
    BY <1>5, <1>9 DEF Buffer
  <2> QED  BY <1>4, <1>6, <1>9, <2>1, GoesOnTallies
<1> QED  BY <1>4, <1>7, <1>8, <1>9

-----------------------------------------------------------------------------
(* The chunk is given back.                                                *)
LEMMA SettleAbsorbingTallies ==
    ASSUME InBuffer, OnTally(stream, consumed, engine), ~loan.borrowed, SettleAbsorbing,
           UNCHANGED stream
    PROVE  OnTally(stream, consumed, engine)'
<1> DEFINE take == IF failed THEN 0 ELSE Min({Len(Rest), Room(engine)})
           kept == window \o SubSeq(Rest, 1, take)
           t == Taken
           to == t + take
<1>1. /\ Len(Rest) \in Nat /\ Len(window) \in Nat /\ consumed \in Nat /\ stream \in Seq(STRING)
      /\ t \in Nat /\ consumed <= t /\ t = fed + loan.absorbed /\ Len(stream) \in Nat
      /\ engine \in Engines(Len(window), Pushed) /\ Pushed \in Parsers
      /\ fed + loan.len <= Len(stream) /\ fed + loan.len \in Nat
  <2>1. Buffer = window /\ t = fed + loan.absorbed /\ Len(Rest) \in Nat
    BY RestFacts
  <2>2. fed + loan.len \in Nat /\ fed + loan.len <= Len(stream)
    BY DEF InBuffer, Lending
  <2> QED  BY <2>1, <2>2, BufferFacts, PushedSuits
<1>2. take \in 0..Len(Rest)
  <2> DEFINE l == Len(Rest)
             r == Room(engine)
             least == Min({l, r})
  <2>1. l \in Nat /\ r \in Nat /\ l \in Int /\ r \in Int
    BY <1>1, RoomType
  <2> HIDE DEF l, r
  <2>2. least \in {l, r} /\ least <= l
    BY ONLY <2>1, MinOfTwo
  <2> HIDE DEF least
  <2>3. least \in 0..l
    BY <2>1, <2>2
  <2> QED  BY <2>1, <2>3 DEF least, l, r
<1>3. UNCHANGED consumed /\ engine' \in {engine, Oversized(kept, engine).engine}
  BY DEF SettleAbsorbing
<1> HIDE DEF take
<1>4. /\ kept = SubSeq(stream, consumed + 1, to) /\ Len(kept) = Len(window) + take
      /\ to <= fed + loan.len
  BY <1>2, WindowGoesOn
<1> HIDE DEF kept, t
<1>5. take \in Nat /\ to \in consumed..Len(stream) /\ Len(kept) \in Nat
  <2> DEFINE e == fed + loan.len
             m == Len(stream)
  <2>1. take \in Nat
    BY <1>1, <1>2
  <2>2. t \in Nat /\ consumed \in Nat /\ consumed <= t /\ e \in Nat /\ e <= m /\ m \in Nat /\ to <= e
    BY <1>1, <1>4
  <2> HIDE DEF e, m
  <2>3. to \in consumed..m
    BY ONLY <2>1, <2>2 DEF to
  <2>4. Len(kept) \in Nat
    <3> DEFINE n == Len(window)
               l == Len(kept)
    <3>1. n \in Nat /\ l = n + take
      BY <1>1, <1>4
    <3> HIDE DEF n, l
    <3>2. l \in Nat
      BY ONLY <2>1, <3>1
    <3> QED  BY <3>2 DEF l
  <2> QED  BY <2>1, <2>3, <2>4 DEF m
<1> HIDE DEF to
<1>6. Alike(kept, stream, consumed)
  BY <1>1, <1>4, <1>5, PieceIsAlike
<1>7. engine \in Engines(Len(kept), Pushed)
  BY <1>1, <1>4, <1>5, EnginesGrow
<1>8. OnTally(stream, consumed, Oversized(kept, engine).engine)
  BY <1>5, <1>6, <1>7, OversizedTallies
<1>9. OnTally(stream', consumed', engine')
  BY <1>3, <1>8
<1> QED  BY <1>9

LEMMA SettleBorrowedTallies ==
    ASSUME InBuffer, OnTally(stream, consumed, engine), loan.borrowed, SettleBorrowed,
           UNCHANGED stream
    PROVE  OnTally(stream, consumed, engine)'
<1> DEFINE w == Rest
           a == WindowAnchor(Release(engine))
<1>1. /\ Len(w) \in Nat /\ engine \in Engines(Len(w), Pushed) /\ Alike(w, stream, consumed)
      /\ consumed \in Nat /\ Pushed \in Parsers
  <2>1. Buffer = Rest
    BY RestFacts
  <2> QED  BY <2>1, BufferFacts, BufferIsAlike, PushedSuits
<1>2. a \in 0..Len(w)
  BY <1>1, ReleaseType, WindowAnchorType
<1>3. engine' = ShiftWindow(w, Release(engine), a) /\ consumed' = consumed + a
  BY DEF SettleBorrowed
<1> HIDE DEF w, a
<1>4. OnTally(stream, consumed + a, ShiftWindow(w, Release(engine), a))
  BY <1>1, <1>2, ReleasedOnTally
<1>5. OnTally(stream', consumed', engine')
  BY <1>3, <1>4
<1> QED  BY <1>5

LEMMA StepKeepsThePushTally ==
    ASSUME BufferInv, OnThePushTally, [PushNext]_push_vars
    PROVE  OnThePushTally'
<1>1. ASSUME NEW n, Chunk(n)
      PROVE  OnThePushTally'
  <2>1. answer'.tag # "line"
    BY <1>1 DEF Chunk, BufferInv, Told
  <2> QED  BY <1>1, <2>1, PushEngineIsKept DEF Chunk, arguments
<1>2. CASE Finish
  <2>1. answer'.tag # "line"
    BY <1>2 DEF Finish, BufferInv, Told
  <2> QED  BY <1>2, <2>1, PushEngineIsKept DEF Finish, arguments
<1>3. ASSUME NEW reads, PushCall(reads)
      PROVE  OnThePushTally'
  <2>1. answer'.tag # "line"
    BY <1>3 DEF PushCall, NoAnswer
  <2> QED  BY <1>3, <2>1, PushEngineIsKept DEF PushCall, arguments
<1>4. CASE PushRefuse
  <2>1. answer'.tag # "line"
    BY <1>4 DEF PushRefuse, PushReturn
  <2> QED  BY <1>4, <2>1, PushEngineIsKept DEF PushRefuse, arguments
<1>5. CASE PushRejectBom
  <2>1. answer'.tag # "line"
    BY <1>5 DEF PushRejectBom, PushFail, PushReturn
  <2> QED  BY <1>5, <2>1, PushEngineIsKept DEF PushRejectBom, arguments
<1>6. CASE PushScan
  BY <1>6, PushScanTallies
<1>7. CASE PushView
  BY <1>7, PushViewTallies
<1>8. CASE Done
  <2>1. /\ IF loan.borrowed THEN SettleBorrowed ELSE SettleAbsorbing
        /\ UNCHANGED stream /\ answer'.tag # "line"
    BY <1>8 DEF Done, arguments, NoAnswer
  <2>2. OnTally(stream, consumed, engine)'
    BY <2>1, SettleBorrowedTallies, SettleAbsorbingTallies DEF BufferInv, OnThePushTally
  <2> QED  BY <2>1, <2>2, NoLineInSight
<1>9. CASE Reset
  <2>1. stream' = stream /\ consumed' = 0 /\ engine' = NewEngine /\ answer'.tag # "line"
    BY <1>9 DEF Reset, arguments, BufferInv, Told
  <2>2. OnTally(stream, 0, NewEngine)
    BY NewOnTally
  <2>3. OnTally(stream', consumed', engine')
    BY <2>1, <2>2
  <2> QED  BY <2>1, <2>3, NoLineInSight
<1>10. CASE UNCHANGED push_vars
  BY <1>10 DEF OnThePushTally, push_vars, arguments, lender, Buffer, Rest
<1> QED  BY <1>1, <1>2, <1>3, <1>4, <1>5, <1>6, <1>7, <1>8, <1>9, <1>10 DEF PushNext, PushStep

(* The same of the push parser, however the stream is cut into chunks, when*)
(* the caller gives them back, and whatever changes hands between the      *)
(* window and the loan: of the streams BufferHoldsTheStream is about.      *)
THEOREM EveryPushedLineIsTallied == PushSpec => [](Uncut => PushedLinesTallied)
<1> DEFINE Inv == BufferInv /\ OnThePushTally
<1>1. Inv => PushedLinesTallied
  BY BufferTallied DEF PushedLinesTallied, Tallied
<1>2. PushInit => (Uncut => Inv)
  BY PushInitBuffer, PushInitOnTally
<1>3. (Uncut => Inv) /\ [PushNext]_push_vars => (Uncut => Inv)'
  <2>1. SUFFICES ASSUME Uncut => Inv, [PushNext]_push_vars, Uncut' PROVE Inv'
    OBVIOUS
  <2>2. Uncut
    BY <2>1, StepKeepsUncut DEF Uncut
  <2> QED  BY <2>1, <2>2, StepKeepsBuffer, StepKeepsThePushTally
<1>4. (Uncut => Inv) => (Uncut => PushedLinesTallied)
  BY <1>1
<1> HIDE DEF Inv
<1> QED  BY <1>2, <1>3, <1>4, PTL DEF PushSpec

-----------------------------------------------------------------------------
(* What has been read of a record, when the window begins k bytes earlier. *)
Later(st, k) == [st EXCEPT !.at = @ + k]

LEMMA LaterIs ==
    ASSUME NEW st \in States, NEW k \in Int
    PROVE  /\ Later(st, k) \in States /\ Later(st, k).at = st.at + k
           /\ Later(st, k).mode = st.mode /\ Later(st, k).fields = st.fields
           /\ Later(st, k).plain = st.plain
BY DEF Later, States

LEMMA LaterOf ==
    ASSUME NEW mode, NEW at, NEW fields, NEW plain, NEW k
    PROVE  Later([mode |-> mode, at |-> at, fields |-> fields, plain |-> plain], k)
              = [mode |-> mode, at |-> at + k, fields |-> fields, plain |-> plain]
BY DEF Later

LEMMA ReadByteStops ==
    ASSUME NEW f, NEW over, NEW s \in States, s.mode \notin Open, NEW b, NEW i
    PROVE  ReadByte(f, over, s, b, i) = s
<1>1. s.mode \in {"ended", "malformed", "too large"}
  BY DEF States, Modes, Open
<1> QED  BY Zenon, <1>1 DEF ReadByte

LEMMA ReadByteLater ==
    ASSUME NEW f, NEW over \in Int, NEW s \in States, NEW b, NEW i \in Int, NEW k \in Int
    PROVE  /\ ReadByte(f, over + k, Later(s, k), b, i + k) = Later(ReadByte(f, over, s, b, i), k)
           /\ ReadByte(f, over, s, b, i).mode \in Open =>
                 s.mode \in Open /\ ReadByte(f, over, s, b, i).at = i
           /\ s.mode \notin Open => ReadByte(f, over, s, b, i) = s
<1> DEFINE t == Later(s, k)
           m == NextMode(f, s.mode, b)
           Mode(at, bound) == CASE m = "malformed" -> m
                       [] m # "malformed" /\ at > bound
                            /\ m # "closed" /\ ~(s.mode = "closed" /\ m = "field") -> "too large"
                       [] OTHER -> IF m = "start" THEN "ended" ELSE m
           At(at) == IF m # "malformed" THEN at ELSE IF s.mode = "cr" THEN at - 2 ELSE at - 1
           fields == IF m = "field" THEN s.fields + 1 ELSE s.fields
           plain == s.plain /\ b # "quote" /\ ~(f.escapes /\ b = "esc")
           Over == s.mode \in {"ended", "malformed", "too large"}
           Read(at, bound) == [mode |-> Mode(at, bound), at |-> At(at), fields |-> fields,
                               plain |-> plain]
<1>1. t.at = s.at + k /\ t.mode = s.mode /\ t.fields = s.fields /\ t.plain = s.plain
  BY LaterIs
<1>2. s.mode \in Modes /\ (Over <=> s.mode \notin Open)
  BY DEF States, Modes, Open
<1>3. ReadByte(f, over, s, b, i) = IF Over THEN s ELSE Read(i, over)
  BY Zenon DEF ReadByte
<1>4. ReadByte(f, over + k, t, b, i + k) = IF Over THEN t ELSE Read(i + k, over + k)
  <2> HIDE DEF t
  <2> QED  BY Zenon, <1>1 DEF ReadByte
<1>5. Mode(i + k, over + k) = Mode(i, over)
  <2>1. i + k > over + k <=> i > over
    OBVIOUS
  <2> HIDE DEF m
  <2> QED  BY <2>1
<1>6. At(i + k) = At(i) + k /\ At(i) \in Int /\ (m # "malformed" => At(i) = i)
  <2> HIDE DEF m
  <2> QED  OBVIOUS
<1>7. Mode(i, over) \in Open => m # "malformed"
  <2> HIDE DEF m
  <2> QED  BY DEF Open
<1> HIDE DEF Mode, At, fields, plain
<1>8. Later(Read(i, over), k) = Read(i + k, over + k)
  BY <1>5, <1>6 DEF Later
<1>9. Read(i, over).mode = Mode(i, over) /\ Read(i, over).at = At(i)
  OBVIOUS
<1> HIDE DEF Read, m
<1> QED  BY <1>2, <1>3, <1>4, <1>6, <1>7, <1>8, <1>9 DEF t

(* What the bytes after the window can no longer change.                   *)
LastsIn(w, r) ==
    \/ r.verdict = "ok" /\ (r.at < Len(w) \/ r.terminated)
    \/ r.verdict \in {"syntax", "too large"} /\ r.at + 1 < Len(w)

LEMMA JudgedLater ==
    ASSUME NEW f, f.limit \in Nat, NEW w, Len(w) \in Nat, NEW s, Len(s) \in Nat, NEW k \in Nat,
           NEW p \in Nat, NEW st \in States,
           \/ k + Len(w) = Len(s)
           \/ st.mode \notin Open
           \/ st.at = Len(w) /\ LastsIn(w, Judged(f, w, p, st))
    PROVE  /\ Judged(f, s, k + p, Later(st, k)) = [Judged(f, w, p, st) EXCEPT !.at = @ + k]
           /\ k + Len(w) = Len(s) \/ st.mode \notin Open
<1> DEFINE t == Later(st, k)
           Verdict(v, at) == [verdict |-> v, at |-> at, terminated |-> st.mode = "ended",
                              fields |-> st.fields, plain |-> st.plain]
           Case(n, a, over) ==
               CASE st.mode = "malformed" -> Verdict("syntax", a)
                 [] st.mode = "too large" \/ (st.mode = "closed" /\ over) -> Verdict("too large", a)
                 [] st.mode \in {"quoted", "quoted_escaped"} -> Verdict("unterminated", n)
                 [] st.mode = "cr" -> Verdict("syntax", n - 1)
                 [] OTHER -> Verdict("ok", a)
           over == st.at > p + f.limit
<1>1. /\ t.at = st.at + k /\ t.mode = st.mode /\ t.fields = st.fields /\ t.plain = st.plain
      /\ st.at \in Int /\ st.mode \in Modes
  <2>1. st.at \in Int /\ st.mode \in Modes
    BY DEF States
  <2>2. k \in Int
    OBVIOUS
  <2> QED  BY ONLY st \in States, <2>1, <2>2, LaterIs
<1>2. Judged(f, w, p, st) = Case(Len(w), st.at, over)
  BY Zenon DEF Judged
<1>4. t.at > (k + p) + f.limit <=> over
  <2> HIDE DEF t
  <2> QED  BY <1>1
<1>3. Judged(f, s, k + p, t) = Case(Len(s), st.at + k, over)
  <2> DEFINE beyond == t.at > (k + p) + f.limit
  <2>1. Judged(f, s, k + p, t) =
           CASE st.mode = "malformed" -> Verdict("syntax", t.at)
             [] st.mode = "too large" \/ (st.mode = "closed" /\ beyond) -> Verdict("too large", t.at)
             [] st.mode \in {"quoted", "quoted_escaped"} -> Verdict("unterminated", Len(s))
             [] st.mode = "cr" -> Verdict("syntax", Len(s) - 1)
             [] OTHER -> Verdict("ok", t.at)
    <3> HIDE DEF t
    <3> QED  BY Zenon, <1>1 DEF Judged
  <2>2. (beyond <=> over) /\ t.at = st.at + k
    BY <1>1, <1>4
  <2> HIDE DEF t, over, beyond, Verdict
  <2> QED  BY <2>1, <2>2
<1>5. \A v, at : /\ Verdict(v, at).at = at /\ Verdict(v, at).verdict = v
                 /\ Verdict(v, at).terminated = (st.mode = "ended")
                 /\ [Verdict(v, at) EXCEPT !.at = @ + k] = Verdict(v, at + k)
  OBVIOUS
<1> HIDE DEF Verdict, over, t
<1> DEFINE verdict == CASE st.mode = "malformed" -> "syntax"
                       [] st.mode = "too large" \/ (st.mode = "closed" /\ over) -> "too large"
                       [] st.mode \in {"quoted", "quoted_escaped"} -> "unterminated"
                       [] st.mode = "cr" -> "syntax"
                       [] OTHER -> "ok"
           Place1(n, a) == CASE st.mode = "malformed" -> a
                       [] st.mode = "too large" \/ (st.mode = "closed" /\ over) -> a
                       [] st.mode \in {"quoted", "quoted_escaped"} -> n
                       [] st.mode = "cr" -> n - 1
                       [] OTHER -> a
<1>6. \A n, a : Case(n, a, over) = Verdict(verdict, Place1(n, a))
  OBVIOUS
<1>7. Place1(Len(s), st.at + k) = Place1(Len(w), st.at) + k /\ (k + Len(w) = Len(s) \/ st.mode \notin Open)
  <2>1. CASE st.mode \in Open /\ k + Len(w) = Len(s)
    <3>1. Len(s) = Len(w) + k /\ Len(s) - 1 = (Len(w) - 1) + k
      BY <2>1
    <3> QED  BY <1>1, <2>1, <3>1
  <2>2. CASE st.mode \notin Open
    BY <1>1, <2>2 DEF Open
  <2>3. CASE st.mode \in Open /\ k + Len(w) # Len(s)
    <3>1. st.at = Len(w) /\ LastsIn(w, Verdict(verdict, Place1(Len(w), Len(w))))
      BY <1>2, <1>6, <2>3
    <3>2. verdict \in {"syntax", "too large", "unterminated", "ok"}
      OBVIOUS
    <3>3. Place1(Len(w), Len(w)) \in {Len(w), Len(w) - 1}
      OBVIOUS
    <3>4. verdict = "ok" => Place1(Len(w), Len(w)) = Len(w) /\ st.mode # "ended"
      BY <2>3 DEF Open
    <3> DEFINE at == Place1(Len(w), Len(w))
               v == verdict
    <3>5. /\ Verdict(v, at).at = at /\ Verdict(v, at).verdict = v
          /\ (Verdict(v, at).terminated => st.mode = "ended")
      <4> HIDE DEF at, v, Place1, verdict
      <4> QED  BY <1>5
    <3> HIDE DEF at, v, Place1, verdict, Case
    <3>6. LastsIn(w, Verdict(v, at)) /\ v \in {"syntax", "too large", "unterminated", "ok"}
          /\ at \in {Len(w), Len(w) - 1} /\ (v = "ok" => at = Len(w) /\ st.mode # "ended")
      BY <3>1, <3>2, <3>3, <3>4 DEF at, v
    <3> DEFINE x == Verdict(v, at)
    <3>7. /\ x.verdict = v /\ x.at = at /\ (x.terminated => st.mode = "ended") /\ LastsIn(w, x)
      BY <3>5, <3>6
    <3> HIDE DEF x
    <3>8. ~LastsIn(w, x)
      <4>1. CASE v = "ok"
        <5>1. at = Len(w) /\ Len(w) \in Nat
          BY <3>6, <4>1
        <5>2. ~(at < Len(w))
          BY ONLY <5>1
        <5>3. ~x.terminated
          BY <3>6, <3>7, <4>1
        <5> QED  BY <3>7, <4>1, <5>2, <5>3 DEF LastsIn
      <4>2. CASE v # "ok"
        <5>1. ~(at + 1 < Len(w))
          <6>1. at = Len(w) \/ at = Len(w) - 1
            BY <3>6
          <6>2. Len(w) \in Nat
            OBVIOUS
          <6> QED  BY ONLY <6>1, <6>2
        <5> QED  BY <3>7, <4>2, <5>1 DEF LastsIn
      <4> QED  BY <4>1, <4>2
    <3> QED  BY <3>7, <3>8
  <2> HIDE DEF Place1
  <2> QED  BY <2>1, <2>2, <2>3
<1> HIDE DEF verdict, Place1
<1> HIDE DEF Case
<1>8. Judged(f, s, k + p, t) = [Judged(f, w, p, st) EXCEPT !.at = @ + k]
  <2>1. Judged(f, s, k + p, t) = Verdict(verdict, Place1(Len(s), st.at + k))
    BY <1>3, <1>6
  <2>2. Judged(f, w, p, st) = Verdict(verdict, Place1(Len(w), st.at))
    BY <1>2, <1>6
  <2> QED  BY <1>5, <1>7, <2>1, <2>2
<1> QED  BY <1>7, <1>8 DEF t

(* try_read_window: however the stream goes on, a record that ends before  *)
(* the window does, or with a terminator that is its last byte, and an     *)
(* error before the last byte, are what the whole stream has there.        *)
THEOREM SettledRecord ==
    ASSUME NEW f, f.limit \in Nat, NEW w, Len(w) \in Nat, NEW s, Len(s) \in Nat, NEW k \in Nat,
           k + Len(w) <= Len(s), Alike(w, s, k), NEW p \in 0..Len(w),
           k + Len(w) = Len(s) \/ LastsIn(w, PhysicalRecord(f, w, p))
    PROVE  PhysicalRecord(f, s, k + p) = [PhysicalRecord(f, w, p) EXCEPT !.at = @ + k]
<1> DEFINE n == Len(w)
           z == Len(s)
           a(at) == [mode |-> "start", at |-> at, fields |-> 1, plain |-> TRUE]
           over == p + f.limit
           d == k + p
<1>0. /\ d \in 0..z /\ d \in Int /\ p \in Int /\ n \in Int /\ z \in Int /\ p <= n /\ k + n \in d..z
      /\ over \in Int /\ d + f.limit = over + k
  OBVIOUS
<1>1. PICK r :
         /\ r[p] = a(p)
         /\ \A i \in (p + 1)..n : r[i] = ReadByte(f, over, r[i - 1], w[i], i)
         /\ \A i \in p..n : r[i] \in States /\ (r[i].mode # "malformed" => r[i].at \in p..i)
         /\ PhysicalRecord(f, w, p) = Judged(f, w, p, r[n])
  BY ZenonT(60), PhysicalRecordRun
<1>2. PICK R :
         /\ R[d] = a(d)
         /\ \A i \in (d + 1)..z : R[i] = ReadByte(f, d + f.limit, R[i - 1], s[i], i)
         /\ \A i \in d..z : R[i] \in States /\ (R[i].mode # "malformed" => R[i].at \in d..i)
         /\ PhysicalRecord(f, s, d) = Judged(f, s, d, R[z])
  <2> HIDE DEF d
  <2> QED  BY ZenonT(60), <1>0, PhysicalRecordRun
<1> DEFINE T == {i \in p..n : R[k + i] = Later(r[i], k) /\ (r[i].mode \in Open => r[i].at = i)}
<1>3. p \in T
  <2>1. R[k + p] = a(d) /\ Later(a(p), k) = a(d) /\ a(p).at = p
    <3>1. Later(a(p), k) = a(d)
      <4>1. p + k = d
        OBVIOUS
      <4> DEFINE yes == TRUE
                 fresh == "start"
                 one == 1
      <4>2. Later(a(p), k) = [mode |-> "start", at |-> p + k, fields |-> 1, plain |-> TRUE]
        <5>1. \A at : a(at) = [mode |-> fresh, at |-> at, fields |-> one, plain |-> yes]
          OBVIOUS
        <5> HIDE DEF a, yes, fresh, one
        <5>2. Later(a(p), k) = a(p + k)
          BY <5>1, LaterOf
        <5> QED  BY <5>2 DEF a
      <4> HIDE DEF d
      <4> QED  BY <4>1, <4>2
    <3> QED  BY <1>2, <3>1
  <2>2. p \in p..n
    BY <1>0
  <2> HIDE DEF a, n
  <2> QED  BY <1>1, <2>1, <2>2
<1>4. ASSUME NEW i \in (p + 1)..n, i - 1 \in T
      PROVE  i \in T
  <2>1. i \in p..n /\ i \in Int /\ i - 1 \in p..n /\ k + i \in (d + 1)..z /\ k + i = i + k
        /\ (k + i) - 1 = k + (i - 1) /\ i \in 1..n
    BY <1>0
  <2> DEFINE t == r[i - 1]
             u == ReadByte(f, over, t, w[i], i)
  <2>2. t \in States /\ r[i] = u
    BY <1>1, <2>1
  <2>3. R[k + i] = ReadByte(f, over + k, Later(t, k), w[i], i + k)
    <3>1. R[k + i] = ReadByte(f, d + f.limit, R[(k + i) - 1], s[k + i], k + i)
      BY <1>2, <2>1
    <3>2. R[(k + i) - 1] = Later(t, k)
      BY <1>4, <2>1
    <3>3. s[k + i] = w[i]
      BY <2>1 DEF Alike
    <3> HIDE DEF T, t, d, over
    <3> QED  BY <1>0, <2>1, <3>1, <3>2, <3>3
  <2>4. /\ ReadByte(f, over + k, Later(t, k), w[i], i + k) = Later(u, k)
        /\ u.mode \in Open => u.at = i
    <3>1. k \in Int
      OBVIOUS
    <3> DEFINE b == w[i]
    <3>2. u = ReadByte(f, over, t, b, i)
      OBVIOUS
    <3> HIDE DEF t, over, u
    <3>3. ReadByte(f, over + k, Later(t, k), b, i + k) = Later(ReadByte(f, over, t, b, i), k)
          /\ (ReadByte(f, over, t, b, i).mode \in Open => ReadByte(f, over, t, b, i).at = i)
      BY ONLY <1>0, <2>1, <2>2, <3>1, ReadByteLater
    <3> HIDE DEF b
    <3> QED  BY <3>2, <3>3 DEF b
  <2> HIDE DEF u, t
  <2> QED  BY <2>1, <2>2, <2>3, <2>4
<1>5. R[k + n] = Later(r[n], k) /\ (r[n].mode \in Open => r[n].at = n) /\ r[n] \in States
  <2>1. n \in p..n
    BY <1>0
  <2>2. \A i \in p..n : i \in T
    <3> HIDE DEF T, n
    <3> QED  BY <1>0, <1>3, <1>4, Upward
  <2> QED  BY <1>1, <2>1, <2>2
<1> HIDE DEF T
<1> DEFINE st == r[n]
<1>6. /\ Judged(f, s, d, Later(st, k)) = [Judged(f, w, p, st) EXCEPT !.at = @ + k]
      /\ k + n = z \/ st.mode \notin Open
  <2>1. \/ k + n = z \/ st.mode \notin Open
        \/ st.at = n /\ LastsIn(w, Judged(f, w, p, st))
    BY <1>1, <1>5
  <2>2. st \in States /\ p \in Nat
    BY <1>5
  <2> HIDE DEF st
  <2> QED  BY <2>1, <2>2, JudgedLater
<1>7. R[z] = R[k + n]
  <2>1. CASE k + n = z
    BY <2>1
  <2>2. CASE st.mode \notin Open
    <3> DEFINE m == k + n
               S == {i \in m..z : R[i] = R[m]}
    <3>1. m \in S /\ m \in Int /\ R[m] \in States /\ R[m].mode \notin Open
      <4>1. Later(st, k).mode = st.mode
        <5>1. st \in States /\ k \in Int
          BY <1>5
        <5> QED  BY ONLY <5>1, LaterIs
      <4>2. m \in m..z /\ m \in d..z /\ m \in Int
        BY <1>0
      <4> HIDE DEF m, d, z
      <4>3. R[m] \in States
        BY <1>2, <4>2
      <4> QED  BY <1>5, <2>2, <4>1, <4>2, <4>3 DEF m
    <3>2. ASSUME NEW i \in (m + 1)..z, i - 1 \in S
          PROVE  i \in S
      <4>1. i \in Int /\ i \in m..z /\ i \in (d + 1)..z
        BY <1>0, <3>1
      <4>2. R[i] = ReadByte(f, d + f.limit, R[i - 1], s[i], i) /\ R[i - 1] = R[m]
        BY <1>2, <3>2, <4>1
      <4>3. d + f.limit \in Int
        BY <1>0
      <4> HIDE DEF m, d
      <4>4. R[i] = R[m]
        BY <3>1, <4>2, ReadByteStops
      <4> QED  BY <4>1, <4>4
    <3>3. z \in m..z
      BY <1>0
    <3> HIDE DEF S, m, z
    <3>4. z \in S
      BY <1>0, <3>1, <3>2, <3>3, Upward
    <3> QED  BY <3>4 DEF S, m
  <2> QED  BY <1>6, <2>1, <2>2
<1> QED  BY <1>1, <1>2, <1>5, <1>6, <1>7


(* Where a record or an error lies is in what was read.                    *)
LEMMA ReadByteAt ==
    ASSUME NEW f, NEW over \in Int, NEW s \in States, NEW b, NEW i \in Int
    PROVE  \/ ReadByte(f, over, s, b, i) = s
           \/ ReadByte(f, over, s, b, i).at = i
           \/ ReadByte(f, over, s, b, i).at = i - 1 /\ ReadByte(f, over, s, b, i).mode = "malformed"
           \/ /\ ReadByte(f, over, s, b, i).at = i - 2 /\ ReadByte(f, over, s, b, i).mode = "malformed"
              /\ s.mode = "cr"
<1> DEFINE m == NextMode(f, s.mode, b)
           mode == CASE m = "malformed" -> m
                     [] m # "malformed" /\ i > over
                          /\ m # "closed" /\ ~(s.mode = "closed" /\ m = "field") -> "too large"
                     [] OTHER -> IF m = "start" THEN "ended" ELSE m
           at == IF m # "malformed" THEN i ELSE IF s.mode = "cr" THEN i - 2 ELSE i - 1
           fields == IF m = "field" THEN s.fields + 1 ELSE s.fields
           plain == s.plain /\ b # "quote" /\ ~(f.escapes /\ b = "esc")
           t == [mode |-> mode, at |-> at, fields |-> fields, plain |-> plain]
<1>1. ReadByte(f, over, s, b, i) = s \/ ReadByte(f, over, s, b, i) = t
  BY Zenon DEF ReadByte
<1>2. t.at = at /\ t.mode = mode
  OBVIOUS
<1>3. m = "malformed" => mode = "malformed"
  <2> HIDE DEF m
  <2> QED  OBVIOUS
<1> HIDE DEF mode, m, t
<1> QED  BY <1>1, <1>2, <1>3

LEMMA RecordReaches ==
    ASSUME NEW f, f.limit \in Int, NEW w, Len(w) \in Nat, NEW p \in 0..Len(w)
    PROVE  PhysicalRecord(f, w, p).at \in p..Len(w)
<1> DEFINE n == Len(w)
<1>0. p \in Int /\ n \in Int /\ p <= n /\ p + f.limit \in Int
  OBVIOUS
<1>1. PICK run :
         /\ run[p] = [mode |-> "start", at |-> p, fields |-> 1, plain |-> TRUE]
         /\ \A i \in (p + 1)..Len(w) :
               run[i] = ReadByte(f, p + f.limit, run[i - 1], w[i], i)
         /\ \A i \in p..Len(w) :
               run[i] \in States /\ (run[i].mode # "malformed" => run[i].at \in p..i)
         /\ PhysicalRecord(f, w, p) = Judged(f, w, p, run[Len(w)])
  BY ZenonT(60), PhysicalRecordRun
<1> DEFINE T == {i \in p..n : run[i].at \in p..i /\ (run[i].mode = "cr" => i > p)}
<1>2. p \in T
  <2>1. run[p].at = p /\ run[p].mode = "start"
    BY <1>1
  <2>2. p \in p..n /\ p \in p..p
    BY <1>0
  <2> HIDE DEF n
  <2> QED  BY <2>1, <2>2
<1>3. ASSUME NEW i \in (p + 1)..n, i - 1 \in T
      PROVE  i \in T
  <2>1. i \in Int /\ i \in p..n /\ i - 1 \in p..n /\ i > p
    BY <1>0
  <2> DEFINE s == run[i - 1]
             t == run[i]
  <2>2. s \in States /\ t = ReadByte(f, p + f.limit, s, w[i], i)
        /\ (t.mode # "malformed" => t.at \in p..i)
    BY <1>1, <2>1
  <2>3. s.at \in p..(i - 1) /\ (s.mode = "cr" => i - 1 > p)
    BY <1>3
  <2> HIDE DEF s, t
  <2>4. \/ t = s \/ t.at = i \/ t.at = i - 1 \/ (t.at = i - 2 /\ s.mode = "cr")
    BY <1>0, <2>1, <2>2, ReadByteAt
  <2>5. t.at \in p..i
    BY <1>0, <2>1, <2>3, <2>4
  <2> QED  BY <2>1, <2>5 DEF t
<1>4. \A i \in p..n : i \in T
  <2> HIDE DEF T, n
  <2> QED  BY <1>0, <1>2, <1>3, Upward
<1> DEFINE s == run[n]
           Verdict(v, at) == [verdict |-> v, at |-> at, terminated |-> s.mode = "ended",
                              fields |-> s.fields, plain |-> s.plain]
<1>5. s.at \in p..n /\ (s.mode = "cr" => n > p)
  <2>1. n \in p..n
    BY <1>0
  <2> QED  BY <1>4, <2>1
<1>6. PhysicalRecord(f, w, p) =
         CASE s.mode = "malformed" -> Verdict("syntax", s.at)
           [] s.mode = "too large" \/ (s.mode = "closed" /\ s.at > p + f.limit) ->
                Verdict("too large", s.at)
           [] s.mode \in {"quoted", "quoted_escaped"} -> Verdict("unterminated", n)
           [] s.mode = "cr" -> Verdict("syntax", n - 1)
           [] OTHER -> Verdict("ok", s.at)
  BY Zenon, <1>1 DEF Judged
<1>7. \A v, at : Verdict(v, at).at = at
  OBVIOUS
<1> HIDE DEF s, Verdict, T
<1>8. \E v, at : /\ PhysicalRecord(f, w, p) = Verdict(v, at)
                 /\ at = s.at \/ at = n \/ (at = n - 1 /\ s.mode = "cr")
  BY <1>6
<1>9. \A at : at = s.at \/ at = n \/ (at = n - 1 /\ s.mode = "cr") => at \in p..n
  BY <1>0, <1>5
<1> QED  BY <1>7, <1>8, <1>9


-----------------------------------------------------------------------------
(* A record of s from p to `end`, and an error in one, `line` being that of*)
(* the first byte.                                                         *)
EndsAt(f, s, p, end) ==
    /\ p \in 0..Len(s)
    /\ PhysicalRecord(f, s, p).verdict = "ok"
    /\ PhysicalRecord(f, s, p).at = end
FromRecord == {"syntax", "too large", "unterminated", "width"}
Blames(f, s, line, error) ==
    error.kind \in FromRecord =>
        /\ error.line = line + Feeds(s, 0, error.byte)
        /\ \E p \in 0..Len(s) :
              /\ PhysicalRecord(f, s, p).verdict = IF error.kind = "width" THEN "ok" ELSE error.kind
              /\ PhysicalRecord(f, s, p).at = error.byte

LEMMA RecordShape ==
    ASSUME NEW f, NEW w, Len(w) \in Nat, NEW p \in 0..Len(w)
    PROVE  DOMAIN PhysicalRecord(f, w, p) = {"verdict", "at", "terminated", "fields", "plain"}
<1>1. PICK run :
         /\ run[p] = [mode |-> "start", at |-> p, fields |-> 1, plain |-> TRUE]
         /\ \A i \in (p + 1)..Len(w) :
               run[i] = ReadByte(f, p + f.limit, run[i - 1], w[i], i)
         /\ \A i \in p..Len(w) :
               run[i] \in States /\ (run[i].mode # "malformed" => run[i].at \in p..i)
         /\ PhysicalRecord(f, w, p) = Judged(f, w, p, run[Len(w)])
  BY ZenonT(60), PhysicalRecordRun
<1> DEFINE s == run[Len(w)]
           Verdict(v, at) == [verdict |-> v, at |-> at, terminated |-> s.mode = "ended",
                              fields |-> s.fields, plain |-> s.plain]
<1>2. PhysicalRecord(f, w, p) =
         CASE s.mode = "malformed" -> Verdict("syntax", s.at)
           [] s.mode = "too large" \/ (s.mode = "closed" /\ s.at > p + f.limit) ->
                Verdict("too large", s.at)
           [] s.mode \in {"quoted", "quoted_escaped"} -> Verdict("unterminated", Len(w))
           [] s.mode = "cr" -> Verdict("syntax", Len(w) - 1)
           [] OTHER -> Verdict("ok", s.at)
  BY Zenon, <1>1 DEF Judged
<1>3. \A v, at : DOMAIN Verdict(v, at) = {"verdict", "at", "terminated", "fields", "plain"}
  OBVIOUS
<1> HIDE DEF s, Verdict
<1> QED  BY <1>2, <1>3

(* What is settled in the window is so in the stream (window_settled and   *)
(* truncated_by_window).                                                   *)
LEMMA EndsLater ==
    ASSUME NEW f, f.limit \in Nat, NEW w, Len(w) \in Nat, NEW s, Len(s) \in Nat, NEW k \in Nat,
           k + Len(w) <= Len(s), Alike(w, s, k), NEW p, NEW end, EndsAt(f, w, p, end),
           k + Len(w) = Len(s) \/ end < Len(w) \/ PhysicalRecord(f, w, p).terminated
    PROVE  EndsAt(f, s, k + p, k + end)
<1> DEFINE r == PhysicalRecord(f, w, p)
           l == [r EXCEPT !.at = @ + k]
<1>1. p \in 0..Len(w) /\ r.verdict = "ok" /\ r.at = end
  BY DEF EndsAt
<1>2. k + Len(w) = Len(s) \/ LastsIn(w, r)
  BY <1>1 DEF LastsIn
<1>3. PhysicalRecord(f, s, k + p) = l
  BY <1>1, <1>2, SettledRecord
<1>4. r.at \in p..Len(w)
  <2>1. f.limit \in Int
    OBVIOUS
  <2> QED  BY <1>1, <2>1, RecordReaches
<1>5. l.verdict = "ok" /\ l.at = k + end
  <2>1. l.verdict = r.verdict /\ l.at = r.at + k
    <3>2. DOMAIN r = {"verdict", "at", "terminated", "fields", "plain"}
      BY <1>1, RecordShape
    <3> HIDE DEF r
    <3> QED  BY <3>2
  <2> HIDE DEF r, l
  <2> QED  BY <1>1, <1>4, <2>1
<1>6. k + p \in 0..Len(s)
  BY <1>1
<1> QED  BY <1>3, <1>5, <1>6 DEF EndsAt

LEMMA BlamesLater ==
    ASSUME NEW f, f.limit \in Nat, NEW w, Len(w) \in Nat, NEW s, Len(s) \in Nat, NEW k \in Nat,
           k + Len(w) <= Len(s), Alike(w, s, k), NEW error \in ErrorsAt,
           Blames(f, w, 1 + Feeds(s, 0, k), error), k + Len(w) = Len(s) \/ ~Truncated(w, error)
    PROVE  Blames(f, s, 1, [error EXCEPT !.byte = @ + k])
<1> DEFINE later == [error EXCEPT !.byte = @ + k]
           byte == error.byte
<1>1. later.kind = error.kind /\ later.line = error.line /\ later.byte = byte + k
      /\ error.kind \in Kinds /\ byte \in Int
  BY DEF ErrorsAt
<1> SUFFICES ASSUME error.kind \in FromRecord
             PROVE  /\ error.line = 1 + Feeds(s, 0, byte + k)
                    /\ \E p \in 0..Len(s) :
                          /\ PhysicalRecord(f, s, p).verdict =
                                IF error.kind = "width" THEN "ok" ELSE error.kind
                          /\ PhysicalRecord(f, s, p).at = byte + k
  <2> HIDE DEF later, byte
  <2> QED  BY <1>1 DEF Blames, byte, later
<1>2. PICK p \in 0..Len(w) :
         /\ PhysicalRecord(f, w, p).verdict = IF error.kind = "width" THEN "ok" ELSE error.kind
         /\ PhysicalRecord(f, w, p).at = byte
  BY DEF Blames
<1> DEFINE r == PhysicalRecord(f, w, p)
           l == [r EXCEPT !.at = @ + k]
<1>3. byte \in p..Len(w)
  <2>1. f.limit \in Int
    OBVIOUS
  <2>2. r.at \in p..Len(w)
    BY <2>1, RecordReaches
  <2> QED  BY <1>2, <2>2
<1>4. k + Len(w) = Len(s) \/ LastsIn(w, r)
  <2>1. CASE k + Len(w) = Len(s)
    BY <2>1
  <2>2. CASE ~Truncated(w, error)
    <3>1. error.kind # "unterminated" /\ ~(byte + 1 >= Len(w))
      BY <2>2 DEF Truncated
    <3>2. byte + 1 < Len(w) /\ byte < Len(w)
      BY <1>3, <3>1
    <3>3. r.verdict \in {"ok", "syntax", "too large"} /\ r.at = byte
      BY <1>2, <3>1 DEF FromRecord
    <3> HIDE DEF r, byte
    <3> QED  BY <3>2, <3>3 DEF LastsIn
  <2> QED  BY <2>1, <2>2
<1>5. PhysicalRecord(f, s, k + p) = l
  BY <1>4, SettledRecord
<1>6. l.verdict = r.verdict /\ l.at = r.at + k
  <2>2. DOMAIN r = {"verdict", "at", "terminated", "fields", "plain"}
    BY RecordShape
  <2> HIDE DEF r
  <2> QED  BY <2>2
<1>7. Feeds(s, 0, byte + k) = Feeds(s, 0, k) + Feeds(w, 0, byte)
  <2>1. 0 \in Int /\ byte \in Int /\ k \in Int /\ k + 0 = k /\ 0 <= k /\ k <= byte + k
        /\ byte + k \in Int /\ k + byte = byte + k
    BY <1>3
  <2>2. AlikeFrom(w, s, 0, byte, k)
    <3>1. \A i \in (0 + 1)..byte : i \in 1..Len(w)
      BY <1>3
    <3> HIDE DEF byte
    <3> QED  BY <3>1 DEF Alike, AlikeFrom
  <2> HIDE DEF byte
  <2>3. FeedAlike(w, s, 0, byte, k)
    BY <2>1, <2>2, FeedsOfAlike
  <2>4. Feeds(s, 0, byte + k) = Feeds(s, 0, k) + Feeds(s, k, byte + k)
    BY <2>1, FeedsSum
  <2> QED  BY <2>1, <2>3, <2>4 DEF FeedAlike
<1>8. error.line = 1 + Feeds(s, 0, byte + k)
  <2>1. error.line = (1 + Feeds(s, 0, k)) + Feeds(w, 0, byte)
    BY DEF Blames
  <2>2. Feeds(s, 0, k) \in Nat /\ Feeds(w, 0, byte) \in Nat
    BY <1>1, FeedsType
  <2> HIDE DEF byte
  <2> QED  BY <1>7, <2>1, <2>2
<1>9. k + p \in 0..Len(s)
  OBVIOUS
<1>10. PhysicalRecord(f, s, k + p).verdict = r.verdict /\ PhysicalRecord(f, s, k + p).at = r.at + k
  BY <1>5, <1>6
<1> HIDE DEF r
<1>11. r.verdict = (IF error.kind = "width" THEN "ok" ELSE error.kind) /\ r.at = byte
  BY <1>2 DEF r
<1> QED  BY <1>8, <1>9, <1>10, <1>11


-----------------------------------------------------------------------------
(* What is told of a record, and what is blamed, is in the window.         *)
BlamesHere(f, w, e, o) == o.tag = "error" => Blames(f, w, e.line_base, o.error)

LEMMA ParseRecordTells ==
    ASSUME NEW f, f.limit \in Nat, NEW q \in Parsers, Suits(q, f), NEW w, Len(w) \in Nat,
           NEW e \in Engines(Len(w), q), NEW owned
    PROVE  /\ BlamesHere(f, w, e, ParseRecord(f, w, e, owned))
           /\ ParseRecord(f, w, e, owned).tag = "record" =>
                 /\ EndsAt(f, w, e.location, ParseRecord(f, w, e, owned).engine.location)
                 /\ HasRead(f, w, e.location, ParseRecord(f, w, e, owned).engine)
                 /\ ParseRecord(f, w, e, owned).terminated
                       = PhysicalRecord(f, w, e.location).terminated
           /\ ParseRecord(f, w, e, owned).tag = "record" <=>
                 /\ PhysicalRecord(f, w, e.location).verdict = "ok"
                 /\ f.match_first =>
                       e.expected \in {0, PhysicalRecord(f, w, e.location).fields}
<1> DEFINE p == e.location
           record == PhysicalRecord(f, w, p)
           x == Fold(f, e, record, owned)
           parsed == [x EXCEPT !.location = record.at]
           passed == [parsed EXCEPT !.record_index = @ + 1,
                                    !.expected = IF f.match_first THEN record.fields ELSE @]
           Fails(c, kind, at) == Failure([c EXCEPT !.failed = TRUE], ErrorAt(w, c, kind, at))
           o == ParseRecord(f, w, e, owned)
<1>1. o = CASE record.verdict # "ok" -> Fails(e, record.verdict, record.at)
            [] /\ record.verdict = "ok"
               /\ f.match_first /\ e.expected \notin {0, record.fields} ->
                 Fails(parsed, "width", record.at)
            [] OTHER -> Record(passed, record.terminated)
  BY Zenon DEF ParseRecord, record, parsed, passed, Fails, x, p
<1>2. /\ p \in 0..Len(w) /\ record.verdict \in Verdicts
      /\ record.at \in p..Len(w) /\ record.terminated \in BOOLEAN
  <2>1. p \in 0..Len(w) /\ f.limit \in Int
    BY DEF Engines
  <2> HIDE DEF p
  <2> QED  BY <2>1, PhysicalRecordType, RecordReaches
<1>3. ASSUME NEW c, NEW kind, NEW at, c.line_base = e.line_base
      PROVE  /\ Fails(c, kind, at).tag = "error"
             /\ Fails(c, kind, at).error.kind = kind /\ Fails(c, kind, at).error.byte = at
             /\ Fails(c, kind, at).error.line = e.line_base + Feeds(w, 0, at)
  BY <1>3 DEF Failure, ErrorAt
<1>4. ASSUME NEW c, NEW t
      PROVE  Record(c, t).engine = c /\ Record(c, t).tag = "record" /\ Record(c, t).terminated = t
  BY DEF Record
<1>5. x \in {e, [e EXCEPT !.folded_upto = record.at,
                          !.folded_lines = @ + (IF record.terminated THEN 1 ELSE 0)]}
  BY DEF Fold
<1>6. /\ parsed.line_base = e.line_base /\ passed.location = record.at
      /\ f.match_first => passed.expected = record.fields
  <2>1. x.line_base = e.line_base /\ DOMAIN x = DOMAIN e
    <3> DEFINE lines == e.folded_lines + (IF record.terminated THEN 1 ELSE 0)
    <3>1. x = e \/ x = [e EXCEPT !.folded_upto = record.at, !.folded_lines = lines]
      BY <1>5 DEF Engines
    <3> HIDE DEF x, record, lines
    <3> QED  BY <3>1 DEF Engines
  <2>2. DOMAIN e = DOMAIN NewEngine
    BY DEF Engines, NewEngine
  <2> HIDE DEF x, record
  <2>3. parsed.line_base = e.line_base /\ DOMAIN parsed = DOMAIN e /\ parsed.location = record.at
    BY <2>1, <2>2 DEF NewEngine
  <2> HIDE DEF parsed
  <2> QED  BY <2>2, <2>3 DEF NewEngine
<1> HIDE DEF Fails, x, parsed, passed, record, p
<1>7. CASE record.verdict # "ok"
  <2> DEFINE y == Fails(e, record.verdict, record.at)
  <2>1. o = y
    BY <1>1, <1>7
  <2>2. /\ y.tag = "error" /\ y.error.kind = record.verdict /\ y.error.byte = record.at
        /\ y.error.line = e.line_base + Feeds(w, 0, record.at)
    BY <1>3
  <2> HIDE DEF y
  <2>3. y.error.kind # "width"
    BY <1>2, <2>2 DEF Verdicts
  <2>4. Blames(f, w, e.line_base, y.error)
    BY <1>2, <2>2, <2>3 DEF Blames, record
  <2> QED  BY <1>7, <2>1, <2>2, <2>4 DEF BlamesHere, record, p
<1>8. CASE record.verdict = "ok" /\ f.match_first /\ e.expected \notin {0, record.fields}
  <2> DEFINE y == Fails(parsed, "width", record.at)
  <2>1. o = y
    BY <1>1, <1>8
  <2>2. /\ y.tag = "error" /\ y.error.kind = "width" /\ y.error.byte = record.at
        /\ y.error.line = e.line_base + Feeds(w, 0, record.at)
    BY <1>3, <1>6
  <2> HIDE DEF y
  <2>4. Blames(f, w, e.line_base, y.error)
    BY <1>2, <1>8, <2>2 DEF Blames, record
  <2> QED  BY <1>8, <2>1, <2>2, <2>4 DEF BlamesHere, record, p
<1>9. CASE record.verdict = "ok" /\ ~(f.match_first /\ e.expected \notin {0, record.fields})
  <2> DEFINE y == Record(passed, record.terminated)
  <2>1. o = y
    BY <1>1, <1>9
  <2>2. y.engine = passed /\ y.tag = "record" /\ y.terminated = record.terminated
    BY <1>4
  <2> HIDE DEF y
  <2>3. EndsAt(f, w, p, y.engine.location) /\ HasRead(f, w, p, y.engine)
    BY <1>2, <1>6, <1>9, <2>2 DEF EndsAt, HasRead, record
  <2> QED  BY <1>9, <2>1, <2>2, <2>3 DEF BlamesHere, record, p
<1> QED  BY <1>7, <1>8, <1>9

LEMMA NextRecordBlames ==
    ASSUME NEW f, f.limit \in Nat, NEW q \in Parsers, Suits(q, f), NEW w, Len(w) \in Nat,
           NEW e \in Engines(Len(w), q), Tallied(w, e)
    PROVE  BlamesHere(f, w, e, NextRecord(f, w, e))
<1> DEFINE c == IF SkipsRecords(f) THEN SkipIgnored(f, w, e) ELSE e
<1>1. c \in Engines(Len(w), q) /\ c.line_base = e.line_base
  BY SkipIgnoredType, SkipIgnoredCounts DEF Tallied, KeepsTally
<1>2. NextRecord(f, w, e) = IF c.location = Len(w) THEN Nothing(c) ELSE ParseRecord(f, w, c, FALSE)
  BY DEF NextRecord
<1> HIDE DEF c
<1>3. BlamesHere(f, w, c, ParseRecord(f, w, c, FALSE))
  BY <1>1, ParseRecordTells
<1>4. \A d : Nothing(d).tag = "none"
  BY DEF Nothing
<1> DEFINE o == NextRecord(f, w, e)
           x == ParseRecord(f, w, c, FALSE)
<1>5. o = x \/ o.tag = "none"
  BY <1>2, <1>4
<1> HIDE DEF o, x
<1>6. BlamesHere(f, w, c, x)
  BY <1>3 DEF x
<1>7. BlamesHere(f, w, e, o)
  BY <1>1, <1>5, <1>6 DEF BlamesHere
<1> QED  BY <1>7 DEF o

LEMMA HeadersBlame ==
    ASSUME NEW f, f.limit \in Nat, NEW q \in Parsers, Suits(q, f), NEW w, Len(w) \in Nat,
           NEW e \in Engines(Len(w), q), Tallied(w, e)
    PROVE  /\ BlamesHere(f, w, e, HeadersOfInput(f, w, e))
           /\ BlamesHere(f, w, e, HeadersOfWindow(f, w, e))
<1> DEFINE c == KnowHeaders(e)
           o == NextRecord(f, w, e)
           Ensured == IF o.tag = "record" /\ o.engine.location < Len(w)
                        THEN Nothing(KnowHeaders(o.engine))
                        ELSE IF o.tag = "error" THEN o ELSE Nothing(o.engine)
<1>1. c \in Engines(Len(w), q) /\ Tallied(w, c) /\ c.line_base = e.line_base
  BY KnowHeadersType DEF KnowHeaders, Tallied, Engines
<1>2. \A d : Nothing(d).tag = "none"
  BY DEF Nothing
<1>3. HeadersOfInput(f, w, e) = IF e.headers \/ ~f.headers THEN Nothing(c) ELSE NextRecord(f, w, c)
  BY Zenon DEF HeadersOfInput
<1>4. HeadersOfWindow(f, w, e) = IF e.headers \/ ~f.headers THEN Nothing(c) ELSE Ensured
  BY Zenon DEF HeadersOfWindow
<1> HIDE DEF c
<1>5. BlamesHere(f, w, c, NextRecord(f, w, c))
  BY <1>1, NextRecordBlames
<1>6. BlamesHere(f, w, e, o)
  BY NextRecordBlames
<1> HIDE DEF o
<1> QED  BY <1>1, <1>2, <1>3, <1>4, <1>5, <1>6 DEF BlamesHere

LEMMA SettleBlames ==
    ASSUME NEW f, f.limit \in Nat, NEW q \in Parsers, Suits(q, f), NEW w, Len(w) \in Nat,
           NEW e \in Engines(Len(w), q)
    PROVE  BlamesHere(f, w, e, Settle(f, w, e))
<1> DEFINE c == [e EXCEPT !.record_index = e.cursor_index]
<1>1. c \in Engines(Len(w), q) /\ c.line_base = e.line_base
  BY DEF Engines
<1>2. Settle(f, w, e) = IF e.location = e.cursor_start THEN ParseRecord(f, w, c, FALSE) ELSE Nothing(e)
  BY DEF Settle
<1> HIDE DEF c
<1>3. BlamesHere(f, w, c, ParseRecord(f, w, c, FALSE))
  BY <1>1, ParseRecordTells
<1>4. \A d : Nothing(d).tag = "none"
  BY DEF Nothing
<1> DEFINE o == Settle(f, w, e)
           x == ParseRecord(f, w, c, FALSE)
<1>5. o = x \/ o.tag = "none"
  BY <1>2, <1>4
<1> HIDE DEF o, x
<1>6. BlamesHere(f, w, c, x)
  BY <1>3 DEF x
<1>7. BlamesHere(f, w, e, o)
  BY <1>1, <1>5, <1>6 DEF BlamesHere
<1> QED  BY <1>7 DEF o


-----------------------------------------------------------------------------
(* A record that a try finds is the window's from where it is positioned.  *)
Ready(f, w, e) ==
    /\ e.cursor_start \in 0..Len(w) /\ e.cursor_start < Len(w)
    /\ HasRead(f, w, e.cursor_start, e)
Finds(f, w, e, o, owned) ==
    /\ BlamesHere(f, w, e, o)
    /\ o.tag = "record" =>
          /\ Ready(f, w, o.engine)
          /\ ~owned => o.engine.cursor_end = o.engine.location
          /\ o.terminated =>
                \/ PhysicalRecord(f, w, o.engine.cursor_start).terminated
                \/ owned /\ EndedOnTerminator(f, w, o.engine)

LEMMA PositionOpens ==
    ASSUME NEW f, NEW q \in Parsers, Suits(q, f), NEW w, Len(w) \in Nat,
           NEW e \in Engines(Len(w), q), Positioned(Position(f, w, e))
    PROVE  /\ Position(f, w, e).cursor_start = Position(f, w, e).location
           /\ Position(f, w, e).location < Len(w) /\ Position(f, w, e).cursor_end = NO_OFFSET
<1> DEFINE n == Len(w)
           restored ==
               IF ~e.resume.ignored /\ e.resume.record_start <= Len(w)
                 THEN [e EXCEPT !.location = Max({@, e.resume.record_start})] ELSE e
           c == IF SkipsRecords(f) THEN SkipIgnored(f, w, restored) ELSE e
           x == [c EXCEPT !.cursor_start = NO_OFFSET]
           y == [c EXCEPT !.cursor_start = c.location, !.cursor_index = c.record_index,
                          !.cursor_end = NO_OFFSET]
           d == Position(f, w, e)
<1>1. d = IF c.location = n THEN x ELSE y
  BY Zenon DEF Position, c, restored, x, y
<1>2. d \in Engines(n, q)
  BY PositionType
<1> HIDE DEF c
<1>3. DOMAIN x = DOMAIN c /\ DOMAIN y = DOMAIN c
  OBVIOUS
<1>4. DOMAIN c = DOMAIN NewEngine
  <2>1. DOMAIN d = DOMAIN NewEngine
    BY <1>2 DEF Engines, NewEngine
  <2> HIDE DEF x, y, d
  <2> QED  BY <1>1, <1>3, <2>1
<1>5. x.cursor_start = NO_OFFSET /\ y.cursor_start = y.location /\ y.cursor_end = NO_OFFSET
      /\ y.location = c.location
  <2> HIDE DEF x
  <2>1. x = [c EXCEPT !.cursor_start = NO_OFFSET]
    BY DEF x
  <2>2. {"cursor_start", "cursor_end", "location", "cursor_index"} \subseteq DOMAIN c
    BY <1>4 DEF NewEngine
  <2> QED  BY <2>1, <2>2
<1> HIDE DEF x, y, d
<1>6. d = y /\ c.location # n
  BY <1>1, <1>5 DEF Positioned, d
<1>7. d.location \in 0..n
  BY <1>2 DEF Engines
<1>8. d.location < n
  BY <1>5, <1>6, <1>7
<1> QED  BY <1>5, <1>6, <1>8 DEF d

LEMMA FindsNothing ==
    ASSUME NEW f, NEW w, NEW e, NEW c, NEW owned
    PROVE  Finds(f, w, e, Nothing(c), owned)
<1>1. Nothing(c).tag = "none"
  BY DEF Nothing
<1> HIDE DEF Nothing
<1> QED  BY <1>1 DEF Finds, BlamesHere

LEMMA FindsOn ==
    ASSUME NEW f, NEW w, NEW e, NEW c, NEW o, NEW owned, c.line_base = e.line_base,
           Finds(f, w, c, o, owned)
    PROVE  Finds(f, w, e, o, owned)
BY DEF Finds, BlamesHere

LEMMA CheckpointFinds ==
    ASSUME NEW f, NEW q \in Parsers, NEW w, NEW n \in Nat, NEW e, NEW start, NEW o \in Outs(n, q),
           NEW owned, Finds(f, w, e, o, owned)
    PROVE  Finds(f, w, e, Checkpoint(w, start, o), owned)
<1> DEFINE c == o.engine
           d == [c EXCEPT !.resume = Fresh(start)]
           p == [o EXCEPT !.engine = d]
<1>1. c \in Engines(n, q)
  BY DEF Outs
<1>2. Checkpoint(w, start, o) \in {o, p}
  BY DEF Checkpoint, Outs
<1>3. p.engine = d /\ p.tag = o.tag /\ p.terminated = o.terminated /\ p.error = o.error
  BY DEF Outs
<1>4. /\ d.location = c.location /\ d.cursor_start = c.cursor_start /\ d.cursor_end = c.cursor_end
      /\ d.expected = c.expected
  BY <1>1 DEF Engines
<1> HIDE DEF d, p
<1>5. BlamesHere(f, w, e, p)
  BY <1>3 DEF Finds, BlamesHere
<1>6. o.tag = "record" =>
          /\ Ready(f, w, d)
          /\ ~owned => d.cursor_end = d.location
          /\ o.terminated =>
                \/ PhysicalRecord(f, w, d.cursor_start).terminated
                \/ owned /\ EndedOnTerminator(f, w, d)
  <2>1. EndedOnTerminator(f, w, c) => EndedOnTerminator(f, w, d)
    BY <1>4 DEF EndedOnTerminator
  <2>2. Ready(f, w, c) => Ready(f, w, d)
    BY <1>4 DEF Ready, HasRead
  <2> QED  BY <1>4, <2>1, <2>2 DEF Finds
<1>7. Finds(f, w, e, p, owned)
  BY <1>3, <1>5, <1>6 DEF Finds
<1> QED  BY <1>2, <1>7

LEMMA TryWindowFinds ==
    ASSUME NEW f, f.limit \in Nat, "lf" \notin f.skips, NEW q \in Parsers, Suits(q, f), NEW w,
           Len(w) \in Nat, NEW e \in Engines(Len(w), q), Tallied(w, e), NEW owned \in BOOLEAN
    PROVE  Finds(f, w, e, TryWindow(f, w, e, owned), owned)
<1> DEFINE n == Len(w)
           Ended(o) ==
               IF owned /\ o.tag = "record"
                 THEN [o EXCEPT !.terminated = @ \/ EndedOnTerminator(f, w, o.engine)]
                 ELSE [o EXCEPT !.engine.cursor_end =
                                   IF o.tag = "record" THEN o.engine.location ELSE @]
           Parsed(c, scan) ==
               IF c.resume.record_start = c.location /\ scan.verdict = "lacks"
                 THEN Nothing(Paused(c, scan))
                 ELSE Checkpoint(w, c.location, Ended(ParseRecord(f, w, c, owned)))
           PositionedAt(c) == IF Positioned(c) THEN Parsed(c, LacksScan(f, w, c)) ELSE Nothing(c)
           Onward(o) ==
               IF o.tag = "error" THEN o ELSE PositionedAt(Position(f, w, o.engine))
           Headed(o) == IF o.tag # "error" /\ (owned \/ o.engine.headers)
                          THEN Onward(Settle(f, w, o.engine)) ELSE o
           IsFine(c, o) == Finds(f, w, c, o, owned)
<1>1. ASSUME NEW o \in Outs(n, q)
      PROVE  /\ Ended(o) \in Outs(n, q) /\ Ended(o).tag = o.tag /\ Ended(o).error = o.error
             /\ Ended(o).engine.cursor_start = o.engine.cursor_start
             /\ Ended(o).engine.location = o.engine.location
             /\ Ended(o).engine.expected = o.engine.expected
             /\ ~owned /\ o.tag = "record" => Ended(o).engine.cursor_end = o.engine.location
             /\ Ended(o).terminated =>
                   \/ o.terminated
                   \/ owned /\ EndedOnTerminator(f, w, Ended(o).engine)
  <2>1. /\ o.engine \in Engines(n, q) /\ o.terminated \in BOOLEAN
        /\ EndedOnTerminator(f, w, o.engine) \in BOOLEAN
    BY DEF Outs, EndedOnTerminator
  <2> DEFINE last == IF o.tag = "record" THEN o.engine.location ELSE o.engine.cursor_end
             t == o.terminated \/ EndedOnTerminator(f, w, o.engine)
             c == [o EXCEPT !.terminated = t]
             d == [o.engine EXCEPT !.cursor_end = last]
             b == [o EXCEPT !.engine = d]
  <2>2. last \in Int /\ t \in BOOLEAN
    BY SMTT(30), <2>1 DEF Engines
  <2>3. \/ owned /\ o.tag = "record" /\ Ended(o) = c
        \/ ~(owned /\ o.tag = "record") /\ Ended(o) = b
    BY <2>1 DEF Outs
  <2>4. o.tag = "record" => last = o.engine.location
    OBVIOUS
  <2> HIDE DEF last, Ended
  <2>5. /\ d \in Engines(n, q) /\ d.cursor_start = o.engine.cursor_start
        /\ d.location = o.engine.location /\ d.cursor_end = last
        /\ d.expected = o.engine.expected
    BY <2>1, <2>2 DEF Engines
  <2> HIDE DEF d, t
  <2>6. /\ c \in Outs(n, q) /\ c.tag = o.tag /\ c.error = o.error /\ c.engine = o.engine
        /\ c.terminated = t
        /\ b \in Outs(n, q) /\ b.tag = o.tag /\ b.error = o.error /\ b.engine = d
        /\ b.terminated = o.terminated
    BY <2>1, <2>2, <2>5 DEF Outs
  <2> HIDE DEF c, b
  <2>7. CASE owned /\ o.tag = "record" /\ Ended(o) = c
    BY <2>6, <2>7 DEF t
  <2>8. CASE ~(owned /\ o.tag = "record") /\ Ended(o) = b
    BY <2>4, <2>5, <2>6, <2>8
  <2> QED  BY <2>3, <2>7, <2>8
<1>2. ASSUME NEW c \in Engines(n, q), Tallied(w, c), c.cursor_start = c.location,
             c.location < n, NEW scan \in Scans
      PROVE  IsFine(c, Parsed(c, scan))
  <2> DEFINE o == ParseRecord(f, w, c, owned)
             ended == Ended(o)
             paused == Paused(c, scan)
             p == Checkpoint(w, c.location, ended)
  <2>1. IsFine(c, Nothing(paused))
    BY FindsNothing
  <2>2. o \in Outs(n, q) /\ o.engine.cursor_start = c.location
    BY <1>2, ParseRecordType
  <2>3. /\ BlamesHere(f, w, c, o)
        /\ o.tag = "record" => o.terminated = PhysicalRecord(f, w, c.location).terminated
    BY ParseRecordTells
  <2>7. o.tag = "record" => HasRead(f, w, c.location, o.engine)
    BY <1>2, ParseRecordCounts
  <2> HIDE DEF o, Ended
  <2>4. /\ ended \in Outs(n, q) /\ ended.tag = o.tag /\ ended.error = o.error
        /\ ended.engine.cursor_start = c.location
        /\ ended.engine.location = o.engine.location
        /\ ended.engine.expected = o.engine.expected
        /\ ~owned /\ o.tag = "record" => ended.engine.cursor_end = o.engine.location
        /\ ended.terminated =>
              \/ o.terminated
              \/ owned /\ EndedOnTerminator(f, w, ended.engine)
    BY <1>1, <2>2
  <2>5. ended \in Outs(n, q)
    BY <2>4
  <2> HIDE DEF ended
  <2>6. Finds(f, w, c, ended, owned)
    <3>1. BlamesHere(f, w, c, ended)
      BY <2>3, <2>4 DEF BlamesHere
    <3>2. o.tag = "record" => Ready(f, w, ended.engine)
      <4>1. c.location \in 0..n
        BY DEF Engines
      <4> QED  BY <1>2, <2>4, <2>7, <4>1 DEF Ready, HasRead
    <3> QED  BY <2>3, <2>4, <3>1, <3>2 DEF Finds
  <2>8. IsFine(c, p)
    BY <2>5, <2>6, CheckpointFinds
  <2>10. Parsed(c, scan) = IF c.resume.record_start = c.location /\ scan.verdict = "lacks"
                            THEN Nothing(paused) ELSE p
    BY DEF ended, o, Ended
  <2> HIDE DEF Parsed, IsFine
  <2> QED  BY <2>1, <2>8, <2>10
<1> HIDE DEF Parsed
<1>3. ASSUME NEW c \in Engines(n, q), Tallied(w, c),
             Positioned(c) => c.cursor_start = c.location /\ c.location < n
      PROVE  IsFine(c, PositionedAt(c))
  <2>1. IsFine(c, Nothing(c))
    BY FindsNothing
  <2> HIDE DEF IsFine
  <2>2. Positioned(c) => IsFine(c, Parsed(c, LacksScan(f, w, c)))
    BY <1>2, <1>3, LacksScanType
  <2> QED  BY <2>1, <2>2
<1> HIDE DEF PositionedAt
<1>4. ASSUME NEW c \in Engines(n, q), Tallied(w, c), NEW o \in Outs(n, q), BlamesHere(f, w, c, o),
             Counts(w, c, o.engine)
      PROVE  IsFine(c, Onward(o))
  <2> DEFINE b == o.engine
             d == Position(f, w, b)
  <2>1. /\ b \in Engines(n, q) /\ b.line_base = c.line_base /\ GoesOnBehind(b.resume)
        /\ Tallied(w, b)
    BY <1>4 DEF Outs, Counts, Tallied
  <2>2. o.tag = "error" => IsFine(c, o)
    BY <1>4 DEF Finds
  <2> HIDE DEF IsFine, b
  <2>3. /\ d \in Engines(n, q) /\ KeepsTally(b, d)
        /\ Positioned(d) => d.cursor_start = d.location /\ d.location < n
    BY <2>1, PositionType, PositionCounts, PositionOpens
  <2> HIDE DEF d
  <2>6. Tallied(w, d)
    BY <2>1, <2>3, KeptIsCounted DEF Counts
  <2>4. IsFine(d, PositionedAt(d)) /\ d.line_base = c.line_base
    BY <1>3, <2>1, <2>3, <2>6 DEF KeepsTally
  <2>5. IsFine(c, PositionedAt(d))
    BY <2>4, FindsOn DEF IsFine
  <2> QED  BY <2>2, <2>5 DEF b, d
<1> HIDE DEF Onward
<1>5. ASSUME NEW o \in Outs(n, q), Counts(w, e, o.engine), o.tag # "record", BlamesHere(f, w, e, o)
      PROVE  IsFine(e, Headed(o))
  <2> DEFINE c == o.engine
             s == Settle(f, w, c)
             x == Onward(s)
  <2>1. c \in Engines(n, q) /\ Tallied(w, c) /\ c.line_base = e.line_base
    BY <1>5 DEF Outs, Counts
  <2>2. IsFine(e, o)
    BY <1>5 DEF Finds
  <2> HIDE DEF c, IsFine
  <2>3. s \in Outs(n, q) /\ Counts(w, c, s.engine) /\ BlamesHere(f, w, c, s)
    BY <2>1, SettleType, SettleCounts, SettleBlames
  <2> HIDE DEF s
  <2>5. IsFine(c, x)
    BY <1>4, <2>1, <2>3
  <2> HIDE DEF x
  <2>7. IsFine(e, x)
    BY <2>1, <2>5, FindsOn DEF IsFine
  <2> QED  BY <2>2, <2>7 DEF c, s, x
<1> HIDE DEF Headed, IsFine
<1>6. TryWindow(f, w, e, owned) =
         CASE e.failed -> ParserFailed(w, e)
           [] ~e.failed /\ owned -> Headed(Nothing(e))
           [] OTHER -> Headed(HeadersOfWindow(f, w, e))
  BY Zenon DEF TryWindow, Headed, Onward, PositionedAt, Parsed
<1>8. IsFine(e, ParserFailed(w, e))
  <2>1. ParserFailed(w, e).error.kind = "failed" /\ ParserFailed(w, e).tag = "error"
    BY DEF ParserFailed, Failure, ErrorAt
  <2> HIDE DEF ParserFailed
  <2> QED  BY <2>1 DEF IsFine, Finds, BlamesHere, Blames, FromRecord
<1>10. IsFine(e, Headed(Nothing(e)))
  <2>1. Nothing(e) \in Outs(n, q) /\ Nothing(e).engine = e /\ Nothing(e).tag = "none"
    BY NothingType
  <2>2. Counts(w, e, e)
    BY KeptByItself
  <2>3. BlamesHere(f, w, e, Nothing(e))
    BY <2>1 DEF BlamesHere
  <2> QED  BY <1>5, <2>1, <2>2, <2>3
<1>11. IsFine(e, Headed(HeadersOfWindow(f, w, e)))
  <2>1. HeadersOfWindow(f, w, e) \in Outs(n, q) /\ HeadersOfWindow(f, w, e).tag # "record"
    BY HeadersType
  <2>2. Counts(w, e, HeadersOfWindow(f, w, e).engine)
    BY HeadersCounts
  <2>3. BlamesHere(f, w, e, HeadersOfWindow(f, w, e))
    BY HeadersBlame
  <2> QED  BY <1>5, <2>1, <2>2, <2>3
<1>12. IsFine(e, TryWindow(f, w, e, owned))
  BY <1>6, <1>8, <1>10, <1>11 DEF Engines
<1> QED  BY <1>12 DEF IsFine


-----------------------------------------------------------------------------
(* What is advanced to is yet to be parsed.                                *)
LEMMA AdvanceTells ==
    ASSUME NEW f, f.limit \in Nat, "lf" \notin f.skips, NEW q \in Parsers, Suits(q, f), NEW w,
           Len(w) \in Nat, NEW e \in Engines(Len(w), q), Tallied(w, e)
    PROVE  /\ BlamesHere(f, w, e, Advance(f, w, e))
           /\ Advance(f, w, e).tag = "record" =>
                 /\ Advance(f, w, e).engine.cursor_start = Advance(f, w, e).engine.location
                 /\ Advance(f, w, e).engine.location < Len(w)
                 /\ Advance(f, w, e).engine.cursor_end = NO_OFFSET
<1> DEFINE n == Len(w)
           At(c) == Answers(c, IF Positioned(c) THEN "record" ELSE "done")
           Onward(o) == IF o.tag = "error" THEN Errs(o) ELSE At(Position(f, w, o.engine))
           Headed(o) == IF o.tag = "error" THEN Errs(o) ELSE Onward(Settle(f, w, o.engine))
           IsFine(c, o) ==
               /\ BlamesHere(f, w, c, o)
               /\ o.tag = "record" => /\ o.engine.cursor_start = o.engine.location
                                      /\ o.engine.location < n
                                      /\ o.engine.cursor_end = NO_OFFSET
<1>1. ASSUME NEW c, NEW o, BlamesHere(f, w, c, o), o.tag = "error"
      PROVE  IsFine(c, Errs(o))
  <2>1. Errs(o).tag = "error" /\ Errs(o).error = o.error
    BY DEF Errs, Answers
  <2> HIDE DEF Errs
  <2> QED  BY <1>1, <2>1 DEF BlamesHere
<1>2. ASSUME NEW c, NEW d,
             Positioned(d) => /\ d.cursor_start = d.location /\ d.location < n
                              /\ d.cursor_end = NO_OFFSET
      PROVE  IsFine(c, At(d))
  <2> DEFINE t == IF Positioned(d) THEN "record" ELSE "done"
  <2>1. At(d).engine = d /\ At(d).tag = t
    BY AnswersAre
  <2> HIDE DEF At
  <2> QED  BY <1>2, <2>1 DEF BlamesHere
<1> HIDE DEF At, IsFine
<1>3. ASSUME NEW c, NEW o \in Outs(n, q), BlamesHere(f, w, c, o)
      PROVE  IsFine(c, Onward(o))
  <2>1. o.tag = "error" => IsFine(c, Errs(o))
    BY <1>1, <1>3
  <2>2. o.engine \in Engines(n, q)
    BY DEF Outs
  <2>3. IsFine(c, At(Position(f, w, o.engine)))
    BY <1>2, <2>2, PositionOpens
  <2> QED  BY <2>1, <2>3
<1> HIDE DEF Onward
<1>4. ASSUME NEW o \in Outs(n, q), Counts(w, e, o.engine), BlamesHere(f, w, e, o)
      PROVE  IsFine(e, Headed(o))
  <2> DEFINE c == o.engine
             s == Settle(f, w, c)
  <2>1. c \in Engines(n, q) /\ c.line_base = e.line_base
    BY <1>4 DEF Outs, Counts
  <2>2. o.tag = "error" => IsFine(e, Errs(o))
    BY <1>1, <1>4
  <2> HIDE DEF c
  <2>3. s \in Outs(n, q) /\ BlamesHere(f, w, c, s)
    BY <2>1, SettleType, SettleBlames
  <2> HIDE DEF s
  <2>4. BlamesHere(f, w, e, s)
    BY <2>1, <2>3 DEF BlamesHere
  <2>5. IsFine(e, Onward(s))
    BY <1>3, <2>3, <2>4
  <2> QED  BY <2>2, <2>5 DEF c, s
<1> HIDE DEF Headed
<1>6. Advance(f, w, e) = IF e.failed THEN Errs(ParserFailed(w, e)) ELSE Headed(HeadersOfInput(f, w, e))
  BY Zenon DEF Advance, Headed, Onward, At
<1>7. IsFine(e, Errs(ParserFailed(w, e)))
  <2>1. ParserFailed(w, e).error.kind = "failed" /\ ParserFailed(w, e).tag = "error"
    BY DEF ParserFailed, Failure, ErrorAt
  <2> HIDE DEF ParserFailed
  <2>2. BlamesHere(f, w, e, ParserFailed(w, e))
    BY <2>1 DEF BlamesHere, Blames, FromRecord
  <2> QED  BY <1>1, <2>1, <2>2
<1>8. IsFine(e, Headed(HeadersOfInput(f, w, e)))
  BY <1>4, HeadersType, HeadersCounts, HeadersBlame
<1>9. IsFine(e, Advance(f, w, e))
  BY <1>6, <1>7, <1>8
<1> QED  BY <1>9 DEF IsFine

(* The record at the cursor, when it is parsed for a view or into storage. *)
LEMMA ReadAgainTells ==
    ASSUME NEW f, f.limit \in Nat, NEW q \in Parsers, Suits(q, f), NEW w, Len(w) \in Nat,
           NEW e \in Engines(Len(w), q), Positioned(e), NEW owned,
           NEW o, o = ParseRecord(f, w, RewindToCurrent(e), owned)
    PROVE  /\ BlamesHere(f, w, e, o)
           /\ o.tag \in {"record", "error"}
           /\ o.engine.cursor_start = e.cursor_start
           /\ o.tag = "record" => /\ EndsAt(f, w, e.cursor_start, o.engine.location)
                                  /\ HasRead(f, w, e.cursor_start, o.engine)
           /\ HasRead(f, w, e.cursor_start, e) => o.tag = "record"
<1> DEFINE n == Len(w)
           number == IF e.location # e.cursor_start THEN e.cursor_index ELSE e.record_index
           p == e.cursor_start
           c == RewindToCurrent(e)
<1>1. c \in Engines(n, q) /\ c.cursor_start = p
  BY RewindType
<1>2. c.location = p /\ c.line_base = e.line_base /\ c.expected = e.expected
  <2>1. c = [e EXCEPT !.location = p, !.record_index = number]
    BY DEF RewindToCurrent, Engines
  <2> HIDE DEF number, c
  <2> QED  BY <2>1 DEF Engines
<1> HIDE DEF c
<1>3. /\ BlamesHere(f, w, c, o)
      /\ o.tag = "record" => EndsAt(f, w, p, o.engine.location) /\ HasRead(f, w, p, o.engine)
      /\ o.tag = "record" <=>
            /\ PhysicalRecord(f, w, p).verdict = "ok"
            /\ f.match_first => c.expected \in {0, PhysicalRecord(f, w, p).fields}
  <2>1. o = ParseRecord(f, w, c, owned)
    BY DEF c
  <2> HIDE DEF p
  <2> QED  BY <1>1, <1>2, <2>1, ParseRecordTells
<1>4. o.tag \in {"record", "error"} /\ o.engine.cursor_start = p
  BY <1>1, ParseRecordType DEF c
<1>5. BlamesHere(f, w, e, o)
  BY <1>2, <1>3 DEF BlamesHere
<1>6. HasRead(f, w, p, e) => o.tag = "record"
  BY <1>2, <1>3 DEF HasRead
<1> QED  BY <1>3, <1>4, <1>5, <1>6

LEMMA MaterializeTells ==
    ASSUME NEW f, f.limit \in Nat, NEW q \in Parsers, Suits(q, f), NEW w, Len(w) \in Nat,
           NEW e \in Engines(Len(w), q), Positioned(e), NEW o, o = Materialize(f, w, e)
    PROVE  /\ e.cursor_end # NO_OFFSET => o.tag = "record" /\ o.engine = e
           /\ e.cursor_end = NO_OFFSET =>
                 /\ BlamesHere(f, w, e, o)
                 /\ o.tag \in {"record", "error"}
                 /\ o.engine.cursor_start = e.cursor_start
                 /\ o.tag = "record" => /\ EndsAt(f, w, e.cursor_start, o.engine.cursor_end)
                                        /\ HasRead(f, w, e.cursor_start, o.engine)
                 /\ HasRead(f, w, e.cursor_start, e) => o.tag = "record"
<1> DEFINE n == Len(w)
           p == e.cursor_start
           x == ParseRecord(f, w, RewindToCurrent(e), FALSE)
           c == x.engine
           d == [c EXCEPT !.cursor_end = c.location]
           y == [x EXCEPT !.engine = d]
           ended == IF x.tag = "error" THEN x
                    ELSE [x EXCEPT !.engine.cursor_end = x.engine.location]
<1>1. /\ BlamesHere(f, w, e, x)
      /\ x.tag \in {"record", "error"}
      /\ c.cursor_start = p
      /\ x.tag = "record" => EndsAt(f, w, p, c.location) /\ HasRead(f, w, p, c)
      /\ HasRead(f, w, p, e) => x.tag = "record"
  <2> DEFINE Tells(u) ==
                /\ BlamesHere(f, w, e, u)
                /\ u.tag \in {"record", "error"}
                /\ u.engine.cursor_start = p
                /\ u.tag = "record" => EndsAt(f, w, p, u.engine.location) /\ HasRead(f, w, p, u.engine)
                /\ HasRead(f, w, p, e) => u.tag = "record"
  <2>1. \A owned : Tells(ParseRecord(f, w, RewindToCurrent(e), owned))
    BY ReadAgainTells
  <2> HIDE DEF Tells
  <2>2. Tells(x)
    BY <2>1
  <2> QED  BY <2>2 DEF Tells
<1>2. x \in Outs(n, q)
  <2>1. RewindToCurrent(e) \in Engines(n, q)
    BY RewindType
  <2> QED  BY <2>1, ParseRecordType
<1>3. o = IF e.cursor_end # NO_OFFSET THEN Record(e, FALSE) ELSE ended
  BY Zenon DEF Materialize, ended, x
<1>4. Record(e, FALSE).tag = "record" /\ Record(e, FALSE).engine = e
  BY DEF Record
<1> HIDE DEF x
<1>5. c \in Engines(n, q)
  BY <1>2 DEF Outs
<1>6. ended = IF x.tag = "error" THEN x ELSE y
  BY <1>2 DEF Outs
<1>7. y.tag = x.tag /\ y.engine = d
  BY <1>2 DEF Outs
<1> HIDE DEF c
<1>8. /\ d.cursor_start = c.cursor_start /\ d.location = c.location /\ d.expected = c.expected
      /\ d.cursor_end = c.location
  BY <1>5 DEF Engines
<1> HIDE DEF d, y, ended, p
<1>9. CASE x.tag = "error"
  BY <1>1, <1>3, <1>4, <1>6, <1>9 DEF p, c
<1>10. CASE x.tag = "record"
  <2>1. ended = y
    BY <1>6, <1>10
  <2>2. BlamesHere(f, w, e, y)
    BY <1>7, <1>10 DEF BlamesHere
  <2>3. EndsAt(f, w, p, d.cursor_end) /\ HasRead(f, w, p, d)
    BY <1>1, <1>8, <1>10 DEF HasRead
  <2> QED  BY <1>1, <1>3, <1>4, <1>7, <1>8, <1>10, <2>1, <2>2, <2>3 DEF p
<1> QED  BY <1>1, <1>9, <1>10


-----------------------------------------------------------------------------
(* Two engines that parse alike: the checkpoint does not matter, nor what  *)
(* is counted, nor where the last record ended.                            *)
Twins(c, d) ==
    /\ c.location = d.location /\ c.line_base = d.line_base /\ c.record_index = d.record_index
    /\ c.expected = d.expected /\ c.cursor_start = d.cursor_start /\ c.cursor_index = d.cursor_index
AsTold(x, y) == x.tag = y.tag /\ x.error = y.error /\ Twins(x.engine, y.engine)

LEMMA ParseTwins ==
    ASSUME NEW f, NEW q \in Parsers, Suits(q, f), NEW w, Len(w) \in Nat,
           NEW c \in Engines(Len(w), q), NEW d \in Engines(Len(w), q), Twins(c, d), NEW owned
    PROVE  AsTold(ParseRecord(f, w, c, owned), ParseRecord(f, w, d, owned))
<1> DEFINE record == PhysicalRecord(f, w, c.location)
           Parsed(e) == [Fold(f, e, record, owned) EXCEPT !.location = record.at]
           Passed(e) == [Parsed(e) EXCEPT !.record_index = @ + 1,
                                    !.expected = IF f.match_first THEN record.fields ELSE @]
           Fails(e, kind, at) == Failure([e EXCEPT !.failed = TRUE], ErrorAt(w, e, kind, at))
           Case(e) ==
               CASE record.verdict # "ok" -> Fails(e, record.verdict, record.at)
                 [] /\ record.verdict = "ok"
                    /\ f.match_first /\ e.expected \notin {0, record.fields} ->
                      Fails(Parsed(e), "width", record.at)
                 [] OTHER -> Record(Passed(e), record.terminated)
<1>1. ParseRecord(f, w, c, owned) = Case(c)
  BY Zenon DEF ParseRecord
<1>2. ParseRecord(f, w, d, owned) = Case(d)
  <2>1. record = PhysicalRecord(f, w, d.location)
    BY DEF Twins
  <2> HIDE DEF record
  <2> QED  BY Zenon, <2>1 DEF ParseRecord
<1>3. \A e \in Engines(Len(w), q) :
         DOMAIN e = DOMAIN NewEngine
  BY DEF Engines, NewEngine
<1> HIDE DEF record
<1>4. ASSUME NEW e \in {c, d}
      PROVE  /\ DOMAIN Parsed(e) = DOMAIN NewEngine /\ Parsed(e).location = record.at
             /\ Parsed(e).line_base = e.line_base /\ Parsed(e).record_index = e.record_index
             /\ Parsed(e).expected = e.expected /\ Parsed(e).cursor_start = e.cursor_start
             /\ Parsed(e).cursor_index = e.cursor_index
  <2> DEFINE lines == e.folded_lines + (IF record.terminated THEN 1 ELSE 0)
             x == Fold(f, e, record, owned)
  <2>1. DOMAIN e = DOMAIN NewEngine
    BY <1>3
  <2>2. x = e \/ x = [e EXCEPT !.folded_upto = record.at, !.folded_lines = lines]
    BY <1>3, <1>4 DEF Fold, NewEngine
  <2>3. Parsed(e) = [x EXCEPT !.location = record.at]
    OBVIOUS
  <2> HIDE DEF x, lines, Parsed
  <2>4. /\ DOMAIN x = DOMAIN NewEngine
        /\ x.line_base = e.line_base /\ x.record_index = e.record_index
        /\ x.expected = e.expected /\ x.cursor_start = e.cursor_start
        /\ x.cursor_index = e.cursor_index
    BY <2>1, <2>2 DEF NewEngine
  <2> QED  BY <2>3, <2>4 DEF NewEngine
<1>5. Twins(Parsed(c), Parsed(d))
  BY <1>4 DEF Twins
<1>6. ASSUME NEW x, NEW y, Twins(x, y), DOMAIN x = DOMAIN NewEngine, DOMAIN y = DOMAIN NewEngine,
             NEW kind, NEW at
      PROVE  AsTold(Fails(x, kind, at), Fails(y, kind, at))
  <2>1. Twins([x EXCEPT !.failed = TRUE], [y EXCEPT !.failed = TRUE])
    BY <1>6 DEF Twins, NewEngine
  <2>2. ErrorAt(w, x, kind, at) = ErrorAt(w, y, kind, at)
    BY <1>6 DEF Twins, ErrorAt
  <2> QED  BY <2>1, <2>2 DEF AsTold, Failure
<1>7. Twins(Passed(c), Passed(d))
  <2> HIDE DEF Parsed
  <2> QED  BY <1>4, <1>5 DEF Twins, NewEngine
<1>8. \A t : AsTold(Record(Passed(c), t), Record(Passed(d), t))
  <2> HIDE DEF Passed
  <2> QED  BY <1>7 DEF AsTold, Record
<1> HIDE DEF Passed, Parsed, Fails
<1>9. /\ AsTold(Fails(c, record.verdict, record.at), Fails(d, record.verdict, record.at))
      /\ AsTold(Fails(Parsed(c), "width", record.at), Fails(Parsed(d), "width", record.at))
  BY <1>3, <1>4, <1>5, <1>6
<1>10. AsTold(Case(c), Case(d))
  <2>1. c.expected = d.expected
    BY DEF Twins
  <2> QED  BY <1>8, <1>9, <2>1
<1> QED  BY <1>1, <1>2, <1>10

(* What looking for the headers leaves, in a window or where it ends.      *)
LEMMA NextTwins ==
    ASSUME NEW f, ~SkipsRecords(f), NEW q \in Parsers, Suits(q, f), NEW w, Len(w) \in Nat,
           NEW c \in Engines(Len(w), q), NEW d \in Engines(Len(w), q), Twins(c, d)
    PROVE  AsTold(NextRecord(f, w, c), NextRecord(f, w, d))
<1>1. \A e : NextRecord(f, w, e) = IF e.location = Len(w) THEN Nothing(e)
                                   ELSE ParseRecord(f, w, e, FALSE)
  BY DEF NextRecord
<1>2. AsTold(Nothing(c), Nothing(d))
  BY DEF AsTold, Nothing
<1>3. AsTold(ParseRecord(f, w, c, FALSE), ParseRecord(f, w, d, FALSE))
  BY ParseTwins
<1>4. c.location = d.location
  BY DEF Twins
<1> QED  BY <1>1, <1>2, <1>3, <1>4

LEMMA HeadersTwins ==
    ASSUME NEW f, ~SkipsRecords(f), NEW q \in Parsers, Suits(q, f), NEW w, Len(w) \in Nat,
           NEW c \in Engines(Len(w), q), NEW d \in Engines(Len(w), q), Twins(c, d),
           c.headers = d.headers
    PROVE  /\ HeadersOfWindow(f, w, c).tag = "error" <=> HeadersOfInput(f, w, d).tag = "error"
           /\ HeadersOfWindow(f, w, c).tag = "error" =>
                 HeadersOfWindow(f, w, c).error = HeadersOfInput(f, w, d).error
           /\ Twins(HeadersOfWindow(f, w, c).engine, HeadersOfInput(f, w, d).engine)
<1> DEFINE b == KnowHeaders(d)
           a == KnowHeaders(c)
           x == NextRecord(f, w, c)
           y == NextRecord(f, w, b)
           z == KnowHeaders(x.engine)
<1>1. /\ b \in Engines(Len(w), q) /\ Twins(c, b) /\ Twins(a, b)
  BY KnowHeadersType DEF KnowHeaders, Twins, Engines
<1>2. \A e : Nothing(e).tag = "none" /\ Nothing(e).engine = e
  BY DEF Nothing
<1>3. HeadersOfInput(f, w, d) = IF d.headers \/ ~f.headers THEN Nothing(b) ELSE y
  BY Zenon DEF HeadersOfInput
<1>4. HeadersOfWindow(f, w, c) =
         IF c.headers \/ ~f.headers THEN Nothing(a)
         ELSE IF x.tag = "record" /\ x.engine.location < Len(w) THEN Nothing(z)
         ELSE IF x.tag = "error" THEN x ELSE Nothing(x.engine)
  BY Zenon DEF HeadersOfWindow
<1> HIDE DEF a, b
<1>5. AsTold(x, y)
  BY <1>1, NextTwins
<1>6. x \in Outs(Len(w), q)
  BY NextRecordType
<1> HIDE DEF x, y
<1>7. Twins(x.engine, y.engine) /\ Twins(z, y.engine) /\ x.tag = y.tag /\ x.error = y.error
  <2>1. Twins(x.engine, y.engine) /\ x.tag = y.tag /\ x.error = y.error
    BY <1>5 DEF AsTold
  <2> DEFINE e == x.engine
  <2>2. e \in Engines(Len(w), q)
    BY <1>6 DEF Outs
  <2> HIDE DEF e
  <2>3. Twins(e, y.engine) => Twins(KnowHeaders(e), y.engine)
    BY <2>2 DEF KnowHeaders, Twins, Engines
  <2> QED  BY <2>1, <2>3 DEF e
<1> HIDE DEF z
<1>8. CASE c.headers \/ ~f.headers
  BY <1>1, <1>2, <1>3, <1>4, <1>8
<1>9. CASE ~(c.headers \/ ~f.headers)
  BY <1>2, <1>3, <1>4, <1>7, <1>9
<1> QED  BY <1>8, <1>9

LEMMA SettleTwins ==
    ASSUME NEW f, NEW q \in Parsers, Suits(q, f), NEW w, Len(w) \in Nat,
           NEW c \in Engines(Len(w), q), NEW d \in Engines(Len(w), q), Twins(c, d)
    PROVE  AsTold(Settle(f, w, c), Settle(f, w, d))
<1> DEFINE Again(e) == [e EXCEPT !.record_index = e.cursor_index]
<1>1. \A e : Settle(f, w, e) = IF e.location = e.cursor_start
                               THEN ParseRecord(f, w, Again(e), FALSE) ELSE Nothing(e)
  BY DEF Settle
<1>2. Again(c) \in Engines(Len(w), q) /\ Again(d) \in Engines(Len(w), q) /\ Twins(Again(c), Again(d))
  BY DEF Twins, Engines
<1> HIDE DEF Again
<1>3. AsTold(Nothing(c), Nothing(d))
  BY DEF AsTold, Nothing
<1>4. AsTold(ParseRecord(f, w, Again(c), FALSE), ParseRecord(f, w, Again(d), FALSE))
  BY <1>2, ParseTwins
<1>5. c.location = d.location /\ c.cursor_start = d.cursor_start
  BY DEF Twins
<1> QED  BY <1>1, <1>3, <1>4, <1>5

LEMMA PositionTwins ==
    ASSUME NEW f, ~SkipsRecords(f), NEW q \in Parsers, NEW w, Len(w) \in Nat,
           NEW c \in Engines(Len(w), q), NEW d \in Engines(Len(w), q), Twins(c, d)
    PROVE  Twins(Position(f, w, c), Position(f, w, d))
<1> DEFINE X(e) == [e EXCEPT !.cursor_start = NO_OFFSET]
           Y(e) == [e EXCEPT !.cursor_start = e.location, !.cursor_index = e.record_index,
                             !.cursor_end = NO_OFFSET]
<1>1. \A e : Position(f, w, e) = IF e.location = Len(w) THEN X(e) ELSE Y(e)
  BY DEF Position
<1>2. Twins(X(c), X(d)) /\ Twins(Y(c), Y(d)) /\ c.location = d.location
  BY DEF Twins, Engines
<1> HIDE DEF X, Y
<1> QED  BY <1>1, <1>2


-----------------------------------------------------------------------------
(* The error of a try is met again, where the window is advanced in without*)
(* a try or where the record advanced to is parsed.                        *)
LEMMA MaterializeTwins ==
    ASSUME NEW f, NEW q \in Parsers, Suits(q, f), NEW w, Len(w) \in Nat,
           NEW c \in Engines(Len(w), q), NEW d \in Engines(Len(w), q), Twins(c, d),
           Positioned(d), d.cursor_start = d.location, d.cursor_end = NO_OFFSET,
           ParseRecord(f, w, c, FALSE).tag = "error"
    PROVE  /\ Materialize(f, w, d).tag = "error"
           /\ Materialize(f, w, d).error = ParseRecord(f, w, c, FALSE).error
<1> DEFINE b == RewindToCurrent(d)
           x == ParseRecord(f, w, c, FALSE)
           y == ParseRecord(f, w, b, FALSE)
           ended == [y EXCEPT !.engine.cursor_end = y.engine.location]
<1>1. b \in Engines(Len(w), q) /\ Twins(c, b)
  <2>1. b \in Engines(Len(w), q)
    BY RewindType
  <2>2. b = [d EXCEPT !.location = d.cursor_start, !.record_index = d.record_index]
    BY DEF RewindToCurrent, Engines
  <2> HIDE DEF b
  <2> QED  BY <2>1, <2>2 DEF Twins, Engines
<1>2. Materialize(f, w, d) = IF y.tag = "error" THEN y ELSE ended
  BY Zenon DEF Materialize
<1> HIDE DEF b
<1>3. AsTold(x, y)
  BY <1>1, ParseTwins
<1> QED  BY <1>2, <1>3 DEF AsTold

LEMMA AdvanceAgain ==
    ASSUME NEW f, ~SkipsRecords(f), NEW q \in Parsers, Suits(q, f), NEW w, Len(w) \in Nat,
           NEW e \in Engines(Len(w), q), TryWindow(f, w, e, FALSE).tag = "error"
    PROVE  LET o == TryWindow(f, w, e, FALSE)
               a == Advance(f, w, RestoreCursor(e, o.engine))
           IN  /\ a.tag = "error" => a.error = o.error
               /\ a.tag = "record" => /\ Materialize(f, w, a.engine).tag = "error"
                                      /\ Materialize(f, w, a.engine).error = o.error
<1> DEFINE o == TryWindow(f, w, e, FALSE)
           d == RestoreCursor(e, o.engine)
           a == Advance(f, w, d)
<1>1. o \in Outs(Len(w), q) /\ o.tag = "error"
  BY TryWindowType DEF Found
<1>2. o.engine \in Engines(Len(w), q)
  BY <1>1 DEF Outs
<1> HIDE DEF o
<1>3. d \in Engines(Len(w), q) /\ d = RestoreCursor(e, o.engine)
  BY <1>2, RestoredType
<1> HIDE DEF d
<1> DEFINE n == Len(w)
           Again(x, b) ==
               x.tag = "error" =>
                  /\ b.tag = "error" => b.error = x.error
                  /\ b.tag = "record" => /\ Materialize(f, w, b.engine).tag = "error"
                                         /\ Materialize(f, w, b.engine).error = x.error
           Ended(x) ==
               IF FALSE /\ x.tag = "record"
                 THEN [x EXCEPT !.terminated = @ \/ EndedOnTerminator(f, w, x.engine)]
                 ELSE [x EXCEPT !.engine.cursor_end =
                                   IF x.tag = "record" THEN x.engine.location ELSE @]
           Parsed(c, scan) ==
               IF c.resume.record_start = c.location /\ scan.verdict = "lacks"
                 THEN Nothing(Paused(c, scan))
                 ELSE Checkpoint(w, c.location, Ended(ParseRecord(f, w, c, FALSE)))
           PositionedAt(c) == IF Positioned(c) THEN Parsed(c, LacksScan(f, w, c)) ELSE Nothing(c)
           Onward(x) ==
               IF x.tag = "error" THEN x ELSE PositionedAt(Position(f, w, x.engine))
           Headed(x) == IF x.tag # "error" /\ (FALSE \/ x.engine.headers)
                          THEN Onward(Settle(f, w, x.engine)) ELSE x
           At(c) == Answers(c, IF Positioned(c) THEN "record" ELSE "done")
           OnwardHere(x) == IF x.tag = "error" THEN Errs(x) ELSE At(Position(f, w, x.engine))
           HeadedHere(x) == IF x.tag = "error" THEN Errs(x) ELSE OnwardHere(Settle(f, w, x.engine))
<1>4. ASSUME NEW x, NEW y, x.tag = "error" => y.error = x.error
      PROVE  Again(x, Errs(y))
  <2>1. Errs(y).tag = "error" /\ Errs(y).error = y.error
    BY DEF Errs, Answers
  <2> HIDE DEF Errs
  <2> QED  BY <1>4, <2>1
<1>5. \A c, b : Again(Nothing(c), b)
  BY DEF Nothing
<1>6. ASSUME NEW c \in Engines(n, q), NEW b \in Engines(n, q), Twins(c, b),
             Positioned(b) => b.cursor_start = b.location /\ b.cursor_end = NO_OFFSET
      PROVE  Again(PositionedAt(c), At(b))
  <2> DEFINE x == ParseRecord(f, w, c, FALSE)
             t == IF Positioned(b) THEN "record" ELSE "done"
             ended == Ended(x)
             p == Checkpoint(w, c.location, ended)
  <2>1. At(b).tag = t /\ At(b).engine = b
    BY AnswersAre
  <2>2. x \in Outs(n, q)
    BY ParseRecordType
  <2>3. x.tag = "error" /\ Positioned(b) =>
           Materialize(f, w, b).tag = "error" /\ Materialize(f, w, b).error = x.error
    BY <1>6, MaterializeTwins
  <2>4. Positioned(c) <=> Positioned(b)
    BY <1>6 DEF Twins, Positioned
  <2> HIDE DEF x, t, At
  <2>5. ended.tag = x.tag /\ ended.error = x.error
    BY <2>2 DEF Outs
  <2> HIDE DEF ended, Ended
  <2>6. p.tag = ended.tag /\ p.error = ended.error
    BY DEF Checkpoint
  <2>7. Parsed(c, LacksScan(f, w, c)) = p \/ Parsed(c, LacksScan(f, w, c)).tag = "none"
    BY DEF Nothing, p, ended, x
  <2> HIDE DEF p, Parsed
  <2>8. CASE Positioned(c)
    <3>1. PositionedAt(c) = Parsed(c, LacksScan(f, w, c)) /\ At(b).tag # "error"
      BY <2>1, <2>4, <2>8 DEF t
    <3> HIDE DEF PositionedAt
    <3> QED  BY <2>1, <2>3, <2>4, <2>5, <2>6, <2>7, <2>8, <3>1
  <2>9. CASE ~Positioned(c)
    <3>1. PositionedAt(c) = Nothing(c)
      BY <2>9
    <3> HIDE DEF PositionedAt, Again
    <3> QED  BY <1>5, <3>1
  <2> QED  BY <2>8, <2>9
<1> HIDE DEF PositionedAt, At, Again
<1>7. ASSUME NEW x \in Outs(n, q), NEW y \in Outs(n, q), AsTold(x, y)
      PROVE  Again(Onward(x), OnwardHere(y))
  <2> DEFINE c == x.engine
             b == y.engine
  <2>1. x.tag = y.tag /\ x.error = y.error /\ Twins(c, b)
        /\ c \in Engines(n, q) /\ b \in Engines(n, q)
    BY <1>7 DEF AsTold, Outs
  <2> HIDE DEF c, b
  <2>2. /\ Twins(Position(f, w, c), Position(f, w, b))
        /\ Position(f, w, c) \in Engines(n, q) /\ Position(f, w, b) \in Engines(n, q)
    BY <2>1, PositionTwins, PositionType
  <2>3. Positioned(Position(f, w, b)) =>
           /\ Position(f, w, b).cursor_start = Position(f, w, b).location
           /\ Position(f, w, b).cursor_end = NO_OFFSET
    BY <2>1, PositionOpens
  <2>4. Again(PositionedAt(Position(f, w, c)), At(Position(f, w, b)))
    BY <1>6, <2>2, <2>3
  <2>5. Again(x, Errs(y))
    BY <1>4, <2>1
  <2> QED  BY <2>1, <2>4, <2>5 DEF c, b
<1> HIDE DEF Onward, OnwardHere
<1>8. ASSUME NEW x \in Outs(n, q), NEW y \in Outs(n, q), Twins(x.engine, y.engine),
             x.tag # "record", x.tag = "error" <=> y.tag = "error",
             x.tag = "error" => x.error = y.error
      PROVE  Again(Headed(x), HeadedHere(y))
  <2> DEFINE c == x.engine
             b == y.engine
             s == Settle(f, w, c)
             r == Settle(f, w, b)
  <2>1. c \in Engines(n, q) /\ b \in Engines(n, q) /\ Twins(c, b)
    BY <1>8 DEF Outs
  <2> HIDE DEF c, b
  <2>2. s \in Outs(n, q) /\ r \in Outs(n, q) /\ AsTold(s, r)
    BY <2>1, SettleType, SettleTwins
  <2> HIDE DEF s, r
  <2>3. Again(Onward(s), OnwardHere(r))
    BY <1>7, <2>2
  <2>4. CASE x.tag = "error"
    <3>1. Again(x, Errs(y))
      BY <1>4, <1>8
    <3> QED  BY <1>8, <2>4, <3>1
  <2>5. CASE x.tag # "error"
    <3>1. HeadedHere(y) = OnwardHere(r)
      BY <1>8, <2>5 DEF r, b
    <3>2. Headed(x) = Onward(s) \/ Headed(x) = x
      BY DEF s, c
    <3>3. \A z : Again(x, z)
      BY <2>5 DEF Again
    <3> QED  BY <2>3, <3>1, <3>2, <3>3
  <2> QED  BY <2>4, <2>5
<1> HIDE DEF Headed, HeadedHere
<1>9. TryWindow(f, w, e, FALSE) =
         CASE e.failed -> ParserFailed(w, e)
           [] ~e.failed /\ FALSE -> Headed(Nothing(e))
           [] OTHER -> Headed(HeadersOfWindow(f, w, e))
  BY Zenon DEF TryWindow, Headed, Onward, PositionedAt, Parsed
<1>10. Advance(f, w, d) =
         IF d.failed THEN Errs(ParserFailed(w, d)) ELSE HeadedHere(HeadersOfInput(f, w, d))
  BY Zenon DEF Advance, HeadedHere, OnwardHere, At
<1>11. d.failed = e.failed /\ d.headers = e.headers /\ Twins(e, d)
  BY <1>3 DEF RestoreCursor, Twins, Engines
<1>12. Again(ParserFailed(w, e), Errs(ParserFailed(w, d)))
  <2>1. ParserFailed(w, e).error = ParserFailed(w, d).error
    BY <1>11 DEF ParserFailed, Failure, ErrorAt, Twins
  <2> HIDE DEF ParserFailed
  <2> QED  BY <1>4, <2>1
<1>13. Again(Headed(HeadersOfWindow(f, w, e)), HeadedHere(HeadersOfInput(f, w, d)))
  <2> DEFINE x == HeadersOfWindow(f, w, e)
             y == HeadersOfInput(f, w, d)
  <2>1. x \in Outs(n, q) /\ y \in Outs(n, q) /\ x.tag # "record"
    BY <1>3, HeadersType
  <2>2. /\ x.tag = "error" <=> y.tag = "error"
        /\ x.tag = "error" => x.error = y.error
        /\ Twins(x.engine, y.engine)
    <3>1. Twins(e, d) /\ e.headers = d.headers
      BY <1>11
    <3> QED  BY ONLY ~SkipsRecords(f), q \in Parsers, Suits(q, f), Len(w) \in Nat,
                     e \in Engines(n, q), <1>3, <3>1, HeadersTwins
  <2> HIDE DEF x, y
  <2>3. Again(Headed(x), HeadedHere(y))
    BY <1>8, <2>1, <2>2
  <2> QED  BY <2>3 DEF x, y
<1>14. e.failed \in BOOLEAN
  BY DEF Engines
<1>15. Again(o, a)
  BY <1>9, <1>10, <1>11, <1>12, <1>13, <1>14 DEF o
<1>16. /\ a.tag = "error" => a.error = o.error
       /\ a.tag = "record" => /\ Materialize(f, w, a.engine).tag = "error"
                              /\ Materialize(f, w, a.engine).error = o.error
  BY <1>1, <1>15 DEF Again
<1> QED  BY <1>16 DEF o, d


-----------------------------------------------------------------------------
(* A window of the stream s from its k-th byte on, and an engine in it.    *)
Windowed(f, w, s, k, e) ==
    /\ f.limit \in Nat /\ "lf" \notin f.skips
    /\ Len(w) \in Nat /\ Len(s) \in Nat /\ k \in Nat /\ k + Len(w) <= Len(s) /\ Alike(w, s, k)
    /\ e \in Engines(Len(w), Pulled) /\ Tallied(w, e) /\ e.line_base = 1 + Feeds(s, 0, k)
ToEnd(w, s, k) == k + Len(w) = Len(s)
BlamesTheStream(f, s, k, error) == Blames(f, s, 1, [error EXCEPT !.byte = @ + k])

(* What a view of the record at the cursor comes to is the stream's.       *)
Sees(f, w, s, k, e) ==
    /\ Materialize(f, w, e).tag = "record" =>
          EndsAt(f, s, k + Materialize(f, w, e).engine.cursor_start,
                       k + Materialize(f, w, e).engine.cursor_end)
    /\ Materialize(f, w, e).tag = "error" =>
          BlamesTheStream(f, s, k, Materialize(f, w, e).error)

LEMMA BlamesOn ==
    ASSUME NEW f, NEW w, NEW s, NEW k, NEW e, Windowed(f, w, s, k, e), NEW o,
           o.error \in ErrorsAt, o.tag = "error", BlamesHere(f, w, e, o),
           ToEnd(w, s, k) \/ ~Truncated(w, o.error)
    PROVE  BlamesTheStream(f, s, k, o.error)
<1> DEFINE error == o.error
           line == 1 + Feeds(s, 0, k)
<1>1. error \in ErrorsAt /\ Blames(f, w, line, error)
      /\ (k + Len(w) = Len(s) \/ ~Truncated(w, error))
  BY DEF BlamesHere, Windowed, ToEnd
<1> HIDE DEF error
<1>2. Blames(f, s, 1, [error EXCEPT !.byte = @ + k])
  BY <1>1, BlamesLater DEF Windowed
<1> QED  BY <1>2 DEF BlamesTheStream, error

LEMMA EndsOn ==
    ASSUME NEW f, NEW w, NEW s, NEW k, NEW e, Windowed(f, w, s, k, e), NEW p, NEW end,
           EndsAt(f, w, p, end),
           ToEnd(w, s, k) \/ end < Len(w) \/ PhysicalRecord(f, w, p).terminated
    PROVE  EndsAt(f, s, k + p, k + end)
BY EndsLater DEF Windowed, ToEnd

(* A record found whole.                                                   *)
LEMMA SeesWhole ==
    ASSUME NEW f, NEW w, NEW s, NEW k, NEW e, Windowed(f, w, s, k, e),
           Positioned(e), Ready(f, w, e), e.cursor_end = e.location,
           ToEnd(w, s, k) \/ e.location < Len(w) \/ PhysicalRecord(f, w, e.cursor_start).terminated
    PROVE  Sees(f, w, s, k, e)
<1> DEFINE o == Materialize(f, w, e)
           p == e.cursor_start
<1>1. /\ Pulled \in Parsers /\ Suits(Pulled, f) /\ e \in Engines(Len(w), Pulled)
      /\ Len(w) \in Nat /\ f.limit \in Nat
  BY PulledSuits DEF Windowed
<1>2. /\ e.cursor_end # NO_OFFSET => o.tag = "record" /\ o.engine = e
      /\ e.cursor_end = NO_OFFSET =>
            /\ o.engine.cursor_start = p
            /\ o.tag = "record" => EndsAt(f, w, p, o.engine.cursor_end)
            /\ HasRead(f, w, p, e) => o.tag = "record"
  BY <1>1, MaterializeTells
<1>3. EndsAt(f, w, p, e.location) /\ HasRead(f, w, p, e)
  BY DEF Ready, HasRead, EndsAt
<1> HIDE DEF o, p
<1>4. o.tag = "record" /\ o.engine.cursor_start = p /\ o.engine.cursor_end = e.location
  BY <1>2, <1>3 DEF EndsAt, p
<1>5. EndsAt(f, s, k + p, k + e.location)
  BY <1>3, EndsOn DEF p
<1>6. EndsAt(f, s, k + o.engine.cursor_start, k + o.engine.cursor_end)
  BY <1>4, <1>5
<1> QED  BY <1>4, <1>6 DEF Sees, o

(* A record advanced to where the stream ends.                             *)
LEMMA SeesAtEnd ==
    ASSUME NEW f, NEW w, NEW s, NEW k, NEW e, Windowed(f, w, s, k, e), ToEnd(w, s, k),
           Positioned(e), e.cursor_end = NO_OFFSET
    PROVE  Sees(f, w, s, k, e)
<1> DEFINE o == Materialize(f, w, e)
           p == e.cursor_start
<1>1. /\ Pulled \in Parsers /\ Suits(Pulled, f) /\ e \in Engines(Len(w), Pulled)
      /\ Len(w) \in Nat /\ f.limit \in Nat
  BY PulledSuits DEF Windowed
<1>2. /\ BlamesHere(f, w, e, o)
      /\ o.engine.cursor_start = p
      /\ o.tag = "record" => EndsAt(f, w, p, o.engine.cursor_end)
  BY <1>1, MaterializeTells
<1>3. o.error \in ErrorsAt
  BY <1>1, MaterializeType DEF Outs
<1> HIDE DEF o, p
<1>4. o.tag = "error" => BlamesTheStream(f, s, k, o.error)
  BY <1>2, <1>3, BlamesOn
<1>5. o.tag = "record" => EndsAt(f, s, k + p, k + o.engine.cursor_end)
  BY <1>2, EndsOn
<1>6. o.tag = "record" => EndsAt(f, s, k + o.engine.cursor_start, k + o.engine.cursor_end)
  BY <1>2, <1>5
<1> QED  BY <1>4, <1>6 DEF Sees, o

(* A view shows the same again.                                            *)
LEMMA SeesAgain ==
    ASSUME NEW f, NEW w, NEW s, NEW k, NEW e, Windowed(f, w, s, k, e), Positioned(e),
           Sees(f, w, s, k, e), NEW o, o = Materialize(f, w, e), o.tag = "record"
    PROVE  /\ EndsAt(f, s, k + o.engine.cursor_start, k + o.engine.cursor_end)
           /\ Sees(f, w, s, k, o.engine)
<1> DEFINE c == o.engine
           b == Materialize(f, w, c)
           p == e.cursor_start
<1>1. /\ Pulled \in Parsers /\ Suits(Pulled, f) /\ e \in Engines(Len(w), Pulled)
      /\ Len(w) \in Nat /\ f.limit \in Nat
  BY PulledSuits DEF Windowed
<1>2. EndsAt(f, s, k + c.cursor_start, k + c.cursor_end)
  BY DEF Sees
<1>3. /\ e.cursor_end # NO_OFFSET => c = e
      /\ e.cursor_end = NO_OFFSET =>
            /\ c.cursor_start = p
            /\ EndsAt(f, w, p, c.cursor_end) /\ HasRead(f, w, p, c)
  BY <1>1, MaterializeTells
<1>4. c \in Engines(Len(w), Pulled) /\ Positioned(c)
  BY <1>1, MaterializeType DEF Outs
<1> HIDE DEF c, p
<1>5. /\ c.cursor_end # NO_OFFSET => b.tag = "record" /\ b.engine = c
      /\ c.cursor_end = NO_OFFSET =>
            /\ b.engine.cursor_start = c.cursor_start
            /\ b.tag = "record" => EndsAt(f, w, c.cursor_start, b.engine.cursor_end)
            /\ HasRead(f, w, c.cursor_start, c) => b.tag = "record"
  BY <1>1, <1>4, MaterializeTells
<1> HIDE DEF b
<1>6. CASE c.cursor_end # NO_OFFSET
  <2>1. Sees(f, w, s, k, c)
    BY <1>2, <1>5, <1>6 DEF Sees, b
  <2> QED  BY <1>2, <2>1 DEF c
<1>7. CASE c.cursor_end = NO_OFFSET /\ e.cursor_end # NO_OFFSET
  BY <1>3, <1>7 DEF c
<1>8. CASE c.cursor_end = NO_OFFSET /\ e.cursor_end = NO_OFFSET
  <2>1. b.tag = "record" /\ b.engine.cursor_start = c.cursor_start
        /\ b.engine.cursor_end = c.cursor_end
    BY <1>3, <1>5, <1>8 DEF EndsAt
  <2>2. Sees(f, w, s, k, c)
    BY <1>2, <2>1 DEF Sees, b
  <2> QED  BY <1>2, <2>2 DEF c
<1> QED  BY <1>6, <1>7, <1>8


-----------------------------------------------------------------------------
(* Where nothing is escaped, and a record ending is no separator, quote or *)
(* padding, the last byte tells whether the record is terminated.          *)
TerminatorTells(f) ==
    /\ ~f.escapes
    /\ f.ending \notin f.skips \cup f.padding \cup {"delim", "quote"}
    /\ f.kind # "byte" => f.ending = "lf"

LEMMA NothingEscaped ==
    ASSUME NEW f, ~f.escapes, NEW m \in Open, NEW b
    PROVE  NextMode(f, m, b) # "escaped"
<1>1. \A x : Separated(f, b, x) \in {"field", "cr", "malformed", "start", x}
  BY DEF Separated
<1>2. /\ FieldOpens(f, b) # "escaped" /\ QuotedFieldEnds(f, b) # "escaped"
      /\ Separated(f, b, "unquoted") # "escaped"
  BY <1>1 DEF FieldOpens, QuotedFieldEnds
<1> QED  BY <1>2 DEF NextMode, ModeAfter, Open

LEMMA EndingEnds ==
    ASSUME NEW f, TerminatorTells(f), NEW m \in Open \ {"escaped"}
    PROVE  NextMode(f, m, f.ending) \in {"start", "malformed", "quoted"}
<1> DEFINE b == f.ending
<1>1. \A x : Separated(f, b, x) \in {"start", "malformed"}
  BY DEF Separated, TerminatorTells
<1>2. FieldOpens(f, b) \in {"start", "malformed"} /\ QuotedFieldEnds(f, b) \in {"start", "malformed"}
  BY <1>1 DEF FieldOpens, QuotedFieldEnds, TerminatorTells
<1> QED  BY <1>1, <1>2 DEF NextMode, ModeAfter, Open, TerminatorTells

LEMMA LastByteTells ==
    ASSUME NEW f, TerminatorTells(f), f.limit \in Nat, NEW w, Len(w) \in Nat, NEW p \in 0..Len(w),
           p < Len(w), EndsAt(f, w, p, Len(w)), w[Len(w)] = f.ending
    PROVE  PhysicalRecord(f, w, p).terminated
<1> DEFINE n == Len(w)
<1>1. PICK run :
         /\ run[p] = [mode |-> "start", at |-> p, fields |-> 1, plain |-> TRUE]
         /\ \A i \in (p + 1)..n : run[i] = ReadByte(f, p + f.limit, run[i - 1], w[i], i)
         /\ \A i \in p..n :
               run[i] \in States /\ (run[i].mode # "malformed" => run[i].at \in p..i)
         /\ PhysicalRecord(f, w, p) = Judged(f, w, p, run[n])
  BY ZenonT(60), PhysicalRecordRun
<1> DEFINE s == run[n]
           t == run[n - 1]
           Verdict(v, at) == [verdict |-> v, at |-> at, terminated |-> s.mode = "ended",
                              fields |-> s.fields, plain |-> s.plain]
<1>2. PhysicalRecord(f, w, p) =
         CASE s.mode = "malformed" -> Verdict("syntax", s.at)
           [] s.mode = "too large" \/ (s.mode = "closed" /\ s.at > p + f.limit) ->
                Verdict("too large", s.at)
           [] s.mode \in {"quoted", "quoted_escaped"} -> Verdict("unterminated", n)
           [] s.mode = "cr" -> Verdict("syntax", n - 1)
           [] OTHER -> Verdict("ok", s.at)
  BY Zenon, <1>1 DEF Judged
<1>3. /\ Verdict("ok", s.at).at = s.at
      /\ s.mode = "ended" => Verdict("ok", s.at).terminated
  OBVIOUS
<1>4. s = ReadByte(f, p + f.limit, t, f.ending, n)
  BY <1>1
<1>5. /\ t \in States /\ (t.mode # "malformed" => t.at \in p..(n - 1))
  <2>1. n - 1 \in p..n
    OBVIOUS
  <2> QED  BY <1>1, <2>1
<1>6. t.mode # "escaped"
  <2>1. CASE n - 1 = p
    BY <1>1, <2>1
  <2>2. CASE n - 1 # p
    <3> DEFINE i == n - 1
               r == run[i - 1]
    <3>1. i \in (p + 1)..n /\ i - 1 \in p..n
      BY <2>2
    <3>2. t = ReadByte(f, p + f.limit, r, w[i], i) /\ r \in States
      BY <1>1, <3>1
    <3> HIDE DEF i, r, t
    <3>3. r.mode \in Open \/ r.mode \in {"ended", "malformed", "too large"}
      BY <3>2 DEF States, Modes
    <3>4. r.mode \in Open => NextMode(f, r.mode, w[i]) # "escaped"
      BY NothingEscaped DEF TerminatorTells
    <3> QED  BY <3>2, <3>3, <3>4 DEF ReadByte
  <2> QED  BY <2>1, <2>2
<1> HIDE DEF s, t, Verdict
<1>7. PhysicalRecord(f, w, p).verdict = "ok" /\ PhysicalRecord(f, w, p).at = n
  BY DEF EndsAt
<1>8. s.mode \notin {"malformed", "too large", "quoted"} /\ PhysicalRecord(f, w, p) = Verdict("ok", s.at)
  <2> DEFINE r == PhysicalRecord(f, w, p)
             x == Verdict("syntax", s.at)
             y == Verdict("too large", s.at)
             z == Verdict("unterminated", n)
             u == Verdict("syntax", n - 1)
             v == Verdict("ok", s.at)
             late == s.mode = "closed" /\ s.at > p + f.limit
  <2>1. r = CASE s.mode = "malformed" -> x
              [] s.mode = "too large" \/ late -> y
              [] s.mode \in {"quoted", "quoted_escaped"} -> z
              [] s.mode = "cr" -> u
              [] OTHER -> v
    BY <1>2
  <2>2. x.verdict # "ok" /\ y.verdict # "ok" /\ z.verdict # "ok" /\ u.verdict # "ok"
    BY DEF Verdict
  <2>3. r.verdict = "ok"
    BY <1>7
  <2>4. late => s.mode = "closed"
    OBVIOUS
  <2> DEFINE m == s.mode
  <2> HIDE DEF r, x, y, z, u, v, late, m
  <2>5. r # x /\ r # y /\ r # z /\ r # u
    BY <2>2, <2>3
  <2>6. m \notin {"malformed", "too large", "quoted"} /\ r = v
    BY ONLY <2>1, <2>4, <2>5 DEF m
  <2> QED  BY <2>6 DEF m, r, v
<1>9. t.mode \notin {"ended", "malformed", "too large"}
  <2>1. t.mode \in {"ended", "malformed", "too large"} => s = t
    BY <1>4 DEF ReadByte
  <2>2. t.mode = "ended" => t.at # n
    BY <1>5
  <2>3. s.at = n
    BY <1>3, <1>7, <1>8
  <2> QED  BY <1>8, <2>1, <2>2, <2>3
<1>10. t.mode \in Open \ {"escaped"}
  BY <1>5, <1>6, <1>9 DEF States, Modes
<1>11. NextMode(f, t.mode, f.ending) \in {"start", "malformed", "quoted"}
  BY <1>10, EndingEnds
<1>12. s.mode \in {"ended", "malformed", "too large", "quoted"}
  BY <1>4, <1>9, <1>11 DEF ReadByte
<1>13. s.mode = "ended"
  BY <1>8, <1>12
<1> QED  BY <1>3, <1>8, <1>13


-----------------------------------------------------------------------------
(* What the front end is told is of the stream.                            *)
LEMMA WindowedOn ==
    ASSUME NEW f, NEW w, NEW s, NEW k, NEW e, Windowed(f, w, s, k, e),
           NEW c \in Engines(Len(w), Pulled), Tallied(w, c), c.line_base = e.line_base
    PROVE  Windowed(f, w, s, k, c)
BY DEF Windowed

TellsOfTheStream(f, w, s, k, o) ==
    /\ o.tag = "error" => BlamesTheStream(f, s, k, o.error)
    /\ o.tag = "record" => Sees(f, w, s, k, o.engine)

(* What a try and an advance come to.                                      *)
LEMMA TriedTells ==
    ASSUME NEW f, NEW w, NEW s, NEW k, NEW e, Windowed(f, w, s, k, e), NEW owned \in BOOLEAN,
           NEW o, o = TryWindow(f, w, e, owned)
    PROVE  /\ Windowed(f, w, s, k, o.engine)
           /\ Certain(w, o) => BlamesTheStream(f, s, k, o.error)
           /\ ~owned /\ Whole(w, o) => Sees(f, w, s, k, o.engine)
           /\ owned /\ TerminatorTells(f) /\ Whole(w, o) =>
                 EndsAt(f, s, k + o.engine.cursor_start, k + o.engine.location)
<1> DEFINE c == o.engine
           r == PhysicalRecord(f, w, c.cursor_start)
<1>1. /\ Pulled \in Parsers /\ Suits(Pulled, f) /\ e \in Engines(Len(w), Pulled)
      /\ Len(w) \in Nat /\ f.limit \in Nat /\ "lf" \notin f.skips /\ Tallied(w, e)
  BY PulledSuits DEF Windowed
<1>2. o \in Outs(Len(w), Pulled) /\ (o.tag = "record" => Positioned(c))
  BY <1>1, TryWindowType DEF Found
<1>3. Finds(f, w, e, o, owned)
  BY <1>1, TryWindowFinds
<1>4. Tallied(w, c) /\ c.line_base = e.line_base
  BY <1>1, TryWindowCounts DEF Passes, Counts
<1>5. Windowed(f, w, s, k, c)
  <2>1. c \in Engines(Len(w), Pulled)
    BY <1>2 DEF Outs
  <2> QED  BY <1>4, <2>1, WindowedOn
<1>6. Certain(w, o) => BlamesTheStream(f, s, k, o.error)
  <2>1. o.error \in ErrorsAt
    BY <1>2 DEF Outs
  <2> QED  BY <1>3, <2>1, BlamesOn DEF Certain, Finds
<1>7. Whole(w, o) =>
         /\ Positioned(c) /\ Ready(f, w, c)
         /\ ~owned => c.cursor_end = c.location
         /\ c.location < Len(w) \/ r.terminated \/ (owned /\ EndedOnTerminator(f, w, c))
  BY <1>2, <1>3 DEF Finds, Whole, WindowSettled
<1> HIDE DEF c
<1>8. ~owned /\ Whole(w, o) => Sees(f, w, s, k, c)
  BY <1>5, <1>7, SeesWhole
<1>9. owned /\ TerminatorTells(f) /\ Whole(w, o) =>
         EndsAt(f, s, k + c.cursor_start, k + c.location)
  <2>1. SUFFICES ASSUME owned, TerminatorTells(f), Whole(w, o)
                 PROVE  EndsAt(f, s, k + c.cursor_start, k + c.location)
    OBVIOUS
  <2>2. EndsAt(f, w, c.cursor_start, c.location) /\ c.cursor_start < Len(w)
        /\ c.cursor_start \in 0..Len(w)
    BY <1>7, <2>1 DEF Ready, HasRead, EndsAt
  <2>3. EndedOnTerminator(f, w, c) => r.terminated
    BY <1>1, <2>1, <2>2, LastByteTells DEF EndedOnTerminator
  <2> QED  BY <1>5, <1>7, <2>1, <2>2, <2>3, EndsOn
<1> QED  BY <1>5, <1>6, <1>8, <1>9 DEF c

LEMMA AdvanceErrs ==
    ASSUME NEW f, NEW q \in Parsers, Suits(q, f), NEW w, Len(w) \in Nat,
           NEW e \in Engines(Len(w), q)
    PROVE  Advance(f, w, e).error \in ErrorsAt
<1> DEFINE At(c) == Answers(c, IF Positioned(c) THEN "record" ELSE "done")
           Onward(o) == IF o.tag = "error" THEN Errs(o) ELSE At(Position(f, w, o.engine))
           Headed(o) == IF o.tag = "error" THEN Errs(o) ELSE Onward(Settle(f, w, o.engine))
<1>1. NoError \in ErrorsAt
  BY DEF NoError, ErrorsAt, Kinds
<1>2. \A o \in Outs(Len(w), q) : Errs(o).error \in ErrorsAt
  BY DEF Errs, Answers, Outs
<1>3. \A c : At(c).error \in ErrorsAt
  BY <1>1 DEF Answers
<1> HIDE DEF At
<1>4. \A o \in Outs(Len(w), q) : Onward(o).error \in ErrorsAt
  BY <1>2, <1>3
<1> HIDE DEF Onward
<1>5. \A o \in Outs(Len(w), q) : Headed(o).error \in ErrorsAt
  <2>1. ASSUME NEW o \in Outs(Len(w), q)
        PROVE  Onward(Settle(f, w, o.engine)).error \in ErrorsAt
    <3>1. o.engine \in Engines(Len(w), q)
      BY DEF Outs
    <3> QED  BY <1>4, <3>1, SettleType
  <2> QED  BY <1>2, <2>1
<1> HIDE DEF Headed
<1>6. Advance(f, w, e) =
         IF e.failed THEN Errs(ParserFailed(w, e)) ELSE Headed(HeadersOfInput(f, w, e))
  BY Zenon DEF Advance, Headed, Onward, At
<1>7. Errs(ParserFailed(w, e)).error \in ErrorsAt
  BY <1>2, ParserFailedType
<1>8. Headed(HeadersOfInput(f, w, e)).error \in ErrorsAt
  BY <1>5, HeadersType
<1> QED  BY <1>6, <1>7, <1>8

LEMMA AdvancedTells ==
    ASSUME NEW f, NEW w, NEW s, NEW k, NEW e, Windowed(f, w, s, k, e), NEW a,
           a = Advance(f, w, e)
    PROVE  /\ Windowed(f, w, s, k, a.engine)
           /\ ToEnd(w, s, k) => TellsOfTheStream(f, w, s, k, a)
           /\ a.tag = "record" => /\ Positioned(a.engine)
                                  /\ a.engine.cursor_start = a.engine.location
                                  /\ a.engine.location < Len(w)
<1> DEFINE c == a.engine
<1>1. /\ Pulled \in Parsers /\ Suits(Pulled, f) /\ e \in Engines(Len(w), Pulled)
      /\ Len(w) \in Nat /\ f.limit \in Nat /\ "lf" \notin f.skips /\ Tallied(w, e)
  BY PulledSuits DEF Windowed
<1>2. c \in Engines(Len(w), Pulled) /\ (a.tag = "record" => Positioned(c)) /\ a.error \in ErrorsAt
  BY <1>1, AdvanceType, AdvanceErrs DEF Shows, Stays
<1>3. /\ BlamesHere(f, w, e, a)
      /\ a.tag = "record" => /\ c.cursor_start = c.location
                             /\ c.location < Len(w)
                             /\ c.cursor_end = NO_OFFSET
  BY <1>1, AdvanceTells
<1>4. Tallied(w, c) /\ c.line_base = e.line_base
  BY <1>1, AdvanceCounts DEF Passes, Counts
<1>5. Windowed(f, w, s, k, c)
  BY <1>2, <1>4, WindowedOn
<1> HIDE DEF c
<1>6. ToEnd(w, s, k) /\ a.tag = "error" => BlamesTheStream(f, s, k, a.error)
  BY <1>2, <1>3, BlamesOn
<1>7. ToEnd(w, s, k) /\ a.tag = "record" => Sees(f, w, s, k, c)
  BY <1>2, <1>3, <1>5, SeesAtEnd
<1> QED  BY <1>2, <1>3, <1>5, <1>6, <1>7 DEF TellsOfTheStream, c


LEMMA AdvanceWindowTells ==
    ASSUME NEW f, NEW w, NEW s, NEW k, NEW e, Windowed(f, w, s, k, e), NEW atEnd,
           atEnd => ToEnd(w, s, k)
    PROVE  /\ ~SkipsRecords(f) => TellsOfTheStream(f, w, s, k, AdvanceWindowLazily(f, w, e, atEnd))
           /\ TellsOfTheStream(f, w, s, k, AdvanceWindowEagerly(f, w, e, atEnd))
<1> DEFINE o == TryWindow(f, w, e, FALSE)
           a == Advance(f, w, e)
           c == RestoreCursor(e, o.engine)
           b == Advance(f, w, c)
           Fine(x) == TellsOfTheStream(f, w, s, k, x)
<1>0. /\ Pulled \in Parsers /\ Suits(Pulled, f) /\ e \in Engines(Len(w), Pulled)
      /\ Len(w) \in Nat /\ "lf" \notin f.skips /\ Tallied(w, e)
  BY PulledSuits DEF Windowed
<1>1. /\ Certain(w, o) => BlamesTheStream(f, s, k, o.error)
      /\ Whole(w, o) => Sees(f, w, s, k, o.engine)
  <2> DEFINE Tells(owned, x) ==
                 /\ Certain(w, x) => BlamesTheStream(f, s, k, x.error)
                 /\ ~owned /\ Whole(w, x) => Sees(f, w, s, k, x.engine)
  <2>1. \A owned \in BOOLEAN : Tells(owned, TryWindow(f, w, e, owned))
    BY TriedTells
  <2> HIDE DEF Tells
  <2>2. Tells(FALSE, o)
    BY <2>1
  <2> QED  BY <2>2 DEF Tells
<1>2. /\ Windowed(f, w, s, k, a.engine) /\ ToEnd(w, s, k) => Fine(a)
      /\ Windowed(f, w, s, k, a.engine)
      /\ a.tag = "record" => Positioned(a.engine)
  BY AdvancedTells
<1>3. c \in Engines(Len(w), Pulled)
  BY <1>0, TryWindowType, RestoredType DEF Found, Outs
<1>4. ~SkipsRecords(f) /\ Certain(w, o) => Fine(b)
  <2>1. SUFFICES ASSUME ~SkipsRecords(f), Certain(w, o)
                 PROVE  Fine(b)
    OBVIOUS
  <2>2. /\ b.tag = "error" => b.error = o.error
        /\ b.tag = "record" => /\ Materialize(f, w, b.engine).tag = "error"
                               /\ Materialize(f, w, b.engine).error = o.error
    <3>1. o.tag = "error"
      BY <2>1 DEF Certain
    <3> QED  BY <1>0, <2>1, <3>1, AdvanceAgain
  <2> HIDE DEF o, b
  <2> QED  BY <1>1, <2>1, <2>2 DEF TellsOfTheStream, Sees
<1> HIDE DEF o, a, c, b
<1>5. /\ Certain(w, o) => Fine(Errs(o))
      /\ Whole(w, o) => Fine(Answers(o.engine, "record"))
      /\ Fine(Answers(c, "more"))
  <2>1. /\ Errs(o).tag = "error" /\ Errs(o).error = o.error
        /\ Answers(o.engine, "record").tag = "record"
        /\ Answers(o.engine, "record").engine = o.engine
        /\ Answers(c, "more").tag = "more"
    BY DEF Errs, Answers
  <2> HIDE DEF Errs, Answers
  <2> QED  BY <1>1, <2>1 DEF TellsOfTheStream
<1> HIDE DEF Fine
<1>6. ~SkipsRecords(f) => Fine(AdvanceWindowLazily(f, w, e, atEnd))
  <2> DEFINE tried == CASE Whole(w, o) -> Answers(o.engine, "record")
                        [] Certain(w, o) -> b
                        [] OTHER -> Answers(c, "more")
  <2>1. AdvanceWindowLazily(f, w, e, atEnd) = IF atEnd THEN a ELSE tried
    BY Zenon DEF AdvanceWindowLazily, tried, o, a, b, c
  <2>2. ~SkipsRecords(f) => Fine(tried)
    BY <1>4, <1>5 DEF Whole, Certain
  <2> HIDE DEF tried
  <2> QED  BY <1>2, <2>1, <2>2
<1>7. Fine(AdvanceWindowEagerly(f, w, e, atEnd))
  <2> DEFINE tried == CASE Whole(w, o) -> Answers(o.engine, "record")
                        [] Certain(w, o) -> Errs(o)
                        [] OTHER -> Answers(c, "more")
             Parsed(x) == IF x.tag = "error" THEN Errs(x) ELSE Answers(x.engine, "record")
             last == IF a.tag = "record" THEN Parsed(Materialize(f, w, a.engine)) ELSE a
  <2>1. AdvanceWindowEagerly(f, w, e, atEnd) = IF atEnd THEN last ELSE tried
    BY Zenon DEF AdvanceWindowEagerly, tried, last, Parsed, o, a, c
  <2>2. Fine(tried)
    BY <1>5 DEF Whole, Certain
  <2>3. a.tag = "record" /\ ToEnd(w, s, k) => Fine(Parsed(Materialize(f, w, a.engine)))
    <3>1. SUFFICES ASSUME a.tag = "record", ToEnd(w, s, k)
                   PROVE  Fine(Parsed(Materialize(f, w, a.engine)))
      OBVIOUS
    <3> DEFINE y == a.engine
               x == Materialize(f, w, y)
    <3>2. Sees(f, w, s, k, y)
      BY <1>2, <3>1 DEF Fine, TellsOfTheStream
    <3>3. y \in Engines(Len(w), Pulled) /\ Positioned(y) /\ Windowed(f, w, s, k, y)
      BY <1>2, <3>1 DEF Windowed
    <3> HIDE DEF y
    <3>4. x.tag \in {"record", "error"}
      BY <1>0, <3>3, MaterializeType
    <3>5. x.tag = "record" => Sees(f, w, s, k, x.engine)
      BY <3>2, <3>3, SeesAgain
    <3>6. x.tag = "error" => BlamesTheStream(f, s, k, x.error)
      BY <3>2 DEF Sees
    <3> HIDE DEF x
    <3>7. /\ Errs(x).tag = "error" /\ Errs(x).error = x.error
          /\ Answers(x.engine, "record").tag = "record"
          /\ Answers(x.engine, "record").engine = x.engine
      BY DEF Errs, Answers
    <3>8. Fine(Parsed(x))
      <4> HIDE DEF Errs, Answers
      <4> QED  BY <3>4, <3>5, <3>6, <3>7 DEF Fine, TellsOfTheStream
    <3> HIDE DEF Parsed
    <3> QED  BY <3>8 DEF x, y
  <2> HIDE DEF Parsed, tried
  <2> QED  BY <1>2, <2>1, <2>2, <2>3
<1> QED  BY <1>6, <1>7 DEF Fine

(* A record read into the caller's storage.                                *)
LEMMA ReadWindowOwnedTells ==
    ASSUME NEW f, TerminatorTells(f), NEW w, NEW s, NEW k, NEW e, Windowed(f, w, s, k, e),
           NEW atEnd, atEnd => ToEnd(w, s, k), NEW o,
           o = ReadWindowOwned(f, w, e, atEnd)
    PROVE  /\ o.tag = "error" => BlamesTheStream(f, s, k, o.error)
           /\ o.tag = "record" => /\ EndsAt(f, s, k + o.record.start, k + o.record.end)
                                  /\ o.record.start \in Int /\ o.record.end \in Int
                                  /\ DOMAIN o.record = {"start", "end", "index"}
<1> DEFINE x == TryWindow(f, w, e, TRUE)
           a == Advance(f, w, e)
           c == a.engine
           y == ParseRecord(f, w, c, TRUE)
           d == RestoreChunkCursor(e, x.engine)
           Fine(u) == /\ u.tag = "error" => BlamesTheStream(f, s, k, u.error)
                      /\ u.tag = "record" =>
                            /\ EndsAt(f, s, k + u.record.start, k + u.record.end)
                            /\ u.record.start \in Int /\ u.record.end \in Int
                            /\ DOMAIN u.record = {"start", "end", "index"}
           tried == CASE Whole(w, x) -> Owned(x.engine)
                      [] Certain(w, x) -> Errs(x)
                      [] OTHER -> Answers(d, "more")
           Parsed(u) == IF u.tag = "error" THEN Errs(u) ELSE Owned(u.engine)
           last == IF a.tag = "record" THEN Parsed(y) ELSE a
<1>1. o = IF atEnd THEN last ELSE tried
  BY Zenon DEF ReadWindowOwned
<1>2. /\ Certain(w, x) => BlamesTheStream(f, s, k, x.error)
      /\ Whole(w, x) => EndsAt(f, s, k + x.engine.cursor_start, k + x.engine.location)
  <2> DEFINE Tells(owned, u) ==
                 /\ Certain(w, u) => BlamesTheStream(f, s, k, u.error)
                 /\ owned /\ TerminatorTells(f) /\ Whole(w, u) =>
                       EndsAt(f, s, k + u.engine.cursor_start, k + u.engine.location)
  <2>1. \A owned \in BOOLEAN : Tells(owned, TryWindow(f, w, e, owned))
    BY TriedTells
  <2> HIDE DEF Tells
  <2>2. Tells(TRUE, x)
    BY <2>1
  <2> QED  BY <2>2 DEF Tells
<1>3. /\ Windowed(f, w, s, k, c)
      /\ ToEnd(w, s, k) /\ a.tag = "error" => BlamesTheStream(f, s, k, a.error)
      /\ a.tag = "record" => c.cursor_start = c.location
  BY AdvancedTells DEF TellsOfTheStream
<1>4. /\ Pulled \in Parsers /\ Suits(Pulled, f) /\ e \in Engines(Len(w), Pulled)
       /\ Len(w) \in Nat /\ f.limit \in Nat
  BY PulledSuits DEF Windowed
<1>5. x.engine \in Engines(Len(w), Pulled)
  BY <1>4, TryWindowType DEF Found, Outs
<1> HIDE DEF x, a, c
<1>6. \A u \in Engines(Len(w), Pulled) : u.cursor_start \in Int /\ u.location \in Int
  BY <1>4 DEF Engines, NO_OFFSET
<1>7. \A u : /\ Errs(u).tag = "error" /\ Errs(u).error = u.error
             /\ Answers(u, "more").tag = "more"
  BY DEF Errs, Answers
<1>8. \A u : /\ Owned(u).tag = "record"
             /\ Owned(u).record.start = u.cursor_start /\ Owned(u).record.end = u.location
             /\ DOMAIN Owned(u).record = {"start", "end", "index"}
  BY DEF Owned, Answers
<1> HIDE DEF d
<1>9. Fine(tried)
  <2>1. Whole(w, x) => Fine(Owned(x.engine))
    <3> QED  BY <1>2, <1>8, <1>5, <1>6
  <2>2. Certain(w, x) => Fine(Errs(x))
    BY <1>2, <1>7
  <2>3. Fine(Answers(d, "more"))
    BY <1>7
  <2> HIDE DEF Fine
  <2> QED  BY <2>1, <2>2, <2>3
<1>10. ToEnd(w, s, k) /\ a.tag = "record" => Fine(Parsed(y))
  <2>1. SUFFICES ASSUME ToEnd(w, s, k), a.tag = "record"
                 PROVE  Fine(Parsed(y))
    OBVIOUS
  <2>2. /\ Pulled \in Parsers /\ Suits(Pulled, f) /\ c \in Engines(Len(w), Pulled)
        /\ Len(w) \in Nat /\ f.limit \in Nat
    BY <1>3, PulledSuits DEF Windowed
  <2> DEFINE Tells(u) ==
                        /\ BlamesHere(f, w, c, u)
                        /\ u.tag = "record" => EndsAt(f, w, c.location, u.engine.location)
                        /\ u.tag \in {"record", "error"} /\ u.error \in ErrorsAt
                        /\ u.engine.cursor_start = c.cursor_start
                        /\ u.engine \in Engines(Len(w), Pulled)
  <2>3. \A owned : Tells(ParseRecord(f, w, c, owned))
    BY <2>2, ParseRecordTells, ParseRecordType DEF Outs
  <2> HIDE DEF Tells
  <2>4. Tells(y)
    BY <2>3
  <2> HIDE DEF y
  <2>5. /\ BlamesHere(f, w, c, y) /\ y.tag \in {"record", "error"} /\ y.error \in ErrorsAt
        /\ y.tag = "record" => EndsAt(f, w, c.location, y.engine.location)
        /\ y.engine.cursor_start = c.cursor_start /\ y.engine \in Engines(Len(w), Pulled)
    BY <2>4 DEF Tells
  <2>6. ASSUME y.tag = "error" PROVE BlamesTheStream(f, s, k, y.error)
    BY <1>3, <2>1, <2>5, <2>6, BlamesOn
  <2>7. ASSUME y.tag = "record"
        PROVE  EndsAt(f, s, k + y.engine.cursor_start, k + y.engine.location)
    BY <1>3, <2>1, <2>5, <2>7, EndsOn
  <2>8. CASE y.tag = "error"
    <3>1. Parsed(y) = Errs(y)
      BY <2>8
    <3> HIDE DEF Parsed
    <3> QED  BY <1>7, <2>6, <2>8, <3>1
  <2>9. CASE y.tag # "error"
    <3>1. Parsed(y) = Owned(y.engine) /\ y.tag = "record"
      BY <2>5, <2>9
    <3>2. y.engine.cursor_start \in Int /\ y.engine.location \in Int
      BY <1>6, <2>5
    <3> HIDE DEF Parsed
    <3> QED  BY <1>8, <2>7, <3>1, <3>2
  <2> QED  BY <2>8, <2>9
<1>11. ToEnd(w, s, k) => Fine(last)
  <2>1. ToEnd(w, s, k) /\ a.tag # "record" => Fine(a)
    BY <1>3
  <2> HIDE DEF Fine, Parsed
  <2> QED  BY <1>10, <2>1
<1> HIDE DEF Fine, tried, last
<1>12. Fine(o)
  BY <1>1, <1>9, <1>11
<1> QED  BY <1>12 DEF Fine

(* The headers.                                                            *)
LEMMA HeadersWindowTells ==
    ASSUME NEW f, NEW w, NEW s, NEW k, NEW e, Windowed(f, w, s, k, e), NEW atEnd,
           atEnd => ToEnd(w, s, k), NEW o, o = HeadersWindow(f, w, e, atEnd), o.tag = "error"
    PROVE  BlamesTheStream(f, s, k, o.error)
<1> DEFINE x == IF atEnd THEN HeadersOfInput(f, w, e) ELSE HeadersOfWindow(f, w, e)
           y == [x EXCEPT !.engine = KnowHeaders(@)]
<1>0. /\ Pulled \in Parsers /\ Suits(Pulled, f) /\ e \in Engines(Len(w), Pulled)
      /\ Len(w) \in Nat /\ f.limit \in Nat /\ "lf" \notin f.skips /\ Tallied(w, e)
  BY PulledSuits DEF Windowed
<1>1. x \in Outs(Len(w), Pulled) /\ BlamesHere(f, w, e, x)
  BY <1>0, HeadersType, HeadersBlame
<1>2. y.error = x.error
  BY <1>1 DEF Outs
<1>3. o = CASE x.tag = "error" /\ (atEnd \/ Certain(w, x)) -> Errs(y)
            [] x.tag # "error" /\ (atEnd \/ x.engine.headers) -> Answers(KnowHeaders(x.engine), "record")
            [] OTHER -> Answers(RestoreCursor(e, x.engine), "more")
  BY Zenon DEF HeadersWindow
<1> HIDE DEF x, y
<1>4. \A c : Answers(c, "record").tag = "record" /\ Answers(c, "more").tag = "more"
  BY DEF Answers
<1>5. Errs(y).error = y.error
  BY DEF Errs, Answers
<1>6. x.tag = "error" /\ (atEnd \/ Certain(w, x)) /\ o = Errs(y)
  BY <1>3, <1>4
<1>7. ToEnd(w, s, k) \/ ~Truncated(w, x.error)
  BY <1>6 DEF Certain
<1>8. BlamesTheStream(f, s, k, x.error)
  BY <1>1, <1>6, <1>7, BlamesOn DEF Outs
<1> QED  BY <1>2, <1>5, <1>6, <1>8


-----------------------------------------------------------------------------
(* The pull parser: what it answers is of the stream.  Every record it     *)
(* returns is the record the whole stream has at that offset, with the end *)
(* it has there, and every error of a record is the error the whole stream *)
(* has at that byte, on that line.  A rejected mark is reported in place of*)
(* what comes later.                                                       *)
OfTheStream ==
    /\ answer.tag = "record" => EndsAt(format, stream, answer.record.start, answer.record.end)
    /\ answer.tag = "error" /\ bom # "rejected" => Blames(format, stream, 1, answer.error)

(* Where the caller's storage is read into, the last byte tells.           *)
Tellable == "owned" \in Calls[format] => TerminatorTells(format)

StreamInv ==
    /\ eof => pos = Len(stream)
    /\ call # "none" => answer.tag = "none"
    /\ call = "owned" => "owned" \in Calls[format]
    /\ InSight /\ bom # "rejected" => Sees(format, window, stream, consumed, engine)
    /\ OfTheStream

LEMMA WindowOfStream ==
    ASSUME WindowInv, OnTheTally
    PROVE  /\ Windowed(format, window, stream, consumed, engine)
           /\ StreamInv /\ eof => ToEnd(window, stream, consumed)
<1>1. format.limit \in Nat
  BY LimitsAssumption DEF WindowInv, InWindow
<1>2. /\ Len(stream) \in Nat /\ consumed + Len(window) = pos /\ pos \in 0..Len(stream)
  BY WindowFacts DEF WindowInv, InWindow, WindowIsStream
<1>3. consumed + Len(window) <= Len(stream)
  BY <1>2
<1>4. Windowed(format, window, stream, consumed, engine)
  BY <1>1, <1>2, <1>3, WindowTallied DEF Windowed
<1> QED  BY <1>2, <1>4 DEF StreamInv, ToEnd

(* A call returns, or goes on.                                             *)
LEMMA ReturnOfStream ==
    ASSUME StreamInv, UNCHANGED <<format, stream, pos, eof, bom>>, NEW with, Return(with),
           with.tag = "record" => EndsAt(format, stream, with.record.start, with.record.end),
           with.tag = "error" /\ bom # "rejected" => Blames(format, stream, 1, with.error),
           with.tag = "line" /\ bom # "rejected" => Sees(format, window, stream, consumed, engine)'
    PROVE  StreamInv'
BY DEF StreamInv, OfTheStream, Return, InSight

LEMMA FailOfStream ==
    ASSUME StreamInv, UNCHANGED <<format, stream, pos, eof, bom>>, NEW error, Fail(error),
           bom # "rejected" => BlamesTheStream(format, stream, consumed, error)
    PROVE  StreamInv'
<1> DEFINE rebased == Rebased(error)
           with == [tag |-> "error", error |-> rebased]
<1>1. with.tag = "error" /\ with.error = rebased /\ Return(with)
  BY DEF Fail
<1>2. bom # "rejected" => Blames(format, stream, 1, rebased)
  BY DEF BlamesTheStream, Rebased
<1> HIDE DEF with, rebased
<1> QED  BY <1>1, <1>2, ReturnOfStream

LEMMA GoesOnOfStream ==
    ASSUME StreamInv, UNCHANGED <<format, stream, answer>>, answer.tag = "none",
           eof' => pos' = Len(stream), call' = "owned" => call = "owned",
           InSight' /\ bom' # "rejected" => Sees(format, window, stream, consumed, engine)'
    PROVE  StreamInv'
BY DEF StreamInv, OfTheStream

LEMMA StartsOfStream ==
    ASSUME UNCHANGED <<format, stream>>, answer' = NoAnswer, eof' => pos' = Len(stream),
           call' = "owned" => "owned" \in Calls[format], call' \notin {"field", "first"}
    PROVE  StreamInv'
BY DEF StreamInv, OfTheStream, InSight, NoAnswer

LEMMA NothingToBlame ==
    ASSUME NEW error, error.kind \notin FromRecord, NEW f, NEW s
    PROVE  Blames(f, s, 1, error)
BY DEF Blames

-----------------------------------------------------------------------------
(* One lemma for each of the front end's steps.                            *)
LEMMA InitOfStream == Init => StreamInv
BY DEF Init, StreamInv, OfTheStream, InSight, NoAnswer

LEMMA CallOfStream ==
    ASSUME WindowInv, StreamInv, NEW reads \in Calls[format], Call(reads)
    PROVE  StreamInv'
<1>1. reads \in {"line", "owned", "match"}
  BY CallsAssumption DEF WindowInv, InWindow
<1>2. call' = reads /\ answer' = NoAnswer /\ UNCHANGED <<format, stream, pos, eof>>
  BY DEF Call, reader
<1> QED  BY <1>1, <1>2, StartsOfStream DEF StreamInv

LEMMA RefuseOfStream ==
    ASSUME StreamInv, Refuse
    PROVE  StreamInv'
<1> DEFINE error == ErrorAt(window, engine, "failed", 0)
           with == [tag |-> "error", error |-> error]
<1>1. with.tag = "error" /\ with.error = error /\ error.kind = "failed" /\ Return(with)
      /\ UNCHANGED <<format, stream, pos, eof, bom>>
  BY DEF Refuse, ErrorAt, parser, reader
<1> HIDE DEF with, error
<1>2. Blames(format, stream, 1, error)
  BY <1>1, NothingToBlame DEF FromRecord
<1> QED  BY <1>1, <1>2, ReturnOfStream

LEMMA ResolveBomOfStream ==
    ASSUME WindowInv, StreamInv, ResolveBom
    PROVE  StreamInv'
<1>1. call # "none" /\ bom = "pending" /\ UNCHANGED <<format, stream, pos, eof, call, answer>>
  BY DEF ResolveBom, reader, caller
<1>2. answer.tag = "none" /\ ~InSight'
  BY <1>1 DEF StreamInv, InSight, WindowInv, Viewable
<1> QED  BY <1>1, <1>2, GoesOnOfStream DEF StreamInv

LEMMA RejectBomOfStream ==
    ASSUME StreamInv, RejectBom
    PROVE  StreamInv'
<1> DEFINE with == [tag |-> "error", error |-> RejectedBom]
<1>1. with.tag = "error" /\ Return(with) /\ bom = "rejected"
      /\ UNCHANGED <<format, stream, pos, eof, bom>>
  BY DEF RejectBom, reader
<1> HIDE DEF with
<1> QED  BY <1>1, ReturnOfStream

LEMMA EnsureHeadersOfStream ==
    ASSUME WindowInv, OnTheTally, StreamInv, EnsureHeaders
    PROVE  StreamInv'
<1> DEFINE o == HeadersWindow(format, window, engine, eof)
<1>1. /\ Turn(o) /\ ~headers_resolved
      /\ \/ AsksForMore(o)
         \/ Errors(o)
         \/ UNCHANGED <<failed, call, hungry, caller>>
  BY DEF EnsureHeaders
<1>2. o.tag = "error" => BlamesTheStream(format, stream, consumed, o.error)
  BY WindowOfStream, HeadersWindowTells
<1> HIDE DEF o
<1>3. /\ call # "none" /\ answer.tag = "none" /\ UNCHANGED <<format, stream, pos, eof, bom>>
      /\ ~InSight
  BY <1>1 DEF Turn, reader, StreamInv, InSight, WindowInv, Viewable
<1>4. CASE UNCHANGED <<call, answer>>
  BY <1>3, <1>4, GoesOnOfStream DEF StreamInv, InSight
<1>5. CASE Errors(o)
  BY <1>2, <1>3, <1>5, FailOfStream DEF Errors
<1> QED  BY <1>1, <1>4, <1>5 DEF AsksForMore, caller

LEMMA SkipToCandidateOfStream ==
    ASSUME StreamInv, SkipToCandidate
    PROVE  StreamInv'
<1>1. call = "match" /\ call' = "candidate" /\ UNCHANGED <<format, stream, pos, eof, answer>>
  BY DEF SkipToCandidate, reader, caller
<1>2. answer.tag = "none" /\ ~InSight'
  BY <1>1 DEF StreamInv, InSight
<1> QED  BY <1>1, <1>2, GoesOnOfStream DEF StreamInv

LEMMA ScanOfStream ==
    ASSUME WindowInv, OnTheTally, StreamInv, Tellable, Scan
    PROVE  StreamInv'
<1> DEFINE x == ReadWindowOwned(format, window, engine, eof)
           y == AdvanceWindowEagerly(format, window, engine, eof)
           z == AdvanceWindowLazily(format, window, engine, eof)
           o == IF call = "owned" THEN x
                ELSE IF SkipsRecords(format) /\ bom # "rejected" THEN y
                ELSE z
           record == RebasedRecord(o.record)
           line == IF call = "owned" THEN [tag |-> "record", record |-> record]
                   ELSE [tag |-> "line"]
<1>1. /\ Windowed(format, window, stream, consumed, engine)
      /\ eof => ToEnd(window, stream, consumed)
  BY WindowOfStream
<1>2. /\ ~SkipsRecords(format) => TellsOfTheStream(format, window, stream, consumed, z)
      /\ TellsOfTheStream(format, window, stream, consumed, y)
  BY <1>1, AdvanceWindowTells
<1>3. call = "owned" =>
         /\ x.tag = "error" => BlamesTheStream(format, stream, consumed, x.error)
         /\ x.tag = "record" =>
               /\ EndsAt(format, stream, consumed + x.record.start, consumed + x.record.end)
               /\ x.record.start \in Int /\ x.record.end \in Int
               /\ DOMAIN x.record = {"start", "end", "index"}
  BY <1>1, ReadWindowOwnedTells DEF Tellable, StreamInv
<1>4. /\ Turn(o) /\ call \in {"line", "owned", "candidate", "seek"}
      /\ \/ AsksForMore(o)
         \/ Errors(o)
         \/ /\ o.tag = "done" /\ call # "seek"
            /\ Return([tag |-> "done"])
         \/ /\ o.tag \in {"done", "record"} /\ call = "seek"
            /\ call' = IF o.tag = "done" THEN "move" ELSE "first"
            /\ UNCHANGED <<failed, headers_resolved, hungry, caller>>
         \/ /\ o.tag = "record" /\ call \in {"line", "owned"}
            /\ Return(line)
         \/ /\ o.tag = "record" /\ call = "candidate"
            /\ call' = "field"
            /\ UNCHANGED <<failed, headers_resolved, hungry, caller>>
  BY DEF Scan
<1>5. /\ call = "owned" /\ o.tag = "record" =>
            /\ EndsAt(format, stream, consumed + o.record.start, consumed + o.record.end)
            /\ o.record.start \in Int /\ o.record.end \in Int
            /\ DOMAIN o.record = {"start", "end", "index"}
      /\ call # "owned" /\ o.tag = "record" /\ bom # "rejected" =>
            Sees(format, window, stream, consumed, o.engine)
      /\ o.tag = "error" /\ bom # "rejected" => BlamesTheStream(format, stream, consumed, o.error)
  <2> HIDE DEF x, y, z
  <2>1. CASE call = "owned"
    <3>1. o = x
      BY <2>1
    <3> HIDE DEF o
    <3> QED  BY <1>3, <2>1, <3>1
  <2>2. CASE call # "owned" /\ SkipsRecords(format) /\ bom # "rejected"
    <3>1. o = y
      BY <2>2
    <3> HIDE DEF o
    <3> QED  BY <1>2, <2>2, <3>1 DEF TellsOfTheStream
  <2>3. CASE call # "owned" /\ ~(SkipsRecords(format) /\ bom # "rejected")
    <3>1. o = z
      BY <2>3
    <3> HIDE DEF o
    <3> QED  BY <1>2, <2>3, <3>1 DEF TellsOfTheStream
  <2> QED  BY <2>1, <2>2, <2>3
<1> HIDE DEF o
<1>6. /\ answer.tag = "none" /\ ~InSight
      /\ UNCHANGED <<format, stream, pos, eof, bom, window, consumed>> /\ engine' = o.engine
  BY <1>4 DEF Turn, reader, StreamInv, InSight, WindowInv, Viewable
<1>7. CASE AsksForMore(o)
  <2>1. UNCHANGED <<call, answer>>
    BY <1>7 DEF AsksForMore, caller
  <2> QED  BY <1>6, <2>1, GoesOnOfStream DEF StreamInv, InSight
<1>8. CASE Errors(o)
  BY <1>5, <1>6, <1>8, FailOfStream DEF Errors
<1>9. CASE Return([tag |-> "done"])
  <2> DEFINE with == [tag |-> "done"]
  <2>1. with.tag = "done" /\ Return(with)
    BY <1>9
  <2> HIDE DEF with
  <2> QED  BY <1>6, <2>1, ReturnOfStream
<1>10. CASE /\ call # "owned" /\ call' \in {"move", "first", "field"}
            /\ call' # "move" => o.tag = "record"
            /\ UNCHANGED answer
  <2>1. InSight' /\ bom' # "rejected" => Sees(format', window', stream', consumed', engine')
    BY <1>5, <1>6, <1>10 DEF InSight
  <2> QED  BY <1>6, <1>10, <2>1, GoesOnOfStream DEF StreamInv
<1>11. CASE o.tag = "record" /\ Return(line)
  <2>1. CASE call = "owned"
    <3>1. line.tag = "record" /\ line.record = record
      BY <2>1
    <3>2. record.start = consumed + o.record.start /\ record.end = consumed + o.record.end
      <4>1. consumed \in Int
        BY <1>1 DEF Windowed
      <4> QED  BY <1>5, <1>11, <2>1, <4>1 DEF RebasedRecord
    <3>3. EndsAt(format, stream, record.start, record.end)
      BY <1>5, <1>11, <2>1, <3>2
    <3> HIDE DEF record, line
    <3> QED  BY <1>5, <1>6, <1>11, <2>1, <3>1, <3>3, ReturnOfStream
  <2>2. CASE call # "owned"
    <3>1. line.tag = "line"
      BY <2>2
    <3>2. bom # "rejected" => Sees(format', window', stream', consumed', engine')
      BY <1>5, <1>6, <1>11, <2>2
    <3> HIDE DEF line
    <3> QED  BY <1>6, <1>11, <3>1, <3>2, ReturnOfStream
  <2> QED  BY <2>1, <2>2
<1> QED  BY <1>4, <1>7, <1>8, <1>9, <1>10, <1>11 DEF caller


LEMMA LookOfStream ==
    ASSUME WindowInv, OnTheTally, StreamInv, Look
    PROVE  StreamInv'
<1> DEFINE o == Materialize(format, window, engine)
<1>1. /\ call = "field" /\ Positioned(engine) /\ answer.tag = "none"
      /\ UNCHANGED <<format, stream, pos, eof, bom, window, consumed>> /\ engine' = o.engine
      /\ \/ o.tag = "error" /\ Fail(o.error)
         \/ o.tag = "record" /\ Return([tag |-> "line"])
         \/ o.tag = "record" /\ call' = "match" /\ UNCHANGED <<failed, hungry, caller>>
  BY DEF Look, reader, StreamInv, WindowInv, Viewable
<1>2. /\ Windowed(format, window, stream, consumed, engine)
      /\ bom # "rejected" => Sees(format, window, stream, consumed, engine)
  BY <1>1, WindowOfStream DEF StreamInv, InSight
<1>3. bom # "rejected" /\ o.tag = "error" => BlamesTheStream(format, stream, consumed, o.error)
  BY <1>2 DEF Sees
<1>4. bom # "rejected" /\ o.tag = "record" => Sees(format, window, stream, consumed, o.engine)
  BY <1>1, <1>2, SeesAgain
<1> HIDE DEF o
<1>5. CASE o.tag = "error" /\ Fail(o.error)
  BY <1>1, <1>3, <1>5, FailOfStream
<1>6. CASE o.tag = "record" /\ Return([tag |-> "line"])
  <2> DEFINE with == [tag |-> "line"]
  <2>1. with.tag = "line" /\ Return(with)
    BY <1>6
  <2>2. bom # "rejected" => Sees(format', window', stream', consumed', engine')
    BY <1>1, <1>4, <1>6
  <2> HIDE DEF with
  <2> QED  BY <1>1, <2>1, <2>2, ReturnOfStream
<1>7. CASE call' = "match" /\ UNCHANGED <<failed, hungry, caller>>
  <2>1. UNCHANGED answer /\ ~InSight'
    BY <1>1, <1>7 DEF caller, InSight
  <2> QED  BY <1>1, <1>7, <2>1, GoesOnOfStream DEF StreamInv
<1> QED  BY <1>1, <1>5, <1>6, <1>7

(* Only where there is nothing left does a read return nothing.            *)
LEMMA RefillOfStream ==
    ASSUME WindowInv, StreamInv, Refill
    PROVE  StreamInv'
<1>0. \E n \in IF Len(stream) - pos = 0 THEN {0}
                ELSE {Min({r, Len(stream) - pos}) : r \in Reads} :
         pos' = pos + n /\ eof' = (n = 0)
  BY DEF Refill
<1>1. PICK n : /\ Len(stream) - pos = 0 => n = 0
               /\ Len(stream) - pos # 0 => \E r \in Reads : n = Min({r, Len(stream) - pos})
               /\ pos' = pos + n /\ (eof' <=> n = 0)
  BY Zenon, <1>0
<1>2. pos \in Nat /\ Len(stream) \in Nat /\ pos \in 0..Len(stream)
  BY WindowFacts DEF WindowInv, InWindow
<1>3. n = 0 => Len(stream) - pos = 0
  <2>1. SUFFICES ASSUME Len(stream) - pos # 0, n = 0 PROVE FALSE
    OBVIOUS
  <2>2. PICK r \in Reads : n = Min({r, Len(stream) - pos})
    BY Zenon, <1>1, <2>1
  <2>3. r \in Nat \ {0}
    BY ReadsAssumption
  <2>4. n \in {r, Len(stream) - pos}
    <3>1. r \in Int /\ Len(stream) - pos \in Int
      BY <1>2, <2>3
    <3> QED  BY Zenon, <2>2, <3>1, MinOfTwo
  <2> QED  BY <2>1, <2>3, <2>4
<1>4. eof' => pos' = Len(stream)
  <2>1. SUFFICES ASSUME n = 0 PROVE pos' = Len(stream)
    BY Zenon, <1>1
  <2>2. pos' = pos + n
    BY Zenon, <1>1
  <2> QED  BY <1>2, <1>3, <2>1, <2>2
<1>5. UNCHANGED <<format, stream, call, answer, bom>> /\ ~InSight' /\ hungry
  BY DEF Refill, caller, InSight, WindowInv, Viewable
<1> QED  BY <1>4, <1>5 DEF StreamInv, OfTheStream

LEMMA ReadFailsOfStream ==
    ASSUME StreamInv, ReadFails
    PROVE  StreamInv'
<1> DEFINE e == ErrorAt(window', engine', "io", engine'.location)
           error == [e EXCEPT !.byte = @ + consumed']
           with == [tag |-> "error", error |-> error]
<1>1. /\ answer' = with /\ call' = "none" /\ UNCHANGED <<format, stream, pos, eof, bom>>
  BY DEF ReadFails, reader
<1>2. error.kind = "io" /\ with.tag = "error" /\ with.error = error
  BY DEF ErrorAt
<1> HIDE DEF error, with
<1>3. Blames(format, stream, 1, error)
  BY Zenon, <1>2, NothingToBlame DEF FromRecord
<1> QED  BY <1>1, <1>2, <1>3 DEF StreamInv, OfTheStream, InSight

LEMMA ViewOfStream ==
    ASSUME WindowInv, OnTheTally, StreamInv, View
    PROVE  StreamInv'
<1> DEFINE o == Materialize(format, window, engine)
           seen == IF bom = "rejected" THEN Failure(engine, RejectedBom) ELSE o
           record == RebasedRecord([start |-> seen.engine.cursor_start,
                                    end   |-> seen.engine.cursor_end,
                                    index |-> seen.engine.cursor_index])
           with == [tag |-> "record", record |-> record]
<1>1. /\ \/ seen.tag = "error" /\ Fail(seen.error)
         \/ seen.tag = "record" /\ Return(with)
      /\ answer.tag = "line" /\ UNCHANGED <<format, stream, pos, eof, bom>>
  <2>1. /\ \/ seen.tag = "error" /\ Fail(seen.error)
           \/ seen.tag = "record" /\ Return(with)
        /\ answer.tag = "line"
        /\ UNCHANGED <<format, stream, reader, window, consumed, bom, headers_resolved, filter, next>>
    BY Zenon DEF View, seen, o, with, record
  <2> HIDE DEF seen, with
  <2> QED  BY <2>1 DEF reader
<1>2. Positioned(engine) /\ Windowed(format, window, stream, consumed, engine)
  BY <1>1, WindowOfStream DEF WindowInv, Viewable
<1>3. bom # "rejected" => Sees(format, window, stream, consumed, engine)
  BY <1>1 DEF StreamInv, InSight
<1>4. bom # "rejected" /\ o.tag = "error" => BlamesTheStream(format, stream, consumed, o.error)
  BY <1>3 DEF Sees
<1>5. bom # "rejected" /\ o.tag = "record" =>
         EndsAt(format, stream, consumed + o.engine.cursor_start, consumed + o.engine.cursor_end)
  BY <1>2, <1>3, SeesAgain
<1>6. bom # "rejected" => seen = o
  OBVIOUS
<1>7. bom = "rejected" => seen.tag = "error"
  BY DEF Failure
<1>8. seen.engine.cursor_start \in Int /\ seen.engine.cursor_end \in Int /\ consumed \in Int
  <2>1. /\ engine \in Engines(Len(window), Pulled) /\ consumed \in Int /\ Len(window) \in Nat
    BY <1>2 DEF Windowed
  <2>2. o.engine \in Engines(Len(window), Pulled)
    BY <1>2, <2>1, PulledSuits, MaterializeType DEF Outs
  <2>3. seen.engine \in Engines(Len(window), Pulled)
    BY <2>1, <2>2 DEF Failure
  <2> HIDE DEF seen
  <2>4. NO_OFFSET \in Int
    BY DEF NO_OFFSET
  <2>5. /\ seen.engine.cursor_start \in (0..Len(window)) \cup {NO_OFFSET}
        /\ seen.engine.cursor_end \in Int
    BY <2>3 DEF Engines
  <2> QED  BY <2>1, <2>4, <2>5
<1> HIDE DEF o, seen
<1>9. with.tag = "record" /\ with.record = record
  OBVIOUS
<1>10. record.start = consumed + seen.engine.cursor_start
       /\ record.end = consumed + seen.engine.cursor_end
  BY <1>8 DEF RebasedRecord
<1> HIDE DEF with, record
<1>11. CASE seen.tag = "error" /\ Fail(seen.error)
  BY <1>1, <1>4, <1>6, <1>11, FailOfStream
<1>12. CASE seen.tag = "record" /\ Return(with)
  <2>1. bom # "rejected" /\ seen = o
    BY <1>6, <1>7, <1>12
  <2>2. EndsAt(format, stream, record.start, record.end)
    BY <1>5, <1>10, <1>12, <2>1
  <2> QED  BY <1>1, <1>9, <1>12, <2>2, ReturnOfStream
<1> QED  BY <1>1, <1>11, <1>12

LEMMA ReadFirstOfStream ==
    ASSUME WindowInv, StreamInv, ReadFirst
    PROVE  StreamInv'
<1> DEFINE o == RecordInto(format, window, engine)
           with == [tag |-> "unrebased", error |-> o.error]
<1>1. /\ call = "first" /\ UNCHANGED <<format, stream, pos, eof, bom>>
      /\ \/ Return(with)
         \/ call' = "move" /\ UNCHANGED <<hungry, answer, target, moves>>
  BY DEF ReadFirst, reader
<1>2. with.tag = "unrebased" /\ answer.tag = "none"
  BY <1>1 DEF StreamInv
<1> HIDE DEF o, with
<1>3. CASE Return(with)
  BY <1>1, <1>2, <1>3, ReturnOfStream
<1>4. CASE call' = "move" /\ UNCHANGED <<hungry, answer, target, moves>>
  BY <1>1, <1>2, <1>4, GoesOnOfStream DEF StreamInv, InSight
<1> QED  BY <1>1, <1>3, <1>4

LEMMA MoveFailsOfStream ==
    ASSUME StreamInv, MoveFails
    PROVE  StreamInv'
<1> DEFINE e == ErrorAt(window, engine, "io", engine.location)
           error == [e EXCEPT !.byte = @ + consumed]
           with == [tag |-> "error", error |-> error]
<1>1. Return(with) /\ UNCHANGED <<format, stream, pos, eof, bom>>
  BY DEF MoveFails, reader, parser
<1>2. error.kind = "io" /\ with.tag = "error" /\ with.error = error
  BY DEF ErrorAt
<1> HIDE DEF error, with
<1>3. Blames(format, stream, 1, error)
  BY Zenon, <1>2, NothingToBlame DEF FromRecord
<1> QED  BY <1>1, <1>2, <1>3, ReturnOfStream

-----------------------------------------------------------------------------
LEMMA StepIsOfTheStream ==
    WindowInv /\ OnTheTally /\ (Tellable => StreamInv) /\ [Next]_vars => (Tellable => StreamInv)'
<1> SUFFICES ASSUME WindowInv, OnTheTally, Tellable => StreamInv, [Next]_vars, Tellable'
             PROVE  StreamInv'
  OBVIOUS
<1>0. UNCHANGED <<format, stream>>
  BY DEF Next, Step, vars, Call, View, Seek, Rewind, ResetStreamPosition, Refuse, ResolveBom,
         RejectBom, EnsureHeaders, Turn, SkipToCandidate, Scan, Look, Refill, ReadFails, ReadFirst,
         Move, MoveFails
<1>1. Tellable /\ StreamInv
  BY <1>0 DEF Tellable
<1>2. ASSUME NEW reads \in Calls[format], Call(reads) PROVE StreamInv'
  BY <1>1, <1>2, CallOfStream
<1>3. ASSUME Step PROVE StreamInv'
  <2>1. CASE Move
    <3>1. call' = "none" /\ answer' = NoAnswer /\ eof' = FALSE
      BY <2>1 DEF Move, ResetStreamPosition
    <3> QED  BY <1>0, <3>1, StartsOfStream
  <2> QED  BY <1>1, <1>3, <2>1, RefuseOfStream, ResolveBomOfStream, RejectBomOfStream,
              EnsureHeadersOfStream, SkipToCandidateOfStream, ScanOfStream, LookOfStream,
              RefillOfStream, ReadFailsOfStream, ReadFirstOfStream, MoveFailsOfStream DEF Step
<1>4. CASE View
  BY <1>1, <1>4, ViewOfStream
<1>5. ASSUME NEW i \in Places, Seek(i) PROVE StreamInv'
  <2>1. call' = "seek" /\ answer' = NoAnswer /\ UNCHANGED <<pos, eof>>
    BY <1>5 DEF Seek, reader
  <2> QED  BY <1>0, <1>1, <2>1, StartsOfStream DEF StreamInv
<1>6. CASE Rewind
  <2>1. call' = "none" /\ answer' = NoAnswer /\ eof' = FALSE
    BY <1>6 DEF Rewind, ResetStreamPosition
  <2> QED  BY <1>0, <2>1, StartsOfStream
<1>7. CASE UNCHANGED vars
  BY <1>1, <1>7 DEF StreamInv, OfTheStream, InSight, vars, reader, parser, caller
<1> QED  BY <1>2, <1>3, <1>4, <1>5, <1>6, <1>7 DEF Next

(* Nothing is answered that the stream does not hold: for every stream,    *)
(* however it is cut into reads, whatever is filtered, looked at again or  *)
(* sought, a record next_line or read_byte_record_into returns is one the  *)
(* whole stream has, from its first byte to its end, and an error in one   *)
(* is the whole stream's.  It asks for no format's escapes where records   *)
(* are read into the caller's storage: there it is not so.                 *)
THEOREM EveryAnswerIsOfTheStream == Spec => [](Tellable => OfTheStream)
<1>1. StreamInv => OfTheStream
  BY DEF StreamInv
<1>2. Init => WindowInv /\ OnTheTally /\ (Tellable => StreamInv)
  BY InitWindow, InitOnTally, InitOfStream
<1>3. WindowInv /\ OnTheTally /\ (Tellable => StreamInv) /\ [Next]_vars
         => (WindowInv /\ OnTheTally /\ (Tellable => StreamInv))'
  BY StepKeepsWindow, StepKeepsTheTally, StepIsOfTheStream
<1> QED  BY <1>1, <1>2, <1>3, PTL DEF Spec
=============================================================================
