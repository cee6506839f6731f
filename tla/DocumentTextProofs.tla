-------------------------- MODULE DocumentTextProofs --------------------------
(***************************************************************************)
(* Proofs about DocumentText and Framing: positions cross exactly between  *)
(* a document and its server, edits take effect at once, and messages are  *)
(* acted on whole and in order, for every document whose surrogate pairs   *)
(* are whole, every number of edits and every stream.                      *)
(*                                                                         *)
(* The argument has three parts.  The first is about the text: how far a   *)
(* text measures adds up, each line has one start, and so the codec        *)
(* inverts what the protocol means by a position; sorting orders edits,    *)
(* and each one made extends what the others, made at once, have left.     *)
(* Its inductive invariant DocInv says what each phase of a request still  *)
(* knows of the offsets the server meant.  The second is about the bytes:  *)
(* frames lie one after the other in a stream, a turn of the decoder takes *)
(* the next one or waits for its rest, and so a call finds exactly the     *)
(* messages that have arrived as a whole.  The third, FrameInv, says so of *)
(* the connection, chunk after chunk.                                      *)
(***************************************************************************)
EXTENDS DocumentText, FiniteSetTheorems, SequenceTheorems, WellFoundedInduction, TLAPS

\* A text whose surrogate pairs are whole.
WellFormed(t) ==
  /\ t \in Seq(Unit)
  /\ \A i \in 1..Len(t) : t[i] = "high" => i < Len(t) /\ t[i + 1] = "low"
  /\ \A i \in 1..Len(t) : t[i] = "low" => i > 1 /\ t[i - 1] = "high"

\* The lines before an offset.
Lines(t, o) == Cardinality(Newlines(t, o))

\* The most edits that an answer lists.
Most == Len(NewText)

(* Least and greatest numbers *)

\* A set of numbers has a least one (what lowerBound and encode take).
LEMMA MinIsLeast ==
  ASSUME NEW S, S \subseteq Nat, S # {}
  PROVE  Min(S) \in S /\ \A x \in S : Min(S) <= x
<1> DEFINE R == {ss \in Nat \X Nat : ss[1] < ss[2]}
<1>1. IsWellFoundedOn(R, Nat)
  BY NatLessThanWellFounded DEF OpToRel
<1>2. \E x \in S : \A y \in S : ~ (<<y, x>> \in R)
  <2> HIDE DEF R
  <2> QED
    BY <1>1, WFMin
<1>3. PICK x \in S : \A y \in S : ~ (<<y, x>> \in R)
  BY <1>2
<1>4. ASSUME NEW y \in S PROVE x <= y
  <2>1. x \in Nat /\ y \in Nat /\ <<y, x>> \in Nat \X Nat
    OBVIOUS
  <2>2. ~(y < x)
    BY <1>3, <2>1
  <2> QED
    BY <2>1, <2>2
<1> QED
  BY <1>4 DEF Min

\* A set of numbers with a bound has a greatest one (where LineStart is).
LEMMA MaxIsGreatest ==
  ASSUME NEW n \in Nat, NEW S, S \subseteq 0..n, S # {}
  PROVE  Max(S) \in S /\ \A x \in S : x <= Max(S)
<1> DEFINE C == {c \in 0..n : n - c \in S}
<1>1. C \subseteq Nat /\ C # {}
  <2>1. PICK x \in S : TRUE
    OBVIOUS
  <2>2. n - x \in 0..n /\ n - (n - x) \in S
    <3>1. n - x \in 0..n /\ n - (n - x) = x
      BY <2>1
    <3> QED
      BY <3>1
  <2>3. n - x \in C
    BY <2>2
  <2>4. C \subseteq Nat
    OBVIOUS
  <2> QED
    <3> HIDE DEF C
    <3> QED
      BY <2>3, <2>4
<1>2. Min(C) \in C /\ \A c \in C : Min(C) <= c
  <2> HIDE DEF C
  <2> QED
    BY <1>1, MinIsLeast
<1>3. PICK c \in C : \A d \in C : c <= d
  BY <1>2
<1>4. n - c \in S /\ c \in 0..n
  BY <1>3
<1>5. ASSUME NEW x \in S PROVE n - c >= x
  <2>1. x \in 0..n /\ n - x \in 0..n /\ n - (n - x) = x
    OBVIOUS
  <2>2. n - x \in C
    BY <2>1
  <2>3. c <= n - x
    BY <1>3, <2>2
  <2> QED
    BY <2>1, <2>3, <1>4
<1> QED
  BY <1>4, <1>5 DEF Max

(* How far a text measures *)

\* The units between two offsets are finitely many.
LEMMA PartsFinite ==
  ASSUME NEW t, NEW a \in Nat, NEW b \in Nat
  PROVE  IsFiniteSet(Parts(t, a, b)) /\ Measure(t, a, b) \in Nat
<1>1. IsFiniteSet((a + 1)..b) /\ IsFiniteSet(1..4)
  <2>1. a + 1 \in Int /\ b \in Int /\ 1 \in Int /\ 4 \in Int
    OBVIOUS
  <2> QED
    BY <2>1, FS_Interval
<1>2. IsFiniteSet(((a + 1)..b) \X (1..4))
  BY <1>1, FS_Product
<1>3. Parts(t, a, b) \in SUBSET (((a + 1)..b) \X (1..4))
  BY DEF Parts
<1>4. IsFiniteSet(Parts(t, a, b))
  BY <1>2, <1>3, FS_Subset
<1> QED
  BY <1>4, FS_CardinalityType DEF Measure

\* What a text measures adds up (the running sums of the codec's tables).
LEMMA MeasureAdds ==
  ASSUME NEW t, NEW a \in Nat, NEW b \in Nat, NEW c \in Nat, a <= b, b <= c
  PROVE  Measure(t, a, c) = Measure(t, a, b) + Measure(t, b, c)
<1>1. (a + 1)..c = ((a + 1)..b) \cup ((b + 1)..c)
  OBVIOUS
<1>2. ((a + 1)..b) \cap ((b + 1)..c) = {}
  OBVIOUS
<1>3. Parts(t, a, c) = Parts(t, a, b) \cup Parts(t, b, c)
  BY <1>1 DEF Parts
<1>4. Parts(t, a, b) \cap Parts(t, b, c) = {}
  BY <1>2 DEF Parts
<1>5. IsFiniteSet(Parts(t, a, b)) /\ IsFiniteSet(Parts(t, b, c))
  BY PartsFinite
<1>6. Measure(t, a, b) \in Nat /\ Measure(t, b, c) \in Nat
  BY PartsFinite
<1>7. Cardinality(Parts(t, a, c)) =
        Cardinality(Parts(t, a, b)) + Cardinality(Parts(t, b, c)) - Cardinality({})
  BY <1>3, <1>4, <1>5, FS_Union
<1>8. Cardinality({}) = 0
  BY FS_EmptySet
<1> QED
  BY <1>6, <1>7, <1>8 DEF Measure

\* One unit measures its width.
LEMMA MeasureUnit ==
  ASSUME NEW t, NEW a \in Nat, Width(t[a + 1]) \in 0..4
  PROVE  Measure(t, a, a + 1) = Width(t[a + 1])
<1> DEFINE w == Width(t[a + 1])
<1>1. (a + 1)..(a + 1) = {a + 1}
  OBVIOUS
<1>2. Parts(t, a, a + 1) = {a + 1} \X (1..w)
  <2>1. ASSUME NEW p \in {a + 1} \X (1..4)
        PROVE  p[2] <= Width(t[p[1]]) <=> p[2] \in 1..w
    <3>1. p[1] = a + 1 /\ p[2] \in 1..4
      OBVIOUS
    <3> QED
      BY <3>1
  <2>2. Parts(t, a, a + 1) = {p \in {a + 1} \X (1..4) : p[2] \in 1..w}
    BY <1>1, <2>1 DEF Parts
  <2>3. 1..w \subseteq 1..4
    OBVIOUS
  <2>4. {p \in {a + 1} \X (1..4) : p[2] \in 1..w} = {a + 1} \X (1..w)
    <3> HIDE DEF w
    <3> QED
      BY <2>3
  <2> QED
    BY <2>2, <2>4
<1>3. IsFiniteSet({a + 1}) /\ Cardinality({a + 1}) = 1
  BY FS_Singleton
<1>4. IsFiniteSet(1..w) /\ Cardinality(1..w) = w
  BY FS_Interval
<1>5. Cardinality({a + 1} \X (1..w)) = 1 * w
  <2> HIDE DEF w
  <2> QED
    BY <1>3, <1>4, FS_Product
<1>6. w \in Nat
  OBVIOUS
<1>7. Measure(t, a, a + 1) = 1 * w
  <2> HIDE DEF w
  <2> QED
    BY <1>2, <1>5 DEF Measure
<1>8. 1 * w = w
  <2> HIDE DEF w
  <2> QED
    BY <1>6
<1> QED
  BY <1>7, <1>8

\* What a unit is long: nothing only for the first half of a pair.
LEMMA Widths ==
  ASSUME encoding \in Encodings, NEW u \in Unit
  PROVE  /\ Width(u) \in 0..4
         /\ u # "high" => Width(u) >= 1
         /\ encoding = "utf-16" => Width(u) = 1
         /\ encoding # "utf-16" /\ u = "high" => Width(u) = 0
BY DEF Encodings, Unit, Width

\* A server that counts in utf-16 measures what the text does.
LEMMA MeasureUtf16 ==
  ASSUME encoding = "utf-16", NEW t, NEW a \in Nat, NEW b \in Nat, a <= b
  PROVE  Measure(t, a, b) = b - a
<1>1. \A u : Width(u) = 1
  BY DEF Width
<1>2. Parts(t, a, b) = ((a + 1)..b) \X (1..1)
  <2> DEFINE I == (a + 1)..b
  <2>1. Parts(t, a, b) = {p \in I \X (1..4) : p[2] <= 1}
    BY <1>1 DEF Parts
  <2>2. 1..1 \subseteq 1..4 /\ \A q \in 1..4 : q <= 1 <=> q \in 1..1
    OBVIOUS
  <2>3. {p \in I \X (1..4) : p[2] <= 1} = I \X (1..1)
    <3> HIDE DEF I
    <3>1. ASSUME NEW p \in I \X (1..4), p[2] <= 1 PROVE p \in I \X (1..1)
      BY <2>2, <3>1
    <3>2. ASSUME NEW p \in I \X (1..1) PROVE p \in I \X (1..4) /\ p[2] <= 1
      BY <2>2
    <3> QED
      BY <3>1, <3>2
  <2> QED
    BY <2>1, <2>3
<1>3. a + 1 \in Int /\ b \in Int /\ 1 \in Int
  OBVIOUS
<1>4. /\ IsFiniteSet((a + 1)..b) /\ Cardinality((a + 1)..b) = IF a + 1 > b THEN 0 ELSE b - (a + 1) + 1
      /\ IsFiniteSet(1..1) /\ Cardinality(1..1) = IF 1 > 1 THEN 0 ELSE 1 - 1 + 1
  BY <1>3, FS_Interval
<1>5. Cardinality(((a + 1)..b) \X (1..1)) = Cardinality((a + 1)..b) * Cardinality(1..1)
  BY <1>4, FS_Product
<1>6. Cardinality((a + 1)..b) = b - a /\ Cardinality(1..1) = 1
  BY <1>4
<1>7. (b - a) * 1 = b - a
  OBVIOUS
<1> QED
  BY <1>2, <1>5, <1>6, <1>7 DEF Measure

\* A stretch that does not end inside a pair measures something.
LEMMA MeasureGrows ==
  ASSUME encoding \in Encodings, NEW t, NEW a \in Nat, NEW b \in Nat, a < b,
         t[b] \in Unit, t[b] # "high"
  PROVE  Measure(t, 0, a) < Measure(t, 0, b)
<1> DEFINE c == b - 1
<1>1. c \in Nat /\ c + 1 = b /\ a <= c /\ c <= b
  OBVIOUS
<1>2. Measure(t, c, c + 1) = Width(t[c + 1])
  BY <1>1, Widths, MeasureUnit
<1>3. Width(t[b]) \in 0..4 /\ Width(t[b]) >= 1
  BY Widths
<1>4. /\ Measure(t, 0, b) = Measure(t, 0, c) + Measure(t, c, b)
      /\ Measure(t, 0, c) = Measure(t, 0, a) + Measure(t, a, c)
  BY <1>1, MeasureAdds
<1>5. /\ Measure(t, 0, a) \in Nat /\ Measure(t, a, c) \in Nat
      /\ Measure(t, 0, c) \in Nat /\ Measure(t, c, b) \in Nat
  BY <1>1, PartsFinite
<1> QED
  BY <1>1, <1>2, <1>3, <1>4, <1>5

(* The lines of a text *)

\* Every text has finitely many lines, and the more the longer it is.
LEMMA LinesGrow ==
  ASSUME NEW t, NEW a \in Nat, NEW b \in Nat, a <= b
  PROVE  /\ IsFiniteSet(Newlines(t, b)) /\ Lines(t, b) \in Nat
         /\ Lines(t, a) \in Nat
         /\ Newlines(t, a) \subseteq Newlines(t, b)
         /\ Lines(t, a) <= Lines(t, b)
         /\ a < b /\ t[b] = "newline" => Lines(t, a) < Lines(t, b)
<1>1. IsFiniteSet(1..b)
  BY FS_Interval
<1>2. Newlines(t, b) \in SUBSET (1..b)
  BY DEF Newlines
<1>3. IsFiniteSet(Newlines(t, b))
  BY <1>1, <1>2, FS_Subset
<1>4. Newlines(t, a) \in SUBSET Newlines(t, b)
  BY DEF Newlines
<1>5. /\ IsFiniteSet(Newlines(t, a))
      /\ Lines(t, a) <= Lines(t, b)
      /\ Lines(t, b) = Lines(t, a) => Newlines(t, b) = Newlines(t, a)
  BY <1>3, <1>4, FS_Subset DEF Lines
<1>6. Lines(t, a) \in Nat /\ Lines(t, b) \in Nat
  BY <1>3, <1>5, FS_CardinalityType DEF Lines
<1>7. ASSUME a < b, t[b] = "newline" PROVE Newlines(t, b) # Newlines(t, a)
  <2>1. b \in Newlines(t, b)
    BY <1>7 DEF Newlines
  <2>2. b \notin Newlines(t, a)
    BY <1>7 DEF Newlines
  <2> QED
    BY <2>1, <2>2
<1> QED
  BY <1>3, <1>4, <1>5, <1>6, <1>7

\* A line starts at the text's start or at a newline, and has no other before.
LEMMA StartOfLine ==
  ASSUME NEW t, NEW o \in Nat
  PROVE  /\ LineStart(t, o) \in {0} \cup Newlines(t, o)
         /\ LineStart(t, o) \in 0..o
         /\ Lines(t, LineStart(t, o)) = Lines(t, o)
<1> DEFINE S == {0} \cup Newlines(t, o)
<1>1. S \subseteq 0..o /\ S # {}
  BY DEF Newlines
<1>2. Max(S) \in S /\ \A x \in S : x <= Max(S)
  <2> HIDE DEF S
  <2> QED
    BY <1>1, MaxIsGreatest
<1>3. LineStart(t, o) \in S /\ \A x \in S : x <= LineStart(t, o)
  BY <1>2 DEF LineStart
<1>4. LineStart(t, o) \in 0..o
  BY <1>1, <1>3
<1>5. Newlines(t, LineStart(t, o)) = Newlines(t, o)
  <2>1. ASSUME NEW i \in Newlines(t, o) PROVE i \in Newlines(t, LineStart(t, o))
    <3>1. i <= LineStart(t, o)
      BY <1>3
    <3> QED
      BY <1>4, <3>1 DEF Newlines
  <2>2. Newlines(t, LineStart(t, o)) \subseteq Newlines(t, o)
    BY <1>4 DEF Newlines
  <2> QED
    BY <2>1, <2>2
<1> QED
  BY <1>3, <1>4, <1>5 DEF Lines

\* No two lines start at the same number of newlines.
LEMMA OneStart ==
  ASSUME NEW t, NEW e \in Nat, NEW r \in {0} \cup Newlines(t, e),
         NEW s \in {0} \cup Newlines(t, e), Lines(t, r) = Lines(t, s)
  PROVE  r = s
<1>1. r \in Nat /\ s \in Nat
  BY DEF Newlines
<1>2. r < s => t[s] = "newline"
  BY <1>1 DEF Newlines
<1>3. s < r => t[r] = "newline"
  BY <1>1 DEF Newlines
<1>4. ~(r < s)
  BY <1>1, <1>2, LinesGrow
<1>5. ~(s < r)
  BY <1>1, <1>3, LinesGrow
<1> QED
  BY <1>1, <1>4, <1>5

\* There is a line for every number of newlines up to the text's.
LEMMA SomeStart ==
  ASSUME NEW t, NEW e \in Nat, NEW n \in 0..Lines(t, e)
  PROVE  \E s \in {0} \cup Newlines(t, e) : Lines(t, s) = n
<1> DEFINE S == {o \in 0..e : Lines(t, o) >= n}
<1>1. Lines(t, e) \in Nat
  BY LinesGrow
<1>2. S \subseteq Nat /\ e \in S
  BY <1>1
<1>3. Min(S) \in S /\ \A x \in S : Min(S) <= x
  <2> HIDE DEF S
  <2> QED
    BY <1>2, MinIsLeast
<1>4. PICK s \in S : \A x \in S : s <= x
  BY <1>3
<1>5. s \in Nat /\ s <= e /\ Lines(t, s) >= n /\ Lines(t, s) \in Nat /\ n \in Nat
  BY <1>1, LinesGrow
<1>6. CASE s = 0
  <2>1. Newlines(t, 0) = {}
    BY DEF Newlines
  <2>2. Lines(t, 0) = 0
    BY <2>1, FS_EmptySet DEF Lines
  <2> QED
    BY <1>5, <1>6, <2>2
<1>7. CASE s # 0
  <2> DEFINE r == s - 1
  <2>1. r \in Nat /\ r < s /\ r <= s /\ r <= e /\ r + 1 = s
    BY <1>5, <1>7
  <2>2. ~(r \in S)
    BY <1>4, <2>1
  <2>3. Lines(t, r) < n
    <3>1. Lines(t, r) \in Nat
      BY <2>1, LinesGrow
    <3> QED
      BY <1>5, <2>1, <2>2, <3>1
  <2>4. s \in Newlines(t, s)
    <3>1. Newlines(t, s) # Newlines(t, r)
      BY <1>5, <2>1, <2>3, LinesGrow DEF Lines
    <3>2. ASSUME s \notin Newlines(t, s) PROVE Newlines(t, s) = Newlines(t, r)
      BY <1>5, <2>1, <3>2 DEF Newlines
    <3> QED
      BY <3>1, <3>2
  <2>5. Newlines(t, s) = Newlines(t, r) \cup {s} /\ s \notin Newlines(t, r)
    BY <1>5, <2>1, <2>4 DEF Newlines
  <2>6. IsFiniteSet(Newlines(t, r))
    BY <2>1, LinesGrow
  <2>7. Lines(t, s) = Lines(t, r) + 1
    BY <2>5, <2>6, FS_AddElement DEF Lines
  <2>8. Lines(t, r) \in Nat
    BY <2>1, LinesGrow
  <2>9. Lines(t, s) = n
    BY <1>5, <2>3, <2>7, <2>8
  <2>10. s \in Newlines(t, e)
    BY <1>5, <2>4 DEF Newlines
  <2> QED
    BY <2>9, <2>10
<1> QED
  BY <1>6, <1>7

\* The table of line starts has an entry per line: where it starts.
LEMMA LineTable ==
  ASSUME NEW t, Len(t) \in Nat
  PROVE  /\ Lines(t, Len(t)) \in Nat
         /\ lineStarts(t) \in Seq(0..Len(t))
         /\ Len(lineStarts(t)) = Lines(t, Len(t)) + 1
         /\ \A n \in 0..Lines(t, Len(t)) :
              /\ lineStarts(t)[n + 1] \in {0} \cup Newlines(t, Len(t))
              /\ lineStarts(t)[n + 1] \in 0..Len(t)
              /\ Lines(t, lineStarts(t)[n + 1]) = n
<1> DEFINE e == Len(t)
           S == {0} \cup Newlines(t, e)
<1>1. Lines(t, e) \in Nat
  BY LinesGrow
<1>2. S \subseteq 0..e
  BY DEF Newlines
<1>3. lineStarts(t) = [n \in 1..(Lines(t, e) + 1) |-> CHOOSE s \in S : Lines(t, s) = n - 1]
  BY DEF lineStarts, Lines
<1>4. ASSUME NEW n \in 0..Lines(t, e)
      PROVE  /\ n + 1 \in 1..(Lines(t, e) + 1)
             /\ lineStarts(t)[n + 1] \in S
             /\ Lines(t, lineStarts(t)[n + 1]) = n
  <2>1. n + 1 \in 1..(Lines(t, e) + 1) /\ (n + 1) - 1 = n
    BY <1>1
  <2>2. lineStarts(t)[n + 1] = CHOOSE s \in S : Lines(t, s) = n
    <3> HIDE DEF S
    <3> QED
      BY <1>3, <2>1
  <2>3. \E s \in S : Lines(t, s) = n
    BY SomeStart
  <2> QED
    <3> HIDE DEF S
    <3> QED
      BY <2>1, <2>2, <2>3
<1>5. ASSUME NEW i \in 1..(Lines(t, e) + 1) PROVE lineStarts(t)[i] \in 0..e
  <2>1. i - 1 \in 0..Lines(t, e) /\ (i - 1) + 1 = i
    BY <1>1
  <2>2. lineStarts(t)[i] \in S
    <3> HIDE DEF S
    <3> QED
      BY <1>4, <2>1
  <2> QED
    BY <1>2, <2>2
<1>6. lineStarts(t) \in [1..(Lines(t, e) + 1) -> 0..e]
  <2> DEFINE d == 1..(Lines(t, e) + 1)
             E(n) == CHOOSE s \in S : Lines(t, s) = n - 1
  <2>1. lineStarts(t) = [n \in d |-> E(n)]
    BY <1>3
  <2>2. \A n \in d : lineStarts(t)[n] \in 0..e
    BY <1>5
  <2>3. lineStarts(t) \in [d -> 0..e]
    <3> HIDE DEF E, d, e
    <3> QED
      BY <2>1, <2>2
  <2> QED
    BY <2>3
<1>7. Lines(t, e) + 1 \in Nat
  BY <1>1
<1>8. lineStarts(t) \in Seq(0..e)
  <2> HIDE DEF e
  <2> QED
    BY <1>6, <1>7, SeqDef
<1>9. Len(lineStarts(t)) = Lines(t, e) + 1
  <2>1. DOMAIN lineStarts(t) = 1..(Lines(t, e) + 1)
    BY <1>6
  <2>2. DOMAIN lineStarts(t) = 1..Len(lineStarts(t)) /\ Len(lineStarts(t)) \in Nat
    BY <1>8, LenProperties
  <2> QED
    BY <1>7, <2>1, <2>2
<1> QED
  BY <1>1, <1>2, <1>4, <1>8, <1>9

\* The line of an offset is where the table says.
LEMMA TableFindsLine ==
  ASSUME NEW t, Len(t) \in Nat, NEW o \in Offsets(t)
  PROVE  /\ Lines(t, o) \in 0..Lines(t, Len(t))
         /\ lineStarts(t)[Lines(t, o) + 1] = LineStart(t, o)
         /\ LineStart(t, o) \in 0..o
<1>1. o \in Nat /\ o <= Len(t)
  BY DEF Offsets
<1>2. Lines(t, o) \in 0..Lines(t, Len(t))
  BY <1>1, LinesGrow
<1>3. Newlines(t, o) \subseteq Newlines(t, Len(t))
  BY <1>1, LinesGrow
<1>4. /\ LineStart(t, o) \in {0} \cup Newlines(t, Len(t))
      /\ LineStart(t, o) \in 0..o
      /\ Lines(t, LineStart(t, o)) = Lines(t, o)
  BY <1>1, <1>3, StartOfLine
<1>5. /\ lineStarts(t)[Lines(t, o) + 1] \in {0} \cup Newlines(t, Len(t))
      /\ Lines(t, lineStarts(t)[Lines(t, o) + 1]) = Lines(t, o)
  BY <1>2, LineTable
<1> QED
  BY <1>2, <1>4, <1>5, OneStart

\* The next line starts after an offset.
LEMMA LimitIsAfter ==
  ASSUME NEW t, Len(t) \in Nat, NEW o \in Offsets(t)
  PROVE  /\ lineLimit(t, Lines(t, o)) \in o..Len(t)
         /\ Lines(t, o) + 1 < Len(lineStarts(t)) => o < lineLimit(t, Lines(t, o))
<1> DEFINE n == Lines(t, o)
           k == Lines(t, Len(t))
<1>1. o \in Nat /\ o <= Len(t)
  BY DEF Offsets
<1>2. n \in Nat /\ k \in Nat /\ n <= k /\ Len(lineStarts(t)) = k + 1
  BY <1>1, LinesGrow, LineTable
<1>3. CASE n + 1 < Len(lineStarts(t))
  <2>1. n + 1 \in 0..k /\ (n + 1) + 1 = n + 2
    BY <1>2, <1>3
  <2>2. lineStarts(t)[(n + 1) + 1] \in 0..Len(t) /\ Lines(t, lineStarts(t)[(n + 1) + 1]) = n + 1
    <3> HIDE DEF n
    <3> QED
      BY <2>1, LineTable
  <2>3. lineStarts(t)[n + 2] \in 0..Len(t) /\ Lines(t, lineStarts(t)[n + 2]) = n + 1
    BY <2>1, <2>2
  <2>4. ~(lineStarts(t)[n + 2] <= o)
    <3>1. ASSUME lineStarts(t)[n + 2] <= o PROVE n + 1 <= n
      <4>1. lineStarts(t)[n + 2] \in Nat
        BY <2>3
      <4>2. Lines(t, lineStarts(t)[n + 2]) <= Lines(t, o)
        BY <1>1, <3>1, <4>1, LinesGrow
      <4> QED
        BY <2>3, <4>2
    <3> QED
      BY <1>2, <3>1
  <2>5. lineLimit(t, n) = lineStarts(t)[n + 2]
    BY <1>3 DEF lineLimit
  <2>6. \A x \in 0..Len(t) : ~(x <= o) => x \in o..Len(t) /\ o < x
    BY <1>1
  <2> QED
    BY <2>3, <2>4, <2>5, <2>6
<1>4. CASE ~(n + 1 < Len(lineStarts(t)))
  <2>1. lineLimit(t, n) = Len(t)
    BY <1>4 DEF lineLimit
  <2> QED
    BY <1>1, <1>4, <2>1
<1> QED
  BY <1>3, <1>4

(* The codec inverts what the protocol means by a position *)

\* The line of an offset's position is none to clamp.
LEMMA LineOfOffset ==
  ASSUME NEW t, Len(t) \in Nat, NEW o \in Offsets(t), NEW position,
         position.line = Lines(t, o)
  PROVE  /\ clampedLine(t, position) = Lines(t, o)
         /\ position.line + 1 \in 1..Len(lineStarts(t))
<1>1. Lines(t, o) \in 0..Lines(t, Len(t))
  BY TableFindsLine
<1>2. Len(lineStarts(t)) = Lines(t, Len(t)) + 1 /\ Lines(t, Len(t)) \in Nat
  BY LineTable
<1> QED
  BY <1>1, <1>2 DEF clampedLine

\* A legal position goes out as the protocol means it.
LEMMA EncodeExact ==
  ASSUME encoding \in Encodings, NEW t, Len(t) \in Nat, NEW o \in Offsets(t)
  PROVE  encode(t, DocPosition(t, o)) = WirePosition(t, o)
<1> DEFINE n == Lines(t, o)
           s == LineStart(t, o)
           p == DocPosition(t, o)
<1>1. o \in Nat /\ s \in Nat /\ s <= o /\ lineStarts(t)[n + 1] = s
  BY TableFindsLine DEF Offsets
<1>2. p.line = n /\ p.character = o - s
  BY DEF DocPosition, Lines
<1>3. WirePosition(t, o) = [line |-> n, character |-> Measure(t, s, o)]
  BY DEF WirePosition, Lines
<1>4. CASE encoding = "utf-16"
  <2>1. Measure(t, s, o) = o - s
    BY <1>1, <1>4, MeasureUtf16
  <2>2. WirePosition(t, o) = p
    BY <1>3, <2>1 DEF DocPosition, Lines
  <2>3. encode(t, p) = p
    BY <1>4 DEF encode
  <2> QED
    BY <2>2, <2>3
<1>5. CASE encoding # "utf-16"
  <2> DEFINE l == lineLimit(t, n)
             c == Min({o - s, l - s})
  <2>1. l \in Nat /\ o <= l
    BY <1>1, LimitIsAfter
  <2>2. c = o - s
    <3>1. {o - s, l - s} \subseteq Nat
      BY <1>1, <2>1
    <3>2. c \in {o - s, l - s} /\ c <= o - s
      BY <3>1, MinIsLeast
    <3>3. c = o - s \/ c = l - s
      BY <3>2
    <3> QED
      <4> HIDE DEF c, l
      <4> QED
        BY <1>1, <2>1, <3>2, <3>3
  <2>3. clampedLine(t, p) = n
    BY <1>2, LineOfOffset
  <2>4. encode(t, p) = [line |-> n, character |-> table(t, s + c) - table(t, s)]
    <3>1. encode(t, p) =
            [line |-> clampedLine(t, p),
             character |-> table(t, lineStarts(t)[clampedLine(t, p) + 1]
                                      + Min({p.character, lineLimit(t, clampedLine(t, p))
                                                            - lineStarts(t)[clampedLine(t, p) + 1]}))
                             - table(t, lineStarts(t)[clampedLine(t, p) + 1])]
      BY <1>5 DEF encode
    <3> QED
      BY <1>1, <1>2, <2>3, <3>1
  <2>5. s + c = o
    <3> HIDE DEF c, s
    <3> QED
      BY <1>1, <2>2
  <2>6. table(t, o) - table(t, s) = Measure(t, s, o)
    <3>1. Measure(t, 0, o) = Measure(t, 0, s) + Measure(t, s, o)
      BY <1>1, MeasureAdds
    <3>2. Measure(t, 0, s) \in Nat /\ Measure(t, s, o) \in Nat
      BY <1>1, PartsFinite
    <3> QED
      BY <3>1, <3>2 DEF table
  <2> QED
    BY <1>3, <2>4, <2>5, <2>6
<1> QED
  BY <1>4, <1>5

\* lowerBound finds the first offset that measures enough, or the end.
LEMMA FirstEnough ==
  ASSUME NEW t, Len(t) \in Nat, NEW from \in Offsets(t), NEW goal
  PROVE  /\ lowerBound(t, from, goal) \in from..Len(t)
         /\ lowerBound(t, from, goal) # Len(t) => table(t, lowerBound(t, from, goal)) >= goal
         /\ \A x \in from..Len(t) : table(t, x) >= goal => lowerBound(t, from, goal) <= x
<1> DEFINE S == {o \in from..Len(t) : table(t, o) >= goal} \cup {Len(t)}
<1>1. S \subseteq Nat /\ S # {} /\ S \subseteq from..Len(t)
  BY DEF Offsets
<1>2. Min(S) \in S /\ \A x \in S : Min(S) <= x
  <2> HIDE DEF S
  <2> QED
    BY <1>1, MinIsLeast
<1>3. lowerBound(t, from, goal) \in S /\ \A x \in S : lowerBound(t, from, goal) <= x
  BY <1>2 DEF lowerBound
<1> QED
  BY <1>1, <1>3

\* A legal position comes in as the code point the server means.
LEMMA DecodeExact ==
  ASSUME encoding \in Encodings, NEW t, WellFormed(t), NEW o \in Boundaries(t)
  PROVE  decode(t, WirePosition(t, o)) = DocPosition(t, o)
<1> DEFINE n == Lines(t, o)
           s == LineStart(t, o)
           w == WirePosition(t, o)
<1>0. Len(t) \in Nat /\ o \in Offsets(t)
  BY LenProperties DEF WellFormed, Boundaries
<1>1. o \in Nat /\ o <= Len(t) /\ s \in Nat /\ s <= o /\ lineStarts(t)[n + 1] = s
  BY <1>0, TableFindsLine DEF Offsets
<1>2. w.line = n /\ w.character = Measure(t, s, o)
  BY DEF WirePosition, Lines
<1>3. DocPosition(t, o) = [line |-> n, character |-> o - s]
  BY DEF DocPosition, Lines
<1>4. CASE encoding = "utf-16"
  <2>1. Measure(t, s, o) = o - s
    BY <1>1, <1>4, MeasureUtf16
  <2>2. w = DocPosition(t, o)
    BY <1>3, <2>1 DEF WirePosition, Lines
  <2>3. decode(t, w) = w
    BY <1>4 DEF decode
  <2> QED
    BY <2>2, <2>3
<1>5. CASE encoding # "utf-16"
  <2>1. table(t, s) + Measure(t, s, o) = table(t, o)
    BY <1>1, MeasureAdds DEF table
  <2>2. clampedLine(t, w) = n
    BY <1>0, <1>2, LineOfOffset
  <2>3. decode(t, w) = [line |-> n, character |-> lowerBound(t, s, table(t, o)) - s]
    <3>1. decode(t, w) =
            [line |-> clampedLine(t, w),
             character |-> lowerBound(t, lineStarts(t)[clampedLine(t, w) + 1],
                                      table(t, lineStarts(t)[clampedLine(t, w) + 1]) + w.character)
                             - lineStarts(t)[clampedLine(t, w) + 1]]
      BY <1>5 DEF decode
    <3> QED
      BY <1>1, <1>2, <2>1, <2>2, <3>1
  <2>4. lowerBound(t, s, table(t, o)) = o
    <3> DEFINE x == lowerBound(t, s, table(t, o))
    <3>1. s \in Offsets(t)
      BY <1>0, <1>1 DEF Offsets
    <3>2. /\ x \in s..Len(t)
          /\ x # Len(t) => table(t, x) >= table(t, o)
          /\ \A y \in s..Len(t) : table(t, y) >= table(t, o) => x <= y
      BY <1>0, <3>1, FirstEnough
    <3>3. o \in s..Len(t) /\ table(t, o) \in Nat
      BY <1>0, <1>1, PartsFinite DEF table
    <3>4. x \in Nat /\ x <= o
      BY <1>0, <1>1, <3>2, <3>3
    <3>5. ASSUME x < o PROVE FALSE
      <4>1. o \in 1..Len(t) /\ x # Len(t)
        BY <1>0, <1>1, <3>4, <3>5
      <4>2. t[o] \in Unit
        BY <4>1, ElementOfSeq DEF WellFormed
      <4>3. t[o] # "high"
        BY <4>1 DEF WellFormed, Boundaries, SplitsPair
      <4>4. table(t, x) < table(t, o)
        BY <1>1, <3>4, <3>5, <4>2, <4>3, MeasureGrows DEF table
      <4>5. table(t, x) \in Nat
        BY <3>4, PartsFinite DEF table
      <4> HIDE DEF x
      <4> QED
        BY <3>2, <3>3, <4>1, <4>4, <4>5
    <3> HIDE DEF x
    <3>6. x = o
      BY <1>1, <3>4, <3>5
    <3> QED
      BY <3>6 DEF x
  <2> QED
    BY <1>3, <2>3, <2>4
<1> QED
  BY <1>4, <1>5

\* A line starts at no half of a pair.
LEMMA StartSplitsNoPair ==
  ASSUME NEW t, WellFormed(t), NEW s \in {0} \cup Newlines(t, Len(t))
  PROVE  ~SplitsPair(t, s)
<1>1. Len(t) \in Nat
  BY LenProperties DEF WellFormed
<1>2. s \in 0..Len(t) /\ (s = 0 \/ t[s] = "newline")
  BY <1>1 DEF Newlines
<1>3. ASSUME s < Len(t), t[s + 1] = "low" PROVE FALSE
  <2>1. s + 1 \in 1..Len(t) /\ (s + 1) - 1 = s
    BY <1>1, <1>2, <1>3
  <2>2. s + 1 > 1 /\ t[s] = "high"
    BY <1>3, <2>1 DEF WellFormed
  <2> QED
    BY <1>2, <2>1, <2>2
<1> QED
  BY <1>3 DEF SplitsPair

\* What the codec makes of any position a server sends is a position whose line
\* exists, and not inside a pair.
LEMMA DecodeOnBoundary ==
  ASSUME encoding \in Encodings \ {"utf-16"}, NEW t, WellFormed(t), NEW position \in Position
  PROVE  /\ decode(t, position) \in Position
         /\ decode(t, position).line + 1 \in 1..Len(lineStarts(t))
         /\ lineStarts(t)[decode(t, position).line + 1] + decode(t, position).character
              \in Boundaries(t)
<1> DEFINE n == clampedLine(t, position)
           s == lineStarts(t)[n + 1]
           goal == table(t, s) + position.character
           o == lowerBound(t, s, goal)
<1>0. Len(t) \in Nat /\ position.line \in Nat /\ position.character \in Nat
  BY LenProperties DEF WellFormed, Position
<1>1. Len(lineStarts(t)) = Lines(t, Len(t)) + 1 /\ Lines(t, Len(t)) \in Nat
  BY <1>0, LineTable
<1>2. n \in 0..Lines(t, Len(t))
  BY <1>0, <1>1 DEF clampedLine
<1>3. s \in {0} \cup Newlines(t, Len(t)) /\ s \in 0..Len(t)
  <2> HIDE DEF n
  <2> QED
    BY <1>0, <1>2, LineTable
<1>4. /\ o \in s..Len(t)
      /\ o # Len(t) => table(t, o) >= goal
      /\ \A x \in s..Len(t) : table(t, x) >= goal => o <= x
  <2> HIDE DEF s, goal
  <2> QED
    BY <1>0, <1>3, FirstEnough DEF Offsets
<1>5. decode(t, position) = [line |-> n, character |-> o - s]
  BY DEF decode
<1>6. s \in Nat /\ o \in Nat /\ s <= o /\ o <= Len(t) /\ o - s \in Nat /\ s + (o - s) = o
  <2> HIDE DEF s, o
  <2> QED
    BY <1>0, <1>3, <1>4
<1>7. ASSUME SplitsPair(t, o) PROVE FALSE
  <2>1. o < Len(t) /\ t[o + 1] = "low"
    BY <1>7 DEF SplitsPair
  <2>2. o + 1 \in 1..Len(t) /\ (o + 1) - 1 = o
    <3> HIDE DEF o
    <3> QED
      BY <1>0, <1>6, <2>1
  <2>3. o + 1 > 1 /\ t[o] = "high"
    <3> HIDE DEF o
    <3> QED
      BY <2>1, <2>2 DEF WellFormed
  <2>4. o # s
    <3>1. ~SplitsPair(t, s)
      <4> HIDE DEF s
      <4> QED
        BY <1>3, StartSplitsNoPair
    <3> QED
      <4> HIDE DEF s, o
      <4> QED
        BY <1>7, <3>1
  <2> DEFINE x == o - 1
  <2>5. x \in Nat /\ x + 1 = o /\ x < o /\ x \in s..Len(t) /\ x <= o
    <3> HIDE DEF s, o
    <3> QED
      BY <1>0, <1>6, <2>4
  <2>6. table(t, o) = table(t, x)
    <3>1. Width(t[o]) = 0
      <4> HIDE DEF o
      <4> QED
        BY <2>3, Widths DEF Unit
    <3>2. Measure(t, x, x + 1) = 0
      <4> HIDE DEF o, x
      <4> QED
        BY <2>5, <3>1, MeasureUnit
    <3>3. Measure(t, 0, o) = Measure(t, 0, x) + Measure(t, x, o)
      <4> HIDE DEF o, x
      <4> QED
        BY <1>6, <2>5, MeasureAdds
    <3>4. Measure(t, 0, x) \in Nat
      <4> HIDE DEF x
      <4> QED
        BY <2>5, PartsFinite
    <3> HIDE DEF o, x
    <3> QED
      BY <2>5, <3>2, <3>3, <3>4 DEF table
  <2> HIDE DEF s, o, goal, x
  <2>7. table(t, x) >= goal
    BY <1>0, <1>4, <1>6, <2>1, <2>6
  <2>8. o <= x
    BY <1>4, <2>5, <2>7
  <2> QED
    BY <1>6, <2>5, <2>8
<1>8. o \in Boundaries(t)
  <2> HIDE DEF o, s
  <2> QED
    BY <1>6, <1>0, <1>7 DEF Boundaries, Offsets
<1>9. n \in Nat /\ n + 1 \in 1..Len(lineStarts(t))
  <2> HIDE DEF n
  <2> QED
    BY <1>1, <1>2
<1>10. decode(t, position).line = n /\ decode(t, position).character = o - s
  <2> HIDE DEF n, o, s
  <2> QED
    BY <1>5
<1>11. decode(t, position) \in Position
  <2> HIDE DEF n, o, s
  <2> QED
    BY <1>5, <1>6, <1>9 DEF Position
<1>12. lineStarts(t)[n + 1] + (o - s) = o
  BY <1>6
<1> HIDE DEF n, o
<1> QED
  BY <1>8, <1>9, <1>10, <1>11, <1>12

\* The position of an offset is a position on the wire and in the document.
LEMMA PositionsTyped ==
  ASSUME NEW t, Len(t) \in Nat, NEW o \in Offsets(t)
  PROVE  WirePosition(t, o) \in Position /\ DocPosition(t, o) \in Position
<1>1. o \in Nat /\ LineStart(t, o) \in 0..o
  BY StartOfLine DEF Offsets
<1>2. Lines(t, o) \in Nat
  BY <1>1, LinesGrow
<1>3. Measure(t, LineStart(t, o), o) \in Nat
  BY <1>1, PartsFinite
<1>4. o - LineStart(t, o) \in Nat
  BY <1>1
<1> QED
  BY <1>2, <1>3, <1>4 DEF WirePosition, DocPosition, Position, Lines

\* Whatever a server sends is decoded to a position.
LEMMA DecodeTyped ==
  ASSUME encoding \in Encodings, NEW t, WellFormed(t), NEW position \in Position
  PROVE  decode(t, position) \in Position
<1>1. CASE encoding = "utf-16"
  BY <1>1 DEF decode
<1>2. CASE encoding # "utf-16"
  BY <1>2, DecodeOnBoundary
<1> QED
  BY <1>1, <1>2

(* Offsets of positions *)

\* applyEdits knows the starts of lines that the codec does, and where the text ends.
LEMMA StartsAndEnd ==
  ASSUME NEW t, Len(t) \in Nat
  PROVE  /\ Len(computeLineStarts(t)) = Len(lineStarts(t)) + 1
         /\ Len(lineStarts(t)) \in Nat
         /\ \A i \in 1..Len(lineStarts(t)) : computeLineStarts(t)[i] = lineStarts(t)[i]
         /\ \A i \in 1..Len(computeLineStarts(t)) : computeLineStarts(t)[i] \in 0..Len(t)
<1>1. lineStarts(t) \in Seq(0..Len(t)) /\ Len(t) \in 0..Len(t)
  BY LineTable
<1>2. computeLineStarts(t) = Append(lineStarts(t), Len(t))
  BY DEF computeLineStarts
<1> DEFINE S == 0..Len(t)
           s == lineStarts(t)
<1>3. ASSUME NEW z \in S
      PROVE  /\ Len(Append(s, z)) = Len(s) + 1
             /\ Len(s) \in Nat
             /\ \A i \in 1..Len(s) : Append(s, z)[i] = s[i]
             /\ \A i \in 1..Len(Append(s, z)) : Append(s, z)[i] \in S
  <2>1. s \in Seq(S)
    BY <1>1
  <2> HIDE DEF S, s
  <2> QED
    BY <2>1
<1> QED
  BY <1>1, <1>2, <1>3

\* On a line of the text, a position's offset counts from the line's start.
LEMMA OffsetOnLine ==
  ASSUME NEW t, Len(t) \in Nat, NEW position, position.line + 1 \in 1..Len(lineStarts(t))
  PROVE  offsetAt(t, position) = lineStarts(t)[position.line + 1] + position.character
BY StartsAndEnd DEF offsetAt

\* The position of an offset is at the offset.
LEMMA OffsetExact ==
  ASSUME NEW t, Len(t) \in Nat, NEW o \in Offsets(t)
  PROVE  offsetAt(t, DocPosition(t, o)) = o
<1> DEFINE p == DocPosition(t, o)
<1>1. p.line = Lines(t, o) /\ p.character = o - LineStart(t, o)
  BY DEF DocPosition, Lines
<1>2. p.line + 1 \in 1..Len(lineStarts(t))
  BY <1>1, LineOfOffset
<1>3. offsetAt(t, p) = lineStarts(t)[p.line + 1] + p.character
  BY <1>2, OffsetOnLine
<1>4. lineStarts(t)[Lines(t, o) + 1] = LineStart(t, o) /\ LineStart(t, o) \in 0..o /\ o \in Nat
  BY TableFindsLine DEF Offsets
<1>5. LineStart(t, o) + (o - LineStart(t, o)) = o
  BY <1>4
<1> QED
  BY <1>1, <1>3, <1>4, <1>5

\* Whatever a server sends in bytes or code points is decoded to a code point.
LEMMA DecodedOffset ==
  ASSUME encoding \in Encodings \ {"utf-16"}, NEW t, WellFormed(t), NEW position \in Position
  PROVE  offsetAt(t, decode(t, position)) \in Boundaries(t)
<1>1. Len(t) \in Nat
  BY LenProperties DEF WellFormed
<1> QED
  BY <1>1, DecodeOnBoundary, OffsetOnLine

\* A position that offsetAt accepts is in the text.
LEMMA AcceptedInText ==
  ASSUME NEW t, Len(t) \in Nat, NEW position \in Position, ~outOfBounds(t, position)
  PROVE  offsetAt(t, position) \in Offsets(t)
<1> DEFINE c == computeLineStarts(t)
           n == position.line
           next == c[n + 2]
<1>1. n \in Nat /\ position.character \in Nat
  BY DEF Position
<1>2. Len(c) \in Nat /\ \A i \in 1..Len(c) : c[i] \in 0..Len(t)
  BY StartsAndEnd
<1>3. ~(n >= Len(c) - 1)
  BY DEF outOfBounds
<1>4. n + 1 \in 1..Len(c) /\ n + 2 \in 1..Len(c)
  <2> HIDE DEF c
  <2> QED
    BY <1>1, <1>2, <1>3
<1>5. c[n + 1] \in 0..Len(t) /\ next \in 0..Len(t)
  <2> HIDE DEF c
  <2> QED
    BY <1>2, <1>4
<1>6. ~(c[n + 1] + position.character > IF next = Len(t) THEN Len(t) ELSE next - 1)
  BY DEF outOfBounds
<1>7. c[n + 1] + position.character \in 0..Len(t)
  <2> HIDE DEF c, next
  <2> QED
    BY <1>1, <1>5, <1>6
<1> QED
  BY <1>7 DEF offsetAt, Offsets

\* Every legal position is accepted.
LEMMA LegalAccepted ==
  ASSUME NEW t, Len(t) \in Nat, NEW o \in Offsets(t)
  PROVE  ~outOfBounds(t, DocPosition(t, o))
<1> DEFINE p == DocPosition(t, o)
           c == computeLineStarts(t)
           n == p.line
           next == c[n + 2]
           k == Len(lineStarts(t))
<1>1. n = Lines(t, o) /\ n + 1 \in 1..k
  BY LineOfOffset DEF DocPosition, Lines
<1>2. /\ Len(c) = k + 1 /\ k \in Nat
      /\ \A i \in 1..k : c[i] = lineStarts(t)[i]
      /\ \A i \in 1..Len(c) : c[i] \in 0..Len(t)
  BY StartsAndEnd
<1>3. n \in Nat /\ o \in Nat /\ o <= Len(t)
  BY <1>1, LinesGrow DEF Offsets
<1>4. c[n + 1] + p.character = o
  BY OffsetExact DEF offsetAt
<1>5. next = Len(t) \/ o <= next - 1
  <2>1. CASE n + 1 < k
    <3>1. next = lineStarts(t)[n + 2] /\ next \in 0..Len(t)
      <4>1. n + 2 \in 1..k /\ n + 2 \in 1..Len(c)
        <5> HIDE DEF n, k, c
        <5> QED
          BY <1>2, <1>3, <2>1
      <4> HIDE DEF n, k, c
      <4> QED
        BY <1>2, <4>1
    <3>2. lineLimit(t, n) = lineStarts(t)[n + 2]
      BY <2>1 DEF lineLimit
    <3>3. o < lineLimit(t, n)
      BY <1>1, <2>1, LimitIsAfter
    <3> HIDE DEF next, n, k
    <3> QED
      BY <1>3, <3>1, <3>2, <3>3
  <2>2. CASE ~(n + 1 < k)
    <3>1. n + 1 = k
      <4> HIDE DEF n, k
      <4> QED
        BY <1>1, <1>2, <1>3, <2>2
    <3>2. c = Append(lineStarts(t), Len(t))
      BY DEF computeLineStarts
    <3>3. lineStarts(t) \in Seq(0..Len(t))
      BY LineTable
    <3>4. c[k + 1] = Len(t)
      BY <3>2, <3>3
    <3>5. n + 2 = k + 1
      <4> HIDE DEF n, k
      <4> QED
        BY <1>2, <1>3, <3>1
    <3> QED
      BY <3>4, <3>5
  <2> QED
    BY <2>1, <2>2
<1>6. ~(n >= Len(c) - 1)
  <2> HIDE DEF n, c, k
  <2> QED
    BY <1>1, <1>2, <1>3
<1>7. ~(c[n + 1] + p.character > IF next = Len(t) THEN Len(t) ELSE next - 1)
  <2>1. next \in Nat
    <3>1. n + 2 \in 1..Len(c)
      <4> HIDE DEF n, c, k
      <4> QED
        BY <1>1, <1>2, <1>3
    <3>2. next \in 0..Len(t)
      BY <1>2, <3>1
    <3> HIDE DEF next
    <3> QED
      BY <3>2
  <2>2. ~(o > IF next = Len(t) THEN Len(t) ELSE next - 1)
    <3> HIDE DEF next
    <3> QED
      BY <1>3, <1>5, <2>1
  <2> QED
    BY <1>4, <2>2
<1> QED
  BY <1>6, <1>7 DEF outOfBounds

(* The order of edits *)

\* Edits of a list come one before the other, each before all that come after.
LEMMA PrecedesIsOrder ==
  ASSUME NEW list, NEW n \in Nat, DOMAIN list = 1..n, \A k \in 1..n : list[k].start \in Nat
  PROVE  /\ \A i, j \in 1..n : i # j => precedes(list, i, j) \/ precedes(list, j, i)
         /\ \A i \in 1..n : ~precedes(list, i, i)
         /\ \A i, j, k \in 1..n :
              precedes(list, i, j) /\ precedes(list, j, k) => precedes(list, i, k)
         /\ \A i, j \in 1..n : precedes(list, i, j) => list[i].start <= list[j].start
<1>1. ASSUME NEW i \in 1..n, NEW j \in 1..n
      PROVE  /\ list[i].start \in Nat /\ list[j].start \in Nat /\ i \in Nat /\ j \in Nat
             /\ precedes(list, i, j) <=>
                  \/ list[i].start < list[j].start
                  \/ list[i].start = list[j].start /\ i < j
  BY DEF precedes
<1>2. ASSUME NEW i \in 1..n, NEW j \in 1..n, i # j
      PROVE  precedes(list, i, j) \/ precedes(list, j, i)
  BY <1>1, <1>2
<1>3. ASSUME NEW i \in 1..n PROVE ~precedes(list, i, i)
  BY <1>1
<1>4. ASSUME NEW i \in 1..n, NEW j \in 1..n, NEW k \in 1..n,
             precedes(list, i, j), precedes(list, j, k)
      PROVE  precedes(list, i, k)
  BY <1>1, <1>4
<1>5. ASSUME NEW i \in 1..n, NEW j \in 1..n, precedes(list, i, j)
      PROVE  list[i].start <= list[j].start
  BY <1>1, <1>5
<1> QED
  BY <1>2, <1>3, <1>4, <1>5

\* Each edit has a place, and those before it have lower ones.
LEMMA Places ==
  ASSUME NEW list, NEW n \in Nat, DOMAIN list = 1..n, \A k \in 1..n : list[k].start \in Nat
  PROVE  /\ \A k \in 1..n : Place(list, k) \in 1..n
         /\ \A i, k \in 1..n : precedes(list, i, k) => Place(list, i) < Place(list, k)
<1> DEFINE B(k) == {j \in 1..n : precedes(list, j, k)}
<1>1. \A k : Place(list, k) = 1 + Cardinality(B(k))
  BY DEF Place
<1>2. IsFiniteSet(1..n) /\ Cardinality(1..n) = n
  BY FS_Interval
<1>3. \A k : IsFiniteSet(B(k)) /\ Cardinality(B(k)) \in Nat
  <2>1. \A k : B(k) \in SUBSET (1..n)
    OBVIOUS
  <2> HIDE DEF B
  <2> QED
    BY <1>2, <2>1, FS_Subset, FS_CardinalityType
<1>4. ASSUME NEW k \in 1..n PROVE Place(list, k) \in 1..n
  <2>1. B(k) \in SUBSET (1..n) /\ k \notin B(k)
    BY PrecedesIsOrder
  <2>2. Cardinality(B(k)) <= n /\ Cardinality(B(k)) # n
    <3> HIDE DEF B
    <3>1. /\ Cardinality(B(k)) <= Cardinality(1..n)
          /\ Cardinality(1..n) = Cardinality(B(k)) => 1..n = B(k)
      BY <1>2, <2>1, FS_Subset
    <3> QED
      BY <1>2, <2>1, <3>1
  <2>3. 1 + Cardinality(B(k)) \in 1..n
    <3> HIDE DEF B
    <3> QED
      BY <1>3, <2>2
  <2> QED
    BY <1>1, <2>3
<1>5. ASSUME NEW i \in 1..n, NEW k \in 1..n, precedes(list, i, k)
      PROVE  Place(list, i) < Place(list, k)
  <2>1. B(i) \in SUBSET B(k)
    BY <1>5, PrecedesIsOrder
  <2>2. i \in B(k) /\ i \notin B(i)
    BY <1>5, PrecedesIsOrder
  <2>3. Cardinality(B(i)) <= Cardinality(B(k)) /\ Cardinality(B(i)) # Cardinality(B(k))
    <3> HIDE DEF B
    <3>1. /\ Cardinality(B(i)) <= Cardinality(B(k))
          /\ Cardinality(B(k)) = Cardinality(B(i)) => B(k) = B(i)
      BY <1>3, <2>1, FS_Subset
    <3> QED
      BY <2>2, <3>1
  <2>4. 1 + Cardinality(B(i)) < 1 + Cardinality(B(k))
    <3> HIDE DEF B
    <3> QED
      BY <1>3, <2>3
  <2> QED
    BY <1>1, <2>4
<1> QED
  BY <1>4, <1>5

\* Every place has an edit: the sorted list has the edits of the list, by start.
LEMMA InOrderSorts ==
  ASSUME NEW S, NEW list \in Seq(S), \A k \in 1..Len(list) : list[k].start \in Nat
  PROVE  /\ inOrder(list) \in Seq(S)
         /\ DOMAIN inOrder(list) = 1..Len(list)
         /\ \A i, j \in 1..Len(list) : i < j => inOrder(list)[i].start <= inOrder(list)[j].start
         /\ \A r \in 1..Len(list) : \E k \in 1..Len(list) : inOrder(list)[r] = list[k]
         /\ \E c \in [1..Len(list) -> 1..Len(list)] :
              /\ \A r \in 1..Len(list) : inOrder(list)[r] = list[c[r]]
              /\ \A k \in 1..Len(list) : \E r \in 1..Len(list) : c[r] = k
              /\ \A i, j \in 1..Len(list) : i < j => precedes(list, c[i], c[j])
<1> DEFINE n == Len(list)
           D == 1..n
           f == [k \in D |-> Place(list, k)]
<1>1. n \in Nat /\ DOMAIN list = D /\ \A k \in D : list[k] \in S
  BY LenProperties, ElementOfSeq
<1> HIDE DEF n
<1>2. \A k \in D : list[k].start \in Nat
  BY DEF n
<1>3. /\ \A k \in D : Place(list, k) \in D
      /\ \A i, k \in D : precedes(list, i, k) => Place(list, i) < Place(list, k)
  BY <1>1, <1>2, Places
<1>4. /\ \A i, j \in D : i # j => precedes(list, i, j) \/ precedes(list, j, i)
      /\ \A i, j \in D : precedes(list, i, j) => list[i].start <= list[j].start
  BY <1>1, <1>2, PrecedesIsOrder
<1>5. f \in Injection(D, D)
  <2>1. \A i, j \in D : i # j => f[i] # f[j]
    <3>1. \A i \in D : f[i] = Place(list, i) /\ f[i] \in Nat
      BY <1>1, <1>3
    <3> HIDE DEF f, D
    <3>2. ASSUME NEW i \in D, NEW j \in D, i # j PROVE f[i] # f[j]
      <4>1. f[i] < f[j] \/ f[j] < f[i]
        BY <1>3, <1>4, <3>1, <3>2
      <4> QED
        BY <3>1, <4>1
    <3> QED
      BY <3>2
  <2>2. f \in [D -> D]
    BY <1>3
  <2> HIDE DEF f, D
  <2> QED
    BY <2>1, <2>2 DEF Injection, IsInjective
<1>6. f \in Surjection(D, D)
  <2>1. IsFiniteSet(D)
    <3>1. 1 \in Int /\ n \in Int
      BY ONLY <1>1
    <3> QED
      BY ONLY <3>1, FS_Interval
  <2> HIDE DEF f, D
  <2> QED
    BY <1>5, <2>1, FS_Injection
<1>7. \A r \in D : \E k \in D : Place(list, k) = r
  <2>1. \A r \in D : \E k \in D : f[k] = r
    <3> HIDE DEF f, D
    <3> QED
      BY <1>6 DEF Surjection
  <2> QED
    BY <2>1
<1> DEFINE c(r) == CHOOSE k \in D : Place(list, k) = r
<1>8. \A r \in D : c(r) \in D /\ Place(list, c(r)) = r
  <2> HIDE DEF D
  <2> QED
    BY <1>7
<1>9. inOrder(list) = [r \in D |-> list[c(r)]]
  BY <1>1 DEF inOrder
<1> HIDE DEF c, f
<1>10. \A r \in D : inOrder(list)[r] = list[c(r)] /\ list[c(r)] \in S
  BY <1>1, <1>8, <1>9
<1>11. inOrder(list) \in [D -> S] /\ DOMAIN inOrder(list) = D
  <2> HIDE DEF D
  <2> QED
    BY <1>9, <1>10
<1>12. inOrder(list) \in Seq(S)
  BY <1>1, <1>11, SeqDef
<1>13. ASSUME NEW i \in D, NEW j \in D, i < j
       PROVE  /\ inOrder(list)[i].start <= inOrder(list)[j].start
              /\ precedes(list, c(i), c(j))
  <2>1. c(i) \in D /\ c(j) \in D /\ Place(list, c(i)) = i /\ Place(list, c(j)) = j
    BY <1>8
  <2>2. i \in Nat /\ j \in Nat
    BY <1>1
  <2>3. c(i) # c(j)
    BY <1>13, <2>1, <2>2
  <2>4. ~precedes(list, c(j), c(i))
    <3>1. ~(j < i)
      BY <1>13, <2>2
    <3> QED
      BY <1>3, <2>1, <3>1
  <2>5. precedes(list, c(i), c(j))
    BY <1>4, <2>1, <2>3, <2>4
  <2>6. list[c(i)].start <= list[c(j)].start
    BY <1>4, <2>1, <2>5
  <2> QED
    BY <1>10, <2>5, <2>6
<1>14. \A k \in D : c(Place(list, k)) = k
  <2>1. ASSUME NEW k \in D, c(Place(list, k)) # k PROVE FALSE
    <3> DEFINE m == c(Place(list, k))
    <3>1. m \in D /\ Place(list, m) = Place(list, k) /\ Place(list, k) \in D
      BY <1>3, <1>8
    <3>2. Place(list, k) \in Nat
      BY <1>1, <3>1
    <3>3. precedes(list, m, k) \/ precedes(list, k, m)
      BY <1>4, <2>1, <3>1
    <3> HIDE DEF m
    <3> QED
      BY <1>3, <3>1, <3>2, <3>3
  <2> QED
    BY <2>1
<1>15. \E g \in [D -> D] :
         /\ \A r \in D : inOrder(list)[r] = list[g[r]]
         /\ \A k \in D : \E r \in D : g[r] = k
         /\ \A i, j \in D : i < j => precedes(list, g[i], g[j])
  <2> DEFINE g == [r \in D |-> c(r)]
  <2>1. g \in [D -> D] /\ \A r \in D : g[r] = c(r)
    BY <1>8
  <2> HIDE DEF g
  <2>2. \A r \in D : inOrder(list)[r] = list[g[r]]
    BY <1>10, <2>1
  <2>3. \A k \in D : g[Place(list, k)] = k /\ Place(list, k) \in D
    BY <1>3, <1>14, <2>1
  <2>4. \A i, j \in D : i < j => precedes(list, g[i], g[j])
    BY <1>13, <2>1
  <2> HIDE DEF D
  <2> QED
    BY <2>1, <2>2, <2>3, <2>4
<1> QED
  BY <1>8, <1>10, <1>11, <1>12, <1>13, <1>15 DEF n

\* Whether edit i of a list may stand before edit j.
Clear(list, i, j) ==
  \/ list[i].end <= list[j].start
  \/ list[j].end <= list[i].start /\ list[j].start < list[i].start

\* When no two edits that follow each other overlap, each ends before all that
\* come after it.
LEMMA ApartInOrder ==
  ASSUME NEW S, NEW list \in Seq(S),
         \A k \in 1..Len(list) :
           list[k].start \in Nat /\ list[k].end \in Nat /\ list[k].start <= list[k].end,
         ~overlapping(inOrder(list)),
         NEW c \in [1..Len(list) -> 1..Len(list)],
         \A r \in 1..Len(list) : inOrder(list)[r] = list[c[r]],
         \A i, j \in 1..Len(list) : i < j => precedes(list, c[i], c[j])
  PROVE  \A r, q \in 1..Len(list) : r < q => list[c[r]].end <= list[c[q]].start
<1> DEFINE n == Len(list)
           L == inOrder(list)
           D == 1..n
<1>1. n \in Nat
  BY LenProperties
<1>2. \A i, j \in D : i < j => precedes(list, c[i], c[j])
  OBVIOUS
<1>3. L \in Seq(S) /\ DOMAIN L = D
  BY InOrderSorts
<1>4. Len(L) = n
  <2>1. DOMAIN L = 1..Len(L) /\ Len(L) \in Nat
    BY <1>3, LenProperties
  <2>2. \A a, b \in Nat : 1..a = 1..b => a = b
    OBVIOUS
  <2> HIDE DEF L, n
  <2> QED
    BY <1>1, <1>3, <2>1, <2>2
<1>5. \A k \in D : list[k].start \in Nat /\ list[k].end \in Nat /\ list[k].start <= list[k].end
  OBVIOUS
<1>6. \A r \in D : c[r] \in D /\ L[r] = list[c[r]] /\ r \in Nat /\ c[r] \in Nat
  BY <1>1
<1>7. \A i, j : precedes(list, i, j) <=>
                  \/ list[i].start < list[j].start
                  \/ list[i].start = list[j].start /\ i < j
  BY DEF precedes
<1> HIDE DEF n, L
<1>8. \A k \in 2..n : ~(L[k].start < L[k - 1].end)
  BY <1>4 DEF overlapping, L
<1>9. ASSUME NEW r \in D, NEW q \in D, r < q
      PROVE  list[c[r]].end <= list[c[q]].start
  <2>1. r + 1 \in 2..n /\ r + 1 \in D /\ (r + 1) - 1 = r /\ (r + 1 = q \/ r + 1 < q)
    BY <1>1, <1>9
  <2>2. ~(L[r + 1].start < L[r].end)
    BY <1>8, <2>1
  <2>3. /\ L[r] = list[c[r]] /\ L[r + 1] = list[c[r + 1]] /\ c[r] \in D /\ c[r + 1] \in D /\ c[q] \in D
    BY <1>6, <2>1
  <2>4. /\ list[c[r]].end \in Nat /\ list[c[r + 1]].start \in Nat /\ list[c[q]].start \in Nat
    BY <1>5, <2>3
  <2>5. list[c[r]].end <= list[c[r + 1]].start
    BY <2>2, <2>3, <2>4
  <2>6. list[c[r + 1]].start <= list[c[q]].start
    <3>1. CASE r + 1 = q
      BY <2>4, <3>1
    <3>2. CASE r + 1 < q
      <4>1. precedes(list, c[r + 1], c[q])
        BY <1>2, <2>1, <3>2
      <4>2. \/ list[c[r + 1]].start < list[c[q]].start
            \/ list[c[r + 1]].start = list[c[q]].start /\ c[r + 1] < c[q]
        BY <1>7, <4>1
      <4> QED
        BY <2>4, <4>2
    <3> QED
      BY <2>1, <3>1, <3>2
  <2> QED
    BY <2>4, <2>5, <2>6
<1> QED
  BY <1>9 DEF n

\* Sorting brings together the edits that must not stand together.
LEMMA OverlapIsSeen ==
  ASSUME NEW S, NEW list \in Seq(S),
         \A k \in 1..Len(list) :
           list[k].start \in Nat /\ list[k].end \in Nat /\ list[k].start <= list[k].end
  PROVE  overlapping(inOrder(list)) <=>
           \E i, j \in 1..Len(list) : i < j /\ ~Clear(list, i, j)
<1> DEFINE n == Len(list)
           L == inOrder(list)
           D == 1..n
<1>1. n \in Nat
  BY LenProperties
<1>2. PICK c \in [D -> D] :
        /\ \A r \in D : L[r] = list[c[r]]
        /\ \A k \in D : \E r \in D : c[r] = k
        /\ \A i, j \in D : i < j => precedes(list, c[i], c[j])
  BY InOrderSorts
<1>3. L \in Seq(S) /\ DOMAIN L = D
  BY InOrderSorts
<1>4. Len(L) = n
  <2>1. DOMAIN L = 1..Len(L) /\ Len(L) \in Nat
    BY <1>3, LenProperties
  <2>2. \A a, b \in Nat : 1..a = 1..b => a = b
    OBVIOUS
  <2> HIDE DEF L, n
  <2> QED
    BY <1>1, <1>3, <2>1, <2>2
<1>5. \A k \in D : list[k].start \in Nat /\ list[k].end \in Nat /\ list[k].start <= list[k].end
  OBVIOUS
<1>6. \A r \in D : c[r] \in D /\ L[r] = list[c[r]] /\ r \in Nat /\ c[r] \in Nat
  BY <1>1, <1>2
<1>7. \A i, j : precedes(list, i, j) <=>
                  \/ list[i].start < list[j].start
                  \/ list[i].start = list[j].start /\ i < j
  BY DEF precedes
<1> HIDE DEF n, L
<1>8. ASSUME overlapping(L) PROVE \E i, j \in D : i < j /\ ~Clear(list, i, j)
  <2>1. PICK k \in 2..n : L[k].start < L[k - 1].end
    BY <1>4, <1>8 DEF overlapping
  <2> DEFINE a == c[k - 1]
             b == c[k]
  <2>2. k \in D /\ k - 1 \in D /\ k - 1 < k
    BY <1>1
  <2>3. a \in D /\ b \in D /\ a \in Nat /\ b \in Nat /\ L[k - 1] = list[a] /\ L[k] = list[b]
    BY <1>6, <2>2
  <2>4. precedes(list, a, b)
    BY <1>2, <2>2
  <2>5. list[b].start < list[a].end
    BY <2>1, <2>3
  <2> HIDE DEF a, b
  <2>6. list[a].start < list[b].start \/ (list[a].start = list[b].start /\ a < b)
    BY <1>7, <2>4
  <2>7. /\ list[a].start \in Nat /\ list[a].end \in Nat /\ list[a].start <= list[a].end
        /\ list[b].start \in Nat /\ list[b].end \in Nat /\ list[b].start <= list[b].end
    BY <1>5, <2>3
  <2>8. CASE a < b
    <3>1. ~Clear(list, a, b)
      BY <2>5, <2>6, <2>7, <2>8 DEF Clear
    <3> QED
      BY <2>3, <2>8, <3>1
  <2>9. CASE b < a
    <3>1. ~Clear(list, b, a)
      BY <2>3, <2>5, <2>6, <2>7, <2>9 DEF Clear
    <3> QED
      BY <2>3, <2>9, <3>1
  <2>10. a # b
    BY <2>3, <2>6, <2>7
  <2> QED
    BY <2>3, <2>8, <2>9, <2>10
<1>9. ASSUME ~overlapping(L), NEW i \in D, NEW j \in D, i < j PROVE Clear(list, i, j)
  <2>1. \A k \in 2..n : ~(L[k].start < L[k - 1].end)
    BY <1>4, <1>9 DEF overlapping
  <2>2. \A r, q \in D : r < q => list[c[r]].end <= list[c[q]].start
    BY <1>2, <1>9, ApartInOrder DEF L, n
  <2>3. PICK r \in D : c[r] = i
    BY <1>2
  <2>4. PICK q \in D : c[q] = j
    BY <1>2
  <2>5. r \in Nat /\ q \in Nat /\ i \in Nat /\ j \in Nat
    BY <1>1
  <2>6. CASE r < q
    BY <2>2, <2>3, <2>4, <2>6 DEF Clear
  <2>7. CASE q < r
    <3>1. list[j].end <= list[i].start
      BY <2>2, <2>3, <2>4, <2>7
    <3>2. precedes(list, j, i)
      BY <1>2, <2>3, <2>4, <2>7
    <3>3. list[j].start < list[i].start
      BY <1>7, <1>9, <2>5, <3>2
    <3> QED
      BY <3>1, <3>3 DEF Clear
  <2>8. r # q
    BY <1>9, <2>3, <2>4, <2>5
  <2> QED
    BY <2>5, <2>6, <2>7, <2>8
<1> QED
  BY <1>8, <1>9 DEF n, L

(* Edits made at once *)

\* Where each unit of a text goes when an edit replaces a part of it.
LEMMA ReplaceExact ==
  ASSUME NEW S, NEW s \in Seq(S), NEW edit, edit.start \in 0..Len(s), edit.end \in 0..Len(s),
         edit.newText \in S
  PROVE  /\ Len(replace(s, edit)) = edit.start + 1 + (Len(s) - edit.end)
         /\ \A i \in 1..edit.start : replace(s, edit)[i] = s[i]
         /\ replace(s, edit)[edit.start + 1] = edit.newText
         /\ \A i \in (edit.end + 1)..Len(s) : replace(s, edit)[edit.start + 1 + (i - edit.end)] = s[i]
<1> DEFINE p == edit.start
           q == edit.end
           n == Len(s)
           a == SubSeq(s, 1, p)
           b == <<edit.newText>>
           c == SubSeq(s, q + 1, n)
<1>1. /\ n \in Nat /\ p \in Nat /\ q \in Nat /\ p <= n /\ q <= n
      /\ 1 \in Int /\ p \in Int /\ n \in Int /\ q + 1 \in Int
      /\ \A i \in 1..n : s[i] \in S
  BY LenProperties, ElementOfSeq
<1>2. b \in Seq(S) /\ Len(b) = 1 /\ b[1] = edit.newText
  OBVIOUS
<1>3. replace(s, edit) = (a \o b) \o c
  BY DEF replace
<1> HIDE DEF p, q, n, b
<1>4. a \in Seq(S) /\ Len(a) = p /\ \A i \in 1..p : a[i] = s[i]
  <2>1. \A i \in 1..p : s[i] \in S
    BY <1>1
  <2>2. /\ SubSeq(s, 1, p) \in Seq(S)
        /\ Len(SubSeq(s, 1, p)) = IF 1 <= p THEN p - 1 + 1 ELSE 0
        /\ \A i \in 1..(p - 1 + 1) : SubSeq(s, 1, p)[i] = s[1 + i - 1]
    BY <1>1, <2>1, SubSeqProperties
  <2> HIDE DEF a
  <2> QED
    BY <1>1, <2>2 DEF a
<1>5. c \in Seq(S) /\ Len(c) = n - q /\ \A i \in 1..(n - q) : c[i] = s[q + i]
  <2>1. \A i \in (q + 1)..n : s[i] \in S
    BY <1>1
  <2>2. /\ SubSeq(s, q + 1, n) \in Seq(S)
        /\ Len(SubSeq(s, q + 1, n)) = IF q + 1 <= n THEN n - (q + 1) + 1 ELSE 0
        /\ \A i \in 1..(n - (q + 1) + 1) : SubSeq(s, q + 1, n)[i] = s[(q + 1) + i - 1]
    BY <1>1, <2>1, SubSeqProperties
  <2>3. n - (q + 1) + 1 = n - q /\ \A i \in 1..(n - q) : (q + 1) + i - 1 = q + i
    BY <1>1
  <2> QED
    BY <1>1, <2>2, <2>3
<1> HIDE DEF a, c
<1>6. /\ a \o b \in Seq(S) /\ Len(a \o b) = p + 1
      /\ \A i \in 1..p : (a \o b)[i] = s[i]
      /\ (a \o b)[p + 1] = edit.newText
  <2>1. /\ a \o b \in Seq(S) /\ Len(a \o b) = Len(a) + Len(b)
        /\ \A i \in 1..(Len(a) + Len(b)) : (a \o b)[i] = IF i <= Len(a) THEN a[i] ELSE b[i - Len(a)]
    BY <1>2, <1>4, ConcatProperties
  <2> QED
    BY <1>1, <1>2, <1>4, <2>1
<1>7. /\ Len((a \o b) \o c) = p + 1 + (n - q)
      /\ \A i \in 1..(p + 1) : ((a \o b) \o c)[i] = (a \o b)[i]
      /\ \A i \in 1..(n - q) : ((a \o b) \o c)[p + 1 + i] = c[i]
  <2> DEFINE ab == a \o b
  <2>1. ab \in Seq(S) /\ Len(ab) = p + 1
    BY <1>6
  <2> HIDE DEF ab
  <2>2. /\ Len(ab \o c) = Len(ab) + Len(c)
        /\ \A i \in 1..(Len(ab) + Len(c)) : (ab \o c)[i] = IF i <= Len(ab) THEN ab[i] ELSE c[i - Len(ab)]
    BY <1>5, <2>1, ConcatProperties
  <2>3. /\ Len(ab \o c) = p + 1 + (n - q)
        /\ \A i \in 1..(p + 1) : (ab \o c)[i] = ab[i]
        /\ \A i \in 1..(n - q) : (ab \o c)[p + 1 + i] = c[i]
    BY <1>1, <1>5, <2>1, <2>2
  <2> QED
    BY <2>3 DEF ab
<1>8. \A i \in 1..p : ((a \o b) \o c)[i] = s[i]
  BY <1>1, <1>6, <1>7
<1>9. ((a \o b) \o c)[p + 1] = edit.newText
  BY <1>1, <1>6, <1>7
<1>10. ASSUME NEW i \in (q + 1)..n PROVE ((a \o b) \o c)[p + 1 + (i - q)] = s[i]
  <2>1. i - q \in 1..(n - q) /\ q + (i - q) = i
    BY <1>1
  <2>2. ((a \o b) \o c)[p + 1 + (i - q)] = c[i - q]
    BY <1>7, <2>1
  <2> QED
    BY <1>5, <2>1, <2>2
<1> QED
  BY <1>3, <1>7, <1>8, <1>9, <1>10 DEF p, q, n

\* Making one more edit, with all of those made after it, is replacing its range.
LEMMA OneMoreMade ==
  ASSUME NEW S, NEW t \in Seq(S), NEW list, NEW n \in Nat,
         \A k \in 1..n : /\ list[k].start \in 0..Len(t) /\ list[k].end \in 0..Len(t)
                         /\ list[k].start <= list[k].end,
         NEW made \in SUBSET (1..n), NEW e \in (1..n) \ made,
         \A k \in made : list[e].end <= list[k].start /\ precedes(list, e, k),
         NEW R, NEW r \in Seq(R), NewText[e] \in R,
         Simultaneous(t, list, made, r),
         NEW edit, edit.start = list[e].start, edit.end = list[e].end, edit.newText = NewText[e]
  PROVE  Simultaneous(t, list, made \cup {e}, replace(r, edit))
<1> DEFINE L == Len(t)
           p == list[e].start
           q == list[e].end
           m == made \cup {e}
           K == Kept(t, list, made)
           J == Kept(t, list, m)
           To(o) == {i \in K : i <= o}
           Jo(o) == {i \in J : i <= o}
           u == replace(r, edit)
           d == q - p
<1>1. /\ L \in Nat /\ p \in Nat /\ q \in Nat /\ p <= q /\ q <= L /\ e \in Nat
      /\ \A k \in made : /\ list[k].start \in 0..L /\ list[k].end \in 0..L
                         /\ list[k].start \in Nat /\ list[k].end \in Nat
                         /\ q <= list[k].start /\ k \in Nat
                         /\ p < list[k].start \/ (p = list[k].start /\ e < k)
  BY LenProperties DEF precedes
<1>0. p \in Nat /\ q \in Nat /\ p <= q /\ d \in Nat /\ d = q - p
  BY <1>1
<1>2. IsFiniteSet(made) /\ IsFiniteSet(m) /\ Cardinality(made) \in Nat /\ Cardinality(m) = Cardinality(made) + 1
  <2>1. IsFiniteSet(1..n)
    BY FS_Interval
  <2>2. IsFiniteSet(made) /\ Cardinality(made) \in Nat
    BY <2>1, FS_Subset, FS_CardinalityType
  <2> QED
    BY <2>2, FS_AddElement
<1>3. IsFiniteSet(K) /\ Cardinality(K) \in Nat /\ IsFiniteSet(J) /\ Cardinality(J) \in Nat
  <2>1. K \in SUBSET (1..L) /\ J \in SUBSET (1..L)
    BY DEF Kept
  <2>2. IsFiniteSet(1..L)
    BY <1>1, FS_Interval
  <2> HIDE DEF K, J
  <2> QED
    BY <2>1, <2>2, FS_Subset, FS_CardinalityType
<1>4. \A i : i \in K <=> i \in 1..L /\ \A k \in made : ~(list[k].start < i /\ i <= list[k].end)
  BY DEF Kept
<1>5. \A i : i \in J <=> i \in K /\ ~(p < i /\ i <= q)
  BY DEF Kept
<1> HIDE DEF L, p, q, d, K, J
<1>6. \A i \in 1..q : i \in K
  <2>1. ASSUME NEW i \in 1..q PROVE i \in K
    <3>1. i \in 1..L /\ i \in Nat /\ i <= q
      BY ONLY <1>0, <1>1
    <3>2. ASSUME NEW k \in made PROVE ~(list[k].start < i)
      <4>1. q <= list[k].start /\ list[k].start \in Nat /\ q \in Nat
        BY <1>0, <1>1
      <4> QED
        BY ONLY <3>1, <4>1
    <3> QED
      BY <1>4, <3>1, <3>2
  <2> QED
    BY <2>1
<1>7. \A o : /\ IsFiniteSet(To(o)) /\ Cardinality(To(o)) \in Nat
             /\ IsFiniteSet(Jo(o)) /\ Cardinality(Jo(o)) \in Nat
             /\ Cardinality(To(o)) <= Cardinality(K)
  <2>1. \A o : To(o) \in SUBSET K /\ Jo(o) \in SUBSET J
    OBVIOUS
  <2> HIDE DEF To, Jo
  <2> QED
    BY <1>3, <2>1, FS_Subset, FS_CardinalityType
<1>8. Cardinality((p + 1)..q) = d /\ IsFiniteSet((p + 1)..q)
  <2>1. p + 1 \in Int /\ q \in Int
    BY <1>1
  <2>2. Cardinality((p + 1)..q) = (IF p + 1 > q THEN 0 ELSE q - (p + 1) + 1) /\ IsFiniteSet((p + 1)..q)
    BY <2>1, FS_Interval
  <2> QED
    BY ONLY <1>0, <2>2
<1>9. ASSUME NEW o \in 0..q PROVE Cardinality(To(o)) = o
  <2>1. To(o) = 1..o
    BY <1>1, <1>4, <1>6
  <2>2. 1 \in Int /\ o \in Int /\ o \in Nat
    OBVIOUS
  <2> HIDE DEF To
  <2>3. Cardinality(1..o) = IF 1 > o THEN 0 ELSE o - 1 + 1
    BY <2>2, FS_Interval
  <2> QED
    BY <2>1, <2>2, <2>3
<1>10. ASSUME NEW o \in 0..p PROVE Cardinality(Jo(o)) = o
  <2>1. o \in 0..q /\ Jo(o) = To(o)
    BY <1>1, <1>4, <1>5
  <2> HIDE DEF To, Jo
  <2> QED
    BY <1>9, <2>1
<1>11. ASSUME NEW o \in q..L PROVE Cardinality(To(o)) = Cardinality(Jo(o)) + d
  <2>1. To(o) = Jo(o) \cup ((p + 1)..q)
    BY <1>1, <1>4, <1>5, <1>6
  <2>2. Jo(o) \cap ((p + 1)..q) = {}
    BY <1>1, <1>5
  <2> HIDE DEF To, Jo
  <2>3. Cardinality(Jo(o) \cup ((p + 1)..q))
          = Cardinality(Jo(o)) + Cardinality((p + 1)..q) - Cardinality(Jo(o) \cap ((p + 1)..q))
    BY <1>7, <1>8, FS_Union
  <2>4. Cardinality({}) = 0
    BY FS_EmptySet
  <2>5. Cardinality(Jo(o)) \in Nat
    BY <1>7
  <2>6. Cardinality(To(o)) = Cardinality(Jo(o)) + d - 0
    BY <1>8, <2>1, <2>2, <2>3, <2>4
  <2> QED
    BY <1>0, <2>5, <2>6
<1>12. Cardinality(K) = Cardinality(J) + d
  <2>1. L \in q..L /\ To(L) = K /\ Jo(L) = J
    BY <1>1, <1>4, <1>5
  <2> HIDE DEF To, Jo
  <2> QED
    BY <1>11, <2>1
<1> DEFINE c == Cardinality(made)
<1>13. /\ Len(r) = Cardinality(K) + c
       /\ \A i \in K : r[Cardinality(To(i)) + Cardinality({k \in made : list[k].start < i})] = t[i]
       /\ \A k \in made :
            r[Cardinality(To(list[k].start))
               + Cardinality({x \in made : \/ list[x].start < list[k].start
                                           \/ list[x].start = list[k].start /\ x <= k})] = NewText[k]
  BY DEF Simultaneous, KeptTo, K
<1>14. q <= Cardinality(K)
  <2>1. q \in 0..q
    BY <1>1
  <2> HIDE DEF To
  <2> QED
    BY <1>7, <1>9, <2>1
<1> HIDE DEF To, Jo, c
<1>15. c \in Nat /\ Len(r) \in Nat /\ p \in 0..Len(r) /\ q \in 0..Len(r)
  BY <1>1, <1>2, <1>3, <1>13, <1>14 DEF c
<1>16. /\ Len(u) = (Len(r) - d) + 1
       /\ \A i \in 1..p : u[i] = r[i]
       /\ u[p + 1] = NewText[e]
       /\ \A i \in (q + 1)..Len(r) : u[(i - d) + 1] = r[i]
  <2>1. edit.start = p /\ edit.end = q /\ edit.newText = NewText[e]
    BY DEF p, q
  <2>2. edit.start \in 0..Len(r) /\ edit.end \in 0..Len(r) /\ edit.newText \in R
    BY <1>15, <2>1
  <2>3. /\ Len(replace(r, edit)) = edit.start + 1 + (Len(r) - edit.end)
        /\ \A i \in 1..edit.start : replace(r, edit)[i] = r[i]
        /\ replace(r, edit)[edit.start + 1] = edit.newText
        /\ \A i \in (edit.end + 1)..Len(r) : replace(r, edit)[edit.start + 1 + (i - edit.end)] = r[i]
    BY ONLY <2>2, r \in Seq(R), ReplaceExact
  <2>4. p + 1 + (Len(r) - q) = (Len(r) - d) + 1 /\ \A i \in Int : p + 1 + (i - q) = (i - d) + 1
    BY ONLY <1>0, <1>15
  <2>5. \A i \in (q + 1)..Len(r) : i \in Int
    OBVIOUS
  <2> QED
    BY <2>1, <2>3, <2>4, <2>5
<1> HIDE DEF u
<1>17. Len(u) = Cardinality(J) + Cardinality(m)
  <2>1. Len(r) = Cardinality(K) + c /\ Cardinality(m) = c + 1 /\ Len(u) = (Len(r) - d) + 1
    BY <1>2, <1>13, <1>16 DEF c
  <2>2. \A x, y, z \in Nat, w, a \in Int :
          x = y + w /\ a = x + z => (a - w) + 1 = y + (z + 1)
    OBVIOUS
  <2>3. Len(r) \in Int
    BY ONLY <1>15
  <2>4. Cardinality(K) \in Nat /\ Cardinality(J) \in Nat /\ d \in Int /\ c \in Nat
    BY ONLY <1>0, <1>3, <1>15
  <2>5. (Len(r) - d) + 1 = Cardinality(J) + (c + 1)
    BY ONLY <1>12, <2>1, <2>2, <2>3, <2>4
  <2> QED
    BY ONLY <2>1, <2>5
<1>18. ASSUME NEW i \in J
       PROVE  u[Cardinality(Jo(i)) + Cardinality({k \in m : list[k].start < i})] = t[i]
  <2> DEFINE before == {k \in made : list[k].start < i}
  <2>1. i \in K /\ i \in 1..L /\ i \in Nat /\ (i <= p \/ q < i)
    BY <1>1, <1>4, <1>5
  <2>2. r[Cardinality(To(i)) + Cardinality(before)] = t[i]
    BY <1>13, <2>1
  <2>3. CASE i <= p
    <3>1. before = {} /\ {k \in m : list[k].start < i} = {}
      <4>1. ~(p < i) /\ \A k \in made : ~(list[k].start < i)
        BY ONLY <1>0, <1>1, <2>1, <2>3
      <4> QED
        BY <4>1 DEF p
    <3>2. i \in 0..p /\ i \in 0..q /\ i \in 1..p
      BY <1>1, <2>1, <2>3
    <3>3. Cardinality(To(i)) = i /\ Cardinality(Jo(i)) = i /\ Cardinality({}) = 0
      BY <1>9, <1>10, <3>2, FS_EmptySet
    <3> HIDE DEF before
    <3>4. i + 0 = i
      BY <2>1
    <3>5. r[i] = t[i]
      BY <2>2, <3>1, <3>3, <3>4
    <3>6. u[i] = r[i]
      BY <1>16, <3>2
    <3> QED
      BY <3>1, <3>3, <3>4, <3>5, <3>6
  <2>4. CASE q < i
    <3>1. {k \in m : list[k].start < i} = before \cup {e} /\ e \notin before /\ before \in SUBSET made
      BY <1>1, <2>1, <2>4 DEF p
    <3> HIDE DEF before
    <3>2. /\ IsFiniteSet(before) /\ Cardinality(before) \in Nat /\ Cardinality(before) <= c
          /\ Cardinality(before \cup {e}) = Cardinality(before) + 1
      BY <1>2, <3>1, FS_Subset, FS_CardinalityType, FS_AddElement DEF c
    <3>3. i \in q..L /\ Cardinality(To(i)) = Cardinality(Jo(i)) + d
      BY <1>1, <1>11, <2>1, <2>4
    <3>4. q + 1 <= Cardinality(To(i))
      <4>1. 1..q \in SUBSET To(i) /\ i \in To(i) /\ i \notin 1..q
        BY <1>1, <1>6, <2>1, <2>4 DEF To
      <4>2. 1 \in Int /\ q \in Int
        BY <1>1
      <4>3. Cardinality(1..q) = IF 1 > q THEN 0 ELSE q - 1 + 1
        BY <4>2, FS_Interval
      <4>4. Cardinality(1..q) <= Cardinality(To(i)) /\ (Cardinality(To(i)) = Cardinality(1..q) => To(i) = 1..q)
        BY <1>7, <4>1, FS_Subset
      <4>5. Cardinality(1..q) = q
        BY <1>1, <4>3
      <4> QED
        BY <1>1, <1>7, <4>1, <4>4, <4>5
    <3> DEFINE g == Cardinality(To(i)) + Cardinality(before)
    <3>8. /\ Cardinality(To(i)) \in Nat /\ Cardinality(Jo(i)) \in Nat
          /\ Cardinality(To(i)) <= Cardinality(K) /\ Len(r) = Cardinality(K) + c
      BY <1>7, <1>13
    <3>5. g \in (q + 1)..Len(r)
      BY <1>0, <1>3, <1>15, <3>2, <3>4, <3>8
    <3>6. (g - d) + 1 = Cardinality(Jo(i)) + (Cardinality(before) + 1)
      BY ONLY <1>0, <3>2, <3>3, <3>8
    <3> HIDE DEF g
    <3>7. u[(g - d) + 1] = r[g]
      BY <1>16, <3>5
    <3> QED
      BY <2>2, <3>1, <3>2, <3>6, <3>7 DEF g
  <2> QED
    BY <2>1, <2>3, <2>4
<1>19. ASSUME NEW k \in m
       PROVE  u[Cardinality(Jo(list[k].start))
                 + Cardinality({x \in m : \/ list[x].start < list[k].start
                                          \/ list[x].start = list[k].start /\ x <= k})] = NewText[k]
  <2>1. CASE k = e
    <3>1. {x \in m : \/ list[x].start < list[e].start
                     \/ list[x].start = list[e].start /\ x <= e} = {e}
      BY <1>1 DEF p
    <3>2. Cardinality({e}) = 1
      BY FS_Singleton
    <3>3. Cardinality(Jo(p)) = p
      BY <1>1, <1>10
    <3> QED
      BY <1>16, <2>1, <3>1, <3>2, <3>3 DEF p
  <2>2. CASE k # e
    <3> DEFINE before == {x \in made : \/ list[x].start < list[k].start
                                       \/ list[x].start = list[k].start /\ x <= k}
               o == list[k].start
    <3>1. k \in made /\ o \in q..L /\ o \in Nat
      BY <1>1, <2>2
    <3>2. r[Cardinality(To(o)) + Cardinality(before)] = NewText[k]
      BY <1>13, <3>1
    <3>3. {x \in m : \/ list[x].start < list[k].start
                     \/ list[x].start = list[k].start /\ x <= k} = before \cup {e}
      BY <1>1, <3>1 DEF p
    <3>4. e \notin before /\ before \in SUBSET made /\ k \in before
      BY <1>1, <3>1
    <3> HIDE DEF before, o
    <3>5. /\ IsFiniteSet(before) /\ Cardinality(before) \in Nat /\ Cardinality(before) <= c
          /\ Cardinality(before \cup {e}) = Cardinality(before) + 1
      BY <1>2, <3>4, FS_Subset, FS_CardinalityType, FS_AddElement DEF c
    <3>6. Cardinality(before) # 0
      BY <3>4, <3>5, FS_EmptySet
    <3>7. Cardinality(To(o)) = Cardinality(Jo(o)) + d
      BY <1>11, <3>1
    <3>8. q <= Cardinality(To(o))
      <4>1. 1..q \in SUBSET To(o)
        BY <1>1, <1>6, <3>1 DEF To
      <4>2. 1 \in Int /\ q \in Int
        BY <1>1
      <4>3. Cardinality(1..q) = IF 1 > q THEN 0 ELSE q - 1 + 1
        BY <4>2, FS_Interval
      <4>4. Cardinality(1..q) <= Cardinality(To(o))
        BY <1>7, <4>1, FS_Subset
      <4> QED
        BY <1>1, <4>3, <4>4
    <3> DEFINE g == Cardinality(To(o)) + Cardinality(before)
    <3>12. /\ Cardinality(To(o)) \in Nat /\ Cardinality(Jo(o)) \in Nat
           /\ Cardinality(To(o)) <= Cardinality(K) /\ Len(r) = Cardinality(K) + c
      BY <1>7, <1>13
    <3>9. g \in (q + 1)..Len(r)
      <4>1. q + 1 <= g /\ g <= Cardinality(K) + c /\ g \in Int /\ q + 1 \in Int
        BY ONLY <1>0, <1>3, <1>15, <3>5, <3>6, <3>8, <3>12
      <4> HIDE DEF g
      <4> QED
        BY ONLY <1>15, <3>12, <4>1
    <3>10. (g - d) + 1 = Cardinality(Jo(o)) + (Cardinality(before) + 1)
      BY ONLY <1>0, <3>5, <3>7, <3>12
    <3> HIDE DEF g
    <3>11. u[(g - d) + 1] = r[g]
      BY <1>16, <3>9
    <3> QED
      BY <3>2, <3>3, <3>5, <3>10, <3>11 DEF g, o
  <2> QED
    BY <2>1, <2>2
<1> QED
  BY <1>17, <1>18, <1>19 DEF Simultaneous, KeptTo, J, Jo, u

\* Before any edit is made the text is as it was.
LEMMA NoneMade ==
  ASSUME NEW S, NEW t \in Seq(S), NEW list
  PROVE  Simultaneous(t, list, {}, t)
<1>1. Len(t) \in Nat /\ Kept(t, list, {}) = 1..Len(t)
  BY LenProperties DEF Kept
<1>2. \A n \in Nat : Cardinality(1..n) = n
  <2>1. ASSUME NEW n \in Nat PROVE Cardinality(1..n) = n
    <3>1. 1 \in Int /\ n \in Int
      OBVIOUS
    <3>2. Cardinality(1..n) = IF 1 > n THEN 0 ELSE n - 1 + 1
      BY <3>1, FS_Interval
    <3> QED
      BY <3>2
  <2> QED
    BY <2>1
<1>3. Cardinality({}) = 0
  BY FS_EmptySet
<1>4. ASSUME NEW i \in 1..Len(t) PROVE KeptTo(t, list, {}, i) = i
  <2>1. {j \in 1..Len(t) : j <= i} = 1..i /\ i \in Nat
    BY <1>1
  <2> QED
    BY <1>1, <1>2, <2>1 DEF KeptTo
<1>5. Len(t) = Cardinality(Kept(t, list, {})) + Cardinality({})
  BY <1>1, <1>2, <1>3
<1>6. ASSUME NEW i \in Kept(t, list, {})
      PROVE  t[KeptTo(t, list, {}, i) + Cardinality({k \in {} : list[k].start < i})] = t[i]
  <2>1. {k \in {} : list[k].start < i} = {} /\ i \in 1..Len(t) /\ i + 0 = i
    BY <1>1
  <2> QED
    BY <1>3, <1>4, <2>1
<1> QED
  BY <1>5, <1>6 DEF Simultaneous
(* What each phase knows *)

WireRange == [start : Position, end : Position]

\* Nobody has been asked, or has answered, or has been understood yet.
Unsettled ==
  /\ phase \notin {"connecting", "failed"} => encoding \in Encodings
  /\ phase \in {"connecting", "asking", "failed"} => sent = None
  /\ phase \in {"connecting", "asking", "asked", "failed"} => meant = None
  /\ phase \in {"connecting", "asking", "asked", "failed", "answered"} =>
       edits = <<>> /\ located = <<>> /\ result = <<>>

\* A request carries the code point it is about.
AskedInv == sent # None => sent = WirePosition(text, cursor)

\* A legal answer has the wire positions of what the server means.
AnsweredInv ==
  phase = "answered" =>
    /\ answer.kind \in Kinds
    /\ answer.kind = "format" => answer.own
    /\ answer.own => target = text
    /\ collectWorkspaceEdits(answer) \in Seq(WireRange)
    /\ Len(collectWorkspaceEdits(answer)) <= Most
    /\ meant # None => DOMAIN meant = DOMAIN collectWorkspaceEdits(answer)
    /\ meant # None => \A k \in DOMAIN collectWorkspaceEdits(answer) :
         /\ meant[k] \in Ranges(target)
         /\ collectWorkspaceEdits(answer)[k].start = WirePosition(target, meant[k].start)
         /\ collectWorkspaceEdits(answer)[k].end = WirePosition(target, meant[k].end)

\* Decoded edits have its positions in the document, and those of the document
\* of the request are at code points, whatever the server meant.
DecodedInv ==
  phase = "decoded" =>
    /\ Len(edits) <= Most
    /\ located = <<>>
    /\ result = target
    /\ meant # None => DOMAIN meant = DOMAIN edits
    /\ meant # None => \A k \in DOMAIN edits :
         /\ meant[k] \in Ranges(target)
         /\ edits[k].start = DocPosition(target, meant[k].start)
         /\ edits[k].end = DocPosition(target, meant[k].end)
    /\ encoding # "utf-16" /\ target = text => \A k \in DOMAIN edits :
         {offsetAt(target, edits[k].start), offsetAt(target, edits[k].end)} \subseteq Boundaries(target)

\* Located edits have its offsets.
LocatedInv ==
  phase = "located" =>
    /\ result = target
    /\ meant # None => DOMAIN meant = DOMAIN located
    /\ meant # None => \A k \in DOMAIN located :
         /\ meant[k] \in Ranges(target)
         /\ located[k].start = meant[k].start /\ located[k].end = meant[k].end
    /\ encoding # "utf-16" /\ target = text => \A k \in DOMAIN located :
         {located[k].start, located[k].end} \subseteq Boundaries(text)

\* What is left to apply is sorted, and so starts in what is left of the text.
ApplyingInv ==
  phase = "applying" =>
    /\ \A i, j \in DOMAIN located : i < j => located[i].start <= located[j].start
    /\ \A k \in DOMAIN located : located[k].start <= Len(result)

\* Legal edits are applied when they stand apart, and refused when not.
RefusedInv ==
  meant # None =>
    /\ phase \in {"applying", "done"} =>
         \A i, j \in DOMAIN meant : i < j => Clear(meant, i, j)
    /\ phase = "refused" =>
         ~\A i, j \in DOMAIN meant : i < j => Clear(meant, i, j)

\* The edits not yet applied are the first of those meant, sorted and standing
\* apart; the others have been made at once.
MadeInv ==
  /\ phase = "done" => located = <<>>
  /\ phase \in {"applying", "done"} /\ meant # None =>
       \E n \in 0..Most : \E c \in [1..n -> 1..n] :
         /\ DOMAIN meant = 1..n
         /\ \A k \in 1..n : meant[k] \in Ranges(target)
         /\ \A k \in 1..n : \E r \in 1..n : c[r] = k
         /\ \A i, j \in 1..n : i < j =>
              precedes(meant, c[i], c[j]) /\ meant[c[i]].end <= meant[c[j]].start
         /\ Len(located) <= n
         /\ \A r \in 1..Len(located) : /\ located[r].start = meant[c[r]].start
                                       /\ located[r].end = meant[c[r]].end
                                       /\ located[r].newText = NewText[c[r]]
         /\ Simultaneous(target, meant, {c[r] : r \in (Len(located) + 1)..n}, result)

\* A single edit is to be applied to the text, or has been.
RestInv ==
  /\ phase = "located" => located = locate(target, edits) /\ edits \in Seq(WireRange) /\ Len(edits) <= Most
  /\ phase \in {"applying", "done"} /\ Len(edits) = 1 =>
       \/ /\ phase = "applying" /\ Len(located) = 1 /\ result = target
          /\ located[1].start = offsetAt(target, edits[1].start)
          /\ located[1].end = offsetAt(target, edits[1].end)
       \/ located = <<>> /\ RestStays

DocInv ==
  /\ TypeOK /\ Unsettled /\ AskedInv /\ AnsweredInv /\ DecodedInv /\ LocatedInv /\ ApplyingInv
  /\ RefusedInv /\ MadeInv /\ RestInv

\* There is a text for every edit of an answer.
LEMMA TextsOfEdits ==
  /\ Most \in Nat \ {0} /\ DOMAIN NewText = 1..Most
  /\ MaxEdits \in 0..Most /\ MaxListed \in 0..Most /\ MaxForeign \in 0..Most
  /\ \A k \in 1..Most : NewText[k] \in Range(NewText)
<1>1. NewText \in Seq(STRING) /\ NewText # <<>>
  BY EditsAssumption
<1>2. Most \in Nat /\ DOMAIN NewText = 1..Most
  BY <1>1, LenProperties DEF Most
<1>3. Most # 0
  BY <1>1, EmptySeq DEF Most
<1>4. MaxEdits \in 0..Most /\ MaxListed \in 0..Most /\ MaxForeign \in 0..Most
  BY EditsAssumption DEF Most
<1>5. \A k \in 1..Most : NewText[k] \in Range(NewText)
  BY <1>2 DEF Range
<1> QED
  BY <1>2, <1>3, <1>4, <1>5

\* Every text of the model is whole, and starts at a code point.
LEMMA TextsAreWhole ==
  ASSUME NEW t \in Documents \cup {<<>>}
  PROVE  WellFormed(t) /\ Len(t) \in Nat /\ 0 \in Boundaries(t)
<1>1. WellFormed(t)
  <2>1. CASE t \in Documents
    BY <2>1, DocumentsAssumption DEF WellFormed
  <2>2. CASE t = <<>>
    BY <2>2 DEF WellFormed
  <2> QED
    BY <2>1, <2>2
<1>2. Len(t) \in Nat
  BY <1>1, LenProperties DEF WellFormed
<1>3. ~SplitsPair(t, 0)
  BY <1>1, StartSplitsNoPair
<1> QED
  BY <1>1, <1>2, <1>3 DEF Boundaries, Offsets

\* What a request carries stays right while nothing it depends on changes.
LEMMA AskedKept ==
  ASSUME AskedInv, UNCHANGED <<text, encoding, cursor, sent>>
  PROVE  AskedInv'
BY DEF AskedInv, WirePosition, Measure, Parts, Width, LineStart, Newlines

LEMMA InitInv == Init => DocInv
<1> SUFFICES ASSUME Init PROVE DocInv
  OBVIOUS
<1>1. 0 \in Boundaries(<<>>)
  BY TextsAreWhole
<1>2. TypeOK
  BY <1>1 DEF Init, TypeOK
<1> QED
  BY <1>2 DEF Init, DocInv, Unsettled, AskedInv, AnsweredInv, DecodedInv, LocatedInv, ApplyingInv, RefusedInv, MadeInv, RestInv

LEMMA ReceiveInv == ASSUME DocInv, Receive PROVE DocInv'
<1> USE DEF DocInv
<1>1. /\ phase \in {"connecting", "failed"} /\ phase' \in {"connecting", "failed"}
      /\ UNCHANGED <<text, encoding, cursor, sent, answer, target, meant, edits, located, result>>
  BY DEF Receive, docVars
<1>2. TypeOK'
  BY <1>1 DEF TypeOK
<1>3. AskedInv'
  BY <1>1, AskedKept
<1>4. Unsettled'
  BY <1>1 DEF Unsettled
<1> QED
  BY <1>1, <1>2, <1>3, <1>4 DEF AnsweredInv, DecodedInv, LocatedInv, ApplyingInv, RefusedInv, MadeInv, RestInv

LEMMA NegotiateInv == ASSUME DocInv, Negotiate PROVE DocInv'
<1> USE DEF DocInv
<1>1. PICK advertised \in Encodings \cup {"utf-7", None} :
        IF advertised = "utf-7"
          THEN phase' = "failed" /\ UNCHANGED docVars
          ELSE /\ phase' = "asking"
               /\ encoding' = IF advertised = None THEN "utf-16" ELSE advertised
               /\ text' \in Documents
               /\ cursor' \in {o \in Offsets(text') : ~SplitsPair(text', o)}
               /\ UNCHANGED <<sent, answer, target, meant, edits, located, result>>
  BY DEF Negotiate
<1>2. phase = "connecting" /\ sent = None /\ meant = None /\ edits = <<>> /\ located = <<>> /\ result = <<>>
  BY DEF Negotiate, Unsettled
<1>3. CASE advertised = "utf-7"
  <2>1. phase' = "failed" /\ UNCHANGED docVars
    BY <1>1, <1>3
  <2> QED
    BY <1>2, <2>1 DEF docVars, TypeOK, Unsettled, AskedInv, AnsweredInv, DecodedInv, LocatedInv, ApplyingInv, RefusedInv, MadeInv, RestInv
<1>4. CASE advertised # "utf-7"
  <2>1. /\ phase' = "asking"
        /\ encoding' \in Encodings
        /\ text' \in Documents
        /\ cursor' \in {o \in Offsets(text') : ~SplitsPair(text', o)}
        /\ UNCHANGED <<sent, answer, target, meant, edits, located, result>>
    BY <1>1, <1>4 DEF Encodings
  <2>2. TypeOK'
    BY <1>2, <2>1 DEF TypeOK, Boundaries
  <2> QED
    BY <1>2, <2>1, <2>2 DEF Unsettled, AskedInv, AnsweredInv, DecodedInv, LocatedInv, ApplyingInv, RefusedInv, MadeInv, RestInv
<1> QED
  BY <1>3, <1>4

\* Both ways a request is made send the position of the cursor.
LEMMA EncodeInv == ASSUME DocInv, EncodePosition \/ EncodeDiagnostic PROVE DocInv'
<1> USE DEF DocInv
<1>1. /\ phase = "asking" /\ phase' = "asked"
      /\ UNCHANGED <<text, encoding, cursor, answer, target, meant, edits, located, result>>
  BY DEF EncodePosition, EncodeDiagnostic
<1>2. /\ encoding \in Encodings /\ text \in Documents \cup {<<>>}
      /\ cursor \in Boundaries(text) /\ cursor \in Offsets(text)
  BY <1>1 DEF Unsettled, TypeOK, Boundaries
<1>3. WellFormed(text) /\ Len(text) \in Nat
  BY <1>2, TextsAreWhole
<1>4. sent' = WirePosition(text, cursor)
  <2>1. CASE EncodePosition
    BY <1>2, <1>3, <2>1, EncodeExact DEF EncodePosition
  <2>2. CASE EncodeDiagnostic
    <3>1. decode(text, WirePosition(text, cursor)) = DocPosition(text, cursor)
      BY <1>2, <1>3, DecodeExact
    <3> QED
      BY <1>2, <1>3, <2>2, <3>1, EncodeExact DEF EncodeDiagnostic
  <2> QED
    BY <2>1, <2>2
<1>5. sent' \in Position
  BY <1>2, <1>3, <1>4, PositionsTyped
<1>6. TypeOK'
  BY <1>1, <1>5 DEF TypeOK
<1>7. AskedInv'
  BY <1>1, <1>4 DEF AskedInv, WirePosition, Measure, Parts, Width, LineStart, Newlines
<1>8. Unsettled'
  BY <1>1 DEF Unsettled
<1> QED
  BY <1>1, <1>6, <1>7, <1>8 DEF AnsweredInv, DecodedInv, LocatedInv, ApplyingInv, RefusedInv, MadeInv, RestInv

\* The edits of a document are listed here and there, and collected again.
LEMMA CollectedAgain ==
  ASSUME NEW S, NEW wire \in Seq(S), NEW split \in 0..Len(wire)
  PROVE  SubSeq(wire, 1, split) \o SubSeq(wire, split + 1, Len(wire)) = wire
<1>1. Len(wire) \in Nat
  BY LenProperties
<1>2. 1 \in 1..(Len(wire) + 1) /\ split \in (1 - 1)..Len(wire) /\ Len(wire) \in split..Len(wire)
  BY <1>1
<1>3. SubSeq(wire, 1, split) \o SubSeq(wire, split + 1, Len(wire)) = SubSeq(wire, 1, Len(wire))
  BY <1>2, ConcatAdjacentSubSeq
<1> QED
  BY <1>3, SubSeqFull

LEMMA AnswerInv == ASSUME DocInv, Answer PROVE DocInv'
<1> USE DEF DocInv
<1>1. /\ phase = "asked" /\ phase' = "answered" /\ sent' = None /\ cursor' = 0
      /\ UNCHANGED <<text, encoding, edits, located, result>>
  BY DEF Answer
<1>2. PICK kind \in Kinds, own \in BOOLEAN, t \in Documents :
        /\ kind = "format" => own
        /\ own => t = text
        /\ target' = t
        /\ \E n \in 0..(IF kind = "format" THEN MaxEdits ELSE IF own THEN MaxListed ELSE MaxForeign) :
           \E list \in [1..n -> Ranges(t)], split \in 0..n, extra \in Extras :
             /\ kind = "format" => split = n /\ extra \in {"nothing", "malformed"}
             /\ extra # "nothing" => n = 1 /\ split = 0
             /\ extra = "command" => kind = "codeAction"
             /\ meant' = list
             /\ LET wire == [k \in 1..n |-> [start |-> WirePosition(t, list[k].start),
                                             end   |-> WirePosition(t, list[k].end)]]
                IN  answer' = [kind |-> kind, own |-> own, extra |-> extra,
                               changes |-> SubSeq(wire, 1, split),
                               documentChanges |-> SubSeq(wire, split + 1, n)]
  BY DEF Answer
<1>3. PICK n \in 0..Most :
        \E list \in [1..n -> Ranges(t)], split \in 0..n, extra \in Extras :
             /\ kind = "format" => split = n /\ extra \in {"nothing", "malformed"}
             /\ extra # "nothing" => n = 1 /\ split = 0
             /\ extra = "command" => kind = "codeAction"
             /\ meant' = list
             /\ LET wire == [k \in 1..n |-> [start |-> WirePosition(t, list[k].start),
                                             end   |-> WirePosition(t, list[k].end)]]
                IN  answer' = [kind |-> kind, own |-> own, extra |-> extra,
                               changes |-> SubSeq(wire, 1, split),
                               documentChanges |-> SubSeq(wire, split + 1, n)]
  <2>1. (IF kind = "format" THEN MaxEdits ELSE IF own THEN MaxListed ELSE MaxForeign) \in 0..Most
    BY TextsOfEdits
  <2>2. \A m \in 0..Most : 0..m \subseteq 0..Most
    BY TextsOfEdits
  <2> QED
    BY <1>2, <2>1, <2>2
<1>4. PICK list \in [1..n -> Ranges(t)], split \in 0..n, extra \in Extras :
        /\ kind = "format" => split = n /\ extra \in {"nothing", "malformed"}
        /\ extra # "nothing" => n = 1 /\ split = 0
        /\ extra = "command" => kind = "codeAction"
        /\ meant' = list
        /\ answer' = [kind |-> kind, own |-> own, extra |-> extra,
                      changes |-> SubSeq([k \in 1..n |-> [start |-> WirePosition(t, list[k].start),
                                                          end   |-> WirePosition(t, list[k].end)]],
                                         1, split),
                      documentChanges |-> SubSeq([k \in 1..n |-> [start |-> WirePosition(t, list[k].start),
                                                                  end   |-> WirePosition(t, list[k].end)]],
                                                 split + 1, n)]
  BY <1>3
<1> DEFINE wire == [k \in 1..n |-> [start |-> WirePosition(t, list[k].start),
                                    end   |-> WirePosition(t, list[k].end)]]
<1>5. \A k \in 1..n : /\ list[k] \in Ranges(t)
                      /\ list[k].start \in Offsets(t) /\ list[k].end \in Offsets(t)
  BY DEF Ranges, Boundaries
<1>6. Len(t) \in Nat
  BY TextsAreWhole
<1>7. \A k \in 1..n : wire[k] \in WireRange
  BY <1>5, <1>6, PositionsTyped DEF WireRange
<1>8. wire \in Seq(WireRange) /\ Len(wire) = n /\ DOMAIN wire = 1..n
  <2>1. n \in Nat /\ DOMAIN wire = 1..n /\ wire \in [1..n -> WireRange]
    BY <1>7
  <2> HIDE DEF wire
  <2>2. wire \in Seq(WireRange)
    BY <2>1, SeqDef
  <2>3. Len(wire) \in Nat /\ DOMAIN wire = 1..Len(wire)
    BY <2>2, LenProperties
  <2> QED
    BY <2>1, <2>2, <2>3
<1>9. collectWorkspaceEdits(answer)' = wire
  <2>1. SubSeq(wire, 1, split) \o SubSeq(wire, split + 1, n) = wire
    <3> HIDE DEF wire
    <3> QED
      BY <1>8, CollectedAgain
  <2> QED
    BY <1>4, <2>1 DEF collectWorkspaceEdits
<1>10. answer'.kind = kind /\ answer'.own = own
  BY <1>4
<1>11. \A k \in 1..n : /\ wire[k].start = WirePosition(t, list[k].start)
                       /\ wire[k].end = WirePosition(t, list[k].end)
  OBVIOUS
<1>12. AnsweredInv'
  <2> HIDE DEF wire
  <2>1. /\ answer'.kind \in Kinds
        /\ answer'.kind = "format" => answer'.own
        /\ answer'.own => target' = text'
        /\ Len(wire) <= Most
    BY <1>1, <1>2, <1>8, <1>10
  <2>2. \A k \in DOMAIN wire : list[k] \in Ranges(t)
    BY <1>5, <1>8
  <2>3. (\A k \in DOMAIN collectWorkspaceEdits(answer) : meant[k] \in Ranges(target))'
    BY <1>2, <1>4, <1>9, <2>2 DEF Ranges, Boundaries, Offsets, SplitsPair
  <2>4. (\A k \in DOMAIN collectWorkspaceEdits(answer) :
           /\ collectWorkspaceEdits(answer)[k].start = WirePosition(target, meant[k].start)
           /\ collectWorkspaceEdits(answer)[k].end = WirePosition(target, meant[k].end))'
    <3>1. ASSUME NEW k \in 1..n
          PROVE  /\ WirePosition(target, meant[k].start)' = WirePosition(t, list[k].start)
                 /\ WirePosition(target, meant[k].end)' = WirePosition(t, list[k].end)
      BY <1>1, <1>2, <1>4 DEF WirePosition, Measure, Parts, Width, LineStart, Newlines
    <3> QED
      BY <1>8, <1>9, <1>11, <3>1
  <2>5. (collectWorkspaceEdits(answer) \in Seq(WireRange) /\ Len(collectWorkspaceEdits(answer)) <= Most)'
    BY <1>8, <1>9, <2>1 DEF WireRange, Position
  <2>6. (DOMAIN meant = DOMAIN collectWorkspaceEdits(answer))'
    BY <1>4, <1>8, <1>9
  <2> QED
    BY <2>1, <2>3, <2>4, <2>5, <2>6 DEF AnsweredInv
<1>13. TypeOK'
  <2>1. 0 \in Boundaries(text)
    BY TextsAreWhole DEF TypeOK
  <2>2. edits = <<>> /\ located = <<>> /\ result = <<>>
    BY <1>1 DEF Unsettled
  <2> QED
    BY <1>1, <1>2, <2>1, <2>2 DEF TypeOK, Boundaries, Offsets, SplitsPair
<1>14. Unsettled'
  BY <1>1 DEF Unsettled
<1> QED
  BY <1>1, <1>12, <1>13, <1>14 DEF AskedInv, DecodedInv, LocatedInv, ApplyingInv, RefusedInv, MadeInv, RestInv

LEMMA StrayAnswerInv == ASSUME DocInv, StrayAnswer PROVE DocInv'
<1> USE DEF DocInv
<1>1. /\ phase = "asked" /\ phase' = "answered" /\ sent' = None /\ cursor' = 0 /\ target' = text
      /\ UNCHANGED <<text, encoding, meant, edits, located, result>>
  BY DEF StrayAnswer
<1>2. PICK start, end \in [line : 0..MaxLine, character : 0..MaxChar] :
        answer' = [kind |-> "format", own |-> TRUE, extra |-> "nothing",
                   changes |-> <<[start |-> start, end |-> end]>>, documentChanges |-> <<>>]
  BY DEF StrayAnswer
<1> DEFINE range == [start |-> start, end |-> end]
<1>3. range \in WireRange
  <2>1. 0..MaxLine \subseteq Nat /\ 0..MaxChar \subseteq Nat
    BY BoundsAssumption
  <2> QED
    BY <2>1 DEF WireRange, Position
<1>4. collectWorkspaceEdits(answer)' = <<range>>
  <2>1. <<range>> \o <<>> = <<range>>
    BY <1>3, ConcatEmptySeq
  <2> QED
    BY <1>2, <2>1 DEF collectWorkspaceEdits
<1>5. meant = None
  BY <1>1 DEF Unsettled
<1>6. AnsweredInv'
  <2> HIDE DEF range
  <2>1. <<range>> \in Seq(WireRange) /\ Len(<<range>>) <= Most
    <3>1. <<range>> \in Seq(WireRange) /\ Len(<<range>>) = 1
      BY <1>3
    <3>2. 1 <= Most
      BY TextsOfEdits
    <3> QED
      BY <3>1, <3>2
  <2>2. (collectWorkspaceEdits(answer) \in Seq(WireRange) /\ Len(collectWorkspaceEdits(answer)) <= Most)'
    BY <1>4, <2>1 DEF WireRange, Position
  <2>3. answer'.kind \in Kinds /\ target' = text' /\ answer'.own
    BY <1>1, <1>2 DEF Kinds
  <2> QED
    BY <1>1, <1>5, <2>2, <2>3 DEF AnsweredInv
<1>7. TypeOK'
  <2>1. 0 \in Boundaries(text)
    BY TextsAreWhole DEF TypeOK
  <2>2. edits = <<>> /\ located = <<>> /\ result = <<>>
    BY <1>1 DEF Unsettled
  <2> QED
    BY <1>1, <2>1, <2>2 DEF TypeOK, Boundaries, Offsets, SplitsPair
<1>8. Unsettled'
  BY <1>1 DEF Unsettled
<1> QED
  BY <1>1, <1>6, <1>7, <1>8 DEF AskedInv, DecodedInv, LocatedInv, ApplyingInv, RefusedInv, MadeInv, RestInv

\* A request that ends in words only, and one whose edits are all applied.
LEMMA EndInv == ASSUME DocInv, RefuseAnswer \/ Undecodable \/ Applied PROVE DocInv'
<1> USE DEF DocInv
<1>1. /\ phase' \in {"malformed", "undecodable", "done"} /\ phase \in {"answered", "applying"}
      /\ phase' = "done" => phase = "applying" /\ located = <<>>
      /\ UNCHANGED <<text, encoding, cursor, sent, answer, target, meant, edits, located, result>>
  BY DEF RefuseAnswer, Undecodable, Readable, Applied
<1>2. TypeOK'
  BY <1>1 DEF TypeOK
<1>3. AskedInv'
  BY <1>1, AskedKept
<1>4. Unsettled'
  BY <1>1 DEF Unsettled
<1>5. MadeInv'
  BY <1>1 DEF MadeInv
<1>6. RestInv'
  BY <1>1 DEF RestInv, RestStays
<1> QED
  BY <1>1, <1>2, <1>3, <1>4, <1>5, <1>6 DEF AnsweredInv, DecodedInv, LocatedInv, ApplyingInv, RefusedInv

LEMMA DecodeEditsInv == ASSUME DocInv, DecodeEdits PROVE DocInv'
<1> USE DEF DocInv
<1> DEFINE list == collectWorkspaceEdits(answer)
           d == decodedWith(answer)
           command == answer.extra = "command"
<1>1. /\ phase = "answered" /\ phase' = "decoded" /\ result' = target
      /\ edits' = IF command THEN <<>> ELSE decodeTextEdits(d, list)
      /\ meant' = IF command \/ ~Faithful THEN None ELSE meant
      /\ UNCHANGED <<text, encoding, cursor, sent, target, located>>
  BY DEF DecodeEdits, Readable
<1>2. /\ encoding \in Encodings /\ located = <<>>
      /\ text \in Documents \cup {<<>>} /\ target \in Documents \cup {<<>>}
  BY <1>1 DEF Unsettled, TypeOK
<1>3. /\ list \in Seq(WireRange) /\ Len(list) <= Most
      /\ answer.kind \in Kinds
      /\ answer.kind = "format" => answer.own
      /\ answer.own => target = text
      /\ meant # None => DOMAIN meant = DOMAIN list
      /\ meant # None => \A k \in DOMAIN list :
           /\ meant[k] \in Ranges(target)
           /\ list[k].start = WirePosition(target, meant[k].start)
           /\ list[k].end = WirePosition(target, meant[k].end)
  BY <1>1 DEF AnsweredInv
<1>4. /\ WellFormed(text) /\ WellFormed(target) /\ WellFormed(d) /\ Len(target) \in Nat
      /\ d = text \/ d = target
  BY <1>2, TextsAreWhole DEF decodedWith
<1>5. Len(list) \in Nat /\ DOMAIN list = 1..Len(list) /\ \A k \in DOMAIN list : list[k] \in WireRange
  <2> HIDE DEF list
  <2> QED
    BY <1>3, LenProperties, ElementOfSeq
<1>6. \A k \in DOMAIN list : list[k].start \in Position /\ list[k].end \in Position
  BY <1>5 DEF WireRange
<1> HIDE DEF list, d, command
<1>7. ASSUME ~command
      PROVE  /\ DOMAIN edits' = DOMAIN list
             /\ \A k \in DOMAIN list : /\ edits'[k].start = decode(d, list[k].start)
                                       /\ edits'[k].end = decode(d, list[k].end)
                                       /\ edits'[k] \in WireRange
  <2>1. edits' = [k \in DOMAIN list |-> [start |-> decode(d, list[k].start),
                                         end   |-> decode(d, list[k].end)]]
    BY <1>1, <1>7 DEF decodeTextEdits, convertRange
  <2>2. \A k \in DOMAIN list : decode(d, list[k].start) \in Position /\ decode(d, list[k].end) \in Position
    BY <1>2, <1>4, <1>6, DecodeTyped
  <2> QED
    BY <2>1, <2>2 DEF WireRange
<1>8. ASSUME command PROVE edits' = <<>> /\ DOMAIN edits' = {} /\ meant' = None
  BY <1>1, <1>8
<1>9. edits' \in Seq(WireRange) /\ Len(edits') <= Most
  <2>1. CASE command
    <3>1. <<>> \in Seq(WireRange) /\ Len(<<>>) = 0
      BY EmptySeq
    <3>2. 0 <= Most
      BY TextsOfEdits
    <3> QED
      BY <1>8, <2>1, <3>1, <3>2
  <2>2. CASE ~command
    <3>1. edits' \in [1..Len(list) -> WireRange]
      <4>1. edits' = [k \in DOMAIN edits' |-> edits'[k]]
        BY <1>1, <2>2 DEF decodeTextEdits
      <4> QED
        BY <1>5, <1>7, <2>2, <4>1
    <3>2. edits' \in Seq(WireRange)
      BY <1>5, <3>1, SeqDef
    <3>3. Len(edits') = Len(list)
      <4>1. DOMAIN edits' = 1..Len(edits') /\ Len(edits') \in Nat
        BY <3>2, LenProperties
      <4>2. DOMAIN edits' = 1..Len(list)
        BY <1>5, <1>7, <2>2
      <4>3. \A m, n \in Nat : 1..m = 1..n => m = n
        OBVIOUS
      <4> QED
        BY <1>5, <4>1, <4>2, <4>3
    <3> QED
      BY <1>3, <3>2, <3>3
  <2> QED
    BY <2>1, <2>2
<1>10. ASSUME meant' # None, NEW k \in DOMAIN edits'
       PROVE  /\ meant'[k] \in Ranges(target)
              /\ edits'[k].start = DocPosition(target, meant'[k].start)
              /\ edits'[k].end = DocPosition(target, meant'[k].end)
  <2>1. ~command /\ Faithful /\ meant' = meant /\ meant # None
    BY <1>1, <1>10
  <2>2. k \in DOMAIN list
    BY <1>7, <1>10, <2>1
  <2>3. /\ meant[k] \in Ranges(target)
        /\ meant[k].start \in Boundaries(target) /\ meant[k].end \in Boundaries(target)
        /\ list[k].start = WirePosition(target, meant[k].start)
        /\ list[k].end = WirePosition(target, meant[k].end)
    BY <1>3, <2>1, <2>2 DEF Ranges
  <2>4. /\ decode(target, list[k].start) = DocPosition(target, meant[k].start)
        /\ decode(target, list[k].end) = DocPosition(target, meant[k].end)
    BY <1>2, <1>4, <2>3, DecodeExact
  <2>5. encoding = "utf-16" \/ d = target
    BY <1>3, <2>1 DEF Faithful, d, decodedWith, Kinds
  <2>6. /\ decode(d, list[k].start) = decode(target, list[k].start)
        /\ decode(d, list[k].end) = decode(target, list[k].end)
    BY <2>5 DEF decode
  <2> QED
    BY <1>7, <2>1, <2>2, <2>3, <2>4, <2>6
<1>11. ASSUME encoding # "utf-16", target = text, NEW k \in DOMAIN edits'
       PROVE  /\ offsetAt(target, edits'[k].start) \in Boundaries(target)
              /\ offsetAt(target, edits'[k].end) \in Boundaries(target)
  <2>1. ~command /\ k \in DOMAIN list /\ d = target
    BY <1>4, <1>7, <1>8, <1>11
  <2>2. /\ offsetAt(target, decode(target, list[k].start)) \in Boundaries(target)
        /\ offsetAt(target, decode(target, list[k].end)) \in Boundaries(target)
    BY <1>2, <1>4, <1>6, <1>11, <2>1, DecodedOffset
  <2> QED
    BY <1>7, <2>1, <2>2
<1>12. DecodedInv'
  <2>1. (/\ Len(edits) <= Most /\ located = <<>> /\ result = target
         /\ meant # None => DOMAIN meant = DOMAIN edits)'
    BY <1>1, <1>2, <1>3, <1>7, <1>8, <1>9
  <2>2. (meant # None => \A k \in DOMAIN edits :
           /\ meant[k] \in Ranges(target)
           /\ edits[k].start = DocPosition(target, meant[k].start)
           /\ edits[k].end = DocPosition(target, meant[k].end))'
    BY <1>1, <1>10
  <2>3. (encoding # "utf-16" /\ target = text => \A k \in DOMAIN edits :
           {offsetAt(target, edits[k].start), offsetAt(target, edits[k].end)} \subseteq Boundaries(target))'
    BY <1>1, <1>11
  <2> QED
    BY <2>1, <2>2, <2>3 DEF DecodedInv
<1>13. TypeOK'
  <2>1. target \in Seq(Range(target))
    BY <1>4, LenProperties DEF WellFormed, Range
  <2>2. target \in Seq(Range(target) \cup Range(NewText))
    BY <2>1, SeqMonotonic
  <2> QED
    BY <1>1, <1>2, <1>9, <2>2 DEF TypeOK, Boundaries, Offsets, SplitsPair, WireRange
<1>14. AskedInv'
  BY <1>1, AskedKept
<1>15. Unsettled'
  BY <1>1 DEF Unsettled
<1> QED
  BY <1>1, <1>12, <1>13, <1>14, <1>15 DEF AnsweredInv, LocatedInv, ApplyingInv, RefusedInv, MadeInv, RestInv

\* An edit of an answer, at its place in the document.
Spot == [start : Offsets(target), end : Offsets(target), newText : Range(NewText)]

LEMMA LocateEditsInv == ASSUME DocInv, LocateEdits PROVE DocInv'
<1> USE DEF DocInv
<1>1. /\ phase = "decoded"
      /\ IF \E k \in DOMAIN edits : outOfBounds(target, edits[k].start) \/ outOfBounds(target, edits[k].end)
         THEN phase' = "refused" /\ UNCHANGED located
         ELSE phase' = "located" /\ located' = locate(target, edits)
      /\ UNCHANGED <<text, encoding, cursor, sent, answer, target, meant, edits, result>>
  BY DEF LocateEdits
<1>2. /\ encoding \in Encodings /\ target \in Documents \cup {<<>>} /\ text \in Documents \cup {<<>>}
      /\ edits \in Seq(WireRange)
  BY <1>1 DEF Unsettled, TypeOK, WireRange
<1>3. /\ Len(edits) <= Most /\ located = <<>> /\ result = target
      /\ meant # None => DOMAIN meant = DOMAIN edits
      /\ meant # None => \A k \in DOMAIN edits :
           /\ meant[k] \in Ranges(target)
           /\ edits[k].start = DocPosition(target, meant[k].start)
           /\ edits[k].end = DocPosition(target, meant[k].end)
      /\ encoding # "utf-16" /\ target = text => \A k \in DOMAIN edits :
           {offsetAt(target, edits[k].start), offsetAt(target, edits[k].end)} \subseteq Boundaries(target)
  BY <1>1 DEF DecodedInv
<1>4. AskedInv'
  BY <1>1, AskedKept
<1>5. CASE \E k \in DOMAIN edits : outOfBounds(target, edits[k].start) \/ outOfBounds(target, edits[k].end)
  <2>1. phase' = "refused" /\ UNCHANGED located
    BY <1>1, <1>5
  <2>2. TypeOK'
    BY <1>1, <2>1 DEF TypeOK
  <2>3. Unsettled'
    BY <1>1, <2>1 DEF Unsettled
  <2>4. meant = None
    <3>1. ASSUME meant # None, NEW k \in DOMAIN edits
          PROVE  ~outOfBounds(target, edits[k].start) /\ ~outOfBounds(target, edits[k].end)
      <4>1. meant[k].start \in Offsets(target) /\ meant[k].end \in Offsets(target)
        BY <1>3, <3>1 DEF Ranges, Boundaries
      <4>2. Len(target) \in Nat
        BY <1>2, TextsAreWhole
      <4> QED
        BY <1>3, <3>1, <4>1, <4>2, LegalAccepted
    <3> QED
      BY <1>5, <3>1
  <2> QED
    BY <1>1, <1>4, <2>1, <2>2, <2>3, <2>4 DEF AnsweredInv, DecodedInv, LocatedInv, ApplyingInv, RefusedInv, MadeInv, RestInv
<1>6. CASE ~\E k \in DOMAIN edits : outOfBounds(target, edits[k].start) \/ outOfBounds(target, edits[k].end)
  <2>1. phase' = "located" /\ located' = locate(target, edits)
    BY <1>1, <1>6
  <2>2. /\ Len(edits) \in Nat /\ DOMAIN edits = 1..Len(edits)
        /\ \A k \in DOMAIN edits : edits[k].start \in Position /\ edits[k].end \in Position
    <3>1. Len(edits) \in Nat /\ DOMAIN edits = 1..Len(edits) /\ \A k \in DOMAIN edits : edits[k] \in WireRange
      BY <1>2, LenProperties, ElementOfSeq
    <3> QED
      BY <3>1 DEF WireRange
  <2>3. \A k \in DOMAIN edits : k \in 1..Most /\ NewText[k] \in Range(NewText)
    <3>1. \A k \in DOMAIN edits : k \in 1..Most
      <4>1. Len(edits) <= Most /\ Len(edits) \in Nat /\ Most \in Nat
        BY <1>3, <2>2, TextsOfEdits
      <4>2. \A k \in 1..Len(edits) : k \in 1..Most
        BY ONLY <4>1
      <4> QED
        BY <2>2, <4>2
    <3>2. \A k \in 1..Most : NewText[k] \in Range(NewText)
      BY TextsOfEdits
    <3> QED
      BY <3>1, <3>2
  <2>4. /\ DOMAIN located' = DOMAIN edits
        /\ \A k \in DOMAIN edits : /\ located'[k] = [start   |-> offsetAt(target, edits[k].start),
                                                     end     |-> offsetAt(target, edits[k].end),
                                                     newText |-> NewText[k]]
                                   /\ located'[k].start = offsetAt(target, edits[k].start)
                                   /\ located'[k].end = offsetAt(target, edits[k].end)
    BY <2>1 DEF locate
  <2>5. Len(target) \in Nat
    BY <1>2, TextsAreWhole
  <2>6. \A k \in DOMAIN edits : /\ offsetAt(target, edits[k].start) \in Offsets(target)
                                /\ offsetAt(target, edits[k].end) \in Offsets(target)
    BY <1>6, <2>2, <2>5, AcceptedInText
  <2>7. located' \in Seq(Spot)
    <3>1. \A k \in DOMAIN edits : located'[k] \in Spot
      BY <2>3, <2>4, <2>6 DEF Spot
    <3>2. located' = [k \in DOMAIN edits |-> located'[k]]
      BY <2>1 DEF locate
    <3>3. located' \in [1..Len(edits) -> Spot]
      BY <2>2, <3>1, <3>2
    <3> QED
      BY <2>2, <3>3, SeqDef
  <2>8. ASSUME meant # None, NEW k \in DOMAIN edits
        PROVE  located'[k].start = meant[k].start /\ located'[k].end = meant[k].end
    <3>1. meant[k].start \in Offsets(target) /\ meant[k].end \in Offsets(target)
      BY <1>3, <2>8 DEF Ranges, Boundaries
    <3>2. /\ offsetAt(target, edits[k].start) = meant[k].start
          /\ offsetAt(target, edits[k].end) = meant[k].end
      BY <1>3, <2>5, <2>8, <3>1, OffsetExact
    <3> QED
      BY <2>4, <3>2
  <2>9. ASSUME encoding # "utf-16", target = text, NEW k \in DOMAIN edits
        PROVE  located'[k].start \in Boundaries(text) /\ located'[k].end \in Boundaries(text)
    BY <1>3, <2>4, <2>9
  <2>10. LocatedInv'
    BY <1>1, <1>3, <2>4, <2>8, <2>9 DEF LocatedInv
  <2>11. TypeOK'
    BY <1>1, <2>1, <2>7 DEF TypeOK, Spot
  <2>12. Unsettled'
    BY <1>1, <2>1 DEF Unsettled
  <2>13. RestInv'
    BY <1>1, <1>2, <1>3, <2>1 DEF RestInv
  <2> QED
    BY <1>4, <2>1, <2>10, <2>11, <2>12, <2>13 DEF AnsweredInv, DecodedInv, ApplyingInv, RefusedInv, MadeInv
<1> QED
  BY <1>5, <1>6

LEMMA OrderEditsInv == ASSUME DocInv, OrderEdits PROVE DocInv'
<1> USE DEF DocInv
<1>1. /\ phase = "located" /\ phase' \in {"refused", "applying"}
      /\ located' = inOrder(located)
      /\ phase' = "refused" <=> overlapping(inOrder(located))
      /\ UNCHANGED <<text, encoding, cursor, sent, answer, target, meant, edits, result>>
  <2>1. /\ phase = "located" /\ located' = inOrder(located)
        /\ phase' = IF overlapping(located') THEN "refused" ELSE "applying"
        /\ UNCHANGED <<text, encoding, cursor, sent, answer, target, meant, edits, result>>
    BY DEF OrderEdits
  <2>2. phase' = IF overlapping(inOrder(located)) THEN "refused" ELSE "applying"
    BY <2>1
  <2> QED
    BY <2>1, <2>2
<1>2. /\ located \in Seq(Spot) /\ result = target /\ Len(target) \in Nat
  BY <1>1, TextsAreWhole DEF TypeOK, Spot, LocatedInv
<1>3. \A k \in 1..Len(located) : /\ located[k] \in Spot
                                 /\ located[k].start \in 0..Len(target)
                                 /\ located[k].start \in Nat
  <2>1. \A k \in 1..Len(located) : located[k] \in Spot
    BY <1>2, ElementOfSeq
  <2> QED
    BY <1>2, <2>1 DEF Spot, Offsets
<1>4. /\ located' \in Seq(Spot)
      /\ DOMAIN located' = 1..Len(located)
      /\ \A i, j \in 1..Len(located) : i < j => located'[i].start <= located'[j].start
      /\ \A r \in 1..Len(located) : \E k \in 1..Len(located) : located'[r] = located[k]
  BY <1>1, <1>2, <1>3, InOrderSorts
<1>5. \A r \in DOMAIN located' : located'[r].start <= Len(result)
  <2>1. ASSUME NEW r \in 1..Len(located) PROVE located'[r].start <= Len(result)
    <3>1. PICK k \in 1..Len(located) : located'[r] = located[k]
      BY <1>4
    <3>2. located[k].start \in 0..Len(target)
      BY <1>3
    <3> QED
      BY <1>2, <3>1, <3>2
  <2> QED
    BY <1>4, <2>1
<1>6. ApplyingInv'
  BY <1>1, <1>4, <1>5 DEF ApplyingInv
<1>7. TypeOK'
  BY <1>1, <1>4 DEF TypeOK, Spot
<1>8. AskedInv'
  BY <1>1, AskedKept
<1>9. Unsettled'
  BY <1>1 DEF Unsettled
<1>10. ASSUME meant # None
       PROVE  phase' = "refused" <=> ~\A i, j \in DOMAIN meant : i < j => Clear(meant, i, j)
  <2>1. /\ DOMAIN meant = DOMAIN located
        /\ \A k \in DOMAIN located :
             /\ meant[k] \in Ranges(target)
             /\ located[k].start = meant[k].start /\ located[k].end = meant[k].end
    BY <1>1, <1>10 DEF LocatedInv
  <2>2. DOMAIN located = 1..Len(located)
    BY <1>2, LenProperties
  <2>3. \A k \in 1..Len(located) :
          located[k].start \in Nat /\ located[k].end \in Nat /\ located[k].start <= located[k].end
    BY <1>2, <2>1, <2>2 DEF Ranges, Boundaries, Offsets
  <2>4. overlapping(inOrder(located)) <=>
          \E i, j \in 1..Len(located) : i < j /\ ~Clear(located, i, j)
    BY <1>2, <2>3, OverlapIsSeen
  <2>5. \A i, j \in 1..Len(located) : Clear(located, i, j) <=> Clear(meant, i, j)
    BY <2>1, <2>2 DEF Clear
  <2> QED
    BY <1>1, <2>1, <2>2, <2>4, <2>5
<1>11. RefusedInv'
  BY <1>1, <1>10 DEF RefusedInv
<1> DEFINE n == Len(edits)
<1>12. /\ n \in 0..Most /\ Len(located) = n /\ DOMAIN located = 1..n /\ DOMAIN edits = 1..n
       /\ \A k \in 1..n : /\ located[k].start = offsetAt(target, edits[k].start)
                          /\ located[k].end = offsetAt(target, edits[k].end)
                          /\ located[k].newText = NewText[k]
  <2>1. located = locate(target, edits) /\ edits \in Seq(WireRange) /\ n <= Most
    BY <1>1 DEF RestInv
  <2>2. n \in Nat /\ DOMAIN edits = 1..n /\ Len(located) \in Nat /\ DOMAIN located = 1..Len(located)
    BY <1>2, <2>1, LenProperties
  <2>3. DOMAIN located = DOMAIN edits
    BY <2>1 DEF locate
  <2>4. \A a, b \in Nat : 1..a = 1..b => a = b
    OBVIOUS
  <2>5. \A k \in 1..n : located[k] = [start   |-> offsetAt(target, edits[k].start),
                                     end     |-> offsetAt(target, edits[k].end),
                                     newText |-> NewText[k]]
    BY <2>1, <2>2 DEF locate
  <2> HIDE DEF n
  <2>6. Len(located) = n
    BY <2>2, <2>3, <2>4
  <2> QED
    BY <2>1, <2>2, <2>5, <2>6
<1> HIDE DEF n
<1>13. Len(located') = n /\ DOMAIN located' = 1..n
  <2>1. Len(located') \in Nat /\ DOMAIN located' = 1..Len(located')
    BY <1>4, LenProperties
  <2>2. \A a, b \in Nat : 1..a = 1..b => a = b
    OBVIOUS
  <2>3. n \in Nat
    BY <1>12
  <2> QED
    BY <1>4, <1>12, <2>1, <2>2, <2>3
<1>14. MadeInv'
  <2> SUFFICES ASSUME phase' = "applying", meant # None
               PROVE  MadeInv'
    BY <1>1 DEF MadeInv
  <2>1. /\ DOMAIN meant = 1..n
        /\ \A k \in 1..n : /\ meant[k] \in Ranges(target)
                           /\ located[k].start = meant[k].start /\ located[k].end = meant[k].end
    BY <1>1, <1>12 DEF LocatedInv
  <2>2. \A k \in 1..Len(located) :
          located[k].start \in Nat /\ located[k].end \in Nat /\ located[k].start <= located[k].end
    BY <1>2, <1>12, <2>1 DEF Ranges, Boundaries, Offsets
  <2>3. PICK c \in [1..Len(located) -> 1..Len(located)] :
          /\ \A r \in 1..Len(located) : inOrder(located)[r] = located[c[r]]
          /\ \A k \in 1..Len(located) : \E r \in 1..Len(located) : c[r] = k
          /\ \A i, j \in 1..Len(located) : i < j => precedes(located, c[i], c[j])
    BY <1>2, <1>3, InOrderSorts
  <2>4. \A r, q \in 1..Len(located) : r < q => located[c[r]].end <= located[c[q]].start
    BY <1>1, <1>2, <2>2, <2>3, ApartInOrder
  <2>5. /\ c \in [1..n -> 1..n]
        /\ \A k \in 1..n : \E r \in 1..n : c[r] = k
        /\ \A r \in 1..n : c[r] \in 1..n /\ located'[r] = located[c[r]]
    BY <1>1, <1>12, <2>3
  <2>6. \A i, j \in 1..n : i < j => precedes(meant, c[i], c[j]) /\ meant[c[i]].end <= meant[c[j]].start
    <3>1. ASSUME NEW i \in 1..n, NEW j \in 1..n, i < j
          PROVE  precedes(meant, c[i], c[j]) /\ meant[c[i]].end <= meant[c[j]].start
      <4>1. i \in 1..Len(located) /\ j \in 1..Len(located) /\ c[i] \in 1..n /\ c[j] \in 1..n
        BY <1>12, <2>5
      <4>2. precedes(located, c[i], c[j]) /\ located[c[i]].end <= located[c[j]].start
        BY <2>3, <2>4, <3>1, <4>1
      <4>3. /\ located[c[i]].start = meant[c[i]].start /\ located[c[j]].start = meant[c[j]].start
            /\ located[c[i]].end = meant[c[i]].end
        BY <2>1, <4>1
      <4> QED
        BY <4>2, <4>3 DEF precedes
    <3> QED
      BY <3>1
  <2>7. ASSUME NEW r \in 1..n
        PROVE  /\ located'[r].start = meant[c[r]].start
               /\ located'[r].end = meant[c[r]].end
               /\ located'[r].newText = NewText[c[r]]
    <3>1. c[r] \in 1..n /\ located'[r] = located[c[r]]
      BY <2>5
    <3>2. /\ located[c[r]].start = meant[c[r]].start /\ located[c[r]].end = meant[c[r]].end
          /\ located[c[r]].newText = NewText[c[r]]
      BY <1>12, <2>1, <3>1
    <3> QED
      BY <3>1, <3>2
  <2>8. Simultaneous(target, meant, {c[r] : r \in (Len(located') + 1)..n}, result)
    <3>1. {c[r] : r \in (Len(located') + 1)..n} = {}
      BY <1>12, <1>13
    <3>2. target \in Seq(Unit) /\ result = target
      BY <1>2, TextsAreWhole DEF TypeOK, WellFormed
    <3> QED
      BY <3>1, <3>2, NoneMade
  <2>9. Len(located') <= n
    BY <1>12, <1>13
  <2> QED
    <3>1. \A r \in 1..Len(located') : /\ located'[r].start = meant[c[r]].start
                                     /\ located'[r].end = meant[c[r]].end
                                     /\ located'[r].newText = NewText[c[r]]
      BY <1>13, <2>7
    <3>2. /\ n \in 0..Most
          /\ phase' # "done" /\ UNCHANGED <<meant, target, result>>
          /\ \A k \in 1..n : meant[k] \in Ranges(target)
      BY <1>1, <1>12, <2>1
    <3> HIDE DEF n
    <3>3. meant' = meant /\ target' = target /\ result' = result
      BY <3>2
    <3>4. \A k \in 1..n : meant'[k] \in Ranges(target')
      BY <3>2, <3>3
    <3>5. Simultaneous(target', meant', {c[r] : r \in (Len(located') + 1)..n}, result')
      BY <2>8, <3>3
    <3>6. \A i, j \in 1..n : i < j => precedes(meant', c[i], c[j]) /\ meant'[c[i]].end <= meant'[c[j]].start
      BY <2>6, <3>3
    <3>7. \A r \in 1..Len(located') : /\ located'[r].start = meant'[c[r]].start
                                     /\ located'[r].end = meant'[c[r]].end
                                     /\ located'[r].newText = NewText[c[r]]
      BY <3>1, <3>3
    <3>8. DOMAIN meant' = 1..n
      BY <2>1, <3>3
    <3> DEFINE Is(l, b) ==
                 /\ DOMAIN meant' = 1..l
                 /\ \A k \in 1..l : meant'[k] \in Ranges(target')
                 /\ \A k \in 1..l : \E r \in 1..l : b[r] = k
                 /\ \A i, j \in 1..l : i < j =>
                      precedes(meant', b[i], b[j]) /\ meant'[b[i]].end <= meant'[b[j]].start
                 /\ Len(located') <= l
                 /\ \A r \in 1..Len(located') : /\ located'[r].start = meant'[b[r]].start
                                                /\ located'[r].end = meant'[b[r]].end
                                                /\ located'[r].newText = NewText[b[r]]
                 /\ Simultaneous(target', meant', {b[r] : r \in (Len(located') + 1)..l}, result')
    <3>9. Is(n, c)
      BY <2>5, <2>9, <3>4, <3>5, <3>6, <3>7, <3>8
    <3> HIDE DEF Is
    <3>10. \E l \in 0..Most : \E b \in [1..l -> 1..l] : Is(l, b)
      BY <2>5, <3>2, <3>9
    <3> QED
      BY <3>2, <3>10 DEF MadeInv, Is
<1>15. RestInv'
  <2> SUFFICES ASSUME phase' = "applying", n = 1
               PROVE  Len(located') = 1 /\ located'[1] = located[1]
    BY <1>1, <1>2, <1>12 DEF RestInv, n
  <2>1. 1 \in 1..Len(located) /\ \A k \in 1..Len(located) : k = 1
    BY <1>12
  <2> QED
    BY <1>4, <1>13, <2>1
<1> QED
  BY <1>1, <1>6, <1>7, <1>8, <1>9, <1>11, <1>14, <1>15 DEF AnsweredInv, DecodedInv, LocatedInv

\* An edit replaces what is between its ends; what is before its start stays.
LEMMA ReplaceTyped ==
  ASSUME NEW S, NEW s \in Seq(S), NEW edit, edit.start \in Nat, edit.end \in Nat,
         edit.start <= Len(s), edit.newText \in S
  PROVE  /\ replace(s, edit) \in Seq(S)
         /\ Len(replace(s, edit)) \in Nat
         /\ edit.start <= Len(replace(s, edit))
<1> DEFINE a == SubSeq(s, 1, edit.start)
           b == <<edit.newText>>
           c == SubSeq(s, edit.end + 1, Len(s))
<1>1. Len(s) \in Nat /\ \A i \in 1..Len(s) : s[i] \in S
  BY LenProperties, ElementOfSeq
<1>2. a \in Seq(S) /\ Len(a) = edit.start
  <2>1. 1 \in Int /\ edit.start \in Int /\ \A i \in 1..edit.start : s[i] \in S
    BY <1>1
  <2>2. /\ a \in Seq(S)
        /\ Len(a) = IF 1 <= edit.start THEN edit.start - 1 + 1 ELSE 0
    BY <2>1, SubSeqProperties
  <2> HIDE DEF a
  <2> QED
    BY <2>2
<1>3. b \in Seq(S) /\ Len(b) = 1
  OBVIOUS
<1>4. c \in Seq(S)
  <2>1. edit.end + 1 \in Int /\ Len(s) \in Int /\ \A i \in (edit.end + 1)..Len(s) : s[i] \in S
    BY <1>1
  <2> QED
    BY <2>1, SubSeqProperties
<1>5. replace(s, edit) = (a \o b) \o c
  BY DEF replace
<1> HIDE DEF a, b, c
<1>6. a \o b \in Seq(S) /\ Len(a \o b) = edit.start + 1
  <2>1. a \o b \in Seq(S) /\ Len(a \o b) = Len(a) + Len(b)
    BY <1>2, <1>3, ConcatProperties
  <2> QED
    BY <1>2, <1>3, <2>1
<1>7. (a \o b) \o c \in Seq(S) /\ Len((a \o b) \o c) = edit.start + 1 + Len(c)
  <2>1. (a \o b) \o c \in Seq(S) /\ Len((a \o b) \o c) = Len(a \o b) + Len(c)
    BY <1>4, <1>6, ConcatProperties
  <2> QED
    BY <1>6, <2>1
<1>8. Len(c) \in Nat
  BY <1>4, LenProperties
<1> QED
  BY <1>5, <1>7, <1>8

LEMMA ApplyLastInv == ASSUME DocInv, ApplyLast PROVE DocInv'
<1> USE DEF DocInv
<1> DEFINE last == located[Len(located)]
           left == SubSeq(located, 1, Len(located) - 1)
           S == Range(target) \cup Range(NewText)
<1>1. /\ phase = "applying" /\ phase' = "applying"
      /\ located # <<>>
      /\ result' = replace(result, last)
      /\ located' = left
      /\ UNCHANGED <<text, encoding, cursor, sent, answer, target, meant, edits>>
  BY DEF ApplyLast, Last, Front
<1>2. /\ located \in Seq(Spot) /\ result \in Seq(S)
      /\ \A i, j \in DOMAIN located : i < j => located[i].start <= located[j].start
      /\ \A k \in DOMAIN located : located[k].start <= Len(result)
  BY <1>1 DEF TypeOK, Spot, ApplyingInv
<1>3. /\ Len(located) \in Nat \ {0} /\ DOMAIN located = 1..Len(located)
      /\ \A k \in 1..Len(located) : located[k] \in Spot
  BY <1>1, <1>2, EmptySeq, LenProperties, ElementOfSeq
<1>4. Len(target) \in Nat
  BY TextsAreWhole DEF TypeOK
<1>5. \A k \in 1..Len(located) : /\ located[k].start \in Nat /\ located[k].end \in Nat
                                 /\ located[k].newText \in Range(NewText)
  BY <1>3, <1>4 DEF Spot, Offsets
<1>6. Len(located) \in 1..Len(located)
  BY <1>3
<1>7. /\ result' \in Seq(S) /\ Len(result') \in Nat /\ last.start <= Len(result')
  <2>1. last.start \in Nat /\ last.end \in Nat /\ last.start <= Len(result) /\ last.newText \in S
    BY <1>2, <1>3, <1>5, <1>6
  <2> HIDE DEF last, S
  <2> QED
    BY <1>1, <1>2, <2>1, ReplaceTyped
<1>8. /\ left \in Seq(Spot) /\ DOMAIN left = 1..(Len(located) - 1)
      /\ \A i \in 1..(Len(located) - 1) : left[i] = located[i]
  <2> DEFINE n == Len(located) - 1
  <2>1. n \in Nat /\ 1 \in Int /\ n \in Int /\ 1..n \subseteq 1..Len(located)
    BY <1>3
  <2>2. \A i \in 1..n : located[i] \in Spot
    BY <1>3, <2>1
  <2> HIDE DEF n
  <2>3. /\ SubSeq(located, 1, n) \in Seq(Spot)
        /\ Len(SubSeq(located, 1, n)) = IF 1 <= n THEN n - 1 + 1 ELSE 0
        /\ \A i \in 1..(n - 1 + 1) : SubSeq(located, 1, n)[i] = located[1 + i - 1]
    BY <2>1, <2>2, SubSeqProperties
  <2>4. Len(SubSeq(located, 1, n)) = n /\ n - 1 + 1 = n /\ \A i \in 1..n : 1 + i - 1 = i
    BY <2>1, <2>3
  <2>5. DOMAIN SubSeq(located, 1, n) = 1..n
    BY <2>3, <2>4, LenProperties
  <2>6. \A i \in 1..n : SubSeq(located, 1, n)[i] = located[i]
    BY <2>3, <2>4
  <2> QED
    BY <2>3, <2>5, <2>6 DEF n
<1> HIDE DEF last, left, S
<1>9. \A i \in 1..(Len(located) - 1) : i \in 1..Len(located) /\ i < Len(located)
  BY <1>3
<1>10. \A i, j \in DOMAIN left : i < j => left[i].start <= left[j].start
  BY <1>2, <1>3, <1>8, <1>9
<1>11. \A k \in DOMAIN left : left[k].start <= Len(result')
  <2>1. ASSUME NEW k \in DOMAIN left PROVE left[k].start <= Len(result')
    <3>1. left[k] = located[k] /\ k \in DOMAIN located /\ k < Len(located) /\ located[k].start \in Nat
      BY <1>3, <1>5, <1>8, <1>9
    <3>2. located[k].start <= last.start /\ last.start \in Nat
      BY <1>2, <1>3, <1>5, <1>6, <3>1 DEF last
    <3> QED
      BY <1>7, <3>1, <3>2
  <2> QED
    BY <2>1
<1>12. ApplyingInv'
  BY <1>1, <1>10, <1>11 DEF ApplyingInv
<1>13. TypeOK'
  BY <1>1, <1>7, <1>8 DEF TypeOK, Spot, S
<1>14. AskedInv'
  BY <1>1, AskedKept
<1>15. Unsettled'
  BY <1>1 DEF Unsettled
<1>16. ASSUME meant # None PROVE MadeInv'
  <2> DEFINE m == Len(located)
             Is(n, c) ==
               /\ DOMAIN meant = 1..n
               /\ \A k \in 1..n : meant[k] \in Ranges(target)
               /\ \A k \in 1..n : \E r \in 1..n : c[r] = k
               /\ \A i, j \in 1..n : i < j =>
                    precedes(meant, c[i], c[j]) /\ meant[c[i]].end <= meant[c[j]].start
               /\ m <= n
               /\ \A r \in 1..m : /\ located[r].start = meant[c[r]].start
                                  /\ located[r].end = meant[c[r]].end
                                  /\ located[r].newText = NewText[c[r]]
               /\ Simultaneous(target, meant, {c[r] : r \in (m + 1)..n}, result)
  <2>1. \E n \in 0..Most : \E c \in [1..n -> 1..n] : Is(n, c)
    BY <1>1, <1>16 DEF MadeInv
  <2>2. PICK n \in 0..Most : \E c \in [1..n -> 1..n] : Is(n, c)
    BY <2>1
  <2>3. PICK c \in [1..n -> 1..n] : Is(n, c)
    BY <2>2
  <2>4. /\ DOMAIN meant = 1..n
        /\ \A k \in 1..n : meant[k] \in Ranges(target)
        /\ \A k \in 1..n : \E r \in 1..n : c[r] = k
        /\ \A i, j \in 1..n : i < j =>
             precedes(meant, c[i], c[j]) /\ meant[c[i]].end <= meant[c[j]].start
        /\ m <= n
        /\ \A r \in 1..m : /\ located[r].start = meant[c[r]].start
                           /\ located[r].end = meant[c[r]].end
                           /\ located[r].newText = NewText[c[r]]
        /\ Simultaneous(target, meant, {c[r] : r \in (m + 1)..n}, result)
    BY <2>3
  <2> DEFINE e == c[m]
             made == {c[r] : r \in (m + 1)..n}
  <2>5. m \in Nat \ {0} /\ n \in Nat /\ m \in 1..n /\ m \in 1..m /\ e \in 1..n
    BY <1>3, <2>4
  <2>6. last.start = meant[e].start /\ last.end = meant[e].end /\ last.newText = NewText[e]
    BY <2>4, <2>5 DEF last
  <2> HIDE DEF Is, m
  <2>7. \A k \in 1..n : /\ meant[k].start \in 0..Len(target) /\ meant[k].end \in 0..Len(target)
                       /\ meant[k].start <= meant[k].end /\ meant[k].start \in Nat
    <3>1. \A k \in 1..n : meant[k] \in Ranges(target)
      BY <2>4
    <3>2. \A x \in Ranges(target) : /\ x.start \in 0..Len(target) /\ x.end \in 0..Len(target)
                                    /\ x.start <= x.end /\ x.start \in Nat
      BY <1>4 DEF Ranges, Boundaries, Offsets
    <3> QED
      BY ONLY <3>1, <3>2
  <2>8. made \in SUBSET (1..n)
    BY <2>5
  <2>9. ASSUME NEW k \in made PROVE meant[e].end <= meant[k].start /\ precedes(meant, e, k)
    <3>1. PICK r \in (m + 1)..n : k = c[r]
      OBVIOUS
    <3>2. r \in 1..n /\ m < r
      BY <2>5
    <3> QED
      BY <2>4, <2>5, <3>1, <3>2
  <2>10. e \notin made
    <3>1. ~precedes(meant, e, e)
      BY <2>5, <2>7 DEF precedes
    <3> QED
      BY <2>9, <3>1
  <2>11. {c[r] : r \in m..n} = made \cup {e}
    BY <2>5
  <2>12. Simultaneous(target, meant, made \cup {e}, result')
    <3>1. target \in Seq(Unit)
      BY TextsAreWhole DEF TypeOK, WellFormed
    <3>2. NewText[e] \in S
      <4>1. last.newText \in Range(NewText)
        BY <1>5, <1>6 DEF last
      <4> QED
        BY <2>6, <4>1 DEF S
    <3>3. e \in (1..n) \ made
      BY <2>5, <2>10
    <3>4. Simultaneous(target, meant, made, result)
      BY <2>4
    <3> HIDE DEF e, made
    <3> QED
      BY <1>1, <1>2, <2>5, <2>6, <2>7, <2>8, <2>9, <3>1, <3>2, <3>3, <3>4, OneMoreMade
  <2> DEFINE z == Len(located')
  <2>13. z = m - 1 /\ z + 1 = m /\ z <= n
    <3>1. z \in Nat /\ DOMAIN left = 1..z
      BY <1>1, <1>8, LenProperties
    <3>2. m - 1 \in Nat /\ DOMAIN left = 1..(m - 1)
      BY <1>8, <2>5 DEF m
    <3>3. \A a, b \in Nat : 1..a = 1..b => a = b
      OBVIOUS
    <3> HIDE DEF z
    <3>4. z = m - 1
      BY <3>1, <3>2, <3>3
    <3> QED
      BY <2>4, <2>5, <3>4
  <2> HIDE DEF z
  <2>14. ASSUME NEW r \in 1..z PROVE located'[r] = located[r] /\ r \in 1..m
    <3>1. r \in 1..(m - 1) /\ r \in 1..m
      BY <2>5, <2>13
    <3> QED
      BY <1>1, <1>8, <3>1 DEF m
  <2>15. \A r \in 1..z : /\ located'[r].start = meant[c[r]].start
                        /\ located'[r].end = meant[c[r]].end
                        /\ located'[r].newText = NewText[c[r]]
    BY <2>4, <2>14
  <2>16. Simultaneous(target, meant, {c[r] : r \in (z + 1)..n}, result')
    BY <2>11, <2>12, <2>13
  <2> QED
    BY <1>1, <2>4, <2>13, <2>15, <2>16 DEF MadeInv, z
<1>17. RestInv'
  <2> SUFFICES ASSUME Len(edits) = 1 PROVE located' = <<>> /\ RestStays'
    BY <1>1 DEF RestInv
  <2> DEFINE p == offsetAt(target, edits[1].start)
             q == offsetAt(target, edits[1].end)
             ends == {p, q}
             n == Len(target)
  <2>1. /\ Len(located) = 1 /\ result = target
        /\ located[1].start = p /\ located[1].end = q
    BY <1>1 DEF RestInv
  <2>2. last = located[1] /\ last \in Spot
    BY <1>3, <2>1 DEF last
  <2>3. p \in 0..n /\ q \in 0..n /\ last.newText \in S /\ target \in Seq(S) /\ n \in Nat
    BY <1>2, <1>4, <2>1, <2>2 DEF Spot, Offsets, S
  <2>4. last.start = p /\ last.end = q
    BY <2>1, <2>2
  <2> HIDE DEF p, q, n
  <2>5. /\ Len(result') = p + 1 + (n - q)
        /\ \A i \in 1..p : result'[i] = target[i]
        /\ \A i \in (q + 1)..n : result'[p + 1 + (i - q)] = target[i]
    <3>1. /\ last.start \in 0..Len(target) /\ last.end \in 0..Len(target)
      BY <2>3, <2>4 DEF n
    <3>2. /\ Len(replace(target, last)) = last.start + 1 + (Len(target) - last.end)
          /\ \A i \in 1..last.start : replace(target, last)[i] = target[i]
          /\ \A i \in (last.end + 1)..Len(target) :
               replace(target, last)[last.start + 1 + (i - last.end)] = target[i]
      BY ONLY <2>3, <3>1, ReplaceExact
    <3> QED
      BY <1>1, <2>1, <2>4, <3>2 DEF n
  <2>6. Min(ends) \in Nat /\ Min(ends) <= p
    <3>1. ends \subseteq Nat /\ ends # {} /\ p \in ends
      BY <2>3
    <3> HIDE DEF ends
    <3> QED
      BY <3>1, MinIsLeast
  <2>7. Max(ends) \in 0..n /\ q <= Max(ends)
    <3>1. ends \subseteq 0..n /\ ends # {} /\ q \in ends
      BY <2>3
    <3> HIDE DEF ends
    <3> QED
      BY <2>3, <3>1, MaxIsGreatest
  <2> HIDE DEF ends
  <2>8. \A i \in 1..Min(ends) : result'[i] = target[i]
    <3>1. \A i \in 1..Min(ends) : i \in 1..p
      BY <2>3, <2>6
    <3> QED
      BY <2>5, <3>1
  <2>9. ASSUME NEW i \in 0..(n - Max(ends) - 1) PROVE result'[Len(result') - i] = target[n - i]
    <3>1. n - i \in (q + 1)..n /\ p + 1 + ((n - i) - q) = (p + 1 + (n - q)) - i
      BY <2>3, <2>7
    <3> QED
      BY <2>5, <3>1
  <2>10. located' = <<>>
    <3>1. 1 \in Int /\ 0 \in Int /\ 0 < 1 /\ Len(located) - 1 = 0
      BY <2>1
    <3>2. SubSeq(located, 1, 0) = <<>>
      BY <3>1, SubSeqEmpty
    <3> QED
      BY <1>1, <3>1, <3>2 DEF left
  <2>11. RestStays'
    BY <1>1, <2>8, <2>9 DEF RestStays, ends, p, q, n
  <2> QED
    BY <2>10, <2>11
<1> QED
  BY <1>1, <1>12, <1>13, <1>14, <1>15, <1>16, <1>17 DEF AnsweredInv, DecodedInv, LocatedInv, RefusedInv, MadeInv

LEMMA StutterInv == ASSUME DocInv, UNCHANGED vars PROVE DocInv'
<1> USE DEF DocInv, vars
<1>1. TypeOK'
  BY DEF TypeOK
<1>2. AskedInv'
  BY AskedKept
<1>3. AnsweredInv'
  <2>1. \A k : /\ WirePosition(target, meant[k].start)' = WirePosition(target, meant[k].start)
              /\ WirePosition(target, meant[k].end)' = WirePosition(target, meant[k].end)
    BY DEF WirePosition, Measure, Parts, Width, LineStart, Newlines
  <2>2. /\ collectWorkspaceEdits(answer)' = collectWorkspaceEdits(answer)
        /\ Ranges(target)' = Ranges(target)
    OBVIOUS
  <2> QED
    BY <2>1, <2>2 DEF AnsweredInv
<1>4. Unsettled' /\ DecodedInv' /\ LocatedInv' /\ ApplyingInv' /\ RefusedInv'
  BY DEF Unsettled, DecodedInv, LocatedInv, ApplyingInv, RefusedInv
<1>5. MadeInv'
  BY DEF MadeInv
<1>6. RestInv'
  BY DEF RestInv, RestStays
<1> QED
  BY <1>1, <1>2, <1>3, <1>4, <1>5, <1>6

(* The bytes of a stream *)

Bytes == [is : {"crlf", "length", "json", "junk", "line"}, n : Nat]
Contents == Messages \cup Faults

\* A header says a length, and ends.
LEMMA HeaderShape ==
  ASSUME NEW L \in Nat
  PROVE  /\ Header(L) \in Seq(Bytes) /\ Len(Header(L)) = 3
         /\ Header(L)[1] = Byte("length", L)
         /\ Header(L)[2] = Byte("crlf", 0) /\ Header(L)[3] = Byte("crlf", 0)
<1> DEFINE a == <<Byte("length", L)>>
<1>1. a \in Seq(Bytes) /\ Len(a) = 1 /\ a[1] = Byte("length", L)
  BY DEF Byte, Bytes
<1>2. /\ Terminator \in Seq(Bytes) /\ Len(Terminator) = 2
      /\ Terminator[1] = Byte("crlf", 0) /\ Terminator[2] = Byte("crlf", 0)
  BY DEF Terminator, Byte, Bytes
<1> HIDE DEF a
<1>3. /\ a \o Terminator \in Seq(Bytes)
      /\ Len(a \o Terminator) = Len(a) + Len(Terminator)
      /\ \A i \in 1..(Len(a) + Len(Terminator)) :
           (a \o Terminator)[i] = IF i <= Len(a) THEN a[i] ELSE Terminator[i - Len(a)]
  BY <1>1, <1>2, ConcatProperties
<1>4. Header(L) = a \o Terminator
  BY DEF Header, a
<1> QED
  BY <1>1, <1>2, <1>3, <1>4

\* What follows a header comes after it.
LEMMA AfterHeader ==
  ASSUME NEW h \in Seq(Bytes), Len(h) = 3, NEW body \in Seq(Bytes)
  PROVE  /\ h \o body \in Seq(Bytes) /\ Len(h \o body) = 3 + Len(body)
         /\ (h \o body)[1] = h[1] /\ (h \o body)[2] = h[2] /\ (h \o body)[3] = h[3]
         /\ Len(body) > 0 => (h \o body)[4] = body[1]
<1>1. /\ h \o body \in Seq(Bytes) /\ Len(h \o body) = Len(h) + Len(body)
      /\ \A i \in 1..(Len(h) + Len(body)) :
           (h \o body)[i] = IF i <= Len(h) THEN h[i] ELSE body[i - Len(h)]
  BY ConcatProperties
<1>2. Len(body) \in Nat
  BY LenProperties
<1>3. Len(body) > 0 => (h \o body)[4] = body[4 - 3]
  BY <1>1, <1>2
<1> QED
  BY <1>1, <1>2, <1>3

\* The body of a message is known by its number.
LEMMA BodyShape ==
  ASSUME NEW i \in Nat, NEW message
  PROVE  /\ Body(i, message) \in Seq(Bytes) /\ Len(Body(i, message)) \in 2..3
         /\ Body(i, message)[1] = Byte("json", i)
<1> DEFINE a == <<Byte("json", i)>>
           b == <<Byte("json", i), Byte("json", i)>>
<1>1. a \in Seq(Bytes) /\ Len(a) = 1 /\ a[1] = Byte("json", i)
  BY DEF Byte, Bytes
<1>2. Terminator \in Seq(Bytes) /\ Len(Terminator) = 2
  BY DEF Terminator, Byte, Bytes
<1>3. b \in Seq(Bytes) /\ Len(b) = 2 /\ b[1] = Byte("json", i)
  BY DEF Byte, Bytes
<1>4. Body(i, message) = a \o Terminator \/ Body(i, message) = b
  BY DEF Body
<1> HIDE DEF a, b
<1>5. /\ a \o Terminator \in Seq(Bytes)
      /\ Len(a \o Terminator) = Len(a) + Len(Terminator)
      /\ \A j \in 1..(Len(a) + Len(Terminator)) :
           (a \o Terminator)[j] = IF j <= Len(a) THEN a[j] ELSE Terminator[j - Len(a)]
  BY <1>1, <1>2, ConcatProperties
<1>6. Len(a \o Terminator) = 3 /\ (a \o Terminator)[1] = Byte("json", i)
  BY <1>1, <1>2, <1>5
<1>7. Body(i, message) = a \o Terminator => Body(i, message) \in Seq(Bytes) /\ Len(Body(i, message)) \in 2..3
  BY <1>5, <1>6
<1>8. Body(i, message) = b => Body(i, message) \in Seq(Bytes) /\ Len(Body(i, message)) \in 2..3
  BY <1>3
<1> QED
  BY <1>3, <1>4, <1>6, <1>7, <1>8

\* The length that the header of a frame says, when it says one.
Said(i, what) ==
  IF what \in Messages THEN Len(Body(i, what))
  ELSE IF what = "junk" THEN 1 ELSE MaxMessage + 1

\* The frames of a message, of junk and of too long a body begin with a header.
LEMMA HeadedFrame ==
  ASSUME NEW i \in Nat, NEW what \in Messages \cup {"junk", "oversize"}
  PROVE  /\ Frame(i, what) \in Seq(Bytes)
         /\ Said(i, what) \in Nat \ {0}
         /\ Frame(i, what)[1] = Byte("length", Said(i, what))
         /\ Frame(i, what)[2] = Byte("crlf", 0) /\ Frame(i, what)[3] = Byte("crlf", 0)
         /\ what \in Messages =>
              Said(i, what) \in 2..3 /\ Len(Frame(i, what)) = 3 + Said(i, what)
         /\ what \notin Messages => Len(Frame(i, what)) = 4
         /\ Frame(i, what)[4] = Byte(IF what = "junk" THEN "junk" ELSE "json", i)
<1>0. FramingAssumption
  BY FramingAssumption
<1>1. CASE what \in Messages
  <2> DEFINE body == Body(i, what)
             L == Len(body)
  <2>0. body \in Seq(Bytes) /\ L \in 2..3 /\ body[1] = Byte("json", i)
    BY BodyShape
  <2>2. Said(i, what) = L /\ Frame(i, what) = Header(L) \o body
    <3>1. Said(i, what) = L
      BY <1>1 DEF Said
    <3>2. Frame(i, what) = encodeMessage(i, what)
      BY <1>1 DEF Frame, Messages
    <3> QED
      BY <3>1, <3>2 DEF encodeMessage
  <2>3. what # "junk"
    BY <1>1 DEF Messages
  <2>6. Len(body) = L
    OBVIOUS
  <2> HIDE DEF body, L
  <2>1. body \in Seq(Bytes) /\ L \in 2..3 /\ L \in Nat /\ L \in Nat \ {0} /\ L > 0
        /\ body[1] = Byte("json", i)
    BY <2>0
  <2>4. /\ Header(L) \in Seq(Bytes) /\ Len(Header(L)) = 3
        /\ Header(L)[1] = Byte("length", L)
        /\ Header(L)[2] = Byte("crlf", 0) /\ Header(L)[3] = Byte("crlf", 0)
    BY <2>1, HeaderShape
  <2>5. /\ Header(L) \o body \in Seq(Bytes) /\ Len(Header(L) \o body) = 3 + Len(body)
        /\ (Header(L) \o body)[1] = Header(L)[1] /\ (Header(L) \o body)[2] = Header(L)[2]
        /\ (Header(L) \o body)[3] = Header(L)[3]
        /\ Len(body) > 0 => (Header(L) \o body)[4] = body[1]
    BY <2>1, <2>4, AfterHeader
  <2> QED
    BY <1>1, <2>1, <2>2, <2>3, <2>4, <2>5, <2>6
<1>2. CASE what \notin Messages
  <2> DEFINE L == Said(i, what)
             last == Byte(IF what = "junk" THEN "junk" ELSE "json", i)
             body == <<last>>
  <2>1. what \in {"junk", "oversize"}
    BY <1>2
  <2>2. L \in Nat \ {0} /\ Frame(i, what) = Header(L) \o body
    <3>1. CASE what = "junk"
      <4>1. L = 1
        BY <1>2, <3>1 DEF Said
      <4>2. Frame(i, what) = Header(1) \o <<Byte("junk", i)>>
        BY <3>1 DEF Frame, Messages
      <4> QED
        BY <3>1, <4>1, <4>2
    <3>2. CASE what = "oversize"
      <4>1. L = MaxMessage + 1
        BY <1>2, <3>2 DEF Said
      <4>2. Frame(i, what) = Header(MaxMessage + 1) \o <<Byte("json", i)>>
        BY <3>2 DEF Frame, Messages
      <4>3. MaxMessage + 1 \in Nat \ {0}
        BY <1>0 DEF FramingAssumption
      <4> QED
        BY <3>2, <4>1, <4>2, <4>3
    <3> QED
      BY <2>1, <3>1, <3>2
  <2>7. last \in Bytes
    BY <2>1 DEF Byte, Bytes
  <2> HIDE DEF last
  <2>3. body \in Seq(Bytes) /\ Len(body) = 1 /\ body[1] = last
    BY <2>7
  <2> HIDE DEF body, L
  <2>4. /\ Header(L) \in Seq(Bytes) /\ Len(Header(L)) = 3
        /\ Header(L)[1] = Byte("length", L)
        /\ Header(L)[2] = Byte("crlf", 0) /\ Header(L)[3] = Byte("crlf", 0)
    BY <2>2, HeaderShape
  <2>5. /\ Header(L) \o body \in Seq(Bytes) /\ Len(Header(L) \o body) = 3 + Len(body)
        /\ (Header(L) \o body)[1] = Header(L)[1] /\ (Header(L) \o body)[2] = Header(L)[2]
        /\ (Header(L) \o body)[3] = Header(L)[3]
        /\ Len(body) > 0 => (Header(L) \o body)[4] = body[1]
    BY <2>3, <2>4, AfterHeader
  <2> QED
    BY <1>2, <2>2, <2>3, <2>4, <2>5 DEF L, last
<1> QED
  BY <1>1, <1>2

\* A frame without length has a line where the others say one; an endless one
\* has nothing but lines.
LEMMA HeadlessFrame ==
  ASSUME NEW i \in Nat
  PROVE  /\ Frame(i, "unsized") \in Seq(Bytes) /\ Len(Frame(i, "unsized")) = 3
         /\ Frame(i, "unsized")[1] = Byte("line", i)
         /\ Frame(i, "unsized")[2] = Byte("crlf", 0)
         /\ Frame(i, "unsized")[3] = Byte("crlf", 0)
         /\ Frame(i, "endless") \in Seq(Bytes) /\ Len(Frame(i, "endless")) = MaxHeader + 1
         /\ \A k \in 1..(MaxHeader + 1) : Frame(i, "endless")[k] = Byte("line", i)
<1>1. MaxHeader + 1 \in Nat
  BY FramingAssumption
<1>2. Frame(i, "endless") = [k \in 1..(MaxHeader + 1) |-> Byte("line", i)]
  BY DEF Frame, Messages
<1>3. Frame(i, "endless") \in Seq(Bytes) /\ Len(Frame(i, "endless")) = MaxHeader + 1
  <2>1. Byte("line", i) \in Bytes
    BY DEF Byte, Bytes
  <2> DEFINE m == MaxHeader + 1
             f == Frame(i, "endless")
  <2>2. f \in [1..m -> Bytes] /\ m \in Nat
    BY <1>1, <1>2, <2>1
  <2> HIDE DEF m, f
  <2>3. f \in Seq(Bytes)
    BY <2>2, SeqDef
  <2>4. DOMAIN f = 1..Len(f) /\ Len(f) \in Nat /\ DOMAIN f = 1..m
    BY <2>2, <2>3, LenProperties
  <2>5. \A a, b \in Nat : 1..a = 1..b => a = b
    OBVIOUS
  <2>6. Len(f) = m
    BY <2>2, <2>4, <2>5
  <2> QED
    BY <2>3, <2>6 DEF m, f
<1> DEFINE a == <<Byte("line", i)>>
<1>4. a \in Seq(Bytes) /\ Len(a) = 1 /\ a[1] = Byte("line", i)
  BY DEF Byte, Bytes
<1>5. /\ Terminator \in Seq(Bytes) /\ Len(Terminator) = 2
      /\ Terminator[1] = Byte("crlf", 0) /\ Terminator[2] = Byte("crlf", 0)
  BY DEF Terminator, Byte, Bytes
<1>6. Frame(i, "unsized") = a \o Terminator
  BY DEF Frame, Messages
<1> HIDE DEF a
<1>7. /\ a \o Terminator \in Seq(Bytes)
      /\ Len(a \o Terminator) = Len(a) + Len(Terminator)
      /\ \A j \in 1..(Len(a) + Len(Terminator)) :
           (a \o Terminator)[j] = IF j <= Len(a) THEN a[j] ELSE Terminator[j - Len(a)]
  BY <1>4, <1>5, ConcatProperties
<1>8. Len(a \o Terminator) = 3 /\ \A j \in 1..3 : (a \o Terminator)[j] = IF j <= 1 THEN a[j] ELSE Terminator[j - 1]
  BY <1>4, <1>5, <1>7
<1>9. /\ (a \o Terminator)[1] = a[1] /\ (a \o Terminator)[2] = Terminator[1]
      /\ (a \o Terminator)[3] = Terminator[2]
  BY <1>8
<1> QED
  BY <1>2, <1>3, <1>4, <1>5, <1>6, <1>7, <1>8, <1>9

\* No frame is empty, and each has an end.
LEMMA FramesBounded ==
  ASSUME NEW i \in Nat, NEW what \in Contents
  PROVE  Frame(i, what) \in Seq(Bytes) /\ Len(Frame(i, what)) \in 1..(MaxHeader + 6)
<1>1. MaxHeader \in Nat
  BY FramingAssumption
<1>2. CASE what \in Messages \cup {"junk", "oversize"}
  <2>1. /\ Frame(i, what) \in Seq(Bytes)
        /\ \/ Said(i, what) \in 2..3 /\ Len(Frame(i, what)) = 3 + Said(i, what)
           \/ Len(Frame(i, what)) = 4
    BY <1>2, HeadedFrame
  <2>2. 4 \in 1..(MaxHeader + 6) /\ \A l \in 2..3 : 3 + l \in 1..(MaxHeader + 6)
    BY <1>1
  <2> QED
    BY <2>1, <2>2
<1>3. CASE what \in {"unsized", "endless"}
  <2>1. /\ Frame(i, what) \in Seq(Bytes)
        /\ Len(Frame(i, what)) = 3 \/ Len(Frame(i, what)) = MaxHeader + 1
    BY <1>3, HeadlessFrame
  <2>2. 3 \in 1..(MaxHeader + 6) /\ MaxHeader + 1 \in 1..(MaxHeader + 6)
    BY <1>1
  <2> QED
    BY <2>1, <2>2
<1> QED
  BY <1>2, <1>3 DEF Contents, Faults

\* Frames end one after the other, each as far on as it is long.
LEMMA FrameEnds ==
  ASSUME NEW s \in Seq(Contents)
  PROVE  /\ FrameEnd(s, 0) = 0
         /\ \A i \in 0..Len(s) : FrameEnd(s, i) \in Nat
         /\ \A i \in 1..Len(s) : FrameEnd(s, i) = FrameEnd(s, i - 1) + Len(FrameAt(s, i))
         /\ \A i, j \in 0..Len(s) : i < j => FrameEnd(s, i) < FrameEnd(s, j)
<1> DEFINE n == Len(s)
           B(i) == BytesTo(s, i)
           m == MaxHeader + 6
<1>1. n \in Nat /\ m \in Nat /\ \A i \in 1..n : s[i] \in Contents
  BY LenProperties, ElementOfSeq, FramingAssumption
<1> HIDE DEF n, m
<1>2. \A k \in 1..n : Len(FrameAt(s, k)) \in 1..m /\ Len(FrameAt(s, k)) \in Nat
  <2>1. ASSUME NEW k \in 1..n PROVE Len(FrameAt(s, k)) \in 1..m
    BY <1>1, FramesBounded DEF FrameAt, m
  <2>2. \A l \in 1..m : l \in Nat
    BY <1>1
  <2> QED
    BY <2>1, <2>2
<1>3. \A i, x : x \in B(i) <=> \E k \in 1..i : x \in {k} \X (1..Len(FrameAt(s, k)))
  BY DEF BytesTo
<1> HIDE DEF B
<1>4. ASSUME NEW i \in 0..n PROVE IsFiniteSet(B(i)) /\ Cardinality(B(i)) \in Nat
  <2>1. IsFiniteSet(1..n) /\ IsFiniteSet(1..m)
    <3>1. 1 \in Int /\ n \in Int /\ m \in Int
      BY <1>1
    <3> QED
      BY <3>1, FS_Interval
  <2>2. IsFiniteSet((1..n) \X (1..m))
    BY <2>1, FS_Product
  <2>3. B(i) \in SUBSET ((1..n) \X (1..m))
    <3>1. ASSUME NEW x \in B(i) PROVE x \in (1..n) \X (1..m)
      <4>1. PICK k \in 1..i : x \in {k} \X (1..Len(FrameAt(s, k)))
        BY <1>3
      <4>2. k \in 1..n
        BY <1>1
      <4>3. 1..Len(FrameAt(s, k)) \subseteq 1..m
        BY <1>1, <1>2, <4>2
      <4> QED
        BY <4>1, <4>2, <4>3
    <3> QED
      BY <3>1
  <2> QED
    BY <2>2, <2>3, FS_Subset, FS_CardinalityType
<1>5. B(0) = {}
  BY <1>3
<1>6. Cardinality({}) = 0
  BY FS_EmptySet
<1>7. ASSUME NEW i \in 1..n
      PROVE  Cardinality(B(i)) = Cardinality(B(i - 1)) + Len(FrameAt(s, i))
  <2> DEFINE l == Len(FrameAt(s, i))
             T == {i} \X (1..l)
  <2>1. i - 1 \in 0..n /\ i \in Nat /\ l \in Nat /\ 1..i = (1..(i - 1)) \cup {i} /\ i \notin 1..(i - 1)
    BY <1>1, <1>2
  <2>2. B(i) = B(i - 1) \cup T
    BY <1>3, <2>1
  <2>3. B(i - 1) \cap T = {}
    BY <1>3, <2>1
  <2> HIDE DEF l
  <2>4. IsFiniteSet(T) /\ Cardinality(T) = l
    <3>1. 1 \in Int /\ l \in Int
      BY <2>1
    <3>2. IsFiniteSet(1..l) /\ Cardinality(1..l) = IF 1 > l THEN 0 ELSE l - 1 + 1
      BY <3>1, FS_Interval
    <3>3. IsFiniteSet({i}) /\ Cardinality({i}) = 1
      BY FS_Singleton
    <3>4. IsFiniteSet(T) /\ Cardinality(T) = Cardinality({i}) * Cardinality(1..l)
      BY <3>2, <3>3, FS_Product
    <3>5. Cardinality(1..l) = l
      BY <2>1, <3>2
    <3> HIDE DEF T
    <3>6. Cardinality(T) = 1 * l
      BY <3>3, <3>4, <3>5
    <3> QED
      BY <2>1, <3>4, <3>6
  <2>5. IsFiniteSet(B(i - 1)) /\ Cardinality(B(i - 1)) \in Nat
    BY <1>4, <2>1
  <2> HIDE DEF T
  <2>6. Cardinality(B(i - 1) \cup T) = Cardinality(B(i - 1)) + Cardinality(T) - Cardinality(B(i - 1) \cap T)
    BY <2>4, <2>5, FS_Union
  <2>7. Cardinality(B(i)) = Cardinality(B(i - 1)) + l - 0
    BY <1>6, <2>2, <2>3, <2>4, <2>6
  <2>8. Cardinality(B(i)) = Cardinality(B(i - 1)) + l
    BY ONLY <2>1, <2>5, <2>7
  <2> QED
    BY <2>8 DEF l
<1>8. ASSUME NEW i \in 0..n, NEW j \in 0..n, i < j
      PROVE  Cardinality(B(i)) < Cardinality(B(j))
  <2>1. 1..i \subseteq 1..j /\ j \in 1..j /\ j \in 1..n /\ j \notin 1..i
    BY <1>1, <1>8
  <2>2. B(i) \in SUBSET B(j)
    BY <1>3, <2>1
  <2>3. <<j, 1>> \in B(j) /\ <<j, 1>> \notin B(i)
    <3>1. 1 \in 1..Len(FrameAt(s, j))
      BY <1>2, <2>1
    <3> QED
      BY <1>3, <2>1, <3>1
  <2>4. /\ Cardinality(B(i)) <= Cardinality(B(j))
        /\ Cardinality(B(j)) = Cardinality(B(i)) => B(j) = B(i)
    BY <1>4, <2>2, FS_Subset
  <2>5. Cardinality(B(i)) \in Nat /\ Cardinality(B(j)) \in Nat
    BY <1>4
  <2>6. Cardinality(B(j)) # Cardinality(B(i))
    BY <2>3, <2>4
  <2> QED
    BY ONLY <2>4, <2>5, <2>6
<1> QED
  BY <1>4, <1>5, <1>6, <1>7, <1>8 DEF FrameEnd, B, n

\* Every byte of a stream is one of a frame's, and of one frame only.
LEMMA WrittenShape ==
  ASSUME NEW s \in Seq(Contents)
  PROVE  /\ Written(s) \in Seq(Bytes) /\ Len(Written(s)) = FrameEnd(s, Len(s))
         /\ \A i \in 1..Len(s) : \A j \in 1..Len(FrameAt(s, i)) :
              Written(s)[FrameEnd(s, i - 1) + j] = FrameAt(s, i)[j]
<1> DEFINE n == Len(s)
           E(i) == FrameEnd(s, i)
           W == Written(s)
           last == E(n)
<1>1. n \in Nat /\ DOMAIN s = 1..n /\ \A i \in 1..n : s[i] \in Contents
  BY LenProperties, ElementOfSeq
<1>2. \A i \in 1..n : Len(FrameAt(s, i)) \in Nat /\ FrameAt(s, i) \in Seq(Bytes)
  <2>1. ASSUME NEW i \in 1..n PROVE FrameAt(s, i) \in Seq(Bytes)
    BY <1>1, FramesBounded DEF FrameAt
  <2> QED
    BY <2>1, LenProperties
<1>3. /\ E(0) = 0
      /\ \A i \in 0..n : E(i) \in Nat
      /\ \A i \in 1..n : E(i) = E(i - 1) + Len(FrameAt(s, i))
      /\ \A i, j \in 0..n : i < j => E(i) < E(j)
  BY FrameEnds
<1> HIDE DEF n, E
<1>4. ASSUME NEW p \in Nat, NEW i \in 1..n, E(i - 1) < p, p <= E(i) PROVE FrameOf(s, p) = i
  <2>1. ASSUME NEW k \in 1..n, E(k - 1) < p, p <= E(k) PROVE k = i
    <3>1. i \in 0..n /\ i - 1 \in 0..n /\ k \in 0..n /\ k - 1 \in 0..n
      BY <1>1
    <3>2. E(i) \in Nat /\ E(i - 1) \in Nat /\ E(k) \in Nat /\ E(k - 1) \in Nat
      BY <1>3, <3>1
    <3>3. ~(i < k)
      <4>1. SUFFICES ASSUME i < k PROVE FALSE
        OBVIOUS
      <4>2. i = k - 1 \/ i < k - 1
        BY <1>1, <4>1
      <4>3. E(i) <= E(k - 1)
        BY <1>3, <3>1, <3>2, <4>2
      <4> QED
        BY <1>4, <2>1, <3>2, <4>3
    <3>4. ~(k < i)
      <4>1. SUFFICES ASSUME k < i PROVE FALSE
        OBVIOUS
      <4>2. k = i - 1 \/ k < i - 1
        BY <1>1, <4>1
      <4>3. E(k) <= E(i - 1)
        BY <1>3, <3>1, <3>2, <4>2
      <4> QED
        BY <1>4, <2>1, <3>2, <4>3
    <3> QED
      BY <1>1, <3>3, <3>4
  <2>2. FrameOf(s, p) = CHOOSE k \in 1..n : E(k - 1) < p /\ p <= E(k)
    BY <1>1 DEF FrameOf, E
  <2> QED
    BY <1>4, <2>1, <2>2
<1>5. last \in Nat /\ W = [p \in 1..last |-> FrameAt(s, FrameOf(s, p))[p - E(FrameOf(s, p) - 1)]]
  <2>1. n \in 0..n
    BY <1>1
  <2> QED
    BY <1>3, <2>1 DEF Written, E, n
<1> HIDE DEF last, W
<1>6. ASSUME NEW i \in 1..n, NEW j \in 1..Len(FrameAt(s, i))
      PROVE  W[E(i - 1) + j] = FrameAt(s, i)[j] /\ E(i - 1) + j \in 1..last
  <2> DEFINE p == E(i - 1) + j
             l == Len(FrameAt(s, i))
  <2>1. i \in 0..n /\ i - 1 \in 0..n /\ n \in 0..n /\ (i = n \/ i < n)
    BY <1>1
  <2>2. E(i - 1) \in Nat /\ E(i) \in Nat /\ E(n) \in Nat /\ E(i) = E(i - 1) + l /\ E(i) <= E(n) /\ l \in Nat
    BY <1>2, <1>3, <2>1
  <2>3. j \in Nat /\ j >= 1 /\ j <= l
    BY <2>2
  <2> HIDE DEF l
  <2>4. p \in Nat /\ E(i - 1) < p /\ p <= E(i) /\ p - E(i - 1) = j /\ p \in 1..last
    BY <2>2, <2>3 DEF last
  <2> HIDE DEF p
  <2>5. FrameOf(s, p) = i
    BY <1>4, <2>4
  <2>6. W[p] = FrameAt(s, i)[j]
    BY <1>5, <2>4, <2>5
  <2> QED
    BY <2>4, <2>6 DEF p
<1>7. ASSUME NEW p \in 1..last
      PROVE  \E i \in 1..n : E(i - 1) < p /\ p <= E(i)
  <2> DEFINE U == {i \in 1..n : p <= E(i)}
  <2>1. U \subseteq Nat /\ U # {}
    <3>1. n \in 1..n
      <4>1. n # 0
        BY <1>3, <1>5 DEF last
      <4> QED
        BY <1>1, <4>1
    <3>2. p <= E(n)
      BY <1>5 DEF last
    <3> QED
      BY <3>1, <3>2
  <2> DEFINE i == Min(U)
  <2>2. i \in U /\ \A x \in U : i <= x
    <3> HIDE DEF U
    <3> QED
      BY <2>1, MinIsLeast
  <2> HIDE DEF i
  <2>3. i \in 1..n /\ p <= E(i)
    BY <2>2
  <2>4. E(i - 1) < p
    <3>1. CASE i = 1
      BY <1>3, <1>5, <3>1
    <3>2. CASE i # 1
      <4>1. i - 1 \in 1..n /\ i - 1 \in 0..n /\ ~(i <= i - 1)
        BY <1>1, <2>3, <3>2
      <4>2. ~(p <= E(i - 1))
        BY <2>2, <4>1
      <4>3. E(i - 1) \in Nat
        BY <1>3, <4>1
      <4> QED
        BY <1>5, <4>2, <4>3
    <3> QED
      BY <3>1, <3>2
  <2> QED
    BY <2>3, <2>4
<1>8. ASSUME NEW p \in 1..last PROVE W[p] \in Bytes
  <2>1. PICK i \in 1..n : E(i - 1) < p /\ p <= E(i)
    BY <1>7
  <2>2. i - 1 \in 0..n /\ i \in 0..n
    BY <1>1
  <2>3. E(i - 1) \in Nat /\ E(i) = E(i - 1) + Len(FrameAt(s, i)) /\ p \in Nat /\ Len(FrameAt(s, i)) \in Nat
    BY <1>2, <1>3, <1>5, <2>2
  <2> DEFINE j == p - E(i - 1)
  <2>4. j \in 1..Len(FrameAt(s, i)) /\ E(i - 1) + j = p
    BY <2>1, <2>3
  <2> HIDE DEF j
  <2>5. W[p] = FrameAt(s, i)[j]
    BY <1>6, <2>4
  <2> QED
    BY <1>2, <2>4, <2>5, ElementOfSeq
<1>9. W \in Seq(Bytes) /\ Len(W) = last
  <2>1. W \in [1..last -> Bytes]
    BY <1>5, <1>8
  <2>2. W \in Seq(Bytes)
    BY <1>5, <2>1, SeqDef
  <2>3. DOMAIN W = 1..Len(W) /\ Len(W) \in Nat /\ DOMAIN W = 1..last
    BY <2>1, <2>2, LenProperties
  <2>4. \A a, b \in Nat : 1..a = 1..b => a = b
    OBVIOUS
  <2> QED
    BY <1>5, <2>2, <2>3, <2>4
<1> QED
  BY <1>6, <1>9 DEF W, last, E, n

\* What has arrived of a stream after frame m.
Rest(s, m, r) == SubSeq(Written(s), FrameEnd(s, m) + 1, r)

\* It is as long as that, and of its bytes.
LEMMA RestShape ==
  ASSUME NEW s \in Seq(Contents), NEW m \in 0..Len(s), NEW r \in 0..Len(Written(s)),
         FrameEnd(s, m) <= r
  PROVE  /\ Rest(s, m, r) \in Seq(Bytes) /\ Len(Rest(s, m, r)) = r - FrameEnd(s, m)
         /\ \A j \in 1..(r - FrameEnd(s, m)) : Rest(s, m, r)[j] = Written(s)[FrameEnd(s, m) + j]
<1> DEFINE W == Written(s)
           f == FrameEnd(s, m)
<1>1. W \in Seq(Bytes) /\ f \in Nat
  BY WrittenShape, FrameEnds
<1> HIDE DEF W, f
<1>2. Len(W) \in Nat /\ \A j \in 1..Len(W) : W[j] \in Bytes
  BY <1>1, LenProperties, ElementOfSeq
<1>3. r \in Nat /\ r <= Len(W) /\ f <= r
  BY <1>2 DEF W, f
<1>4. f + 1 \in Int /\ r \in Int /\ \A j \in (f + 1)..r : W[j] \in Bytes
  BY <1>1, <1>2, <1>3
<1>5. /\ SubSeq(W, f + 1, r) \in Seq(Bytes)
      /\ Len(SubSeq(W, f + 1, r)) = IF f + 1 <= r THEN r - (f + 1) + 1 ELSE 0
      /\ \A j \in 1..(r - (f + 1) + 1) : SubSeq(W, f + 1, r)[j] = W[(f + 1) + j - 1]
  BY <1>4, SubSeqProperties
<1>6. r - (f + 1) + 1 = r - f /\ \A j \in 1..(r - f) : (f + 1) + j - 1 = f + j
  BY <1>1, <1>3
<1>7. Len(SubSeq(W, f + 1, r)) = r - f
  BY <1>1, <1>3, <1>5
<1> QED
  BY <1>5, <1>6, <1>7 DEF Rest, W, f

\* Taking some frames off what has arrived leaves what arrived after them.
LEMMA RestOfRest ==
  ASSUME NEW s \in Seq(Contents), NEW m \in 0..Len(s), NEW k \in 0..Len(s), NEW r \in 0..Len(Written(s)),
         FrameEnd(s, m) <= FrameEnd(s, k), FrameEnd(s, k) <= r
  PROVE  SubSeq(Rest(s, m, r), FrameEnd(s, k) - FrameEnd(s, m) + 1, Len(Rest(s, m, r))) = Rest(s, k, r)
<1> DEFINE f == FrameEnd(s, m)
           g == FrameEnd(s, k)
           b == Rest(s, m, r)
           c == Rest(s, k, r)
           N == Len(b)
           W == Written(s)
<1>1. f \in Nat /\ g \in Nat /\ Len(W) \in Nat
  BY FrameEnds, WrittenShape, LenProperties
<1>2. r \in Nat /\ f <= g /\ g <= r /\ f <= r
  BY <1>1
<1>3. b \in Seq(Bytes) /\ N = r - f /\ \A j \in 1..(r - f) : b[j] = W[f + j]
  BY <1>2, RestShape
<1>4. c \in Seq(Bytes) /\ Len(c) = r - g /\ \A j \in 1..(r - g) : c[j] = W[g + j]
  BY <1>2, RestShape
<1> HIDE DEF f, g, b, c, W, N
<1>5. \A j \in 1..N : b[j] \in Bytes
  BY <1>3, ElementOfSeq DEF N
<1> DEFINE x == g - f + 1
<1>6. x \in Int /\ N \in Int /\ \A j \in x..N : j \in 1..N
  BY <1>1, <1>2, <1>3
<1>8. N - x + 1 = r - g /\ (x <= N \/ r - g = 0) /\ (x <= N => N - x + 1 = r - g) /\ r - g \in Nat
  BY <1>1, <1>2, <1>3
<1>9. \A j \in 1..(r - g) : x + j - 1 \in 1..(r - f) /\ f + (x + j - 1) = g + j
  BY <1>1, <1>2
<1> HIDE DEF x
<1>7. /\ SubSeq(b, x, N) \in Seq(Bytes)
      /\ Len(SubSeq(b, x, N)) = IF x <= N THEN N - x + 1 ELSE 0
      /\ \A j \in 1..(N - x + 1) : SubSeq(b, x, N)[j] = b[x + j - 1]
  BY <1>5, <1>6, SubSeqProperties
<1>10. Len(SubSeq(b, x, N)) = Len(c)
  BY <1>4, <1>7, <1>8
<1>11. ASSUME NEW j \in 1..Len(SubSeq(b, x, N)) PROVE SubSeq(b, x, N)[j] = c[j]
  <2>1. j \in 1..(r - g)
    BY <1>4, <1>10
  <2>2. SubSeq(b, x, N)[j] = b[x + j - 1]
    BY <1>7, <1>8, <2>1
  <2>3. b[x + j - 1] = W[f + (x + j - 1)]
    BY <1>3, <1>9, <2>1
  <2> QED
    BY <1>4, <1>9, <2>1, <2>2, <2>3
<1>12. SubSeq(b, x, N) = c
  BY <1>4, <1>7, <1>10, <1>11, SeqEqual
<1> QED
  BY <1>12 DEF x, b, c, N, f, g

\* A chunk is added to what has arrived.
LEMMA RestGrows ==
  ASSUME NEW s \in Seq(Contents), NEW m \in 0..Len(s), NEW r \in 0..Len(Written(s)),
         NEW n \in 1..(Len(Written(s)) - r), FrameEnd(s, m) <= r
  PROVE  Rest(s, m, r) \o SubSeq(Written(s), r + 1, r + n) = Rest(s, m, r + n)
<1> DEFINE f == FrameEnd(s, m)
           a == Rest(s, m, r)
           b == SubSeq(Written(s), r + 1, r + n)
           c == Rest(s, m, r + n)
           W == Written(s)
<1>1. f \in Nat /\ Len(W) \in Nat /\ W \in Seq(Bytes)
  BY FrameEnds, WrittenShape, LenProperties
<1>2. r \in Nat /\ n \in Nat /\ f <= r /\ f <= r + n /\ r + n \in 0..Len(W) /\ r + n <= Len(W) /\ n >= 1
  BY <1>1
<1>3. a \in Seq(Bytes) /\ Len(a) = r - f /\ \A j \in 1..(r - f) : a[j] = W[f + j]
  BY <1>2, RestShape
<1>4. c \in Seq(Bytes) /\ Len(c) = (r + n) - f /\ \A j \in 1..((r + n) - f) : c[j] = W[f + j]
  BY <1>2, RestShape
<1> HIDE DEF f, a, c, W
<1>5. r + 1 \in Int /\ r + n \in Int /\ \A j \in (r + 1)..(r + n) : W[j] \in Bytes
  <2>1. \A j \in (r + 1)..(r + n) : j \in 1..Len(W)
    BY <1>1, <1>2
  <2> QED
    BY <1>1, <1>2, <2>1, ElementOfSeq
<1>6. /\ SubSeq(W, r + 1, r + n) \in Seq(Bytes)
      /\ Len(SubSeq(W, r + 1, r + n)) = IF r + 1 <= r + n THEN (r + n) - (r + 1) + 1 ELSE 0
      /\ \A j \in 1..((r + n) - (r + 1) + 1) : SubSeq(W, r + 1, r + n)[j] = W[(r + 1) + j - 1]
  BY <1>5, SubSeqProperties
<1>7. (r + n) - (r + 1) + 1 = n /\ r + 1 <= r + n /\ \A j \in 1..n : (r + 1) + j - 1 = r + j
  BY <1>2
<1>8. b \in Seq(Bytes) /\ Len(b) = n /\ \A j \in 1..n : b[j] = W[r + j]
  BY <1>6, <1>7 DEF W
<1> HIDE DEF b
<1>9. /\ a \o b \in Seq(Bytes) /\ Len(a \o b) = Len(a) + Len(b)
      /\ \A j \in 1..(Len(a) + Len(b)) : (a \o b)[j] = IF j <= Len(a) THEN a[j] ELSE b[j - Len(a)]
  BY <1>3, <1>8, ConcatProperties
<1>10. Len(a \o b) = Len(c) /\ Len(a) + Len(b) = Len(c)
  BY <1>1, <1>2, <1>3, <1>4, <1>8, <1>9
<1>11. ASSUME NEW j \in 1..Len(c) PROVE (a \o b)[j] = c[j]
  <2>1. c[j] = W[f + j] /\ j \in Nat /\ j >= 1 /\ j <= (r + n) - f
    BY <1>1, <1>2, <1>4
  <2>2. CASE j <= r - f
    <3>1. j \in 1..(r - f) /\ j \in 1..(Len(a) + Len(b)) /\ j <= Len(a)
      BY <1>3, <1>10, <2>1, <2>2
    <3> QED
      BY <1>3, <1>9, <2>1, <3>1
  <2>3. CASE ~(j <= r - f)
    <3>1. j - (r - f) \in 1..n /\ r + (j - (r - f)) = f + j
      BY <1>1, <1>2, <2>1, <2>3
    <3>2. (a \o b)[j] = b[j - (r - f)]
      BY <1>3, <1>9, <1>10, <2>3
    <3> QED
      BY <1>8, <2>1, <3>1, <3>2
  <2> QED
    BY <2>2, <2>3
<1>12. a \o b = c
  BY <1>4, <1>9, <1>10, <1>11, SeqEqual
<1> QED
  BY <1>12 DEF a, b, c

\* A frame lies in what has arrived where those before it end.
LEMMA FrameInRest ==
  ASSUME NEW s \in Seq(Contents), NEW m \in 0..Len(s), NEW r \in 0..Len(Written(s)),
         FrameEnd(s, m) <= r, NEW k \in (m + 1)..Len(s),
         NEW j \in 1..Len(FrameAt(s, k)), FrameEnd(s, k - 1) + j <= r
  PROVE  Rest(s, m, r)[FrameEnd(s, k - 1) - FrameEnd(s, m) + j] = FrameAt(s, k)[j]
<1> DEFINE f == FrameEnd(s, m)
           g == FrameEnd(s, k - 1)
           l == Len(FrameAt(s, k))
<1>1. Len(s) \in Nat /\ s[k] \in Contents
  BY LenProperties, ElementOfSeq
<1>2. k \in 1..Len(s) /\ k - 1 \in 0..Len(s) /\ (m = k - 1 \/ m < k - 1) /\ k \in Nat
  BY <1>1
<1>3. f \in Nat /\ g \in Nat /\ (f = g \/ f < g)
  BY <1>2, FrameEnds
<1>4. l \in Nat /\ r \in Nat
  <2>1. FrameAt(s, k) \in Seq(Bytes)
    BY <1>1, <1>2, FramesBounded DEF FrameAt
  <2>2. Written(s) \in Seq(Bytes)
    BY WrittenShape
  <2>3. Len(Written(s)) \in Nat
    BY <2>2, LenProperties
  <2> QED
    BY <2>1, <2>3, LenProperties
<1>5. Written(s)[g + j] = FrameAt(s, k)[j]
  BY <1>2, WrittenShape
<1>6. \A i \in 1..(r - f) : Rest(s, m, r)[i] = Written(s)[f + i]
  BY RestShape
<1> HIDE DEF f, g, l
<1>7. g + j <= r /\ j \in 1..l
  BY DEF g, l
<1>8. g - f + j \in 1..(r - f) /\ f + (g - f + j) = g + j
  BY <1>3, <1>4, <1>7
<1> QED
  BY <1>5, <1>6, <1>8 DEF f, g

(* MessageDecoder *)

\* The header after some lines of an endless one is the first that ends.
LEMMA FirstHeader ==
  ASSUME NEW b \in Seq(Bytes), NEW h \in Nat,
         \A j \in 1..Len(b) : /\ j <= h => b[j].is = "line"
                              /\ j = h + 1 => b[j].is \in {"length", "line"}
                              /\ j = h + 2 \/ j = h + 3 => b[j].is = "crlf"
  PROVE  /\ Len(b) < h + 3 => HeaderEnds(b) = {}
         /\ Len(b) >= h + 3 =>
              /\ HeaderEnds(b) # {} /\ Min(HeaderEnds(b)) = h + 2
              /\ Lengths(b, h + 2) = IF b[h + 1].is = "length" THEN {h + 1} ELSE {}
<1> DEFINE N == Len(b)
           U == HeaderEnds(b)
<1>1. N \in Nat
  BY LenProperties
<1> HIDE DEF N
<1>2. \A j : j \in U <=> j \in 1..(N - 1) /\ b[j].is = "crlf" /\ b[j + 1].is = "crlf"
  BY DEF HeaderEnds, N
<1> HIDE DEF U
<1>3. \A j \in 1..N : j <= h + 1 => b[j].is # "crlf"
  <2>1. ASSUME NEW j \in 1..N, j <= h + 1 PROVE b[j].is # "crlf"
    <3>1. j <= h \/ j = h + 1
      BY <1>1, <2>1
    <3>2. b[j].is \in {"length", "line"}
      BY <2>1, <3>1 DEF N
    <3> QED
      BY <3>2
  <2> QED
    BY <2>1
<1>4. \A j \in U : j \in Nat /\ j \in 1..N /\ j + 1 <= N /\ h + 1 < j
  <2>1. ASSUME NEW j \in U PROVE j \in Nat /\ j \in 1..N /\ j + 1 <= N /\ h + 1 < j
    <3>1. j \in 1..(N - 1) /\ b[j].is = "crlf"
      BY <1>2
    <3>2. j \in 1..N /\ j \in Nat /\ j + 1 <= N
      BY <1>1, <3>1
    <3>3. ~(j <= h + 1)
      BY <1>3, <3>1, <3>2
    <3> QED
      BY <3>2, <3>3
  <2> QED
    BY <2>1
<1>5. ASSUME N < h + 3 PROVE U = {}
  <2>1. ASSUME NEW j \in U PROVE FALSE
    BY <1>1, <1>4, <1>5
  <2> QED
    BY <2>1
<1>6. ASSUME N >= h + 3
      PROVE  /\ U # {} /\ Min(U) = h + 2
             /\ Lengths(b, h + 2) = IF b[h + 1].is = "length" THEN {h + 1} ELSE {}
  <2>1. h + 2 \in 1..(N - 1) /\ h + 2 \in 1..N /\ h + 3 \in 1..N /\ (h + 2) + 1 = h + 3
    BY <1>1, <1>6
  <2>2. b[h + 2].is = "crlf" /\ b[h + 3].is = "crlf"
    BY <2>1 DEF N
  <2>3. h + 2 \in U
    BY <1>2, <2>1, <2>2
  <2>4. U \subseteq Nat /\ U # {}
    BY <1>4, <2>3
  <2>5. Min(U) \in U /\ Min(U) <= h + 2
    BY <2>3, <2>4, MinIsLeast
  <2>6. Min(U) = h + 2
    <3>1. Min(U) \in Nat /\ h + 1 < Min(U)
      BY <1>4, <2>5
    <3> QED
      BY <2>5, <3>1
  <2>7. (h + 2) - 1 = h + 1 /\ \A i \in 1..(h + 1) : i \in 1..N /\ (i <= h \/ i = h + 1)
    BY <1>1, <1>6
  <2>8. Lengths(b, h + 2) = {i \in 1..(h + 1) : b[i].is = "length"}
    BY <2>7 DEF Lengths
  <2>9. \A i \in 1..(h + 1) : b[i].is = "length" => i = h + 1
    <3>1. \A i \in 1..N : i <= h => b[i].is = "line"
      BY DEF N
    <3> QED
      BY <2>7, <3>1
  <2>10. h + 1 \in 1..(h + 1)
    OBVIOUS
  <2> QED
    BY <2>4, <2>6, <2>8, <2>9, <2>10
<1> QED
  BY <1>5, <1>6 DEF N, U

\* What push works with.
Drain == [bytes : Seq(Bytes), messages : Seq(Nat), state : {"draining", "waiting", "thrown"}]

\* No header ends: the decoder waits or gives up.
LEMMA NoHeaderYet ==
  ASSUME NEW d \in Drain, d.state = "draining", HeaderEnds(d.bytes) = {}
  PROVE  /\ drain(d) \in Drain /\ drain(d).state \in {"waiting", "thrown"}
         /\ drain(d).bytes = d.bytes /\ drain(d).messages = d.messages
<1>1. drain(d) = [d EXCEPT !.state = IF Len(d.bytes) > MaxHeader THEN "thrown" ELSE "waiting"]
  BY DEF drain
<1> QED
  BY <1>1 DEF Drain

\* A header ends: what the decoder does by the length it says.
LEMMA HeaderSeen ==
  ASSUME NEW d \in Drain, d.state = "draining", NEW h \in Nat, NEW L \in Nat \ {0},
         HeaderEnds(d.bytes) # {}, Min(HeaderEnds(d.bytes)) = h + 2,
         Len(d.bytes) >= h + 3,
         Lengths(d.bytes, h + 2) = {} \/ (Lengths(d.bytes, h + 2) = {h + 1} /\ d.bytes[h + 1].n = L)
  PROVE  /\ Lengths(d.bytes, h + 2) = {} \/ L > MaxMessage =>
              drain(d) = [d EXCEPT !.state = "thrown"]
         /\ Lengths(d.bytes, h + 2) # {} /\ L <= MaxMessage /\ Len(d.bytes) < h + 3 + L =>
              drain(d) = [d EXCEPT !.state = "waiting"]
         /\ Lengths(d.bytes, h + 2) # {} /\ L <= MaxMessage /\ Len(d.bytes) >= h + 3 + L =>
              drain(d) =
                IF d.bytes[h + 4].is = "json"
                  THEN [d EXCEPT !.bytes = SubSeq(d.bytes, h + 3 + L + 1, Len(d.bytes)),
                                 !.messages = Append(@, d.bytes[h + 4].n)]
                  ELSE [d EXCEPT !.bytes = SubSeq(d.bytes, h + 3 + L + 1, Len(d.bytes)),
                                 !.state = "thrown"]
<1> DEFINE b == d.bytes
           N == Len(b)
           lengths == Lengths(b, h + 2)
           length == b[Min(lengths)].n
           start == (h + 2) + 1
           body == SubSeq(b, start + 1, start + length)
           remaining == SubSeq(b, start + length + 1, N)
<1>1. b \in Seq(Bytes) /\ N \in Nat /\ MaxMessage \in Nat
  BY LenProperties, FramingAssumption DEF Drain
<1>2. drain(d) =
        IF lengths = {} \/ length > MaxMessage THEN [d EXCEPT !.state = "thrown"]
        ELSE IF incomplete(b, start, length) THEN [d EXCEPT !.state = "waiting"]
        ELSE IF Parses(body) THEN
          [d EXCEPT !.bytes = remaining, !.messages = Append(@, body[1].n)]
        ELSE [d EXCEPT !.bytes = remaining, !.state = "thrown"]
  BY DEF drain
<1>3. lengths # {} => length = L
  <2>1. Min({h + 1}) = h + 1
    <3>1. {h + 1} \subseteq Nat /\ {h + 1} # {}
      OBVIOUS
    <3> QED
      BY <3>1, MinIsLeast
  <2> QED
    BY <2>1
<1>4. start = h + 3
  OBVIOUS
<1> HIDE DEF b, N, lengths, length, start, remaining
<1>5. CASE lengths = {} \/ L > MaxMessage
  <2>1. drain(d) = [d EXCEPT !.state = "thrown"]
    BY <1>2, <1>3, <1>5
  <2> QED
    BY <1>1, <1>5, <2>1 DEF lengths, b
<1>6. CASE lengths # {} /\ L <= MaxMessage /\ N < h + 3 + L
  <2>1. length = L /\ ~(L > MaxMessage)
    BY <1>1, <1>3, <1>6
  <2>2. incomplete(b, start, length)
    BY <1>4, <1>6, <2>1 DEF incomplete, N
  <2>3. drain(d) = [d EXCEPT !.state = "waiting"]
    BY <1>2, <1>6, <2>1, <2>2
  <2> QED
    BY <1>1, <1>6, <2>1, <2>3 DEF lengths, b, N
<1>7. CASE lengths # {} /\ L <= MaxMessage /\ N >= h + 3 + L
  <2>1. length = L /\ ~(L > MaxMessage) /\ ~(N < h + 3 + L)
    BY <1>1, <1>3, <1>7
  <2>2. ~incomplete(b, start, length)
    BY <1>4, <2>1 DEF incomplete, N
  <2>3. body # <<>> /\ body[1] = b[h + 4]
    <3> DEFINE x == h + 3 + 1
               y == h + 3 + L
    <3>1. x \in Int /\ y \in Int /\ x <= y /\ y - x + 1 = L /\ 1 \in 1..L /\ x + 1 - 1 = h + 4 /\ \A j \in x..y : j \in 1..N
      BY <1>1, <1>7
    <3>2. \A j \in x..y : b[j] \in Bytes
      BY <1>1, <3>1, ElementOfSeq DEF N
    <3>3. body = SubSeq(b, x, y)
      BY <1>4, <2>1
    <3> HIDE DEF x, y, body
    <3>4. /\ SubSeq(b, x, y) \in Seq(Bytes)
          /\ Len(SubSeq(b, x, y)) = IF x <= y THEN y - x + 1 ELSE 0
          /\ \A j \in 1..(y - x + 1) : SubSeq(b, x, y)[j] = b[x + j - 1]
      BY <3>1, <3>2, SubSeqProperties
    <3>5. Len(SubSeq(b, x, y)) = L /\ SubSeq(b, x, y)[1] = b[h + 4]
      BY <3>1, <3>4
    <3>6. Len(<<>>) = 0 /\ L # 0
      OBVIOUS
    <3> QED
      BY <3>3, <3>5, <3>6
  <2>4. Parses(body) <=> b[h + 4].is = "json"
    BY <2>3 DEF Parses
  <2>5. remaining = SubSeq(b, h + 3 + L + 1, N)
    BY <1>4, <2>1 DEF remaining
  <2> HIDE DEF body
  <2>6. drain(d) = IF b[h + 4].is = "json"
                     THEN [d EXCEPT !.bytes = remaining, !.messages = Append(@, b[h + 4].n)]
                     ELSE [d EXCEPT !.bytes = remaining, !.state = "thrown"]
    BY <1>2, <1>7, <2>1, <2>2, <2>3, <2>4
  <2> QED
    BY <1>1, <1>7, <2>1, <2>5, <2>6 DEF lengths, b, N
<1> QED
  BY <1>1, <1>5, <1>6, <1>7 DEF lengths, b, N

\* The frame that the next header is of, when nothing but lines is before it:
\* the decoder waits for the rest of it, gives up, or takes it.
LEMMA HeadedTurn ==
  ASSUME NEW s \in Seq(Contents), NEW m \in 0..Len(s), NEW r \in 0..Len(Written(s)),
         FrameEnd(s, m) <= r,
         NEW d \in Drain, d.state = "draining", d.bytes = Rest(s, m, r),
         NEW k \in (m + 1)..Len(s), s[k] \in Messages \cup {"junk", "oversize"},
         \A j \in 1..Len(d.bytes) :
           j <= FrameEnd(s, k - 1) - FrameEnd(s, m) => d.bytes[j].is = "line"
  PROVE  /\ drain(d) \in Drain
         /\ \/ /\ drain(d).state \in {"waiting", "thrown"}
               /\ drain(d).bytes = d.bytes /\ drain(d).messages = d.messages
               /\ drain(d).state = "waiting" => r < FrameEnd(s, k)
            \/ /\ drain(d).state = "draining" /\ s[k] \in Messages /\ FrameEnd(s, k) <= r
               /\ drain(d).bytes = Rest(s, k, r) /\ drain(d).messages = Append(d.messages, k)
            \/ /\ drain(d).state = "thrown" /\ FrameEnd(s, k) <= r
               /\ drain(d).bytes = Rest(s, k, r) /\ drain(d).messages = d.messages
<1> DEFINE b == d.bytes
           N == Len(b)
           f == FrameEnd(s, m)
           g == FrameEnd(s, k - 1)
           e == FrameEnd(s, k)
           h == g - f
           F == FrameAt(s, k)
           L == Said(k, s[k])
<1>1. Len(s) \in Nat /\ k \in 1..Len(s) /\ k \in Nat /\ k - 1 \in 0..Len(s) /\ k \in 0..Len(s)
      /\ (m = k - 1 \/ m < k - 1)
  BY LenProperties
<1>2. f \in Nat /\ g \in Nat /\ e \in Nat /\ (f = g \/ f < g) /\ e = g + Len(F) /\ r \in Nat
  <2>1. Len(Written(s)) \in Nat
    BY WrittenShape, LenProperties
  <2>2. r \in Nat
    BY <2>1
  <2> QED
    BY <1>1, <2>2, FrameEnds
<1>3. /\ F \in Seq(Bytes) /\ L \in Nat \ {0}
      /\ F[1] = Byte("length", L) /\ F[2] = Byte("crlf", 0) /\ F[3] = Byte("crlf", 0)
      /\ s[k] \in Messages => L \in 2..3 /\ Len(F) = 3 + L
      /\ s[k] \notin Messages => Len(F) = 4
      /\ F[4] = Byte(IF s[k] = "junk" THEN "junk" ELSE "json", k)
  BY <1>1, HeadedFrame DEF FrameAt
<1>4. s[k] = "junk" => L = 1
  BY DEF Said, Messages
<1>5. s[k] = "oversize" => L = MaxMessage + 1
  BY DEF Said, Messages
<1>6. b \in Seq(Bytes) /\ N = r - f /\ N \in Nat
  <2>1. N = r - f /\ b \in Seq(Bytes)
    BY RestShape
  <2> QED
    BY <2>1, LenProperties
<1>7. \A j \in 1..Len(F) : g + j <= r => b[h + j] = F[j]
  BY FrameInRest
<1>8. MaxMessage \in Nat
  BY FramingAssumption
<1>9. \A j \in 1..N : j <= h => b[j].is = "line"
  OBVIOUS
<1>10. f <= r
  OBVIOUS
<1>11. k \in (m + 1)..Len(s)
  OBVIOUS
<1> HIDE DEF N, f, g, e, h, F, L
<1>12. h \in Nat /\ g = f + h /\ e = f + h + Len(F) /\ N = r - f
  BY ONLY <1>2, <1>6 DEF h
<1>13. Len(F) \in Nat /\ 4 <= Len(F)
  <2>1. \A l \in 2..3 : 3 + l \in Nat /\ 4 <= 3 + l
    OBVIOUS
  <2>2. CASE s[k] \in Messages
    BY <1>3, <2>1, <2>2
  <2>3. CASE s[k] \notin Messages
    BY <1>3, <2>3
  <2> QED
    BY <2>2, <2>3
<1>14. \A j \in 1..Len(F) : h + j <= N => b[h + j] = F[j]
  <2>1. \A j \in 1..Len(F) : h + j <= N => g + j <= r
    BY ONLY <1>2, <1>12, <1>13
  <2> QED
    BY <1>7, <2>1
<1>15. \A j \in {1, 2, 3, 4} : j \in 1..Len(F)
  BY ONLY <1>13
<1>16. /\ h + 1 <= N => b[h + 1] = F[1]
       /\ h + 2 <= N => b[h + 2] = F[2]
       /\ h + 3 <= N => b[h + 3] = F[3]
       /\ h + 4 <= N => b[h + 4] = F[4]
  BY <1>14, <1>15
<1>17. /\ F[1].is = "length" /\ F[1].n = L
       /\ F[2].is = "crlf" /\ F[3].is = "crlf"
       /\ F[4].is = (IF s[k] = "junk" THEN "junk" ELSE "json") /\ F[4].n = k
  BY <1>3 DEF Byte
<1>18. ASSUME NEW j \in 1..N
       PROVE  /\ j <= h => b[j].is = "line"
              /\ j = h + 1 => b[j].is \in {"length", "line"}
              /\ j = h + 2 \/ j = h + 3 => b[j].is = "crlf"
  <2>1. j <= N
    BY <1>6
  <2>2. j <= h => b[j].is = "line"
    BY <1>9
  <2>3. j = h + 1 => b[j].is \in {"length", "line"}
    BY <1>16, <1>17, <2>1
  <2>4. j = h + 2 \/ j = h + 3 => b[j].is = "crlf"
    BY <1>16, <1>17, <2>1
  <2> QED
    BY <2>2, <2>3, <2>4
<1> HIDE DEF b
<1>19. /\ N < h + 3 => HeaderEnds(b) = {}
       /\ N >= h + 3 =>
            /\ HeaderEnds(b) # {} /\ Min(HeaderEnds(b)) = h + 2
            /\ Lengths(b, h + 2) = IF b[h + 1].is = "length" THEN {h + 1} ELSE {}
  BY <1>6, <1>12, <1>18, FirstHeader DEF N
<1>20. d \in Drain /\ d.bytes = b /\ d.state = "draining"
  BY DEF b
<1>21. CASE N < h + 3
  <2>1. r < e
    BY ONLY <1>2, <1>12, <1>13, <1>21
  <2>2. /\ drain(d) \in Drain /\ drain(d).state \in {"waiting", "thrown"}
        /\ drain(d).bytes = d.bytes /\ drain(d).messages = d.messages
    BY <1>19, <1>20, <1>21, NoHeaderYet
  <2> QED
    BY <2>1, <2>2 DEF e
<1>22. CASE N >= h + 3
  <2>1. h + 1 <= N /\ h + 2 <= N /\ h + 3 <= N
    BY ONLY <1>6, <1>12, <1>22
  <2>2. Lengths(b, h + 2) = {h + 1} /\ b[h + 1].n = L /\ Lengths(b, h + 2) # {}
    BY <1>16, <1>17, <1>19, <1>22, <2>1
  <2>3. /\ L > MaxMessage => drain(d) = [d EXCEPT !.state = "thrown"]
        /\ L <= MaxMessage /\ N < h + 3 + L => drain(d) = [d EXCEPT !.state = "waiting"]
        /\ L <= MaxMessage /\ N >= h + 3 + L =>
             drain(d) =
               IF b[h + 4].is = "json"
                 THEN [d EXCEPT !.bytes = SubSeq(b, h + 3 + L + 1, N),
                                !.messages = Append(@, b[h + 4].n)]
                 ELSE [d EXCEPT !.bytes = SubSeq(b, h + 3 + L + 1, N),
                                !.state = "thrown"]
    <3>1. /\ Lengths(d.bytes, h + 2) = {} \/ (Lengths(d.bytes, h + 2) = {h + 1} /\ d.bytes[h + 1].n = L)
          /\ HeaderEnds(d.bytes) # {} /\ Min(HeaderEnds(d.bytes)) = h + 2 /\ Len(d.bytes) >= h + 3
          /\ L \in Nat \ {0} /\ h \in Nat
      BY <1>3, <1>12, <1>19, <1>20, <1>22, <2>2 DEF N
    <3>2. Lengths(d.bytes, h + 2) # {} /\ Len(d.bytes) = N
      BY <1>20, <2>2 DEF N
    <3>3. /\ L > MaxMessage => drain(d) = [d EXCEPT !.state = "thrown"]
          /\ L <= MaxMessage /\ Len(d.bytes) < h + 3 + L => drain(d) = [d EXCEPT !.state = "waiting"]
          /\ L <= MaxMessage /\ Len(d.bytes) >= h + 3 + L =>
               drain(d) =
                 IF d.bytes[h + 4].is = "json"
                   THEN [d EXCEPT !.bytes = SubSeq(d.bytes, h + 3 + L + 1, Len(d.bytes)),
                                  !.messages = Append(@, d.bytes[h + 4].n)]
                   ELSE [d EXCEPT !.bytes = SubSeq(d.bytes, h + 3 + L + 1, Len(d.bytes)),
                                  !.state = "thrown"]
      <4>1. d \in Drain /\ d.state = "draining" /\ h \in Nat /\ L \in Nat \ {0}
        BY <1>20, <3>1
      <4>2. /\ HeaderEnds(d.bytes) # {} /\ Min(HeaderEnds(d.bytes)) = h + 2
            /\ Len(d.bytes) >= h + 3
            /\ Lengths(d.bytes, h + 2) = {} \/ (Lengths(d.bytes, h + 2) = {h + 1} /\ d.bytes[h + 1].n = L)
        BY <3>1
      <4>3. L > MaxMessage => drain(d) = [d EXCEPT !.state = "thrown"]
        BY <4>1, <4>2, HeaderSeen
      <4>4. L <= MaxMessage /\ Len(d.bytes) < h + 3 + L => drain(d) = [d EXCEPT !.state = "waiting"]
        BY <3>2, <4>1, <4>2, HeaderSeen
      <4>5. L <= MaxMessage /\ Len(d.bytes) >= h + 3 + L =>
              drain(d) =
                IF d.bytes[h + 4].is = "json"
                  THEN [d EXCEPT !.bytes = SubSeq(d.bytes, h + 3 + L + 1, Len(d.bytes)),
                                 !.messages = Append(@, d.bytes[h + 4].n)]
                  ELSE [d EXCEPT !.bytes = SubSeq(d.bytes, h + 3 + L + 1, Len(d.bytes)),
                                 !.state = "thrown"]
        BY <3>2, <4>1, <4>2, HeaderSeen
      <4> QED
        BY <4>3, <4>4, <4>5
    <3> QED
      BY <1>20, <3>2, <3>3
  <2>4. CASE L > MaxMessage
    <3>1. /\ drain(d) \in Drain /\ drain(d).state = "thrown"
          /\ drain(d).bytes = d.bytes /\ drain(d).messages = d.messages
      BY <1>20, <2>3, <2>4 DEF Drain
    <3> QED
      BY <3>1
  <2>5. CASE L <= MaxMessage /\ N < h + 3 + L
    <3>1. /\ drain(d) \in Drain /\ drain(d).state = "waiting"
          /\ drain(d).bytes = d.bytes /\ drain(d).messages = d.messages
      BY <1>20, <2>3, <2>5 DEF Drain
    <3>2. Len(F) = 3 + L
      <4>1. s[k] # "oversize"
        BY ONLY <1>5, <1>8, <2>5
      <4>2. CASE s[k] \in Messages
        BY <1>3, <4>2
      <4>3. CASE s[k] \notin Messages
        <5>1. s[k] = "junk" /\ Len(F) = 4
          BY <1>3, <4>1, <4>3
        <5> QED
          BY <1>4, <5>1
      <4> QED
        BY <4>2, <4>3
    <3>3. r < e
      BY ONLY <1>2, <1>12, <1>3, <2>5, <3>2
    <3> QED
      BY <3>1, <3>3 DEF e
  <2>6. CASE L <= MaxMessage /\ N >= h + 3 + L
    <3>1. Len(F) = 3 + L
      <4>1. s[k] # "oversize"
        BY ONLY <1>5, <1>8, <2>6
      <4>2. CASE s[k] \in Messages
        BY <1>3, <4>2
      <4>3. CASE s[k] \notin Messages
        <5>1. s[k] = "junk" /\ Len(F) = 4
          BY <1>3, <4>1, <4>3
        <5> QED
          BY <1>4, <5>1
      <4> QED
        BY <4>2, <4>3
    <3>2. L \in Nat \ {0} /\ h + 4 <= N /\ e <= r /\ e - f + 1 = h + 3 + L + 1 /\ f <= e
      <4>1. L \in Nat /\ L # 0
        BY <1>3
      <4> QED
        BY ONLY <1>2, <1>6, <1>12, <2>6, <3>1, <4>1
    <3>3. SubSeq(b, h + 3 + L + 1, N) = Rest(s, k, r)
      <4>1. SubSeq(Rest(s, m, r), e - f + 1, Len(Rest(s, m, r))) = Rest(s, k, r)
        <5>1. FrameEnd(s, m) <= FrameEnd(s, k) /\ FrameEnd(s, k) <= r
          BY <3>2 DEF e, f
        <5> QED
          BY <1>1, <5>1, RestOfRest DEF e, f
      <4>2. b = Rest(s, m, r)
        BY DEF b
      <4> QED
        BY <3>2, <4>1, <4>2 DEF N
    <3>4. Rest(s, k, r) \in Seq(Bytes)
      BY <1>1, <3>2, RestShape DEF e
    <3>5. b[h + 4].is = (IF s[k] = "junk" THEN "junk" ELSE "json") /\ b[h + 4].n = k
      BY <1>16, <1>17, <3>2
    <3>6. CASE s[k] = "junk"
      <4>1. drain(d) = [d EXCEPT !.bytes = Rest(s, k, r), !.state = "thrown"]
        BY <2>3, <2>6, <3>3, <3>5, <3>6
      <4>2. /\ drain(d) \in Drain /\ drain(d).state = "thrown"
            /\ drain(d).bytes = Rest(s, k, r) /\ drain(d).messages = d.messages
        BY <1>20, <3>4, <4>1 DEF Drain
      <4> QED
        BY <3>2, <4>2 DEF e
    <3>7. CASE s[k] # "junk"
      <4>1. drain(d) = [d EXCEPT !.bytes = Rest(s, k, r), !.messages = Append(@, k)]
        BY <2>3, <2>6, <3>3, <3>5, <3>7
      <4>2. Append(d.messages, k) \in Seq(Nat)
        BY <1>1, AppendProperties DEF Drain
      <4>3. /\ drain(d) \in Drain /\ drain(d).state = "draining"
            /\ drain(d).bytes = Rest(s, k, r) /\ drain(d).messages = Append(d.messages, k)
        BY <1>20, <3>4, <4>1, <4>2 DEF Drain
      <4>4. s[k] \in Messages
        <5>1. s[k] # "oversize"
          BY ONLY <1>5, <1>8, <2>6
        <5> QED
          BY <3>7, <5>1
      <4> QED
        BY <3>2, <4>3, <4>4 DEF e
    <3> QED
      BY <3>6, <3>7
  <2>7. L \in Nat
    BY <1>3
  <2>8. \/ L > MaxMessage
        \/ L <= MaxMessage /\ N < h + 3 + L
        \/ L <= MaxMessage /\ N >= h + 3 + L
    BY ONLY <1>6, <1>8, <1>12, <2>7
  <2> QED
    BY <2>4, <2>5, <2>6, <2>8
<1> QED
  BY <1>6, <1>12, <1>21, <1>22

\* One fault at most is in a stream.
Unbroken(s) ==
  \A i, j \in DOMAIN s : s[i] \in Faults /\ s[j] \in Faults => i = j

\* The messages among some frames of a stream.
Among(s, m, k) == {i \in (m + 1)..k : s[i] \in Messages}

\* One turn of push on what has arrived after frame m: the decoder stops, and
\* waits only when no later message is there as a whole; or takes the next
\* message; or the next frame and gives up.
LEMMA OneTurn ==
  ASSUME NEW s \in Seq(Contents), Unbroken(s),
         NEW m \in 0..Len(s), NEW r \in 0..Len(Written(s)), FrameEnd(s, m) <= r,
         NEW d \in Drain, d.state = "draining", d.bytes = Rest(s, m, r)
  PROVE  /\ drain(d) \in Drain
         /\ \/ /\ drain(d).state \in {"waiting", "thrown"}
               /\ drain(d).bytes = d.bytes /\ drain(d).messages = d.messages
               /\ drain(d).state = "waiting" =>
                    \A i \in Among(s, m, Len(s)) : r < FrameEnd(s, i)
            \/ \E k \in (m + 1)..Len(s) :
                 /\ drain(d).state = "draining" /\ Among(s, m, k) = {k} /\ FrameEnd(s, k) <= r
                 /\ drain(d).bytes = Rest(s, k, r) /\ drain(d).messages = Append(d.messages, k)
            \/ \E k \in (m + 1)..Len(s) :
                 /\ drain(d).state = "thrown" /\ FrameEnd(s, k) <= r
                 /\ drain(d).bytes = Rest(s, k, r) /\ drain(d).messages = d.messages
<1> DEFINE b == d.bytes
           N == Len(b)
           f == FrameEnd(s, m)
           n == Len(s)
<1>1. n \in Nat /\ DOMAIN s = 1..n /\ m \in Nat /\ m <= n /\ \A i \in 1..n : s[i] \in Contents
  BY LenProperties, ElementOfSeq
<1>2. f \in Nat /\ r \in Nat /\ r <= FrameEnd(s, n) /\ FrameEnd(s, n) \in Nat
  <2>1. Len(Written(s)) = FrameEnd(s, Len(s)) /\ Len(Written(s)) \in Nat
    BY WrittenShape, LenProperties
  <2>2. f \in Nat
    BY FrameEnds
  <2> QED
    BY <2>1, <2>2
<1>3. b \in Seq(Bytes) /\ N = r - f /\ N \in Nat /\ \A j \in 1..N : b[j] = Written(s)[f + j]
  <2>1. N = r - f /\ b \in Seq(Bytes) /\ \A j \in 1..(r - f) : b[j] = Written(s)[f + j]
    BY RestShape
  <2>2. N \in Nat
    BY <2>1, LenProperties
  <2> QED
    BY <2>1, <2>2
<1>4. f <= r /\ d \in Drain /\ d.state = "draining" /\ b = Rest(s, m, r)
  OBVIOUS
<1>5. Messages \cap Faults = {}
  BY DEF Messages, Faults
<1>6. ASSUME NEW k \in (m + 1)..n, s[k] \in Messages \cup {"junk", "oversize"},
             \A j \in 1..N : j <= FrameEnd(s, k - 1) - f => b[j].is = "line",
             \A i \in (m + 1)..n : i < k => s[i] \notin Messages
      PROVE  /\ drain(d) \in Drain
             /\ \/ /\ drain(d).state \in {"waiting", "thrown"}
                   /\ drain(d).bytes = d.bytes /\ drain(d).messages = d.messages
                   /\ drain(d).state = "waiting" =>
                        \A i \in Among(s, m, n) : r < FrameEnd(s, i)
                \/ /\ drain(d).state = "draining" /\ Among(s, m, k) = {k} /\ FrameEnd(s, k) <= r
                   /\ drain(d).bytes = Rest(s, k, r) /\ drain(d).messages = Append(d.messages, k)
                \/ /\ drain(d).state = "thrown" /\ FrameEnd(s, k) <= r
                   /\ drain(d).bytes = Rest(s, k, r) /\ drain(d).messages = d.messages
  <2>1. /\ drain(d) \in Drain
        /\ \/ /\ drain(d).state \in {"waiting", "thrown"}
              /\ drain(d).bytes = d.bytes /\ drain(d).messages = d.messages
              /\ drain(d).state = "waiting" => r < FrameEnd(s, k)
           \/ /\ drain(d).state = "draining" /\ s[k] \in Messages /\ FrameEnd(s, k) <= r
              /\ drain(d).bytes = Rest(s, k, r) /\ drain(d).messages = Append(d.messages, k)
           \/ /\ drain(d).state = "thrown" /\ FrameEnd(s, k) <= r
              /\ drain(d).bytes = Rest(s, k, r) /\ drain(d).messages = d.messages
    BY <1>6, HeadedTurn
  <2>2. r < FrameEnd(s, k) => \A i \in Among(s, m, n) : r < FrameEnd(s, i)
    <3>1. ASSUME r < FrameEnd(s, k), NEW i \in Among(s, m, n) PROVE r < FrameEnd(s, i)
      <4>1. i \in (m + 1)..n /\ s[i] \in Messages
        BY <3>1 DEF Among
      <4>2. ~(i < k) /\ i \in 0..n /\ k \in 0..n
        BY <1>1, <1>6, <4>1
      <4>3. i = k \/ k < i
        BY <4>2
      <4>4. k < i => FrameEnd(s, k) < FrameEnd(s, i)
        BY <4>2, FrameEnds
      <4>5. FrameEnd(s, k) \in Nat /\ FrameEnd(s, i) \in Nat
        BY <4>2, FrameEnds
      <4> QED
        BY <1>2, <3>1, <4>3, <4>4, <4>5
    <3> QED
      BY <3>1
  <2>3. s[k] \in Messages => Among(s, m, k) = {k}
    <3>1. \A i \in (m + 1)..k : i = k \/ (i < k /\ i \in (m + 1)..n)
      BY <1>1
    <3>2. k \in (m + 1)..k
      BY <1>1
    <3> QED
      BY <1>6, <3>1, <3>2 DEF Among
  <2> QED
    BY <2>1, <2>2, <2>3
<1>7. ASSUME HeaderEnds(b) = {}, \A i \in Among(s, m, n) : r < FrameEnd(s, i)
      PROVE  /\ drain(d) \in Drain
             /\ drain(d).state \in {"waiting", "thrown"}
             /\ drain(d).bytes = d.bytes /\ drain(d).messages = d.messages
             /\ drain(d).state = "waiting" => \A i \in Among(s, m, n) : r < FrameEnd(s, i)
  <2>1. /\ drain(d) \in Drain /\ drain(d).state \in {"waiting", "thrown"}
        /\ drain(d).bytes = d.bytes /\ drain(d).messages = d.messages
    BY <1>4, <1>7, NoHeaderYet
  <2> QED
    BY <1>7, <2>1
<1>8. CASE m = n
  <2>1. N = 0
    BY ONLY <1>2, <1>3, <1>4, <1>8 DEF f
  <2>2. HeaderEnds(b) = {}
    BY <2>1 DEF HeaderEnds
  <2>3. Among(s, m, n) = {}
    BY <1>1, <1>8 DEF Among
  <2> QED
    BY <1>7, <2>2, <2>3
<1>9. CASE m < n
  <2> DEFINE k == m + 1
             e == FrameEnd(s, k)
  <2>1. k \in (m + 1)..n /\ k \in 1..n /\ k - 1 = m /\ k \in Nat /\ k \in 0..n
    BY <1>1, <1>9
  <2>2. s[k] \in Messages \cup Faults
    BY <1>1, <2>1 DEF Contents
  <2>3. e = f + Len(FrameAt(s, k)) /\ e \in Nat
    BY <2>1, FrameEnds
  <2>4. \A j \in 1..Len(FrameAt(s, k)) : f + j <= r => b[j] = FrameAt(s, k)[j]
    <3>1. ASSUME NEW j \in 1..Len(FrameAt(s, k)), f + j <= r PROVE b[j] = FrameAt(s, k)[j]
      <4>1. FrameAt(s, k) \in Seq(Bytes)
        BY <1>1, <2>1, FramesBounded DEF FrameAt
      <4>2. j \in Nat
        BY <4>1, LenProperties
      <4>3. b[FrameEnd(s, k - 1) - f + j] = FrameAt(s, k)[j]
        BY <2>1, <3>1, FrameInRest
      <4>4. f - f + j = j
        BY ONLY <1>2, <4>2
      <4> QED
        BY <2>1, <4>3, <4>4
    <3> QED
      BY <3>1
  <2> HIDE DEF k, e
  <2>5. CASE s[k] \in Messages \cup {"junk", "oversize"}
    <3>1. FrameEnd(s, k - 1) - f = 0
      BY <1>2, <2>1
    <3>2. \A j \in 1..N : j <= 0 => b[j].is = "line"
      BY <1>3
    <3>3. \A i \in (m + 1)..n : i < k => s[i] \notin Messages
      BY <1>1 DEF k
    <3> QED
      BY <1>6, <2>1, <2>5, <3>1, <3>2, <3>3
  <2>6. CASE s[k] = "unsized"
    <3>1. /\ Len(FrameAt(s, k)) = 3 /\ FrameAt(s, k)[1].is = "line"
          /\ FrameAt(s, k)[2].is = "crlf" /\ FrameAt(s, k)[3].is = "crlf"
      <4>1. /\ Len(FrameAt(s, k)) = 3 /\ FrameAt(s, k)[1] = Byte("line", k)
            /\ FrameAt(s, k)[2] = Byte("crlf", 0) /\ FrameAt(s, k)[3] = Byte("crlf", 0)
        BY <2>1, <2>6, HeadlessFrame DEF FrameAt
      <4> QED
        BY <4>1 DEF Byte
    <3>2. \A j \in 1..3 : j <= N => b[j] = FrameAt(s, k)[j]
      <4>1. \A j \in 1..3 : j <= N => f + j <= r
        BY ONLY <1>2, <1>3
      <4> QED
        BY <2>4, <3>1, <4>1
    <3>3. ASSUME NEW j \in 1..Len(b)
          PROVE  /\ j <= 0 => b[j].is = "line"
                 /\ j = 0 + 1 => b[j].is \in {"length", "line"}
                 /\ j = 0 + 2 \/ j = 0 + 3 => b[j].is = "crlf"
      <4>1. j <= N /\ j \in Nat /\ j >= 1
        BY <1>3
      <4>2. j \in {1, 2, 3} => b[j] = FrameAt(s, k)[j]
        BY <3>2, <4>1
      <4> QED
        BY <3>1, <4>1, <4>2
    <3>4. /\ Len(b) < 0 + 3 => HeaderEnds(b) = {}
          /\ Len(b) >= 0 + 3 =>
               /\ HeaderEnds(b) # {} /\ Min(HeaderEnds(b)) = 0 + 2
               /\ Lengths(b, 0 + 2) = IF b[0 + 1].is = "length" THEN {0 + 1} ELSE {}
      <4>1. 0 \in Nat
        OBVIOUS
      <4> QED
        BY <1>3, <3>3, <4>1, FirstHeader
    <3>5. CASE N < 3
      <4>1. r < e
        BY ONLY <1>2, <1>3, <2>3, <3>1, <3>5
      <4>2. ASSUME NEW i \in Among(s, m, n) PROVE r < FrameEnd(s, i)
        <5>1. i \in (m + 1)..n /\ s[i] \in Messages
          BY DEF Among
        <5>2. k < i /\ i \in 0..n
          <6>1. i # k
            BY <2>6, <5>1 DEF Messages
          <6> QED
            BY <1>1, <5>1, <6>1 DEF k
        <5>3. e < FrameEnd(s, i) /\ FrameEnd(s, i) \in Nat
          BY <2>1, <5>2, FrameEnds DEF e
        <5> QED
          BY ONLY <1>2, <2>3, <4>1, <5>3
      <4>3. HeaderEnds(b) = {}
        BY <3>4, <3>5
      <4> QED
        BY <1>7, <4>2, <4>3
    <3>6. CASE N >= 3
      <4>1. b[1].is = "line"
        BY <3>1, <3>2, <3>6
      <4>2. /\ HeaderEnds(d.bytes) # {} /\ Min(HeaderEnds(d.bytes)) = 0 + 2
            /\ Len(d.bytes) >= 0 + 3 /\ Lengths(d.bytes, 0 + 2) = {}
        BY <3>4, <3>6, <4>1
      <4>3. 0 \in Nat /\ 1 \in Nat \ {0}
        OBVIOUS
      <4>4. drain(d) = [d EXCEPT !.state = "thrown"]
        BY <1>4, <4>2, <4>3, HeaderSeen
      <4>5. /\ drain(d) \in Drain /\ drain(d).state = "thrown"
            /\ drain(d).bytes = d.bytes /\ drain(d).messages = d.messages
        BY <1>4, <4>4 DEF Drain
      <4> QED
        BY <4>5
    <3> QED
      BY <1>3, <3>5, <3>6
  <2>7. CASE s[k] = "endless"
    <3> DEFINE M == MaxHeader + 1
    <3>1. M \in Nat /\ Len(FrameAt(s, k)) = M /\ \A j \in 1..M : FrameAt(s, k)[j].is = "line"
      <4>1. Len(FrameAt(s, k)) = M /\ \A j \in 1..M : FrameAt(s, k)[j] = Byte("line", k)
        BY <2>1, <2>7, HeadlessFrame DEF FrameAt
      <4>2. M \in Nat
        BY FramingAssumption
      <4> QED
        BY <4>1, <4>2 DEF Byte
    <3> HIDE DEF M
    <3>2. \A j \in 1..N : j <= M => b[j].is = "line"
      <4>1. \A j \in 1..N : j <= M => j \in 1..M /\ f + j <= r
        BY ONLY <1>2, <1>3, <3>1
      <4> QED
        BY <2>4, <3>1, <4>1
    <3>3. CASE k = n
      <4>1. N <= M
        BY ONLY <1>2, <1>3, <2>3, <3>1, <3>3 DEF e
      <4>2. \A j \in 1..N : b[j].is # "crlf"
        BY ONLY <1>3, <3>1, <3>2, <4>1
      <4>3. HeaderEnds(b) = {}
        <5>1. \A j \in 1..(N - 1) : j \in 1..N
          BY <1>3
        <5> QED
          BY <4>2, <5>1 DEF HeaderEnds
      <4>4. Among(s, m, n) = {}
        <5>1. \A i \in (m + 1)..n : i = k
          BY <1>1, <3>3 DEF k
        <5>2. s[k] \notin Messages
          BY <2>7 DEF Messages
        <5> QED
          BY <5>1, <5>2 DEF Among
      <4> QED
        BY <1>7, <4>3, <4>4
    <3>4. CASE k # n
      <4>1. k + 1 \in (m + 1)..n /\ k + 1 \in 1..n /\ (k + 1) - 1 = k /\ k + 1 # k
        <5>1. k \in Nat /\ m \in Nat /\ n \in Nat /\ k = m + 1 /\ k <= n
          BY <1>1, <1>9 DEF k
        <5>2. k # n
          BY <3>4
        <5> HIDE DEF n
        <5> QED
          BY ONLY <5>1, <5>2
      <4>2. s[k + 1] \in Messages
        <5>1. s[k] \in Faults
          BY <2>7 DEF Faults
        <5>2. s[k + 1] \notin Faults
          BY <1>1, <2>1, <4>1, <5>1 DEF Unbroken
        <5> QED
          BY <1>1, <4>1, <5>2 DEF Contents
      <4>3. FrameEnd(s, (k + 1) - 1) - f = M
        BY <1>2, <2>3, <3>1, <4>1 DEF e
      <4>4. \A j \in 1..N : j <= FrameEnd(s, (k + 1) - 1) - f => b[j].is = "line"
        BY <3>2, <4>3
      <4>5. \A i \in (m + 1)..n : i < k + 1 => s[i] \notin Messages
        <5>1. \A i \in (m + 1)..n : i < k + 1 => i = k
          BY <1>1 DEF k
        <5>2. s[k] \notin Messages
          BY <2>7 DEF Messages
        <5> QED
          BY <5>1, <5>2
      <4> QED
        BY <1>6, <4>1, <4>2, <4>4, <4>5
    <3> QED
      BY <3>3, <3>4
  <2> QED
    BY <2>2, <2>5, <2>6, <2>7 DEF Faults
<1>10. m = n \/ m < n
  <2>1. m \in Nat /\ n \in Nat /\ m <= n
    BY <1>1
  <2> HIDE DEF n
  <2> QED
    BY ONLY <2>1
<1> QED
  BY <1>8, <1>9, <1>10, Zenon

\* There is a function of the turns of push, up to any of them.
LEMMA TurnsExist ==
  ASSUME NEW a, NEW K \in Nat
  PROVE  \E f : f = [n \in 0..K |-> IF n = 0 THEN a ELSE drain(f[n - 1])]
<1> DEFINE Upto(f, j) == f = [n \in 0..j |-> IF n = 0 THEN a ELSE drain(f[n - 1])]
           S == {j \in 0..K : ~ \E f : Upto(f, j)}
<1>1. SUFFICES ASSUME S # {} PROVE FALSE
  <2>1. K \in 0..K
    OBVIOUS
  <2> QED
    BY <1>1, <2>1
<1> DEFINE j == Min(S)
<1>2. S \subseteq Nat
  OBVIOUS
<1> HIDE DEF S
<1>3. j \in S /\ \A i \in S : j <= i
  BY <1>1, <1>2, MinIsLeast
<1> HIDE DEF j
<1>4. j \in 0..K /\ ~ \E f : Upto(f, j)
  BY <1>3 DEF S
<1>5. CASE j = 0
  <2> DEFINE g == [n \in 0..0 |-> a]
  <2>1. g = [n \in 0..0 |-> IF n = 0 THEN a ELSE drain(g[n - 1])]
    OBVIOUS
  <2>2. Upto(g, j)
    BY <1>5, <2>1
  <2> QED
    BY <1>4, <2>2
<1>6. CASE j # 0
  <2>1. j - 1 \in 0..K /\ j \in Nat /\ j - 1 < j
    BY <1>4, <1>6
  <2>2. j - 1 \notin S
    BY <1>3, <1>2, <2>1
  <2>3. PICK g : Upto(g, j - 1)
    BY <2>1, <2>2 DEF S
  <2>4. g = [n \in 0..(j - 1) |-> IF n = 0 THEN a ELSE drain(g[n - 1])]
    BY <2>3
  <2> HIDE DEF Upto
  <2>5. g[0] = a /\ \A n \in 1..(j - 1) : g[n] = drain(g[n - 1])
    <3>1. \A n \in 0..(j - 1) : g[n] = IF n = 0 THEN a ELSE drain(g[n - 1])
      BY <2>4
    <3>2. 0 \in 0..(j - 1) /\ \A n \in 1..(j - 1) : n \in 0..(j - 1) /\ n # 0
      BY <1>6, <2>1
    <3> QED
      BY <3>1, <3>2
  <2> DEFINE h == [n \in 0..j |-> IF n = j THEN drain(g[j - 1]) ELSE g[n]]
  <2>6. ASSUME NEW n \in 0..j
        PROVE  (IF n = j THEN drain(g[j - 1]) ELSE g[n]) = (IF n = 0 THEN a ELSE drain(h[n - 1]))
    <3>1. CASE n = 0
      BY <1>6, <2>5, <3>1
    <3>2. CASE n # 0
      <4>1. n - 1 \in 0..j /\ n - 1 # j /\ (n # j => n \in 1..(j - 1))
        BY <2>1, <3>2
      <4>2. h[n - 1] = g[n - 1]
        BY <4>1
      <4> HIDE DEF h
      <4>3. n = j => drain(g[j - 1]) = drain(h[n - 1])
        BY <4>2
      <4>4. n # j => g[n] = drain(h[n - 1])
        BY <2>5, <4>1, <4>2
      <4> QED
        BY <3>2, <4>3, <4>4
    <3> QED
      BY <3>1, <3>2
  <2>7. h = [n \in 0..j |-> IF n = 0 THEN a ELSE drain(h[n - 1])]
    BY <2>6
  <2>8. Upto(h, j)
    BY <2>7 DEF Upto
  <2> QED
    BY <1>4, <2>8
<1> QED
  BY <1>5, <1>6

\* What push makes of some bytes is what its last turn leaves.
LEMMA TurnsOfPush ==
  ASSUME NEW bytes \in Seq(Bytes)
  PROVE  \E f : /\ f[0] = [bytes |-> bytes, messages |-> <<>>, state |-> "draining"]
                /\ \A n \in 1..(Len(bytes) + 1) : f[n] = drain(f[n - 1])
                /\ drained(bytes) = f[Len(bytes) + 1]
<1> DEFINE a == [bytes |-> bytes, messages |-> <<>>, state |-> "draining"]
           K == Len(bytes) + 1
           Is(f) == f = [n \in 0..K |-> IF n = 0 THEN a ELSE drain(f[n - 1])]
           t == CHOOSE f : Is(f)
<1>1. K \in Nat /\ K >= 1
  BY LenProperties
<1>2. drained(bytes) = t[K]
  BY DEF drained
<1> HIDE DEF a, K
<1>3. \E f : Is(f)
  BY <1>1, TurnsExist
<1>4. Is(t)
  BY <1>3
<1> HIDE DEF t
<1>5. t = [n \in 0..K |-> IF n = 0 THEN a ELSE drain(t[n - 1])]
  BY <1>4
<1> HIDE DEF Is
<1>6. t[0] = a /\ \A n \in 1..K : t[n] = drain(t[n - 1])
  <2>1. \A n \in 0..K : t[n] = IF n = 0 THEN a ELSE drain(t[n - 1])
    BY <1>5
  <2>2. 0 \in 0..K /\ \A n \in 1..K : n \in 0..K /\ n # 0
    BY <1>1
  <2> QED
    BY <2>1, <2>2
<1> QED
  BY <1>2, <1>6 DEF a, K

\* Sequences that ascend, one after the other.
LEMMA AscendTogether ==
  ASSUME NEW a \in Seq(Nat), NEW b \in Seq(Nat), Ascending(a), Ascending(b),
         \A x \in Range(a), y \in Range(b) : x < y
  PROVE  /\ a \o b \in Seq(Nat) /\ Ascending(a \o b)
         /\ Range(a \o b) = Range(a) \cup Range(b)
<1> DEFINE n == Len(a)
           l == Len(b)
           c == a \o b
<1>1. /\ n \in Nat /\ l \in Nat /\ DOMAIN a = 1..n /\ DOMAIN b = 1..l
      /\ \A i \in 1..n : a[i] \in Nat
      /\ \A i \in 1..l : b[i] \in Nat
  BY LenProperties, ElementOfSeq
<1>2. /\ c \in Seq(Nat) /\ Len(c) = n + l
      /\ \A i \in 1..(n + l) : c[i] = IF i <= n THEN a[i] ELSE b[i - n]
  BY ConcatProperties
<1>3. DOMAIN c = 1..(n + l)
  BY <1>2, LenProperties
<1>4. \A x, y : x \in Range(a) /\ y \in Range(b) => x < y
  OBVIOUS
<1> HIDE DEF c, n, l
<1>5. /\ \A i \in 1..n : i \in 1..(n + l) /\ c[i] = a[i] /\ a[i] \in Range(a)
      /\ \A i \in 1..l : n + i \in 1..(n + l) /\ c[n + i] = b[i] /\ b[i] \in Range(b)
  <2>1. \A i \in 1..n : i \in 1..(n + l) /\ i <= n
    BY <1>1
  <2>2. \A i \in 1..l : n + i \in 1..(n + l) /\ ~(n + i <= n) /\ (n + i) - n = i
    BY <1>1
  <2>3. \A i \in 1..n : a[i] \in Range(a)
    BY <1>1 DEF Range
  <2>4. \A i \in 1..l : b[i] \in Range(b)
    BY <1>1 DEF Range
  <2> QED
    BY <1>2, <2>1, <2>2, <2>3, <2>4
<1>6. \A i \in 1..(n + l) : i \in 1..n \/ \E j \in 1..l : i = n + j
  <2>1. ASSUME NEW i \in 1..(n + l), i \notin 1..n PROVE \E j \in 1..l : i = n + j
    <3>1. i - n \in 1..l /\ i = n + (i - n)
      BY <1>1, <2>1
    <3> QED
      BY <3>1
  <2> QED
    BY <2>1
<1>7. Range(c) = Range(a) \cup Range(b)
  <2>1. ASSUME NEW x \in Range(c) PROVE x \in Range(a) \cup Range(b)
    <3>1. PICK i \in 1..(n + l) : x = c[i]
      BY <1>3 DEF Range
    <3> QED
      BY <1>5, <1>6, <3>1
  <2>2. ASSUME NEW x \in Range(a) PROVE x \in Range(c)
    <3>1. PICK i \in 1..n : x = a[i]
      BY <1>1 DEF Range
    <3> QED
      BY <1>3, <1>5, <3>1 DEF Range
  <2>3. ASSUME NEW x \in Range(b) PROVE x \in Range(c)
    <3>1. PICK i \in 1..l : x = b[i]
      BY <1>1 DEF Range
    <3> QED
      BY <1>3, <1>5, <3>1 DEF Range
  <2> QED
    BY <2>1, <2>2, <2>3
<1>8. ASSUME NEW i \in 1..(n + l), NEW j \in 1..(n + l), i < j PROVE c[i] < c[j]
  <2>1. CASE i \in 1..n /\ j \in 1..n
    <3>1. a[i] < a[j]
      BY <1>1, <1>8, <2>1 DEF Ascending
    <3> QED
      BY <1>5, <2>1, <3>1
  <2>2. CASE i \in 1..n /\ j \notin 1..n
    <3>1. PICK k \in 1..l : j = n + k
      BY <1>6, <2>2
    <3> QED
      BY <1>4, <1>5, <2>2, <3>1
  <2>3. CASE i \notin 1..n
    <3>1. PICK h \in 1..l : i = n + h
      BY <1>6, <2>3
    <3>2. j \notin 1..n
      BY <1>1, <1>8, <2>3
    <3>3. PICK k \in 1..l : j = n + k
      BY <1>6, <3>2
    <3>4. h < k
      BY <1>1, <1>8, <3>1, <3>3
    <3>5. b[h] < b[k]
      BY <1>1, <3>4 DEF Ascending
    <3> QED
      BY <1>5, <3>1, <3>3, <3>5
  <2> QED
    BY <2>1, <2>2, <2>3
<1> QED
  BY <1>2, <1>3, <1>7, <1>8 DEF Ascending, c

\* A sequence that ascends, and one more.
LEMMA AscendFurther ==
  ASSUME NEW q \in Seq(Nat), NEW k \in Nat, Ascending(q), \A x \in Range(q) : x < k
  PROVE  /\ Append(q, k) \in Seq(Nat) /\ Ascending(Append(q, k))
         /\ Range(Append(q, k)) = Range(q) \cup {k}
<1> DEFINE b == <<k>>
<1>1. b \in Seq(Nat) /\ Len(b) = 1 /\ b[1] = k /\ DOMAIN b = 1..1
  OBVIOUS
<1>2. Append(q, k) = q \o b
  <2>1. Append(q, k) \in Seq(Nat) /\ Len(Append(q, k)) = Len(q) + 1
        /\ \A i \in 1..Len(q) : Append(q, k)[i] = q[i]
        /\ Append(q, k)[Len(q) + 1] = k
    BY AppendProperties
  <2> HIDE DEF b
  <2>2. q \o b \in Seq(Nat) /\ Len(q \o b) = Len(q) + Len(b)
        /\ \A i \in 1..(Len(q) + Len(b)) : (q \o b)[i] = IF i <= Len(q) THEN q[i] ELSE b[i - Len(q)]
    BY <1>1, ConcatProperties
  <2>3. Len(q) \in Nat
    BY LenProperties
  <2>4. ASSUME NEW i \in 1..(Len(q) + 1) PROVE Append(q, k)[i] = (q \o b)[i]
    <3>1. CASE i \in 1..Len(q)
      BY <1>1, <2>1, <2>2, <2>3, <3>1
    <3>2. CASE i = Len(q) + 1
      <4>1. ~(i <= Len(q)) /\ i - Len(q) = 1
        BY <2>3, <3>2
      <4> QED
        BY <1>1, <2>1, <2>2, <3>2, <4>1
    <3>3. \A z \in Nat : \A x \in 1..(z + 1) : x \in 1..z \/ x = z + 1
      OBVIOUS
    <3> QED
      BY <2>3, <3>1, <3>2, <3>3
  <2> QED
    BY <1>1, <2>1, <2>2, <2>4, SeqEqual
<1>3. Ascending(b) /\ Range(b) = {k}
  BY <1>1 DEF Ascending, Range
<1> HIDE DEF b
<1>4. \A x \in Range(q), y \in Range(b) : x < y
  BY <1>3
<1>5. q \o b \in Seq(Nat) /\ Ascending(q \o b) /\ Range(q \o b) = Range(q) \cup Range(b)
  BY <1>1, <1>3, <1>4, AscendTogether
<1> QED
  BY <1>2, <1>3, <1>5

\* What push has done of a stream by a turn: it has taken what lies between frame
\* m0, where it started, and some later one, and in it every message; unless it
\* has given up, then what it found is lost.
Halfway(s, m0, r, d, j) ==
  /\ d \in Drain
  /\ \E m \in m0..Len(s) :
       /\ FrameEnd(s, m) <= r /\ d.bytes = Rest(s, m, r)
       /\ d.state # "thrown" => Ascending(d.messages) /\ Range(d.messages) = Among(s, m0, m)
       /\ d.state = "waiting" => \A i \in Among(s, m, Len(s)) : r < FrameEnd(s, i)
       /\ d.state = "draining" => FrameEnd(s, m0) + j <= FrameEnd(s, m)

\* A turn takes push from one such point to another, a byte further at least.
LEMMA TurnKeepsHalfway ==
  ASSUME NEW s \in Seq(Contents), Unbroken(s),
         NEW m0 \in 0..Len(s), NEW r \in 0..Len(Written(s)), NEW j \in Nat,
         NEW d, Halfway(s, m0, r, d, j)
  PROVE  Halfway(s, m0, r, drain(d), j + 1)
<1>1. d \in Drain
  BY DEF Halfway
<1>2. PICK m \in m0..Len(s) :
        /\ FrameEnd(s, m) <= r /\ d.bytes = Rest(s, m, r)
        /\ d.state # "thrown" => Ascending(d.messages) /\ Range(d.messages) = Among(s, m0, m)
        /\ d.state = "waiting" => \A i \in Among(s, m, Len(s)) : r < FrameEnd(s, i)
        /\ d.state = "draining" => FrameEnd(s, m0) + j <= FrameEnd(s, m)
  BY DEF Halfway
<1>3. CASE d.state # "draining"
  <2>1. drain(d) = d
    BY <1>3 DEF drain
  <2> QED
    BY <1>1, <1>2, <1>3, <2>1 DEF Halfway
<1>4. CASE d.state = "draining"
  <2> DEFINE e == drain(d)
  <2>1. Len(s) \in Nat /\ m \in 0..Len(s) /\ m \in Nat /\ m0 \in Nat /\ m0 <= m
    BY LenProperties
  <2>2. /\ e \in Drain
        /\ \/ /\ e.state \in {"waiting", "thrown"}
              /\ e.bytes = d.bytes /\ e.messages = d.messages
              /\ e.state = "waiting" => \A i \in Among(s, m, Len(s)) : r < FrameEnd(s, i)
           \/ \E k \in (m + 1)..Len(s) :
                /\ e.state = "draining" /\ Among(s, m, k) = {k} /\ FrameEnd(s, k) <= r
                /\ e.bytes = Rest(s, k, r) /\ e.messages = Append(d.messages, k)
           \/ \E k \in (m + 1)..Len(s) :
                /\ e.state = "thrown" /\ FrameEnd(s, k) <= r
                /\ e.bytes = Rest(s, k, r) /\ e.messages = d.messages
    BY <1>1, <1>2, <1>4, <2>1, OneTurn
  <2> HIDE DEF e
  <2>3. CASE /\ e.state \in {"waiting", "thrown"}
             /\ e.bytes = d.bytes /\ e.messages = d.messages
             /\ e.state = "waiting" => \A i \in Among(s, m, Len(s)) : r < FrameEnd(s, i)
    <3>1. /\ FrameEnd(s, m) <= r /\ e.bytes = Rest(s, m, r)
          /\ e.state # "thrown" => Ascending(e.messages) /\ Range(e.messages) = Among(s, m0, m)
          /\ e.state = "waiting" => \A i \in Among(s, m, Len(s)) : r < FrameEnd(s, i)
          /\ e.state = "draining" => FrameEnd(s, m0) + (j + 1) <= FrameEnd(s, m)
      BY <1>2, <1>4, <2>3
    <3>2. Halfway(s, m0, r, e, j + 1)
      BY <2>2, <3>1 DEF Halfway
    <3> QED
      BY <3>2 DEF e
  <2>4. CASE \E k \in (m + 1)..Len(s) :
               /\ e.state = "draining" /\ Among(s, m, k) = {k} /\ FrameEnd(s, k) <= r
               /\ e.bytes = Rest(s, k, r) /\ e.messages = Append(d.messages, k)
    <3>1. PICK k \in (m + 1)..Len(s) :
            /\ e.state = "draining" /\ Among(s, m, k) = {k} /\ FrameEnd(s, k) <= r
            /\ e.bytes = Rest(s, k, r) /\ e.messages = Append(d.messages, k)
      BY <2>4
    <3>2. k \in m0..Len(s) /\ k \in Nat /\ m < k /\ k \in 0..Len(s) /\ m0 \in 0..Len(s)
      BY <2>1
    <3>3. d.messages \in Seq(Nat) /\ Ascending(d.messages) /\ Range(d.messages) = Among(s, m0, m)
      BY <1>1, <1>2, <1>4 DEF Drain
    <3>4. \A x \in Range(d.messages) : x < k
      BY <2>1, <3>2, <3>3 DEF Among
    <3>5. Ascending(e.messages) /\ Range(e.messages) = Among(s, m0, m) \cup {k}
      BY <3>1, <3>2, <3>3, <3>4, AscendFurther
    <3>6. Among(s, m0, m) \cup {k} = Among(s, m0, k)
      <4>1. \A i : i \in (m0 + 1)..k <=> i \in (m0 + 1)..m \/ i \in (m + 1)..k
        BY <2>1, <3>2
      <4>2. Among(s, m0, k) = Among(s, m0, m) \cup Among(s, m, k)
        BY <4>1 DEF Among
      <4> QED
        BY <3>1, <4>2
    <3>7. FrameEnd(s, m0) + (j + 1) <= FrameEnd(s, k)
      <4>1. FrameEnd(s, m) < FrameEnd(s, k)
        BY <2>1, <3>2, FrameEnds
      <4>2. FrameEnd(s, m0) \in Nat /\ FrameEnd(s, m) \in Nat /\ FrameEnd(s, k) \in Nat
        BY <2>1, <3>2, FrameEnds
      <4>3. FrameEnd(s, m0) + j <= FrameEnd(s, m)
        BY <1>2, <1>4
      <4>4. j \in Nat
        OBVIOUS
      <4> QED
        BY ONLY <4>1, <4>2, <4>3, <4>4
    <3>8. /\ FrameEnd(s, k) <= r /\ e.bytes = Rest(s, k, r)
          /\ e.state # "thrown" => Ascending(e.messages) /\ Range(e.messages) = Among(s, m0, k)
          /\ e.state = "waiting" => \A i \in Among(s, k, Len(s)) : r < FrameEnd(s, i)
          /\ e.state = "draining" => FrameEnd(s, m0) + (j + 1) <= FrameEnd(s, k)
      BY <3>1, <3>5, <3>6, <3>7
    <3>9. Halfway(s, m0, r, e, j + 1)
      BY <2>2, <3>2, <3>8 DEF Halfway
    <3> QED
      BY <3>9 DEF e
  <2>5. CASE \E k \in (m + 1)..Len(s) :
               /\ e.state = "thrown" /\ FrameEnd(s, k) <= r
               /\ e.bytes = Rest(s, k, r) /\ e.messages = d.messages
    <3>1. PICK k \in (m + 1)..Len(s) :
            /\ e.state = "thrown" /\ FrameEnd(s, k) <= r
            /\ e.bytes = Rest(s, k, r) /\ e.messages = d.messages
      BY <2>5
    <3>2. k \in m0..Len(s)
      BY <2>1
    <3>3. Halfway(s, m0, r, e, j + 1)
      BY <2>2, <3>1, <3>2 DEF Halfway
    <3> QED
      BY <3>3 DEF e
  <2> QED
    BY <2>2, <2>3, <2>4, <2>5
<1> QED
  BY <1>3, <1>4

\* What push makes of the rest of a stream: every message that has arrived as a
\* whole, in order, and what has arrived after them; or an error.
LEMMA WhatPushFinds ==
  ASSUME NEW s \in Seq(Contents), Unbroken(s),
         NEW m0 \in 0..Len(s), NEW r \in 0..Len(Written(s)), FrameEnd(s, m0) <= r,
         NEW d, d = drained(Rest(s, m0, r))
  PROVE  /\ d \in Drain /\ d.state \in {"waiting", "thrown"}
         /\ \E m \in m0..Len(s) :
              /\ FrameEnd(s, m) <= r /\ d.bytes = Rest(s, m, r)
              /\ d.state = "waiting" =>
                   /\ Ascending(d.messages) /\ Range(d.messages) = Among(s, m0, m)
                   /\ \A i \in Among(s, m, Len(s)) : r < FrameEnd(s, i)
<1> DEFINE b == Rest(s, m0, r)
           K == Len(b) + 1
<1>1. b \in Seq(Bytes) /\ Len(b) = r - FrameEnd(s, m0)
  BY RestShape
<1>2. K \in Nat /\ Len(b) \in Nat /\ r \in Nat /\ FrameEnd(s, m0) \in Nat /\ m0 \in m0..Len(s)
  <2>1. Len(b) \in Nat
    BY <1>1, LenProperties
  <2>2. Len(Written(s)) \in Nat /\ Len(s) \in Nat
    BY WrittenShape, LenProperties
  <2>3. FrameEnd(s, m0) \in Nat
    BY FrameEnds
  <2> QED
    BY <2>1, <2>2, <2>3
<1> HIDE DEF b
<1>3. PICK f : /\ f[0] = [bytes |-> b, messages |-> <<>>, state |-> "draining"]
               /\ \A n \in 1..(Len(b) + 1) : f[n] = drain(f[n - 1])
               /\ drained(b) = f[Len(b) + 1]
  BY <1>1, TurnsOfPush
<1> DEFINE Good(n) == Halfway(s, m0, r, f[n], n)
           Bad == {n \in 0..K : ~Good(n)}
<1>4. Good(0)
  <2>1. f[0] \in Drain
    BY <1>1, <1>3 DEF Drain
  <2>2. Among(s, m0, m0) = {} /\ Range(<<>>) = {} /\ Ascending(<<>>)
    BY DEF Among, Range, Ascending
  <2>3. FrameEnd(s, m0) + 0 <= FrameEnd(s, m0)
    BY <1>2
  <2>4. f[0].bytes = b /\ f[0].messages = <<>> /\ f[0].state = "draining"
    BY <1>3
  <2>5. /\ FrameEnd(s, m0) <= r /\ f[0].bytes = Rest(s, m0, r)
        /\ f[0].state # "thrown" => Ascending(f[0].messages) /\ Range(f[0].messages) = Among(s, m0, m0)
        /\ f[0].state = "waiting" => \A i \in Among(s, m0, Len(s)) : r < FrameEnd(s, i)
        /\ f[0].state = "draining" => FrameEnd(s, m0) + 0 <= FrameEnd(s, m0)
    BY <2>2, <2>3, <2>4 DEF b
  <2> QED
    BY <1>2, <2>1, <2>5 DEF Halfway
<1> HIDE DEF Good, K
<1>5. Bad = {}
  <2>1. SUFFICES ASSUME Bad # {} PROVE FALSE
    OBVIOUS
  <2> DEFINE j == Min(Bad)
  <2>2. Bad \subseteq Nat
    OBVIOUS
  <2> HIDE DEF Bad
  <2>3. j \in Bad /\ \A i \in Bad : j <= i
    BY <2>1, <2>2, MinIsLeast
  <2> HIDE DEF j
  <2>4. j \in 0..K /\ ~Good(j)
    BY <2>3 DEF Bad
  <2>5. j - 1 \in Nat /\ j - 1 \in 0..K /\ j \in 1..K /\ (j - 1) + 1 = j /\ ~(j <= j - 1)
    BY <1>2, <1>4, <2>4
  <2>6. Good(j - 1)
    BY <2>3, <2>5 DEF Bad
  <2>7. Halfway(s, m0, r, drain(f[j - 1]), (j - 1) + 1)
    BY <2>5, <2>6, TurnKeepsHalfway DEF Good
  <2>8. f[j] = drain(f[j - 1])
    BY <1>3, <2>5 DEF K
  <2> QED
    BY <2>4, <2>5, <2>7, <2>8 DEF Good
<1>6. Good(K)
  BY <1>2, <1>5
<1>7. d = f[K]
  BY <1>3 DEF b, K
<1>8. Halfway(s, m0, r, d, K)
  BY <1>6, <1>7 DEF Good
<1>9. d \in Drain
  BY <1>8 DEF Halfway
<1>10. PICK m \in m0..Len(s) :
         /\ FrameEnd(s, m) <= r /\ d.bytes = Rest(s, m, r)
         /\ d.state # "thrown" => Ascending(d.messages) /\ Range(d.messages) = Among(s, m0, m)
         /\ d.state = "waiting" => \A i \in Among(s, m, Len(s)) : r < FrameEnd(s, i)
         /\ d.state = "draining" => FrameEnd(s, m0) + K <= FrameEnd(s, m)
  BY <1>8 DEF Halfway
<1>11. d.state # "draining"
  <2>1. FrameEnd(s, m) \in Nat
    <3>1. m \in 0..Len(s)
      BY <1>2
    <3> QED
      BY <3>1, FrameEnds
  <2>2. FrameEnd(s, m) <= r /\ K = Len(b) + 1
    BY <1>10 DEF K
  <2>3. ~(FrameEnd(s, m0) + K <= FrameEnd(s, m))
    BY ONLY <1>1, <1>2, <2>1, <2>2
  <2> QED
    BY <1>10, <2>3
<1> QED
  BY <1>9, <1>10, <1>11 DEF Drain

(* LspConnection *)

Reply == [request : Nat, ok : BOOLEAN]
Asked(rs) == [k \in DOMAIN rs |-> rs[k].request]

\* What is in reply to one message is written after the rest.
Answered(i, rs) ==
  IF stream[i] \in Requests THEN Append(rs, handleServerRequest(i)) ELSE rs

\* There is a function of what dispatch has written after each message.
LEMMA RepliesExist ==
  ASSUME NEW q, NEW K \in Nat
  PROVE  \E f : f = [n \in 0..K |-> IF n = 0 THEN replies ELSE Answered(q[n], f[n - 1])]
<1> DEFINE Upto(f, j) == f = [n \in 0..j |-> IF n = 0 THEN replies ELSE Answered(q[n], f[n - 1])]
           S == {j \in 0..K : ~ \E f : Upto(f, j)}
<1>1. SUFFICES ASSUME S # {} PROVE FALSE
  <2>1. K \in 0..K
    OBVIOUS
  <2> QED
    BY <1>1, <2>1
<1> DEFINE j == Min(S)
<1>2. S \subseteq Nat
  OBVIOUS
<1> HIDE DEF S
<1>3. j \in S /\ \A i \in S : j <= i
  BY <1>1, <1>2, MinIsLeast
<1> HIDE DEF j
<1>4. j \in 0..K /\ ~ \E f : Upto(f, j)
  BY <1>3 DEF S
<1>5. CASE j = 0
  <2> DEFINE g == [n \in 0..0 |-> replies]
  <2>1. g = [n \in 0..0 |-> IF n = 0 THEN replies ELSE Answered(q[n], g[n - 1])]
    OBVIOUS
  <2>2. Upto(g, j)
    BY <1>5, <2>1
  <2> QED
    BY <1>4, <2>2
<1>6. CASE j # 0
  <2>1. j - 1 \in 0..K /\ j \in Nat /\ j - 1 < j
    BY <1>4, <1>6
  <2>2. j - 1 \notin S
    BY <1>3, <1>2, <2>1
  <2>3. PICK g : Upto(g, j - 1)
    BY <2>1, <2>2 DEF S
  <2>4. g = [n \in 0..(j - 1) |-> IF n = 0 THEN replies ELSE Answered(q[n], g[n - 1])]
    BY <2>3
  <2> HIDE DEF Upto
  <2>5. g[0] = replies /\ \A n \in 1..(j - 1) : g[n] = Answered(q[n], g[n - 1])
    <3>1. \A n \in 0..(j - 1) : g[n] = IF n = 0 THEN replies ELSE Answered(q[n], g[n - 1])
      BY <2>4
    <3>2. 0 \in 0..(j - 1) /\ \A n \in 1..(j - 1) : n \in 0..(j - 1) /\ n # 0
      BY <1>6, <2>1
    <3> QED
      BY <3>1, <3>2
  <2> DEFINE h == [n \in 0..j |-> IF n = j THEN Answered(q[j], g[j - 1]) ELSE g[n]]
  <2>6. ASSUME NEW n \in 0..j
        PROVE  (IF n = j THEN Answered(q[j], g[j - 1]) ELSE g[n])
                 = (IF n = 0 THEN replies ELSE Answered(q[n], h[n - 1]))
    <3>1. CASE n = 0
      BY <1>6, <2>5, <3>1
    <3>2. CASE n # 0
      <4>1. n - 1 \in 0..j /\ n - 1 # j /\ (n # j => n \in 1..(j - 1))
        BY <2>1, <3>2
      <4>2. h[n - 1] = g[n - 1]
        BY <4>1
      <4> HIDE DEF h
      <4>3. n = j => Answered(q[j], g[j - 1]) = Answered(q[n], h[n - 1])
        BY <4>2
      <4>4. n # j => g[n] = Answered(q[n], h[n - 1])
        BY <2>5, <4>1, <4>2
      <4> QED
        BY <3>2, <4>3, <4>4
    <3> QED
      BY <3>1, <3>2
  <2>7. h = [n \in 0..j |-> IF n = 0 THEN replies ELSE Answered(q[n], h[n - 1])]
    BY <2>6
  <2>8. Upto(h, j)
    BY <2>7 DEF Upto
  <2> QED
    BY <1>4, <2>8
<1> QED
  BY <1>5, <1>6

\* What dispatch writes is what it has written after the last message.
LEMMA RepliesOfDispatch ==
  ASSUME NEW q \in Seq(Nat)
  PROVE  \E f : /\ f[0] = replies
                /\ \A n \in 1..Len(q) : f[n] = Answered(q[n], f[n - 1])
                /\ dispatched(q) = f[Len(q)]
<1> DEFINE K == Len(q)
           Is(f) == f = [n \in 0..K |-> IF n = 0 THEN replies ELSE Answered(q[n], f[n - 1])]
           t == CHOOSE f : Is(f)
<1>1. K \in Nat
  BY LenProperties
<1>2. dispatched(q) = t[K]
  BY DEF dispatched, Answered
<1> HIDE DEF K
<1>3. \E f : Is(f)
  BY <1>1, RepliesExist
<1>4. Is(t)
  BY <1>3
<1> HIDE DEF t
<1>5. t = [n \in 0..K |-> IF n = 0 THEN replies ELSE Answered(q[n], t[n - 1])]
  BY <1>4
<1> HIDE DEF Is
<1>6. t[0] = replies /\ \A n \in 1..K : t[n] = Answered(q[n], t[n - 1])
  <2>1. \A n \in 0..K : t[n] = IF n = 0 THEN replies ELSE Answered(q[n], t[n - 1])
    BY <1>5
  <2>2. 0 \in 0..K /\ \A n \in 1..K : n \in 0..K /\ n # 0
    BY <1>1
  <2> QED
    BY <2>1, <2>2
<1> QED
  BY <1>2, <1>6 DEF K

\* What is asked in some replies, and one more.
LEMMA AskedOnceMore ==
  ASSUME NEW rs \in Seq(Reply)
  PROVE  /\ Asked(rs) \in Seq(Nat)
         /\ \A x \in Reply : /\ Append(rs, x) \in Seq(Reply)
                             /\ Asked(Append(rs, x)) = Append(Asked(rs), x.request)
<1> DEFINE n == Len(rs)
           a == Asked(rs)
<1>1. n \in Nat /\ DOMAIN rs = 1..n /\ \A i \in 1..n : rs[i] \in Reply
  BY LenProperties, ElementOfSeq
<1> HIDE DEF n
<1>2. a = [k \in 1..n |-> rs[k].request] /\ \A i \in 1..n : rs[i].request \in Nat
  BY <1>1 DEF Asked, Reply
<1> HIDE DEF a
<1>3. a \in [1..n -> Nat]
  BY <1>2
<1>4. a \in Seq(Nat)
  BY <1>1, <1>3, SeqDef
<1>5. Len(a) = n
  <2>1. Len(a) \in Nat /\ DOMAIN a = 1..Len(a) /\ DOMAIN a = 1..n
    BY <1>3, <1>4, LenProperties
  <2>2. \A x, y \in Nat : 1..x = 1..y => x = y
    OBVIOUS
  <2> QED
    BY <1>1, <2>1, <2>2
<1>6. ASSUME NEW x \in Reply
      PROVE  Append(rs, x) \in Seq(Reply) /\ Asked(Append(rs, x)) = Append(a, x.request)
  <2> DEFINE c == Append(rs, x)
             b == Append(a, x.request)
  <2>1. c \in Seq(Reply) /\ Len(c) = n + 1 /\ (\A i \in 1..n : c[i] = rs[i]) /\ c[n + 1] = x
    BY AppendProperties DEF n
  <2>2. x.request \in Nat
    BY DEF Reply
  <2>3. b \in Seq(Nat) /\ Len(b) = n + 1 /\ (\A i \in 1..n : b[i] = a[i]) /\ b[n + 1] = x.request
    BY <1>4, <1>5, <2>2, AppendProperties
  <2> HIDE DEF c, b
  <2>4. DOMAIN c = 1..(n + 1) /\ DOMAIN b = 1..(n + 1)
    BY <2>1, <2>3, LenProperties
  <2>5. \A i \in 1..(n + 1) : i \in 1..n \/ i = n + 1
    BY <1>1
  <2>6. ASSUME NEW i \in 1..(n + 1) PROVE c[i].request = b[i]
    BY <1>2, <2>1, <2>3, <2>5
  <2>7. Asked(c) = [i \in 1..(n + 1) |-> c[i].request]
    BY <2>4 DEF Asked
  <2>8. b = [i \in 1..(n + 1) |-> b[i]]
    <3>1. b \in [1..(n + 1) -> Nat]
      BY <2>3, <2>4, SeqDef
    <3> QED
      BY <3>1
  <2>9. Asked(c) = b
    BY <2>6, <2>7, <2>8
  <2> QED
    BY <2>1, <2>9 DEF c, b
<1> QED
  BY <1>4, <1>6 DEF a

\* Messages that ascend are answered in order, and after those before them.
LEMMA WhatDispatchAnswers ==
  ASSUME NEW q \in Seq(Nat), Ascending(q),
         replies \in Seq(Reply), Ascending(Asked(replies)),
         \A x \in Range(Asked(replies)), y \in Range(q) : x < y
  PROVE  /\ dispatched(q) \in Seq(Reply) /\ Ascending(Asked(dispatched(q)))
         /\ Range(Asked(dispatched(q))) =
              Range(Asked(replies)) \cup {i \in Range(q) : stream[i] \in Requests}
<1> DEFINE K == Len(q)
           old == Range(Asked(replies))
           Some(n) == {q[i] : i \in {x \in 1..n : stream[q[x]] \in Requests}}
<1>1. K \in Nat /\ DOMAIN q = 1..K /\ \A i \in 1..K : q[i] \in Nat
  BY LenProperties, ElementOfSeq
<1>2. PICK f : /\ f[0] = replies
               /\ \A n \in 1..Len(q) : f[n] = Answered(q[n], f[n - 1])
               /\ dispatched(q) = f[Len(q)]
  BY RepliesOfDispatch
<1> HIDE DEF K
<1> DEFINE Good(n) == /\ f[n] \in Seq(Reply) /\ Ascending(Asked(f[n]))
                      /\ Range(Asked(f[n])) = old \cup Some(n)
           Bad == {n \in 0..K : ~Good(n)}
<1>3. Good(0)
  <2>1. Some(0) = {}
    OBVIOUS
  <2> QED
    BY <1>2, <2>1
<1>4. ASSUME NEW n \in 1..K, Good(n - 1) PROVE Good(n)
  <2> DEFINE k == q[n]
             rs == f[n - 1]
  <2>1. k \in Nat /\ n \in Nat /\ n - 1 \in Nat /\ k \in Range(q)
    <3>1. n \in DOMAIN q /\ n \in Nat /\ n - 1 \in Nat
      BY <1>1
    <3>2. k \in Range(q)
      BY <3>1 DEF Range
    <3> QED
      BY <1>1, <3>1, <3>2
  <2>2. rs \in Seq(Reply) /\ Ascending(Asked(rs)) /\ Range(Asked(rs)) = old \cup Some(n - 1)
    BY <1>4
  <2>3. f[n] = Answered(k, rs)
    BY <1>2 DEF K
  <2>4. \A i \in 1..n : i \in 1..(n - 1) \/ i = n
    BY <2>1
  <2>5. \A i \in 1..(n - 1) : i \in 1..n /\ i \in 1..K /\ i < n
    BY <1>1, <2>1
  <2>6. CASE stream[k] \in Requests
    <3>1. handleServerRequest(k) \in Reply /\ handleServerRequest(k).request = k
      BY <2>1 DEF handleServerRequest, answerServerRequest, Reply
    <3>2. f[n] = Append(rs, handleServerRequest(k))
      BY <2>3, <2>6 DEF Answered
    <3>3. Some(n) = Some(n - 1) \cup {k}
      <4>1. n \in 1..n
        BY <2>1
      <4>2. ASSUME NEW y \in Some(n) PROVE y \in Some(n - 1) \cup {k}
        BY <2>4
      <4>3. ASSUME NEW y \in Some(n - 1) \cup {k} PROVE y \in Some(n)
        BY <2>5, <2>6, <4>1
      <4> QED
        BY <4>2, <4>3
    <3>4. \A x \in Some(n - 1) : x < k
      <4>1. \A i \in 1..(n - 1) : q[i] < q[n]
        BY <1>1, <2>5 DEF Ascending
      <4> QED
        BY <4>1
    <3>5. \A x \in Range(Asked(rs)) : x < k
      BY <2>1, <2>2, <3>4
    <3> HIDE DEF Some, k, rs, old
    <3>6. /\ Asked(rs) \in Seq(Nat)
          /\ f[n] \in Seq(Reply) /\ Asked(f[n]) = Append(Asked(rs), k)
      BY <2>2, <3>1, <3>2, AskedOnceMore
    <3>7. Ascending(Asked(f[n])) /\ Range(Asked(f[n])) = Range(Asked(rs)) \cup {k}
      BY <2>1, <2>2, <3>5, <3>6, AscendFurther
    <3>8. Range(Asked(f[n])) = old \cup Some(n)
      BY <2>2, <3>3, <3>7
    <3> QED
      BY <3>6, <3>7, <3>8
  <2>7. CASE stream[k] \notin Requests
    <3>1. f[n] = rs
      BY <2>3, <2>7 DEF Answered
    <3>2. Some(n) = Some(n - 1)
      <4>1. ASSUME NEW y \in Some(n) PROVE y \in Some(n - 1)
        BY <2>4, <2>7
      <4>2. ASSUME NEW y \in Some(n - 1) PROVE y \in Some(n)
        BY <2>5
      <4> QED
        BY <4>1, <4>2
    <3> HIDE DEF Some, rs, old
    <3> QED
      BY <2>2, <3>1, <3>2
  <2> QED
    BY <2>6, <2>7
<1> HIDE DEF Good
<1>5. Bad = {}
  <2>1. SUFFICES ASSUME Bad # {} PROVE FALSE
    OBVIOUS
  <2> DEFINE j == Min(Bad)
  <2>2. Bad \subseteq Nat
    OBVIOUS
  <2> HIDE DEF Bad
  <2>3. j \in Bad /\ \A i \in Bad : j <= i
    BY <2>1, <2>2, MinIsLeast
  <2> HIDE DEF j
  <2>4. j \in 0..K /\ ~Good(j)
    BY <2>3 DEF Bad
  <2>5. j - 1 \in 0..K /\ j \in 1..K /\ ~(j <= j - 1)
    BY <1>1, <1>3, <2>4
  <2>6. Good(j - 1)
    BY <2>3, <2>5 DEF Bad
  <2> QED
    BY <1>4, <2>4, <2>5, <2>6
<1>6. Good(K)
  BY <1>1, <1>5
<1>7. Some(K) = {i \in Range(q) : stream[i] \in Requests}
  <2>1. \A i : i \in Range(q) <=> \E x \in 1..K : i = q[x]
    BY <1>1 DEF Range
  <2> QED
    BY <2>1
<1>8. dispatched(q) = f[K]
  BY <1>2 DEF K
<1> QED
  BY <1>6, <1>7, <1>8 DEF Good

\* What is known of a stream, r bytes of it arrived: the frames up to some frame
\* are dealt with and their messages acted on, what arrived after them is kept,
\* and no message that came as a whole is among it; after a failure, some of the
\* messages may be lost.
FramesSo(s, r, bytes, acted, answers, failed) ==
  /\ s \in Seq(Contents) /\ Unbroken(s)
  /\ r \in 0..Len(Written(s))
  /\ acted \in Seq(Nat) /\ Ascending(acted)
  /\ answers \in Seq(Reply)
  /\ failed \in BOOLEAN
  /\ \E m \in 0..Len(s) :
       /\ FrameEnd(s, m) <= r /\ bytes = Rest(s, m, r)
       /\ Range(acted) \subseteq Among(s, 0, m)
       /\ ~failed => /\ Range(acted) = Among(s, 0, m)
                     /\ \A i \in Among(s, m, Len(s)) : r < FrameEnd(s, i)
  /\ ~failed => /\ Ascending(Asked(answers))
                /\ Range(Asked(answers)) = {i \in Range(acted) : s[i] \in Requests}

FrameInv == FramesSo(stream, received, buffer, delivered, replies, closed)

\* A stream of which nothing has arrived.
LEMMA FreshStream ==
  ASSUME NEW s \in Seq(Contents), Unbroken(s), NEW failed \in BOOLEAN
  PROVE  FramesSo(s, 0, <<>>, <<>>, <<>>, failed)
<1>1. Len(s) \in Nat /\ Len(Written(s)) \in Nat /\ FrameEnd(s, 0) = 0
  BY LenProperties, WrittenShape, FrameEnds
<1>2. 0 \in 0..Len(s) /\ 0 \in 0..Len(Written(s)) /\ FrameEnd(s, 0) <= 0
  BY <1>1
<1>3. Rest(s, 0, 0) = <<>>
  <2>1. Rest(s, 0, 0) \in Seq(Bytes) /\ Len(Rest(s, 0, 0)) = 0 - FrameEnd(s, 0)
    BY <1>2, RestShape
  <2>2. Len(Rest(s, 0, 0)) = 0
    BY <1>1, <2>1
  <2> QED
    BY <2>1, <2>2, EmptySeq
<1>4. \A i \in Among(s, 0, Len(s)) : 0 < FrameEnd(s, i)
  <2>1. ASSUME NEW i \in Among(s, 0, Len(s)) PROVE 0 < FrameEnd(s, i)
    <3>1. i \in 0..Len(s) /\ 0 < i
      BY <1>1 DEF Among
    <3>2. FrameEnd(s, 0) < FrameEnd(s, i)
      BY <1>2, <3>1, FrameEnds
    <3> QED
      BY <1>1, <3>2
  <2> QED
    BY <2>1
<1>5. /\ Range(<<>>) = {} /\ Among(s, 0, 0) = {} /\ Asked(<<>>) = <<>>
      /\ \A S : Ascending(<<>>) /\ <<>> \in Seq(S)
  <2>1. DOMAIN <<>> = {}
    OBVIOUS
  <2>2. Asked(<<>>) = <<>>
    BY <2>1 DEF Asked
  <2> QED
    BY <2>1, <2>2 DEF Range, Among, Ascending
<1> QED
  BY <1>2, <1>3, <1>4, <1>5 DEF FramesSo

\* The streams of the model.
LEMMA StreamsShape ==
  ASSUME NEW s \in Streams
  PROVE  s \in Seq(Contents) /\ Unbroken(s)
<1>1. s \in BoundedSeq(Contents, MaxFrames) /\ Cardinality({i \in DOMAIN s : s[i] \in Faults}) <= 1
  BY DEF Streams, Contents
<1>2. PICK n \in 0..MaxFrames : s \in [1..n -> Contents]
  BY <1>1 DEF BoundedSeq, SeqOf
<1>3. n \in Nat
  BY <1>2, FramingAssumption
<1>4. s \in Seq(Contents)
  BY <1>2, <1>3, SeqDef
<1>5. ASSUME NEW i \in DOMAIN s, NEW j \in DOMAIN s, s[i] \in Faults, s[j] \in Faults, i # j
      PROVE  FALSE
  <2> DEFINE T == {k \in DOMAIN s : s[k] \in Faults}
  <2>1. IsFiniteSet(1..n)
    <3>1. 1 \in Int /\ n \in Int
      BY <1>3
    <3> QED
      BY <3>1, FS_Interval
  <2>2. T \in SUBSET (1..n)
    BY <1>2
  <2>3. IsFiniteSet(T) /\ Cardinality(T) \in Nat
    BY <2>1, <2>2, FS_Subset, FS_CardinalityType
  <2>4. IsFiniteSet({i}) /\ Cardinality({i}) = 1
    BY FS_Singleton
  <2>5. Cardinality({i} \cup {j}) = 2
    BY <1>5, <2>4, FS_AddElement
  <2>6. {i} \cup {j} \in SUBSET T
    BY <1>5
  <2>7. Cardinality({i} \cup {j}) <= Cardinality(T)
    BY <2>3, <2>6, FS_Subset
  <2>8. Cardinality(T) <= 1
    BY <1>1
  <2> HIDE DEF T
  <2> QED
    BY ONLY <2>3, <2>5, <2>7, <2>8
<1> QED
  BY <1>4, <1>5 DEF Unbroken

\* A chunk is decoded, and all it completes is dispatched.
LEMMA StdoutInv ==
  ASSUME FrameInv, onStdout
  PROVE  FrameInv'
<1> DEFINE s == stream
           W == Written(s)
           r == received
<1>1. /\ s \in Seq(Contents) /\ Unbroken(s)
      /\ r \in 0..Len(W)
      /\ delivered \in Seq(Nat) /\ Ascending(delivered)
      /\ replies \in Seq(Reply)
      /\ closed \in BOOLEAN
      /\ ~closed => /\ Ascending(Asked(replies))
                    /\ Range(Asked(replies)) = {i \in Range(delivered) : s[i] \in Requests}
  BY DEF FrameInv, FramesSo
<1>2. PICK m0 \in 0..Len(s) :
        /\ FrameEnd(s, m0) <= r /\ buffer = Rest(s, m0, r)
        /\ Range(delivered) \subseteq Among(s, 0, m0)
        /\ ~closed => /\ Range(delivered) = Among(s, 0, m0)
                      /\ \A i \in Among(s, m0, Len(s)) : r < FrameEnd(s, i)
  BY DEF FrameInv, FramesSo
<1>3. PICK n \in 1..(Len(W) - r) :
        LET d == push(SubSeq(W, r + 1, r + n))
        IN  /\ received' = r + n
            /\ buffer' = d.bytes
            /\ closed' = (closed \/ d.state = "thrown")
            /\ delivered' = IF d.state = "thrown" THEN delivered ELSE delivered \o d.messages
            /\ replies' = IF closed' THEN replies ELSE dispatched(d.messages)
            /\ UNCHANGED stream
  BY DEF onStdout
<1> DEFINE d == push(SubSeq(W, r + 1, r + n))
<1>4. /\ received' = r + n
      /\ buffer' = d.bytes
      /\ closed' = (closed \/ d.state = "thrown")
      /\ delivered' = IF d.state = "thrown" THEN delivered ELSE delivered \o d.messages
      /\ replies' = IF closed' THEN replies ELSE dispatched(d.messages)
      /\ stream' = s
  BY <1>3
<1>5. Len(W) \in Nat /\ Len(s) \in Nat /\ FrameEnd(s, m0) \in Nat /\ m0 \in Nat
  BY <1>1, WrittenShape, LenProperties, FrameEnds
<1>6. r + n \in 0..Len(W) /\ FrameEnd(s, m0) <= r + n
  BY <1>1, <1>2, <1>5
<1>7. d = drained(Rest(s, m0, r + n))
  <2>1. Rest(s, m0, r) \o SubSeq(W, r + 1, r + n) = Rest(s, m0, r + n)
    BY <1>1, <1>2, <1>3, RestGrows
  <2> QED
    BY <1>2, <2>1 DEF push
<1> HIDE DEF d
<1>8. /\ d \in Drain /\ d.state \in {"waiting", "thrown"}
      /\ \E m \in m0..Len(s) :
           /\ FrameEnd(s, m) <= r + n /\ d.bytes = Rest(s, m, r + n)
           /\ d.state = "waiting" =>
                /\ Ascending(d.messages) /\ Range(d.messages) = Among(s, m0, m)
                /\ \A i \in Among(s, m, Len(s)) : r + n < FrameEnd(s, i)
  BY <1>1, <1>6, <1>7, WhatPushFinds
<1>9. PICK m \in m0..Len(s) :
        /\ FrameEnd(s, m) <= r + n /\ d.bytes = Rest(s, m, r + n)
        /\ d.state = "waiting" =>
             /\ Ascending(d.messages) /\ Range(d.messages) = Among(s, m0, m)
             /\ \A i \in Among(s, m, Len(s)) : r + n < FrameEnd(s, i)
  BY <1>8
<1>10. /\ m \in 0..Len(s) /\ m \in Nat /\ m0 <= m
       /\ Among(s, 0, m) = Among(s, 0, m0) \cup Among(s, m0, m)
  <2>1. m \in 0..Len(s) /\ m \in Nat /\ m0 <= m
    BY <1>5
  <2>2. \A i : i \in (0 + 1)..m <=> i \in (0 + 1)..m0 \/ i \in (m0 + 1)..m
    BY <1>5, <2>1
  <2> QED
    BY <2>1, <2>2 DEF Among
<1>11. d.messages \in Seq(Nat)
  BY <1>8 DEF Drain
<1>12. CASE d.state = "thrown"
  <2>1. /\ closed' = TRUE /\ delivered' = delivered /\ replies' = replies
    BY <1>4, <1>12
  <2>2. Range(delivered) \subseteq Among(s, 0, m)
    BY <1>2, <1>10
  <2>3. FramesSo(s, r + n, d.bytes, delivered, replies, TRUE)
    BY <1>1, <1>6, <1>9, <1>10, <2>2 DEF FramesSo
  <2> QED
    BY <1>4, <2>1, <2>3 DEF FrameInv
<1>13. CASE d.state = "waiting"
  <2> DEFINE q == d.messages
             acted == delivered \o q
  <2>1. closed' = closed /\ delivered' = acted
    BY <1>1, <1>4, <1>13
  <2>2. /\ q \in Seq(Nat) /\ Ascending(q) /\ Range(q) = Among(s, m0, m)
        /\ \A i \in Among(s, m, Len(s)) : r + n < FrameEnd(s, i)
    BY <1>9, <1>11, <1>13
  <2>3. \A x \in Among(s, 0, m0), y \in Among(s, m0, m) : x < y
    BY <1>5, <1>10 DEF Among
  <2> HIDE DEF q
  <2>4. /\ acted \in Seq(Nat) /\ Ascending(acted)
        /\ Range(acted) = Range(delivered) \cup Range(q)
    <3>1. \A x \in Range(delivered), y \in Range(q) : x < y
      BY <1>2, <2>2, <2>3
    <3> QED
      BY <1>1, <2>2, <3>1, AscendTogether
  <2> HIDE DEF acted
  <2>5. Range(acted) \subseteq Among(s, 0, m)
    BY <1>2, <1>10, <2>2, <2>4
  <2>6. ~closed => Range(acted) = Among(s, 0, m)
    BY <1>2, <1>10, <2>2, <2>4
  <2>7. CASE closed
    <3>1. replies' = replies /\ closed'
      BY <1>4, <2>1, <2>7
    <3>2. FramesSo(s, r + n, d.bytes, acted, replies, closed)
      BY <1>1, <1>6, <1>9, <1>10, <2>4, <2>5, <2>7 DEF FramesSo
    <3> QED
      BY <1>4, <2>1, <3>1, <3>2 DEF FrameInv
  <2>8. CASE ~closed
    <3> DEFINE answers == dispatched(q)
    <3>1. replies' = answers
      BY <1>4, <2>1, <2>8 DEF q
    <3>2. Range(Asked(replies)) = {i \in Range(delivered) : s[i] \in Requests}
          /\ Ascending(Asked(replies))
      BY <1>1, <2>8
    <3>3. \A x \in Range(Asked(replies)), y \in Range(q) : x < y
      BY <1>2, <2>2, <2>3, <3>2
    <3>4. /\ answers \in Seq(Reply) /\ Ascending(Asked(answers))
          /\ Range(Asked(answers)) =
               Range(Asked(replies)) \cup {i \in Range(q) : stream[i] \in Requests}
      BY <1>1, <2>2, <3>2, <3>3, WhatDispatchAnswers
    <3> HIDE DEF answers
    <3>5. Range(Asked(answers)) = {i \in Range(acted) : s[i] \in Requests}
      BY <2>4, <3>2, <3>4
    <3>6. FramesSo(s, r + n, d.bytes, acted, answers, closed)
      BY <1>1, <1>6, <1>9, <1>10, <2>2, <2>4, <2>5, <2>6, <2>8, <3>4, <3>5 DEF FramesSo
    <3> QED
      BY <1>4, <2>1, <3>1, <3>6 DEF FrameInv
  <2> QED
    BY <2>7, <2>8
<1> QED
  BY <1>8, <1>12, <1>13

\* What follows the handshake is another stream.
LEMMA HangupInv ==
  ASSUME FrameInv, Hangup
  PROVE  FrameInv'
<1>1. <<>> \in Seq(Contents) /\ Unbroken(<<>>)
  BY DEF Unbroken
<1>2. closed \in BOOLEAN
  BY DEF FrameInv, FramesSo
<1>3. FramesSo(<<>>, 0, <<>>, <<>>, <<>>, closed)
  BY <1>1, <1>2, FreshStream
<1>4. /\ stream' = <<>> /\ received' = 0 /\ buffer' = <<>>
      /\ delivered' = <<>> /\ replies' = <<>> /\ closed' = closed
  BY DEF Hangup
<1> QED
  BY <1>3, <1>4 DEF FrameInv

(* Theorems *)

\* What each phase knows holds in every state.
THEOREM DocInvAlways == Spec => []DocInv
<1>1. Init => DocInv
  BY InitInv
<1>2. DocInv /\ [Next]_vars => DocInv'
  <2> SUFFICES ASSUME DocInv, [Next]_vars PROVE DocInv'
    OBVIOUS
  <2>1. CASE Receive
    BY <2>1, ReceiveInv
  <2>2. CASE Negotiate
    BY <2>2, NegotiateInv
  <2>3. CASE EncodePosition \/ EncodeDiagnostic
    BY <2>3, EncodeInv
  <2>4. CASE Answer
    BY <2>4, AnswerInv
  <2>5. CASE StrayAnswer
    BY <2>5, StrayAnswerInv
  <2>6. CASE RefuseAnswer \/ Undecodable \/ Applied
    BY <2>6, EndInv
  <2>7. CASE DecodeEdits
    BY <2>7, DecodeEditsInv
  <2>8. CASE LocateEdits
    BY <2>8, LocateEditsInv
  <2>9. CASE OrderEdits
    BY <2>9, OrderEditsInv
  <2>10. CASE ApplyLast
    BY <2>10, ApplyLastInv
  <2>11. CASE UNCHANGED vars
    BY <2>11, StutterInv
  <2> QED
    BY <2>1, <2>2, <2>3, <2>4, <2>5, <2>6, <2>7, <2>8, <2>9, <2>10, <2>11 DEF Next
<1> QED
  BY <1>1, <1>2, PTL DEF Spec

\* Types; applyEdits never cuts the text outside of it, whatever ranges came.
THEOREM TypeCorrect == Spec => []TypeOK
<1>1. DocInv => TypeOK
  BY DEF DocInv
<1> QED
  BY <1>1, DocInvAlways, PTL

\* Between the document and the server no position moves (PositionCodec).
THEOREM NoPositionMoves == Spec => []PositionsAreExact
<1>1. DocInv => PositionsAreExact
  BY DEF DocInv, AskedInv, LocatedInv, PositionsAreExact
<1> QED
  BY <1>1, DocInvAlways, PTL

\* Legal edits are applied as if all at once, whatever their order in the answer,
\* or refused for an overlap; a single range, even one the protocol forbids,
\* changes nothing outside of it (applyEdits).
THEOREM EditsTakeEffectAtOnce == Spec => []EditsAreSimultaneous
<1>1. DocInv => EditsAreSimultaneous
  <2> SUFFICES ASSUME DocInv PROVE EditsAreSimultaneous
    OBVIOUS
  <2>1. ASSUME meant # None, phase = "done"
        PROVE  Simultaneous(target, meant, DOMAIN meant, result)
    <3>1. located = <<>>
      BY <2>1 DEF DocInv, MadeInv
    <3>2. PICK n \in 0..Most : \E c \in [1..n -> 1..n] :
            /\ DOMAIN meant = 1..n
            /\ \A k \in 1..n : \E r \in 1..n : c[r] = k
            /\ Simultaneous(target, meant, {c[r] : r \in (Len(located) + 1)..n}, result)
      BY <2>1 DEF DocInv, MadeInv
    <3>3. PICK c \in [1..n -> 1..n] :
            /\ DOMAIN meant = 1..n
            /\ \A k \in 1..n : \E r \in 1..n : c[r] = k
            /\ Simultaneous(target, meant, {c[r] : r \in (Len(located) + 1)..n}, result)
      BY <3>2
    <3>4. {c[r] : r \in 1..n} = 1..n
      BY <3>3
    <3>5. (Len(located) + 1)..n = 1..n
      BY <3>1
    <3> QED
      BY <3>3, <3>4, <3>5
  <2>2. ASSUME phase = "done", Len(edits) = 1 PROVE RestStays
    BY <2>2 DEF DocInv, RestInv
  <2>3. RefusedForOverlap
    <3>1. \A i, j : Apart(i, j) <=> Clear(meant, i, j)
      BY DEF Apart, Clear
    <3> QED
      BY <3>1 DEF DocInv, RefusedInv, RefusedForOverlap
  <2> QED
    BY <2>1, <2>2, <2>3 DEF EditsAreSimultaneous
<1> QED
  BY <1>1, DocInvAlways, PTL

\* What the decoder and the connection know of the stream holds in every state.
THEOREM FrameInvAlways == Spec => []FrameInv
<1>1. Init => FrameInv
  <2> SUFFICES ASSUME Init PROVE FrameInv
    OBVIOUS
  <2>1. /\ stream \in Streams /\ received = 0 /\ buffer = <<>>
        /\ delivered = <<>> /\ replies = <<>> /\ closed = FALSE
    BY DEF Init, FrameInit
  <2>2. FramesSo(stream, 0, <<>>, <<>>, <<>>, FALSE)
    BY <2>1, StreamsShape, FreshStream
  <2> QED
    BY <2>1, <2>2 DEF FrameInv
<1>2. FrameInv /\ [Next]_vars => FrameInv'
  <2> SUFFICES ASSUME FrameInv, [Next]_vars PROVE FrameInv'
    OBVIOUS
  <2>1. CASE Receive
    BY <2>1, StdoutInv DEF Receive
  <2>2. CASE Negotiate
    BY <2>2, HangupInv DEF Negotiate
  <2>3. CASE UNCHANGED frameVars
    BY <2>3 DEF FrameInv, frameVars
  <2>4. ASSUME [Next]_vars, ~Receive, ~Negotiate PROVE UNCHANGED frameVars
    BY <2>4 DEF Next, vars, frameVars, EncodePosition, EncodeDiagnostic, Answer, StrayAnswer, RefuseAnswer,
                Undecodable, DecodeEdits, LocateEdits, OrderEdits, ApplyLast, Applied
  <2> QED
    BY <2>1, <2>2, <2>3, <2>4
<1> QED
  BY <1>1, <1>2, PTL DEF Spec

\* Whatever the chunks and the bodies, the client acts on each message as soon as
\* its last byte is there, once, in order and never on half of one, until a broken
\* frame fails the connection; and answers every request it acted on
\* (MessageDecoder, LspConnection.dispatch).
THEOREM MessagesArriveOnce == Spec => []FramesAreExact
<1>1. FrameInv => FramesAreExact
  <2> SUFFICES ASSUME FrameInv PROVE FramesAreExact
    OBVIOUS
  <2> DEFINE s == stream
             r == received
             n == Len(s)
  <2>1. /\ s \in Seq(Contents) /\ r \in 0..Len(Written(s)) /\ Ascending(delivered)
        /\ ~closed => /\ Ascending(Asked(replies))
                      /\ Range(Asked(replies)) = {i \in Range(delivered) : s[i] \in Requests}
    BY DEF FrameInv, FramesSo
  <2>2. PICK m \in 0..n :
          /\ FrameEnd(s, m) <= r
          /\ Range(delivered) \subseteq Among(s, 0, m)
          /\ ~closed => /\ Range(delivered) = Among(s, 0, m)
                        /\ \A i \in Among(s, m, n) : r < FrameEnd(s, i)
    BY DEF FrameInv, FramesSo
  <2>3. n \in Nat /\ DOMAIN s = 1..n /\ m \in Nat /\ r \in Nat
    <3>1. Len(Written(s)) \in Nat /\ n \in Nat /\ DOMAIN s = 1..n
      BY <2>1, WrittenShape, LenProperties
    <3> QED
      BY <2>1, <3>1
  <2>4. \A i \in 0..n : FrameEnd(s, i) \in Nat
    BY <2>1, FrameEnds
  <2>5. ASSUME NEW i \in Among(s, 0, m) PROVE i \in Arrived
    <3>1. i \in 1..n /\ i \in 0..n /\ s[i] \in Messages /\ (i = m \/ i < m)
      BY <2>3 DEF Among
    <3>2. i < m => FrameEnd(s, i) < FrameEnd(s, m)
      BY <2>1, <3>1, FrameEnds
    <3>3. FrameEnd(s, i) <= r
      BY <2>2, <2>3, <2>4, <3>1, <3>2
    <3> QED
      BY <2>3, <3>1, <3>3 DEF Arrived
  <2>6. ASSUME ~closed, NEW i \in Arrived PROVE i \in Among(s, 0, m)
    <3>1. i \in 1..n /\ i \in 0..n /\ s[i] \in Messages /\ FrameEnd(s, i) <= r
      BY <2>3 DEF Arrived
    <3>2. i \notin Among(s, m, n)
      BY <2>2, <2>3, <2>4, <2>6, <3>1
    <3> QED
      BY <2>3, <3>1, <3>2 DEF Among
  <2>7. Range(delivered) \subseteq Arrived /\ (~closed => Range(delivered) = Arrived)
    BY <2>2, <2>5, <2>6
  <2>8. Asked(replies) = [k \in DOMAIN replies |-> replies[k].request]
    BY DEF Asked
  <2>9. Range(Asked(replies)) = {replies[k].request : k \in DOMAIN replies}
    BY <2>8 DEF Range
  <2> QED
    BY <2>1, <2>7, <2>8, <2>9 DEF FramesAreExact
<1> QED
  BY <1>1, FrameInvAlways, PTL
=============================================================================
