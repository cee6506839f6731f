----------------------------- MODULE DocumentText -----------------------------
(***************************************************************************)
(* How positions and edits cross between the text of a document and a      *)
(* server that counts in UTF-16 units, UTF-8 bytes or code points: the     *)
(* PositionCodec and the normalisation of edits (src/translate.ts), what   *)
(* LspActionInstance and LspActionClient decode them with (src/client.ts)  *)
(* and their application (src/edits.ts).  The handshake, whose response    *)
(* arrives among other frames (Framing), settles how the server counts.    *)
(* Then one request carries a position out and brings edits of one         *)
(* document back, the one of the request or another; they are collected,   *)
(* decoded, located, ordered and applied from the last to the first, or    *)
(* refused.                                                                *)
(*                                                                         *)
(* A text is a sequence of UTF-16 units, known by the code point they are  *)
(* of.  The text that decodes the edits is the one they are applied to, or *)
(* the text of the other document that a rename reads: what happens when   *)
(* a file changes in between is the matter of FileWrites.                  *)
(***************************************************************************)
EXTENDS Framing

CONSTANTS
  Documents,  \* texts, in UTF-16 units
  MaxEdits,   \* edits of a formatting,
  MaxListed,  \* of a workspace edit and
  MaxForeign, \* of one about another document; bound the model
  NewText,    \* the texts of the edits, in the order they are listed
  MaxLine,    \* lines and
  MaxChar,    \* characters of the stray positions a server may send; bound it
  None

\* A code point outside the basic plane has two units, and no unit stands alone.
Unit == {"char", "newline", "accent", "high", "low"}
ASSUME DocumentsAssumption ==
  \A t \in Documents :
    /\ t \in Seq(Unit)
    /\ \A i \in 1..Len(t) : t[i] = "high" => i < Len(t) /\ t[i + 1] = "low"
    /\ \A i \in 1..Len(t) : t[i] = "low" => i > 1 /\ t[i - 1] = "high"
ASSUME EditsAssumption ==
  /\ NewText \in Seq(STRING) \ {<<>>}
  /\ {MaxEdits, MaxListed, MaxForeign} \subseteq 0..Len(NewText)
ASSUME BoundsAssumption == {MaxLine, MaxChar} \subseteq Nat

Encodings == {"utf-16", "utf-8", "utf-32"}

VARIABLES
  text,     \* the document of the request, in UTF-16 units
  encoding, \* what the server negotiated
  cursor,   \* where the request points, as an offset of a code point
  phase,    \* "connecting", "asking", "asked", "answered", "decoded", "located", "applying",
            \* or how it ended: "done", "refused", "undecodable", "malformed" or "failed"
  sent,     \* the position on the wire
  answer,   \* the result on the wire
  target,   \* the document the answer edits
  meant,    \* history: the offsets a server that obeys the protocol means
  edits,    \* the edits, decoded
  located,  \* the edits still to apply, by offset
  result

vars == <<frameVars, text, encoding, cursor, phase, sent, answer, target, meant, edits, located, result>>

Position == [line : Nat, character : Nat]
Offsets(t) == 0..Len(t)

(* What the protocol means by a position *)

Width(unit) ==
  CASE encoding = "utf-16" -> 1
    [] encoding = "utf-8"  -> CASE unit = "accent" -> 2
                                [] unit = "high"   -> 0
                                [] unit = "low"    -> 4
                                [] OTHER           -> 1
    [] encoding = "utf-32" -> IF unit = "high" THEN 0 ELSE 1

SplitsPair(t, o) == o < Len(t) /\ t[o + 1] = "low"
Boundaries(t) == {o \in Offsets(t) : ~SplitsPair(t, o)}

Newlines(t, o) == {i \in 1..o : t[i] = "newline"}
LineStart(t, o) == Max({0} \cup Newlines(t, o))

\* What the units between two offsets are long in the server's encoding: each
\* has as many parts as its width.
Parts(t, from, to) == {p \in ((from + 1)..to) \X (1..4) : p[2] <= Width(t[p[1]])}
Measure(t, from, to) == Cardinality(Parts(t, from, to))

\* The position of a code point, in the server's encoding and in utf-16.
WirePosition(t, o) ==
  [line |-> Cardinality(Newlines(t, o)),
   character |-> Measure(t, LineStart(t, o), o)]
DocPosition(t, o) ==
  [line |-> Cardinality(Newlines(t, o)), character |-> o - LineStart(t, o)]

(* PositionCodec *)

\* Where each line starts: at the newline, or the start of the text, with as many
\* newlines up to it as there are lines before.
lineStarts(t) ==
  [n \in 1..(Cardinality(Newlines(t, Len(t))) + 1) |->
     CHOOSE s \in {0} \cup Newlines(t, Len(t)) : Cardinality(Newlines(t, s)) = n - 1]

\* The units before an offset as the server counts them: both halves of a
\* surrogate pair are at the offset before it.
table(t, o) == Measure(t, 0, o)

clampedLine(t, position) ==
  IF position.line < Len(lineStarts(t)) THEN position.line ELSE Len(lineStarts(t)) - 1

\* The offset where the next line starts, or the end of the text.
lineLimit(t, line) ==
  IF line + 1 < Len(lineStarts(t)) THEN lineStarts(t)[line + 2] ELSE Len(t)

encode(t, position) ==
  LET line      == clampedLine(t, position)
      lineStart == lineStarts(t)[line + 1]
      character == Min({position.character, lineLimit(t, line) - lineStart})
  IN  IF encoding = "utf-16" THEN position
      ELSE [line |-> line, character |-> table(t, lineStart + character) - table(t, lineStart)]

\* Mutant: the search ends past the entries that equal the goal.
upperBound(t, from, goal) == Min({o \in from..Len(t) : table(t, o) > goal} \cup {Len(t)})

\* The first offset from `from` on whose table entry is no less than the goal.
lowerBound(t, from, goal) == Min({o \in from..Len(t) : table(t, o) >= goal} \cup {Len(t)})

decode(t, position) ==
  LET line      == clampedLine(t, position)
      lineStart == lineStarts(t)[line + 1]
  IN  IF encoding = "utf-16" THEN position
      ELSE [line |-> line,
            character |->
              lowerBound(t, lineStart, table(t, lineStart) + position.character) - lineStart]

convertRange(t, range) == [start |-> decode(t, range.start), end |-> decode(t, range.end)]

decodeTextEdits(t, list) == [k \in DOMAIN list |-> convertRange(t, list[k])]

(* applyEdits *)

\* Where each line starts, with the end of the text as a sentinel.
computeLineStarts(t) == Append(lineStarts(t), Len(t))

\* Mutant: the character is not checked against the line.
outOfLines(t, position) == position.line >= Len(computeLineStarts(t)) - 1

outOfBounds(t, position) ==
  \/ position.line >= Len(computeLineStarts(t)) - 1
  \/ LET nextStart == computeLineStarts(t)[position.line + 2]
         lineEnd   == IF nextStart = Len(t) THEN Len(t) ELSE nextStart - 1
     IN  computeLineStarts(t)[position.line + 1] + position.character > lineEnd

offsetAt(t, position) == computeLineStarts(t)[position.line + 1] + position.character

locate(t, list) ==
  [k \in DOMAIN list |-> [start   |-> offsetAt(t, list[k].start),
                          end     |-> offsetAt(t, list[k].end),
                          newText |-> NewText[k]]]

\* Mutant: edits with the same start in the opposite order.
precedesInReverse(list, i, j) ==
  \/ list[i].start < list[j].start
  \/ list[i].start = list[j].start /\ i > j

\* By start, and edits with the same start in the order of the answer.
precedes(list, i, j) ==
  \/ list[i].start < list[j].start
  \/ list[i].start = list[j].start /\ i < j

Place(list, k) == 1 + Cardinality({j \in DOMAIN list : precedes(list, j, k)})

inOrder(list) == [r \in DOMAIN list |-> list[CHOOSE k \in DOMAIN list : Place(list, k) = r]]

overlapping(list) == \E k \in 2..Len(list) : list[k].start < list[k - 1].end

replace(units, edit) ==
  SubSeq(units, 1, edit.start) \o <<edit.newText>> \o SubSeq(units, edit.end + 1, Len(units))

(* What an answer says, and what it is decoded with *)

\* The result of a formatting is a list of edits.  A code action or a rename is
\* a workspace edit: it may list the edits of a document as changes, as
\* documentChanges, or some of them here and the others there; and it may come
\* with a file operation, a command, a documentChange that is none ("entry"), or
\* an edit or a list of edits that is none ("malformed").
Kinds == {"format", "codeAction", "rename"}
Extras == {"nothing", "operation", "entry", "command", "malformed"}

\* Among documentChanges, a code action skips them and a rename refuses them.
Skippable == {"operation", "entry"}

\* Mutant: documentChanges take the place of changes.
documentChangesOnly(a) == IF a.documentChanges # <<>> THEN a.documentChanges ELSE a.changes

\* collectWorkspaceEdits: changes first, then documentChanges.
collectWorkspaceEdits(a) == a.changes \o a.documentChanges

\* Mutant: everything is decoded with the text of the request.
requestText(a) == text

\* A rename is decoded with the text of the document it edits, which is read
\* for that; everything else with the text of the request.
decodedWith(a) == IF a.kind = "rename" THEN target ELSE text

\* Whether the text that decodes the edits is the text they are about: not for
\* a code action that edits another document, unless nothing is decoded.
Faithful == answer.kind # "codeAction" \/ answer.own \/ encoding = "utf-16"

(* One request *)

Init ==
  /\ FrameInit
  /\ text = <<>>
  /\ encoding = None
  /\ cursor = 0
  /\ phase = "connecting"
  /\ sent = None
  /\ answer = None
  /\ target = <<>>
  /\ meant = None
  /\ edits = <<>>
  /\ located = <<>>
  /\ result = <<>>

docVars == <<text, encoding, cursor, sent, answer, target, meant, edits, located, result>>

\* A chunk arrives while the client waits; an error of the connection fails it.
Receive ==
  /\ phase \in {"connecting", "failed"}
  /\ ~HasResponse
  /\ onStdout
  /\ phase' = IF closed' THEN "failed" ELSE "connecting"
  /\ UNCHANGED docVars

\* negotiatePositionEncoding: utf-16 unless the server says otherwise, and no
\* connection to one that counts in another way.  What comes next is a request
\* about some place of a document.
Negotiate ==
  /\ phase = "connecting" /\ HasResponse
  /\ \E advertised \in Encodings \cup {"utf-7", None} :
       IF advertised = "utf-7"
         THEN phase' = "failed" /\ UNCHANGED docVars
         ELSE /\ phase' = "asking"
              /\ encoding' = IF advertised = None THEN "utf-16" ELSE advertised
              /\ text' \in Documents
              /\ cursor' \in {o \in Offsets(text') : ~SplitsPair(text', o)}
              /\ UNCHANGED <<sent, answer, target, meant, edits, located, result>>
  /\ Hangup

\* The cursor, or an end of the range asked about, goes out in the server's encoding.
EncodePosition ==
  /\ phase = "asking"
  /\ phase' = "asked"
  /\ sent' = encode(text, DocPosition(text, cursor))
  /\ UNCHANGED <<frameVars, text, encoding, cursor, answer, target, meant, edits, located, result>>

\* The context of a code action goes out: the diagnostics that the server had
\* reported, decoded when they came in and encoded again.
EncodeDiagnostic ==
  /\ phase = "asking"
  /\ phase' = "asked"
  /\ sent' = encode(text, decode(text, WirePosition(text, cursor)))
  /\ UNCHANGED <<frameVars, text, encoding, cursor, answer, target, meant, edits, located, result>>

Ranges(t) == {r \in [start : Boundaries(t), end : Boundaries(t)] : r.start <= r.end}

\* What the server answers: edits of the document of the request, or of another
\* one, between code points of its text ...
Answer ==
  /\ phase = "asked"
  /\ phase' = "answered"
  /\ sent' = None /\ cursor' = 0
  /\ \E kind \in Kinds, own \in BOOLEAN, t \in Documents :
       /\ kind = "format" => own
       /\ own => t = text
       /\ target' = t
       /\ \E n \in 0..(IF kind = "format" THEN MaxEdits ELSE IF own THEN MaxListed ELSE MaxForeign) :
          \E list \in [1..n -> Ranges(t)], split \in 0..n, extra \in Extras :
            /\ kind = "format" => split = n /\ extra \in {"nothing", "malformed"}
            /\ extra # "nothing" => n = 1 /\ split = 0
            /\ extra = "command" => kind = "codeAction"
            /\ meant' = list
            /\ LET wire == [k \in 1..n |-> [start |-> WirePosition(t, list[k].start),
                                            end   |-> WirePosition(t, list[k].end)]]
               IN  answer' = [kind |-> kind, own |-> own, extra |-> extra,
                              changes |-> SubSeq(wire, 1, split),
                              documentChanges |-> SubSeq(wire, split + 1, n)]
  /\ UNCHANGED <<frameVars, text, encoding, edits, located, result>>

\* ... or a range that may lie anywhere.
StrayAnswer ==
  /\ phase = "asked"
  /\ phase' = "answered"
  /\ sent' = None /\ cursor' = 0
  /\ target' = text
  /\ \E start, end \in [line : 0..MaxLine, character : 0..MaxChar] :
       answer' = [kind |-> "format", own |-> TRUE, extra |-> "nothing",
                  changes |-> <<[start |-> start, end |-> end]>>, documentChanges |-> <<>>]
  /\ UNCHANGED <<frameVars, text, encoding, meant, edits, located, result>>

\* A malformed edit fails the whole answer, and in a rename so does a file
\* operation and whatever else is no list of edits of a document.
RefuseAnswer ==
  /\ phase = "answered"
  /\ answer.extra = "malformed" \/ (answer.extra \in Skippable /\ answer.kind = "rename")
  /\ phase' = "malformed"
  /\ UNCHANGED <<frameVars, text, encoding, cursor, sent, answer, target, meant, edits, located, result>>

Readable ==
  /\ phase = "answered"
  /\ answer.extra # "malformed"
  /\ answer.extra \in Skippable => answer.kind = "codeAction"

\* A rename's edits of another document need its text, unless the server counts
\* as the text does: it may be outside the workspace or unreadable.
Undecodable ==
  /\ Readable
  /\ answer.kind = "rename" /\ ~answer.own
  /\ encoding # "utf-16"
  /\ phase' = "undecodable"
  /\ UNCHANGED <<frameVars, text, encoding, cursor, sent, answer, target, meant, edits, located, result>>

\* A code action with a command has no edits, whatever else it says.  Other edits
\* are decoded; what is skippable is left out.  History ends where the edits are
\* not taken as the server means them.
DecodeEdits ==
  /\ Readable
  /\ phase' = "decoded"
  /\ edits' = IF answer.extra = "command" THEN <<>>
              ELSE decodeTextEdits(decodedWith(answer), collectWorkspaceEdits(answer))
  /\ meant' = IF answer.extra = "command" \/ ~Faithful THEN None ELSE meant
  /\ answer' = None
  /\ result' = target
  /\ UNCHANGED <<frameVars, text, encoding, cursor, sent, target, located>>

LocateEdits ==
  /\ phase = "decoded"
  /\ IF \E k \in DOMAIN edits : outOfBounds(target, edits[k].start) \/ outOfBounds(target, edits[k].end)
     THEN phase' = "refused" /\ UNCHANGED located
     ELSE phase' = "located" /\ located' = locate(target, edits)
  /\ UNCHANGED <<frameVars, text, encoding, cursor, sent, answer, target, meant, edits, result>>

OrderEdits ==
  /\ phase = "located"
  /\ located' = inOrder(located)
  /\ phase' = IF overlapping(located') THEN "refused" ELSE "applying"
  /\ UNCHANGED <<frameVars, text, encoding, cursor, sent, answer, target, meant, edits, result>>

ApplyLast ==
  /\ phase = "applying"
  /\ located # <<>>
  /\ result' = replace(result, Last(located))
  /\ located' = Front(located)
  /\ UNCHANGED <<frameVars, text, encoding, cursor, phase, sent, answer, target, meant, edits>>

Applied ==
  /\ phase = "applying"
  /\ located = <<>>
  /\ phase' = "done"
  /\ UNCHANGED <<frameVars, text, encoding, cursor, sent, answer, target, meant, edits, located, result>>

Next ==
  \/ Receive \/ Negotiate \/ EncodePosition \/ EncodeDiagnostic
  \/ Answer \/ StrayAnswer \/ RefuseAnswer \/ Undecodable \/ DecodeEdits
  \/ LocateEdits \/ OrderEdits \/ ApplyLast \/ Applied

Spec == Init /\ [][Next]_vars

(* Properties *)

\* Types; an offset to cut the text at, even one a stray position was decoded
\* to, lies in the text.
TypeOK ==
  /\ text \in Documents \cup {<<>>} /\ encoding \in Encodings \cup {None}
  /\ cursor \in Boundaries(text)
  /\ phase \in {"connecting", "asking", "asked", "answered", "decoded", "located", "applying",
                "done", "refused", "undecodable", "malformed", "failed"}
  /\ sent \in Position \cup {None}
  /\ target \in Documents \cup {<<>>}
  /\ edits \in Seq([start : Position, end : Position])
  /\ located \in Seq([start : Offsets(target), end : Offsets(target), newText : Range(NewText)])
  /\ result \in Seq(Range(target) \cup Range(NewText))

\* Between the document and the server no position moves: the cursor, and a
\* diagnostic that came from the server, reach it as the code point they are at;
\* an edit comes back as the offsets the server meant, in the document it is
\* about, except for a code action that edits another document in bytes or code
\* points; and no position a server sends in bytes or code points, legal or not,
\* cuts a surrogate pair of the document it is decoded with.
PositionsAreExact ==
  /\ sent # None => sent = WirePosition(text, cursor)
  /\ phase = "located" /\ meant # None => \A k \in DOMAIN located :
       located[k].start = meant[k].start /\ located[k].end = meant[k].end
  /\ phase = "located" /\ encoding # "utf-16" /\ target = text => \A k \in DOMAIN located :
       {located[k].start, located[k].end} \subseteq Boundaries(text)

\* Whether edit i of an answer may stand before edit j.
Apart(i, j) ==
  \/ meant[i].end <= meant[j].start
  \/ meant[j].end <= meant[i].start /\ meant[j].start < meant[i].start

\* What some edits of a list, made at once, leave of a text, and how many units of
\* it are at an offset or before.
Kept(t, list, made) ==
  {i \in 1..Len(t) : \A k \in made : ~(list[k].start < i /\ i <= list[k].end)}
KeptTo(t, list, made, o) == Cardinality({i \in Kept(t, list, made) : i <= o})

\* Some edits of a list made at once: a unit that none of them covers comes after
\* the new texts of those that start before it; a new text after the units before
\* its edit, and after those of the edits that start before or were listed before
\* it; and nothing else is there.
Simultaneous(t, list, made, units) ==
  /\ Len(units) = Cardinality(Kept(t, list, made)) + Cardinality(made)
  /\ \A i \in Kept(t, list, made) :
       units[KeptTo(t, list, made, i) + Cardinality({k \in made : list[k].start < i})] = t[i]
  /\ \A k \in made :
       units[KeptTo(t, list, made, list[k].start)
               + Cardinality({m \in made : \/ list[m].start < list[k].start
                                           \/ list[m].start = list[k].start /\ m <= k})] = NewText[k]

\* A single edit leaves the text before and after its range as it is, even when
\* the range ends before it starts.
RestStays ==
  LET ends == {offsetAt(target, edits[1].start), offsetAt(target, edits[1].end)}
  IN  /\ \A i \in 1..Min(ends) : result[i] = target[i]
      /\ \A i \in 0..(Len(target) - Max(ends) - 1) : result[Len(result) - i] = target[Len(target) - i]

\* Legal edits are refused exactly when two of them overlap or a replacement is
\* listed before an insertion at its start.
RefusedForOverlap ==
  meant # None /\ phase \in {"done", "refused"} =>
    (phase = "done" <=> \A i, j \in DOMAIN meant : i < j => Apart(i, j))

\* Legal edits are applied as if all at once, whatever their order in the answer
\* and wherever it lists them, or refused for an overlap; a range that the
\* protocol forbids changes nothing outside of it.
EditsAreSimultaneous ==
  /\ meant # None /\ phase = "done" => Simultaneous(target, meant, DOMAIN meant, result)
  /\ RefusedForOverlap
  /\ phase = "done" /\ Len(edits) = 1 => RestStays
=============================================================================
