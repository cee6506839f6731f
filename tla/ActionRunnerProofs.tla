-------------------------- MODULE ActionRunnerProofs --------------------------
(***************************************************************************)
(* What a seam is taken for is what it is, the own client never duplicates *)
(* a seam that serves, and an undisturbed walk finds the entry that is to  *)
(* serve a file (ActionRunner), for any calls, seams, server tables and    *)
(* marker files.                                                           *)
(***************************************************************************)
EXTENDS ActionRunner, WellFoundedInduction, TLAPS

\* A seam either knows the action vocabulary or predates it: no part of it.
WholeVocabulary ==
  \A s \in Seams :
    \/ \A c \in Calls : OpOf[c] \in Serves[s]
    \/ \A c \in Calls : OpOf[c] \notin Serves[s]

Fallen == {"walking", "own", "unavailable"}

Typed ==
  /\ mounted \in Seams \cup {None}
  /\ DOMAIN vintages = Seams
  /\ DOMAIN phase = Calls
  /\ seam \in [Calls -> Seams \cup {None}]
  /\ DOMAIN said = Calls
  /\ DOMAIN server = Calls

\* The seam cannot, or would not, serve the call.
Excused(c) ==
  seam[c] # None /\ OpOf[c] \in Serves[seam[c]] => said[c] \in {"unavailable", "otherKind"}

Placed ==
  \A c \in Calls :
    /\ phase[c] = "asking" => seam[c] \in Seams
    /\ phase[c] \in Fallen => Excused(c)
    /\ server[c] # 0 => phase[c] = "own"

IInv == Typed /\ VintageIsOfItsSeam /\ Placed

-----------------------------------------------------------------------------

\* Routing decides of one call alone, and a server is chosen only when the call
\* is handed to the own client.
LEMMA Routes ==
  ASSUME Typed, NEW c \in Calls, routeForFile(c)
  PROVE  \E p \in Fallen \cup {"aborted"} :
           /\ phase' = [phase EXCEPT ![c] = p]
           /\ \/ server' = server
              \/ \E r : server' = [server EXCEPT ![c] = r] /\ (r # 0 => p = "own")
  BY DEF Typed, routeForFile, Hand, Fallen

\* The same of one step of the walk.
LEMMA Walks ==
  ASSUME Typed, NEW c \in Calls, findProjectMarker(c)
  PROVE  /\ phase[c] = "walking"
         /\ UNCHANGED <<mounted, vintages, seam, said>>
         /\ \/ phase' = phase /\ server' = server
            \/ \E p \in Fallen \cup {"aborted"} :
                 /\ phase' = [phase EXCEPT ![c] = p]
                 /\ \/ server' = server
                    \/ \E r : server' = [server EXCEPT ![c] = r] /\ (r # 0 => p = "own")
  BY DEF Typed, findProjectMarker, Hand, Fallen, envVars

LEMMA InitInv == Init => IInv
  BY NoneAssumption DEF Init, IInv, Typed, VintageIsOfItsSeam, Placed, Fallen, Excused

\* A call begins: it is excused where the seam is absent or proved legacy.
LEMMA BeginInv ==
  ASSUME WholeVocabulary, IInv, NEW c \in Calls, begin(c)
  PROVE  IInv'
<1>1. /\ UNCHANGED <<mounted, vintages, said>>
      /\ phase[c] = "new"
      /\ seam' = [seam EXCEPT ![c] = mounted]
  BY DEF begin, envVars
<1>2. CASE mounted # None /\ asks(c, mounted)
  <2>1. phase' = [phase EXCEPT ![c] = "asking"] /\ server' = server
    BY <1>2 DEF begin
  <2>2. Placed'
    BY <1>1, <1>2, <2>1 DEF IInv, Typed, Placed, Fallen, Excused
  <2> QED
    BY <1>1, <2>1, <2>2 DEF IInv, Typed, VintageIsOfItsSeam
<1>3. CASE ~(mounted # None /\ asks(c, mounted))
  <2>1. PICK p \in Fallen \cup {"aborted"} :
          /\ phase' = [phase EXCEPT ![c] = p]
          /\ \/ server' = server
             \/ \E r : server' = [server EXCEPT ![c] = r] /\ (r # 0 => p = "own")
    BY <1>3, Routes DEF begin, IInv
  <2>2. mounted # None => OpOf[c] \notin Serves[mounted]
    BY <1>3, NoneAssumption DEF asks, IInv, Typed, VintageIsOfItsSeam, WholeVocabulary
  <2>3. Placed'
    BY <1>1, <2>1, <2>2 DEF IInv, Typed, Placed, Fallen, Excused
  <2> QED
    BY <1>1, <2>1, <2>3 DEF IInv, Typed, VintageIsOfItsSeam
<1> QED
  BY <1>2, <1>3

\* The vintage recorded is true of the seam that answered.
LEMMA RecordInv ==
  ASSUME IInv, NEW c \in Calls, seam[c] \in Seams,
         NEW answer \in seamAnswers(c), ~cancelled(c, answer),
         vintages' = recordSeamVintage(c, answer)
  PROVE  DOMAIN vintages' = Seams /\ VintageIsOfItsSeam'
<1>1. CASE OpOf[c] = "rename"
  BY <1>1 DEF recordSeamVintage, IInv, Typed, VintageIsOfItsSeam
<1>2. CASE OpOf[c] # "rename"
  <2>1. vintages' = [vintages EXCEPT ![seam[c]] = classifySeamAttempt(answer)]
    BY <1>2 DEF recordSeamVintage
  <2>2. classifySeamAttempt(answer) = "legacy" => OpOf[c] \notin Serves[seam[c]]
    BY DEF classifySeamAttempt, seamAnswers, cancelled
  <2>3. classifySeamAttempt(answer) \in {"unsupported", "actions"} => OpOf[c] \in Serves[seam[c]]
    BY DEF classifySeamAttempt, seamAnswers, cancelled
  <2> QED
    BY <2>1, <2>2, <2>3 DEF IInv, Typed, VintageIsOfItsSeam
<1> QED
  BY <1>1, <1>2

\* The seam answers: what falls through is excused by the answer.
LEMMA AnswerInv ==
  ASSUME IInv, NEW c \in Calls, trySeamAction(c)
  PROVE  IInv'
<1>1. /\ UNCHANGED <<mounted, seam>>
      /\ phase[c] = "asking"
      /\ seam[c] \in Seams
  BY DEF trySeamAction, envVars, IInv, Placed
<1>2. PICK answer \in seamAnswers(c) :
        IF cancelled(c, answer)
          THEN /\ phase' = [phase EXCEPT ![c] = "aborted"]
               /\ UNCHANGED <<vintages, said, spot, steady, server>>
          ELSE /\ said' = [said EXCEPT ![c] = answer]
               /\ vintages' = recordSeamVintage(c, answer)
               /\ IF fallsThrough(answer)
                    THEN routeForFile(c)
                    ELSE /\ phase' = [phase EXCEPT ![c] =
                              CASE answer = "ok" -> "served"
                                [] answer = "unsupported" -> "unsupported"
                                [] answer = "error" -> "failed"]
                         /\ UNCHANGED <<spot, steady, server>>
  BY DEF trySeamAction
<1>3. CASE cancelled(c, answer)
  BY <1>1, <1>2, <1>3 DEF IInv, Typed, VintageIsOfItsSeam, Placed, Fallen, Excused
<1>4. CASE ~cancelled(c, answer) /\ ~fallsThrough(answer)
  <2>1. answer \in {"ok", "unsupported", "error"}
    BY <1>4 DEF fallsThrough, seamAnswers
  <2>2. \E p \in {"served", "unsupported", "failed"} : phase' = [phase EXCEPT ![c] = p]
    BY <1>2, <1>4, <2>1
  <2>3. said' = [said EXCEPT ![c] = answer] /\ server' = server
    BY <1>2, <1>4
  <2>4. DOMAIN vintages' = Seams /\ VintageIsOfItsSeam'
    BY <1>1, <1>2, <1>4, RecordInv
  <2> QED
    BY <1>1, <2>2, <2>3, <2>4 DEF IInv, Typed, Placed, Fallen, Excused
<1>5. CASE ~cancelled(c, answer) /\ fallsThrough(answer)
  <2>1. PICK p \in Fallen \cup {"aborted"} :
          /\ phase' = [phase EXCEPT ![c] = p]
          /\ \/ server' = server
             \/ \E r : server' = [server EXCEPT ![c] = r] /\ (r # 0 => p = "own")
    BY <1>2, <1>5, Routes DEF IInv
  <2>2. said' = [said EXCEPT ![c] = answer]
    BY <1>2, <1>5
  <2>3. OpOf[c] \in Serves[seam[c]] => answer \in {"unavailable", "otherKind"}
    BY <1>5 DEF fallsThrough, seamAnswers, cancelled
  <2>4. DOMAIN vintages' = Seams /\ VintageIsOfItsSeam'
    BY <1>1, <1>2, <1>5, RecordInv
  <2> QED
    BY <1>1, <2>1, <2>2, <2>3, <2>4 DEF IInv, Typed, Placed, Fallen, Excused
<1> QED
  BY <1>3, <1>4, <1>5

LEMMA WalkingInv ==
  ASSUME IInv, NEW c \in Calls, findProjectMarker(c)
  PROVE  IInv'
  BY Walks DEF IInv, Typed, VintageIsOfItsSeam, Placed, Fallen, Excused

LEMMA NextInv ==
  ASSUME WholeVocabulary, IInv, [Next]_vars
  PROVE  IInv'
<1>1. ASSUME NEW c \in Calls, begin(c) PROVE IInv'
  BY <1>1, BeginInv
<1>2. ASSUME NEW c \in Calls, trySeamAction(c) PROVE IInv'
  BY <1>2, AnswerInv
<1>3. ASSUME NEW c \in Calls, findProjectMarker(c) PROVE IInv'
  BY <1>3, WalkingInv
<1>4. ASSUME NEW c \in Calls, abort(c) PROVE IInv'
  BY <1>4 DEF abort, envVars, IInv, Typed, VintageIsOfItsSeam, Placed, Fallen, Excused
<1>5. ASSUME NEW s \in Seams \cup {None}, Mount(s) PROVE IInv'
  BY <1>5 DEF Mount, callVars, IInv, Typed, VintageIsOfItsSeam, Placed, Fallen, Excused
<1>6. ASSUME NEW m \in Changing, Change(m) PROVE IInv'
  BY <1>6 DEF Change, IInv, Typed, VintageIsOfItsSeam, Placed, Fallen, Excused
<1>7. CASE UNCHANGED vars
  BY <1>7 DEF vars, envVars, callVars, IInv, Typed, VintageIsOfItsSeam, Placed, Fallen, Excused
<1> QED
  BY <1>1, <1>2, <1>3, <1>4, <1>5, <1>6, <1>7 DEF Next

-----------------------------------------------------------------------------

\* Whatever is cancelled, mounted or removed while it answers, a seam with the
\* whole vocabulary is never taken for legacy, and one without it always is.
THEOREM VintagesAreTrue ==
  ASSUME WholeVocabulary
  PROVE  Spec => []VintageIsOfItsSeam
<1>1. Init => IInv
  BY InitInv
<1>2. IInv /\ [Next]_vars => IInv'
  BY NextInv
<1>3. IInv => VintageIsOfItsSeam
  BY DEF IInv
<1> QED
  BY <1>1, <1>2, <1>3, PTL DEF Spec

\* The own client serves nothing that a mounted seam with the whole vocabulary
\* serves or refuses.
THEOREM NoDuplicateServers ==
  ASSUME WholeVocabulary
  PROVE  Spec => []SeamFirst
<1>1. Init => IInv
  BY InitInv
<1>2. IInv /\ [Next]_vars => IInv'
  BY NextInv
<1>3. IInv => SeamFirst
  BY DEF IInv, SeamFirst, Placed, Fallen, Excused
<1> QED
  BY <1>1, <1>2, <1>3, PTL DEF Spec

-----------------------------------------------------------------------------
(* The order in which the table declares its markers *)

\* A set of numbers has a least one (routeFile's Min).
LEMMA MinIsLeast ==
  ASSUME NEW S, S \subseteq Nat, S # {}
  PROVE  Min(S) \in S /\ \A x \in S : Min(S) <= x
<1> DEFINE R == {ss \in Nat \X Nat : ss[1] < ss[2]}
<1>1. IsWellFoundedOn(R, Nat)
  BY NatLessThanWellFounded DEF OpToRel
<1>2. \E x \in S : \A y \in S : ~ (<<y, x>> \in R)
  <2> HIDE DEF R
  <2> QED
    BY <1>1, WFMin
<1>3. PICK x \in S : \A y \in S : ~ (<<y, x>> \in R)
  BY <1>2
<1>4. ASSUME NEW y \in S PROVE x <= y
  <2>1. x \in Nat /\ y \in Nat /\ <<y, x>> \in Nat \X Nat
    OBVIOUS
  <2>2. ~(y < x)
    BY <1>3, <2>1
  <2> QED
    BY <2>1, <2>2
<1> QED
  BY <1>4 DEF Min

\* A declared marker is at its first entry, and at its first place there.
LEMMA DeclaredAt ==
  ASSUME NEW t \in Tables, NEW m \in configuredProjectMarkers(t)
  PROVE  /\ entryOf(t, m) \in DOMAIN t /\ entryOf(t, m) \in Nat
         /\ placeOf(t, m) \in Nat
         /\ t[entryOf(t, m)].markers[placeOf(t, m)] = m
<1>1. t \in Seq(ToSet(t)) /\ \A i \in DOMAIN t : t[i].markers \in Seq(Markers)
  BY TablesAssumption
<1> DEFINE I == {i \in DOMAIN t : m \in ToSet(t[i].markers)}
<1>2. I \subseteq Nat /\ I # {}
  BY <1>1 DEF configuredProjectMarkers
<1>3. Min(I) \in I
  <2> HIDE DEF I
  <2> QED
    BY <1>2, MinIsLeast
<1>4. entryOf(t, m) \in I
  BY <1>3 DEF entryOf
<1> DEFINE e == entryOf(t, m)
<1> DEFINE J == {j \in DOMAIN t[e].markers : t[e].markers[j] = m}
<1>5. e \in DOMAIN t /\ e \in Nat /\ m \in ToSet(t[e].markers)
  BY <1>2, <1>4
<1>6. J \subseteq Nat /\ J # {}
  BY <1>1, <1>5 DEF ToSet
<1>7. Min(J) \in J
  <2> HIDE DEF J
  <2> QED
    BY <1>6, MinIsLeast
<1>8. placeOf(t, m) \in J
  BY <1>7 DEF placeOf
<1> QED
  BY <1>5, <1>6, <1>8

\* Two markers are declared one before the other.
LEMMA BeforeIsTotal ==
  ASSUME NEW t \in Tables, NEW m \in configuredProjectMarkers(t),
         NEW n \in configuredProjectMarkers(t), m # n
  PROVE  Before(t, m, n) \/ Before(t, n, m)
<1>1. /\ entryOf(t, m) \in Nat /\ placeOf(t, m) \in Nat
      /\ t[entryOf(t, m)].markers[placeOf(t, m)] = m
  BY DeclaredAt
<1>2. /\ entryOf(t, n) \in Nat /\ placeOf(t, n) \in Nat
      /\ t[entryOf(t, n)].markers[placeOf(t, n)] = n
  BY DeclaredAt
<1>3. entryOf(t, m) = entryOf(t, n) => placeOf(t, m) # placeOf(t, n)
  BY <1>1, <1>2
<1> QED
  BY <1>1, <1>2, <1>3 DEF Before

\* No marker is declared before one that is declared before it.
LEMMA BeforeIsAsymmetric ==
  ASSUME NEW t \in Tables, NEW m \in configuredProjectMarkers(t),
         NEW n \in configuredProjectMarkers(t), Before(t, m, n)
  PROVE  ~Before(t, n, m)
  BY DeclaredAt DEF Before

LEMMA BeforeIsTransitive ==
  ASSUME NEW t \in Tables, NEW m \in configuredProjectMarkers(t),
         NEW n \in configuredProjectMarkers(t), NEW o \in configuredProjectMarkers(t),
         Before(t, m, n), Before(t, n, o)
  PROVE  Before(t, m, o)
<1>1. \A x \in {m, n, o} : entryOf(t, x) \in Nat /\ placeOf(t, x) \in Nat
  BY DeclaredAt
<1> QED
  BY <1>1 DEF Before

\* Of some declared markers one is declared first.
LEMMA FirstIsFirst ==
  ASSUME NEW t \in Tables, NEW S, S \subseteq configuredProjectMarkers(t), S # {}
  PROVE  /\ First(t, S) \in S
         /\ \A n \in S \ {First(t, S)} : Before(t, First(t, S), n)
<1>1. \A m \in S : entryOf(t, m) \in Nat /\ placeOf(t, m) \in Nat
  BY DeclaredAt
<1> DEFINE I == {entryOf(t, m) : m \in S}
<1>2. I \subseteq Nat /\ I # {}
  BY <1>1
<1>3. Min(I) \in I /\ \A x \in I : Min(I) <= x
  <2> HIDE DEF I
  <2> QED
    BY <1>2, MinIsLeast
<1> DEFINE i == Min(I)
<1> DEFINE J == {placeOf(t, m) : m \in {x \in S : entryOf(t, x) = i}}
<1>4. i \in I /\ i \in Nat /\ \A m \in S : i <= entryOf(t, m)
  BY <1>2, <1>3
<1> HIDE DEF i
<1>5. J \subseteq Nat /\ J # {}
  BY <1>1, <1>4
<1>6. Min(J) \in J /\ \A x \in J : Min(J) <= x
  <2> HIDE DEF J
  <2> QED
    BY <1>5, MinIsLeast
<1>7. PICK m \in S : entryOf(t, m) = i /\ placeOf(t, m) = Min(J)
  BY <1>6
<1>8. ASSUME NEW n \in S \ {m} PROVE Before(t, m, n)
  <2>1. Before(t, m, n) \/ Before(t, n, m)
    BY BeforeIsTotal
  <2>2. i <= entryOf(t, n) /\ (entryOf(t, n) = i => Min(J) <= placeOf(t, n))
    BY <1>4, <1>6
  <2>3. ~Before(t, n, m)
    BY <1>1, <1>4, <1>5, <1>6, <1>7, <2>2 DEF Before
  <2> QED
    BY <2>1, <2>3
<1> QED
  BY <1>8 DEF First

-----------------------------------------------------------------------------
(* The types, and how far a walk has come *)

Phases == {"new", "asking", "walking", "own", "served", "unsupported", "failed",
           "unavailable", "aborted"}

\* A probe of a declared marker in an ancestor directory of the call's file.
IsSpot(c, at) ==
  /\ at \in Nat \X configuredProjectMarkers(servers)
  /\ at[1] \in DOMAIN DirsOf[FileOf[c]]

\* None of the probes before it has a marker file.
Searched(c, at) ==
  \A d \in DOMAIN DirsOf[FileOf[c]], m \in configuredProjectMarkers(servers) :
    d < at[1] \/ (d = at[1] /\ Before(servers, m, at[2]))
      => <<DirsOf[FileOf[c]][d], m>> \notin present

\* A walk is at a probe, and steady only as long as all before it found nothing.
WalkOk(c, p, at, still) ==
  IF p = "walking" THEN IsSpot(c, at) /\ (still => Searched(c, at)) ELSE at = None

WalkInv == \A c \in Calls : WalkOk(c, phase[c], spot[c], steady[c])

TInv == TypeOK /\ WalkInv

\* A step puts one call at a place it may be.
Placing(c) ==
  \E p \in Phases, at \in (Nat \X Markers) \cup {None}, r \in DOMAIN servers \cup {0},
     still \in BOOLEAN :
    /\ phase' = [phase EXCEPT ![c] = p]
    /\ spot' = [spot EXCEPT ![c] = at]
    /\ server' = [server EXCEPT ![c] = r]
    /\ steady' = [steady EXCEPT ![c] = still]
    /\ WalkOk(c, p, at, still)

\* What ends or keeps no walk, and leaves the server and the steadiness alone.
LEMMA PlacedByPhase ==
  ASSUME TInv, NEW c \in Calls, NEW p \in Phases \ {"walking"},
         phase' = [phase EXCEPT ![c] = p],
         spot' = [spot EXCEPT ![c] = None] \/ (spot' = spot /\ spot[c] = None),
         UNCHANGED <<steady, server>>
  PROVE  Placing(c)
<1> DEFINE r == server[c]
           still == steady[c]
<1>1. /\ spot' = [spot EXCEPT ![c] = None]
      /\ steady' = [steady EXCEPT ![c] = still] /\ still \in BOOLEAN
      /\ server' = [server EXCEPT ![c] = r] /\ r \in DOMAIN servers \cup {0}
  BY DEF TInv, TypeOK
<1>2. WalkOk(c, p, None, still) /\ p \in Phases /\ None \in (Nat \X Markers) \cup {None}
  BY DEF WalkOk
<1>3. phase' = [phase EXCEPT ![c] = p]
  OBVIOUS
<1> HIDE DEF r, still
<1> r \in DOMAIN servers \cup {0} /\ still \in BOOLEAN
  BY <1>1
<1> SUFFICES \E p2 \in Phases, at \in (Nat \X Markers) \cup {None}, r2 \in DOMAIN servers \cup {0},
                still2 \in BOOLEAN :
               /\ phase' = [phase EXCEPT ![c] = p2]
               /\ spot' = [spot EXCEPT ![c] = at]
               /\ server' = [server EXCEPT ![c] = r2]
               /\ steady' = [steady EXCEPT ![c] = still2]
               /\ WalkOk(c, p2, at, still2)
  BY DEF Placing
<1> WITNESS p \in Phases, None \in (Nat \X Markers) \cup {None}, r \in DOMAIN servers \cup {0},
            still \in BOOLEAN
<1> QED
  BY <1>1, <1>2, <1>3

LEMMA DeclaredAreMarkers ==
  ASSUME NEW t \in Tables
  PROVE  configuredProjectMarkers(t) \subseteq Markers
  BY DEF configuredProjectMarkers, Markers

\* A file is routed to an entry of the table, or to none.
LEMMA RouteInTable ==
  ASSUME NEW t \in Tables, NEW f, NEW marker
  PROVE  routeFile(t, f, marker) \in DOMAIN t \cup {0}
<1>1. t \in Seq(ToSet(t)) /\ DOMAIN t \subseteq Nat
  BY TablesAssumption
<1>2. ASSUME NEW S, S \subseteq DOMAIN t, S # {} PROVE Min(S) \in DOMAIN t
  BY <1>1, <1>2, MinIsLeast
<1> DEFINE matches == {i \in DOMAIN t : f \in t[i].claims}
           maps == {i \in DOMAIN t : ExtOf[f] \in t[i].maps}
           claims == {i \in maps : marker \in ToSet(t[i].markers)}
<1>3. matches \subseteq DOMAIN t /\ maps \subseteq DOMAIN t /\ claims \subseteq DOMAIN t
  OBVIOUS
<1>4. routeFile(t, f, marker) =
        IF matches # {} THEN Min(matches)
        ELSE IF claims # {} THEN Min(claims)
        ELSE IF maps # {} THEN Min(maps) ELSE 0
  BY DEF routeFile
<1> HIDE DEF matches, maps, claims
<1> QED
  BY <1>2, <1>3, <1>4

\* Handing a call over ends its walk, if it had one.
LEMMA Hands ==
  ASSUME TypeOK, NEW c \in Calls, NEW marker, NEW still \in BOOLEAN,
         Hand(c, marker), steady' = [steady EXCEPT ![c] = still]
  PROVE  Placing(c)
<1> DEFINE routed == routeFile(servers, FileOf[c], marker)
           route == IF routed # 0 THEN routed ELSE firstServerRoute(servers, OpOf[c])
           p == IF route = 0 THEN "unavailable" ELSE "own"
<1>1. servers \in Tables /\ servers \in Seq(ToSet(servers))
  BY TablesAssumption DEF TypeOK
<1>2. routed \in DOMAIN servers \cup {0}
  BY <1>1, RouteInTable
<1>3. firstServerRoute(servers, OpOf[c]) \in DOMAIN servers \cup {0}
  BY <1>1 DEF firstServerRoute
<1>4. route \in DOMAIN servers \cup {0}
  BY <1>2, <1>3
<1>5. /\ server' = [server EXCEPT ![c] = route]
      /\ phase' = [phase EXCEPT ![c] = p]
      /\ spot' = [spot EXCEPT ![c] = None]
  BY DEF Hand
<1>6. p \in Phases /\ WalkOk(c, p, None, still)
  BY DEF Phases, WalkOk
<1> HIDE DEF route, p
<1> QED
  BY <1>4, <1>5, <1>6 DEF Placing

\* What keeps a function as it is writes back what it holds.
LEMMA Rewritten ==
  ASSUME NEW S, NEW f, f \in [Calls -> S], NEW c \in Calls
  PROVE  f = [f EXCEPT ![c] = f[c]] /\ f[c] \in S
  OBVIOUS

\* A call begins its walk at the first marker of its own directory.
LEMMA Starts ==
  ASSUME TInv, NEW c \in Calls, routeForFile(c), phase[c] # "walking"
  PROVE  Placing(c)
<1>1. /\ servers \in Tables /\ steady \in [Calls -> BOOLEAN]
      /\ server \in [Calls -> DOMAIN servers \cup {0}]
      /\ spot \in [Calls -> (Nat \X Markers) \cup {None}]
  BY DEF TInv, TypeOK
<1>2. steady = [steady EXCEPT ![c] = steady[c]] /\ steady[c] \in BOOLEAN
  BY <1>1, Rewritten
<1>3. server = [server EXCEPT ![c] = server[c]] /\ server[c] \in DOMAIN servers \cup {0}
  BY <1>1, Rewritten
<1>4. spot = [spot EXCEPT ![c] = spot[c]] /\ spot[c] = None
  BY <1>1, Rewritten DEF TInv, WalkInv, WalkOk
<1> DEFINE markers == configuredProjectMarkers(servers)
           dirs == DirsOf[FileOf[c]]
           at == <<1, First(servers, markers)>>
<1>5. CASE markers = {} \/ dirs = <<>>
  <2>1. Hand(c, None) /\ steady' = steady
    BY <1>5 DEF routeForFile
  <2> QED
    BY <1>2, <2>1, Hands DEF TInv
<1>6. CASE ~(markers = {} \/ dirs = <<>>) /\ aborted[c]
  <2>1. phase' = [phase EXCEPT ![c] = "aborted"] /\ UNCHANGED <<spot, steady, server>>
    BY <1>6 DEF routeForFile
  <2>2. WalkOk(c, "aborted", None, steady[c]) /\ "aborted" \in Phases
    BY DEF WalkOk, Phases
  <2> QED
    BY <1>2, <1>3, <1>4, <2>1, <2>2 DEF Placing
<1>7. CASE ~(markers = {} \/ dirs = <<>>) /\ ~aborted[c]
  <2>1. /\ phase' = [phase EXCEPT ![c] = "walking"]
        /\ spot' = [spot EXCEPT ![c] = at]
        /\ steady' = [steady EXCEPT ![c] = TRUE]
        /\ server' = server
    BY <1>7 DEF routeForFile
  <2>2. dirs \in Seq(Dirs) /\ 1 \in DOMAIN dirs
    BY <1>7, FilesAssumption
  <2>3. /\ First(servers, markers) \in markers
        /\ \A n \in markers \ {First(servers, markers)} : Before(servers, First(servers, markers), n)
    BY <1>1, <1>7, FirstIsFirst
  <2>4. IsSpot(c, at)
    BY <2>2, <2>3 DEF IsSpot
  <2>5. \A m \in markers : ~Before(servers, m, First(servers, markers))
    BY <1>1, <2>3, BeforeIsAsymmetric
  <2>6. Searched(c, at)
    BY <2>2, <2>5 DEF Searched
  <2>7. at \in Nat \X Markers
    BY <1>1, <2>3, DeclaredAreMarkers
  <2>8. WalkOk(c, "walking", at, TRUE) /\ "walking" \in Phases
    BY <2>4, <2>6 DEF WalkOk, Phases
  <2> HIDE DEF at
  <2> QED
    BY <1>3, <2>1, <2>7, <2>8 DEF Placing
<1> QED
  BY <1>5, <1>6, <1>7

\* The next probe is the one that follows all that were made; after the last
\* none is left.
LEMMA NextSpot ==
  ASSUME servers \in Tables, NEW c \in Calls, NEW at, IsSpot(c, at), NEW still \in BOOLEAN,
         still => Searched(c, at) /\ <<DirsOf[FileOf[c]][at[1]], at[2]>> \notin present,
         NEW next, next = nextSpot(servers, FileOf[c], at[1], at[2])
  PROVE  /\ next # None => IsSpot(c, next) /\ (still => Searched(c, next))
         /\ next = None /\ still =>
              \A d \in DOMAIN DirsOf[FileOf[c]], m \in configuredProjectMarkers(servers) :
                <<DirsOf[FileOf[c]][d], m>> \notin present
<1> DEFINE markers == configuredProjectMarkers(servers)
           dirs == DirsOf[FileOf[c]]
           d0 == at[1]
           m0 == at[2]
<1>1. /\ d0 \in Nat /\ m0 \in markers /\ d0 \in DOMAIN dirs
      /\ dirs \in Seq(Dirs) /\ DOMAIN dirs = 1..Len(dirs) /\ Len(dirs) \in Nat
  BY FilesAssumption DEF IsSpot
<1>2. Later(servers, m0) \subseteq markers
  BY DEF Later
<1>3. \A m \in markers : m = m0 \/ Before(servers, m, m0) \/ m \in Later(servers, m0)
  BY <1>1, BeforeIsTotal DEF Later
<1>4. CASE Later(servers, m0) # {}
  <2> DEFINE n0 == First(servers, Later(servers, m0))
  <2>1. n0 \in Later(servers, m0) /\ \A n \in Later(servers, m0) \ {n0} : Before(servers, n0, n)
    BY <1>2, <1>4, FirstIsFirst
  <2>2. next = <<d0, n0>>
    BY <1>4 DEF nextSpot
  <2>3. ASSUME NEW m \in markers, Before(servers, m, n0)
        PROVE  m = m0 \/ Before(servers, m, m0)
    BY <1>2, <1>3, <2>1, <2>3, BeforeIsAsymmetric
  <2> HIDE DEF n0
  <2>4. IsSpot(c, next)
    BY <1>1, <1>2, <2>1, <2>2 DEF IsSpot
  <2>5. still => Searched(c, next)
    BY <1>1, <2>2, <2>3 DEF Searched
  <2>6. next # None
    BY <1>1, <1>2, <2>1, <2>2, DeclaredAreMarkers, NoneAssumption
  <2> QED
    BY <2>4, <2>5, <2>6
<1>5. CASE Later(servers, m0) = {} /\ d0 < Len(dirs)
  <2> DEFINE n0 == First(servers, markers)
  <2>1. n0 \in markers /\ \A n \in markers \ {n0} : Before(servers, n0, n)
    BY <1>1, FirstIsFirst
  <2>2. next = <<d0 + 1, n0>>
    BY <1>5 DEF nextSpot
  <2>3. \A m \in markers : ~Before(servers, m, n0)
    BY <2>1, BeforeIsAsymmetric
  <2> HIDE DEF n0
  <2>4. IsSpot(c, next)
    BY <1>1, <1>5, <2>1, <2>2 DEF IsSpot
  <2>5. still => Searched(c, next)
    BY <1>1, <1>3, <1>5, <2>2, <2>3 DEF Searched
  <2>6. next # None
    BY <1>1, <2>1, <2>2, DeclaredAreMarkers, NoneAssumption
  <2> QED
    BY <2>4, <2>5, <2>6
<1>6. CASE Later(servers, m0) = {} /\ ~(d0 < Len(dirs))
  <2>1. next = None /\ d0 = Len(dirs)
    BY <1>1, <1>6 DEF nextSpot
  <2>2. ASSUME still, NEW d \in DOMAIN dirs, NEW m \in markers
        PROVE  <<dirs[d], m>> \notin present
    BY <1>1, <1>3, <1>6, <2>1, <2>2 DEF Searched
  <2> QED
    BY <2>1, <2>2
<1> QED
  BY <1>4, <1>5, <1>6

\* One probe moves the walk on, or ends it.
LEMMA Probes ==
  ASSUME TInv, NEW c \in Calls, findProjectMarker(c)
  PROVE  Placing(c)
<1> DEFINE d == spot[c][1]
           marker == spot[c][2]
           there == <<DirsOf[FileOf[c]][d], marker>> \in present
           next == nextSpot(servers, FileOf[c], d, marker)
           resolving == spot[c] = <<1, First(servers, configuredProjectMarkers(servers))>>
           notFound == IF next = None
                         THEN Hand(c, None)
                         ELSE spot' = [spot EXCEPT ![c] = next] /\ UNCHANGED <<phase, server>>
           fails == steady' = [steady EXCEPT ![c] = FALSE]
<1>1. /\ servers \in Tables /\ steady \in [Calls -> BOOLEAN]
      /\ server \in [Calls -> DOMAIN servers \cup {0}]
      /\ phase \in [Calls -> Phases]
  BY DEF TInv, TypeOK, Phases
<1>2. steady = [steady EXCEPT ![c] = steady[c]] /\ steady[c] \in BOOLEAN
  BY <1>1, Rewritten
<1>3. server = [server EXCEPT ![c] = server[c]] /\ server[c] \in DOMAIN servers \cup {0}
  BY <1>1, Rewritten
<1>4. phase[c] = "walking" /\ phase = [phase EXCEPT ![c] = "walking"] /\ "walking" \in Phases
  BY <1>1, Rewritten DEF findProjectMarker, Phases
<1>5. IsSpot(c, spot[c]) /\ (steady[c] => Searched(c, spot[c]))
  BY <1>4 DEF TInv, WalkInv, WalkOk
<1>6. ASSUME NEW still \in BOOLEAN, steady' = [steady EXCEPT ![c] = still], notFound,
             still => steady[c] /\ ~there
      PROVE  Placing(c)
  <2>1. CASE next = None
    BY <1>6, <2>1, Hands DEF TInv
  <2>2. CASE next # None
    <3>1. IsSpot(c, next) /\ (still => Searched(c, next))
      BY <1>1, <1>5, <1>6, <2>2, NextSpot
    <3>2. spot' = [spot EXCEPT ![c] = next] /\ phase' = phase /\ server' = server
      BY <1>6, <2>2
    <3> HIDE DEF next
    <3>3. next \in Nat \X Markers /\ WalkOk(c, "walking", next, still)
      BY <1>1, <3>1, DeclaredAreMarkers DEF IsSpot, WalkOk
    <3> QED
      BY <1>3, <1>4, <1>6, <3>2, <3>3 DEF Placing
  <2> QED
    BY <2>1, <2>2
<1>7. CASE aborted[c] /\ phase' = [phase EXCEPT ![c] = "aborted"]
           /\ spot' = [spot EXCEPT ![c] = None] /\ UNCHANGED <<steady, server>>
  BY <1>7, PlacedByPhase DEF Phases
<1>8. CASE there /\ Hand(c, marker) /\ UNCHANGED steady
  BY <1>2, <1>8, Hands DEF TInv
<1>9. CASE ~there /\ notFound /\ UNCHANGED steady
  BY <1>2, <1>6, <1>9
<1>10. CASE notFound /\ fails
  BY <1>6, <1>10
<1>11. CASE Hand(c, None) /\ fails
  BY <1>11, Hands DEF TInv
<1>12. \/ aborted[c] /\ phase' = [phase EXCEPT ![c] = "aborted"]
          /\ spot' = [spot EXCEPT ![c] = None] /\ UNCHANGED <<steady, server>>
       \/ there /\ Hand(c, marker) /\ UNCHANGED steady
       \/ ~there /\ notFound /\ UNCHANGED steady
       \/ notFound /\ fails
       \/ Hand(c, None) /\ fails
  BY DEF findProjectMarker
<1> HIDE DEF there, notFound, fails
<1> QED
  BY <1>7, <1>8, <1>9, <1>10, <1>11, <1>12

\* What a step that places one call leaves to be shown.
LEMMA PlacingInv ==
  ASSUME TInv, NEW c \in Calls, Placing(c), UNCHANGED <<envVars, aborted>>,
         vintages' \in [Seams -> {"legacy", "unsupported", "actions", None}],
         seam' \in [Calls -> Seams \cup {None}], said' \in [Calls -> Answers \cup {None}]
  PROVE  TInv'
<1>1. UNCHANGED <<servers, mounted, present, aborted>>
  BY DEF envVars
<1>2. /\ phase \in [Calls -> Phases]
      /\ spot \in [Calls -> (Nat \X Markers) \cup {None}]
      /\ server \in [Calls -> DOMAIN servers \cup {0}]
      /\ steady \in [Calls -> BOOLEAN]
  BY DEF TInv, TypeOK, Phases
<1>3. PICK p \in Phases, at \in (Nat \X Markers) \cup {None}, r \in DOMAIN servers \cup {0},
           still \in BOOLEAN :
        /\ phase' = [phase EXCEPT ![c] = p]
        /\ spot' = [spot EXCEPT ![c] = at]
        /\ server' = [server EXCEPT ![c] = r]
        /\ steady' = [steady EXCEPT ![c] = still]
        /\ WalkOk(c, p, at, still)
  BY DEF Placing
<1>4. /\ phase' \in [Calls -> Phases]
      /\ spot' \in [Calls -> (Nat \X Markers) \cup {None}]
      /\ server' \in [Calls -> DOMAIN servers' \cup {0}]
      /\ steady' \in [Calls -> BOOLEAN]
  BY <1>1, <1>2, <1>3
<1>5. \A b \in Calls : WalkOk(b, phase'[b], spot'[b], steady'[b])
  BY <1>2, <1>3 DEF TInv, WalkInv
<1>6. WalkInv'
  BY <1>1, <1>5 DEF WalkInv, WalkOk, IsSpot, Searched
<1>7. \A b \in Calls : IF phase'[b] = "walking" THEN spot'[b][1] \in DOMAIN DirsOf[FileOf[b]]
                       ELSE spot'[b] = None
  BY <1>5 DEF WalkOk, IsSpot
<1>8. TypeOK'
  BY <1>1, <1>4, <1>7 DEF TInv, TypeOK, Phases
<1> QED
  BY <1>6, <1>8 DEF TInv

LEMMA InitTInv == Init => TInv
<1> SUFFICES ASSUME Init PROVE TInv
  OBVIOUS
<1>1. TypeOK
  BY BoundsAssumption DEF Init, TypeOK
<1>2. WalkInv
  BY DEF Init, WalkInv, WalkOk
<1> QED
  BY <1>1, <1>2 DEF TInv

\* An operation's answer is one of the answers, and what it proves a vintage.
LEMMA AnswersTyped ==
  ASSUME NEW c \in Calls, NEW answer \in seamAnswers(c)
  PROVE  answer \in Answers
  BY DEF seamAnswers, Answers

LEMMA RecordTyped ==
  ASSUME TypeOK, NEW c \in Calls, seam[c] \in Seams, NEW answer
  PROVE  recordSeamVintage(c, answer) \in [Seams -> {"legacy", "unsupported", "actions", None}]
  BY DEF TypeOK, recordSeamVintage, classifySeamAttempt

LEMMA BeginTInv ==
  ASSUME TInv, NEW c \in Calls, begin(c)
  PROVE  TInv'
<1>1. /\ phase[c] = "new" /\ spot[c] = None
      /\ UNCHANGED <<envVars, vintages, said, aborted>>
      /\ seam' = [seam EXCEPT ![c] = mounted]
  BY DEF begin, TInv, WalkInv, WalkOk
<1>2. /\ vintages' \in [Seams -> {"legacy", "unsupported", "actions", None}]
      /\ seam' \in [Calls -> Seams \cup {None}] /\ said' \in [Calls -> Answers \cup {None}]
  BY <1>1 DEF TInv, TypeOK
<1>3. Placing(c)
  <2>1. CASE mounted # None /\ asks(c, mounted)
    <3>1. phase' = [phase EXCEPT ![c] = "asking"] /\ UNCHANGED <<spot, steady, server>>
      BY <2>1 DEF begin
    <3> QED
      BY <1>1, <3>1, PlacedByPhase DEF Phases
  <2>2. CASE ~(mounted # None /\ asks(c, mounted))
    BY <1>1, <2>2, Starts DEF begin
  <2> QED
    BY <2>1, <2>2
<1> QED
  BY <1>1, <1>2, <1>3, PlacingInv

LEMMA AnswerTInv ==
  ASSUME TInv, NEW c \in Calls, seam[c] \in Seams, trySeamAction(c)
  PROVE  TInv'
<1>1. /\ phase[c] = "asking" /\ spot[c] = None
      /\ UNCHANGED <<envVars, seam, aborted>>
  BY DEF trySeamAction, TInv, WalkInv, WalkOk
<1>2. PICK answer \in seamAnswers(c) :
        IF cancelled(c, answer)
          THEN /\ phase' = [phase EXCEPT ![c] = "aborted"]
               /\ UNCHANGED <<vintages, said, spot, steady, server>>
          ELSE /\ said' = [said EXCEPT ![c] = answer]
               /\ vintages' = recordSeamVintage(c, answer)
               /\ IF fallsThrough(answer)
                    THEN routeForFile(c)
                    ELSE /\ phase' = [phase EXCEPT ![c] =
                              CASE answer = "ok" -> "served"
                                [] answer = "unsupported" -> "unsupported"
                                [] answer = "error" -> "failed"]
                         /\ UNCHANGED <<spot, steady, server>>
  BY DEF trySeamAction
<1>3. /\ vintages' \in [Seams -> {"legacy", "unsupported", "actions", None}]
      /\ seam' \in [Calls -> Seams \cup {None}] /\ said' \in [Calls -> Answers \cup {None}]
  BY <1>1, <1>2, AnswersTyped, RecordTyped DEF TInv, TypeOK
<1>4. Placing(c)
  <2>1. ASSUME NEW p \in Phases \ {"walking"}, phase' = [phase EXCEPT ![c] = p],
               UNCHANGED <<spot, steady, server>>
        PROVE  Placing(c)
    BY <1>1, <2>1, PlacedByPhase
  <2>2. CASE cancelled(c, answer)
    BY <1>2, <2>1, <2>2 DEF Phases
  <2>3. CASE ~cancelled(c, answer) /\ ~fallsThrough(answer)
    <3>1. answer \in {"ok", "unsupported", "error"}
      BY <2>3 DEF fallsThrough, seamAnswers
    <3>2. \E p \in {"served", "unsupported", "failed"} : phase' = [phase EXCEPT ![c] = p]
      BY <1>2, <2>3, <3>1
    <3> QED
      BY <1>2, <2>1, <2>3, <3>2 DEF Phases
  <2>4. CASE ~cancelled(c, answer) /\ fallsThrough(answer)
    BY <1>1, <1>2, <2>4, Starts
  <2> QED
    BY <2>2, <2>3, <2>4
<1> QED
  BY <1>1, <1>3, <1>4, PlacingInv

LEMMA WalkTInv ==
  ASSUME TInv, NEW c \in Calls, findProjectMarker(c)
  PROVE  TInv'
<1>1. UNCHANGED <<envVars, vintages, seam, said, aborted>>
  BY DEF findProjectMarker
<1>2. /\ vintages' \in [Seams -> {"legacy", "unsupported", "actions", None}]
      /\ seam' \in [Calls -> Seams \cup {None}] /\ said' \in [Calls -> Answers \cup {None}]
  BY <1>1 DEF TInv, TypeOK
<1> QED
  BY <1>1, <1>2, Probes, PlacingInv

\* A marker file that comes or goes leaves no walk steady.
LEMMA ChangeTInv ==
  ASSUME TInv, NEW m \in Changing, Change(m)
  PROVE  TInv'
<1>1. /\ UNCHANGED <<servers, mounted, vintages, phase, seam, said, spot, server, aborted>>
      /\ present' = IF m \in present THEN present \ {m} ELSE present \cup {m}
      /\ steady' = [c \in Calls |-> steady[c] /\ phase[c] # "walking"]
  BY DEF Change
<1>2. present' \subseteq Dirs \X Markers
  BY <1>1, BoundsAssumption DEF TInv, TypeOK
<1>3. \A c \in Calls : steady'[c] \in BOOLEAN /\ (phase[c] = "walking" => ~steady'[c])
  BY <1>1 DEF TInv, TypeOK
<1>4. TypeOK'
  BY <1>1, <1>2, <1>3 DEF TInv, TypeOK
<1>5. WalkInv'
  BY <1>1, <1>3 DEF TInv, WalkInv, WalkOk, IsSpot
<1> QED
  BY <1>4, <1>5 DEF TInv

LEMMA NextTInv ==
  ASSUME TInv, \A c \in Calls : phase[c] = "asking" => seam[c] \in Seams, [Next]_vars
  PROVE  TInv'
<1>1. ASSUME NEW c \in Calls, begin(c) PROVE TInv'
  BY <1>1, BeginTInv
<1>2. ASSUME NEW c \in Calls, trySeamAction(c) PROVE TInv'
  <2>1. phase[c] = "asking"
    BY <1>2 DEF trySeamAction
  <2> QED
    BY <1>2, <2>1, AnswerTInv
<1>3. ASSUME NEW c \in Calls, findProjectMarker(c) PROVE TInv'
  BY <1>3, WalkTInv
<1>4. ASSUME NEW c \in Calls, abort(c) PROVE TInv'
  BY <1>4 DEF abort, envVars, TInv, TypeOK, WalkInv, WalkOk, IsSpot, Searched
<1>5. ASSUME NEW s \in Seams \cup {None}, Mount(s) PROVE TInv'
  BY <1>5 DEF Mount, callVars, TInv, TypeOK, WalkInv, WalkOk, IsSpot, Searched
<1>6. ASSUME NEW m \in Changing, Change(m) PROVE TInv'
  BY <1>6, ChangeTInv
<1>7. CASE UNCHANGED vars
  BY <1>7 DEF vars, envVars, callVars, TInv, TypeOK, WalkInv, WalkOk, IsSpot, Searched
<1> QED
  BY <1>1, <1>2, <1>3, <1>4, <1>5, <1>6, <1>7 DEF Next

-----------------------------------------------------------------------------
(* The entry that serves a file *)

\* The marker that governs the call's file is the one given, if any does.
IsGoverning(c, marker) ==
  /\ marker \in configuredProjectMarkers(servers) \cup {None}
  /\ \A m \in configuredProjectMarkers(servers) : Governs(c, m) <=> m = marker

\* The entry is the best ranked and, among those, the first.
IsBest(c, r) ==
  \A i \in DOMAIN servers :
    \/ Rank(c, r) < Rank(c, i)
    \/ Rank(c, r) = Rank(c, i) /\ r <= i

\* Handed over with the marker that governs its file, a call is served by the
\* best ranked entry.
LEMMA HandsToBest ==
  ASSUME TypeOK, NEW c \in Calls, NEW marker, IsGoverning(c, marker),
         Hand(c, marker), phase'[c] = "own"
  PROVE  server'[c] \in DOMAIN servers /\ IsBest(c, server'[c])
<1> DEFINE f == FileOf[c]
           matches == {i \in DOMAIN servers : f \in servers[i].claims}
           maps == {i \in DOMAIN servers : ExtOf[f] \in servers[i].maps}
           claims == {i \in maps : marker \in ToSet(servers[i].markers)}
           routed == routeFile(servers, f, marker)
           r == server'[c]
<1>1. /\ servers \in Tables /\ servers \in Seq(ToSet(servers))
      /\ \A i \in DOMAIN servers : servers[i].markers \in Seq(Markers)
      /\ DOMAIN phase = Calls /\ DOMAIN server = Calls
  BY TablesAssumption DEF TypeOK
<1>2. DOMAIN servers = 1..Len(servers) /\ Len(servers) \in Nat
  BY <1>1
<1>3. matches \subseteq DOMAIN servers /\ maps \subseteq DOMAIN servers /\ claims \subseteq maps
  OBVIOUS
<1>4. routed = IF matches # {} THEN Min(matches)
               ELSE IF claims # {} THEN Min(claims)
               ELSE IF maps # {} THEN Min(maps) ELSE 0
  BY DEF routeFile
<1>5. /\ r = IF routed # 0 THEN routed ELSE firstServerRoute(servers, OpOf[c])
      /\ r # 0
  BY <1>1 DEF Hand
<1>6. \A i \in DOMAIN servers :
        (\E m \in ToSet(servers[i].markers) : Governs(c, m)) <=> marker \in ToSet(servers[i].markers)
  <2>1. ASSUME NEW i \in DOMAIN servers
        PROVE  /\ ToSet(servers[i].markers) \subseteq configuredProjectMarkers(servers)
               /\ ToSet(servers[i].markers) \subseteq Markers
    <3>1. ToSet(servers[i].markers) \subseteq configuredProjectMarkers(servers)
      BY DEF configuredProjectMarkers
    <3> QED
      BY <1>1, <3>1, DeclaredAreMarkers
  <2>2. None \notin Markers
    BY NoneAssumption
  <2> QED
    BY <2>1, <2>2 DEF IsGoverning
<1>7. \A i \in DOMAIN servers :
        Rank(c, i) = IF i \in matches THEN 0 ELSE IF i \in claims THEN 1 ELSE IF i \in maps THEN 2 ELSE 3
  BY <1>6 DEF Rank
<1>8. \A S : S \subseteq DOMAIN servers /\ S # {} =>
        Min(S) \in S /\ Min(S) \in DOMAIN servers /\ Min(S) # 0 /\ \A x \in S : Min(S) <= x
  <2>1. ASSUME NEW S, S \subseteq DOMAIN servers, S # {}
        PROVE  Min(S) \in S /\ \A x \in S : Min(S) <= x
    BY <1>2, <2>1, MinIsLeast
  <2> QED
    BY <1>2, <2>1
<1> HIDE DEF matches, maps, claims, routed, r
<1>9. CASE matches # {}
  <2>1. r = Min(matches)
    BY <1>3, <1>4, <1>5, <1>8, <1>9
  <2>2. r \in matches /\ r \in DOMAIN servers /\ \A i \in matches : r <= i
    BY <1>3, <1>8, <1>9, <2>1
  <2>3. IsBest(c, r)
    BY <1>7, <2>2 DEF IsBest
  <2> QED
    BY <2>2, <2>3 DEF r
<1>10. CASE matches = {} /\ claims # {}
  <2>1. r = Min(claims)
    BY <1>3, <1>4, <1>5, <1>8, <1>10
  <2>2. r \in claims /\ r \in DOMAIN servers /\ \A i \in claims : r <= i
    BY <1>3, <1>8, <1>10, <2>1
  <2>3. IsBest(c, r)
    BY <1>7, <1>10, <2>2 DEF IsBest
  <2> QED
    BY <2>2, <2>3 DEF r
<1>11. CASE matches = {} /\ claims = {} /\ maps # {}
  <2>1. r = Min(maps)
    BY <1>3, <1>4, <1>5, <1>8, <1>11
  <2>2. r \in maps /\ r \in DOMAIN servers /\ \A i \in maps : r <= i
    BY <1>3, <1>8, <1>11, <2>1
  <2>3. IsBest(c, r)
    BY <1>7, <1>11, <2>2 DEF IsBest
  <2> QED
    BY <2>2, <2>3 DEF r
<1>12. CASE matches = {} /\ claims = {} /\ maps = {}
  <2>1. r = 1 /\ servers # <<>>
    BY <1>4, <1>5, <1>12 DEF firstServerRoute
  <2>2. r \in DOMAIN servers /\ \A i \in DOMAIN servers : r <= i
    BY <1>1, <1>2, <2>1
  <2>3. IsBest(c, r)
    BY <1>7, <1>12, <2>2 DEF IsBest
  <2> QED
    BY <2>2, <2>3 DEF r
<1> QED
  BY <1>9, <1>10, <1>11, <1>12

\* The first marker file that a steady walk finds governs the file, and no other
\* marker does.
LEMMA FoundGoverns ==
  ASSUME servers \in Tables, NEW c \in Calls, NEW at, IsSpot(c, at), Searched(c, at),
         <<DirsOf[FileOf[c]][at[1]], at[2]>> \in present
  PROVE  IsGoverning(c, at[2])
<1> DEFINE markers == configuredProjectMarkers(servers)
           dirs == DirsOf[FileOf[c]]
           d0 == at[1]
           m0 == at[2]
<1>1. /\ d0 \in Nat /\ m0 \in markers /\ d0 \in DOMAIN dirs
      /\ dirs \in Seq(Dirs) /\ DOMAIN dirs = 1..Len(dirs) /\ Len(dirs) \in Nat
  BY FilesAssumption DEF IsSpot
<1>2. \A d \in DOMAIN dirs, m \in markers :
        d < d0 \/ (d = d0 /\ Before(servers, m, m0)) => <<dirs[d], m>> \notin present
  BY DEF Searched
<1>3. Governs(c, m0)
  <2>1. \A e \in 1..(d0 - 1), m \in markers : <<dirs[e], m>> \notin present
    <3>1. \A e \in 1..(d0 - 1) : e \in DOMAIN dirs /\ e < d0
      BY <1>1
    <3> HIDE DEF markers, dirs, d0, m0
    <3> QED
      BY <1>2, <3>1
  <2>2. \A m \in markers : Before(servers, m, m0) => <<dirs[d0], m>> \notin present
    BY <1>1, <1>2
  <2> QED
    BY <1>1, <2>1, <2>2 DEF Governs
<1>4. ASSUME NEW m \in markers, Governs(c, m), m # m0 PROVE FALSE
  <2>1. PICK d \in DOMAIN dirs :
          /\ <<dirs[d], m>> \in present
          /\ \A e \in 1..(d - 1), n \in markers : <<dirs[e], n>> \notin present
          /\ \A n \in markers : Before(servers, n, m) => <<dirs[d], n>> \notin present
    BY <1>4 DEF Governs
  <2>2. d \in Nat /\ ~(d < d0)
    BY <1>1, <1>2, <2>1
  <2>3. ~(d0 < d)
    <3>1. d0 < d => d0 \in 1..(d - 1)
      BY <1>1, <2>2
    <3> QED
      BY <1>1, <2>1, <3>1
  <2>4. d = d0
    BY <1>1, <2>2, <2>3
  <2>5. Before(servers, m, m0) \/ Before(servers, m0, m)
    BY <1>1, <1>4, BeforeIsTotal
  <2> QED
    BY <1>1, <1>2, <2>1, <2>4, <2>5
<1> QED
  BY <1>1, <1>3, <1>4 DEF IsGoverning

\* A walk that ends at the own client without a disturbance ends at the best
\* ranked entry.
LEMMA ProbeDecides ==
  ASSUME TInv, NEW c \in Calls, findProjectMarker(c), phase'[c] = "own", steady'[c]
  PROVE  IsBest(c, server'[c])
<1> DEFINE d == spot[c][1]
           marker == spot[c][2]
           there == <<DirsOf[FileOf[c]][d], marker>> \in present
           next == nextSpot(servers, FileOf[c], d, marker)
           notFound == IF next = None
                         THEN Hand(c, None)
                         ELSE spot' = [spot EXCEPT ![c] = next] /\ UNCHANGED <<phase, server>>
<1>1. /\ servers \in Tables /\ DOMAIN steady = Calls /\ DOMAIN phase = Calls
      /\ phase[c] = "walking" /\ TypeOK
  BY DEF TInv, TypeOK, findProjectMarker
<1>2. IsSpot(c, spot[c]) /\ (steady[c] => Searched(c, spot[c]))
  BY <1>1 DEF TInv, WalkInv, WalkOk
<1>3. \/ there /\ Hand(c, marker) /\ UNCHANGED steady
      \/ ~there /\ notFound /\ UNCHANGED steady
  BY <1>1 DEF findProjectMarker
<1>4. CASE there /\ Hand(c, marker) /\ UNCHANGED steady
  <2>1. IsGoverning(c, marker)
    BY <1>1, <1>2, <1>4, FoundGoverns
  <2> QED
    BY <1>1, <1>4, <2>1, HandsToBest
<1>5. CASE ~there /\ notFound /\ UNCHANGED steady
  <2>1. next = None /\ Hand(c, None)
    BY <1>1, <1>5
  <2>2. \A e \in DOMAIN DirsOf[FileOf[c]], m \in configuredProjectMarkers(servers) :
          <<DirsOf[FileOf[c]][e], m>> \notin present
    BY <1>1, <1>2, <1>5, <2>1, NextSpot
  <2>3. \A m \in configuredProjectMarkers(servers) : m # None
    BY <1>1, DeclaredAreMarkers, NoneAssumption
  <2>4. IsGoverning(c, None)
    BY <2>2, <2>3 DEF IsGoverning, Governs
  <2> QED
    BY <1>1, <2>1, <2>4, HandsToBest
<1> QED
  BY <1>3, <1>4, <1>5

\* A call that begins or hears its seam was not walking, and asks only a seam.
LEMMA Moves ==
  ASSUME Typed, NEW c \in Calls, begin(c) \/ trySeamAction(c)
  PROVE  /\ phase[c] \in {"new", "asking"}
         /\ \E p \in Phases :
              /\ phase' = [phase EXCEPT ![c] = p]
              /\ p = "asking" => mounted # None /\ seam' = [seam EXCEPT ![c] = mounted]
<1>1. CASE begin(c)
  <2>1. phase[c] = "new" /\ seam' = [seam EXCEPT ![c] = mounted]
    BY <1>1 DEF begin
  <2>2. CASE mounted # None /\ asks(c, mounted)
    BY <1>1, <2>1, <2>2 DEF begin, Phases
  <2>3. CASE ~(mounted # None /\ asks(c, mounted))
    <3>1. routeForFile(c)
      BY <1>1, <2>3 DEF begin
    <3>2. \E p \in Fallen \cup {"aborted"} : phase' = [phase EXCEPT ![c] = p]
      BY <3>1, Routes
    <3> QED
      BY <2>1, <3>2 DEF Fallen, Phases
  <2> QED
    BY <2>2, <2>3
<1>2. CASE trySeamAction(c)
  <2>1. phase[c] = "asking"
    BY <1>2 DEF trySeamAction
  <2>2. PICK answer \in seamAnswers(c) :
          IF cancelled(c, answer)
            THEN phase' = [phase EXCEPT ![c] = "aborted"]
            ELSE IF fallsThrough(answer)
                   THEN routeForFile(c)
                   ELSE phase' = [phase EXCEPT ![c] =
                          CASE answer = "ok" -> "served"
                            [] answer = "unsupported" -> "unsupported"
                            [] answer = "error" -> "failed"]
    BY <1>2 DEF trySeamAction
  <2>3. CASE cancelled(c, answer)
    BY <2>1, <2>2, <2>3 DEF Phases
  <2>4. CASE ~cancelled(c, answer) /\ ~fallsThrough(answer)
    <3>1. answer \in {"ok", "unsupported", "error"}
      BY <2>4 DEF fallsThrough, seamAnswers
    <3>2. \E p \in {"served", "unsupported", "failed"} : phase' = [phase EXCEPT ![c] = p]
      BY <2>2, <2>4, <3>1
    <3> QED
      BY <2>1, <3>2 DEF Phases
  <2>5. CASE ~cancelled(c, answer) /\ fallsThrough(answer)
    <3>1. \E p \in Fallen \cup {"aborted"} : phase' = [phase EXCEPT ![c] = p]
      BY <2>2, <2>5, Routes
    <3> QED
      BY <2>1, <3>1 DEF Fallen, Phases
  <2> QED
    BY <2>3, <2>4, <2>5
<1> QED
  BY <1>1, <1>2

Asking == \A c \in Calls : phase[c] = "asking" => seam[c] \in Seams

RInv == TInv /\ Asking

LEMMA InitRInv == Init => RInv
  BY InitTInv DEF RInv, Asking, Init

LEMMA TypeOKTyped == TypeOK => Typed
  BY DEF TypeOK, Typed

LEMMA NextRInv == RInv /\ [Next]_vars => RInv'
<1> SUFFICES ASSUME RInv, [Next]_vars PROVE RInv'
  OBVIOUS
<1>1. TInv'
  BY NextTInv DEF RInv, Asking
<1>2. Typed /\ Asking
  BY TypeOKTyped DEF RInv, TInv
<1>3. Asking'
  <2>1. ASSUME NEW c \in Calls, begin(c) \/ trySeamAction(c) PROVE Asking'
    <3>1. seam' = seam \/ seam' = [seam EXCEPT ![c] = mounted]
      BY <2>1 DEF begin, trySeamAction
    <3>2. PICK p \in Phases :
            /\ phase' = [phase EXCEPT ![c] = p]
            /\ p = "asking" => mounted # None /\ seam' = [seam EXCEPT ![c] = mounted]
      BY <1>2, <2>1, Moves
    <3> QED
      BY <1>2, <3>1, <3>2 DEF Typed, Asking
  <2>2. ASSUME NEW c \in Calls, findProjectMarker(c) PROVE Asking'
    BY <1>2, <2>2, Walks DEF Typed, Asking, Fallen
  <2>3. ASSUME NEW c \in Calls, abort(c) PROVE Asking'
    BY <1>2, <2>3 DEF abort, Asking
  <2>4. ASSUME NEW s \in Seams \cup {None}, Mount(s) PROVE Asking'
    BY <1>2, <2>4 DEF Mount, callVars, Asking
  <2>5. ASSUME NEW m \in Changing, Change(m) PROVE Asking'
    BY <1>2, <2>5 DEF Change, Asking
  <2>6. CASE UNCHANGED vars
    BY <1>2, <2>6 DEF vars, callVars, Asking
  <2> QED
    BY <2>1, <2>2, <2>3, <2>4, <2>5, <2>6 DEF Next
<1> QED
  BY <1>1, <1>3 DEF RInv

LEMMA StepDecides ==
  ASSUME RInv, [Next]_vars, NEW c \in Calls,
         phase[c] = "walking", phase'[c] = "own", steady'[c]
  PROVE  IsBest(c, server'[c])
<1>1. Typed /\ TInv
  BY TypeOKTyped DEF RInv, TInv
<1>2. ASSUME NEW b \in Calls, begin(b) \/ trySeamAction(b) PROVE FALSE
  <2>1. phase[b] \in {"new", "asking"} /\ \E p \in Phases : phase' = [phase EXCEPT ![b] = p]
    BY <1>1, <1>2, Moves
  <2> QED
    BY <1>1, <2>1 DEF Typed
<1>3. ASSUME NEW b \in Calls, findProjectMarker(b) PROVE b = c
  <2>1. phase' = phase \/ \E p : phase' = [phase EXCEPT ![b] = p]
    BY <1>1, <1>3, Walks
  <2> QED
    BY <1>1, <2>1 DEF Typed
<1>4. ASSUME NEW b \in Calls, abort(b) PROVE FALSE
  BY <1>4 DEF abort
<1>5. ASSUME NEW s \in Seams \cup {None}, Mount(s) PROVE FALSE
  BY <1>5 DEF Mount, callVars
<1>6. ASSUME NEW m \in Changing, Change(m) PROVE FALSE
  BY <1>6 DEF Change
<1>7. CASE UNCHANGED vars
  BY <1>7 DEF vars, callVars
<1>8. findProjectMarker(c) \/ UNCHANGED vars
  BY <1>2, <1>3, <1>4, <1>5, <1>6 DEF Next
<1> QED
  BY <1>1, <1>7, <1>8, ProbeDecides

-----------------------------------------------------------------------------

\* Whatever comes, goes and is cancelled meanwhile, a walk never leaves the
\* directories of its file, nor a call the entries of the table.
THEOREM TypeCorrect == Spec => []TypeOK
<1>1. RInv => TypeOK
  BY DEF RInv, TInv
<1> QED
  BY <1>1, InitRInv, NextRInv, PTL DEF Spec

\* A walk that nothing disturbed ends at the entry that a glob, the nearest
\* marker or the extension claims the file for, in this order.
THEOREM WalkIsRight == Spec => NearestMarkerDecides
<1>1. RInv /\ [Next]_vars =>
        [\A c \in Calls :
           phase[c] = "walking" /\ phase'[c] = "own" /\ steady'[c]
             => \A i \in DOMAIN servers :
                  \/ Rank(c, server'[c]) < Rank(c, i)
                  \/ Rank(c, server'[c]) = Rank(c, i) /\ server'[c] <= i]_vars
  BY StepDecides DEF IsBest
<1> QED
  BY <1>1, InitRInv, NextRInv, PTL DEF Spec, NearestMarkerDecides
=============================================================================
