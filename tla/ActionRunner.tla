----------------------------- MODULE ActionRunner -----------------------------
(***************************************************************************)
(* Which backend serves an action (src/runner.ts, src/seam.ts): the        *)
(* official ctx.lsp seam when it is mounted and can, the plugin's own      *)
(* client otherwise.  What a seam proved to be is remembered per seam      *)
(* object.  The own client's server is chosen by routeFile                 *)
(* (src/servers.ts) after a walk for the nearest project marker            *)
(* (src/project.ts) that looks at one directory entry per await, while     *)
(* marker files come and go and seams are mounted and removed.             *)
(*                                                                         *)
(* A seam is known by its vocabulary: what is in it is served, or refused  *)
(* with a code; anything else its provider rejects without one.  A server  *)
(* entry is known by the files its globs match, the extensions it maps     *)
(* and the markers it declares.                                            *)
(***************************************************************************)
EXTENDS Naturals, Sequences, SequencesExt, FiniteSetsExt

CONSTANTS
  Calls,
  OpOf,     \* the operation of each call
  FileOf,   \* the file it names; NoFile for a symbol search by name
  Seams,    \* the objects that are mounted as ctx.lsp over time
  Serves,   \* the operations in each seam's vocabulary; {} for the published one
  Tables,   \* server tables, each a sequence of entries
  Files,
  ExtOf,    \* the extension of each file
  DirsOf,   \* its ancestor directories, its own first, the workspace root last
  Changing, \* the marker files that come and go; bounds the model
  Aborting, \* the calls that may be cancelled; bounds the model
  NoFile,
  None

Markers == UNION {UNION {ToSet(t[i].markers) : i \in DOMAIN t} : t \in Tables}
Dirs == UNION {ToSet(DirsOf[f]) : f \in Files}

ASSUME TablesAssumption ==
  \A t \in Tables : t \in Seq(ToSet(t)) /\ \A i \in DOMAIN t : t[i].markers \in Seq(Markers)
ASSUME FilesAssumption ==
  /\ FileOf \in [Calls -> Files]
  /\ \A f \in Files : DirsOf[f] \in Seq(Dirs)
  /\ NoFile \in Files /\ DirsOf[NoFile] = <<>>
  /\ \A c \in Calls : FileOf[c] = NoFile => OpOf[c] = "workspaceSymbol"
ASSUME NoneAssumption ==
  None \notin Seams \cup Markers \cup {"legacy", "unsupported", "actions"} \cup (Nat \X Markers)
ASSUME BoundsAssumption == Changing \subseteq Dirs \X Markers /\ Aborting \subseteq Calls

VARIABLES
  servers,  \* the resolved server table
  mounted,  \* ctx.get('lsp')
  vintages, \* what each seam proved to be
  present,  \* the marker files, as directory and name
  phase,    \* where each call is, or how it ended
  seam,     \* the seam it resolved when it began
  said,     \* what that seam answered it
  spot,     \* its walk: the directory and the marker it looks for next
  steady,   \* no probe of its walk failed, and no marker file changed since it began
  server,   \* the entry of the table the own client serves it with
  aborted   \* its signal

envVars == <<servers, mounted, present>>
callVars == <<phase, seam, said, spot, steady, server, aborted>>
vars == <<envVars, vintages, callVars>>

Answers == {"ok", "otherKind", "codeless", "unavailable", "unsupported", "error"}

TypeOK ==
  /\ servers \in Tables
  /\ mounted \in Seams \cup {None}
  /\ vintages \in [Seams -> {"legacy", "unsupported", "actions", None}]
  /\ present \subseteq Dirs \X Markers
  /\ phase \in [Calls -> {"new", "asking", "walking", "own", "served", "unsupported",
                          "failed", "unavailable", "aborted"}]
  /\ seam \in [Calls -> Seams \cup {None}]
  /\ said \in [Calls -> Answers \cup {None}]
  /\ spot \in [Calls -> (Nat \X Markers) \cup {None}]
  /\ \A c \in Calls :
       IF phase[c] = "walking" THEN spot[c][1] \in DOMAIN DirsOf[FileOf[c]] ELSE spot[c] = None
  /\ steady \in [Calls -> BOOLEAN]
  /\ server \in [Calls -> DOMAIN servers \cup {0}]
  /\ aborted \in [Calls -> BOOLEAN]

Init ==
  /\ servers \in Tables
  /\ mounted = None
  /\ vintages = [s \in Seams |-> None]
  /\ present \in SUBSET Changing
  /\ phase = [c \in Calls |-> "new"]
  /\ seam = [c \in Calls |-> None]
  /\ said = [c \in Calls |-> None]
  /\ spot = [c \in Calls |-> None]
  /\ steady = [c \in Calls |-> TRUE]
  /\ server = [c \in Calls |-> 0]
  /\ aborted = [c \in Calls |-> FALSE]

-----------------------------------------------------------------------------
(* Routing *)

\* Every declared marker once, in the order in which the table first declares
\* them: by its first entry, and by its first place there.
configuredProjectMarkers(t) == UNION {ToSet(t[i].markers) : i \in DOMAIN t}

entryOf(t, m) == Min({i \in DOMAIN t : m \in ToSet(t[i].markers)})
placeOf(t, m) == Min({j \in DOMAIN t[entryOf(t, m)].markers : t[entryOf(t, m)].markers[j] = m})

Before(t, m, n) ==
  \/ entryOf(t, m) < entryOf(t, n)
  \/ entryOf(t, m) = entryOf(t, n) /\ placeOf(t, m) < placeOf(t, n)

First(t, markers) == CHOOSE m \in markers : \A n \in markers \ {m} : Before(t, m, n)
Later(t, m) == {n \in configuredProjectMarkers(t) : Before(t, m, n)}

\* routeFile: the first entry whose globs match, else the first that declares
\* the marker and maps the extension, else the first that maps it; 0 for none.
routeFile(t, f, marker) ==
  LET matches == {i \in DOMAIN t : f \in t[i].claims}
      maps == {i \in DOMAIN t : ExtOf[f] \in t[i].maps}
      claims == {i \in maps : marker \in ToSet(t[i].markers)}
  IN IF matches # {} THEN Min(matches)
     ELSE IF claims # {} THEN Min(claims)
     ELSE IF maps # {} THEN Min(maps) ELSE 0

\* A symbol search that no entry routes goes to the first server.
firstServerRoute(t, op) == IF op = "workspaceSymbol" /\ t # <<>> THEN 1 ELSE 0

\* The call is handed to the own client, or nothing handles its file.
Hand(c, marker) ==
  LET routed == routeFile(servers, FileOf[c], marker)
      route == IF routed # 0 THEN routed ELSE firstServerRoute(servers, OpOf[c])
  IN /\ server' = [server EXCEPT ![c] = route]
     /\ phase' = [phase EXCEPT ![c] = IF route = 0 THEN "unavailable" ELSE "own"]
     /\ spot' = [spot EXCEPT ![c] = None]

\* routeForFile: without declared markers, or a file in the workspace, nothing
\* is looked for.
routeForFile(c) ==
  LET markers == configuredProjectMarkers(servers)
  IN IF markers = {} \/ DirsOf[FileOf[c]] = <<>>
       THEN Hand(c, None) /\ UNCHANGED steady
       ELSE IF aborted[c]
         THEN phase' = [phase EXCEPT ![c] = "aborted"] /\ UNCHANGED <<spot, steady, server>>
         ELSE /\ phase' = [phase EXCEPT ![c] = "walking"]
              /\ spot' = [spot EXCEPT ![c] = <<1, First(servers, markers)>>]
              /\ steady' = [steady EXCEPT ![c] = TRUE]
              /\ UNCHANGED server

\* Mutant: one marker is looked for everywhere before the next.
markerFirst(t, f, d, m) ==
  IF d < Len(DirsOf[f]) THEN <<d + 1, m>>
  ELSE IF Later(t, m) # {} THEN <<1, First(t, Later(t, m))>> ELSE None

\* Mutant: the walk goes on above the workspace root.
pastRoot(t, f, d, m) ==
  IF Later(t, m) # {} THEN <<d, First(t, Later(t, m))>>
  ELSE IF d <= Len(DirsOf[f]) THEN <<d + 1, First(t, configuredProjectMarkers(t))>> ELSE None

\* The next probe: all markers of a directory, then the directory above it.
nextSpot(t, f, d, m) ==
  IF Later(t, m) # {} THEN <<d, First(t, Later(t, m))>>
  ELSE IF d < Len(DirsOf[f]) THEN <<d + 1, First(t, configuredProjectMarkers(t))>> ELSE None

\* findProjectMarker: one probe.  A probe that fails found nothing, and a file
\* that cannot be resolved has no project.
findProjectMarker(c) ==
  LET d == spot[c][1]
      marker == spot[c][2]
      there == <<DirsOf[FileOf[c]][d], marker>> \in present
      next == nextSpot(servers, FileOf[c], d, marker)
      resolving == spot[c] = <<1, First(servers, configuredProjectMarkers(servers))>>
      notFound == IF next = None
                    THEN Hand(c, None)
                    ELSE spot' = [spot EXCEPT ![c] = next] /\ UNCHANGED <<phase, server>>
      fails == steady' = [steady EXCEPT ![c] = FALSE]
  IN /\ phase[c] = "walking"
     /\ \/ /\ aborted[c]
           /\ phase' = [phase EXCEPT ![c] = "aborted"]
           /\ spot' = [spot EXCEPT ![c] = None]
           /\ UNCHANGED <<steady, server>>
        \/ ~aborted[c] /\ there /\ Hand(c, marker) /\ UNCHANGED steady
        \/ ~aborted[c] /\ ~there /\ notFound /\ UNCHANGED steady
        \/ ~aborted[c] /\ there /\ notFound /\ fails
        \/ ~aborted[c] /\ resolving /\ Hand(c, None) /\ fails
     /\ UNCHANGED <<envVars, vintages, seam, said, aborted>>

-----------------------------------------------------------------------------
(* The seam *)

\* A rename asks every seam; the other operations not one that proved legacy.
asks(c, s) == OpOf[c] = "rename" \/ vintages[s] # "legacy"

\* runOp and renameOp: the seam is resolved when the call begins.
begin(c) ==
  /\ phase[c] = "new"
  /\ seam' = [seam EXCEPT ![c] = mounted]
  /\ IF mounted # None /\ asks(c, mounted)
       THEN /\ phase' = [phase EXCEPT ![c] = "asking"]
            /\ UNCHANGED <<spot, steady, server>>
       ELSE routeForFile(c)
  /\ UNCHANGED <<envVars, vintages, said, aborted>>

\* What a seam may answer, or reject a cancelled query with.
seamAnswers(c) ==
  (IF OpOf[c] \in Serves[seam[c]]
     THEN {"ok", "unavailable", "unsupported", "error"}
            \cup (IF OpOf[c] = "rename" THEN {"otherKind"} ELSE {})
     ELSE {"codeless"})
  \cup (IF aborted[c] THEN {"codeless"} ELSE {})

\* Mutant: a rejection is classified whether or not the call was cancelled.
cancelledAnyway(c, answer) == FALSE

\* A rejection of a cancelled query is the caller's own cancellation.
cancelled(c, answer) == aborted[c] /\ answer \notin {"ok", "otherKind"}

classifySeamAttempt(answer) ==
  CASE answer = "codeless" -> "legacy"
    [] answer = "unsupported" -> "unsupported"
    [] OTHER -> "actions"

\* Mutant: the vintage is recorded for whatever seam is mounted by now.
recordForMounted(c, answer) ==
  IF OpOf[c] = "rename" \/ mounted = None THEN vintages
  ELSE [vintages EXCEPT ![mounted] = classifySeamAttempt(answer)]

\* recordSeamVintage: of the seam that answered; a rename records nothing.
recordSeamVintage(c, answer) ==
  IF OpOf[c] = "rename" THEN vintages
  ELSE [vintages EXCEPT ![seam[c]] = classifySeamAttempt(answer)]

fallsThrough(answer) == answer \in {"otherKind", "codeless", "unavailable"}

\* trySeamAction settles, and the call with it unless it falls through.
trySeamAction(c) ==
  /\ phase[c] = "asking"
  /\ \E answer \in seamAnswers(c) :
       IF cancelled(c, answer)
         THEN /\ phase' = [phase EXCEPT ![c] = "aborted"]
              /\ UNCHANGED <<vintages, said, spot, steady, server>>
         ELSE /\ said' = [said EXCEPT ![c] = answer]
              /\ vintages' = recordSeamVintage(c, answer)
              /\ IF fallsThrough(answer)
                   THEN routeForFile(c)
                   ELSE /\ phase' = [phase EXCEPT ![c] =
                             CASE answer = "ok" -> "served"
                               [] answer = "unsupported" -> "unsupported"
                               [] answer = "error" -> "failed"]
                        /\ UNCHANGED <<spot, steady, server>>
  /\ UNCHANGED <<envVars, seam, aborted>>

-----------------------------------------------------------------------------
(* Everybody else *)

Mount(s) ==
  /\ s # mounted
  /\ mounted' = s
  /\ UNCHANGED <<servers, present, vintages, callVars>>

\* A marker file is created or removed.
Change(m) ==
  /\ present' = IF m \in present THEN present \ {m} ELSE present \cup {m}
  /\ steady' = [c \in Calls |-> steady[c] /\ phase[c] # "walking"]
  /\ UNCHANGED <<servers, mounted, vintages, phase, seam, said, spot, server, aborted>>

abort(c) ==
  /\ c \in Aborting
  /\ phase[c] \in {"asking", "walking"}
  /\ ~aborted[c]
  /\ aborted' = [aborted EXCEPT ![c] = TRUE]
  /\ UNCHANGED <<envVars, vintages, phase, seam, said, spot, steady, server>>

Next ==
  \/ \E c \in Calls : begin(c) \/ trySeamAction(c) \/ findProjectMarker(c) \/ abort(c)
  \/ \E s \in Seams \cup {None} : Mount(s)
  \/ \E m \in Changing : Change(m)

Spec == Init /\ [][Next]_vars

-----------------------------------------------------------------------------
(* Properties *)

\* The vintage is "a capability fact about the mounted seam" and of that very
\* object: a seam is taken for legacy only if some operation is beyond it, and
\* for an extended one only if it knows one, whatever is cancelled or remounted
\* while it answers.
VintageIsOfItsSeam ==
  \A s \in Seams :
    /\ vintages[s] = "legacy" => \E c \in Calls : OpOf[c] \notin Serves[s]
    /\ vintages[s] \in {"unsupported", "actions"} => \E c \in Calls : OpOf[c] \in Serves[s]

\* "Actions fall back to the plugin's own minimal stdio client when the seam is
\* absent, of an older vintage, or has no provider for that file": the own client
\* never serves what the mounted seam serves, nor what its provider does not
\* support ("a real error instead of a silently spawned duplicate").
SeamFirst ==
  \A c \in Calls :
    server[c] # 0 /\ seam[c] # None /\ OpOf[c] \in Serves[seam[c]]
      => said[c] \in {"unavailable", "otherKind"}

\* The marker that governs a file: in the nearest directory that holds any, the
\* one declared first.
Governs(c, marker) ==
  LET markers == configuredProjectMarkers(servers)
      dirs == DirsOf[FileOf[c]]
  IN \E d \in DOMAIN dirs :
       /\ <<dirs[d], marker>> \in present
       /\ \A e \in 1..(d - 1), m \in markers : <<dirs[e], m>> \notin present
       /\ \A m \in markers : Before(servers, m, marker) => <<dirs[d], m>> \notin present

\* A glob outranks a marker, a marker outranks the extension map, and a marker
\* never widens the file types of an entry.
Rank(c, i) ==
  LET maps == ExtOf[FileOf[c]] \in servers[i].maps
  IN IF FileOf[c] \in servers[i].claims THEN 0
     ELSE IF maps /\ \E m \in ToSet(servers[i].markers) : Governs(c, m) THEN 1
     ELSE IF maps THEN 2 ELSE 3

\* "The nearest ancestor that holds a configured marker claims the file": unless
\* a marker file changed or could not be looked at during the walk, the entry
\* that serves a file is the best ranked and, among those, the first.
NearestMarkerDecides ==
  [][\A c \in Calls :
       phase[c] = "walking" /\ phase'[c] = "own" /\ steady'[c]
         => \A i \in DOMAIN servers :
              \/ Rank(c, server'[c]) < Rank(c, i)
              \/ Rank(c, server'[c]) = Rank(c, i) /\ server'[c] <= i]_vars
=============================================================================
