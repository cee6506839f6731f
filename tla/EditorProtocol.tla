---------------------------- MODULE EditorProtocol ----------------------------
(***************************************************************************)
(* The editor protocol as one connected editor sees it: the server on stdio *)
(* (src/editor/transport.ts, server.ts), the service behind it             *)
(* (service.ts) with its runs, timeouts, diagnostics cache and events, and *)
(* the mount and disposal of the plugin that owns them (src/index.ts).     *)
(* Requests are handled side by side; disposal detaches a server while its *)
(* runs go on, and a reloaded plugin brings a server of its own.  Lines are *)
(* read in the order in which they were written, and a request's may arrive *)
(* in two chunks, with a reload between them.                              *)
(*                                                                         *)
(* A file has one name here, though events spell it as the request or as   *)
(* the host does, and its text is known by its version.  What a run does   *)
(* to files is FileWrites; here it ends, fails or writes some files.       *)
(***************************************************************************)
EXTENDS DiagnosticsCache, FiniteSets

CONSTANTS
  Requests,
  ActionOf,      \* "diagnostics.get", "quickfix.apply" or another action
  FileOf,        \* the file it names
  Files,
  MaxVersion,    \* versions of a file; bounds the model
  Edited,        \* the files that others write; bounds the model
  Split,         \* the requests whose line may be split; bounds the model
  Servers,       \* the number of configured language servers
  MaxMounts,     \* times the plugin is mounted; bounds the model
  None

ASSUME FilesAssumption == FileOf \in [Requests -> Files]
ASSUME BoundsAssumption ==
  /\ {MaxVersion, MaxMounts, Servers} \subseteq Nat
  /\ Edited \subseteq Files /\ Split \subseteq Requests
ASSUME NoneAssumption == None \notin Files \cup Nat

\* A generation of the plugin, and 0 for a disposed fiber.
Generations == 1..MaxMounts
Version == 0..MaxVersion

VARIABLES
  uid,        \* the fiber's generation
  mounts,     \* generations so far
  server,     \* of each generation: "none", "probing" executables, "failed" to
              \* mount, "on" or "off"
  resolved,   \* the executables it has found while it is probing
  subscribed, \* its eventsDisposer is set
  cache,      \* its diagnostics snapshots, least recently used first
  disk,       \* the version of each file
  phase,      \* where each request is, or its response
  by,         \* the generation that handles it, or that read the start of its line
  read,       \* the version its run read
  todo,       \* the files its run has still to write
  wrote,      \* the file it has just written
  expired,    \* its timeout has fired
  heard,      \* the outcomes that action.status told the editor of it
  view,       \* per file, the diagnostics the editor holds: the last update not
              \* followed by file.changed since its subscription began
  older,      \* history: the pairs of files of which the snapshot of the first
              \* was set or looked up longer ago
  evicted     \* history: files in view whose snapshot is due to go, as the least
              \* recently used of more than the bound

mountVars == <<uid, mounts, server, resolved, subscribed>>
runVars == <<phase, by, read, todo, wrote, expired, heard>>
vars == <<mountVars, cache, disk, runVars, view, older, evicted>>

Entry == [file : Files, version : Version]
Answered == {"succeeded", "failed"}
Coming == {"unsent", "torn"}
Idle == Coming \cup Answered \cup {"lost"}

MountTypeOK ==
  /\ uid \in 0..mounts /\ mounts \in 0..MaxMounts
  /\ server \in [Generations -> {"none", "probing", "failed", "on", "off"}]
  /\ resolved \in [Generations -> 0..Servers]
  /\ subscribed \in [Generations -> BOOLEAN]

CacheTypeOK ==
  /\ DOMAIN cache = Generations
  /\ \A g \in Generations : IsCache(cache[g], Entry)

RunTypeOK ==
  /\ phase \in [Requests -> Idle \cup {"reading", "asking", "writing", "wrote"}]
  /\ by \in [Requests -> {0} \cup Generations]
  /\ read \in [Requests -> Version \cup {None}]
  /\ todo \in [Requests -> SUBSET Files]
  /\ wrote \in [Requests -> Files \cup {None}]
  /\ expired \in [Requests -> BOOLEAN]
  /\ heard \in [Requests -> {<<>>} \cup {<<s>> : s \in Answered}]

TypeOK ==
  /\ MountTypeOK /\ CacheTypeOK /\ RunTypeOK
  /\ disk \in [Files -> Version]
  /\ view \in [Files -> Version \cup {None}]
  /\ older \in [Generations -> SUBSET (Files \X Files)]
  /\ evicted \subseteq Files

Init ==
  /\ uid = 0 /\ mounts = 0
  /\ server = [g \in Generations |-> "none"]
  /\ resolved = [g \in Generations |-> 0]
  /\ subscribed = [g \in Generations |-> FALSE]
  /\ cache = [g \in Generations |-> <<>>]
  /\ disk = [f \in Files |-> 0]
  /\ phase = [r \in Requests |-> "unsent"]
  /\ by = [r \in Requests |-> 0]
  /\ read = [r \in Requests |-> None]
  /\ todo = [r \in Requests |-> {}]
  /\ wrote = [r \in Requests |-> None]
  /\ expired = [r \in Requests |-> FALSE]
  /\ heard = [r \in Requests |-> <<>>]
  /\ view = [f \in Files |-> None]
  /\ older = [g \in Generations |-> {}]
  /\ evicted = {}

-----------------------------------------------------------------------------
(* Mount and disposal *)

\* apply: the generation is captured and every executable is probed.  A value
\* out of its bounds is refused before that.
apply ==
  /\ uid = 0
  /\ mounts < MaxMounts
  /\ mounts' = mounts + 1
  /\ uid' = mounts'
  /\ \E outcome \in {"probing", "failed"} : server' = [server EXCEPT ![mounts'] = outcome]
  /\ UNCHANGED <<resolved, subscribed, cache, disk, runVars, view, older, evicted>>

\* Mutant: a mount goes on however long its probe took.
mountsAnyway(g) == TRUE

mountsStill(g) == uid = g

\* The effect with its tools and its editor server, or nothing for a dead fiber.
registered(g) == IF mountsStill(g) THEN "on" ELSE "failed"

\* validateServerEntry and the bounds it asserts: the mount fails.
refusesEntry(g) ==
  /\ server' = [server EXCEPT ![g] = "failed"]
  /\ resolved' = [resolved EXCEPT ![g] = 0]

\* resolveServers: the entries one by one, in their order.  One that is not valid
\* or whose executable is missing fails the mount, and nothing of those before it
\* is registered; after the last, everything is.
resolveServers(g) ==
  /\ server[g] = "probing"
  /\ \/ /\ resolved[g] + 1 < Servers
        /\ resolved' = [resolved EXCEPT ![g] = @ + 1]
        /\ UNCHANGED server
     \/ /\ resolved[g] + 1 >= Servers
        /\ server' = [server EXCEPT ![g] = registered(g)]
        /\ resolved' = [resolved EXCEPT ![g] = 0]
     \/ refusesEntry(g)
  /\ UNCHANGED <<uid, mounts, subscribed, cache, disk, runVars, view, older, evicted>>

\* Nothing the editor holds is kept up to date without a subscription.
Forget == view' = [f \in Files |-> None] /\ evicted' = {}

\* The fiber is disposed, and with it what the generation registered: the
\* transport, the subscription, the listeners and the cache.  Runs go on.
dispose ==
  /\ uid # 0
  /\ uid' = 0
  /\ server' = [server EXCEPT ![uid] = IF @ = "on" THEN "off" ELSE @]
  /\ subscribed' = [subscribed EXCEPT ![uid] = FALSE]
  /\ cache' = [cache EXCEPT ![uid] = <<>>]
  /\ older' = [older EXCEPT ![uid] = {}]
  /\ Forget
  /\ UNCHANGED <<mounts, resolved, disk, runVars>>

-----------------------------------------------------------------------------
(* Events *)

\* No line is on its way.
BetweenLines == \A r \in Requests : phase[r] # "torn"

\* lsp.events: one listener per server, however often the editor subscribes.
subscribe(g) ==
  /\ server[g] = "on"
  /\ BetweenLines
  /\ ~subscribed[g]
  /\ subscribed' = [subscribed EXCEPT ![g] = TRUE]
  /\ UNCHANGED <<uid, mounts, server, resolved, cache, disk, runVars, view, older, evicted>>

unsubscribe(g) ==
  /\ server[g] = "on"
  /\ BetweenLines
  /\ subscribed[g]
  /\ subscribed' = [subscribed EXCEPT ![g] = FALSE]
  /\ Forget
  /\ UNCHANGED <<uid, mounts, server, resolved, cache, disk, runVars, older>>

\* file.changed, by the generations of G.
FileChanged(G, f) ==
  LET told == \E g \in G : subscribed[g]
  IN /\ view' = IF told THEN [view EXCEPT ![f] = None] ELSE view
     /\ evicted' = IF told THEN evicted \ {f} ELSE evicted

\* Mutant: an observation drops the snapshot and tells nobody.
tellsNobody(f) == {}

\* An observation is told to the subscribers of a generation that held a snapshot.
tells(f) == {g \in Generations : server[g] = "on" /\ Holds(cache[g], f)}

\* fs/observed, from any tool or from a run that reads a file: the listener of
\* the mounted generation drops the snapshot.
Observe(f) ==
  /\ \E g \in Generations : server[g] = "on"
  /\ cache' = [g \in Generations |->
       IF server[g] = "on" THEN delete(cache[g], f) ELSE cache[g]]
  /\ FileChanged(tells(f), f)
  /\ UNCHANGED <<mountVars, disk, runVars, older>>

\* The file is written by somebody else.
Edit(f) ==
  /\ disk[f] < MaxVersion
  /\ disk' = [disk EXCEPT ![f] = @ + 1]
  /\ UNCHANGED <<mountVars, cache, runVars, view, older, evicted>>

-----------------------------------------------------------------------------
(* Requests *)

\* action.status, as the editor hears it.
Status(r, g, s) == heard' = [heard EXCEPT ![r] = IF subscribed[g] THEN Append(@, s) ELSE @]

Serving == {g \in Generations : server[g] = "on"}

\* What nobody reads is lost once a server has read the input, and kept before.
InputFlows == \E g \in Generations : server[g] \in {"on", "off"}

\* onData without a newline: the start of a line stays in the buffer of the
\* server that read it, if there is one.
readStart(r) ==
  /\ r \in Split
  /\ phase[r] = "unsent" /\ BetweenLines
  /\ InputFlows
  /\ phase' = [phase EXCEPT ![r] = "torn"]
  /\ by' = [by EXCEPT ![r] = IF Serving = {} THEN 0 ELSE CHOOSE g \in Serving : TRUE]
  /\ UNCHANGED <<mountVars, cache, disk, read, todo, wrote, expired, heard, view, older, evicted>>

\* Mutant: a chunk without a newline is forgotten.
keepsNone(r) == {}

\* The server whose buffer has the start of the line.
keeps(r) == {by[r]}

\* The servers that the rest of the line completes.
readers(r) ==
  CASE phase[r] = "unsent" /\ BetweenLines -> Serving
    [] phase[r] = "torn" -> Serving \cap keeps(r)
    [] OTHER -> {}

\* drainLines, handleLine: a request is handled by the server that reads the
\* whole of it.  A run begins, or it is refused at once, with an event (another
\* protocol) or without (no action; a method that is not known); a list is
\* answered at once.
receive(r) ==
  /\ \E g \in readers(r) :
       \/ /\ phase' = [phase EXCEPT ![r] = "reading"]
          /\ by' = [by EXCEPT ![r] = g]
          /\ UNCHANGED heard
       \/ /\ phase' = [phase EXCEPT ![r] = "failed"]
          /\ by' = [by EXCEPT ![r] = 0]
          /\ Status(r, g, "failed") \/ UNCHANGED heard
       \/ /\ phase' = [phase EXCEPT ![r] = "succeeded"]
          /\ by' = [by EXCEPT ![r] = 0]
          /\ UNCHANGED heard
  /\ UNCHANGED <<mountVars, cache, disk, read, todo, wrote, expired, view, older, evicted>>

\* The line ends with nobody to read it, or as a remainder that is not JSON.
lose(r) ==
  /\ \/ phase[r] = "torn"
     \/ phase[r] = "unsent" /\ BetweenLines /\ InputFlows
  /\ readers(r) = {}
  /\ phase' = [phase EXCEPT ![r] = "lost"]
  /\ UNCHANGED <<mountVars, cache, disk, by, read, todo, wrote, expired, heard, view, older, evicted>>

\* requestTimeoutMs is over: the run's signal aborts.
timesOut(r) ==
  /\ phase[r] \notin Idle
  /\ ~expired[r]
  /\ expired' = [expired EXCEPT ![r] = TRUE]
  /\ UNCHANGED <<mountVars, cache, disk, phase, by, read, todo, wrote, heard, view, older, evicted>>

\* Mutant: a failed run is not announced.
endsInSilence(r, s) ==
  IF s = "failed" THEN UNCHANGED heard ELSE Status(r, by[r], s)

ends(r, s) == Status(r, by[r], s)

\* A run ends: its last status, then its response.
End(r, s) ==
  /\ ends(r, s)
  /\ phase' = [phase EXCEPT ![r] = s]
  /\ by' = [by EXCEPT ![r] = 0]
  /\ read' = [read EXCEPT ![r] = None]
  /\ todo' = [todo EXCEPT ![r] = {}]
  /\ wrote' = [wrote EXCEPT ![r] = None]
  /\ expired' = [expired EXCEPT ![r] = FALSE]

\* History: a snapshot of f is set, or found: all others were used before it.
usedLast(o, f) ==
  {p \in o : f \notin {p[1], p[2]}} \cup {<<h, f>> : h \in Files \ {f}}

\* History: what goes when more files are held than the bound allows.
leastUsed(o, held) ==
  IF Cardinality(held) > CacheMaxFiles
    THEN {h \in held : \A k \in held \ {h} : <<h, k>> \in o}
    ELSE {}

\* The source is read; a quickfix that names no range looks its file up.
readSource(r) ==
  LET f == FileOf[r]
      g == by[r]
  IN /\ phase[r] = "reading"
     /\ ~expired[r]
     /\ phase' = [phase EXCEPT ![r] = "asking"]
     /\ read' = [read EXCEPT ![r] = disk[f]]
     /\ \/ /\ ActionOf[r] = "quickfix.apply" /\ Holds(cache[g], f)
           /\ cache' = [cache EXCEPT ![g] = get(@, f)]
           /\ older' = [older EXCEPT ![g] = usedLast(@, f)]
        \/ UNCHANGED <<cache, older>>
     /\ UNCHANGED <<mountVars, disk, by, todo, wrote, expired, heard, view, evicted>>

\* diagnostics.get succeeds: cached, announced, answered.
diagnosed(r) ==
  LET f == FileOf[r]
      g == by[r]
      held == {h \in Files : h = f \/ Holds(cache[g], h)}
  IN /\ ActionOf[r] = "diagnostics.get"
     /\ phase[r] = "asking"
     /\ cache' = [cache EXCEPT ![g] = set(@, [file |-> f, version |-> read[r]])]
     /\ older' = [older EXCEPT ![g] = usedLast(@, f)]
     /\ IF subscribed[g]
          THEN /\ view' = [view EXCEPT ![f] = read[r]]
               /\ evicted' = {h \in (evicted \ {f}) \cup leastUsed(older'[g], held) :
                               view'[h] # None}
          ELSE UNCHANGED <<view, evicted>>
     /\ End(r, "succeeded")
     /\ UNCHANGED <<mountVars, disk>>

\* An action that writes gets its edits, of the file or (a quickfix) of several.
edited(r) ==
  /\ ActionOf[r] \in {"format", "quickfix.apply"}
  /\ phase[r] = "asking"
  /\ phase' = [phase EXCEPT ![r] = "writing"]
  /\ \E fs \in SUBSET (IF ActionOf[r] = "format" THEN {FileOf[r]} ELSE Files) \ {{}} :
       todo' = [todo EXCEPT ![r] = fs]
  /\ UNCHANGED <<mountVars, cache, disk, by, read, wrote, expired, heard, view, older, evicted>>

\* The run succeeds with no more to write.
unchanged(r) ==
  /\ ActionOf[r] # "diagnostics.get"
  /\ \/ phase[r] = "asking"
     \/ phase[r] = "writing" /\ todo[r] = {}
  /\ End(r, "succeeded")
  /\ UNCHANGED <<mountVars, cache, disk, view, older, evicted>>

writeText(r) ==
  /\ phase[r] = "writing"
  /\ \E f \in todo[r] :
       /\ disk[f] < MaxVersion
       /\ disk' = [disk EXCEPT ![f] = @ + 1]
       /\ wrote' = [wrote EXCEPT ![r] = f]
       /\ todo' = [todo EXCEPT ![r] = @ \ {f}]
  /\ phase' = [phase EXCEPT ![r] = "wrote"]
  /\ UNCHANGED <<mountVars, cache, by, read, expired, heard, view, older, evicted>>

\* The write is known to the run: observed, its own snapshot dropped, announced.
recordWrite(r) ==
  LET f == wrote[r]
      g == by[r]
  IN /\ phase[r] = "wrote"
     /\ cache' = [h \in Generations |->
          IF server[h] = "on" \/ h = g THEN delete(cache[h], f) ELSE cache[h]]
     /\ FileChanged(tells(f) \cup {g}, f)
     /\ phase' = [phase EXCEPT ![r] = "writing"]
     /\ wrote' = [wrote EXCEPT ![r] = None]
     /\ UNCHANGED <<mountVars, disk, by, read, todo, expired, heard, older>>

\* Mutant: the writes of a run are handed no signal, and cannot fail.
failsEarly == {"reading", "asking"}

failsAt == {"reading", "asking", "writing"}

\* An error, a refused or failed write, or the timeout.
fails(r) ==
  /\ phase[r] \in failsAt
  /\ End(r, "failed")
  /\ UNCHANGED <<mountVars, cache, disk, view, older, evicted>>

RunStep(r) ==
  \/ readStart(r) \/ receive(r) \/ lose(r) \/ timesOut(r)
  \/ readSource(r) \/ diagnosed(r) \/ edited(r) \/ unchanged(r)
  \/ writeText(r) \/ recordWrite(r) \/ fails(r)

Next ==
  \/ apply \/ dispose
  \/ \E g \in Generations : resolveServers(g) \/ subscribe(g) \/ unsubscribe(g)
  \/ \E f \in Files : Observe(f)
  \/ \E f \in Edited : Edit(f)
  \/ \E r \in Requests : RunStep(r)

Spec == Init /\ [][Next]_vars

(***************************************************************************)
(* Fairness: the timeout of a run fires, an expired run fails at its next  *)
(* await (the client and the host's filesystem race it with the signal; a  *)
(* mounted seam is taken to honour the signal it is handed), and a write   *)
(* that returned is recorded.  Without a timeout nothing need go on.       *)
(***************************************************************************)
Expire(r) == timesOut(r) \/ (expired[r] /\ fails(r)) \/ recordWrite(r)

Fairness == \A r \in Requests : WF_vars(Expire(r))

FairSpec == Spec /\ Fairness

-----------------------------------------------------------------------------
(* Properties *)

\* "Register nothing when the generation changed": only the generation of the
\* living fiber has a server, so no request is read by two of them, however the
\* probes of a disposed mount end.
DeadMountsNothing == \A g \in Generations : server[g] = "on" => uid = g

\* The diagnostics an editor holds are those of the cache until it is told
\* otherwise: every invalidation of a snapshot reaches its subscriber, whoever
\* observed or wrote the file.  Only the bound drops one without a word, and it
\* drops the one that was set or looked up longest ago.
ViewIsCache ==
  \A g \in Generations, f \in Files :
    server[g] = "on" /\ view[f] # None =>
      IF f \in evicted
        THEN ~Holds(cache[g], f)
        ELSE [file |-> f, version |-> view[f]] \in ToSet(cache[g])

\* "One event per run lifecycle transition": an editor that is subscribed when
\* a run ends has heard its outcome before the response, and one outcome only.
OutcomeIsTold ==
  [][\A r \in Requests :
       phase[r] \notin Idle /\ phase'[r] \in Answered /\ subscribed[by[r]]
         => heard'[r] = <<phase'[r]>>]_vars

\* "Enforced per run", "always answer": a request whose line has arrived is
\* answered, also when its server is detached meanwhile, unless no server read
\* the line or the one that read its start was disposed before its end.
Settled(r) ==
  \/ phase[r] \in Coming \cup Answered
  \/ phase[r] = "lost" /\ by[r] \notin Serving

\* Requests are finitely many and sent once, so every one of them is settled.
RunsAreAnswered == []<>(\A r \in Requests : Settled(r))
=============================================================================
