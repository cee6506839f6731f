----------------------------- MODULE FileWrites -----------------------------
(***************************************************************************)
(* How results of a language server become writes: lsp_format and          *)
(* lsp_rename (src/tools.ts), format, quickfix.apply and diagnostics.get   *)
(* of the editor protocol (src/editor/actions.ts), the source read they    *)
(* share (src/host.ts), the sandbox mode each write is stamped with        *)
(* (src/sandbox.ts) and the editor's diagnostics cache.  A call settles    *)
(* its mode, reads its file, asks the server, reads every file its answer  *)
(* edits, and writes them one by one; meanwhile anybody else may edit a    *)
(* file, and the user may put a session into another mode.                 *)
(*                                                                         *)
(* The text of a file is known by its version: every write makes a new     *)
(* one.  The filesystem and its observation policy belong to the host: a   *)
(* session's last observation of a file is the version that its writes     *)
(* are guarded with, and a write without one only creates files.  A stat   *)
(* may give no version; what is read then is not observed.  So does        *)
(* the sandbox: it knows the mode a session stands in, and asks the user   *)
(* when a call wants a wider one for itself.                               *)
(***************************************************************************)
EXTENDS DiagnosticsCache, FiniteSets

CONSTANTS
  Calls,
  Files,
  Sessions,
  KindOf,        \* "format", "rename", "quickfix" or "diagnose"
  FileOf,        \* the file each call names
  SessionOf,     \* the session it acts for; None for an editor without a live agent
  OfEditor,      \* the calls of the editor protocol; the others are tools
  Asks,          \* the wider mode a call asks the user for, or None
  InitialMode,   \* the mode every session stands in at first; None without a confining filesystem
  Standing,      \* the modes a session may be put into
  MaxSwitches,   \* changes of mode; bounds the model
  MaxVersion,    \* versions of a file; bounds the model
  MaxTargets,    \* documents an answer edits; bounds the model
  Shared,        \* the files that others read and edit; bounds the model
  Tokenless,     \* the files whose stat may give no version; bounds the model
  Traced,        \* the calls whose source is kept, as history, until they end
  Outside,       \* a document outside the workspace, as an answer may name it
  None

ASSUME KindsAssumption == KindOf \in [Calls -> {"format", "rename", "quickfix", "diagnose"}]
ASSUME FilesAssumption == FileOf \in [Calls -> Files] /\ Outside \notin Files
ASSUME SessionsAssumption == SessionOf \in [Calls -> Sessions \cup {None}] /\ None \notin Sessions
ASSUME EditorAssumption == OfEditor \subseteq Calls
ASSUME ModesAssumption ==
  /\ Asks \in [Calls -> {"workspace-write", "danger-full-access", None}]
  /\ Standing \subseteq {"read-only", "workspace-write", "danger-full-access"}
  /\ InitialMode \in Standing \cup {None} /\ MaxSwitches \in Nat
  /\ None \notin {"read-only", "workspace-write", "danger-full-access"}
ASSUME BoundsAssumption ==
  /\ MaxVersion \in Nat /\ MaxTargets \in Nat
  /\ Shared \subseteq Files /\ Tokenless \subseteq Files /\ Traced \subseteq Calls

\* A version that is not known is no version.
ASSUME NoneAssumption == None \notin Nat

VARIABLES
  disk,     \* the version of each file
  observed, \* per session and file, the version observed last
  cache,    \* the editor's diagnostics snapshots, least recently used first
  standing, \* the mode each session stands in
  switches, \* changes of mode so far
  policy,   \* the mode a call was let through with, stamped on its writes
  stood,    \* history: the modes its session stood in since it began
  granted,  \* history: the calls the user granted their wider mode
  phase,    \* where each call is, or how it ended
  seen,     \* the version its pending read found by stat, if any
  source,   \* what prepareRequest read
  aim,      \* the snapshot a quickfix without a range aims with
  targets,  \* the documents its answer edits, still to be read
  plan,     \* the files to write
  intent,   \* what guards its pending write
  written   \* the files it has written

fsVars == <<disk, observed>>
modeVars == <<standing, switches>>
passVars == <<policy, stood, granted>>
callVars == <<phase, seen, source, aim, targets, plan, intent, written>>
vars == <<fsVars, cache, modeVars, passVars, callVars>>

Version == 0..MaxVersion
Modes == {"read-only", "workspace-write", "danger-full-access", None}
Read == [file : Files, version : Version \cup {None}, text : Version]

FsTypeOK ==
  /\ disk \in [Files -> Version]
  /\ observed \in [Sessions -> [Files -> Version \cup {None}]]
  /\ IsCache(cache, Read)

ModeTypeOK ==
  /\ standing \in [Sessions \cup {None} -> Modes] /\ switches \in 0..MaxSwitches
  /\ policy \in [Calls -> Modes] /\ stood \in [Calls -> SUBSET Modes] /\ granted \subseteq Calls

CallTypeOK ==
  /\ phase \in [Calls -> {"new", "approval", "reading", "asking", "preflight", "rereading",
                          "intent", "writing", "wrote", "done", "refused", "failed"}]
  /\ seen \in [Calls -> Version \cup {None}]
  /\ source \in [Calls -> Read \cup {None}]
  /\ aim \in [Calls -> Read \cup {None}]
  /\ targets \in [Calls -> Seq(Files \cup {Outside})]
  /\ plan \in [Calls -> Seq(Read)]
  /\ intent \in [Calls -> Version \cup {None}]
  /\ written \in [Calls -> SUBSET Files]

TypeOK == FsTypeOK /\ ModeTypeOK /\ CallTypeOK

Init ==
  /\ disk = [f \in Files |-> 0]
  /\ observed = [s \in Sessions |-> [f \in Files |-> None]]
  /\ cache = <<>>
  /\ standing = [s \in Sessions \cup {None} |-> InitialMode] /\ switches = 0
  /\ policy = [c \in Calls |-> None]
  /\ stood = [c \in Calls |-> {}]
  /\ granted = {}
  /\ phase = [c \in Calls |-> "new"]
  /\ seen = [c \in Calls |-> 0]
  /\ source = [c \in Calls |-> None]
  /\ aim = [c \in Calls |-> None]
  /\ targets = [c \in Calls |-> <<>>]
  /\ plan = [c \in Calls |-> <<>>]
  /\ intent = [c \in Calls |-> None]
  /\ written = [c \in Calls |-> {}]

Ended == {"done", "refused", "failed"}

\* The call is over, and with it all it had read.
Leave(c, how) ==
  /\ phase' = [phase EXCEPT ![c] = how]
  /\ policy' = [policy EXCEPT ![c] = None]
  /\ stood' = [stood EXCEPT ![c] = {}]
  /\ granted' = granted \ {c}
  /\ seen' = [seen EXCEPT ![c] = 0]
  /\ source' = [source EXCEPT ![c] = None]
  /\ aim' = [aim EXCEPT ![c] = None]
  /\ targets' = [targets EXCEPT ![c] = <<>>]
  /\ plan' = [plan EXCEPT ![c] = <<>>]
  /\ intent' = [intent EXCEPT ![c] = None]
  /\ written' = [written EXCEPT ![c] = {}]

-----------------------------------------------------------------------------
(* Reads and observations *)

\* fs/observed: the session's observation, and the editor's listener.
observe(s, f, v) ==
  /\ observed' = IF s = None THEN observed ELSE [observed EXCEPT ![s][f] = v]
  /\ cache' = delete(cache, f)

\* What is read without a version is not observed.
observeRead(s, r) ==
  IF r.version = None THEN UNCHANGED <<observed, cache>> ELSE observe(s, r.file, r.version)

\* The version that a stat of the file gives, if it gives one.
StatOf(f) == {disk[f]} \cup (IF f \in Tokenless THEN {None} ELSE {})

\* Mutant: the freshness token is taken after the text.
textFirst(f, first, second) == [file |-> f, version |-> second, text |-> first]

\* readHostSource: stat, then the text.
readHostSource(f, first, second) == [file |-> f, version |-> first, text |-> second]

\* prepareRequest: the stat of the file the call names.
stat(c) ==
  /\ phase' = [phase EXCEPT ![c] = "reading"]
  /\ \E v \in StatOf(FileOf[c]) : seen' = [seen EXCEPT ![c] = v]

-----------------------------------------------------------------------------
(* The mode a call writes with *)

Writes(c) == KindOf[c] # "diagnose"

Wider(mode, than) ==
  <<than, mode>> \in {<<"read-only", "workspace-write">>, <<"read-only", "danger-full-access">>,
                     <<"workspace-write", "danger-full-access">>}

\* Mutant: the mode is read once, when the plugin is applied.
resolvedAtMount(s) == InitialMode

\* SandboxPolicyService.resolve: the session's standing mode.
resolve(s) == standing[s]

\* A read-only session is refused before anything is read: by the editor
\* whatever is asked for, by a tool unless the user is to be asked.
ReadOnly(c) == resolve(SessionOf[c]) = "read-only" /\ (c \in OfEditor \/ Asks[c] = None)

\* A call without its paths, position or workspace ends before all that.
invalid(c) ==
  /\ phase[c] = "new"
  /\ Leave(c, "failed")
  /\ UNCHANGED <<fsVars, cache, modeVars>>

refuse(c) ==
  /\ phase[c] = "new"
  /\ Writes(c) /\ ReadOnly(c)
  /\ Leave(c, "refused")
  /\ UNCHANGED <<fsVars, cache, modeVars>>

\* The standing mode is taken, and the user asked or the file looked for.
begin(c) ==
  LET mode == IF Writes(c) THEN resolve(SessionOf[c]) ELSE None
  IN /\ phase[c] = "new"
     /\ ~(Writes(c) /\ ReadOnly(c))
     /\ policy' = [policy EXCEPT ![c] = mode]
     /\ stood' = [stood EXCEPT ![c] = IF Writes(c) THEN {standing[SessionOf[c]]} ELSE {}]
     /\ IF Writes(c) /\ Asks[c] # None
          THEN phase' = [phase EXCEPT ![c] = "approval"] /\ UNCHANGED seen
          ELSE stat(c)
     /\ UNCHANGED <<fsVars, cache, modeVars, granted, source, aim, targets, plan, intent, written>>

\* Mutant: a call that is not granted what it asks for goes on with it.
unapproved(c) ==
  /\ phase[c] = "approval"
  /\ policy' = [policy EXCEPT ![c] = Asks[c]]
  /\ stat(c)
  /\ UNCHANGED <<fsVars, cache, modeVars, stood, granted, source, aim, targets, plan, intent, written>>

\* approveEscalation: the user grants a mode that is wider than the one the
\* call began with, for this call alone.
approved(c) ==
  /\ phase[c] = "approval"
  /\ Wider(Asks[c], policy[c])
  /\ policy' = [policy EXCEPT ![c] = Asks[c]]
  /\ granted' = granted \cup {c}
  /\ stat(c)
  /\ UNCHANGED <<fsVars, cache, modeVars, stood, source, aim, targets, plan, intent, written>>

\* Nobody to ask, nothing to widen, a rejection or a cancellation.
denied(c) ==
  /\ phase[c] = "approval"
  /\ Leave(c, "failed")
  /\ UNCHANGED <<fsVars, cache, modeVars>>

-----------------------------------------------------------------------------
(* The source, and what a quickfix aims at *)

\* Mutant: the snapshot of any version will do.
anyVersion(e, r) == TRUE

\* A version that is not known fits any other.
sameVersion(e, r) == None \in {e.version, r.version} \/ e.version = r.version

\* firstCachedErrorRange: a quickfix looks its file up, and aims at the first
\* cached error unless that is of another version.
aimAtCached(c, r) ==
  /\ cache' = get(cache, r.file)
  /\ aim' = [aim EXCEPT ![c] =
       IF Holds(cache, r.file) /\ sameVersion(Snapshot(cache, r.file), r)
         THEN Snapshot(cache, r.file) ELSE None]

\* No snapshot to aim with, or a range of its own.
aimFreely(c) == aim' = [aim EXCEPT ![c] = None]

\* prepareRequest returns: a format observes what was read, a quickfix without
\* a range of its own aims at what is cached, and the others only ask.
sourceRead(c) ==
  LET r == readHostSource(FileOf[c], seen[c], disk[FileOf[c]])
  IN /\ phase[c] = "reading"
     /\ phase' = [phase EXCEPT ![c] = "asking"]
     /\ source' = [source EXCEPT ![c] = r]
     /\ seen' = [seen EXCEPT ![c] = 0]
     /\ \/ KindOf[c] = "format" /\ observeRead(SessionOf[c], r) /\ aimFreely(c)
        \/ KindOf[c] = "quickfix" /\ aimAtCached(c, r) /\ UNCHANGED observed
        \/ KindOf[c] # "format" /\ UNCHANGED <<observed, cache>> /\ aimFreely(c)
     /\ UNCHANGED <<disk, modeVars, passVars, targets, plan, intent, written>>

-----------------------------------------------------------------------------
(* Answers and their pre-flight *)

\* Mutant: a file is written as soon as its own edits are known to fit.
eager(ts, p) ==
  IF p # <<>> THEN "intent" ELSE IF ts # <<>> THEN "preflight" ELSE "done"

\* Every target is read and edited before the first write.
onward(ts, p) ==
  IF ts # <<>> THEN "preflight" ELSE IF p # <<>> THEN "intent" ELSE "done"

\* The call goes on, having written these files.  What it sent to the server and
\* what it aimed with is not looked at again.
Onward(c, ts, p, done) ==
  LET next == onward(ts, p)
  IN IF next = "done"
       THEN Leave(c, "done")
       ELSE /\ phase' = [phase EXCEPT ![c] = next]
            /\ targets' = [targets EXCEPT ![c] = ts]
            /\ plan' = [plan EXCEPT ![c] = p]
            /\ seen' = [seen EXCEPT ![c] = 0]
            /\ intent' = [intent EXCEPT ![c] = None]
            /\ written' = [written EXCEPT ![c] = done]
            /\ source' = [source EXCEPT ![c] = IF c \in Traced THEN @ ELSE None]
            /\ aim' = [aim EXCEPT ![c] = None]
            /\ UNCHANGED passVars

\* diagnostics.get caches what the server said of the text it was sent.
diagnosed(c) ==
  /\ KindOf[c] = "diagnose"
  /\ phase[c] = "asking"
  /\ cache' = set(cache, source[c])
  /\ Leave(c, "done")
  /\ UNCHANGED <<fsVars, modeVars>>

\* The server formats the text it was sent: nothing to do, edits that apply,
\* or edits that overlap or lie outside the text.
formatted(c) ==
  /\ KindOf[c] = "format"
  /\ phase[c] = "asking"
  /\ \/ Leave(c, "done")
     \/ Onward(c, <<>>, <<source[c]>>, {})
     \/ Leave(c, "refused")
  /\ UNCHANGED <<fsVars, cache, modeVars>>

\* The documents that an answer edits, in some order.
Answers == {ts \in BoundedSeq(Files \cup {Outside}, MaxTargets) : IsInjective(ts)}

\* The server answers a rename or a quickfix with edits of some documents.  A
\* quickfix that is not found, or has no edits, is an error.
edited(c) ==
  /\ KindOf[c] \in {"rename", "quickfix"}
  /\ phase[c] = "asking"
  /\ \/ \E ts \in Answers :
          /\ ts # <<>> \/ KindOf[c] = "rename"
          /\ Onward(c, ts, <<>>, {})
     \/ KindOf[c] = "quickfix" /\ Leave(c, "failed")
  /\ UNCHANGED <<fsVars, cache, modeVars>>

\* The next target: outside the workspace, or its stat.
checkTarget(c) ==
  LET t == Head(targets[c])
  IN /\ phase[c] = "preflight"
     /\ \/ /\ t = Outside
           /\ Leave(c, "refused")
        \/ /\ t # Outside
           /\ phase' = [phase EXCEPT ![c] = "rereading"]
           /\ \E v \in StatOf(t) : seen' = [seen EXCEPT ![c] = v]
           /\ UNCHANGED <<passVars, source, aim, targets, plan, intent, written>>
     /\ UNCHANGED <<fsVars, cache, modeVars>>

\* It is read, observed and edited: changed, not changed, or the edits do not fit.
targetRead(c) ==
  LET t == Head(targets[c])
      r == readHostSource(t, seen[c], disk[t])
  IN /\ phase[c] = "rereading"
     /\ observeRead(SessionOf[c], r)
     /\ \/ Onward(c, Tail(targets[c]), Append(plan[c], r), written[c])
        \/ Onward(c, Tail(targets[c]), plan[c], written[c])
        \/ Leave(c, "refused")
     /\ UNCHANGED <<disk, modeVars>>

-----------------------------------------------------------------------------
(* Writes *)

\* fs/write-intent: the policy answers with the session's last observation.
writeIntent(c) ==
  LET s == SessionOf[c]
  IN /\ phase[c] = "intent"
     /\ phase' = [phase EXCEPT ![c] = "writing"]
     /\ intent' = [intent EXCEPT ![c] =
          IF s = None THEN None ELSE observed[s][Head(plan[c]).file]]
     /\ UNCHANGED <<fsVars, cache, modeVars, passVars, seen, source, aim, targets, plan, written>>

\* writeText: guarded by the version, and refused without one.
writeText(c) ==
  LET f == Head(plan[c]).file
  IN /\ phase[c] = "writing"
     /\ intent[c] = disk[f]
     /\ disk[f] < MaxVersion
     /\ disk' = [disk EXCEPT ![f] = @ + 1]
     /\ phase' = [phase EXCEPT ![c] = "wrote"]
     /\ seen' = [seen EXCEPT ![c] = disk[f] + 1]
     /\ UNCHANGED <<observed, cache, modeVars, passVars, source, aim, targets, plan, intent, written>>

\* LSP_ACTION_CONFLICT: the files written before stay written.
conflict(c) ==
  /\ phase[c] = "writing"
  /\ intent[c] # disk[Head(plan[c]).file]
  /\ Leave(c, "failed")
  /\ UNCHANGED <<fsVars, cache, modeVars>>

\* The write is known to the call: observed, uncached, and on to the next file.
recordWrite(c) ==
  LET f == Head(plan[c]).file
  IN /\ phase[c] = "wrote"
     /\ observe(SessionOf[c], f, seen[c])
     /\ Onward(c, targets[c], Tail(plan[c]), written[c] \cup {f})
     /\ UNCHANGED <<disk, modeVars>>

\* An abort, an unreadable file, a server error or a write that is denied.
fails(c) ==
  /\ phase[c] \notin Ended \cup {"new", "approval", "wrote"}
  /\ Leave(c, "failed")
  /\ UNCHANGED <<fsVars, cache, modeVars>>

-----------------------------------------------------------------------------
(* Everybody else *)

Edit(f) ==
  /\ disk[f] < MaxVersion
  /\ disk' = [disk EXCEPT ![f] = @ + 1]
  /\ UNCHANGED <<observed, cache, modeVars, passVars, callVars>>

\* Another tool of a session reads the file.
OtherRead(s, f) ==
  /\ observe(s, f, disk[f])
  /\ UNCHANGED <<disk, modeVars, passVars, callVars>>

\* The user puts a session into another mode.
SetMode(s, mode) ==
  /\ InitialMode # None /\ switches < MaxSwitches
  /\ mode # standing[s]
  /\ standing' = [standing EXCEPT ![s] = mode]
  /\ switches' = switches + 1
  /\ stood' = [c \in Calls |->
       IF SessionOf[c] = s /\ Writes(c) /\ phase[c] \notin Ended \cup {"new"}
         THEN stood[c] \cup {mode} ELSE stood[c]]
  /\ UNCHANGED <<fsVars, cache, policy, granted, callVars>>

Step(c) ==
  \/ invalid(c) \/ refuse(c) \/ begin(c) \/ approved(c) \/ denied(c)
  \/ sourceRead(c)
  \/ diagnosed(c) \/ formatted(c) \/ edited(c)
  \/ checkTarget(c) \/ targetRead(c)
  \/ writeIntent(c) \/ writeText(c) \/ conflict(c) \/ recordWrite(c)
  \/ fails(c)

Next ==
  \/ \E c \in Calls : Step(c)
  \/ \E f \in Shared : Edit(f)
  \/ \E s \in Sessions, f \in Shared : OtherRead(s, f)
  \/ \E s \in Sessions, mode \in Standing : SetMode(s, mode)

Spec == Init /\ [][Next]_vars

-----------------------------------------------------------------------------
(* Properties *)

\* A write guarded by what its own call observed replaces exactly the text that
\* was edited, although the version and the text were read one after the other
\* and files change between any two awaits.
OwnGuardProtects ==
  [][\A c \in Calls :
       phase[c] = "writing" /\ phase'[c] = "wrote" /\ intent[c] = Head(plan[c]).version
         => disk[Head(plan[c]).file] = Head(plan[c]).text]_vars

\* "Pre-flight every target before the first write": a call that refuses its
\* answer (outside the workspace, overlapping or misplaced edits) wrote nothing.
RefusalWritesNothing ==
  [][\A c \in Calls : phase[c] # "refused" /\ phase'[c] = "refused" => written[c] = {}]_vars

\* "A read-only session never pays for a server round-trip": whatever a call is
\* doing after the gate, it does in a mode that its session stood in while the
\* call was under way, and never read-only, or in the one mode the user granted
\* this call.  The mode may have changed since: it is not looked at again.
ModeIsWarranted ==
  \A c \in Calls :
    Writes(c) /\ phase[c] \notin Ended \cup {"new", "approval"} =>
      IF c \in granted THEN policy[c] = Asks[c]
      ELSE policy[c] \in stood[c] \ {"read-only"}

\* "Prevents quickfixes from landing on a moved line": when the snapshot a
\* quickfix aims with and the source it read both have a version, the
\* diagnostics are not of an older text than the file had when the quickfix
\* began, whatever was written while they were computed.  Without one of the two
\* versions the snapshot is taken unseen, and may be of any older text.
QuickfixAimsAtNewText ==
  \A c \in Calls :
    aim[c] # None /\ aim[c].version # None /\ source[c].version # None
      => aim[c].text >= source[c].version

\* "It is never clobbered.  An action fails with LSP_ACTION_CONFLICT when the
\* file changed since it was read": what is written over is what was sent to
\* the server.
NeverClobbers ==
  [][\A c \in Traced :
       phase[c] = "writing" /\ phase'[c] = "wrote" /\ Head(plan[c]).file = FileOf[c]
         => disk[FileOf[c]] = source[c].text]_vars
=============================================================================
