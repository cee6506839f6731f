--------------------------- MODULE FileWritesProofs ---------------------------
(***************************************************************************)
(* What guards a write, for any calls, files, sessions and bounds of       *)
(* FileWrites.  A version that was found by stat is no newer than the text *)
(* that was read after it, and that text no newer than the file: when the  *)
(* version found by stat is still the file's, so is the text.              *)
(***************************************************************************)
EXTENDS FileWrites, DiagnosticsCacheProofs

Targets == Files \cup {Outside}

\* A file was read: its version first, if it had one, its text after that.
Fresh(r) == (r.version # None => r.version <= r.text) /\ r.text <= disk[r.file]

\* What a call holds at each of its awaits.
Sound(c) ==
  /\ seen[c] \in Version \cup {None}
  /\ source[c] \in Read \cup {None}
  /\ targets[c] \in Seq(Targets)
  /\ plan[c] \in Seq(Read)
  /\ phase[c] = "reading" /\ seen[c] # None => seen[c] <= disk[FileOf[c]]
  /\ phase[c] = "asking" => source[c] \in Read /\ Fresh(source[c])
  /\ phase[c] \in {"preflight", "rereading"} => targets[c] # <<>>
  /\ phase[c] = "rereading" =>
       Head(targets[c]) \in Files /\ (seen[c] # None => seen[c] <= disk[Head(targets[c])])
  /\ \A i \in 1..Len(plan[c]) : Fresh(plan[c][i])
  /\ phase[c] \in {"intent", "writing", "wrote"} => plan[c] # <<>> /\ targets[c] = <<>>
  /\ phase[c] \notin {"intent", "writing", "wrote"} => written[c] = {}
  /\ phase[c] = "wrote" => seen[c] \in Version

Shaped ==
  /\ disk \in [Files -> Version]
  /\ DOMAIN phase = Calls /\ DOMAIN seen = Calls /\ DOMAIN source = Calls
  /\ DOMAIN targets = Calls /\ DOMAIN plan = Calls
  /\ written \in [Calls -> SUBSET Files]

IInv == Shaped /\ \A c \in Calls : Sound(c)

-----------------------------------------------------------------------------

\* A step of one call: files get newer only, and the other calls stay as they are.
LEMMA OneCall ==
  ASSUME IInv, NEW c \in Calls, Shaped',
         \A f \in Files : disk[f] <= disk'[f],
         \A d \in Calls \ {c} :
           /\ phase'[d] = phase[d] /\ seen'[d] = seen[d] /\ source'[d] = source[d]
           /\ targets'[d] = targets[d] /\ plan'[d] = plan[d] /\ written'[d] = written[d],
         Sound(c)'
  PROVE  IInv'
<1> SUFFICES ASSUME NEW d \in Calls \ {c} PROVE Sound(d)'
  BY DEF IInv
<1>1. Sound(d)
  BY DEF IInv
<1>2. \A f \in Files : disk[f] \in Nat /\ disk'[f] \in Nat /\ disk[f] <= disk'[f]
  BY DEF IInv, Shaped, Version
<1>3. \A r \in Read : r.file \in Files /\ r.text \in Nat
  BY DEF Read, Version
<1>4. \A r \in Read : Fresh(r) => Fresh(r)'
  BY <1>2, <1>3 DEF Fresh
<1>5. \A i \in 1..Len(plan[d]) : plan[d][i] \in Read
  BY <1>1, ElementOfSeq DEF Sound
<1>6. \A i \in 1..Len(plan[d]) : Fresh(plan[d][i])'
  BY <1>1, <1>4, <1>5 DEF Sound
<1>7. phase[d] = "reading" /\ seen[d] # None => seen[d] <= disk'[FileOf[d]]
  BY <1>1, <1>2, FilesAssumption DEF Sound, Version
<1>8. phase[d] = "rereading" =>
        Head(targets[d]) \in Files /\ (seen[d] # None => seen[d] <= disk'[Head(targets[d])])
  BY <1>1, <1>2 DEF Sound, Version
<1>9. phase[d] = "asking" => source[d] \in Read /\ Fresh(source[d])'
  BY <1>1, <1>4 DEF Sound
<1> QED
  BY <1>1, <1>6, <1>7, <1>8, <1>9 DEF Sound, Fresh

\* The empty sequence, and no promise to keep.
LEMMA Empty == <<>> \in Seq(Targets) /\ <<>> \in Seq(Read) /\ Len(<<>>) = 0
  BY EmptySeq

\* A call that ends holds nothing.
LEMMA LeaveInv ==
  ASSUME IInv, NEW c \in Calls, NEW how \in Ended, Leave(c, how), disk' = disk
  PROVE  IInv'
<1>1. Shaped'
  BY DEF IInv, Shaped, Leave
<1>2. Sound(c)'
  BY Empty, BoundsAssumption DEF IInv, Shaped, Sound, Leave, Ended, Version
<1>3. \A f \in Files : disk[f] <= disk'[f]
  BY DEF IInv, Shaped, Version
<1> QED
  BY <1>1, <1>2, <1>3, OneCall DEF Leave, IInv, Shaped

\* A call goes on with sound targets and a sound plan.
LEMMA OnwardInv ==
  ASSUME IInv, NEW c \in Calls, disk' = disk,
         NEW ts \in Seq(Targets), NEW p \in Seq(Read),
         \A i \in 1..Len(p) : Fresh(p[i]),
         NEW done \in SUBSET Files, Onward(c, ts, p, done),
         done = {} \/ ts = <<>>
  PROVE  IInv'
<1>0. \A f \in Files : disk[f] <= disk'[f]
  BY DEF IInv, Shaped, Version
<1>1. CASE onward(ts, p) = "done"
  BY <1>1, LeaveInv DEF Onward, Ended
<1>2. CASE onward(ts, p) # "done"
  <2>1. /\ phase' = [phase EXCEPT ![c] = onward(ts, p)]
        /\ targets' = [targets EXCEPT ![c] = ts]
        /\ plan' = [plan EXCEPT ![c] = p]
        /\ seen' = [seen EXCEPT ![c] = 0]
        /\ written' = [written EXCEPT ![c] = done]
        /\ source' = [source EXCEPT ![c] = IF c \in Traced THEN @ ELSE None]
        /\ aim' = [aim EXCEPT ![c] = None]
    BY <1>2 DEF Onward
  <2>2. \/ onward(ts, p) = "preflight" /\ ts # <<>>
        \/ onward(ts, p) = "intent" /\ ts = <<>> /\ p # <<>>
    BY <1>2 DEF onward
  <2>3. Shaped'
    BY <2>1 DEF IInv, Shaped
  <2>4. \A i \in 1..Len(p) : Fresh(p[i])'
    BY DEF Fresh
  <2>5. Sound(c)'
    BY <2>1, <2>2, <2>4, BoundsAssumption DEF IInv, Shaped, Sound, Version
  <2> QED
    BY <1>0, <2>1, <2>3, <2>5, OneCall DEF IInv, Shaped
<1> QED
  BY <1>1, <1>2

-----------------------------------------------------------------------------

LEMMA InitInv == Init => IInv
  BY Empty, BoundsAssumption DEF Init, IInv, Shaped, Sound, Version

\* Past the gate, or still at it: the file is looked for, or the user asked.
LEMMA StatInv ==
  ASSUME IInv, NEW c \in Calls, stat(c), phase[c] \in {"new", "approval"},
         UNCHANGED <<disk, source, targets, plan, written>>
  PROVE  IInv'
<1>1. Shaped' /\ \A f \in Files : disk[f] <= disk'[f]
  BY DEF stat, IInv, Shaped, Version
<1>2. seen'[c] \in {disk[FileOf[c]], None} /\ disk[FileOf[c]] \in Version /\ disk' = disk
  BY FilesAssumption DEF stat, StatOf, IInv, Shaped
<1>3. \A i \in 1..Len(plan[c]) : Fresh(plan[c][i])'
  BY <1>2 DEF stat, IInv, Sound, Fresh
<1>4. disk[FileOf[c]] <= disk'[FileOf[c]]
  BY <1>1, FilesAssumption
<1>5. Sound(c)'
  BY <1>2, <1>3, <1>4 DEF stat, IInv, Shaped, Sound
<1> QED
  BY <1>1, <1>5, OneCall DEF stat, IInv, Shaped

LEMMA BeginInv ==
  ASSUME IInv, NEW c \in Calls, begin(c)
  PROVE  IInv'
<1>1. phase[c] = "new" /\ UNCHANGED <<disk, source, targets, plan, written>>
  BY DEF begin, fsVars
<1>2. CASE stat(c)
  BY <1>1, <1>2, StatInv
<1>3. CASE phase' = [phase EXCEPT ![c] = "approval"] /\ UNCHANGED seen
  <2>1. Shaped' /\ \A f \in Files : disk[f] <= disk'[f]
    BY <1>1, <1>3 DEF IInv, Shaped, Version
  <2>2. Sound(c)'
    BY <1>1, <1>3 DEF IInv, Shaped, Sound, Fresh
  <2> QED
    BY <1>1, <1>3, <2>1, <2>2, OneCall DEF IInv, Shaped
<1> QED
  BY <1>2, <1>3 DEF begin

\* A text that is read now is as new as the file, and no older than its stat.
LEMMA ReadIsFresh ==
  ASSUME Shaped, NEW f \in Files, NEW v \in Version \cup {None}, v # None => v <= disk[f]
  PROVE  readHostSource(f, v, disk[f]) \in Read /\ Fresh(readHostSource(f, v, disk[f]))
  BY DEF Shaped, readHostSource, Read, Fresh, Version

LEMMA SourceReadInv ==
  ASSUME IInv, NEW c \in Calls, sourceRead(c)
  PROVE  IInv'
<1>1. PICK r \in Read : Fresh(r) /\ r = readHostSource(FileOf[c], seen[c], disk[FileOf[c]])
  BY ReadIsFresh, FilesAssumption DEF sourceRead, IInv, Sound
<1>2. /\ phase[c] = "reading"
      /\ phase' = [phase EXCEPT ![c] = "asking"]
      /\ source' = [source EXCEPT ![c] = r]
      /\ seen' = [seen EXCEPT ![c] = 0]
      /\ UNCHANGED <<disk, targets, plan, written>>
  BY <1>1 DEF sourceRead
<1>3. Shaped' /\ \A f \in Files : disk[f] <= disk'[f]
  BY <1>2 DEF IInv, Shaped, Version
<1>4. Fresh(r)'
  BY <1>1, <1>2 DEF Fresh
<1>5. \A i \in 1..Len(plan[c]) : Fresh(plan[c][i])'
  BY <1>2 DEF IInv, Sound, Fresh
<1>6. Sound(c)'
  <2>1. 0 \in Version
    BY BoundsAssumption DEF Version
  <2>2. /\ phase'[c] = "asking" /\ source'[c] = r /\ seen'[c] = 0 /\ targets' = targets
        /\ plan' = plan /\ written' = written /\ written[c] = {}
    BY <1>2 DEF IInv, Shaped, Sound
  <2>3. Fresh(source[c])'
    BY <1>4, <2>2 DEF Fresh
  <2> QED
    BY <1>1, <1>5, <2>1, <2>2, <2>3 DEF IInv, Sound
<1> QED
  BY <1>2, <1>3, <1>6, OneCall DEF IInv, Shaped

LEMMA FormattedInv ==
  ASSUME IInv, NEW c \in Calls, formatted(c)
  PROVE  IInv'
<1>1. phase[c] = "asking" /\ disk' = disk /\ source[c] \in Read /\ Fresh(source[c])
  BY DEF formatted, fsVars, IInv, Sound
<1>2. CASE Leave(c, "done") \/ Leave(c, "refused")
  BY <1>1, <1>2, LeaveInv DEF Ended
<1>3. CASE Onward(c, <<>>, <<source[c]>>, {})
  <2>1. <<source[c]>> \in Seq(Read) /\ Len(<<source[c]>>) = 1 /\ <<source[c]>>[1] = source[c]
    BY <1>1
  <2>2. \A i \in 1..Len(<<source[c]>>) : Fresh(<<source[c]>>[i])
    BY <1>1, <2>1
  <2>3. ASSUME NEW done \in SUBSET Files, done = {}, Onward(c, <<>>, <<source[c]>>, done)
        PROVE  IInv'
    BY <1>1, <2>1, <2>2, <2>3, Empty, OnwardInv
  <2> QED
    BY <1>3, <2>3
<1> QED
  BY <1>2, <1>3 DEF formatted

\* The targets an answer names are a sequence of them.
LEMMA AnswersAreTargets == Answers \subseteq Seq(Targets)
  BY BoundsAssumption, SeqDef DEF Answers, BoundedSeq, SeqOf, Targets

LEMMA EditedInv ==
  ASSUME IInv, NEW c \in Calls, edited(c)
  PROVE  IInv'
<1>1. phase[c] = "asking" /\ disk' = disk
  BY DEF edited, fsVars, IInv, Sound
<1>2. CASE Leave(c, "failed")
  BY <1>1, <1>2, LeaveInv DEF Ended
<1>3. ASSUME NEW ts \in Answers, Onward(c, ts, <<>>, {}) PROVE IInv'
  <2>1. ts \in Seq(Targets)
    BY AnswersAreTargets
  <2>2. \A i \in 1..Len(<<>>) : Fresh(<<>>[i])
    BY Empty
  <2>3. ASSUME NEW done \in SUBSET Files, done = {}, Onward(c, ts, <<>>, done)
        PROVE  IInv'
    BY <1>1, <2>1, <2>2, <2>3, Empty, OnwardInv
  <2> QED
    BY <1>3, <2>3
<1> QED
  BY <1>2, <1>3 DEF edited

LEMMA CheckTargetInv ==
  ASSUME IInv, NEW c \in Calls, checkTarget(c)
  PROVE  IInv'
<1>1. /\ phase[c] = "preflight" /\ disk' = disk
      /\ written[c] = {} /\ targets[c] \in Seq(Targets) /\ targets[c] # <<>>
  BY DEF checkTarget, fsVars, IInv, Sound
<1>2. CASE Leave(c, "refused")
  BY <1>1, <1>2, LeaveInv DEF Ended
<1>3. CASE ~Leave(c, "refused")
  <2>1. /\ Head(targets[c]) # Outside
        /\ phase' = [phase EXCEPT ![c] = "rereading"]
        /\ \E v \in {disk[Head(targets[c])], None} : seen' = [seen EXCEPT ![c] = v]
        /\ UNCHANGED <<source, targets, plan, written>>
    BY <1>3 DEF checkTarget, StatOf
  <2>2. Head(targets[c]) \in Files
    BY <1>1, <2>1, HeadTailProperties DEF Targets
  <2>3. disk[Head(targets[c])] \in Version
    BY <2>2 DEF IInv, Shaped
  <2>4. Shaped' /\ \A f \in Files : disk[f] <= disk'[f]
    BY <1>1, <2>1 DEF IInv, Shaped, Version
  <2>5. \A i \in 1..Len(plan[c]) : Fresh(plan[c][i])'
    BY <1>1, <2>1 DEF IInv, Sound, Fresh
  <2>6. seen'[c] # None => seen'[c] <= disk'[Head(targets'[c])]
    BY <1>1, <2>1, <2>2, <2>4 DEF IInv, Shaped
  <2>7. Sound(c)'
    BY <1>1, <2>1, <2>2, <2>3, <2>5, <2>6 DEF IInv, Shaped, Sound
  <2> QED
    BY <1>1, <2>1, <2>4, <2>7, OneCall DEF IInv, Shaped
<1> QED
  BY <1>2, <1>3

LEMMA TargetReadInv ==
  ASSUME IInv, NEW c \in Calls, targetRead(c)
  PROVE  IInv'
<1>1. /\ phase[c] = "rereading" /\ disk' = disk
      /\ written[c] = {} /\ targets[c] \in Seq(Targets) /\ targets[c] # <<>>
      /\ Head(targets[c]) \in Files /\ plan[c] \in Seq(Read)
      /\ \A i \in 1..Len(plan[c]) : Fresh(plan[c][i])
  BY DEF targetRead, IInv, Sound
<1>2. PICK r \in Read :
        Fresh(r) /\ r = readHostSource(Head(targets[c]), seen[c], disk[Head(targets[c])])
  BY <1>1, ReadIsFresh DEF IInv, Sound
<1>4. Tail(targets[c]) \in Seq(Targets)
  BY <1>1, HeadTailProperties
<1>5. CASE Leave(c, "refused")
  BY <1>1, <1>5, LeaveInv DEF Ended
<1>6. CASE Onward(c, Tail(targets[c]), Append(plan[c], r), {})
  <2>1. /\ Append(plan[c], r) \in Seq(Read)
        /\ \A i \in 1..Len(Append(plan[c], r)) : Fresh(Append(plan[c], r)[i])
    BY <1>1, <1>2, AppendProperties
  <2> QED
    BY <1>1, <1>4, <1>6, <2>1, OnwardInv
<1>7. CASE Onward(c, Tail(targets[c]), plan[c], {})
  BY <1>1, <1>4, <1>7, OnwardInv
<1> QED
  BY <1>1, <1>2, <1>5, <1>6, <1>7 DEF targetRead

LEMMA WriteIntentInv ==
  ASSUME IInv, NEW c \in Calls, writeIntent(c)
  PROVE  IInv'
<1>1. /\ phase[c] = "intent" /\ phase' = [phase EXCEPT ![c] = "writing"]
      /\ UNCHANGED <<disk, seen, source, targets, plan, written>>
  BY DEF writeIntent, fsVars
<1>2. Shaped' /\ \A f \in Files : disk[f] <= disk'[f]
  BY <1>1 DEF IInv, Shaped, Version
<1>3. Sound(c)'
  BY <1>1 DEF IInv, Shaped, Sound, Fresh
<1> QED
  BY <1>1, <1>2, <1>3, OneCall DEF IInv, Shaped

\* The file a pending write is for, and what it was planned with.
LEMMA Planned ==
  ASSUME IInv, NEW c \in Calls, phase[c] \in {"intent", "writing", "wrote"}
  PROVE  /\ targets[c] = <<>>
         /\ plan[c] \in Seq(Read) /\ plan[c] # <<>>
         /\ Head(plan[c]) \in Read /\ Fresh(Head(plan[c]))
         /\ Tail(plan[c]) \in Seq(Read)
         /\ \A i \in 1..Len(Tail(plan[c])) : Fresh(Tail(plan[c])[i])
<1>1. /\ targets[c] = <<>> /\ plan[c] \in Seq(Read) /\ plan[c] # <<>>
      /\ \A i \in 1..Len(plan[c]) : Fresh(plan[c][i])
  BY DEF IInv, Sound
<1>2. /\ Len(plan[c]) \in Nat /\ Len(plan[c]) # 0
      /\ Head(plan[c]) = plan[c][1] /\ Head(plan[c]) \in Read
      /\ Tail(plan[c]) \in Seq(Read) /\ Len(Tail(plan[c])) = Len(plan[c]) - 1
      /\ \A i \in 1..Len(Tail(plan[c])) : Tail(plan[c])[i] = plan[c][i + 1]
  BY <1>1, HeadTailProperties, LenProperties, EmptySeq
<1>3. 1 \in 1..Len(plan[c]) /\ \A i \in 1..Len(Tail(plan[c])) : i + 1 \in 1..Len(plan[c])
  BY <1>2
<1> QED
  BY <1>1, <1>2, <1>3

LEMMA WriteTextInv ==
  ASSUME IInv, NEW c \in Calls, writeText(c)
  PROVE  IInv'
<1> DEFINE f == Head(plan[c]).file
<1>1. f \in Files
  BY Planned DEF writeText, Read
<1>2. /\ phase[c] = "writing" /\ disk[f] < MaxVersion
      /\ disk' = [disk EXCEPT ![f] = disk[f] + 1]
      /\ phase' = [phase EXCEPT ![c] = "wrote"]
      /\ seen' = [seen EXCEPT ![c] = disk[f] + 1]
      /\ UNCHANGED <<source, targets, plan, written>>
  BY DEF writeText
<1>3. disk[f] \in Nat /\ disk[f] + 1 \in Version
  BY <1>1, <1>2, BoundsAssumption DEF IInv, Shaped, Version
<1> HIDE DEF f
<1>4. Shaped' /\ \A g \in Files : disk[g] <= disk'[g]
  BY <1>1, <1>2, <1>3 DEF IInv, Shaped, Version
<1>5. \A r \in Read : Fresh(r) => Fresh(r)'
  BY <1>4 DEF IInv, Shaped, Fresh, Read, Version
<1>6. \A i \in 1..Len(plan[c]) : Fresh(plan[c][i])'
  BY <1>2, <1>5, ElementOfSeq DEF IInv, Sound, Fresh
<1>7. /\ phase'[c] = "wrote" /\ seen'[c] \in Version
  BY <1>2, <1>3 DEF IInv, Shaped
<1>8. Sound(c)'
  BY <1>2, <1>6, <1>7 DEF IInv, Sound, Fresh
<1> QED
  BY <1>2, <1>4, <1>8, OneCall DEF IInv, Shaped

LEMMA RecordWriteInv ==
  ASSUME IInv, NEW c \in Calls, recordWrite(c)
  PROVE  IInv'
<1>1. phase[c] = "wrote" /\ disk' = disk
  BY DEF recordWrite
<1>2. PICK done \in SUBSET Files :
        Onward(c, <<>>, Tail(plan[c]), done)
  <2>1. Head(plan[c]).file \in Files /\ targets[c] = <<>>
    BY <1>1, Planned DEF Read
  <2> QED
    BY <2>1 DEF recordWrite, IInv, Shaped
<1> QED
  BY <1>1, <1>2, Planned, Empty, OnwardInv

LEMMA NextInv ==
  ASSUME IInv, [Next]_vars
  PROVE  IInv'
<1>1. ASSUME NEW c \in Calls, Step(c) PROVE IInv'
  <2>1. CASE invalid(c) \/ refuse(c) \/ denied(c) \/ diagnosed(c) \/ conflict(c) \/ fails(c)
    BY <2>1, LeaveInv DEF invalid, refuse, denied, diagnosed, conflict, fails, fsVars, Ended
  <2>2. CASE approved(c)
    BY <2>2, StatInv DEF approved, fsVars
  <2> QED
    BY <1>1, <2>1, <2>2, BeginInv, SourceReadInv, FormattedInv, EditedInv, CheckTargetInv,
       TargetReadInv, WriteIntentInv, WriteTextInv, RecordWriteInv DEF Step
<1>2. ASSUME NEW f \in Files, Edit(f) PROVE IInv'
  <2>1. /\ disk[f] < MaxVersion /\ disk' = [disk EXCEPT ![f] = disk[f] + 1]
        /\ UNCHANGED <<phase, seen, source, targets, plan, written>>
    BY <1>2 DEF Edit, callVars
  <2>2. Shaped' /\ \A g \in Files : disk[g] <= disk'[g]
    BY <2>1, BoundsAssumption DEF IInv, Shaped, Version
  <2>3. \A c \in Calls : Sound(c)'
    <3> SUFFICES ASSUME NEW c \in Calls PROVE Sound(c)'
      OBVIOUS
    <3>1. \A r \in Read : Fresh(r) => Fresh(r)'
      BY <2>2 DEF IInv, Shaped, Fresh, Read, Version
    <3>2. \A i \in 1..Len(plan[c]) : Fresh(plan[c][i])'
      BY <2>1, <3>1, ElementOfSeq DEF IInv, Sound, Fresh
    <3>3. phase[c] = "reading" /\ seen[c] # None => seen[c] <= disk'[FileOf[c]]
      BY <2>2, FilesAssumption DEF IInv, Shaped, Sound, Version
    <3>4. phase[c] = "rereading" =>
            Head(targets[c]) \in Files /\ (seen[c] # None => seen[c] <= disk'[Head(targets[c])])
      BY <2>2 DEF IInv, Shaped, Sound, Version
    <3>5. phase[c] = "asking" => source[c] \in Read /\ Fresh(source[c])'
      BY <2>1, <3>1 DEF IInv, Sound, Fresh
    <3> QED
      BY <2>1, <3>2, <3>3, <3>4, <3>5 DEF IInv, Sound, Fresh
  <2> QED
    BY <2>2, <2>3 DEF IInv
<1>3. CASE UNCHANGED <<disk, phase, seen, source, targets, plan, written>>
  BY <1>3 DEF IInv, Shaped, Sound, Fresh
<1>4. ASSUME NEW s \in Sessions, NEW f \in Shared, OtherRead(s, f) PROVE IInv'
  BY <1>3, <1>4 DEF OtherRead, callVars
<1>5. ASSUME NEW s \in Sessions, NEW mode \in Standing, SetMode(s, mode) PROVE IInv'
  BY <1>3, <1>5 DEF SetMode, callVars, fsVars
<1>6. CASE UNCHANGED vars
  BY <1>3, <1>6 DEF vars, fsVars, callVars
<1> QED
  BY <1>1, <1>2, <1>4, <1>5, <1>6, BoundsAssumption DEF Next

-----------------------------------------------------------------------------

\* Only a call's own step moves it to another phase.
LEMMA OwnStep ==
  ASSUME Next, NEW c \in Calls, phase'[c] # phase[c]
  PROVE  Step(c)
<1>1. PICK d \in Calls : Step(d)
  BY DEF Next, Edit, OtherRead, SetMode, callVars
<1>2. \E p : phase' = [phase EXCEPT ![d] = p]
  BY <1>1 DEF Step, invalid, refuse, begin, approved, denied, stat, sourceRead, diagnosed,
     formatted, edited, checkTarget, targetRead, writeIntent, writeText, conflict, recordWrite,
     fails, Leave, Onward
<1>3. c = d
  BY <1>2
<1> QED
  BY <1>1, <1>3

\* A call that refuses its answer wrote nothing, however many files it edits.
THEOREM RefusalIsClean == Spec => RefusalWritesNothing
<1>1. ASSUME IInv, Next, NEW c \in Calls, phase[c] # "refused", phase'[c] = "refused"
      PROVE  written[c] = {}
  <2>1. Step(c)
    BY <1>1, OwnStep
  <2>2. phase[c] \notin {"intent", "writing", "wrote"}
    <3>1. ASSUME NEW how, Leave(c, how) PROVE how = "refused"
      BY <1>1, <3>1 DEF Leave, IInv, Shaped
    <3>2. CASE recordWrite(c)
      BY <1>1, <3>1, <3>2 DEF recordWrite, Onward, IInv, Shaped, onward
    <3> QED
      BY <1>1, <2>1, <3>1, <3>2 DEF Step, invalid, refuse, begin, approved, denied, stat,
         sourceRead, diagnosed, formatted, edited, checkTarget, targetRead, writeIntent,
         writeText, conflict, fails, IInv, Shaped
  <2> QED
    BY <1>1, <2>2 DEF IInv, Sound
<1>2. IInv /\ [Next]_vars =>
        [\A c \in Calls : phase[c] # "refused" /\ phase'[c] = "refused" => written[c] = {}]_vars
  BY <1>1
<1> QED
  BY <1>2, InitInv, NextInv, PTL DEF Spec, RefusalWritesNothing

\* A write guarded by what its own call observed replaces the text that was
\* edited: version and text were read in that order, and files only get newer.
THEOREM OwnObservationProtects == Spec => OwnGuardProtects
<1>1. ASSUME IInv, Next, NEW c \in Calls, phase[c] = "writing", phase'[c] = "wrote",
             intent[c] = Head(plan[c]).version
      PROVE  disk[Head(plan[c]).file] = Head(plan[c]).text
  <2>1. writeText(c)
    <3>1. Step(c)
      BY <1>1, OwnStep
    <3>4. ASSUME NEW how, Leave(c, how) PROVE how = "wrote"
      BY <1>1, <3>4 DEF Leave, IInv, Shaped
    <3> QED
      BY <1>1, <3>1, <3>4 DEF Step, invalid, refuse, begin, approved, denied, stat, sourceRead,
         diagnosed, formatted, edited, checkTarget, targetRead, writeIntent, conflict,
         recordWrite, fails
  <2>2. intent[c] = disk[Head(plan[c]).file]
    BY <2>1 DEF writeText
  <2>3. Head(plan[c]) \in Read /\ Fresh(Head(plan[c]))
    BY <1>1, Planned
  <2> QED
    <3>1. disk[Head(plan[c]).file] \in Nat /\ Head(plan[c]).text \in Nat
      BY <1>1, <2>3 DEF IInv, Shaped, Read, Version
    <3>2. Head(plan[c]).version = disk[Head(plan[c]).file]
      BY <1>1, <2>2
    <3>3. Head(plan[c]).version # None
      BY <3>1, <3>2, NoneAssumption
    <3> QED
      BY <2>3, <3>1, <3>2, <3>3 DEF Fresh
<1>2. IInv /\ [Next]_vars => [\A c \in Calls :
        phase[c] = "writing" /\ phase'[c] = "wrote" /\ intent[c] = Head(plan[c]).version
          => disk[Head(plan[c]).file] = Head(plan[c]).text]_vars
  BY <1>1
<1> QED
  BY <1>2, InitInv, NextInv, PTL DEF Spec, OwnGuardProtects

-----------------------------------------------------------------------------

\* What the gate knows of a call: while it waits for the user it holds a mode its
\* session stood in, and after the gate the mode is warranted.
Gated(c) ==
  /\ phase[c] = "approval" => policy[c] \in stood[c] /\ c \notin granted
  /\ phase[c] = "approval" /\ c \in OfEditor => policy[c] # "read-only"
  /\ phase[c] = "new" => c \notin granted
  /\ Writes(c) /\ phase[c] \notin Ended \cup {"new", "approval"} =>
       IF c \in granted THEN policy[c] = Asks[c] ELSE policy[c] \in stood[c] \ {"read-only"}

MInv ==
  /\ DOMAIN phase = Calls /\ DOMAIN policy = Calls /\ DOMAIN stood = Calls
  /\ \A c \in Calls : Gated(c)

\* A step after the gate takes no call back before it.
LEMMA PastTheGate ==
  ASSUME MInv, NEW c \in Calls, UNCHANGED passVars,
         NEW p, p \notin {"new", "approval"}, phase' = [phase EXCEPT ![c] = p],
         phase[c] \notin Ended \cup {"new", "approval"}
  PROVE  MInv'
  BY DEF MInv, Gated, passVars

LEMMA LeaveGate ==
  ASSUME MInv, NEW c \in Calls, NEW how \in Ended, Leave(c, how)
  PROVE  MInv'
  BY DEF MInv, Gated, Leave, Ended

LEMMA StepGate ==
  ASSUME MInv, NEW c \in Calls, Step(c)
  PROVE  MInv'
<1>1. CASE \E how \in Ended : Leave(c, how)
  BY <1>1, LeaveGate
<1>2. CASE begin(c)
  <2>1. \A d \in Calls \ {c} : Gated(d)'
    BY <1>2 DEF begin, stat, MInv, Gated
  <2>2. CASE Writes(c)
    <3>1. resolve(SessionOf[c]) = standing[SessionOf[c]]
      BY DEF resolve
    <3>2. policy'[c] = standing[SessionOf[c]] /\ stood'[c] = {standing[SessionOf[c]]}
      BY <1>2, <2>2, <3>1 DEF begin, MInv
    <3>3. CASE Asks[c] # None
      BY <1>2, <2>2, <3>1, <3>2, <3>3 DEF begin, ReadOnly, MInv, Gated
    <3>4. CASE Asks[c] = None
      BY <1>2, <2>2, <3>1, <3>2, <3>4 DEF begin, stat, ReadOnly, MInv, Gated
    <3> QED
      BY <2>1, <3>3, <3>4 DEF MInv
  <2>3. CASE ~Writes(c)
    BY <1>2, <2>1, <2>3 DEF begin, stat, MInv, Gated, Writes
  <2> QED
    BY <2>2, <2>3
<1>3. CASE approved(c)
  BY <1>3 DEF approved, stat, MInv, Gated, Ended
<1>4. CASE sourceRead(c)
  BY <1>4, PastTheGate DEF sourceRead, Ended
<1>5. ASSUME NEW ts, NEW p, NEW done, Onward(c, ts, p, done), ~Leave(c, "done"),
             phase[c] \notin Ended \cup {"new", "approval"}
      PROVE  MInv'
  BY <1>5, PastTheGate DEF Onward, onward
<1>6. CASE checkTarget(c) \/ writeIntent(c) \/ writeText(c)
  BY <1>1, <1>6, PastTheGate DEF checkTarget, writeIntent, writeText, Ended
<1>7. CASE formatted(c) \/ edited(c) \/ targetRead(c) \/ recordWrite(c)
  BY <1>1, <1>5, <1>7 DEF formatted, edited, targetRead, recordWrite, Ended
<1> QED
  BY <1>1, <1>2, <1>3, <1>4, <1>6, <1>7 DEF Step, invalid, refuse, denied, diagnosed,
     conflict, fails, Ended

\* A write is stamped with a mode the session stood in during the call, or with
\* the one the user granted that call.
THEOREM WarrantedModes == Spec => []ModeIsWarranted
<1>1. Init => MInv
  BY DEF Init, MInv, Gated
<1>2. MInv /\ [Next]_vars => MInv'
  <2> SUFFICES ASSUME MInv, [Next]_vars PROVE MInv'
    OBVIOUS
  <2>1. ASSUME NEW s \in Sessions, NEW mode \in Standing, SetMode(s, mode) PROVE MInv'
    <3>1. /\ UNCHANGED <<phase, policy, granted>>
          /\ \A c \in Calls : stood[c] \subseteq stood'[c]
          /\ DOMAIN stood' = Calls
      BY <2>1 DEF SetMode, callVars, MInv
    <3> QED
      BY <3>1 DEF MInv, Gated
  <2>2. CASE UNCHANGED <<passVars, phase>>
    BY <2>2 DEF MInv, Gated, passVars
  <2> QED
    BY <2>1, <2>2, StepGate DEF Next, Edit, OtherRead, callVars, vars
<1>3. MInv => ModeIsWarranted
  BY DEF MInv, Gated, ModeIsWarranted
<1> QED
  BY <1>1, <1>2, <1>3, PTL DEF Spec

-----------------------------------------------------------------------------
(* Types *)

LEMMA ModeTypeStep == ModeTypeOK /\ [Next]_vars => ModeTypeOK'
<1> SUFFICES ASSUME ModeTypeOK, [Next]_vars PROVE ModeTypeOK'
  OBVIOUS
<1> USE DEF ModeTypeOK
<1>1. ASSUME NEW c \in Calls, NEW how, Leave(c, how), UNCHANGED modeVars PROVE ModeTypeOK'
  BY <1>1 DEF Leave, modeVars, Modes
<1>2. ASSUME UNCHANGED <<modeVars, passVars>> PROVE ModeTypeOK'
  BY <1>2 DEF modeVars, passVars
<1>3. ASSUME NEW c \in Calls, begin(c) PROVE ModeTypeOK'
  <2>1. standing[SessionOf[c]] \in Modes
    BY SessionsAssumption
  <2>2. (IF Writes(c) THEN resolve(SessionOf[c]) ELSE None) \in Modes
    BY <2>1 DEF resolve, Modes
  <2>3. (IF Writes(c) THEN {standing[SessionOf[c]]} ELSE {}) \in SUBSET Modes
    BY <2>1
  <2> QED
    BY <1>3, <2>2, <2>3 DEF begin, modeVars
<1>4. ASSUME NEW c \in Calls, approved(c) PROVE ModeTypeOK'
  BY <1>4, ModesAssumption DEF approved, modeVars, Modes
<1>5. ASSUME NEW s \in Sessions, NEW mode \in Standing, SetMode(s, mode) PROVE ModeTypeOK'
  <2>1. mode \in Modes /\ MaxSwitches \in Nat
    BY ModesAssumption DEF Modes
  <2>2. stood' \in [Calls -> SUBSET Modes]
    BY <1>5, <2>1 DEF SetMode
  <2> QED
    BY <1>5, <2>1, <2>2 DEF SetMode, callVars
<1>6. ASSUME NEW c \in Calls, NEW ts, NEW p, NEW done, Onward(c, ts, p, done), UNCHANGED modeVars
      PROVE  ModeTypeOK'
  BY <1>1, <1>2, <1>6 DEF Onward
<1>7. ASSUME NEW c \in Calls, Step(c) PROVE ModeTypeOK'
  <2>1. CASE invalid(c) \/ refuse(c) \/ denied(c) \/ diagnosed(c) \/ conflict(c) \/ fails(c)
    BY <1>1, <2>1 DEF invalid, refuse, denied, diagnosed, conflict, fails
  <2>2. CASE sourceRead(c) \/ writeIntent(c) \/ writeText(c)
    BY <1>2, <2>2 DEF sourceRead, writeIntent, writeText
  <2>3. CASE formatted(c) \/ edited(c) \/ targetRead(c) \/ recordWrite(c)
    BY <1>1, <1>6, <2>3 DEF formatted, edited, targetRead, recordWrite
  <2>4. CASE checkTarget(c)
    BY <1>1, <1>2, <2>4 DEF checkTarget
  <2> QED
    BY <1>3, <1>4, <1>7, <2>1, <2>2, <2>3, <2>4 DEF Step
<1>8. ASSUME NEW f \in Files, Edit(f) PROVE ModeTypeOK'
  BY <1>2, <1>8 DEF Edit
<1>9. ASSUME NEW s \in Sessions, NEW f \in Shared, OtherRead(s, f) PROVE ModeTypeOK'
  BY <1>2, <1>9 DEF OtherRead
<1> QED
  BY <1>2, <1>5, <1>7, <1>8, <1>9, BoundsAssumption DEF Next, vars

LEMMA LeaveType ==
  ASSUME CallTypeOK, NEW c \in Calls, NEW how \in Ended, Leave(c, how)
  PROVE  CallTypeOK'
<1>1. 0 \in Version /\ <<>> \in Seq(Targets) /\ <<>> \in Seq(Read)
  BY Empty, BoundsAssumption DEF Version
<1> QED
  BY <1>1 DEF CallTypeOK, Leave, Ended, Targets

LEMMA OnwardType ==
  ASSUME CallTypeOK, NEW c \in Calls, NEW ts \in Seq(Targets), NEW p \in Seq(Read),
         NEW done \in SUBSET Files, Onward(c, ts, p, done)
  PROVE  CallTypeOK'
<1>1. CASE onward(ts, p) = "done"
  BY <1>1, LeaveType DEF Onward, Ended
<1>2. CASE onward(ts, p) # "done"
  <2>1. onward(ts, p) \in {"preflight", "intent"} /\ 0 \in Version
    BY <1>2, BoundsAssumption DEF onward, Version
  <2>2. /\ phase' = [phase EXCEPT ![c] = onward(ts, p)]
        /\ targets' = [targets EXCEPT ![c] = ts]
        /\ plan' = [plan EXCEPT ![c] = p]
        /\ seen' = [seen EXCEPT ![c] = 0]
        /\ intent' = [intent EXCEPT ![c] = None]
        /\ written' = [written EXCEPT ![c] = done]
        /\ source' = [source EXCEPT ![c] = IF c \in Traced THEN @ ELSE None]
        /\ aim' = [aim EXCEPT ![c] = None]
    BY <1>2 DEF Onward
  <2> QED
    BY <2>1, <2>2 DEF CallTypeOK, Targets
<1> QED
  BY <1>1, <1>2

LEMMA CallTypeStep ==
  ASSUME IInv, TypeOK, NEW c \in Calls, Step(c)
  PROVE  CallTypeOK'
<1>1. CallTypeOK /\ disk \in [Files -> Version] /\ FileOf[c] \in Files
  BY FilesAssumption DEF TypeOK, FsTypeOK
<1>2. CASE invalid(c) \/ refuse(c) \/ denied(c) \/ diagnosed(c) \/ conflict(c) \/ fails(c)
  BY <1>1, <1>2, LeaveType DEF invalid, refuse, denied, diagnosed, conflict, fails, Ended
<1>3. CASE begin(c) \/ approved(c)
  <2>1. \A v \in StatOf(FileOf[c]) : v \in Version \cup {None}
    BY <1>1 DEF StatOf
  <2>2. CASE stat(c)
    BY <1>1, <1>3, <2>1, <2>2 DEF begin, approved, stat, CallTypeOK
  <2>3. CASE phase' = [phase EXCEPT ![c] = "approval"] /\ UNCHANGED seen
    BY <1>1, <1>3, <2>3 DEF begin, approved, stat, CallTypeOK
  <2> QED
    BY <1>3, <2>2, <2>3 DEF begin, approved
<1>4. CASE sourceRead(c)
  <2> DEFINE r == readHostSource(FileOf[c], seen[c], disk[FileOf[c]])
             a == IF Holds(cache, FileOf[c]) /\ sameVersion(Snapshot(cache, FileOf[c]), r)
                    THEN Snapshot(cache, FileOf[c]) ELSE None
  <2>1. r \in Read /\ 0 \in Version
    BY <1>1, BoundsAssumption DEF readHostSource, Read, CallTypeOK, Version
  <2>2. a \in Read \cup {None}
    BY HeldEntry DEF TypeOK, FsTypeOK
  <2>3. /\ phase' = [phase EXCEPT ![c] = "asking"]
        /\ source' = [source EXCEPT ![c] = r]
        /\ seen' = [seen EXCEPT ![c] = 0]
        /\ aim' \in {[aim EXCEPT ![c] = a], [aim EXCEPT ![c] = None]}
        /\ UNCHANGED <<targets, plan, intent, written>>
    BY <1>4 DEF sourceRead, aimAtCached, aimFreely, readHostSource
  <2> HIDE DEF r, a
  <2> QED
    BY <1>1, <2>1, <2>2, <2>3 DEF CallTypeOK
<1>5. CASE formatted(c)
  <2>1. <<source[c]>> \in Seq(Read) /\ <<>> \in Seq(Targets)
    BY <1>5, Empty DEF formatted, IInv, Sound
  <2>2. ASSUME NEW done \in SUBSET Files, done = {}, Onward(c, <<>>, <<source[c]>>, done)
        PROVE  CallTypeOK'
    BY <1>1, <2>1, <2>2, OnwardType
  <2> QED
    BY <1>1, <1>5, <2>2, LeaveType DEF formatted, Ended
<1>6. CASE edited(c)
  <2>1. ASSUME NEW ts \in Answers, NEW done \in SUBSET Files, done = {}, Onward(c, ts, <<>>, done)
        PROVE  CallTypeOK'
    BY <1>1, <2>1, AnswersAreTargets, Empty, OnwardType
  <2> QED
    BY <1>1, <1>6, <2>1, LeaveType DEF edited, Ended
<1>7. CASE checkTarget(c)
  <2>1. targets[c] \in Seq(Targets) /\ targets[c] # <<>>
    BY <1>7 DEF checkTarget, IInv, Sound
  <2>2. Head(targets[c]) # Outside => disk[Head(targets[c])] \in Version
    BY <1>1, <2>1, HeadTailProperties DEF Targets
  <2>3. CASE Leave(c, "refused")
    BY <1>1, <2>3, LeaveType DEF Ended
  <2>4. CASE ~Leave(c, "refused")
    BY <1>1, <1>7, <2>2, <2>4 DEF checkTarget, StatOf, CallTypeOK
  <2> QED
    BY <2>3, <2>4
<1>8. CASE targetRead(c)
  <2> DEFINE r == readHostSource(Head(targets[c]), seen[c], disk[Head(targets[c])])
  <2>1. /\ Tail(targets[c]) \in Seq(Targets) /\ Head(targets[c]) \in Files
        /\ plan[c] \in Seq(Read) /\ written[c] \in SUBSET Files
    BY <1>1, <1>8, HeadTailProperties DEF targetRead, IInv, Sound, CallTypeOK
  <2>2. r \in Read
    BY <1>1, <2>1 DEF readHostSource, Read, CallTypeOK
  <2>3. Append(plan[c], r) \in Seq(Read)
    BY <2>1, <2>2, AppendProperties
  <2> HIDE DEF r
  <2>4. \/ Onward(c, Tail(targets[c]), Append(plan[c], r), written[c])
        \/ Onward(c, Tail(targets[c]), plan[c], written[c])
        \/ Leave(c, "refused")
    BY <1>8 DEF targetRead, r
  <2> QED
    BY <1>1, <2>1, <2>3, <2>4, OnwardType, LeaveType DEF Ended
<1>9. CASE writeIntent(c)
  <2>1. Head(plan[c]).file \in Files
    BY <1>9, Planned DEF writeIntent, Read
  <2>2. (IF SessionOf[c] = None THEN None ELSE observed[SessionOf[c]][Head(plan[c]).file])
          \in Version \cup {None}
    BY <2>1, SessionsAssumption DEF TypeOK, FsTypeOK
  <2> QED
    BY <1>1, <1>9, <2>2 DEF writeIntent, CallTypeOK
<1>10. CASE writeText(c)
  <2>1. Head(plan[c]).file \in Files
    BY <1>10, Planned DEF writeText, Read
  <2>2. disk[Head(plan[c]).file] + 1 \in Version
    BY <1>1, <1>10, <2>1, BoundsAssumption DEF writeText, Version
  <2> QED
    BY <1>1, <1>10, <2>2 DEF writeText, CallTypeOK
<1>11. CASE recordWrite(c)
  <2>1. PICK done \in SUBSET Files : Onward(c, targets[c], Tail(plan[c]), done)
    BY <1>1, <1>11, Planned DEF recordWrite, Read, CallTypeOK
  <2>2. Tail(plan[c]) \in Seq(Read) /\ targets[c] \in Seq(Targets)
    BY <1>11, Planned, Empty DEF recordWrite
  <2> QED
    BY <1>1, <2>1, <2>2, OnwardType
<1> QED
  BY <1>2, <1>3, <1>4, <1>5, <1>6, <1>7, <1>8, <1>9, <1>10, <1>11 DEF Step

\* What a step does to the cache: it drops a file, looks one up, or keeps what
\* the server said of the text a call had read.
CacheStep ==
  \/ UNCHANGED cache
  \/ \E f \in Files : cache' \in {delete(cache, f), get(cache, f)}
  \/ \E c \in Calls : phase[c] = "asking" /\ cache' = set(cache, source[c])

LEMMA CacheSteps == IInv /\ [Next]_vars => CacheStep
<1> SUFFICES ASSUME IInv, [Next]_vars PROVE CacheStep
  OBVIOUS
<1> USE DEF CacheStep
<1>1. ASSUME NEW c \in Calls, Step(c) PROVE CacheStep
  <2>1. CASE sourceRead(c)
    BY <2>1, FilesAssumption DEF sourceRead, observeRead, aimAtCached, observe, readHostSource
  <2>2. CASE diagnosed(c)
    BY <2>2 DEF diagnosed
  <2>3. CASE targetRead(c)
    <3>1. Head(targets[c]) \in Files
      BY <2>3 DEF targetRead, IInv, Sound
    <3> QED
      BY <2>3, <3>1 DEF targetRead, observeRead, observe, readHostSource
  <2>4. CASE recordWrite(c)
    <3>1. Head(plan[c]).file \in Files
      BY <2>4, Planned DEF recordWrite, Read
    <3> QED
      BY <2>4, <3>1 DEF recordWrite, observe
  <2> QED
    BY <1>1, <2>1, <2>2, <2>3, <2>4 DEF Step, invalid, refuse, begin, approved, denied, formatted,
       edited, checkTarget, writeIntent, writeText, conflict, fails
<1>2. ASSUME NEW s \in Sessions, NEW f \in Shared, OtherRead(s, f) PROVE CacheStep
  BY <1>2, BoundsAssumption DEF OtherRead, observe
<1> QED
  BY <1>1, <1>2 DEF Next, Edit, SetMode, vars

LEMMA FsTypeStep ==
  ASSUME IInv, IInv', TypeOK, [Next]_vars
  PROVE  FsTypeOK'
<1>1. IsCache(cache, Read) /\ observed \in [Sessions -> [Files -> Version \cup {None}]]
  BY DEF TypeOK, FsTypeOK
<1>2. IsCache(cache', Read)
  <2>1. ASSUME NEW c \in Calls, phase[c] = "asking" PROVE IsCache(set(cache, source[c]), Read)
    BY <1>1, <2>1, WasSet DEF IInv, Sound
  <2> QED
    BY <1>1, <2>1, CacheSteps, Deleted, WasGot DEF CacheStep
<1>3. ASSUME NEW s \in Sessions \cup {None}, NEW f \in Files, NEW v \in Version, observe(s, f, v)
      PROVE  observed' \in [Sessions -> [Files -> Version \cup {None}]]
  BY <1>1, <1>3 DEF observe
<1>4. ASSUME NEW c \in Calls, Step(c)
      PROVE  observed' \in [Sessions -> [Files -> Version \cup {None}]]
  <2>1. SessionOf[c] \in Sessions \cup {None} /\ seen[c] \in Version \cup {None} /\ FileOf[c] \in Files
    BY SessionsAssumption, FilesAssumption DEF IInv, Sound
  <2>2. CASE sourceRead(c)
    BY <1>1, <1>3, <2>1, <2>2 DEF sourceRead, observeRead, readHostSource
  <2>3. CASE targetRead(c)
    BY <1>1, <1>3, <2>1, <2>3 DEF targetRead, observeRead, readHostSource, IInv, Sound
  <2>4. CASE recordWrite(c)
    <3>1. Head(plan[c]).file \in Files /\ seen[c] \in Version
      BY <2>4, Planned DEF recordWrite, Read, IInv, Sound
    <3> QED
      BY <1>3, <2>1, <2>4, <3>1 DEF recordWrite
  <2> QED
    BY <1>1, <1>4, <2>2, <2>3, <2>4 DEF Step, invalid, refuse, begin, approved, denied, diagnosed,
       formatted, edited, checkTarget, writeIntent, writeText, conflict, fails, fsVars
<1>5. ASSUME NEW s \in Sessions, NEW f \in Shared, OtherRead(s, f)
      PROVE  observed' \in [Sessions -> [Files -> Version \cup {None}]]
  BY <1>3, <1>5, BoundsAssumption DEF OtherRead, IInv, Shaped
<1>6. observed' \in [Sessions -> [Files -> Version \cup {None}]]
  BY <1>1, <1>4, <1>5 DEF Next, Edit, SetMode, vars, fsVars
<1> QED
  BY <1>2, <1>6 DEF FsTypeOK, IInv, Shaped

LEMMA TypeInit == Init => TypeOK
<1> SUFFICES ASSUME Init PROVE TypeOK
  OBVIOUS
<1>1. 0 \in Version /\ InitialMode \in Modes
  BY BoundsAssumption, ModesAssumption DEF Version, Modes
<1>2. FsTypeOK
  BY <1>1, EmptyCache DEF Init, FsTypeOK
<1>3. ModeTypeOK
  BY <1>1, ModesAssumption DEF Init, ModeTypeOK, Modes
<1>4. CallTypeOK
  BY <1>1, Empty DEF Init, CallTypeOK, Targets
<1> QED
  BY <1>2, <1>3, <1>4 DEF TypeOK

LEMMA TypeStep == IInv /\ TypeOK /\ [Next]_vars => TypeOK'
<1> SUFFICES ASSUME IInv, TypeOK, [Next]_vars PROVE TypeOK'
  OBVIOUS
<1>1. FsTypeOK' /\ ModeTypeOK'
  BY NextInv, FsTypeStep, ModeTypeStep DEF TypeOK
<1>2. CallTypeOK'
  <2>1. CASE UNCHANGED callVars
    BY <2>1 DEF TypeOK, CallTypeOK, callVars
  <2>2. (\E c \in Calls : Step(c)) \/ UNCHANGED callVars
    BY DEF Next, Edit, OtherRead, SetMode, vars
  <2> QED
    BY <2>1, <2>2, CallTypeStep
<1> QED
  BY <1>1, <1>2 DEF TypeOK

\* Every variable keeps its type: above all, the diagnostics cache stays within
\* its bound and holds one snapshot of a file.
THEOREM TypeCorrect == Spec => []TypeOK
<1> QED
  BY InitInv, NextInv, TypeInit, TypeStep, PTL DEF Spec

-----------------------------------------------------------------------------
(* What a quickfix aims with *)

\* A quickfix that knows both versions aims only with a snapshot of its own.
Aimed(e, r) ==
  /\ e \in Read /\ (e.version # None => e.version <= e.text)
  /\ r \in Read /\ (e.version # None /\ r.version # None => e.version = r.version)

\* The text of a snapshot is no older than its version, in the cache and in the
\* hands of a quickfix.
AimInv ==
  /\ \A e \in ToSet(cache) : e.version # None => e.version <= e.text
  /\ \A c \in Calls : aim[c] # None => Aimed(aim[c], source[c])

LEMMA AimStep == IInv /\ TypeOK /\ AimInv /\ [Next]_vars => AimInv'
<1> SUFFICES ASSUME IInv, TypeOK, AimInv, [Next]_vars PROVE AimInv'
  OBVIOUS
<1>1. IsCache(cache, Read)
  BY DEF TypeOK, FsTypeOK
<1>2. \A e \in ToSet(cache') : e.version # None => e.version <= e.text
  <2>1. \A c \in Calls : phase[c] = "asking" =>
          source[c] \in Read /\ (source[c].version # None => source[c].version <= source[c].text)
    BY DEF IInv, Sound, Fresh
  <2>2. \/ ToSet(cache') \subseteq ToSet(cache)
        \/ \E c \in Calls : phase[c] = "asking" /\ ToSet(cache') \subseteq ToSet(cache) \cup {source[c]}
    <3>1. \A c \in Calls : phase[c] = "asking" =>
            ToSet(set(cache, source[c])) \subseteq ToSet(cache) \cup {source[c]}
      BY <1>1, <2>1, WasSet
    <3>2. \A f \in Files : /\ ToSet(delete(cache, f)) \subseteq ToSet(cache)
                           /\ ToSet(get(cache, f)) \subseteq ToSet(cache)
      BY <1>1, Deleted, WasGot
    <3> QED
      BY <3>1, <3>2, CacheSteps DEF CacheStep
  <2> QED
    BY <2>1, <2>2 DEF AimInv
<1>3. ASSUME NEW c \in Calls, aim'[c] # None PROVE Aimed(aim'[c], source'[c])
  <2>1. CallTypeOK
    BY DEF TypeOK
  <2>3. ASSUME NEW d \in Calls, NEW how, Leave(d, how) PROVE aim'[c] = aim[c] /\ source'[c] = source[c]
    BY <1>3, <2>1, <2>3 DEF Leave, CallTypeOK
  <2>4. ASSUME NEW d \in Calls, NEW ts, NEW p, NEW done, Onward(d, ts, p, done)
        PROVE  aim'[c] = aim[c] /\ source'[c] = source[c]
    BY <1>3, <2>1, <2>3, <2>4 DEF Onward, CallTypeOK
  <2>5. ASSUME NEW d \in Calls, sourceRead(d)
        PROVE  (aim'[c] = aim[c] /\ source'[c] = source[c]) \/ Aimed(aim'[c], source'[c])
    <3> DEFINE r == readHostSource(FileOf[d], seen[d], disk[FileOf[d]])
    <3>1. r \in Read /\ r.file = FileOf[d] /\ FileOf[d] \in Files
      BY FilesAssumption DEF readHostSource, Read, TypeOK, FsTypeOK, CallTypeOK
    <3>2. /\ source' = [source EXCEPT ![d] = r]
          /\ aimFreely(d) \/ aimAtCached(d, r)
      BY <2>5 DEF sourceRead
    <3> HIDE DEF r
    <3>3. CASE c # d
      BY <2>1, <3>2, <3>3 DEF CallTypeOK, aimAtCached, aimFreely
    <3>4. CASE c = d /\ aim' = [aim EXCEPT ![d] =
                 IF Holds(cache, r.file) /\ sameVersion(Snapshot(cache, r.file), r)
                   THEN Snapshot(cache, r.file) ELSE None]
      <4>1. /\ source'[c] = r /\ Holds(cache, FileOf[d])
            /\ aim'[c] = Snapshot(cache, FileOf[d]) /\ sameVersion(aim'[c], r)
        BY <1>3, <2>1, <3>1, <3>2, <3>4 DEF CallTypeOK
      <4>2. aim'[c] \in ToSet(cache) /\ aim'[c] \in Read
        BY <1>1, <3>1, <4>1, HeldEntry
      <4>3. aim'[c].version # None /\ r.version # None => aim'[c].version = r.version
        BY <4>1 DEF sameVersion
      <4> QED
        BY <3>1, <4>1, <4>2, <4>3 DEF Aimed, AimInv
    <3>5. CASE c = d /\ aimFreely(d)
      BY <1>3, <2>1, <3>5 DEF aimFreely, CallTypeOK
    <3> QED
      BY <3>2, <3>3, <3>4, <3>5 DEF aimAtCached
  <2>6. ASSUME NEW d \in Calls, Step(d)
        PROVE  (aim'[c] = aim[c] /\ source'[c] = source[c]) \/ Aimed(aim'[c], source'[c])
    <3>1. CASE sourceRead(d)
      BY <2>5, <3>1
    <3>2. CASE formatted(d) \/ edited(d) \/ targetRead(d) \/ recordWrite(d)
      BY <2>3, <2>4, <3>2 DEF formatted, edited, targetRead, recordWrite
    <3>3. CASE invalid(d) \/ refuse(d) \/ denied(d) \/ diagnosed(d) \/ conflict(d) \/ fails(d)
      BY <2>3, <3>3 DEF invalid, refuse, denied, diagnosed, conflict, fails
    <3>4. CASE begin(d) \/ approved(d) \/ writeIntent(d) \/ writeText(d)
      BY <3>4 DEF begin, approved, writeIntent, writeText
    <3>5. CASE checkTarget(d)
      BY <2>3, <3>5 DEF checkTarget
    <3> QED
      BY <2>6, <3>1, <3>2, <3>3, <3>4, <3>5 DEF Step
  <2>7. (\E d \in Calls : Step(d)) \/ UNCHANGED <<source, aim>>
    BY DEF Next, Edit, OtherRead, SetMode, vars, callVars
  <2>8. CASE aim'[c] = aim[c] /\ source'[c] = source[c]
    BY <1>3, <2>8 DEF AimInv
  <2> QED
    BY <2>6, <2>7, <2>8
<1> QED
  BY <1>2, <1>3 DEF AimInv

\* A quickfix without a range of its own never aims with diagnostics of a text
\* older than the file was when the quickfix began, if both the snapshot and the
\* source have a version (actions.ts: those two are compared), for any files and
\* callers.
THEOREM QuickfixesAimTrue == Spec => []QuickfixAimsAtNewText
<1>1. Init => AimInv
  <2>1. Init => ToSet(cache) = {}
    BY DEF Init, ToSet
  <2> QED
    BY <2>1 DEF Init, AimInv
<1>2. AimInv => QuickfixAimsAtNewText
  BY DEF AimInv, Aimed, QuickfixAimsAtNewText, Read, Version
<1> QED
  BY <1>1, <1>2, InitInv, NextInv, TypeInit, TypeStep, AimStep, PTL DEF Spec
=============================================================================
