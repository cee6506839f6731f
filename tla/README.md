# Formal models of dsh-lsp-actions

TLA+ models of the plugin that gives an agent and an editor language-server
actions (diagnostics, formatting, completion, code actions, symbols, signatures,
inlay hints, rename), the TLC configurations that check them and the theorems
proved about them with TLAPS. Paths are relative to the repository root;
`PROJECT.json` maps every definition to the lines it models, lists each run,
its properties, the known disagreements of code and documentation, and every
hazard of the code with the properties that cover it.

Check a run with `tlc -config X.cfg M` and proofs with `tlapm M.tla`.

## 1. The system

A tool call or an editor request goes down this path and its answer comes back:

    tools.ts, extra-tools.ts          editor/ (transport, server, service, actions, cache)
                 \                    /
                  runner.ts  (seam first, or the own client)
                 /                    \
    ctx.lsp seam (external)           client.ts: LspActionClient (pool)
                                         |  one per server entry and workspace
                                      client.ts: LspActionInstance
                                         |
                                      connection.ts, framing.ts -> server process

| Component | State | Operations | What is hard | What makes it correct |
| --- | --- | --- | --- | --- |
| Client pool, `client.ts` `LspActionClient` | `instances`, `tails`, `idleTimers`, `reaps`, `failedReaps`, `isDisposed` | `run`, `runScoped`, `enqueue`, `runOnce`, `reap`, `armIdleTimer`, `disposeAll` | callers that give up in the queue, handshake failure and retry, timers, reaps that fail, disposal in the middle of anything | one action at a time per key; no process tree without an owner; nothing spawned after disposal; every call settles |
| Instance and connection, `client.ts` `LspActionInstance`, `connection.ts`, `abort.ts` | handshake promise, `queue`, `pending`, `nextId`, `closeReason`, teardown promise | requests, cancellation and grace, document writes, `tearDown` | late, repeated or missing answers, writes that fail half way, a tree that survives | no request hangs or takes another's answer; nothing outlives an action; teardown ends |
| Push diagnostics, `client.ts` `waitForPushedDiagnostics` | `residentDocs`, `openedDocs`, `pushed`, `lastPushed`, `pushWaiters` | open or change, wait, `onNotification`, `takeLatest` | batches of an earlier text, quiet period against settle deadline against abort | latest batch wins; an unchanged document keeps its diagnostics |
| Runner, seam and routing, `runner.ts`, `seam.ts`, `servers.ts`, `project.ts` | vintage per seam object | `trySeamAction`, own client, `routeFile`, `findProjectMarker` | a seam replaced while it answers, cancellation mistaken for refusal, marker files that move during the walk | the seam is used whenever it serves; the nearest marker decides |
| Writes, `tools.ts`, `editor/actions.ts`, `host.ts`, `editor/cache.ts` | the session's observations, the diagnostics cache, a plan of files | read, ask, pre-flight, write one by one | the file changes between any two awaits; the third of five writes fails | what a write replaces is what was edited; a refused answer writes nothing |
| Positions and edits, `translate.ts` `PositionCodec`, `edits.ts` | tables of one text | encode, decode, `applyEdits` | surrogate pairs, line ends, edits that touch | exact positions; edits as if all at once |
| Editor protocol, `editor/service.ts`, `server.ts`, `transport.ts` | the line buffer, listeners, `cache`, running requests, the mounted generation | read lines, run, time out, announce, mount, dispose | requests side by side, disposal and remount during probes, a line cut by a reload | every request is answered, its outcome announced; subscribers know what the cache holds |
| Plugin entry, `index.ts` | the fiber's generation | `apply`, dispose | probing executables across a reload | a dead mount registers nothing |
| Framing, `framing.ts` | one byte buffer | `push` | frames across chunks, a bad frame after good ones | frames in order, bounded memory |
| Sandbox, `sandbox.ts` | none of its own | policy resolution, escalation | policy taken before a long call, while the session may change modes | a call writes only in a mode its session or the user gave it |
| Configuration, `servers.ts` | none; the resolved table is the runner's | validate and resolve each entry | the third of five entries fails | all of the plugin is mounted, or nothing |
| Normalisation, `translate.ts`; rendering, `render.ts`; types | none | pure functions | shapes | edits are neither lost nor reordered |

Shared state: the pool holds instances and learns of their death only through
`dead`; the runner holds the seam that `ctx` has at the moment; the tools and
the editor share the runner, and the host's filesystem with its per-session
observations; the cache is filled by runs and emptied by observations.

## 2. Modules

| Module | Models | Composition |
| --- | --- | --- |
| `SerialService` | abstract: what the pool promises its callers | refined by `ActionClient`, which holds the mapping (proved) |
| `ActionClient` | the pool | takes the steps of `ServerInstance` for each of its instances |
| `ServerInstance` | abstract: what the pool relies on in one instance | refined by `LspInstance` (proved) |
| `LspInstance` | one instance and its connection | |
| `PushDiagnostics` | the resident document of an instance and its push windows | |
| `ActionRunner` | seam, own client, routing and the marker walk | |
| `DiagnosticsCache` | the bounded cache of the editor's diagnostics, as operators on a sequence of entries | |
| `FileWrites` | tools and editor actions as they read and write files, and the sandbox mode they write in | extends `DiagnosticsCache` |
| `Framing` | the bytes of the server's output, the decoder and the dispatch of its messages | |
| `DocumentText` | positions and edits of the answers that `Framing` delivers | extends `Framing`; its text is the one of which `FileWrites` knows the version |
| `EditorProtocol` | lines, service and mount of the editor protocol | extends `DiagnosticsCache`; what its runs do to files is `FileWrites` |

`MC*` modules give the constants values for TLC; `*Proofs` hold the theorems.
`DiagnosticsCacheProofs` holds the lemmas about the cache that the proofs of the
two modules that use it share.

**ActionClient.** A call's `pc` runs from one await to the next:
`new -> canon -> queued -> ... -> settled`. `tail[k]` is the promise chain of a
key as the sequence of links that are not settled; `enqueue` appends,
`settleTail` removes the head when the work behind it has ended, so a caller
that leaves (`leaveQueue`) does not move the chain. `instances`, `timer`,
`failedReaps`, `isDisposed` are the maps of the class; `shake`, `broken`,
`teardown`, `tree` the view of a process that `ServerInstance` states;
`reapPhase` and the attempts are the loop of `reap`. `unwind` is the `finally`
of `runOnce`: evict a dead instance or arm the timer.

**LspInstance.** Requests have serial numbers; `pending` maps ids to serials,
`toServer` is what the server may answer, at any time, more than once.
`Environment`, `Handshake`, `TearDown` and `Action` group the steps of the
provider, of `initialize`, of `tearDown` and of the action under
`runSerialized`.

**PushDiagnostics.** A batch has a number and the text it was computed from; the
client sees neither and adds its own tag. Both wires are queues, and the server
publishes as often as it likes. A window (`opensWindow`) has a waiter and two
timers in ticks: the settle deadline, and the quiet period that each push heard
through the waiter starts afresh. `Tick` passes time down to zero, `settleDue`
and `quietDue` are the two callbacks, in either order and as late as other steps
may come between; `abort` and `dies` end a window too. `age` and `silence` are
history, the ticks since the window opened and since its waiter last heard a
push.

**ActionRunner.** A seam is its vocabulary; the published interface has none of
the actions. The walk looks at one directory and marker per step while `Change`
moves marker files and `Mount` replaces the seam. The list that
`configuredProjectMarkers` builds is modelled as the set of declared markers and
the order `Before` in which the table first declares them (by entry, then by
place in the entry), which is the order of the list; the walk goes from a marker
to the `First` of the `Later` ones.

**DiagnosticsCache.** The `Map` of `cache.ts` keeps the order of insertion, so it
is the sequence of its entries; `get` takes an entry out and puts it last, `set`
does so with a new one and evicts the first beyond the bound.

**FileWrites.** The text of a file is its version. `seen` is the version that
`stat` gave, or `None` where it gives none (`host.ts:129`; the files of
`Tokenless` may lack one at any time), `source` pairs it with the text streamed
later; `sameVersion` compares as `editor/actions.ts:441` does, and takes a
version that is missing for the same. What a call sent and aimed with is
forgotten once it has its answer, but for the calls of `Traced`, whose `source`
is history until they end. A quickfix with a range of its own does not
look into the cache. `Edit` and `OtherRead` are other programs and other tools of
the session, on the files of `Shared`. `refuse`,
`begin`, `approved` and `denied` are the gate of `sandbox.ts`: `policy` is the
mode the call goes on with, `standing` the session's, which `SetMode` changes at
any time; `stood` and `granted` are history.

**Framing.** A byte stands for as many as share a fate (a length, half of the
empty line after a header, part of a body), so that a chunk may end anywhere it
matters. `Written` is the stream, frame after frame, and `FrameEnd` where each
ends. `drain` is one turn of the decoder's loop, `push` one call, `onStdout` the
call and the dispatch of all it completes. Of the broken frames (`Faults`) there
is at most one in a stream. The loops are recursive functions, so that they can
be reasoned about.

**DocumentText.** A text is a sequence of UTF-16 units of four kinds of code
points, enough to tell the encodings apart (1 unit/1 byte, 1/2, 2/4, newline;
three bytes in one unit behave as two); the second half of a pair never stands
without the first (`DocumentsAssumption`). `Measure` counts what the units between two offsets
are long, `WirePosition` says what the protocol means by a position, `encode` and
`decode` what the tables and line starts of the codec make of it. One exchange with the server
runs from the handshake, whose response settles the encoding, to the edited
text: the position or diagnostic that is sent, the answer (edits of the
requested document or of another, listed under `changes`, `documentChanges` or
both, with file operations, commands and malformed entries among them), its
refusal or decoding, and the application of the edits from the last to the
first. Of a code action's `documentChanges` whatever is no list of edits is
skipped, of a rename's it is refused (`Skippable`). `meant` is what the server meant and is history.

**EditorProtocol.** Generations of the plugin, each with a server that is
probing, on, off or failed to mount; `resolveServers` takes one entry of the
table per step. A request's line comes whole or in two chunks (`torn`); it is
lost when nobody reads it or the server that has its start is gone. Requests have
a phase, a timeout and the outcomes told. Three variables are history: `view` is
what the editor knows of diagnostics, `older` which snapshot was set or looked up
before which, and `evicted` the files whose snapshot must have gone by then.
`older` and `evicted` do not look at the order in which the cache keeps its
entries, nor at what it has left: what `set` evicts is compared with them.

## 3. Runs

| Run | Bounds | Shows |
| --- | --- | --- |
| `pool_safety` | 3 calls, 1 key, 2 processes, 1 reap attempt | single flight, owned trees, timers, retry and disposal over all interleavings; the pool implements `SerialService` |
| `pool_live` | 2 calls (a rename and a push call), 1 process, 2 attempts | every call settles and `disposeAll` returns |
| `pool_dead_borrow` | 2 calls | *violation*: a process that died idle is borrowed |
| `instance` | 2 requests of actions, 2 teardowns | answers, cancellation, teardown; the instance implements `ServerInstance`; actions and teardowns end |
| `push` | 2 texts, 5 batches at a time, 2 messages each way, a deadline of 2 ticks, a quiet period of 1 | a burst ends with its quiet period and gets its last batch, the latest batch wins, an unchanged text gets its batch again, windows close under a server that never falls silent |
| `push_reuse` | same | *violation*: a late batch of the previous text is reused for the new one |
| `writes` | a format, a quickfix over up to 2 documents, a diagnostics run; 2 files, one of them shared with others and at times without a version, 2 further versions, a cache of 1, 1 change of mode, the format may ask for a wider one | own guards protect, refusals are clean, quickfixes never aim with old diagnostics where versions are known, no write in a mode nobody gave |
| `writes_clobber` | 1 rename | *violation*: a change made while the server worked is edited over |
| `runner` | a rename, diagnostics, a symbol search; 2 seams, 5 tables, 3 marker files that move | vintages, seam first, nearest marker |
| `runner_partial` | a seam that serves some actions | *violation*: it is given up for all after one it does not know |
| `editor` | 3 requests, one of them in two chunks, 2 files, cache of 1, 2 language servers, 2 mounts | dead mounts, subscribers' view, outcomes, answers |
| `text` | streams of up to 3 frames with at most one broken; 8 documents, 3 encodings, all formattings of up to 3 legal edits, all workspace edits of up to 2 in the document or in another, and all stray ranges to line 3, character 6 | frames are exact, positions are exact, no pair is cut, edits are simultaneous |

Why the bounds suffice: three calls on one key are the running one, one in the
queue and one that leaves it; two processes are the one that fails and the one
of the retry, or the evicted one and its successor; keys share nothing but
disposal, and the proofs cover any number. One request plus one that follows is
what an answer can be confused with. Two texts let a document change and come
back, which reuse depends on; a deadline longer than the quiet period lets either
timer be first, and be put off by a push in between. A cache of one evicts at the
second file; which of several goes is shown by `EditorSeesCache`, for any bound. Two
mounts are a plugin and its reload; two language servers one that is found and
one that fails after it. One change of mode falls before, between or after the
gate, the answer and the write of a call. Two edits are enough to overlap, three
to have an insertion before, between and after. Three frames have one before and
one after the broken one, and a chunk that holds parts of all. `CHECK_DEADLOCK FALSE` is set
everywhere because each model lets a bounded number of calls, batches or
versions happen and then has nothing left to do, as a program without requests.

The four violations are disagreements of the code with what its comments or its
documentation say; `findings` in `PROJECT.json` quotes both.

### Fairness

Weak fairness is asked of the client's own steps only. `ActionClient`: promises
that settled are noticed, backoffs and teardown budgets elapse, every tool call
has a timeout (`timeoutMs`, `tools.ts`). `LspInstance`: the grace, the teardown
timers and the caller's timeout fire. `PushDiagnostics`: time passes (`Tick`), and
the callback of a deadline that is due runs (`settleDue`); that of the quiet
period may starve, and a server may publish for ever. `EditorProtocol`: the timeout of a run (`service.ts:129`) fires, a run
that has timed out fails at its next await, and a write that returned is
recorded; this takes a mounted seam to honour the signal it is handed. An editor
need not end a line it began. A server need never answer, read its input or exit; no
file need change; nobody need dispose.

## 4. Theorems

All hold for every value of the constants, under the assumptions of the modules.
Every safety invariant and action property that a passing run checks is a theorem
here; so are both refinements.

| Theorem | States | Argument |
| --- | --- | --- |
| `ActionClientProofs`: `TypeCorrect` | `TypeOK` | five parts, each preserved separately, with `BackoffInv` (attempts stay within the bound) |
| `TreesAreOwned` | `OwnedTrees` | inductive with the types: a reap takes over what eviction lets go, and a failed one leaves its instance in `failedReaps` |
| `CallsAreSerial` | `SingleFlight` | `QueueInv`: a call runs only while its link is the oldest of its key's tail; needed because a caller that left the queue still has its link there |
| `DisposalIsFinal` | `NothingAfterDispose` | `EmptyInv`: after disposal no instance is pooled, so none is borrowed or published |
| `DisposalEndsProcesses` | `DisposedMeansExited` | `OwnedTrees`, `EmptyInv` and `WaitingInv`: every living tree is one that disposal still waits for |
| `TimersSpareRunning`, `TornIsOutOfReach`, `BodiesRunOnTheirOwn` | `TimerSparesRunning`, `NoTornInstanceBorrowed` | one induction, `PoolInv`: a body holds the instance pooled under its key, or after disposal a torn one (`HeldInv`); a pooled instance was spawned for its key (`PooledInv`); what is torn was spawned (`TornInv`). Neither property is inductive without `HeldInv`, since what a timer spares and what an eviction removes is the instance that a body holds |
| `ServiceImplemented` | `ActionClient` implements `SerialService` | each step is one of the service or none of its variables changes; `LineInv`: a key's tail has each call once, and who waits is in it. A caller that leaves the queue settles in the service at once although its link stays |
| `InstanceIsServer` | `LspInstance` implements `ServerInstance` | initial states map to initial states, and each step to a step or a stutter, with `CloseInv` |
| `LspInstanceProofs`: `TypeCorrect` | `TypeOK` | `CountInv`: every request is counted by an ask of the action or a try of the teardown, so the counters stay within what the bounds allow |
| `NobodyHangs`, `AnswersAreOwn` | `NothingPendingAfterFailure`, `AnswersMatch` | `RpcInv`: an id is the number of its request, whatever the server may answer carries the id it was sent, and a request is unsettled exactly as long as it is in the table |
| `ActionsLeaveNothing` | `NothingOutlivesAction` | `RpcInv` with `BodyInv`: only the current request of the action is open |
| `CancelledWritesEnd` | `CancelledWriteEndsInstance` | by cases on the step that leaves the phase; it needs no more than the aborted signal |
| `PushDiagnosticsProofs`: `TypeCorrect`, `BurstsAreWhole`, `LatestWins` | `TypeOK`, `BurstIsWhole`, `LatestElseSameText` | `HistoryInv`: the batch that history says arrived last is the one in hand, and what the last call got is still remembered; `ClockInv`: the timers and the time that has passed since the window opened and since its last push add up to what they were set to |
| `ActionRunnerProofs`: `VintagesAreTrue`, `NoDuplicateServers` | `VintageIsOfItsSeam`, `SeamFirst` | `Placed`: a call that has left the seam has a reason that its answer gave; under `WholeVocabulary`, that a seam serves all actions or none. Without it `runner_partial` is a counterexample |
| `TypeCorrect`, `WalkIsRight` | `TypeOK`, `NearestMarkerDecides` | `WalkInv`: a walk is at a probe of a declared marker in an ancestor directory, and while it is steady all probes before it have no file. `Before` is a total order with a first element in every set of markers (`BeforeIsTotal`, `FirstIsFirst`, from the well-foundedness of the naturals), so the first file found governs and no other marker does (`FoundGoverns`), and `routeFile` picks the best rank (`HandsToBest`) |
| `OneGenerationServes`, `OutcomesAreTold` | `DeadMountsNothing`, `OutcomeIsTold` | `MountInv`: disposal leaves no generation in service, so a mount finds none; `HeardInv`: nothing is announced of a request before it ends |
| `EditorProtocolProofs`: `TypeCorrect`, `EditorSeesCache` | `TypeOK`, `ViewIsCache` | `RunInv`: what a run holds at each await; `SubscriberInv`: only a generation in service has a subscriber, and a view exists only with one. Each way to change a cache is matched by what subscribers are told, with the lemmas of `DiagnosticsCacheProofs` on what `set`, `get` and `delete` leave in it. `RecencyInv`: the entries of a cache stand in the order of their use, through every deletion and look-up; so the first of them is the one file that was used before all others, and there are more entries than the bound exactly when there are more files (`BeforeEviction`, `EvictsLeastUsed`) |
| `FileWritesProofs`: `RefusalIsClean`, `OwnObservationProtects` | `RefusalWritesNothing`, `OwnGuardProtects` | `Fresh`: the version found by stat is no newer than the text, nor the text than the file; so if the version is still the file's, so is the text. A refusal comes from a phase in which nothing is written yet |
| `WarrantedModes` | `ModeIsWarranted` | inductive with what holds of a call that waits for its user: the gate has let no read-only mode through, and a grant is the call's own |
| `TypeCorrect`, `QuickfixesAimTrue` | `TypeOK`, `QuickfixAimsAtNewText` | `AimInv`: a cached snapshot is of a text no older than the version it is tagged with, and a quickfix aims only with one tagged with the version it read, or where one of the two has no version |
| `DocumentTextProofs`: `NoPositionMoves` | `PositionsAreExact` | the codec inverts what the protocol means (`EncodeExact`, `DecodeExact`), because measures add up (`MeasureAdds`), only the first half of a pair measures nothing, and each number of newlines has exactly one line start (`LineTable`, `TableFindsLine`); what `lowerBound` finds never splits a pair (`DecodeOnBoundary`). `DocInv` carries this through the phases of a request: what is known of the offsets meant, while they are wire positions, document positions and offsets |
| `TypeCorrect` | `TypeOK` | in `DocInv`, `ApplyingInv`: what is left to apply is sorted by start (`InOrderSorts`), so each start lies in what the edits behind it have left of the text, even when they end before they start |
| `EditsTakeEffectAtOnce` | `EditsAreSimultaneous` | what an edit replaces is between its ends and nothing else moves (`ReplaceExact`), so applying one before those already applied gives what all of them give at once (`OneMoreMade`): `MadeInv` holds of the edits not yet applied that they are the first in order and apart. Legal edits are accepted (`LegalAccepted`), and two that must not stand together are brought next to each other by sorting (`OverlapIsSeen`, `ApartInOrder`): `RefusedInv`. `RestInv` follows a single range, which may end before it starts |
| `MessagesArriveOnce` | `FramesAreExact` | `FrameInv`: the buffer is what has arrived after some frame, all messages up to it are acted on, and after it none is whole. Frames have lengths that add up (`FrameEnds`, `WrittenShape`), the first length before the first empty line is of the frame that comes next, also after an endless one (`FirstHeader`, `HeadedTurn`), so a turn takes the next message, waits for its rest or gives up (`OneTurn`), and the turns of a call leave no whole message behind (`WhatPushFinds`); dispatch answers in the same order (`WhatDispatchAnswers`) |

Assumptions: that the constants are functions, sets and numbers of the kind the
code has (each call has a key, a file, an operation; a bound is positive; a table
and the ancestors of a file are sequences; `CapacityAssumption` is the check in
the cache's constructor; in a document the halves of a surrogate pair stand
together; there is a text for each edit), and that `None` is none of the values it stands beside.
TLC evaluates them in every run. The two theorems under `WholeVocabulary` name
it as a hypothesis; the seams `old` and `full` of the run `runner` satisfy it.

Only model-checked:

- liveness under fairness: `CallsSettle`, `DisposeAllEnds`, `ActionsEnd`,
  `TeardownEnds`, `WindowsClose`, `RunsAreAnswered`, which the prover does not
  reach;
- the four violations, which are counterexamples.

## 5. Not modelled

- The shapes of completions, symbols, signatures and hints (`translate.ts`),
  the tools that only ask and render (`extra-tools.ts`, `render.ts`), types:
  pure functions over data, without a state that a later step relies on.
- The session list, `sessions.changed` and `liveAgentOf`: copies of what other
  services hold at the moment they are asked.
- Which values a schema, a bound or a glob refuses: `resolveServers` may refuse
  any entry.
- Another spelling of a file's name: a file has one name in `FileWrites` and
  `EditorProtocol`.
- A process that was spawned without a stream (`connection.ts:91`): it is told to
  terminate and belongs to nobody, whether it does or not; `SpawnFails` is the
  error its caller gets.
- The host: its filesystem, sandbox policy, approvals and process spawning are
  taken as the code in `src/` uses them.
- The upstream patch, the example extension and the scripts.

Read while modelling, and stated by no run:

- All operations but rename hand an instance a signal that is not fused with the
  client's lifetime (`client.ts:120`; `client.ts:248` says every await observes
  disposal). `ActionClient` has it as the constant `Fused`.
- A quickfix aims with a cached snapshot "of the exact same source version"
  (`editor/actions.ts:430-434`), but one that was read without a version agrees with every version, as every
  snapshot does with a source that has none (`editor/actions.ts:441`). Such a
  quickfix may aim with the diagnostics of any older text.
  `QuickfixAimsAtNewText` speaks of the files whose versions are known.
- A position inside a wide code point decodes to the offset after it
  (`translate.ts:204`); the comment at 188-189 says its first unit.
- A whole-document range that ends at line `lineCount`, character 0, is clamped
  to the start of the last line for a server that counts in bytes or code points
  (`translate.ts:197`), and refused for one that counts in UTF-16.
- A code action that has both an edit and a command is taken for the command
  alone (`translate.ts:403`).
- A rename whose answer names one file by two URIs plans it twice, and the second
  write replaces the first (`tools.ts:445`).
- An extension configured as `ts` or `.TS` passes the check at load, which
  normalises it, and is then looked up as it is written (`servers.ts:314`, 236).
- `sessions.changed` is announced only if the sessions service was there when the
  editor service started (`editor/service.ts:74`).
- A read-only session is refused by the editor with the hint to ask for a wider
  mode, and refused again when it does (`editor/actions.ts:323`); the tools ask.

## 6. Plan

1. Done: pool, instance, push windows, writes, runner, editor protocol, text;
   then framing, the sandbox, answers that edit other documents, the lines of
   the editor and the resolution of the server table.
2. Done: all safety properties that a run checks, and both refinements, proved.
   Where the code loops over data (the turns of the decoder, the dispatch of a
   call's messages) the induction is over the steps of the loop, by
   the least one that goes wrong (`MinIsLeast`); no induction theorem with an
   operator as a parameter is cited.
3. Left: liveness, which only TLC reaches. An abstract specification of what a
   call of `FileWrites` promises would say no more than its properties: the
   write of a call is not atomic with its check (`writes_clobber`).
