# odai in TLA+

odai runs small local models (Chrome's built-in model, Apple's Foundation Models, a llama-server) behind one
TypeScript interface. Its hard parts are not the prompts but what surrounds them: sessions that a provider makes late or
never, calls that are aborted at any moment, a queue of turns over one native session, two event loops that only exchange
messages, a child process that may die, a Chrome that has to be started once and closed for certain. This directory
models those parts, checks them with TLC and proves every safety property of the runs with TLAPS.

Sources are named relative to `src/` of the repository.

## 1. Inventory

| Component | State it keeps | Operations | Talks to |
| --- | --- | --- | --- |
| Conversation (`conversation/`) | transcript, its length and turn count, reservations, generation and its abort controller, promise tail, provider session | prompt, promptStructured, promptStreaming, contextStatus, messages, reset, destroy | a session factory |
| Conversation over backends (`conversation/odai.mts`) | whether it owns its backend | createOdaiConversation, destroy, abort | registry, backend, conversation |
| Chrome bridge lifecycle (`backends/chrome-builtin.mts`) | memoized promise of the bridge, Chrome's context | languageModel, close, setup | Playwright, Chrome, the page |
| Chrome page bridge (`backends/chrome-page/`) | host: session objects, operations. page: native sessions, registry of controllers | create, clone, prompt, contextStatus, destroy, abort | `page.evaluate` in one direction |
| Chrome page streams (`chrome-page/stream.mts`, `queue.mts`) | queue of payloads, waiting readers, the page's native reader | next, return, throw, abort, close | `evaluate`, and a binding in the other direction |
| Apple shim client (`backends/apple-fm-shim.mts`, `apple-fm.mts`) | handle of a child process, pending replies with timers; a cached binary and its source, shared by processes | create, prompt, destroy, availability probe, build | a Swift process over stdin and stdout, `swiftc` |
| Model requests (`model.mts`, `session.mts`, `cancellation.mts`, `lifecycle.mts`) | base session, cached model name, sessions of the attempts | createOdaiModel, promptStructured, promptStreaming, withOdaiModel | a factory |
| Request helpers (`debounce.mts`, `provider.mts`, `generate-verify.mts`, `best-of-n.mts`, `routing.mts`) | the active request and its timer, a memoized selection | schedule, abort, availability, create, generate and verify | model, registry |
| Backend registry (`backends/registry.mts`) | none | selectBackend, fallbacks | the backends' availability |
| Local service (`shim/`, `cli/serve.mts`) | a backend, an HTTP server, a session per request | listen, chat completions, messages, models, health, close | HTTP clients, backend |
| Command line (`cli/`) | exit code, the backend it closes, the lines of a batch | task, batch, serve, setup, backends | all of the above |
| llama-server backend (`backends/llama-server.mts`, `stream.mts`) | the session's abort controller, the text so far | prompt, promptStreaming, destroy, mergeChunks | an HTTP server that sends events |
| Chrome profile (`backends/chrome-profile.mts`, `chrome-assets.mts`) | files: the model's weights, `Local State` | find, clone, seed, launch | other processes, a running Chrome |
| Gemma cache tooling (`scripts/repo/cache/`) | files, a manifest of hashes, a Chrome | probe, export, verify | Chrome, Docker |
| Push type check (`.git-hooks/_shared/`) | files: a lock, a verdict per key | scanTypeCheck | other pushes, `tsc`, who edits the tree |
| Release scan gate (`scripts/fleet/npm/scan/`, `registry/npm/scan/`) | a tarball, an artifact, a receipt | runScanCi | npm, the scan service |
| Reply repair, task rules (`json.mts`, `semver.mts`, `osv.mts`, `control-tokens.mts`) | none | pure functions | |
| Lockstep proposals, tasks, prompts, KEV | none between calls | one request each, validation | model |
| Benchmarks, simulator, mocks | | measurement and test doubles | |
| Fleet tooling, commit hooks (`scripts/repo/bootstrap/`, `.git-hooks/fleet/`) | none of their own | sequences of commands and checks | git, registries |

What is hard in each of them, and what makes it correct:

- **Conversation.** All calls run through one promise tail. Each captures a generation; reset and destroy start a new one
  while jobs of the old one still unwind, on another tail. A turn reserves its place when it is queued, adds its messages
  in one continuation and gives the reservation back in a later one. A native session remembers what it was sent, so one
  that saw a turn that was not committed must go. Correct means: limits hold with everything that was let in, jobs of a
  generation are serial, the transcript is exactly the completed turns in order, no session outlives its purpose, and a
  cancelled call returns even behind a provider that hangs.
- **Chrome page bridge.** Host and page are two programs with two event loops. A cancellation may overtake the
  registration it cancels, a session may be made for a caller who left, a source may be destroyed while it is cloned.
  Correct means: what the host holds open exists on the page, what the page keeps has somebody who will end it, and
  cancellation arrives whatever the native model does.
- **Streams.** Several readers wait for one producer, four different closers may come at any time. Correct means: chunks
  in order, once, none after the end, no false end, and nobody left waiting.
- **Apple shim.** Replies carry no identity. Correct means: the host's pending list, its timers and its waiting calls
  agree through crashes, timeouts, unreadable lines and failed writes; a reply goes to the request it answers; no child
  is left running. The binary is built by whoever finds none, also by several processes at once: what stays in the cache
  has to be a whole program of the whole source.
- **Chrome lifecycle and its owners.** Start, failure, close, abort and crash interleave around one memoized promise.
  Correct means: a Chrome that runs can be closed by somebody, and an owner's end is its end.
- **Model requests.** Every wait races with a signal, a timer or a deadline. Correct means: the sessions that live are
  those in use, and a deadline ends everything it guards.
- **Local service and command line.** A backend is selected, started, used and closed by a process that may fail at each
  step, whose clients come and leave, and whose tasks may outlive their timers. Correct means: no connected client loses
  its backend, an ended command leaves no Chrome and no session, and each entry of a batch has its own line.
- **Request helpers.** A newer request takes the timer of the last one, whose function may be running; calls share a
  selection that one of them may drop under another. Correct means: one request goes on, on one backend.
- **llama-server requests.** `read()` cuts the body anywhere, three signals may close the request, and a generator that
  stops early leaves it open. Correct means: the reply is all of the deltas, and every request is closed.
- **Chrome profile.** Several processes clone and seed the same directory without a lock, and may die half way. Correct
  means: Chrome never runs over half a model, and a whole one is found again.
- **Gemma cache.** A Chrome that starts after the one look at its lock writes into what is being copied; a browser may
  come after its probe timed out. Correct means: the files of a copy that verifies are all of one moment, and no Chrome
  stays.
- **Push type check.** Pushes share a lock and a cache while somebody edits the tree they judge. Correct means: turns come
  back, the compiler runs for one push at a time, and a pass belongs to the tree it was given for, as far as its key tells.
- **Release scan.** Reads are cut off and repeated while the service still works. Correct means: a receipt stands for
  clean findings of a finished scan of the staged bytes, for all of them unless the service itself ended its response
  early, and no tarball is left.

`PROJECT.json` lists the hazards line by line, with the properties that would show each of them going wrong.

## 2. Modules

```
Transcript            what a conversation promises
  ^ implements
Conversation  ------> ConversationProofs     QueueInv, SessionInv, CommitInv, HistoryInv, LineInv, WaitInv
ChromePage    ------> ChromePageProofs       PageInv, WorkInv
ChunkReaders          what a streamed reply promises
  ^ implements
PageStream    ------> PageStreamProofs       StreamInv, StrandInv, ViewInv
AppleShim     ------> AppleShimProofs        ShimInv
ChromeBridge          the memoized Chrome
  ^ extends      ^ extends
  |              OdaiConversation  --------> OdaiConversationProofs  BridgeInv, OwnerInv
  LocalService        one odai process
OdaiModel             a model, its requests
LlamaStream           prompts of llama-server
Debouncer             requests and timers
LocalFactory          calls and selections
  MCLibrary  composes the last five and AppleShim
    ^ extends
    LibraryProofs     ServiceInv, ModelInv, StreamsInv, ReplyInv, DebounceInv, FactoryInv
ChromeProfile         processes and files -> SharedFilesProofs       ProfileInv
ShimBuild             builds and files                               BuildInv
GemmaCache            probe and export                               ProbeInv, ExportInv
TypecheckTurns        pushes of a checkout                           TurnsInv
ReleaseScan           runScanCi                                      ScanInv
  MCSharedFiles  composes the last five
FoldLemmas            folds over sequences, for ConversationProofs and LibraryProofs

MC<Module>            constants of the small instances
```

One action stands for one continuation of the code between two awaits, or for one event the code is told of. A definition
named `...` with the comment "Mutant:" is a wrong variant of the definition after it. It takes part in no run of its own:
putting it in the place of the right one must break the property it is paired with in `PROJECT.json`, which shows
that the property depends on that piece of code.

### Conversation (`conversation/create.mts`, `state.mts`, `session.mts`, `response.mts`, `transcript.mts`)

`closed, generation, turns, pendingTurns, characters, messages, session` are the fields of `ConversationState`. The
promise tail is `chain[g]`, the jobs chained in generation `g`; a job may run when it is at the head (`Ready`). `pc`
follows a job through `enqueueConversation` and `runConversationTurn`:

| Action | Code |
| --- | --- |
| `Refuse`, `EnqueueConversation` | synchronous checks, reservation and chaining in `enqueueConversation` |
| `RejectTurn`, `ReuseSession`, `RequestSession` | start of `runConversationTurn`, `acquireConversationSession` |
| `CallFactory`, `SessionArrives`, `SessionFails` | `createFactorySession`; a session nobody waits for is disposed of |
| `AcquireSession`, `AbandonSession` | the wait for the factory ends |
| `ContextPasses` | `readConversationContext`: the check behind its awaits; the job resumes in a later continuation |
| `Generate`, `AcceptReply`, `RetryTurn`, `GenerationFails` | the prompt, without another look at the signal; structured retry |
| `CommitTurn` | the transcript grows, in the same continuation as the last check |
| `CancelJob`, `ContextFails` | checks that fail, before the context is read or after: catch blocks, the session goes |
| `Settle` | `finally` of the queued job: the reservation is given back if the generation still runs |
| `CallerAborted`, `CallerReceives` | `waitForConversation` around the job |
| `ResetConversationState`, `DestroyConversationState` | the same names |

Messages are pairs of the call and a length, because the limits, the order and the presence of a turn are what the
properties tell apart. `retained[s]` is what a native session remembers. A system message only takes characters and is
part of the first turn's size. Option validation is left to the guards of `ValidTranscript`.

`Transcript` is the abstract specification: turn calls join a line, and each leaves it from its front, into the history or
without a trace; both end together at a reset. How long a transcript is, is a parameter of it (`Characters`).
`ImplementsTranscript` is the refinement: `history` is `messages`, and `waiting` is `Line`, the turn calls of the running
generation's chain whose jobs have not ended, in their order (`Chosen`).

### ChromePage (`backends/chrome-page/factory.mts`, `operation.mts`, `prompt.mts`, `bridge.mts`)

`host` and `call` are the host's objects, `registered`, `stopped`, `work` and `native` the page's. `wire` is the set of
evaluate requests and replies under way: each is delivered once, in any order, which is what unordered promises give.
`Create`, `Prompt`, `Clone`, `Destroy` and `Abort` are the caller's operations; `Begun`, `Ran` and the like are the host's
continuations, `Page...` the functions that are evaluated in the page. The code numbers operations and sessions from one
counter that is never reset, so names are never reused and a call and its session share one.

### PageStream (`backends/chrome-page/stream.mts`, `queue.mts`, `prompt.mts`)

The n-th call of `next()` is reader n. `buffered`, `terminal` and `pending` are the `StreamQueue`. The page's pump reads a
chunk, emits it through the binding and goes on when it has the receipt. `Return`, `Abort`, `DestroySession` and
`CloseBridge` are the four ways to close. When the browser goes, evaluate rejects on the host.

`ChunkReaders` is the abstract specification: a source of numbered chunks, readers who come one after the other, each to
the chunk of its number, in that order, or to an end that is told to all who wait. It has no queue, no page and no
messages. `ImplementsChunkReaders` is the refinement, with `outcomes` the first `called` entries of `got`.

### AppleShim (`backends/apple-fm-shim.mts`, `backends/apple-fm.mts`)

`child[s]` is a process with its two pipes, the host's `pending` list and the timers; a child has the name of the call
that spawned it. The child answers a line per line, or not, refuses, prints a line that is no JSON, exits at any time,
and may lose what it had not read. `Create`, `Prompt`, `Probe` and `Destroy` are the calls; the host events are a line,
a failed write, a timeout, an exit.

### ShimBuild (`backends/apple-fm-shim.mts`)

`build[b]` follows a call of `ensureShimBinary` in one of several processes: `Ensures` joins the build in flight in its
process or begins one, `LooksForBinary`, `OpensSource`, `WritesSource`, `Publishes` and `BuildFails` are
`buildShimBinary`, and `ReadsSource` and `Links` the compiler in between. The source and the binary are common to all
processes, the staging file has the process in its name. `HostDies` leaves the files as they are. `crossed` is a ghost: a
source was truncated while the compiler of another process was to read it.

### ChromeBridge and OdaiConversation (`backends/chrome-builtin.mts`, `conversation/odai.mts`)

`memo` is `bridgePromise`, `status` follows `startBridge` and the bridge's close; `LanguageModel` and `Close` are the two
operations of the backend. `OdaiConversation` composes them with `createOdaiConversation`: selection, launch, creation,
abort, destroy, and `closeConversationBackend` for an owned backend. The caller of a shared backend closes it when it
likes. Profile, storage and model assets are file handling and stay out; the readiness poll is one step that ends.

### OdaiModel (`model.mts`, `session.mts`, `cancellation.mts`, `lifecycle.mts`, `model-identity.mts`)

`model` is where `createOdaiModel` or `withOdaiModel` is, `pc[o]` where the owner of a session is: a request, the model
itself (`Base`) or the name detection (`NameProbe`). `GiveUp` is `awaitCancellable` rejecting: the session in use is
destroyed, one under way is remembered in `late` and destroyed on arrival (`ArrivesLate`). `Unsupported` climbs the ladder
of `createWithFallback`. A reply is usable or not (`RequestEnds`, `NextAttempt`); what makes it so is in `json.mts`. The
variant of `createModelFromState` that shares one session between requests is left out, and so is `createOdaiModel` with
`interactive` set by somebody else than `withOdaiModel`.

### LocalService (`cli/`, `shim/serve.mts`, `shim/server.mts`, `backends/chrome/setup.mts`, `backends/registry.mts`)

One odai process over one `ChromeBridge`. `phase` follows the command: `Runs`, `Select` or `NoBackend`, `Started` or
`StartFailed`, `BaseCreated`, then the work, and `Leaves` for every way out (`closeBackend`, after the base session).
`TaskBegins`, `TaskEnds` and `TimesOut` are `runBatchCommand` with `withTimeout`: a task that timed out goes on beside the
next, and `TaskEnds` then writes no line. A single task is a batch of one entry. `ClientRequests`, `AnswersAtOnce`,
`CreatesSession`, `SessionCreated`, `Answers` and `Disconnects` are `handleRequest` for each connection; `ServerStops` and
`Drained` are `server.close()` and its callback. `odai serve` and the shim's own entry point differ where a port is taken
(`ListenFails`): the first closes the backend, the second leaves it running and only sets its exit code (`stranded`).
`SessionStep` and `Serves` are apart from `CommandStep` because nothing limits their time: a session of the backend is
made with no timer, and so are the prompts of setup and of the server.

### ChromeProfile (`backends/chrome-profile.mts`, `chrome-assets.mts`, `chrome/storage.mts`)

The state is what several processes share: the weights in the profile and its `Local State`, each of which may be half
written. `Finds`, `CloneBegins`, `CloneEnds`, `Reads`, `SeedBegins`, `SeedEnds`, `Launches` follow `provisionProfile` in
one process, between two writes; `SeederDies` may come after any of them. `Present` is `hasChromeModelAssets`, which
asks for the ledger of Gemma and only for the weights of Gemini Nano. The ghosts `died` and `overlapped` let the
properties say exactly which accidents may break what.

### LlamaStream (`backends/llama-server.mts`, `stream.mts`)

`streamPrompt` and `prompt` from `fetch` to the text. `SendsDelta` and `EndsAnswer` are the server; `ReadsBody` brings
some of the lines that arrived; `Yields`, `SaysDone` and `BodyEnds` are the loop of `parseSseLine`; `Merged` is
`mergeStreamChunk`. `CallerAborts`, `SessionDestroys` and `RequestTimesOut` are the three signals of `postChat`. Texts
are short sequences, because what `Merged` does depends on prefixes and lengths. `plain` are the calls of `prompt()`,
which ask for no stream and have their answer in one body (`ReturnsAnswer`). A delta may be empty; as long as there is no
text, `Yields` cannot end in an error, because no callback is called that could throw; so it is with the delta of a last
line without its newline, in `BodyEnds`. Escapes are left out.

### Debouncer and LocalFactory (`debounce.mts`, `provider.mts`)

`Schedule` is a call of the debounced function: it aborts `activeController` (`newest`), clears `activeTimeout` and arms
its own timer. `DelayEnds` starts the function, which may heed its signal or not, and ends when it likes. In
`LocalFactory` selections are numbered in the order they were begun; `backendPromise` is the memo, `awaited[c]` the
selection that call `c` uses. `SaysUnavailable` drops the memo, whatever it holds by then; `create()` never does.

### GemmaCache (`scripts/repo/cache/browser.mts`, `util.mts`)

Two programs beside a Chrome. The probe: `ProbeBegins`, `NativeReady`, `Launched` (also when it comes after the timer),
`ProbeSucceeds`, `ProbeFails`, `Unwinds` with the one retry of `probeGemmaProvision`. The export: `ExportBegins` looks
at the lock once, `Lists`, `Hashes`, `InventoryComplete`, `Copies`, `Seals`, `Verifies`. `BrowserWrites` is Chrome at any
time after it started, `Damage` changes the copy. The contents of a file are a version number, and 0 is no file.
`DirectoryOf` says where a file is: `inventoryFiles` reads the names in a directory once, when it comes to it (`Lists`),
and what is made there afterwards is in no manifest; the ghost `late` has those files. An inventory with some manifest
model and some prompt configuration passes for a whole one. `moment` is a ghost, the profile when the inventory was
complete.

### TypecheckTurns (`.git-hooks/_shared/typecheck-cache.mts`, `push/repo-gates.mts`)

`push[p]` follows `scanTypeCheck` of one push: `LooksUp` (key and cache), `Locks` or the polls `Acquires` and
`PeerFinished`, `Deadline` without the lock, `Compiles`, the two halves of writing the verdict, `Releases`, `Judges`.
`Edits` changes the tree they all judge, `PushKilled` leaves the lock with a dead holder or frees it. A tree stands for
the compiler's answer, and a verdict is named by the tree it came from. The key of a tree is what git's listing tells of
it, `ListingOf[t]`, a constant about which nothing is assumed: `git.mts:45` trims the listing, so that
`repo-gates.mts:335` cuts the first character off the path of a first line that began with a space, and that file counts
as missing whatever is in it; a directory without tracked files is one entry; ignored files are none. So two trees may
share a key. `mixed` has the keys that hold the verdict of a tree with another key.

### ReleaseScan (`scripts/fleet/npm/scan/staged.mts`, `registry/npm/scan/run.mts`, `registry/npm/staged.mts`)

`scanCi` follows `runScanCi`: `DownloadsTarball` or `PacksTarball`, `HashesTarball`, `Uploads`, then reads of the results
(`ResponseBegins`, `LineArrives`, `ResponseEnds`, `ReadFailsAgain`, `PollsAgain`), `JudgesScan`, `DiscardsScanned`,
`WritesReceipt` and the nested `finally` blocks `DeletesTarball` and `CleansArtifact`. A finding is one of three kinds,
those that `JudgesScan` tells apart. The service works on while reads are cut off and repeated. A response may end
without an error at any line, and the code takes what came for all there is: nothing asks for the scores that a whole
response ends with. The ghost `short` says that the last one did. `leftovers` also has the directory which the download
runs in ("download") and what a failed `npm pack` left ("rest"), of which no path of the code knows the name.

## 3. Runs

| Run | Instance | Distinct states | Shows |
| --- | --- | --- | --- |
| `conversation_queue` | replay; 3 turn calls, 2 turns, 4 characters | 701,785 | limits, exact reservations, committed values, refinement of `Transcript` |
| `conversation_sessions` | native; prompt, structured, status; one reset, destroy | 2,638,475 | jobs are serial and none is stuck, the kept session is usable, none leaks, a turn of the running generation prompts the kept session, alive, and one that was overtaken prompts no other |
| `conversation_waits` | native; prompt and structured with one retry | 27,995 | native history is the transcript; cancelled calls return, cancelled jobs end, all calls return, destroy frees sessions |
| `conversation_late_abort` | as above | violation | an abort between commit and the caller's continuation |
| `page` | two created sessions, a clone, two prompts, two of them abortable | 73,870 | sessions backed and never leaked, no call lost between host and page, cancellation reaches the page, values in time |
| `page_receipt` | one session, one prompt | violation | an abort in the one microtask between a receipt and its use |
| `stream` | three readers, two chunks | 389,155 | readers follow the stream, refinement of `ChunkReaders`, nobody stranded, every closer releases readers and page |
| `shim_destroy` | one prompt | violation | destroy during the create request |
| `odai_conversation` | three conversations, three starts of Chrome | 248,444 | Chrome can be closed, owners' Chromes end, creation settles |
| `library` | shim: two prompts, a probe, two of which start; model: two requests of two attempts; command: three entries, three clients; stream: one, three deltas; debouncer: three requests; factory: three calls of `availability()`, two of `create()` | 133,884 | books of the shim, sessions of a model, lines and Chrome of a command, whole replies, owned requests, one request on one backend; all of them end |
| `shared_files` | cache: two files of two versions; two pushes, three trees of two listings, two edits; scan: two retries, two polls; profile: two processes; build: three calls in two processes | 512,490 | copies of one moment, no browser left, turns kept, passes that fit, receipts that mean a scan, no tarball left, half and whole models, whole binaries; all of them end |
| `stream_deltas` | one stream, two deltas | violation | a delta that begins with the text so far |

**Several programs in one run.** The modules of `library` share no state, and neither do those of `shared_files`. A
behaviour of such a run is one program, chosen by `program` in the initial state; the others stay as they began, with one
choice for what their `Init` leaves open. The run therefore has the sum of the programs' states, and checks each program
exactly as a run of its own would. The fairness of the programs that do not run asks nothing: none of the fair actions is
enabled before the program began.

**Joint properties.** A few properties are conjunctions of named parts that belong to one question, and each part is
stated and commented where it is defined: `ReservationsBalance` (`PendingIsExact`, `TurnsFit`), `JobsTakeTurns`
(`OneJobPerGeneration`, `NoJobIsStuck`), `WaitsEnd`, `CallsGoOn` (`SettledMeansReleased`, `NoCallIsLost`),
`PromptsKeepTheirTime`, `PageWorkEnds`, `StreamWorkEnds`, `ChromesAreKept` (`ChromeCanBeClosed`, `OwnedBridgeServes`),
`CreationsAndOwnersEnd`, `HelpersKeepOne` (`SelectionIsShared`, `FailureIsKeptUntilAsked`, `OnlyTheNewestRuns`),
`ChromeFollowsCommand` (`BackendOutlivesClients`, `EndedCommandFreesChrome`), `TurnsAreKept` (`LockComesBack`,
`TypechecksTakeTurns`), `ScanLeavesOnlyTruth` (`ReceiptMeansScanned`, `ScanLeavesNoFiles`), `LibraryWorkEnds`,
`FilesWorkEnds`. Type invariants are not run by themselves: they are parts of the inductive invariants of section 5.

**Bounds, and why they are enough.** The interesting cases of the queue need one job running, one waiting and one
refused; two turns and three calls give them, and four characters make a reply fit or not depending on what was
committed before. A reset needs a job of the old generation that unwinds beside one of the new: one reset and three
calls of the three kinds. Retries are 1 where they matter, because the second attempt is the last one. On the page, a
clone needs a source that is destroyed meanwhile, and a second session shows that names do not mix. Three readers and
two chunks let readers wait for a chunk, for the end and after the end at the same time. Two of the three shim calls
start: two prompts race for one handle, or a prompt with the probe. Three conversations and three starts let a start
that fails late meet the memo of a newer one, with a third user of it. Two requests with two attempts let each session
of one request be made, replaced and lost beside another request. Three entries let a task that timed out settle during
the next entry and the one after; three clients are answered, waiting and gone at a server's stop. Two processes overlap
on a profile in every order, and the second also comes after the first died. Three builds are two that share a process
and one apart. Three debounced requests let the second be superseded too; two calls of `availability()` drop the memo
twice, the third and the calls of `create()` use what was selected in between and after. Three deltas are text, a
snapshot of it and a last line without a newline; the streams of a session share only its controller, so one shows what
each does. Two files, each in a directory of its own, let a write fall between the hash of one and the copy of the
other, or between the listings; two versions tell before from after. Two pushes are a holder and a waiter, two edits are
an edit and its undoing. Of the three trees two share a listing, one of which has errors that count and one not
(`OneSoundTree`), and the third, with a listing of its own, has errors: a verdict may be of the tree itself, of one that
its key does not tell apart, or of another. Two retries and two polls are
one that helps and one that is the last. Bounds that cut behaviour (`MaxResets`, `MaxReaders`, `MaxChunks`, `MaxCalls`,
`MaxBridges`, `MaxDeltas`, `MaxFile`, `MaxEdits`) are constants and guards of the modules; `Retries` and `Polls` stand
for limits of the code.

**Deadlock.** All runs switch the deadlock check off: when every call has returned, the system may rest for ever. That
nothing gets stuck before is what the liveness properties say.

**Fairness, and why the code justifies it.** Everywhere, weak fairness on what a JavaScript event loop runs by itself:
continuations whose promise has settled, timers that are due, messages handed to evaluate. Never on callers, and never on
a provider unless a property says so in its premise (`ResponsiveProvider`, `WF_vars(Native)`). Particular to a module:

- `ChromePage`: a page that is alive delivers what was sent (`DeliverySpec`). `AppleShim`: a killed child ends.
- `OdaiConversation`: selection, launch and closing of a context end, by their own time limits. That the readiness poll
  ends is an assumption: it looks at its timeout only between calls of `page.evaluate`, which have none
  (`chrome-page.mts:54-78`).
- `OdaiModel`: the five seconds of the detection and the deadline of `withOdaiModel` pass (`Timers`).
- `LocalService`: Chrome starts or fails within its limits, node reads a request or gives it up (`requestTimeout`), and
  the timers of the tasks fire, which themselves may never answer. What waits for a session with no timer is fair in a
  premise only (`ResponsiveSessions`): the session of a command, setup's prompt, and a client's session and its prompt.
  Without it `CommandEndsAlone` is what holds. A server is told to stop by somebody, so its end is only
  asked for afterwards.
- `LlamaStream`: the consumer goes on and the request's timer fires; the server owes nothing.
- `Debouncer`: timers go off; the function owes nothing.
- `ShimBuild`: file operations and the compiler end, by `COMPILE_TIMEOUT_MS` at the latest, in a process that lives.
- `GemmaCache`: the probe's own steps and its timer; what it waits for in the page may never come.
- `TypecheckTurns`: a push that is not killed goes on; that the compiler ends is an assumption, for it has no time limit
  (`repo-gates.mts:410`). A holder that was killed releases nothing.
- `ReleaseScan`: reads of the service end by time limits; that the commands of npm and the build end is an assumption,
  for they have none (`scripts/fleet/npm/scan/staged.mts:220`, `registry/npm/staged.mts:558`). The scan of the service
  may never finish.

`ChromeProfile` and `LocalFactory` have no liveness: nothing there waits for another process, or for anything but the
probes of the backends.

## 4. What the runs found

- `conversation_late_abort`: a signal that aborts after the commit, but before the caller's own wait has looked, rejects
  the call (`conversation/state.mts:187`) while its turn is in the transcript. `docs/repo/conversation/practices.md:46`
  says that cancelled turns do not enter committed history.
- `page_receipt`: an abort in the microtask after `invoke` looked at its signal and before the operation's promise is
  used leaves a session on the page that nobody holds (`backends/chrome-page/operation.mts:71`). The `page` run leaves
  that one microtask out (`MicrotaskAborts = FALSE`); everything else holds with aborts anywhere.
- `shim_destroy`: `destroy()` while the create request is out finds no handle; the handle is set later and its child runs
  on (`backends/apple-fm-shim.mts:191`).
- `stream_deltas`: a delta that is longer than the text so far and begins with it is taken for a snapshot
  (`stream.mts:153`), and text is lost: "a", "ab" becomes "ab". `test/stream-fuzz.test.mts:2-5` says that deltas are
  appended.

The properties also name behaviour that the code has and no document denies, so that they hold exactly:

- After a timeout, the reply that comes late is taken for the next request's on the same child (`RepliesMatchPrompts`).
- A create reply that is no JSON, and a handle replaced by a concurrent first prompt, leave a child (`ChildrenAreOwned`).
- A start of Chrome that fails after `close()` clears the memo of the Chrome started meanwhile (`ChromesAreKept`).
- The shim's own entry point keeps its Chrome when its port is taken (`ChromeFollowsCommand`, the state `stranded`).
- A profile that two processes seed at once, or that is seeded under a running Chrome, may lose its ledger or be launched
  half cloned (`SeededGemmaStays`, `HalfModelNeedsFault`, the ghost `overlapped`).
- A process that begins to build truncates the source which the compiler of another may be about to read; what that one
  makes of it is renamed into the cache and stays there (`BinaryIsWhole`, the ghost `crossed`; `apple-fm-shim.mts:158`).
- A selection that failed stays memoized for `create()` until somebody calls `availability()`
  (`FailureIsKeptUntilAsked`), and of two such calls the second drops the selection that was made after the first
  (`SelectionIsShared`; `provider.mts:50`), although the comment at `provider.mts:26` speaks of a selection made once.
- A verdict is filed under the key taken before the compiler ran, although the tree was edited since (`PassFitsTree`, the
  ghost `mixed`; `repo-gates.mts:361`, `410`).
- Two trees with one key share their verdicts (`PassFitsTree`, `ListingOf`; `repo-gates.mts:335`). The comment at
  `typecheck-cache.mts:55-59` says that an edit moves the key, which an edit of the file in a trimmed first line, of one
  in a directory without tracked files, or of an ignored one does not.
- A native turn that is overtaken by a reset, a destroy or an abort between the check of its context and its prompt
  prompts the session all the same, which may be disposed of by then; its reply is discarded
  (`PromptsStayInGeneration`; `session.mts:100`, `152-161`).
- A file that Chrome makes after its directory was listed is missing from an inventory that is accepted, and from the copy
  (`VerifiedIsOneMoment`, the ghost `late`; `util.mts:198`).
- A response of the scan service that ends early but cleanly is judged by what it brought (`ReceiptMeansScanned`, the
  ghost `short`; `ndjson.mts:129`).
- The directory of a download, with what a failed download wrote, and the rest of a failed pack are never deleted
  (`ScanLeavesNoFiles`; `registry/npm/staged.mts:556`).
- After "[DONE]", or after a callback that threw, the request stays open until its timer or the session's end
  (`RequestsAreOwned`).

Met while modelling, and not the subject of a run:

- `test/debounce.test.mts:49` has a request rejected when its caller aborts it before the delay is over. One that is
  superseded meanwhile loses its timer (`debounce.mts:34`) and never settles, aborted or not; `NewestComesToItsTurn` says
  so.
- `typecheck-cache.mts:11-18` says that many pushes of one tree cost one type check. A push that gets the lock while it
  waits does not look at the cache again, and compiles once more.
- `cli/run.mts:7-11` says that every prompt has a hard timeout, so that no engine can hang a job. The creation of the
  model is outside of `withTimeout` (`run.mts:218`, `336`; only the detection of its name has a timer of its own), and so
  are setup's prompt (`setup.mts:54`) and those of the server (`server.mts:384-389`). `CommandEnds` therefore has a
  premise, `ResponsiveSessions`.
- `docs/cache-diagnostics.md:59` says that export rejects an active Chrome; the lock is looked at once, before the
  inventory. What protects the copy is the manifest, which is what `VerifiedIsOneMoment` shows.

## 5. Proofs

Seven modules prove properties, and `FoldLemmas` holds lemmas for two of them. Every safety invariant and every action
property of the runs that pass is a theorem, as it stands in its module, and so are the refinements of `Transcript` and of
`ChunkReaders`. The theorems are about every value of the constants that satisfies the assumptions of the modules:

- `ConversationAssumption`: the kinds of calls are disjoint and finite, limits positive, lengths natural, and a transcript
  that `reset` is given holds earlier turns, of no call of this conversation.
- `ChromePageAssumption`, `AppleShimAssumption`, `OdaiModelAssumption`, `LocalFactoryAssumption`: kinds of calls, owners
  and sessions are apart; at least one attempt. `PageStreamAssumption`, `ChromeBridgeAssumption`: bounds are numbers.
- `DeltasAreTexts`: a delta is a sequence. `LocalServiceAssumption`: at least one entry; one call of `languageModel()`, so
  one bridge.
- `ProfileAssumption`, `ShimBuildAssumption`, `TurnsAssumption`, `DebouncerAssumption`: the names for "nobody", "no
  build", "no verdict" and "no request" name nothing else. Every tree has a listing; which trees share one is open.
- `CacheAssumption`: manifest models and prompt configurations are among the files; where they are is open.

One theorem has a hypothesis besides: `PageSessionsDoNotLeak` is proved for `~ MicrotaskAborts`. With aborts in that one
microtask the property is false, as the run `page_receipt` shows; the other three theorems about the page need no such
hypothesis.

| Module | Inductive invariant | Gives |
| --- | --- | --- |
| `ConversationProofs` | `QueueInv` | `ReservationsBalance`, `OneJobPerGeneration`; also types and that an accepted turn has room |
| | `SessionInv` | `KeptSessionIsUsable`, `NoSessionLeaks` |
| | `CommitInv` | `ValueMeansCommitted` |
| | `HistoryInv` | `NativeHistoryIsCommitted`, `PromptsStayInGeneration` |
| | `CountersFit` | `TranscriptWithinLimits` |
| | `LineInv` | with `QueueInv` and `CountersFit`: `ImplementsTranscript` |
| | `WaitInv` | with `QueueInv`, `SessionInv` and `LineInv`: `JobsTakeTurns` |
| `ChromePageProofs` | `PageInv` | `HostSessionIsBacked`, `NoPageSessionLeaks`, `PromptsKeepTheirTime` |
| | `WorkInv` | with `PageInv`: `CallsGoOn` |
| `PageStreamProofs` | `StreamInv` | `ReadersFollowStream` |
| | `StrandInv` | with `StreamInv`: `NobodyIsStranded` |
| | `ViewInv` | with `StreamInv`: `ImplementsChunkReaders` |
| `AppleShimProofs` | `ShimInv` | `PendingIsAwaited`, `RepliesMatchPrompts`, `ChildrenAreOwned` |
| `OdaiConversationProofs` | `OdaiInv` = `TypeOK`, `BridgeInv`, `OwnerInv` | `ChromesAreKept` |
| `LibraryProofs` | `ServiceInv` | `LinesFollowManifest`, `ChromeFollowsCommand` |
| | `ModelInv` | `SessionsMatchOwners` |
| | `StreamsInv`, `ReplyInv` | `RequestsAreOwned`, `ReplyIsWhole` |
| | `DebounceInv`, `FactoryInv` | `HelpersKeepOne` |
| `SharedFilesProofs` | `ProfileInv`, `BuildInv` | `HalfModelNeedsFault`, `SeededGemmaStays`, `BinaryIsWhole` |
| | `CacheInv` = `ProbeInv`, `ExportInv` | `ProbeLeavesNoBrowser`, `VerifiedIsOneMoment` |
| | `TurnsInv` | `TurnsAreKept`, `PassFitsTree` |
| | `ScanInv` | `ScanLeavesOnlyTruth` |

Why the properties need those invariants:

**ConversationProofs.** `QueueInv`: types; only the head of a chain is in its job (`JobIsHead`); no call is ahead of the
generation; only turn calls generate; an accepted reply still fits (`ReplyFits`); reservations are exact; and committed
plus uncommitted turns fit. The last two carry each other: a commit moves a call from "uncommitted" to "turns", its
settling moves it out of "reserved", and both are counted with finite cardinalities, so neither step can be seen alone.
`SessionInv` adds who may hold, await or have abandoned a session.

`CommitInv` says of a job's result what `ValueMeansCommitted` says of the caller's outcome, which comes later and may be
overtaken by an abort: in this generation a turn is in the transcript exactly if its job returned a value. `HistoryInv`
follows the session that is kept through a turn: seeded with the transcript while it is made, then remembering the turn
on top of it, then the transcript again, which has grown by that turn or has lost the session. That needs a job to use
the kept session and no other (`HoldsKept`), and nothing of another generation to reach it (`HeldInGeneration`). What a
job of an ended generation holds was delivered to it (`HeldWasDelivered`) and is not kept, so by `SessionInv` it is
disposed of; that is the other half of `PromptsStayInGeneration`.

`TranscriptWithinLimits` is about the transcript and not about the counters which the code compares. `CountersFit` says
that they agree: `characters` is the sum over all turns, a fold, and a commit adds what the turn adds.

`WaitInv` is what `NoJobIsStuck` needs besides: a call stands in its queue until it has settled (`InItsQueue`), the session
that a job of this generation waits for was not taken away (`AskedFor`), and the one that it uses is the kept one
(`HoldsKept`), which is alive. Resets discard sessions under jobs that wait; those belong to a generation that is over.

**The refinement.** `Line` is a fold over the chain. `Chosen` of a chain that grows at its end grows by the call that was
chosen (`ChosenAppend`), and a chain that loses its head loses the head of its line or, if that was not in it, nothing of
it (`ChosenHead`); a call that is done is out of the line before it is out of the chain. `LineInv` says what makes this
one call: it is in the queue of its generation once, and in no other. Each action then maps to one step or to none:
`EnqueueConversation` to `Accept` (the guard of the code counts reservations, the one of `Transcript` the line, which is
never longer: `PendingIsQueued`), `CommitTurn` to `Commit` (the guard counts characters: `CountersFit`), a job that ends
otherwise to `Drop`, reset and destroy to `Restart` and `Close`, all else to a stutter; the jobs of an ended generation are
in no line.

**FoldLemmas.** The library's induction principles take a predicate, which the provers at hand cannot instantiate.
`SetInduction` takes a set of numbers instead, and is proved by counting: if a set with 0 that is closed under successor
had a gap, the part below it could be mapped one to one into itself without 0. From it come the laws of `FoldLeft` over
sequences of any length (`FoldType`, `FoldLast`), which the folds of the models are instances of.

**ChromePageProofs.** Host and page share nothing but messages, so each knows of the other what messages there still are.
`PageInv` says it call by call: one request or reply of a call is on its way, or one native call at work, at a time
(`Begins`, `Works`); an operation that is registered is known to the host, or its receipt is on its way; `SessionFits`
holds a session's two ends together: it is open on the host only when it is alive on the page, and its end is asked for
only when the call that made it is over. The proofs speak of which calls have a message of a kind (`AskRun`, `RanYes`),
and each action changes one or two of these sets.

`PageInv` says of each message that there is at most one. `NoCallIsLost` needs that there is at least one: `WorkInv` gives
a call under way its message or its native call at work, a prompt at work a way to be stopped, and a session that was
destroyed by its caller the request that ends it on the page, unless that has ended already.

**PageStreamProofs.** `ReadersFollowStream` says who got what, and a `push` hands a payload to whoever waits longest. So
`QueueFits` numbers the queue: what is buffered is for the calls to come, who waits are the last that called, never both.
`PageFits` says that one payload or its receipt is on its way while the page waits for it. `NothingIsLost` ties the two
counts together: until an end is delivered, readers and queue have what was produced, but for the one chunk that is on
its way. That is why "done" can only be told of a stream that came through (`DoneFits`).

`StrandInv` is what nobody's being stranded rests on: who waits is in the queue (`Wakes`); whatever closed the stream has
settled the host's operation, unless that was over (`ClosersFit`); an operation that begins has its request or a reply
under way (`BeginFits`); what is registered on the page is run, cancelled or about to be (`RegisteredFits`); and a run that
was asked for has one step of the pump ahead of it (`RunFits`).

The refinement takes `ViewInv`: nobody waits among the first `Base` readers, so that who waits are the last ones, and what
is buffered was produced. Each action changes the queue in one of a few ways, and each way is one step of `ChunkReaders`:
a `next()` waits, reads a chunk or reads the end; a `push` hands a chunk to the first who waits, or goes into the buffer,
which no reader sees; a close tells all who wait. All else is a step of the source or a stutter.

**Safety under liveness.** `HasDue` says in which states of `PageStream`, and for which call of `ChromePage`, a step that
the fairness speaks of is enabled, `JobIsDue` says it for the jobs of a conversation. `NobodyIsStranded`, `CallsGoOn` and
`JobsTakeTurns` say that whoever waits has such a step ahead, or waits for the native model or the provider as the code
means to, and that what was given up is gone when there is none. They are theorems. That a step ahead leads to the end in
the end is the other half of `StreamWorkEnds`, `PageWorkEnds` and `WaitsEnd`, which TLC checks; that `HasDue` and
`JobIsDue` are exactly what `ENABLED` says was compared by TLC on the instances of the runs.

**AppleShimProofs.** The replies have no names. `Balanced` says that a child's pending list and its timers are what calls
wait for on it, whatever took an entry out. `Ordered` says it by places: the unread lines answer the first entries, and
the child's unread requests are the rest. A timeout breaks it by taking an entry away whose reply may still come, for
that child and for good, so `RepliesMatchPrompts` excepts exactly those. `Owned` names who knows of a running child.

**OdaiConversationProofs.** That a running Chrome can be closed says nothing of the promises that lead to it. `BridgeInv`
does: bridges start in their order, the memo is for the newest, and the promise of a bridge that may still run is the
memo's, or a `close()` waits for it, or an older start that failed after its `close()` lost it. `OwnerInv`: until the
conversation that owns the backend has ended, nobody has closed it, so its bridge is the memo's.

**LibraryProofs.** A command's end is reached from a dozen places. `ServiceInv` ties each phase to what may exist
in it: Chrome is started in "starting" and stopped in "closing" only, clients wait in the phases of a server, the lines
are as many as the entries that are over. The two properties then follow without looking at an action.

`ModelInv` says that the live sessions are those of the owners that prompt, that the base session is made and used exactly
in the states of the model that say so, that the probe comes after it, and that attempts count from one. Without the
second part a signal could not be known to release the base session; without the last the sessions of two attempts
could be confused.

`ReplyInv` cuts what the server has sent into the deltas that were merged and those of the lines that wait, in `unparsed`
and then in `arriving`, with "[DONE]" after them or not yet. The text is the fold of the first part, so that it is the fold
of all when no lines wait. `StreamsInv` is what that needs of the lines, and the ownership of the request itself.

`DebounceInv`: whoever is not the newest request was signalled by the one that came next, and the timer that is set is
the newest one's. `FactoryInv`: a selection leaves the memo with a call that saw a selection fail, that very one or an
earlier one that another call had seen too; this is how two backends can be in use at once (`SelectionIsShared`).

**SharedFilesProofs.** `ProfileInv` follows the one process that is under way as long as none began beside another: what
it found, copied and read. For Gemma the order carries it: a ledger is in `Local State` only over whole weights.
`BuildInv` says that a process has one build at work, that its staging file is that build's, and that, until two
crossed, a compiler finds the source whole and what it made is of the whole.

`ExportInv` places the inventory's moment between the hashes, which are older, and the copies, which are newer. A copy with
the hashes of its inventory is squeezed between them, whoever wrote. A file whose name the inventory did not read was not
there when its directory was listed, so that it is `late` if it is there at that moment.

`TurnsInv`: the holder of the lock is in its turn and has the handle to release it; in the ordinary course nobody else is
in a turn; what is under a key, or about to be, is the verdict of a tree with that key or the key is in `mixed`.

`ScanInv` knows which files there can be on the way to the end, and that an answer marked "done" comes from a finished
scan, so that what is judged is some of what it found, and all of it unless the response was `short`.

Only model-checked: what must happen, which needs fairness and `ENABLED` and is out of the prover's reach (`WaitsEnd`,
`PageWorkEnds`, `StreamWorkEnds`, `CreationsAndOwnersEnd`, `LibraryWorkEnds`, `FilesWorkEnds`). Nothing is proved about
the four properties that runs show to be violated.

## 6. Not modelled

The map covers the parts of the repository that keep state between steps, and these are a small share of its lines.
Nearly a quarter of the lines are one generated bundle (`scripts/repo/bootstrap/fleet.mjs`); most others are sequences of
commands, configurations, types, fixtures, or functions from text to text.

- Request helpers: `generate-verify.mts` and `best-of-n.mts`, a loop and a vote over independent generations;
  `routing.mts`.
- Backend registry: `LocalService` models the outcome of a selection, not the order of the probes.
- Local service and command line: routes, wire formats, arguments, the text of manifests and of output.
- llama-server: the probe of the server.
- Apple shim: the host gate and the choice of the command.
- Chrome profile: versions, free disk space and the rest of `Local State` are a choice or left out.
- Gemma cache: containers, kernels, archives, uploads and diagnostics, which run one command after the other.
- Push gates other than the type check; commit hooks: independent checks of texts and files.
- Release scan: the optional threat leg, staging and promotion (`registry/npm/staged.mts`), the release record: commands
  over registries whose state is outside of this repository.
- Reply repair, task rules, prompt texts, KEV and lockstep schemas: data validation without state.
- `prepare.mts`, `fleet.mjs`, benchmarks, simulator, mocks, `.github/`: tooling without state of its own, or test doubles.

Behaviour that is known and accepted here without a property: the shim session keeps the handle of a child that exited and
refuses prompts until it is destroyed (`apple-fm-shim.mts:177`); a Chrome that goes away by itself stays memoized
(`chrome-builtin.mts:209`).

## 7. Plan

What could come next, the most useful first:

1. An abstract specification of the Apple shim, a channel of requests and replies while nothing times out, shown to be
   implemented. Its invariant is proved (`Ordered`).
2. `OdaiModel`: the shared session of a caller-built model, and the debouncer over its requests.
3. `ReleaseScan`: composed with the staging of `registry/npm/staged.mts`, and promotion after the receipt.
