# Verification of the course apps

The repository holds the apps of a mobile development course: a dozen small
iOS apps (Swift, UIKit) and two Android apps (Kotlin, Jetpack). Each is a
program of its own, with a data controller or repository that owns the data,
screens that hold copies of it, and something outside that answers late, fails
or ends: a plist file, the park service's HTTP API, Firestore, an audio session,
the operating system. This directory holds TLA+ models of the apps with logic
of their own, TLC runs and TLAPS proofs about them. `PROJECT.json` lists them.

One of the apps, miles, has next to no code of its own: what it does is done by
the Firestore client, whose C++ sources are in the repository
(`inclass/miles/Pods/FirebaseFirestore`). The parts of the client that miles
relies on, its writes, its listeners and the view that joins them, are modelled
too: they are the largest concurrent program here. Below, `...` stands for
`inclass/miles/Pods/FirebaseFirestore/Firestore/core/src/firebase/firestore`.

## Inventory

| app | sources | state | operations | what is hard |
|---|---|---|---|---|
| countries | `inclass/countries` | catalogue in memory, working copy of one list, `data.plist` | browse, add, swipe to delete, (move), save on resign active, load | crashes and failed or torn writes; two copies edited separately |
| countries_demo, lab2New | `inclass/countries_demo`, `labs/lab2New` | same | same, another `loadData` | the saved file is never read |
| campsites, lab4 | `inclass/campsites`, `labs/lab4` | picker, selected state, one list of results | search, parse, show | a request on a background queue, a block on the main queue, a modal alert; every way a request can fail |
| lab8 (search) | `labs/lab8` (`ui/search`, `data/AlertRepository.kt`) | LiveData of alerts, `searchLoading`, views | search, results, back, rotation, background | overlapping coroutines, sticky LiveData, view and process life cycles |
| lab8 (favorites, details) | `labs/lab8` (`ui/favorites`, `ui/details`, `data/FavoriteRepository.kt`) | Firestore listener, map of details | list, select, star, unstar | nothing: list and details select in two view-model scopes that never meet |
| lab6 | `labs/lab6` | the same search, favorites in Room | | its fragments do not compile (`selectedAlert` is nullable) |
| music, lab1 | `inclass/music`, `labs/lab1` | recorder, player, audio session, buttons; dependent pickers; openers | record, play, stop, finish | delegate callbacks against taps |
| miles | `inclass/miles/miles` | runs in Firestore, local copy | sign in, add, listen | snapshots from cache and server, writes on their way, malformed documents |
| Firestore client: writing | `.../remote/{remote_store,write_stream,stream}.cc`, `.../local/{local_store,leveldb_mutation_queue}.cc`, `.../core/sync_engine.cc`, `.../auth` | mutation queue and stream token of each user on disk, write pipeline, write stream, callbacks, credentials | write, wait for writes, sign in and out, network on and off, restart; answers, errors | answers without names; three queues and a network; ids reused after a restart; one user's writes and another's token |
| Firestore client: listening | `.../core/{event_manager,query_listener,sync_engine}.cc`, `.../remote/{remote_store,watch_change,online_state_tracker}.cc` | listeners, targets, watch stream, responses due, online state with its timer | listen, `get()`, stop, network on and off; responses, errors, time-out | answers to earlier requests; a server that never answers; somebody must be told something |
| Firestore client: local view | `.../local/{local_store,local_documents_view}.cc`, `.../core/{view,sync_engine}.cc`, `.../remote/{watch_change,remote_event}.cc` | remote document cache, target data, view, documents in limbo | snapshots, acknowledgements, refusals | the same write comes back twice, in any order |
| scrabbleQ | `inclass/scrabbleQ` | sections of words | filter | indexes into two lists |
| pictureCollection, lab3 | `inclass/pictureCollection`, `labs/lab3`, `projects/lab3` | none | show a picture | layout only |
| translator | `projects/lab4`, `projects/newProj1` | as lab4 | | unfinished: the segue it performs is not in the storyboard |

Nothing is shared between the apps, so there is no module that composes two of
them. Within an app the parts interact by calls on the main thread
(`prepare(for:)`, unwind segues, delegates), by closures and observers
(`onDataUpdate`, LiveData), by blocks handed from one queue to another and by
the file, which outlives the process. `swift5.playground`, the generated
`AppDelegate`/`SceneDelegate` files and the asset catalogues have no logic.

miles calls the Firestore client from the main thread; the client does all its
work in tasks of one worker queue and answers on the main queue. A change of
user and a token come from FIRAuth's own queue by way of the main queue. Two
streams, one for writes and one for listening, run over connections whose
events are tasks of the worker queue again. Both streams are started, stopped
and failed by the same `RemoteStore`, and meet in the view, which puts the
pending writes over what was listened to. The other pods (gRPC, BoringSSL,
leveldb, Abseil, nanopb, the rest of Firebase) are libraries of general use
below that.

What makes each correct:

* countries: what a screen shows is what the data controller holds; no index is
  out of range; a start shows exactly what the last complete save kept, or, when
  it cannot be read, nothing.
* campsites, lab4: one search at a time; results that belong to the search that
  opened them, under its title; a search ends.
* lab8 search: a visible results screen shows the newest answer that has been
  delivered, the list or the loading bar but not both, and loading ends.
* writing: the server applies each user's writes in order, for that user, and
  the app is told of each write at most once and truly; no write is lost in a
  crash, and the queue drains.
* listening: a listener hears from the server, or from the cache when the
  server is given up, and always from one of them; an answer to an earlier
  request is not taken for the present one.
* miles, local view: a saved run stays in the table until it is deleted or
  refused; what a snapshot says of pending writes and cache is true; in the end
  the table is what the server has.
* audio: never recording what it plays; what runs can be stopped; the buttons
  that are enabled are those that do something.

## Modules

| module | what it models |
|---|---|
| `DurableCatalog` | the abstract promise of the catalogue apps: open, edit one list, keep, close; only where storage is not reliable may a save lose everything, or an opening show nothing |
| `CountriesApp` | countries with its screens, life cycle and file; `Variant` selects the `loadData` of countries_demo or lab2New, `EditButton` compiles in the commented-out line `DetailViewController.swift:27` that makes moves possible |
| `CampsiteSearch` | campsites, and lab4 line by line |
| `AlertSearch` | lab8's search and results |
| `AudioRecorder` | the recorder screen of music and lab1 |
| `WriteLedger` | the abstract promise of the client about writes: in order, by their user, told of once and not too soon |
| `WritePipeline` | the Firestore client's way of writing, from the mutation queue to the server and back |
| `WatchListen` | the Firestore client's way of listening: targets, watch stream, online state |
| `RunTable` | the abstract promise of the client about what is read: one's own writes at once, and of every run later and later states |
| `RunLog` | the runs of miles: saved, committed, watched, shown; the local view of the client |
| `MC...` | the constants of the TLC runs |
| `..._proofs` | theorems and proofs about the module they are named after |

### CountriesApp

Everything runs on the main thread, so an action is one handler with all it
calls. `Launch` is `viewDidLoad` with `loadData`; `SelectContinent` is
`prepare(for:)` with the detail screen's `viewWillAppear`; `SaveCountry`,
`DeleteRow` and `MoveRow` change the working copy (`countryList`) and the data
controller (`allData`) with the two different array operations the handlers
use; `moved` remembers that a row of the copy was moved, after which the two
may be in different orders. An error leaves `allData` empty, as `init` made it,
because `viewDidLoad` only prints it: the file does not decode, or, under
`StorageFails`, reading a file that is whole throws (`readable`). `unread`
remembers, as a history variable, that the start of this process failed so.

The save is the one thing that is not atomic: `Data.write(to:)` without
`.atomic` truncates the file and then fills it. `ResignActive` is the
truncation, `FinishWrite` the end, and with `StorageFails` the process may end or
the write may throw between them (`Kill`, `FailWrite`), or before
(`FailOpen`). `writeData` is a throwing method behind a notification selector;
what a thrown error does to the process is undefined there (the error argument
is not passed), so both outcomes are allowed. A file is absent, torn, or the
plist of a catalogue.

The refinement: the abstract catalogue is open while the process runs, shows
`allData`, and keeps what `LoadCountries` would load now, or, while a write is
on its way, what that write will leave (`Kept`). A write that completes is then a
stutter, one that does not is `Lose`; a start that cannot read is `OpenFails`,
which shows nothing and leaves what is kept, and the next save is then a `Keep`
of nothing. The two parts of `LossIsRight` are about that: the catalogue goes only
by a save that was cut short, or by the first one after a start that could not
read (`LossOnlyByFailure`); and since the bundled plist is read only when there
is no file, a torn file makes the app empty, and the next save writes that down
(`LossIsForever`).

### CampsiteSearch

Three threads of control: the user on the main thread, the completion handler on
a queue of the URL session, and the blocks of the main queue. `searchCampsites`
starts the request and presents the alert; `Complete` is the completion handler
with its five outcomes; `parseJson` is the dispatched block with `onDataUpdate`,
`searchDone`, the segue and `prepare(for:)`, which UIKit runs in one go.
`WheelSpins` lets a flicked picker report its row (`didSelectRow`) after the
button was hit. `mishaps` is a history variable, what has gone wrong with the
latest search (an answer that did not decode, a status other than 200, a
selection that changed under the alert); no action's guard looks at it. An outcome without response or without data ends the process
(a forced cast and a forced unwrap). Presenting and dismissing the alert take no
time in the model: what UIKit does when one comes during the other's animation
is not in the repository.

### AlertSearch

`searchAlerts` sets `searchUserInput`, whose permanent observer launches a job on
the IO dispatcher, sets `searchLoading`, and navigates; the fragment transaction
is an action of its own (`openResults`), and a second tap before it crashes.
`Answered`, `Unanswered` and `Throws` are the ways a job ends. `pending` and
`setValue` are LiveData's `postValue`: a later post replaces one that still
waits. LiveData's other rules are in `onStart` (an observer that becomes active
is given a value it has not seen, so a new view is given the old one) and in
`setValue` (an inactive observer is not run). `toggleLoading` is the method with
its three branches. `ui` holds `searchLoading`, which lives in the view model,
and the view: what its adapter shows and whether list and bar are visible.
`Reclaim` ends the process of an app in the background and keeps the screen, as
saved instance state does, but not the view model. The jobs of a view model that
was cleared post to LiveData nobody observes; all they can do is throw, which
`Kill` covers.
`mishaps` remembers whether the latest search was made while another was on its
way, and whether its own job ended without an answer.

### AudioRecorder

The screen `FifthViewController.swift`, the same in both apps. `recordAudio`,
`playAudio` and `stopAudio` are the handlers of the buttons, guarded by `Tap`: a
disabled button sends nothing. `record` is what `AVAudioRecorder.record()` does:
it goes on with a recording that was paused, begins a new one otherwise, and
does nothing in a category that does not record; the handler does not look at
its result. Each call in a `do`/`catch` may fail under `Failures`, which leaves
out the rest of its block and nothing else; `failed` remembers whether the last
`setCategory` did. `PlaybackEnds` happens without the main thread, and the
delegate's call is due until `audioPlayerDidFinishPlaying`; taps may be handled
in between, and something else be begun and even end, so that several calls
may be due (`finished`; `MaxLate` bounds how many a tap may find). The handler
takes the call to be about what is going on, and `late` remembers that it was
not. `Interrupt` is a phone call: recorder and player are
paused, and no code of the app hears of it. Recorder, player and session are
external; what the model says of them is what the handlers rely on. The end of
the process (`Kill`) drops all but the file.

### WritePipeline

An action is one task of the worker queue with all it calls. Around the worker
queue are FIRAuth's own queue (`asked`: `TakeUp` notes who is signed in when the
request is taken up, `TokenArrives` and `TokenFails` answer it), the main queue (`mainQueue`), the tasks it
has handed on (`inbox`), the connection (`up`, `down`, `closing`) and the server.
`closes` is the stream's `close_count_`: an answer to an earlier start of the
stream is ignored (`IgnoreCredentials`). `counter` is `token_counter`, by which
a token for a user who has gone is turned into an error.

Each user has a queue of batches on disk; batch ids (`nextId`) are found anew
after a restart and a change of user, as `LoadNextBatchIdFromDb` finds them.
`Fill` is `FillWritePipeline`: the pipeline is topped up from the disk to
`kMaxPendingWrites`. On an open stream with a handshake what is added is sent at
once. The server answers in order and without names: `MutationResult` takes an
answer to be for the first batch. When it ends a stream it drops the requests
that are left; a permanent error is the answer to the request it has read. The client hears of the end
when the responses before it are read, or when a send fails in the meantime,
and then the rest is lost (`behind`, `StreamFinishes`). `OnStreamFinish`
puts a permanent error down to the first batch, or to the stream token before
the handshake. `Settle` is what the app hears: `callbacks` are the closures of
`addDocument`, `waiters` those of `waitForPendingWrites`.

The refinement: `WriteLedger` has the same `issued`, `committed`, `refused` and
`told`, and none of the queues. The server's actions are `Commit` and `Refuse`
(a write may be committed again after its answer was lost), `Settle` is `Tell`,
all else stutters. It says that no order of crashes, retries and changes of
user makes the server see a user's writes out of order, or the app hear of a
write twice or before its time.

### WatchListen

Of the documents only whether a query has any is kept, because that is what
decides what a listener is told. `waits` is a `get()`, which does not take the
cache's word while the client may be online. `Announce` is the effect of any
change on the listeners: `OnOnlineStateChanged` and `OnViewSnapshot`, with
`ShouldRaiseInitialEvent`. `tracker` is the `OnlineStateTracker`: a stream that
starts sets its ten-second timer, a failure or the timer makes it Offline, a
response Online.

A target is watched by an `add` request and dropped by a `remove`; `pending` is
`outstanding_responses_`, and what comes for a target counts only when none is
due (`Active`). `watches` numbers the requests as a history variable, so that a
property can say which request something was sent for.

Each response is a task of its own. `TargetResponse` is the server's Added or
Removed, `Change` its documents, CURRENT and resume tokens, `Reset` its RESET or
an existence filter that does not match, and all they do is note something in
the aggregator: `states` (`current_`, `has_pending_changes_`), `news` (what the
cache will hold) and `resets` (targets to be removed and added again).
`Snapshot` is the global snapshot, which takes up what was noted; it is taken
apart into what it is for each target, since it treats every target alike and
nothing here relates the documents of two queries. `current_` is kept as the
number of the request whose CURRENT set it. It survives the Added of a target
that was dropped and taken up again before the server had answered
(`ClearPendingChanges`), and `kept`, another history variable, remembers that.
The queries are of collections, the app has no others; the special
cases for queries of one document are left out. `Refused` is a target error; it
removes the count rather than lowering it, and `miscount` remembers when the
count is wrong for that reason.

### RunLog

The server is its writes in order (`log`); `At(k, v)` is what it has of a run at
a version. The client's disk has the mutation queue, the cache, the keys of the
target and its resume token, written with a snapshot or left for later; `Restart`
loses the rest. `Local` lays the pending mutation over the cached document, `Applied`
is `View::ComputeDocumentChanges` with its waiting for the watch stream, `ViewOf`
the view with its limbo. `HandleWriteResult` is the acknowledgement, which keeps
a document "with committed mutations" until the watch stream has the same version. A
snapshot names what has changed since the last one: a document that has come and
gone in between is not in it; a token that is too old is answered by a reset. A
snapshot may be late: the server may send any version between. Another
device may add, change or delete runs. A refusal ends the write stream, and the
answers before it may then be lost unread (`AnswersCutShort`, which is
`StreamFinishes` of `WritePipeline` as seen from here): the refusal is taken to
be about the first write of the queue. `addDocument` takes a fresh id. The table
shows `docs`; its listener is never removed, as `RunDataController` never does.
How requests travel is in the two modules above: a commit, a lost answer, a lost
stream are steps here.

The refinement: `RunTable` has the same `log` and `refused`, and of the client a
table that may be open, the runs that are `waiting` for the outcome of their
write, and the version that is `seen` of each run. In `RunLog` these are
the texts of `docs`, the runs in the queue, and the versions in the cache.
`Hear` is a snapshot, `Settle` the answer to a write, `StartOrEnd` is `Open` and
`Restart`; the streams, tokens, targets and limbo stutter. Every step must leave
a table that shows each waiting run as it was saved and each other one as the server had
it at the version seen (`Shows`), and no step takes a version back (`Later`). A
write settles only when it was refused or is part of what is seen, so the
app does not see a state from before its own write. A bad resume token, a
cache that is overwritten, a view that holds back too much would break that.

## Runs

| run | result | what it shows |
|---|---|---|
| `countries` | 459582 states | with the edit button and unreliable storage: screens against data controller until a row is moved, indexes in range even then, loss only by a torn write or after a start that could not read, loss for good, refinement of `DurableCatalog` |
| `countries_demo` | violation | saved edits are not loaded (`countries_demo`, lab2New) |
| `campsites` | 3853 states | every outcome, spinning picker: one fetch; fresh results and a right title except after the two mishaps that spoil them; never an older list; every search ends except after an error status |
| `alerts` | 707 states | every outcome, overlapping searches, rotation, background, reclaimed process: the screen mirrors `alertData`; list or bar, never a bar over an answer, and a bar for a search that has none yet; in the end the last search, unless it overlapped another; the bar ends if the last search is answered |
| `alerts_again` | violation | a second search shows the first one's list and no bar |
| `recorder` | 641 states | with interruptions, failing calls and delegate calls that taps overtake: except for what such a call finds going on, never both devices on the one file; what runs can be stopped; with a recorder, an enabled Record records and an enabled Play plays the whole recording, except after a refused category or in an interrupted recording; Record comes back |
| `recorder_interrupted` | violation | Stop after an interruption leaves the recording open |
| `write_pipeline` | 295278 states | two users, four writes, two disturbances: the pipeline is the oldest part of the right queue and matches what is on the wire; the stream is never forgotten; no write under another's name; none lost, none undone; callbacks and waiters hear of their own; refinement of `WriteLedger`; the queue drains |
| `write_blame` | violation | a committed write is reported as failed because a later one was refused |
| `watch` | 330018 states | one query, three listeners, two disturbances: the client's assertions, no stalled stream, the cache answers only offline, a view is synced by a snapshot for its own request and by that request's CURRENT, unless an earlier one was kept; every listener is answered |
| `run_log` | 189629 states | two runs, two disturbances: a saved run does not flicker and is in the table again after a restart, the metadata is true, own writes are read and nothing goes back (refinement of `RunTable`), the table is the server's once all is said, and all is said in the end |
| `run_log_pending` | violation | a run committed and deleted elsewhere before it was watched stays pending |

Bounds, and why they are enough. Two continents (the one edited and the one that
must not change), two names (so that order shows). The edited list grows to
three countries, the shortest in which a move puts the copy and the controller
in different orders; the other list to one. Three states and three searches for
campsites: a search, a failing one and one after it. Three overlapping searches
for `alerts`: one answered, two in flight in either order. The recordings are
only counted, and nothing new happens after the second one; `recorder` allows
six, and taps that find two delegate calls due (`MaxLate`), one of them of an
earlier playing than the other. The caps of these are `MaxCountries`, `MaxSearches`, `MaxTakes` and `MaxLate`, and
they check deadlock. No symmetry is declared: the bundled plist
and the first state single values out.

The runs of the client are bounded by `MaxWrites`, `MaxListens`, `MaxSaves` and by
`MaxEvents`, the number of disturbances (crash, lost connection, refusal, sign-in,
network switch, another device's write): two, so that each can meet each. Behaviours end at those
bounds, so these configurations do not check deadlock; that the client does not
stop too early is what `Drains`, `ListenersAreAnswered` and `Converges` say. A
pipeline of three (the code's is ten) and four writes make it full with one
left over; two users make ids and tokens meet. In `watch` three listeners make a
query that is listened to twice, or dropped and taken up again twice. It has one
query, since what is on its way for two targets multiplies: with two queries, two
listeners and one disturbance the same properties hold in 755974 states, but four
minutes are too long for a run. Its safety properties are proved for any
number of queries.

Fairness is assumed for what runs without the user: a data task or an HTTP call
ends, at the latest with its time-out; a recording that plays has an end; the
main queue or looper runs what is posted to it. The user, the system's
life-cycle events and the end of the process are never assumed. `SearchEnds`,
`LoadingEnds` and `RecordComesBack` name the state in which the code does not
get on: after an error status, a last search without an answer, a paused player
or a refused category.

In the client, fairness says that the queues run what they have and that timers
elapse. In `write_pipeline` and `run_log` a server that is reachable also
answers, as it must for a queue to drain; in `watch` that is a premise of half
of `ListenersAreAnswered` (`AnsweredByServer`), while the other half
(`AnsweredInTime`) holds with a server that never says a word. `Drains` is
asked only when the network stays on.

## Findings

Each of these is the counterexample of a run.

1. `countries_demo`: countries_demo and lab2New choose between user file and
   bundle and then open the bundle (`Continents.swift:72`, `States.swift:83`).
2. `alerts_again`: lab8 shows the previous list without the bar on every search
   but the first (`SearchResultsFragment.kt:76` against `:83`).
3. `recorder_interrupted`: the recorder of music and lab1 does not stop a
   recording that the system interrupted (`FifthViewController.swift:104`).
4. `write_blame`: the Firestore client puts a refusal down to the first write of
   the pipeline when the answers before it were not read in time
   (`.../remote/grpc_stream.cc:313`, against `.../remote/remote_store.cc:494`).
5. `run_log_pending`: a run that was acknowledged, and deleted elsewhere before the
   watch stream brought it, stays in the view with pending writes
   (`.../core/view.cc:342`, against the comment of `FIRSnapshotMetadata.h:30`).

Others were met while modelling. No run is about them; the properties leave them
out by name. The first two are against a comment, of the others no document or
comment promises otherwise.

* lab8 shows the bar without a search on a results screen that Android restored
  after it had reclaimed the process, and nothing ends it
  (`SharedSearchViewModel.kt:23`), against the comment of finding 2
  (`SearchResultsFragment.kt:91`): `searches # 0` in `AnswerOrBar`.
* A query of the client that is dropped and taken up again before the server has
  answered the drop keeps `current_` (`.../remote/remote_event.cc:88`), against the
  comment at `:158`; if a change and a global snapshot then come before the
  CURRENT of the new request, its view is synced by the earlier one: `kept` in
  `SyncedByItsOwn`. Without that exception TLC shows it in 17 states.
* campsites shows the previous campsites when an answer does not decode
  (`CampsiteDataController.swift:70`), stays under its modal alert after a status
  other than 200 (`CampsiteDataController.swift:37`), and titles the results with a
  selection that changed during the fetch (`ViewController.swift:68`, `:87`):
  `mishaps` in `ResultsAreFresh`, `TitleMatchesResults` and `SearchEnds`.
* The recorder of music and lab1 takes a delegate call to be about what is going
  on. When Stop and then Record or Play are tapped after a playback has ended
  and before the call is handled, it disables Stop and enables Record
  (`FifthViewController.swift:120`): what was begun cannot be stopped, and a
  playback can be recorded over. `late` in `NeverBoth` and `RunningCanBeStopped`.
* When the recorder of music and lab1 could not be made (`FifthViewController.swift:59`),
  Record and Play are enabled all the same; Record prints "No recorder!" (`:76`)
  and Play does nothing: `recorder # "none"` in `ReadyToRecord`.
* countries starts empty when the file cannot be read (`Continents.swift:57`), and the
  next resign active writes the empty catalogue over a good one: `unread` in
  `LossOnlyByFailure`, `OpenFails` in `DurableCatalog`.
* The client clears the timer of the online state when the last listener leaves
  while the stream starts, and when an enabled network is enabled
  (`.../remote/online_state_tracker.cc:46`, `.../remote/remote_store.cc:161`); a
  listener then waits as long as the server is silent: `Untimed` in
  `AnsweredInTime`.
* The client forgets the count of a refused target with other responses still
  due (`.../remote/remote_store.cc:335`); the target may then stay
  without snapshots: `miscount` in `SyncedByItsOwn` and `AnsweredByServer`.
* A document that was acknowledged and then deleted elsewhere: `Waits` in
  `QuietIsRight` and `Converges`; this is finding 5.
* A write whose acknowledgement is lost to a later refusal leaves the queue as
  refused: the table drops a run the server has, until a snapshot brings it.
  This is finding 4; `refused` in `NoFlicker`, `SavedIsShown` and `RunTable`
  covers the runs that are taken to be refused.

## Theorems

For every value of the constants that satisfies the module's assumption
(`CountriesAssumption`, `CampsiteAssumption`, `AlertAssumption`,
`AudioAssumption`, `WatchAssumption`, `PipelineAssumption`, `RunLogAssumption`:
sets and numbers of the right kind), with no bound on names, continents, states, searches,
recordings, listeners, queries, users, writes, runs or the size of the pipeline. Each
module has one inductive invariant, `IndInv`, which TLC checked
first and from which the rest follows.

* `CountriesApp_proofs`: `TypeCorrect`, `MirrorCorrect`, `IndexSafety`,
  `CountriesImplementsDurableCatalog`, `LossOnlyByFailureHolds`,
  `LossIsForeverHolds`, `LossCorrect`. The invariant adds to the properties that a screen
  other than the list is open only on a whole catalogue, that a write in
  progress has a torn file under it, and that an empty catalogue in a running
  process means the file is torn or holds an empty one, or that the start could
  not read it (`unread`). Without the last part
  neither the refinement (an empty list must not be edited) nor
  `LossIsForever` is inductive. Insertions, removals and swaps come with lemmas
  on types and lengths. After a move only the lengths of the two copies agree,
  which is what `IndexSafety` proves.
* `CampsiteSearch_proofs`: `TypeCorrect`, `AtMostOneFetchHolds`, `Freshness`,
  `TitleCorrect`, `NeverOlderHolds`. The invariant says where the one search is
  (in flight, or in the main queue, under the alert), that it is the last one,
  and that it is for the selected state unless that changed under the alert.
* `AlertSearch_proofs`: `TypeCorrect`, `MirrorCorrect`, `BarCorrect`,
  `LastIsShown`. The invariant follows the view into the background: there the adapter may lag
  behind `alertData`, but bar and list still say what `searchLoading` says, which
  is what `onStart` and `onResume` need to set things right. The lemmas
  `ToggleOff`, `ToggleOn`, `ObserverFacts`, `ResumeFacts`, `StartFacts` and
  `OpenedFacts` are the contracts of the fragment's methods. `LastArrives` says
  where a search that was made in quiet is: in its job, in `pending`, in
  `alertData`, and nowhere else.
* `AudioRecorder_proofs`: `TypeCorrect`, `NeverBothHolds`, `CanBeStopped`,
  `RecordIsReady`, `PlayIsReady`, `ButtonsCorrect`. The invariant ties each device to the session:
  what records does so in a category that records, what plays in that of
  playing and with Record disabled, unless a delegate call came late; and a
  recording is complete, or the recorder is still at it. Nothing is assumed of
  when delegate calls are handled: `late` says which of them spoil what, and
  that Record is ready (`RecordIsReady`) holds whenever they come.
* `WritePipeline_proofs`: `TypeCorrect`, `PipelineCorrect`, `StreamCorrect`. The
  invariant has the queues on disk (`Stored`: ids and writes grow, each of its
  user), the pipeline as their front (`Piped`), what is on its way (`Started`,
  `Connected`, `Sent`) and the requests for a token. The last, `AuthInv`, is what
  takes a proof: a stream that starts is answered once, by a request, a block of
  the main queue or a task of the worker queue; the answer is discarded if the
  counter has moved on, and the change of the user is then due before it. So an
  answer that arrives "aborted", or with the token of another user, never finds
  its own start of the stream. The lemmas `AuthAsk`, `AuthTake`, `AuthAnswer`,
  `AuthRun`, `AuthPop` and `AuthHead` move a request along these three queues;
  `SeekFacts`, `FillFacts` and `NextIdFacts` are the contracts of the helpers
  that the module defines with CHOOSE.
* `WriteLedger_proofs`: `IdentityCorrect`, `WritesCorrect`, `CallbacksCorrect`,
  `PipelineImplementsLedger`. A second invariant, `LedgerInv`, says what has
  become of each write: queued, or dealt with by the server (`NothingDropped`);
  the responses on their way are true of the front of the queue, and so is an end
  of the stream that refuses a write (`Done`); what the app has been told of is
  no longer queued, and what is still queued is newer than any success (`Told`).
  `NextIsDue` is why the server never applies a write before an older one of the
  same user is settled. The blame that `FailureIsTrue` finds misplaced still
  falls on a write the server has dealt with: that is what the ledger's
  `Tell` asks for, and all that can be promised.
* `WatchListen_proofs`: `TypeCorrect`, `StreamCorrect`, `CacheCorrect`,
  `SyncCorrect`. The
  invariant is the properties themselves: that offline everybody has been
  answered is what an `Offline` tracker needs to be announced once only, and
  that every handler starts the stream it needs follows from the contracts of
  `Announced`, `WatchStarts` and `WatchStarted`, which come first as lemmas.
  `SyncCorrect` needs the wire as well (`WireInv`): while no refusal has been
  miscounted, the number
  of pending responses of a query is the number of those due, on their way up
  or down, which `Counted` states with a cardinality; and the last of these is
  of the latest request, so that what comes when none is pending is sent for
  that one. What is noted as current is so for that request too (`Marked`), or for
  one whose removal is still to be answered (`Dropped`), after which it is
  forgotten; the one way around is a request sent before that answer, which
  `kept` marks. The lemmas say how appending, sending, answering and handling a
  message change the set of responses due.
* `RunLog_proofs`: `TypeCorrect`, `MetadataCorrect`, `NoFlickerHolds`,
  `SavedStaysShown`, `QuietCorrect`, `RunLogImplementsRunTable`. The invariant
  relates all the client has to the server's log: what the cache has of a run is
  what the log had at that version (`CacheTrue`); an answer is for the write as
  far in the queue (`AcksTrue`); each snapshot on its way goes on from the one
  before (`Chain`); the target's keys are the runs there were at the version of
  the resume token, of the one in memory and of the older one that may be on
  disk, and the cache has them as new (`Versions`); a document of the view is as
  good as the one the disk would give, though it need not be the same
  (`ViewTrue`). The second token in `Versions` is what a restart needs. The
  lemmas `AtFacts` to `AtAlive` are about a log and what it has at a version
  (the last of its writes, found with a well-founded order on the naturals),
  `LogGrows` lets the rest stand when the log goes on, `AppliedFits` and
  `ViewFacts` are the contract of `ComputeDocumentChanges`, `SnapshotCache` and
  `SnapshotKeys` that of a snapshot. `NoFlicker`, which no run lists because
  it follows from `RunTable`, comes down to the cache:
  its versions grow, so a run it once had and has no longer was deleted.
  `SavedStaysShown` adds `Kept`: a run saved here is refused, in the queue, or
  its write is at or before the version in the cache; so a run that is not shown is one
  the cache knows to be deleted. `Owned` adds that a run is in the queue
  once, and that what is local or committed in the view has the text saved
  here. From it `RunLogImplementsRunTable` goes action by action: `TableShows`
  is the table in terms of cache and log, `SeesLater` the growth of the cache,
  `SaveIsSave`, `ResultSettles` and `SnapshotIsHeard` the steps that do not
  stutter. `QuietCorrect` is the safety half of `Converges`: `CacheIsNow` says
  that a stream with nothing on its way has left the cache as the server has
  it now, `PendingWaits` that what is still marked as pending is just what the view
  waits for.

Only model-checked: liveness (`SearchEnds`, `LoadingEnds`, `RecordComesBack`,
`Drains`, `ListenersAreAnswered`, `Converges`) and the violations. Every safety
property of a passing run is a theorem.

## Plan

Done: all modules above, and the proofs of their safety properties and
refinements. What is left is what would say the same in another way: an abstract
"latest answer" specification that `CampsiteSearch` and `AlertSearch` implement,
and one of what a listener is told that `WatchListen` implements.

## Not modelled

* Layout, rendering of rows, colours and text; the contents of answers and the
  fields of a campsite, alert or run. The documents of `RunLog` are well formed: a
  missing field ends the process of miles and of lab8's favorites at once.
* lab8's favorites and details: the list selects in a view model the details do
  not observe, so they do not come, and the star then throws. No order of events
  decides anything there. Its Room leftovers, and lab6's Room repository, are
  not reached.
* The translator, which cannot get past its first answer; scrabbleQ, the
  pickers and the picture grids, which have no state beyond what the toolkit
  keeps; generated delegates, assets.
* Of the Firestore client: transactions, shutdown and termination, memory persistence, garbage
  collection, patches, transforms and deletes, filters, orders and limits,
  batches of several documents, responses that do not parse, an
  unauthenticated token, the lengths of back-offs.
* The other pods. They are the greater part of the 580,000 lines of C and C++ in the repository
  (gRPC and BoringSSL alone have most of it), libraries below the
  interfaces the models have as their environment; a model of them would not
  be one of these apps.

UIKit's, Android's and the Firestore server's own behaviour enters only as the
repository's code relies on it: the external entries of the map.
