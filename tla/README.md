# Media Manager: models, checks and proofs

Media Manager is a CommonAPI server for in-car media. It publishes three
services, Player, Browser and Indexer, and implements each by calling another
process on the session D-Bus: a dLeyna renderer (playback), a dLeyna server
(content directory) and lightmediascanner (indexing). The program itself is
small. What is hard about it is that it keeps a little state of its own (a play
queue, a position, published attributes, pointers to stubs and connections)
which has to agree with processes that move on their own and report late.

All source paths below are relative to `src/src/`.

## 1. Inventory

| Component | Code | State it keeps | Operations |
|---|---|---|---|
| player provider | `playerprovider.cpp` | play queue, `playQueuePosition` (uint64, initially UINT64_MAX), repeat, shuffle, rate, the signal subscription, the proxies `mp`, `mc`, `mo`, a raw pointer to its stub | openURI, openPlaylist, play, pause, playPause, next, previous, stop, seek, setPosition, getPosition, getDuration, setRate, setRepeat, setShuffle, enqueueUri, dequeueIndex, dequeueAll, getCurrentPlayQueue; the handler of PropertiesChanged |
| player stub | `playerstub.cpp` | the published attributes | the client's methods, forwarded; remote changes of Rate, Repeat, Shuffle; initializeDefaultValues |
| service provider | `serviceprovider.cpp` | `connection`, the callback | connect, onNameAppeared, onNameVanished, isConnected, checkError |
| service registration | `main.cpp` | the published stubs (in the CommonAPI publisher) | registerService for each report of a name watcher; main |
| indexer provider, stub | `lms.cpp`, `indexerstub.cpp` | `connection`, a global callback | startIndexing, stopIndexing, getDatabasePath, connect, the status attribute |
| browser provider, stub | `browserprovider.cpp`, `browserstub.cpp` | none of their own; the container is the server's | listContainers/Children/Items(Ex), searchObjects(Ex), createReference, createContainer, discoverMediaManagers |
| conversions | `common.cpp` 22-214 | none | resultMapListToCAPIResultMapList, postProcessJSON, DLNADictToJSON, stdStrvToStrv |
| discovery | `common.cpp` 216-361 | none | discoverDLNABackends, pathIsMediaManager |
| sample client, interface XML, udev rules, tests, vendored gmock | | none | |

How they interact:

* Clients call a stub (CommonAPI); the stub allocates an `MmError`, calls its
  provider synchronously, and turns the error into the reply.
* A provider makes a *synchronous* D-Bus call. Every call on the renderer first
  runs `connectMediaPlayer`: discover the renderers, take the first, make a
  proxy, subscribe to PropertiesChanged (once).
* The renderer's PropertiesChanged signals wait in the GLib main loop, which
  calls `handlePropertyChangedSignal`; a "Stopped" there calls `next(NULL)`.
  The attributes go to the clients through the raw pointer `stub`.
* The name watcher of each provider reports appearance and disappearance of the
  backend through the same main loop; each report runs `registerService`.

What is hard about it, and the properties that make each part correct:

* **Player.** Signals are late: a "Stopped" that was sent before a client's
  call is handled after it. Calls fail half way: the position and CanGoNext move
  before the renderer is asked. The position is an unsigned 64-bit number added
  to an int and truncated. Attributes are refreshed by some operations and not
  by others (dequeueAll, enqueueUri, an empty playlist). The subscription names no
  object (playerprovider.cpp 260-261), so that the signals of every renderer on
  the bus are taken for those of the own one. Correct means: the position is in
  the queue or unset; the attributes agree with queue and position; what plays
  is what is selected; the end of a track is always answered; a paused renderer
  is shown as paused, unless another one announced that it plays; the queue
  behaves as an ordinary cursor would.
* **Registration.** The backend may come and go any number of times before the
  loop runs. Correct means: a backend that shows up is served, however many
  reports pile up; what is published has its connection; provider and publisher
  mean the same stub.
* **Indexer.** The connection is used without a check. Correct means: it is
  never used before it was set (what is published has one), and errors reach
  the client.
* **Overlapping handlers.** CommonAPI dispatches client calls on its own thread,
  the GLib main loop dispatches signals, and nothing in PlayerProvider is
  locked: the position, the queue, the proxy `mp` and the subscription are read
  and written by both. Correct means: the position stays one of the queue, what
  an overlap leaves wrong is put right by what follows, and freed memory is not
  reached without an overlap.
* **Discovery.** The renderers are listed and then asked one by one, each by a
  blocking call, on every call the player makes; devices leave and come in
  between, and foreign renderers are listened to. Correct means: a renderer of
  our own that was there all along is found, no other is driven, and what ours
  plays is what is selected.
* **Track position.** setPosition reads the position, connects anew and seeks by
  the difference, in unsigned arithmetic; the track moves on meanwhile. Correct
  means: it lands where it was asked to, but for the time that passed.
* **Browser and conversions.** Clients page by offset through a container that
  others change; errors are passed as NULL by the stub and so are swallowed;
  answers go from GVariant to JSON to a ResultMap. Correct means: pages of an
  unchanged container fit together, of each type of value that arrives which can
  arrive, and the URI clients are shown differs from the one that would be opened
  in the cases that follow from the two searches and in no other.

The full list of hazards, each at its line, is in `PROJECT.json`.

## 2. Modules

```
PlayQueue ─────────────────── PlayQueueProofs
 │                                 │
 ├── Player ────────────────── PlayerProofs ── PlayerShownProofs
 │    │  INSTANCE PlayCursor
 │    ├── PlayerStub ─────────────────────── PlayerShownProofs
 │    └── Unattended ─────────────────────── PlayerShownProofs
 ├── PlayerThreads ─────────── PlayerThreadsProofs
 └── Renderers ─────────────── RenderersProofs
      └── Discovery

TrackPosition ──────────────── TrackPositionProofs
Registration ── Indexer ────── RegistrationProofs
Resources ── Conversions ── Library ── LibraryProofs
```

A line to the right leads to the proofs about a module; the other lines lead to
modules that extend or use it. Where two modules have the same handler they
model it from two sides: Player is the handlers as single steps with every
attribute and fault, PlayerThreads cuts them where another thread can come in
and drops what threads do not share, Renderers keeps one handler at a time but
has several renderers.

**PlayQueue** is the index arithmetic of `next` and `changePlayQueuePosition`
(playerprovider.cpp 398-408, 588-617): the two conversions, the increments that
repeat and shuffle allow, and the position they lead to (`Target`), or `NoTrack`
where the code returns false. The widths are the constants `Half` (2^31) and
`High` (2^32).

**PlayCursor** is the abstract specification: a queue, a cursor in plain
integers, and the only ways a step may move it (`Forward`, `Backward`, `Open`,
`Extend`, `Empty`, `SetMode`).

**Player** is PlayerProvider with the attributes its stub publishes, and the
renderer as its environment. One action per handler, each atomic, under the
name of the function. State and code:

| Variable | Code |
|---|---|
| `playqueue` | `playqueue`; a NULL pointer behaves as an empty queue everywhere it is read |
| `playQueuePosition`, `m_repeat`, `m_shuffle` | the fields |
| `m_signalHandlerId` | whether the field is non-zero |
| `playbackStatus`, `currentTrack`, `canGoNext`, `canGoPrevious` | the attributes as last set through `stub` |
| `renderer` | the device (external); `overheard` is a history: another renderer announced Playing since this one last changed its state |
| `signals` | the pending PropertiesChanged, its own and those of other renderers |
| `emptied` | history: the queue was emptied since a track was last selected |

An item is a model value; all that matters of it is whether it has a file:// URL
(`LocalItems`), because otherwise `getLocalURL` returns the empty string and
that is what is opened. A call on the renderer has an *outcome*: `unreachable`
(connectMediaPlayer fails), `refused` (a GError), `lost` (carried out, but the
reply comes too late, also a GError) or `done`. The constant `Faults` says which
of these may happen without a cause and whether the device may leave; a pause of
a renderer that is not playing, or a play without a track, is refused in any
case. `HandleSignal` dispatches one pending signal: a "Stopped" is the whole
`next`, including the open or the pause it makes. The metadata of the same
signal may be handled before or after it (the dictionary's order).
`ForeignAnnounces` puts a signal of another renderer, one of `ForeignSignals`,
among the pending ones as soon as the player has subscribed; nothing in it tells
it from one of the own renderer, so a foreign "Stopped" moves the queue, foreign
metadata publishes the position and a foreign "Playing" shows PLAYING. A
discovery whose listing fails counts as `unreachable` here; that it may end the
process is in Discovery.

**PlayerStub** adds the reply of each client method: which error the stub
answers with, given the outcome.

**Unattended** restricts Player to a client that chooses the modes, opens one
playlist and leaves, with a healthy renderer whose tracks end and no other
renderer on the bus.

**PlayerThreads** has two threads, `Client` and `Loop`. A handler is a record in
`threads`: the step it is at (`pc`) and what it holds in local variables: the
size of the queue it read (`size`), the increment and then the position it
computed (`new`), the URI it will open, and whether the item in its hand was
freed (`dangling`). A handler is cut at every access to what is shared; the
increment of `next` (398-408) is read when it starts, and a library call is one
step together with the reads of its arguments:

| Step | Code |
|---|---|
| `release`, `replace` | openPlaylist 129-132: the old queue is freed, the new one stored with position 0 |
| `measure` | changePlayQueuePosition 594: the size of the queue |
| `add` | 599: the position as it is by now, plus the increment |
| `choose` | 601-615: the checks of the sum against that size, under the repeat mode as it is by now; a refused `next` goes on to pause |
| `store` | 617: the position is stored |
| `publishNext`, `publishPrevious` | 619, 620: CanGoNext and CanGoPrevious, from the local values |
| `fetch` | 623: the entry at the position as it is by now |
| `read` | 625-635: the display name and URL of that entry |
| `discover`, `connect` | connectMediaPlayer: drop the old proxy, make and store a new one |
| `register`, `registered` | registerSignalListener: subscribe, then store the handler id |
| `call` | the call on the renderer, through whatever `mp` is by then |

`queuePtr` and `mp` may be `freed` and still pointed to. Using one sets
`undefined` and ends the behaviour: nothing is claimed of what would follow.

**Discovery** is discoverDLNABackends and pathIsMediaManager, one step per
blocking call. A listing that fails returns NULL, which is read on
(common.cpp 345): GLib catches that and the list is empty, or the process ends
(`crashed`). The function has no return statement; the list is taken to be the
one it has built. **Renderers** extends it with the player: `next` and `pause`
discover first, then go to the head of what was found; the Stopped of any
renderer moves the queue. A renderer that is there may refuse the call or lose
its answer. `missed` remembers that the last move reached nobody.

**TrackPosition** is seek, setPosition, getPosition, getDuration and stop in
arithmetic of width `Half` (2^63). `call` is a setPosition or stop between its
two calls, with the history of the time played meanwhile.

**Registration** is one provider with its backend, the watcher's pending
reports, `registerService`, and the CommonAPI publisher: `stub` is the
provider's pointer, `published` the stub that clients reach. Stubs are numbered
in the order they are made. `trouble`, chosen at the start, is what fails: the
bus, the factory, the publisher.

**Indexer** extends Registration with the calls of the indexer's clients and
with the death of the process in `g_error`.

**Resources** is the two searches for a URL among an item's resources, as
operators on the sequence of URLs. **Conversions** is the way of a value from a
GVariant to JSON to the reply, as operators on tagged records. `Converted` is
one call of `DLNADictToJSON`, and the operators from `FieldToJSON` to
`DLNADictToJSON` are its recursion written out as deep as the server's answers
go: a list, its objects, their properties, and in a property at most a list of
dictionaries of plain values (Resources). **Library**
composes them: an external container that clients and others change, the
listings and searches with their page arithmetic (`Width` is 2^32), the play
queue (`EnqueueLimit` is 100, `PlaylistLimit` 100000) as JSON objects that `getCurrentPlayQueue` changes by showing them,
`createContainer` and `createReference`, carried out or not. `walk` is a client that pages through a
listing; the listing is read with each page, so that others' changes come in
between. What must come of a value is `Conveyed`, one case for each type there
is; what the two choices of a URL have to do with each other is `Consistent`.

**MC…** modules give the model values; **…Proofs** modules hold the theorems.
Each definition named as a mutant (its comment says so) is a plausible mistake
that takes the place of a definition of the model; each property is known to
catch one.

### What is assumed of the outside

* Renderer: an accepted OpenUri starts playback and announces new metadata; a
  change of the playback status is announced to a subscriber; signals arrive in
  order and none is lost while the process runs. Other renderers announce what
  they like. An empty URI is refused or
  stops. Another controller may pause, resume or end a track at any time.
* A device that leaves says nothing, and comes back stopped and without a track.
* GLib: an integer range that is not one returns its begin (the failed
  precondition of `g_random_int_range`); the watcher reports every change of
  owner in order, and first the state it finds.
* CommonAPI: the publisher refuses a second stub at the same address, and one
  client call is dispatched at a time, on a thread that is not the main loop's.
* Freed memory: jansson and GLib calls are atomic; a pointer to freed memory is
  undefined when it is used and not before.
* dLeyna's server sorts by the key it is given, cuts a listing at offset and
  count, takes a count of 0 for no limit, and answers a call as a whole.

## 3. Runs

| Run | Bounds | Checks |
|---|---|---|
| `player_faults` | queue 3, 2 pending signals, 2 items of which one is local, playlists of 0 to 3 entries, every fault, two foreign signals, Half 4, High 2 | `TypeOK`, `PositionNeverWraps`, `AttributesAgree`, `PausedIsShown`, `PositionNeverUnset`, `CursorRefined` |
| `player_healthy` | queue 2, 2 signals, no faults, all items local, other controllers, two foreign signals | `NowPlaying`, `StopIsAnswered`, `PausedIsShownForGood` |
| `unattended` | queues up to 4 with repeated items | `RepeatSingleStays`, `RepeatPlaysAll`, `RepeatSingleReplays`, `QueueEnds`, `EntriesInOrder`, `ShuffleNeverEnds` |
| `stub_pause` | queue 1, 2 signals, every fault, URIs from outside the queue, foreign Playing | `PauseIsShown` |
| `player_threads` | 2 threads, playlists of 1 and 2 entries, 3 client calls, 1 failing step, 2 pending Stopped | `TypeOK`, `PositionInRange`, `OneAtATimeIsSafe`, `SubscribedTwiceAtMost`, `OverlapHeals` |
| `renderers` | 1 renderer of our own, 2 foreign ones (symmetric), queue 2, 2 pending Stopped, failed listings, questions and calls | `TypeOK`, `DiscoveryIsRegular`, `OnlyOwnDriven`, `OwnPlaysSelected` |
| `track_position` | numbers of 4 bits (Half 8), tracks of length 2 and 5 | `TypeOK`, `AnswersFit`, `SetPositionLands`, `ForwardNeverRewinds` |
| `library` | 4 objects, 2 of which may be created, Width 8, page sizes 2, 8 and 9, EnqueueLimit and PlaylistLimit 1, queue 2, 1 change by others | `TypeOK`, `PagesAreListing`, `ReplyIsTrue`, `ShownIsOpened`, `ViewChangesNothing` |
| `indexer` | 6 pending reports, 8 appearances; bus, factory and publisher may fail, calls may be refused | `RegTypeOK`, `PublishedHasConnection`, `BackendGetsPublished` |

Three more runs (`player_wrap`, `stub_success`, `registration_stub`) find
disagreements, see below.

The bounds are enough for the cases that matter:

* A queue of three has a first, a middle and a last entry, so every branch of
  `Target` and of the attributes is taken; two pending signals let a stale
  "Stopped" precede and follow other changes; an int of 8 values in a uint64 of
  16 is larger than the queue (as in the program) and still wraps, truncates and
  goes negative as the real widths do. The two foreign signals are a Playing and
  a Stopped with metadata, so each part of a signal that a handler acts on comes
  from outside as well; the properties were also checked once with all eight
  kinds. `stub_pause` needs none but Playing. The position's correctness does not rest
  on these bounds, it is proved.
* Three client calls on PlayerThreads are enough to select, to start a second
  handler inside the first, and to free what one of the two holds; the main loop
  adds its own handlers with two pending signals, which a double subscription
  alone can fill. One failure lets each call fail at each of its steps. What
  does not rest on the bounds is proved.
* Two entries and two foreign renderers let a signal of each kind move the queue
  to another entry and back; one foreign renderer may leave while the other is
  asked.
* In 4-bit numbers every setPosition is tried, those that wrap included.
* A Width of 8 exceeds the number of children, as 2^32 does, and page sizes 8
  and 9 are cut to 0 and 1. The song has a local URL among others, the tune a
  resource without URL before its local one and a double, the folder no local
  URL, the box a URL with another inside it; in between are lists whose members
  do not all arrive. A PlaylistLimit and an EnqueueLimit of 1 are below the
  number of items.
* Registration has no state that depends on how many stubs came before but their
  number.

### Fairness

A signal or report that was received is dispatched (`WF` of `HandleSignal`,
`Dispatch`): the main loop runs for as long as the process does (main.cpp
105-106) and the handlers are not conditional. In PlayerThreads both threads are
scheduled (`WF` of each thread's `Step`): a handler waits for nothing but D-Bus
calls, which end by GLib's timeout. And main calls `connect`; in Indexer both
hold while the process lives (`OfProcess`). Clients, other controllers and
backends owe nothing. Unattended and PlayerThreads also assume that a playing
track ends, which is a statement about media; without it `OverlapHeals` would
only speak of tracks that do. Deadlock is not checked where the system may
really stop: an unattended queue at its end, a backend that stays away, a
process that aborted, undefined behaviour.

### Disagreements with the documentation

Each of these is a run that checks one sentence of the code's own documentation
or tests, and finds a counterexample.

| Run | What happens |
|---|---|
| `player_wrap` | Under REPEAT a "Stopped" that is pending while a client skips to the last entry restarts the queue although that entry is playing. |
| `stub_success` | Every method answers BACKEND_UNREACHABLE: the MmError it allocates is taken for an error. |
| `registration_stub` | When the backend comes back a second stub becomes the provider's, is refused by the publisher and destroyed; attributes are set through a dangling pointer from then on. |

Read in the source, followed by the models, and not given a run of their own:

* Player: a shuffled draw never yields the last entry (the range's end is
  exclusive and is the size minus one); `next` while paused starts playback;
  `previous` on the first entry makes no call, though playerprovider.h:94 says
  playback is stopped; `dequeueIndex` does nothing; `openPlaylist` and
  `enqueueUri` return silently when a listing fails; a setPosition more than
  2^63 ahead rewinds; the Playing, Paused, Stopped and Metadata of any renderer
  on the bus count as the own one's, so a foreign Playing shows PLAYING for a
  renderer of ours that is paused, until that one changes its state; two
  renderers of our own may both play, since each call goes to the one that is
  found first.
* Indexer and services: a failed `startIndexing` or `stopIndexing` is answered
  NO_ERROR, since the error is stored only where there is one already (lms.cpp 78,
  103) and the stub passes a pointer to none; lms.h:52 promises it set. An error
  of `getDatabasePath` aborts the process; the status is always RUNNING;
  `isConnected` stays true when the backend leaves.
* Browser: the stub passes no error pointer, so that a failure is an empty list,
  where browserprovider.h:62-64 promises an error; `createReference` never
  stores its result; a filter of "URI" alone never yields the URI, which is
  computed from Resources; offset and count are cut to 32 bits.
* Conversions: a double comes out as the string "UNKNOWN: d" (common.cpp:183)
  although the union of a reply carries numbers (41-42). common.cpp:76-78 speaks
  of a URL beginning with file:// where the code looks for it anywhere. The URI
  clients are shown need not be the one opened: an item with http URLs only is
  shown one and opened as the empty URI, as is one with a resource without a URL
  before its local one (playerprovider.cpp:375-379 against common.cpp:101-105),
  and one with a URL inside another is shown the outer one.
* Discovery: a listing that fails is read as NULL (common.cpp:345), and
  `discoverDLNABackends` has no return statement.

## 4. Proofs

`PlayQueueProofs` proves the facts about the arithmetic that everything rests
on, for every `Half > 1` and `High > 0`: the conversions stay in range
(`AsUint64Type`, `AsIntInRange`), the sum of a uint64 position and an int
increment truncated to an int is the sum of their int values (`SumAsInt`,
`DifferenceAsInt`), the initial UINT64_MAX is -1 as an int (`UnsetAsInt`), an
accepted target is an entry of the queue (`TargetInQueue`), and what a shuffled
increment can lead to (`ShuffleDraws`).

`PlayerProofs` proves, for all items, playlists, URIs, fault sets, queue bounds
below `Half` and widths:

| Theorem | Property |
|---|---|
| `TypeCorrect` | `Spec => []TypeOK` |
| `PositionCorrect` | `Spec => []PositionNeverWraps` |
| `AttributesCorrect` | `Spec => []AttributesAgree` |
| `SelectionStays` | `Spec => PositionNeverUnset` |
| `CursorCorrect` | `Spec => CursorRefined`, the refinement of PlayCursor |

The inductive invariant is
`Inv == QueueInv /\ CursorInv /\ DeviceInv /\ ShownInv`. None of its parts is
inductive alone: `AttributesAgree` needs the types and the queue's bound to know
that an accepted target is below `Half` and so survives the truncation, and
`PositionNeverWraps` is what makes the position's int value equal to itself in
the next step. `emptied` is needed because `dequeueAll` and an empty playlist
leave the attributes alone: without it `AttributesAgree` is false. There is one
lemma per group of handlers (`SelectTrackCorrect`, `NextCorrect`,
`PreviousCorrect`, `OpenPlaylistCorrect`, `TransportCorrect`,
`QueueCallCorrect`, `HandleSignalCorrect`, `RendererStepCorrect`), joined in
`StepCorrect`. For the refinement the cursor is mapped to
`AsInt(playQueuePosition)`, so UINT64_MAX becomes "no entry"; `ForwardRefined`
and its siblings map each handler to the abstract action or a stutter.

The assumptions are `WidthAssumption` and `PlayerAssumption`; the second one
keeps the queue shorter than 2^31, beyond which the program's int really does
overflow.

`RegistrationProofs` proves `RegTypeCorrect` and `PublishedCorrect` of the
registration with the indexer on top, for every number of reports and stubs and
every set of faults. The invariant adds to the properties that reports are
pending only while the name is watched, and that made stubs and pending
appearances together stay below the bound; without the last the type of `made`
is not inductive. `PublishedCorrect` is what lets the indexer use its connection
without a check: a client reaches it only once it is published.

`LibraryProofs` proves, for any objects, properties, filters, page sizes, queue
bound and number of changes by others:

| Theorem | Property |
|---|---|
| `TypeCorrect` | `Spec => []TypeOK` |
| `PagesFit` | `Spec => []PagesAreListing` |
| `RepliesAreTrue` | `Spec => []ReplyIsTrue` |
| `ShownURIsAreOpened` | `Spec => []ShownIsOpened` |
| `ViewsChangeNothing` | `Spec => ViewChangesNothing` |

The invariant is `LibInv`, of four parts. The properties speak of paths, URIs
and values inside replies; what is inductive is where those came from.
`ChildrenOK` says that the container's children are distinct objects, without
which neither an offset nor a path would name one entry. `WalkOK` says that
every entry a client has got is what post-processing and the two conversions
make of one object's properties under the client's filter, however the container
changed. `PagesOK` says that while it did not, those objects are the first ones
of the sorted listing; the next page, cut at the offset of what was got, then
continues them (`PageContinues`, which also deals with a page size that the
32-bit call cuts), and all of them are there when a walk that was answered is
over. `QueueOK` says that a queue entry is what `DLNADictToJSON` makes of an
item, or the same after it was shown, once or many times.
`ViewChangesNothing` follows from it: a URI that was added is what would be
added again, and the resources it was chosen from are as before.
Below it are lemmas about the operators: `InOrderCorrect` (what is sorted is
sorted, has the elements of the set, each once), `KeptCorrect` (a filtered list
keeps its order), `ValueConveyed` and `EntryIsTrue` (what both conversions make of
a value, for every type), `ShownIsListed` and `ChoicesConsistent` (of the two
searches for a URL, for resources of any number). `RepliesAreTrue` says of every
type what arrives, a double included, which does not; `ShownURIsAreOpened` says
of every item how what is shown and what is opened go together, those included
for which they differ.

It rests on `LibraryAssumption`, `ContentAssumption`, `ConversionsAssumption`
and `ResourcesAssumption`: display names are comparable, no container has 2^32
children, every object has its path among its properties and no property called
URI (the code makes that one up), arrays are lists, a variant holds no variant,
and the URLs are those known. They say what dLeyna
answers and nothing about the program.

`TrackPositionProofs` proves `PositionTypeCorrect`, `AnswersCorrect`,
`SetPositionCorrect` and `ForwardCorrect` for every width and all tracks. The
last two rest on the invariant `UnderWay`: while the track is the same, the
position is the one that was read plus the time played since; and on `ReadsAsSigned`, that a difference of a
64-bit target and a position, taken modulo 2^64 and read as signed, is the
difference itself wherever that fits.

`PlayerThreadsProofs` proves of overlapping handlers, for any number of calls,
failures and signals and playlists of any length below 2^31, `ThreadTypeCorrect`,
`RangeCorrect`, `SafeCorrect` and `SubscribedCorrect`. The invariant has four
parts. `FieldsInv` is the types and the range of the position. `ThreadsInv`
follows a handler: the size it read is that of a queue, what it will store is a
position of some queue, an item in its hand is freed only if the handler was
overlapped, and two handlers under way both know that they are not alone.
`FreedInv` says who will mend what was freed:
as long as `mp` or the queue is freed some thread is at the step that replaces
it, so only the other thread can meet it. `SubscribedInv` counts: until the
handler id is stored there is one subscription per thread that is about to store
it. `SafeCorrect` needs the second and third together, `RangeCorrect` the first
two; there is one lemma per step of a handler, `MoveKeepsThreads`,
`MoveKeepsFreed` and `MoveKeepsSubscribed` carry what all of them share.

`PlayerShownProofs` proves `PausedShown` and `NowPlayingCorrect`, that what a
client is shown is what the renderer does. Both speak of a state in which
signals are still pending, so each has an invariant about what those will make
of the attributes, on top of `Inv` of PlayerProofs. `StatusInv` adds to
`PausedIsShown` (a paused renderer is shown as PAUSED, unless it was overheard by
another one's Playing) that nothing is announced or shown before the player has
subscribed, since a pause nobody is told of would otherwise break it, and that a
renderer that is away is not paused. It holds under every fault; the lemmas
`ShowsBySignal`, `ShowsAfterSignal` and `ShowsAfterDispatch` say what an
announcement, its own or a foreign one, and its dispatch do to the last status
shown. `NowInv` says that
what was opened last is the selected entry, and that CurrentTrack names it or a
metadata signal is pending that will make it so. `NowPlayingCorrect` assumes
what the run `player_healthy` gives: all items local, no faults, no URI opened
outside the queue. Without any of the three the property is false.

`PlayerShownProofs` also proves what becomes of Player in its two restrictions.
`UnattendedIsPlayer` (`UnattendedSpec => Spec`, fairness included) carries every
theorem about Player over to a player left alone; it assumes no more than that
shuffle is on or off (`UnattendedAssumption`). `EntriesCorrect`
(`EntriesInOrder`) and `SingleStaysCorrect` (`[]RepeatSingleStays`) add what
holds only there, for queues of any length: `AloneInv` says that the queue is
never emptied once it was opened, so that `AttributesAgree` puts the position
inside it; then the refinement of PlayCursor (`ForwardRefined`) leaves an ended
track one candidate, the same entry or the next one. `StubIsPlayer` shows that
every client method and attribute of PlayerStub is one step of Player or none,
so that `TypeOK`, `PositionNeverWraps`, `AttributesAgree`, `PausedIsShown` and
the refinement hold of what clients do through the stub.

`RenderersProofs` proves `RenderersTypeCorrect`, `DiscoveryCorrect`,
`DrivenCorrect` and `SelectedCorrect`, for any finite set of devices, every queue and all
failures, refused calls and failed listings among them. `DiscoveryInv` says that each device is still to be asked or was asked
once, that what is to be asked and what was found are distinct and disjoint, and
that whatever answered and is our own is in one of them; when nothing is left to
be asked, what was found is all there is. `RendererInv` says that an entry about
to be opened is one of the queue. `SelectedInv` is `OwnPlaysSelected` in the
middle of a handler as well. `SelectedCorrect` assumes one renderer of our own:
with two of them a second one may play on what was opened on it before.

Only model-checked is what needs fairness or ENABLED, which are out of the
prover's reach: `StopIsAnswered`, `PausedIsShownForGood`, `RepeatPlaysAll`,
`RepeatSingleReplays`, `QueueEnds`, `ShuffleNeverEnds`, `PauseIsShown`,
`OverlapHeals` and `BackendGetsPublished`. For the same reason `StubIsPlayer`
maps the steps of the stub and not its fairness. Every invariant and every
action property of a passing run is a theorem.

## 5. Not modelled, and what is left

Left:

1. **Service after a restart**: Registration composed with PlayerStub, with
   `initializeDefaultValues` of the second stub and the attributes clients read.

Left out on purpose:

* CanPlay, CanPause, CanSeek, rate, mute and volume: copied through, nothing
  depends on them. Hence the player provider and stub are "partly" modelled.
* `disconnect` of the providers and the destructors: a running process never
  reaches them. A session bus that closes: GLib ends the process.
* The syntax of search queries and objects with several parents: the server's.
* Logging, memory that is leaked, `DLNAStringify` (called by nobody), the sample
  client (one call, no state), build and interface files, udev rules, the tests
  and the vendored test library.
