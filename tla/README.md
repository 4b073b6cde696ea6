# A TLA+ model of the Funambol C++ client API

Specifications, model-checking configurations and machine-checked proofs for
the synchronization engine of this repository (`src/src/cpp`, `src/src/include`;
paths below are relative to `src/src`). Line numbers are those of the commit in
`src/`.

## 1. The system

A client program creates `SyncSource`s, fills a configuration and calls
`SyncClient::sync()`. The engine (`spds/SyncManager`) speaks SyncML with a
server over HTTP: one request, one answer, one thread. Other threads exist for
push (`push/CTPService`), and the user interface may call `setToAbort()` at any
moment. State that must outlive the process is in small journalled files
(`base/util/PropertyFile`): the LUID/GUID mappings of each source, the cache of
a `CacheSyncSource`, the LUID map of a `MediaSyncSource`.

| component | state | operations | what makes it correct |
|---|---|---|---|
| `PropertyFile`, `MemoryKeyValueStore` (base/util) | list of pairs, node file, journal file | read, set, remove, removeAll, close | a crash anywhere gives back what the program saw, up to what the disk refused |
| `SyncManager::sync`, `endSync`, `SyncClient::sync`, `MappingsManager` | sources and their reports, `commands`, `syncItem`, `last`, `ret`, mapping stores, anchors | message loop per source, alert, server package loop, last message, commit | no mapping is forgotten, the final tag goes out once, anchors only for complete sources, a failed source spares the others |
| `SyncManager::prepareSync`, `CredentialHandler` | credentials, nonces, sync modes | alerts, authentication retries | ends, ends with the right error, asks again only what helps |
| item loop of `sync`, `ItemReader`, `Chunk` | item being sent, offset, message size, step | build one message | every item once, chunks in order, progress in every message |
| `processSyncItem` | incoming item, offset | chunk, complete item, refusal | an item is stored whole or refused, every item gets a status |
| `CacheSyncSource`, `FileSyncSource` | cache, key lists, directory | change detection, item status, add/update/delete from the server | a local change is sent sooner or later, and once |
| `MediaSyncSource` | LUID map, next LUID | allocate, look up, refresh | a LUID belongs to one path for ever |
| `CTPService` and its threads | state, socket, leaving flag, threads | start, stop, connect, receive, heartbeat, timeout | one connection, stop stops, an error reconnects |
| `ManageListener`, `FireEvent` | listener lists | set, unset, fire | one listener per name |
| `Updater` | config, last check | check, propose, later, skip | no update proposed twice or after skip |
| SyncML objects, builder, processor, parser, formatter | none across calls | XML to objects and back | - |
| transport, sockets, platform ports | - | I/O | - |
| mail, vocl, filter, encodings | - | content formats | - |

Interactions. `SyncClient` calls `SyncManager`, which calls the sources back
(`beginSync`, `getNext…Item`, `addItem`, `setItemStatus`, `endSync`), the
transport and one `MappingsManager` per source. A source may change its own
report while it is called back, which the engine notices at its next
`checkState()`. The abort flag is shared with the user interface. What is hard:
failures of one source among several, an answer that is lost or bad after the
server has acted, the abort flag between any two tests, crashes between two
writes, an item left between two messages, and the threads of the push service.
`PROJECT.json` lists the hazards at their lines.

## 2. Modules

| module | models |
|---|---|
| `PropertyFile` | `base/util/PropertyFile.cpp` on `MemoryKeyValueStore.cpp` |
| `DurableStore` | what such a store promises: the abstract specification |
| `PrepareSync` | `SyncManager::prepareSync`, `CredentialHandler`, statuses and challenges |
| `SyncSession` | `SyncClient::sync`, `SyncManager::sync` and `endSync`, the mappings |
| `ClientMods` | the item and chunk loops of `SyncManager::sync`, `ItemReader`, encodings, input streams |
| `ServerItems` | `checkForServerChanges`, `processSyncItem` |
| `CacheSource` | `client/CacheSyncSource.cpp` on the files of `client/FileSyncSource.cpp` |
| `MediaLuid` | `client/MediaSyncSource.cpp` on the stores |
| `CTPService` | `push/CTPService.cpp` and its threads |
| `XProofs` | the theorems about module X (those about `DurableStore` are in `PropertyFileProofs`) |
| `MCX` | values for the runs of module X |

A sync is `PrepareSync`, then `SyncSession`, whose building of messages is
`ClientMods` in detail and whose treatment of the server's items is `ServerItems` in
detail; the sources it calls are `CacheSource` or `MediaLuid`; the state they keep
is in files of which `PropertyFile` shows what a crash leaves. The modules overlap
where they meet (the answer to a message, the status of an item, the abort flag) and
are checked apart: the product would be out of reach, and each models its
neighbours as doing anything they may.

### PropertyFile

`mem` is the list `data`, `node` and `jour` the two files, `pc` the point a
method has reached. A method is cut where a crash leaves different files:
`setPropertyValue` changes memory, then appends to the journal (`SetMemory`,
`SetJournal` or `SetJournalFails`); `removeProperty` does the journal first
(`RemoveJournal`, which may fail unnoticed, `RemoveMemory`); `close` truncates
the node file, writes a line at a time, and removes the journal (`OpenNode`,
`WriteEntry`, `RemoveJournalFile`); `removeAllProperties` clears memory and
removes the node file (`ClearMemory`, `RemoveNode`); the constructor reads the
node and replays the journal (`ReadNode`, `ReplayEntry`, `ReadDone`). `Crash`
is possible at every step and keeps only the files. `stale` is history: the
keys whose last change the disk was not given, the only ones a restart may see
otherwise. Keys and values are atoms: the escaping and the line buffer
of 512 bytes are not modelled, nor is a line of which a crash leaves a part on
disk. `fgets`, `fprintf` and `fclose` succeed, as the code assumes.

The modules whose stores are `PropertyFile`s keep of this what matters to them: a
change is in the journal at once, and a `close()` is two moments, so that a crash
between them leaves the entries written so far and those of the journal
(`CrashInClose` of `SyncSession`, `CacheSource` and `MediaLuid`).

`DurableStore` has a value the program sees and one a restart would find; the
second only becomes the first, or is lost. `ImplementsDurableStore` says that
the files do that under the mapping "what would be read now".

### SyncSession

One action per point where the code does something that can be told apart:
the tests of the loop on the sources (`SkipSource`, `BeginSync`,
`BeginSyncFails`), a message of modifications (`BuildModifications`), the tests
of the abort flag (`AbortWhileBuilding`, `AbortBeforeSend`, `NoAnswer`,
`AbortAfterStatuses`, `ServerChangesAborted`), the exchange, each class of
answer (`BadAnswer`, `SyncRefused`, `ModificationsAnswered`,
`ServerPackageAnswered`, `EndAnswered`), the server's items (`ServerChanges`),
the alert that asks for them (`ModificationsDone`), `Finally`, `EndSync`,
`EndSources`. `phase` says which of the four `sendMessage()` calls the message
at hand belongs to.

Abstractions: an item is only "left over" or not (`pending`); a source is through
after any number of messages up to `MaxMessages`; the server's items make at
most one mapping per message, whose name is new; the smart variants of the sync
modes behave as the one-way modes and are not separate values; `prepareSync()`
is any assignment of modes and any nonempty set of active sources. The
server ends its package only after the client ended its own. Two paths cannot be
taken: an item that is NULL in the server's list (1049-1053), as `ArrayList` clones
what it keeps, and a message that is NULL (1614), as `prepareMsg()` returns a copy. A source in
`Fallible` may put itself in error while its items are processed, as
`FileSyncSource` does (`client/FileSyncSource.cpp:358`, `:385`): `silent` are those
that did (history), `skipped` those of them that did before the loop over the
sources came to them.

The mapping store of a source is `store`, and `jour` the part its journal still
holds: `resetMappings()` clears the first and leaves the second
(`removeAllProperties`), `closeMappings()` clears the second or is cut short
(`CrashInClose`), and a new session starts from their union.

### CacheSource

`local` is the folder, `cache` the signature stored for each key, the four key
lists are what `getFirstItem()` or `fillItemModifications()` found. A session is
a scan (`ScanChanges`, `ScanAll`, or `ReceiveOnly` for the modes that send
nothing), then for each item a read (`SendNext`), the server's decision
(`ServerAccepts`, `ServerRefuses`) and its status (`SetItemStatus`), then the
server's items, each in two steps: the file (`InsertItem`, `ModifyItem`,
`RemoveItem`) and its entry (`NoteInCache`). `EndSync` begins to save the cache and
`CacheSaved` is the end of that; `CrashInClose` comes between and loses the entries
that were neither written nor in the journal (`journalled`). `ClearInterrupted` is a
crash inside `clearCache()`, after which the journal is read back. `Interrupted` ends
a session anywhere else and loses an answer that was on its way; `UserEdits` changes
a file between any two steps. A key is a file's path or its name: `FileSyncSource` lists paths and adds
names, and both reach the same file (`getCompleteName()`); with `FileSource =
FALSE` the keys are those of a source that has one form only.

History: `shared` is what the server has for each key, `unconfirmed` the keys
whose change by the server the cache was never told of, `lost` those whose entry was
cleared or taken by a crash, `raced` those whose
signature was taken of a content other than the one exchanged. The properties
say what the cache is worth outside these sets, and each names the ones it
excepts. A name the server's item
cannot have is replaced by any free one (`_01`, `_02` in the code); the CRC tells
contents apart, as the code assumes. A write that fails is not modelled.

### PrepareSync

What happens before `SyncSession` begins: `SyncManager::prepareSync()`
(`cpp/common/spds/SyncManager.cpp:340-908`) with `CredentialHandler` and the
parts of `SyncMLProcessor` that read the answer. One action per branch of the
loop: `Start` (a new `SyncManager` and what comes before the loop), `Aborted`,
`ErrorBeforeSend`, `Send`, `Answer` or `NoAnswer`, `BadHeader`, `Alerts`, then the
server's authentication (`NoServerAuth`, `ServerAuth`, `ServerAuthAgain`,
`ServerNotAuthenticated`) and the client's (`ClientAuth`, `ClientAuthAgain`,
`ClientNotAuthenticated`). `Leave` ends the session, its first message of
modifications delivered or not, and the next one starts with what the
configuration kept: the two nonces and the hash of the device information.

The variables have the names of the code. A credential is its type and the nonce
it was made with; nonces are five values, of which the module picks one that
nobody remembers. The server is external and of two kinds: an honest one accepts
what is right, gives nonces and adopts the client's; a stranger answers anything.
`Setups` is the set of configurations.

### ClientMods

The loops of `SyncManager::sync()` (`SyncManager.cpp:1219-1612`) that
`SyncSession!BuildModifications` stands for, with sizes in bytes: `work` is what
each source has to send (a mode, an encoding, a stream, a size for each item of
each list), `cursor` the place in each list, `syncItem` and `read` the item at hand
and the position of its stream, `chunk` whether the pointer is NULL or dangling.
Actions are the iterations: `WaitForNextMessage` (an item too big for the room
left), `NoChunk`, `AddChunk`, `AddDeletedChunk`, `DropDeletion`, `AddDeletion`, the
steps between loops (`FirstNew`, `FirstUpdated`, `FirstDeleted`, `ListOver`,
`AllListsOver`), the message (`BeginMessage`, `Answered`, `SourceRefused`, `Ends`) and
the sources (`BeginSource`, `SkipSource`). `syncItem` and `chunk` outlive a message
and a source, as they do in the code; an assertion on them stops the program or is
compiled out. The encodings are none and base64.

### ServerItems

`checkForServerChanges()` and `processSyncItem()` (`SyncManager.cpp:2249-2521`):
`incoming` is `incomingItem`, with the size of its buffer, the chunks in it and the
offset. The server's messages are built as they are read: `OpenSync` begins the
`Sync` of a source, whose state is tested once, `NextItem` is one item or chunk,
treated by one of `Skipped`, `Nameless`, `DropsBoth` (223), `Refuses` (416, 424),
`Buffers` (213, 222) or `GivesToSource`, in the order of the tests. `EndMessage`
delivers the statuses; `Abort` comes between any two items; `GiveUp` is the server
giving up an object it has begun. The server obeys SyncML: it sends the rest of an
object only after the answer to its beginning, and none after a refusal. It may
lie about sizes.

### MediaLuid

`client/MediaSyncSource.cpp`: `cache` in memory, `node` and `journal` on disk,
`luidMap`, `nextLUID` in memory and `savedLUID` in the configuration. The
constructor is `Construct` (it reads, and raises the next LUID above the map);
`BeginSync` clears the cache of another account; `saveCache()` is `SetAccount`, the
close of the cache (`CloseCache`, or `CrashInClose`), then `RefreshLUIDMap` for each
path it forgets and the close of the map (`SaveLUIDMap`, or `CrashInMapClose`); `SendKnown` and `SendNew`
are `getLUIDFromPath()`, the second with `SaveNextLUID` after it: the map is
written first, and a crash may come between. `SetItemStatus`, `EndSync`, `Crash`,
`ChangeAccount`, `LoseConfig` and `UserEdits` come when they can. A signature is a
modification time. That of a file that is gone is NULL, kept as such in memory and
read back from the store as the text "(null)". `mapJournal` are the paths in the
journal of the map. `saveNextLUID()` is one step: the only key of its store has just
been put in the journal. `forgotten` is history: the paths whose status or cache
entry is lost, or whose LUID a crash inside a close took.

### CTPService

`push/CTPService.cpp` on the POSIX port: the CTP thread (`CTPStep`, `AuthStatus`),
the receiver, the heartbeat and the timeout threads, and the application, on one
socket and without a lock. `pc[t]` is where a thread is. `closeConnection()` is four
steps, with any other thread between them: `TestSocket`, `Delete` (of the socket it
found, or of the one the pointer has by then), `Nullify`, `Disconnected`.
`sendMsg()` is `Writes` then `Sent`
(the state changes after the bytes are out); `receiveStatusMsg()` is `Block`, on
the socket of that moment, then one of the `Receives`, or `Fails`. A call on a
deleted socket fails as on a closed one, or ends the program (`UsesDeleted`). The
test of `ctpSocket` and the call through it in `sendMsg()` and `receiveStatusMsg()`
are one step, since a deletion between them has the outcomes of a call on a deleted
socket; so are neighbouring assignments to the state and the flags.

`Platforms` says
whether `close()` wakes a `recv()` of another thread (on Linux it does not), `Waits`
whether the receiver is joined or waited for with a timeout (`ctpConnTimeout`;
`wait(timeout)` returns at once on POSIX, `posix/push/FThread.cpp:64-80`). `freed`
are the deleted sockets, `held` what a thread in `closeConnection()` found, `crashed`
the program's end by a second deletion, a use after the deletion or the NULL pointer
after a second AUTH; `owed`, `raced` and `clash` are history. `raced` begins again
with each connection. A thread may end in ways `CTPThread::run()` does not announce,
and has a label for each: `another` (it takes the state for that of another
instance), `spins` (the parameter of a jump, 1049-1055). The program also
begins with the connection a former stop left open.

## 3. Runs

| run | instance | shows |
|---|---|---|
| `PropertyFile` | 2 keys, 2 values, journal up to 3 | `IdleIsDurable`, `OtherKeysDurable`, `CloseKeepsJournalled`: what a crash gives back between calls, inside a set or remove, inside `close()`; `ImplementsDurableStore` |
| `PrepareSync` | 2 sources, every configuration with an honest server and those that matter with a stranger | `GoesOnForCause`: the session goes on only with a server that accepted the client and, if asked, proved itself; `HealsForCause`: whatever went wrong before, an undisturbed session ends well; `NoncesInStep`, `RetriesForCause`, `DevInfForCause` |
| `SyncSession` | 2 sources that may fail by themselves, 1 mapping, 3 modes, 2 messages, 2 sessions | `FinalSentOnce`, `AnchorsMeanMapped`, `FailureIsolated`, `SuccessMeansAll`, `MappingsKept` |
| `SyncSessionLive` | the same sources, 1 session, no mappings, the modes the first run leaves out, fairness | `AnchorsMeanComplete`, `AbortEnds`, `SessionEnds` |
| `ClientMods` | 3 sources out of 9 workloads, messages of 1000 bytes | `FitsMessage`, `AllSent`, `LostForCause`, `ChunksInOrder`, `Terminates` |
| `ServerItems` | 6 objects of 2 sources, 2 cuts, a limit | `GivenWhole`, `BufferBounded`, `InStep` (client and server agree where the next chunk goes), `ServerKnows`, `RefusedForCause` |
| `CacheSource` | 2 files, 2 contents, 3 modes, 2 changes, 2 failures, fairness | `UnchangedMeansShared`, `SharedIsCached`, `Converges` |
| `MediaLuid` | 2 files, 2 accounts, 3 LUIDs, 2 changes, 1 trouble, 1 loss of the configuration | `LuidsUnique`, `PathFound`, `NotSentIsKnown`, `NewLuidForCause` |
| `CTPService` | 1 start, 2 connections, 1 session, a platform where `close()` wakes a reader, a receiver that is joined, fairness | `OneReader`, `NothingLeaks`, `TwiceForCause`, `TimeoutForCause`, `TimeoutRestores`, `StopHeard` |

The runs are few on purpose: each asks a question the others do not. Type
invariants are in no run: they are proved (section 4).

Several properties end in "for cause": they name the exceptions the code really
has, so that a new one would break them. What they except is listed under
"What the code does otherwise" below.

Bounds. `PropertyFile`: two keys are one changed and one that must not change; two
values are an old and a new one; three journal entries hold set, remove, set of one
key; `MaxJournal` bounds only how many changes precede a `close`. `SyncSession`: two
sources give a first and a last, two messages one with an item left over and one
after it, two sessions one that fails and the one that meets what it left. The two
modes that are absent take the same steps as `slow` and `twoWay`, without the
server's items. `CacheSource`: two files are the one the server's item is meant for
and the one it is renamed to; two changes are an edit and its undoing, or an edit
and a change from the server; two failures are a lost status and a refusal, or two
lost ones, or a crash inside `close()` and one before; sessions are not bounded; a
session that only receives is the refresh from the server, and `oneWayFromServer`
adds to that only what a two-way session with nothing to send does. `ServerItems`: an object for each test of
`processSyncItem()`, and two cuts so that an object has up to three chunks; each
object is sent once. `ClientMods`: sizes around each comparison (fills a message
exactly, leaves no room, little room, needs three messages, empty), three sources
so that what one leaves over meets another that may leave it further. `MediaLuid`:
one crash or lost status, and one loss of the configuration; three LUIDs let a file
be given a second. `CTPService`: two connections are the one that is lost and the
one that replaces it; a second concurrent `startCTP()` is left out (over four
million states; the proofs of types and of `TwiceForCause` cover it), and so are the
other platform and the wait with a timeout, which the theorems of section 4 cover for
the safety properties. Answers and retries of `PrepareSync` are
counted up to `MaxRounds = 3`, one more than what an honest server needs; the
number of sessions is not bounded.

Fairness. `SyncSession!FairSpec` adds weak fairness of `Step`, the session's own
thread: it runs in a thread of the client and `sendMessage()` returns after the
transport's timeout. Nothing is assumed of the server for `AbortEnds`. `SessionEnds`
assumes that a server that is asked for ever ends its package or fails some time. A
crash stops the thread; `crashed` counts as over.

`CacheSource!FairSpec` has weak fairness of the session's steps and strong fairness
of `ScanChanges`: `Converges` is about a client that is synchronized again and again
with its changes sent, which is how the program is used; a client that only ever
receives has nothing to converge. Crashes, refusals and edits have no fairness and
their number is bounded, so the property says what holds when they stop.

`ClientMods!FairSpec` has weak fairness of `Next`: the loops run in the session's
thread, and every message is answered or fails after the timeout. `Terminates` then
says that no size makes the loops build messages for ever.

`CTPService!FairSpec` has weak fairness of each thread by itself, but for a `recv()`
on an open socket: the server owes nothing, nor does the application. A `recv()` on
a socket closed by another thread returns only where the platform says so, which is
why `TimeoutRestores` and `StopHeard` are about such platforms (`wakes`).

`PrepareSync`, `ServerItems` and `MediaLuid` have no fairness. Deadlock is not checked
where a session that is over stays so, or where the bounds are reached.

Runs that expect a violation, each for a statement in the code or its documentation
(`findings` in `PROJECT.json`):

| run | statement | what happens |
|---|---|---|
| `SyncSessionZero` | SyncClient.h:79, `sync()` returns "0 on success, an error otherwise" | a source that cannot write an item puts itself in error and sets no error code (`FileSyncSource.cpp:358`): no anchor for it, and `sync()` returns 0 |
| `SyncSessionMappingLost` | MappingsManager.h:83, used at the next sync "if something goes wrong" | mappings are reset before the answer is examined: an unreadable answer or a refusal loses them |
| `CTPServiceGivesUp` | CTPService.cpp:844-849, the thread "exits only in case of" four causes, an error of the socket is "pulled down and restored" | an answer that does not come after the second AUTH is read through a NULL pointer (978) |

### What the code does otherwise

Met while modelling, without a run of their own; the models do what the code does,
and the properties except it:

- `removeAllProperties()` leaves the journal, which is replayed, though
  `PropertyFile.h:123` says "in memory and in the storage".
- A source that is refused leaves `syncItem` behind: a later slow source sends it as
  its own, a two-way one meets `assert(syncItem == NULL)` (`SyncManager.cpp:1348`,
  against "skip the source" at 1686). `ClientMods!foreign`; the second half of
  `FailureIsolated` says that this is the only way one source ends the others.
- An abort during the server's items makes `sync()` return 0, and anchors are
  committed for what was not sent (`SyncManager.cpp:2086`).
- A source that fails by itself before its turn takes the final tag with it (1746):
  it is in `toSync` and never in `iterator`. `FinalSentOnce` excepts it (`skipped`).
  One that fails at any moment sets no error code of the session, so that `sync()` may
  return 0: `SuccessMeansAll` says what a 0 still means, and the run `SyncSessionZero`
  refutes what the documentation says.
- `chunk` is deleted and not set to NULL after a deletion (1580); a deletion that
  does not fit is dropped (1557-1564); a file whose last byte filled a message has
  no last chunk, as `FileInputStream::eof()` needs a read beyond the end.
- `percMaxMsgSize` is static and computed for the first session of the process
  (154): with a first limit twenty times the present one `ClientMods!Terminates`
  fails. So it does with a limit below 154 bytes: no byte of an encoded file fits
  beside the tags, and the loop sends empty messages for ever. `LoopsDescend` states
  what is enough.
- A new object while one is incomplete is dropped with it (2296-2309); the beginning
  of a version given up stays in front of the next one (the items compare equal).
- An edit between the read of an item and its status is never sent
  (`CacheSyncSource.h:59`); a file the server added under its name is sent back as
  deleted and as new (`CacheSyncSource.cpp:396`).
- A slow sync, or a status that was lost, gives a file a second LUID; the journal
  brings entries of the account before back after a crash; a "(null)" signature
  counts as a change.
- An empty answer without a transport error makes `prepareSync()` return 0 with
  nobody authenticated (603-624). When the server must be asked for its credentials
  after it accepted the client, the next message has no alert and every source ends
  in error (-1), and the nonces are not kept (484-516, 655-673). The device
  information is sent once, even if that message is refused (529-537); its hash is
  not initialized when it is not to be sent. A server that alternates between types,
  or fails MD5 again and again, keeps the loop going. Alert statuses other than
  none, 404 and 415 do not stop a source.
- A crash inside `PropertyFile::close()` (145) takes what the file had and the journal
  has not: entries of a cache, LUIDs of a map, a mapping. A file whose entry is gone is
  sent as new, its removal is not seen, and it gets another LUID (`lost`,
  `forgotten`).
- Push: `openConnection()` resets `leaving` and loses a stop (256); two threads in
  `closeConnection()` delete the socket twice (298), or the later one sets to NULL what
  the CTP thread has opened since: the connection stays, and its reader in `recv()` on
  a socket that neither a stop nor a timeout closes (`Forgotten`); a parameter of a
  jump that is neither FROM nor TO makes the CTP thread spin
  (1049-1055); a heartbeat sent late leaves the
  state at `WAITING_RESPONSE` while the CTP thread sleeps, which then takes it for
  another active thread and ends; a timeout counts from when the state was set, so
  an answer that came before is waited for again (798); on Linux a closed socket
  does not wake its reader.

Definitions called mutants stand before the one they alter: each is a plausible
mistake that some property of a passing run rejects.

## 4. Proofs

`PropertyFileProofs` proves, for any sets of keys and values and any journal
bound: `TypeCorrect`, `ReplayCorrect`, `DurableWhenIdle`, `OthersDurable`,
`CloseCrashBounded` and `Refinement` (`Spec => ImplementsDurableStore`). The
assumptions are those of the module: the two markers are not values, the bound
is a natural number. The argument: the inductive invariant `IInv` is the
conjunction of the type invariant and the four properties with two facts on the
call under way and on a half-written node file. Everything about the journal is
reduced to lemmas on `Replayed` for an appended entry, an empty journal and one
replayed entry. The refinement has one step per action, each mapped to `Put`,
`RemoveAll`, `Persist`, `Lose`, `Restart` or a stutter.

`SyncSessionProofs` proves, for any number of sources, messages, mappings and
sessions and any set of sources that may fail by themselves: `SessionTypeCorrect`,
`MappingsAreKept` and `AnchorsAreMapped`. The type invariant is not shallow
there: that `count`, `iterator` and the source of the message at hand stay in
range rests on the tests of the loop. `IInv` adds to it `MappingsSent` (at each
point of the loop, which stores are covered by the mappings gathered for the
message or carried by an answered one: that is why a reset removes no other
mapping) and `AnchorsLast` (anchors are committed in the last phase only, when
the stores of the sources they belong to are empty). Each of the three parts of the
type invariant, and each addition, is a lemma with one step per action.
`AnchorsAreComplete`, `FailuresAreIsolated`, `FinalIsSentOnce` and `SuccessIsTrue`
are about the end of a session, and `RunInv` says what they rest on in the loop:
`Complete` (the sources the loop has been through have sent everything), `Noted` (a
message that went wrong leads to an error, and to no anchor), `Counted` (`iterator`
and the sources ahead make up `toSync`) with `FinalInLoop`, `NotTwice` and `FinalAfterLoop` (where the final tag is at
each point), `LeftOver` with `LeftBehind` (whose item `syncItem` is: past the sources
it is that of one refused earlier) and `ErrorKept`. All four hold for any `Fallible`.
`Counted` is exact unless a source failed before its turn: `iterator` and the sources
ahead make up `toSync` or, if one did, less than that.

`CacheSourceProofs` proves, for any files, contents, signatures and modes and
for both forms of keys: `CacheTypeCorrect`, `UnchangedIsShared` and
`SharedCached`. `UnchangedMeansShared` is not inductive, for it compares the
cache with files that the user changes at any moment. `CacheIsShared` says
instead that an entry is the signature of what the server has, whatever the file
holds; with `AnswerIsTrue` (a success means that the server has what was sent) it
is inductive. All ways of touching the cache are reduced to a few lemmas
(`Untouched`, `Accepted`, `Noted`, and `Cleared` for what a clear or a crash keeps).

`ClientModsProofs` proves, for any number of sources, any work and any limits:
`ModsTypeCorrect`, `MessagesFit` and `ChunksOrdered`. That a message fits rests on
`ChunkFits`, a lemma about the encoding: what is read, which is what
`getMaxDataSizeToEncode()` allows of the room left, is no larger than that room once
encoded. `TypeInv` adds to the types that the position of a stream is within its
item (`ReadInItem`). For the order of chunks `IInv` adds that items not begun are
untouched (`FreshUntouched`), that the item kept is at its list's cursor with `read` the number of bytes sent
(`SyncItemAt`), and that an item is begun once (`BegunOnce`). `AllIsSent` and
`LostOnlyForCause` need `SentInv`, which says where each list stands: `Overs` (by the
step, which lists are over), `Handled` and `Ended` (what is behind the cursor, or of
a finished source, was sent whole or given up), `OwnItem` and `Carried` (whose item
`syncItem` is; a refused source leaves it to the next), `Freed` (a chunk that
was deleted is a deletion's, the last list of a source) and `ReadShort` (only a
file is kept when it was read to its end). `LostOnlyForCause` supposes
`FirstMaxMsgSize >= 80`, that is `percMaxMsgSize >= 4`: with less, room in which not
one byte of base64 fits counts as enough, and a large item may be given up. The
default limit of `DefaultConfigFactory.cpp:74` is 10000.
`LoopsDescend` is the safety half of `Terminates`: the eightfold `Variant` (sources
left, the last message, the steps and items and bytes left, a freed chunk, the
place in the loop) consists of natural numbers and every step lowers it in
lexicographic order, under `RoomForAny`: a message without items has 154
bytes, and room for an item of any size by the code's own measure. TLC shows that
both are needed (section 3). That no endless behaviour lowers such a tuple for ever,
and fairness, are left to the run.

`ServerItemsProofs` proves, for any objects, cuts and limits: `ItemsTypeCorrect`,
`BuffersBounded`, `ClientInStep` and `ServerIsTold`. `ClientInStep` relates client
and server, and needs the message in between: `OneSending`, `StatusesInMessage`
(both in `TypeInv`), `Buffer`, `Held` (what `incoming` holds is the part of the
object sent so far), `OneSilent` and `Known`. `ObjectsGivenWhole` and
`RefusedOnlyForCause` add what the buffer holds chunk by chunk: `Pieces` and `Wholes`
(the incomplete item, and each object given to a source, consist of the chunks of
one object in their order, behind chunks of versions the server gave up), `Pending`
(what `incoming` may be while no chunk of it is under way) and `Causes` (why an
object is refused).

`MediaLuidProofs` proves, for any files, accounts, LUIDs, crashes and losses:
`LuidTypeCorrect`, `LuidsAreUnique` and `StatusPathFound`. `IInv` says that the next
LUID is above the map whenever one can be taken (`NextIsRead`, `NextIsAbove`), above
all those given as long as the configuration is there (`GivenCounted`), and that the
item sent is in the map (`ItemInMap`). `NotSentKnown` and `NewLuidHasCause` compare the
cache with the server, across crashes between its files and changes of the account.
`FaithInv` says it of what a restart would have (`Kept`, `Owner`): `OwnerInv` (cache
and files belong to one account), `Backed` (the files say what the cache says),
`Faithful` (the server of that account has what is in the cache, once, under the
LUID of the map, and nothing of what is not) and `StatusInv` (what the server did
with the item whose status is under way).

`CTPServiceProofs` proves, for any numbers of starts, connections and sessions and
on any platform: `ThreadsTypeCorrect`, `DeletedTwiceForCause`, `NoConnectionLeaks`,
`OneReaderHolds` and `TimeoutHasCause`, the last three for one CTP thread at a time,
as the properties say. `NothingLeaks` and `TwiceForCause` are about threads that do
not meet in `closeConnection()` (`clash`): outside that the code keeps neither. The
type invariant says which steps each kind of thread takes
and that a thread that has not begun does nothing. On it rest, while no two threads
close at once, `OneCloses` (one thread is between its test and its assignment, holds a
socket nobody deleted, and is the only reason for a deleted socket to be pointed at)
and `OneClosed` (what it deletes is what the pointer has); with one CTP thread, `NoneOpen`
(a connection is opened where there is none) and `Waited` (a message noted as sent is
owed an answer, or raced); and `Waiting` (a receiver reads only while its CTP thread
waits for it). Every
action is one of a few kinds, once (`NextSteps`, `NextMovers`), so that the
invariants are shown for the kinds.

`PrepareSyncProofs` proves, for any number of sources, configurations, sessions and
rounds: `PrepareTypeCorrect` and `GoesOnWithCause`. `GoesOnForCause` is about the end,
and `GoesInv` says what it rests on at each step before: a server that counts as
authenticated where it has to be is the honest one (`ServerTrusted`), the loop goes
on only while a source is left (`SourcesLeft`), the answer of an honest server says
what the server decided (`ReplyTrue`), and past `Alerts` it has accepted the client
and refused no active source (`Accepted`). `ret` is what the last source with a
status leaves in it: that there is such a source for any number of them takes
well-founded induction (`Largest`, from `WFMin`), and `HonestCodes` derives from it
what `ret` says of all.
`NoncesStayInStep`, `DevInfMissingForCause`, `RetriesHaveCause` and `HealsByItself` are
about what is kept from one session to the next. `NonceInv`: without MD5 there are
no nonces (`NoNonces`), after the first answer the client has the nonce the
server expects or the answer to take it from (`Same`, `Challenged`), and a session
that is not over lacks one of the authentications (`Lacks`), so that success is
followed by saving (`Saved`). `DevInfSent`: with Basic on both sides the first message
is accepted, or none is. `RoundsInv` follows each of the three ways to stop within
two rounds (`HonestRounds`, `BasicRounds`, `ClientRounds`). `HealInv` follows a session
nobody disturbs (`Smooth`: no error so far, and the client's next credentials are
right or it may try again), from `Blank` on; that a server which must be asked still
must be at the end rests on `Fresh`: the nonce it is told is one that is in
use nowhere (`Renewed`).

The theorems on `ClientMods` rest on `NoneAssumption` besides the assumptions on its
numbers: the model's `None`, which stands for NULL, is neither a list nor an item.

Only model-checked: the liveness properties (`AbortEnds`, `SessionEnds`, `Converges`,
`Terminates`, `TimeoutRestores`, `StopHeard`), as fairness is out of the prover's
reach. Every safety property that a passing run checks is stated by a theorem. The
three properties of section 3 that TLC finds violated are no theorems.

## 5. Not modelled, and what is left

Most of the repository's lines have no state a model could check, and are left out
for that reason: the objects of `syncml/core` with their builder, formatter and
parser, `vocl`, `mail` and `filter` are conversions of data from one form to
another; `base/util` is containers and strings; `cpp/posix`, `cpp/windows` and
`cpp/symbian` are ports of the platform; `DMTClientConfig` and the configurations
copy properties to and from the management tree; tests and examples are not the
engine.

Of the engine itself: `Updater` is a sequence of questions around a date and two
flags; `ManageListener` is list operations of one thread; the SQL stores and
`ConfigSyncSource` are adapters. In `PropertyFile` the escaping and the 511-character
line are left out (hazards name them): that is a conversion, to be checked against a
reference over bounded strings. In `CacheSource` a write that fails is left out. In
`CTPService` the reclaiming of thread objects, `checkStartSync()` and the content of
the messages are left out; so is a second CTP thread in the run, not in the proofs of
types and of `TwiceForCause`. In `ClientMods` encryption, which changes sizes, is
left out.

Theorems left to prove: what the other liveness properties rest on, as
`LoopsDescend` does for `Terminates` (variants of the loops of `SyncSession` behind
`SessionEnds` and `AbortEnds`); that a sync without a disturbance leaves client and
server of `CacheSource` alike, which is the safety half of `Converges`; and that
`MediaLuid` implements an abstract map from files to LUIDs.
