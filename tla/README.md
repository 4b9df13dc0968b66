# MiniKVStore in TLA+

TLA+ models of MiniKVStore, a key-value engine in C++ that keeps its data in an
append-only file: what TLC checks on small instances, what TLAPS proves for all.
Paths are those of the repository (`src/AppendOnlyStore.cpp`,
`include/minikv/LruCache.h`, ...).

## 1. The system

| component | state | operations | talks to |
|---|---|---|---|
| Record format (`Record.h/.cpp`, `parseHeader`, `writeRecord`) | none | encode, parse, checksum, `isExpired` | used by the store |
| `AppendOnlyStore` | the data file, `file_` and its buffer, `fileMutex_` | `open`, `recover`, `appendSet`, `appendDelete`, `readValue`, `compact`, destructor | called by the engine, each call under `fileMutex_` |
| `LruCache` | list `entries_`, map `index_` of iterators, counters, `mutex_` | `get`, `put`, `erase`, `clear` | called by the engine |
| `KeyValueStore` | `index_` under `indexMutex_` (shared/exclusive), `opened_`, counters | `open`, `close`, `set`, `get`, `exists`, `remove`, `keys`, `compact`, `cleanupExpired`, `statistics` | calls store and cache |
| background cleaner | `cleanerThread_`, `stopRequested_`, condition variable | `cleanerLoop`, stop and join in `close` | calls `cleanupExpired` |
| `CommandParser` | none | `tokenize`, `parse`, TTL conversion | called by the shell |
| shell (`app/main.cpp`) | `config` | read arguments, open, one command per line, close | the one client of its engine |
| `Status`, `Result` | values | none | everywhere |
| benchmark, tests | none | call, compare | clients of the engine |

What makes each correct, and what is hard about it:

* **store**: an acknowledged write survives a crash of the process at any point;
  recovery removes an unfinished last record and nothing else; a compaction
  changes nothing that can be seen, also when it is cut short. Hard: crashes
  inside recovery and compaction, I/O errors half-way, the buffer of the stream.
* **engine**: calls of several threads are linearizable, no `get` returns an
  expired or overwritten value, index, log and cache agree. Hard: the gap
  between the shared and the exclusive lock in `get`, `open` outside the lock,
  the clock moving between two looks at it.
* **cache**: list and map agree, the least recently used entry goes. Hard:
  iterators into freed nodes.
* **cleaner**: `close` ends promptly and never hangs. Hard: lost wake-ups,
  `open` and `close` at the same time.
* **parser**: every line is split as its quotes say. Hard: empty strings, strings
  inside words, unfinished escapes.
* **shell**: answers are what the commands before require, deadlines are exact as
  long as they are integers of the machine.
  Hard: overflow of `now + ttl` (undefined) and of the interval, expired keys that are still
  in the file, statistics that two threads count.

`PROJECT.json` lists the hazards line by line.

## 2. Modules

| module | models | role |
|---|---|---|
| `Record` | record format and files | operators |
| `DurableMap` | what the storage promises across restarts | abstract |
| `AppendOnlyStore` | the store as the engine drives it, one call at a time | implements `DurableMap` |
| `AppendOnlyStoreInv` | | inductive invariant |
| `AppendOnlyStoreProofs`, `AppendOnlyStoreSafety` | | theorems |
| `RecencyCache` | what an LRU cache promises | abstract |
| `LruCache` | `LruCache.h` | implements `RecencyCache` |
| `LruCacheProofs` | | invariant, refinement, theorems |
| `KVMap` | what the engine promises to threads | abstract |
| `KeyValueStore` | the engine with threads and locks | implements `KVMap` |
| `KeyValueStoreProofs` | | lock, cache, index and log, theorems |
| `KeyValueStoreRefinement` | | linearizability, theorems |
| `CleanerThread` | `open`, `close`, destructor, `cleanerLoop` | detailed |
| `CleanerThreadProofs` | | inductive invariant, theorems |
| `CommandParser` | `CommandParser.cpp` | operators |
| `CommandGrammar` | what a line means | reference for `tokenize` |
| `CommandParserProofs` | | `tokenize` reads as the grammar, theorem |
| `Shell` | `main.cpp` around parser and engine | composition |
| `ShellProofs` | | inductive invariant, theorems |
| `MC*` | | instances for TLC |

Definitions commented "Mutant:" are wrong on purpose. Nothing uses them; each is
a plausible slip in the definition that follows it, and the property named with
it in `PROJECT.json` fails when it is put in its place.

### Record and files

A file is its size and a set of *chunks*. A chunk is the trace of one write of a
record: where it starts, how many of its bytes arrived, whether the medium has
altered them (`"size"`: a length field, `"payload"`: anything else). Bytes are
counted, not stored. Two assumptions: the checksum is perfect (bytes that are
not a whole unaltered record never pass), and `kRecordHeaderSize`, `KeySize` and
`ValueSize` are parameters, 2, 1, and 1 or 3 in the runs and anything positive
(values also empty) in the proofs.

### AppendOnlyStore

Calls hold `fileMutex_`, so an append or a read is one action. `recover` is one
action per iteration of its loop and one for the truncation; `compact` one for
its preparation, one per record, one for the rename, one for opening the new file
and installing the index: a crash can fall between any two, and `SetCrash` and
`RemoveCrash` let it fall inside an append, after any number of bytes.
`pending` is what a failed write leaves in the buffer of `file_`; seeks and
`close` write it out, or fail to. `Faults` says which errors may happen.

| action | code |
|---|---|
| `Open` | `KeyValueStore::open`, `AppendOnlyStore::open`, `recover` up to its loop |
| `RecoverRecord`, `RecoverTail`, `RecoverCorruption`, `RecoverReadFails`, `RecoverDone` | the iterations and exits of the loop |
| `TruncateTail`, `TruncateFails` | `resize_file` and reopening |
| `Set`, `Remove`, `...Fails`, `...Crash` | `set`, `remove` with `appendRecordLocked` succeeding, failing, cut short |
| `ReadValue` | `readValue` |
| `EraseExpired`, `CleanupExpired` | expiry in `get`/`remove`; `cleanupExpired` |
| `CompactBegin` ... `CompactReopenFails` | both `compact` functions, every exit |
| `Close`, `Destroy`, `Crash` | `close`, the destructors, the death of the process |
| `Tick`, `BitRot` | clock, medium (external) |

`allowed` is a history variable: for every key the results a client may see. An
acknowledged write leaves one, a failed or interrupted one leaves the old ones
and its own.

`DurableMap` is the promise behind all this: a map that outlives its process. A write
that was acknowledged is in it, one the process dies in is in it or not, decided
then and there; an open store shows the map and nothing else; entries leave it
when their time has come. The refinement mapping is

* `Opened`: the store answers, also in the middle of a compaction;
* `Db`: for every key its last complete record in the file, unless that is a
  tombstone or has expired;
* `View`: what a lookup answers through the index. Between the rename of
  a compaction and the installation of its index (`"renamed"`) the file is
  already the new one, so the lookup goes through the new index: no call can
  get in between, because `compact` holds the lock over both.

`AckedVisible` and `DurableMap` are not the same. `allowed` keeps every result an interrupted
write leaves open for as long as no later write settles it, so a store that shows such a
write after one restart and not after the next satisfies `AckedVisible`. In `DurableMap`
the first restart has already decided.

Abstractions: a crash is one of the process, so what `write` has passed to the
system stays (the code calls `flush`, not `fsync`); a missing data file is an
empty one; a call that fails because the file cannot be opened changes nothing
and is a stuttering step; the cache is left out (`KeyValueStore` has it); the medium
alters bytes (`BitRot`) only while the store is closed. An alteration under an open
store is not covered: `readValue` does not look at the checksum, and `compact` would
write the altered value out with a fresh one.

### KeyValueStore and KVMap

Each call is broken where another thread can get in: at `indexMutex_`, between
calls of storage, cache and index, at unprotected looks at `opened_`. `writer`
and `readers` are the lock, `pc` says where a thread is. The storage is the
sequence of its records, its calls atomic; an error (`StorageFails`) leaves
it as it was, since what other errors do to the file is the subject of
`AppendOnlyStore`. The cache drops any entry when it is full, which covers the choice
`LruCache` is shown to make. `exists` is `get`; `prefix` of `keys` is empty.
Prefixes, validation and the counters behind `statistics` are in `Shell`. The exit
of `open` where the cleaner cannot be started and `opened_` is taken back is in
`CleanerThread` (`OpenStartFails`); here `OpenFlag` always succeeds.

`KVMap` is a map in which every call takes effect at one moment. The refinement
mapping reads its contents off the log: `set`, `remove` and `compact` take
effect when the log changes, `get` when it looks at the clock, in the index,
under the shared lock. `KVMap` leaves room in four places, each because the code
does: the TTL starts at some moment of the `set`; `remove` answers OK if the entry
was alive at some moment of the call; `keys` may list an entry that has expired,
never one that was removed; a `get` may end in an error after it has found the
entry.

### LruCache and RecencyCache

A list node is an address; `splice` moves it, `erase` frees it, the allocator
hands freed addresses out again. `index` maps keys to addresses, so that a
forgotten update shows as a dangling iterator. `RecencyCache` knows values and
times of last use only.

### CleanerThread

The flags `opened_` and `stopRequested_` and the object `cleanerThread_` are used
without a lock, so every access to one is a step. `wait_for` is three: testing the
predicate, blocking, and being woken up, by the notification, spuriously or by
the timeout. `close` notifies without `cleanerMutex_`, so the notification can
fall between test and block and is then lost; nobody but the cleaner takes that
mutex, and it does not appear. `cleaner` says where the thread is, `expired`
whether the index holds an entry whose time has come.

| action | code |
|---|---|
| `OpenCheck`, `OpenRecover`, `OpenReset`, `OpenFlag`, `OpenStart`, `OpenStartFails` | `open`, line by line; recovery and thread creation may fail |
| `CloseExchange`, `CloseStop`, `CloseNotify`, `CloseJoin` | `close`, line by line |
| `Destruct` | the members go after `close` in the destructor |
| `Loop`, `Test`, `Block`, `WakeUp`, `Timeout`, `Decide` | `cleanerLoop` and `wait_for` |
| `PassClosed`, `PassOpen`, `Erase` | `cleanupExpired`, as the cleaner calls it |

Assigning to a joinable `std::thread`, or destroying one, ends the program
(`life = "terminated"`). That can happen when calls of `open` and `close` overlap, a
use the code does not protect against; `overlapped` remembers it, and the safety
properties are about everything else. `late` counts the waits and passes that
end after the stop request; `woken` says whether the notification behind that
request reached a blocked cleaner. When it did not, it is lost.

### CommandParser, CommandGrammar and Shell

A line is a sequence of symbols (`Symbols`, any set): quote, backslash, white space, and
runs of ordinary characters. `Spaces` are the symbols `std::isspace` calls white
space, blank and tab in the run; `Upper` and `Number` say which runs `toupper`
changes and which spell an integer. `tokenize` is a fold of `Consume`, the body
of the loop, over the symbols. `CommandGrammar` reads a line by recursive descent
instead, as functions on all sequences of symbols, and knows nothing of flags
(`inQuotes`, `escaping`, `tokenStarted`). That both read the same is
`TokenizeFollowsGrammar`. Integers have the
width `MaxInt` says: 5 in the run, with seconds of 2 milliseconds, so that TTLs of
2 seconds overflow once the clock has moved and 3 seconds are refused.

`Shell` composes the parser with the engine as one client sees it. A call is one
step, except that `get` erases an expired key in a second one (`eraseIfExpired`):
the cleaner can come in between. Of the data file `stored` keeps the last entry of
every key. `meant` and `created` are history: what the acknowledged commands mean
as a map with deadlines in unbounded integers, and how many keys have entered the
index.

Conversions between unsigned and signed integers wrap (`Wrap`). The sum of clock and
TTL in `set` is different: it is a signed addition without a check, and C++17
leaves its overflow undefined. `ExpiryTimes` therefore lets an overflowing `SET` store
any integer of the machine; `Overflowed` are the keys it happened to, and `Determined`
the commands whose answer does not depend on one of them. An undefined
operation may do worse than give a wrong integer (UBSan, for one, can stop the
program); that is not modelled.

| action | code |
|---|---|
| `Launch`, `TakeArgument`, `RefuseArgument` | start and the loop over `argv` |
| `OpenStore`, `OpenRefused` | `store.open()` |
| `Answer` (`BadLine`, `Dispatch`, `ExitCommand`) | one iteration of the loop over the lines |
| `eraseIfExpired` | second half of `get` |
| `EndOfInput` | `getline` fails |
| `CleanerPass`, `Tick` | `cleanupExpired` by the cleaner, clock (external) |

I/O errors and crashes are left to `AppendOnlyStore`. That the clock may advance
inside a call, and what the answer then may be, is a subject of `KVMap`.

## 3. What TLC checks

| run | question | bounds | answer |
|---|---|---|---|
| `crash` | Is the store a map that outlives its process, and does an acknowledged write survive crashes, failing compactions and truncations, altered payloads? `ImplementsDurableMap`, `OnlyWritesChangeTheMap`, `AckedVisible`, `IndexPointsToRecord`, `TornOnlyAtTail`, `TruncationKeepsRecords`, `CompactionPreserves`, `TypeOK` | 2 keys, 2 values of different length, file of up to 11 bytes (3 records), 1 crash and any number of closings, 2 clock values | yes |
| `live` | Does the invariant of the proofs hold, and does a store that is down come up, also with a crash in the recovery from a crash? `IInv`, `Restartable` | 2 crashes, failing compactions | yes |
| `errors` | Which error can spoil the index? `IndexBreaksOnlyAtInstall` | 1 key, all errors | only `"install"` |
| `lru` | Does the cache implement LRU? `ImplementsRecency`, `IteratorsValid`, `TypeOK` | 3 keys, capacity 2, 6 uses | yes |
| `engine` | Are the calls linearizable? `Linearizable`, `CacheCoherent`, `IndexMatchesLog`, `TypeOK` | 2 threads, 1 key, 2 values, 3 calls and an open, 2 clock values, non-empty file at the start, storage errors | yes |
| `two_keys` | ... with keys that compete for the cache, and does every call return? `Linearizable`, `CacheCoherent`, `IndexMatchesLog`, `EveryCallReturns` | 2 threads, 2 keys, 1 cache slot, 3 calls and an open, a file with both keys, one about to expire | yes |
| `cleaner` | Does the cleaner start, stop and do its work? `TerminatesOnlyOnOverlap`, `ClosedMeansQuiet`, `StopsPromptly`, `CallsReturn`, `ExpiredIsErased`, `TypeOK` | 2 callers, 6 calls, with and without cleaner, valid and invalid interval | yes; `close` is prompt only if its notification is not lost |
| `shell` | Do the answers follow from the commands? `AnswersFollowHistory`, `TokenizeFollowsGrammar`, `StatisticsBalance`, `IntervalAsAsked`, `TypeOK` | 3 lines in 2 sessions, 3 clock values, 2 keys; the first line any of up to 5 symbols out of 4, or a command | yes, for deadlines that do not overflow |
| `failed_append` | `AckedVisible` with failing appends | `"append"` only | **violated** |
| `failed_reopen` | `AckedVisible` when the compacted file cannot be opened | `"install"` only | **violated** |
| `altered_size` | `TruncationKeepsIntactRecords`: are the records behind an altered one safe? | `"size"` only | **violated** |
| `second_open` | `IndexMatchesLog` with overlapping `open` | 2 calls of `open` | **violated** |

Why the bounds are enough: three records are an old value, a new one and something
behind it, which is what replay, truncation and compaction can get wrong; two lengths
make stale offsets land inside other records; clock values 1 and 2 with TTL 1 let
every entry be alive and expired. Two threads and three calls are the writer, the
reader and the one that gets in between. In `crash`, the crash at any step may be
followed by restarts without one, which is where a decision could be taken back; two
crashes are in `live`, where `IInv`, of which the properties of `crash` are proved to
follow, is checked. Keys are symmetric in `crash`, keys and threads in `engine`
(`SYMMETRY`); `live` and `two_keys` check liveness and use no symmetry. `MaxTorn`
bounds the incomplete records that I/O errors leave behind. Six calls of `open`,
`close` and destructor are enough to close a store, open it again, fail to open it
and destroy it. Two callers overlap in every way but one: two `join`s at once need a
third. Three lines are a value, something that happens to it, and the question what
became of it, with the end of the program anywhere between; five symbols hold a
string inside a word, an empty one, and an escape that does not end.

Fairness. `live`: the steps of `open` and `recover` are not put off for ever (weak
fairness of `Recovery`): it is a sequential function that somebody runs. Crashes
are bounded, so it is finally left alone. `two_keys`: every thread that
is in a call runs on (weak fairness of `Step(t)`). The number of calls is bounded;
with unbounded calls `std::shared_mutex` promises no fairness, and nothing is
claimed. In that run TLC's deadlock check is off: threads stop when
they have made their calls, and one stuck in a call is what the property is about.
`cleaner`: callers inside a call and the cleaner run on (weak fairness), and a
blocked cleaner times out (strong fairness of `Timeout`: `wait_for` with a predicate
has one deadline, so a spurious wake-up does not put it off). Weak fairness of the cleaner's
`Erase` takes it that the cleaner obtains `indexMutex_` exclusively in the end,
which `std::shared_mutex` does not promise either when readers never cease. `Expire`, `WakeUp` and
new calls are not fair. `shell` has no liveness; its deadlock check is off because
the lines come to an end.

### Where code and documentation disagree

Four runs end in a counterexample, and two pass with a property that had to leave
room for what the code does. `PROJECT.json` quotes what each contradicts.

1. `failed_append`. A failed append leaves bytes in the buffer. At the next `open`
   on the same object `seekg` fails to write them, the header read gets nothing,
   and recovery takes the whole file for an incomplete tail.
2. `failed_reopen`. `compact` returns before the index is replaced; the old
   offsets are then used in the new file.
3. `altered_size`. Length fields are believed before the checksum is checked, so
   an altered one makes recovery cut off the complete, unaltered records behind it,
   where the documentation promises `CORRUPTION` and a file left alone.
4. `second_open`. `open` recovers outside `indexMutex_`; a `set` that completes
   meanwhile vanishes from the index until the next restart.
5. `cleaner`. The documentation says that `notify_all()` wakes the wait at once.
   `close` sets the flag and notifies without `cleanerMutex_`, so the notification
   can fall between the cleaner's test and its wait; `close` then blocks for a whole
   `cleanupInterval`. The two cases of `StopsPromptly` say so: nothing ends after the
   stop request if the cleaner was woken, up to one wait or pass otherwise. With 0 in
   both cases it is violated.
6. `shell`. `set` adds clock and TTL without a check, and `parseTtl` refuses only TTLs
   whose product with 1000 overflows. For one just below that limit the sum overflows, which is
   undefined; the deadline stored may then be any integer. `AnswersFollowHistory`
   leaves these keys out (`Determined`); without that condition it is violated.

Two more of the kind have no run of their own; adding `"append"` or `"read"` to
`Faults` in `AppendOnlyStore_crash.cfg` shows them. The append after a failed one
writes behind its fragment (`TornOnlyAtTail`), and a header that cannot be read
counts as an incomplete tail (`TruncationKeepsRecords`).

## 4. What is proved

All with TLAPS, from the assumptions on constants the modules state, for every set
of keys, values and threads, all sizes, and any number of calls, crashes and clock
values. Each invariant below was checked by TLC before it was proved or is checked by
a run.

| module | theorem | property |
|---|---|---|
| `AppendOnlyStoreProofs` | `TypeCorrect`, `IndexBreaksOnlyThere` | `TypeOK`, `IndexBreaksOnlyAtInstall`, for all errors |
| `AppendOnlyStoreSafety` | `Invariant`, `AckedVisibleHolds`, `IndexPointsToRecordHolds`, `TornOnlyAtTailHolds`, `TruncationKeepsRecordsHolds`, `CompactionPreservesHolds`, `ImplementsDurableMapHolds`, `OnlyWritesChangeTheMapHolds` | of the same names, for `SafeFaults` |
| `LruCacheProofs` | `TypeCorrect`, `IteratorsStayValid`, `RefinesRecency` | `TypeOK`, `IteratorsValid`, `ImplementsRecency` |
| `KeyValueStoreProofs` | `TypeCorrect`, `CacheStaysCoherent`, `IndexFollowsLog`, `OneOpenFollowsLog` | `TypeOK`, `CacheCoherent`, `IndexMatchesLog` |
| `KeyValueStoreRefinement` | `CallsAreLinearizable`, `OneOpenIsLinearizable` | `Linearizable` |
| `CleanerThreadProofs` | `TypeCorrect`, `TerminatesOnlyOnOverlapHolds`, `ClosedMeansQuietHolds`, `StopsPromptlyHolds` | of the same names |
| `CommandParserProofs` | `TokenizeReads` | every text is read as the grammar reads it |
| `ShellProofs` | `TokenizerFollows`, `TypeCorrect`, `KeysAreCountedOnce`, `IntervalIsKept`, `AnswersAreExpected` | `TokenizeFollowsGrammar`, `TypeOK`, `StatisticsBalance`, `IntervalAsAsked`, `AnswersFollowHistory` |

### The store

`SafeFaults` are the errors the code recovers from: `"resize"`, `"tmp"`, `"rename"`,
`"reopen"`, `"payload"`. Section 3 shows why `"append"`, `"read"`, `"install"` and
`"size"` cannot be added. Assumptions: those on constants in `Record` and
`AppendOnlyStore`. Sizes are positive, `None` and `Garbage` are no values, and `None`
is no record, metadata or file.

`AckedVisible` says nothing of a closed store, so it is not inductive: the file must
remember. `IInv` adds

* `FileInv`: chunks lie end to end, and for every key the last complete record
  agrees with `allowed` (`Agrees`), up to entries that have expired on both sides;
* `TornInv`: an incomplete record is last, and an open store has none;
* `ScanInv`: the loop invariant of `recover`: the index built so far is
  `IndexOf` the part of the file read so far;
* `TruncInv`: the place where the file is about to be cut is the start of an
  incomplete record;
* `IndexInv`: the index of an open store is `IndexOf` the whole file;
* `JobInv`, `RenamedInv`: the compaction file holds one copy of every live
  record done so far, under the offsets of the new index.

`IndexOf` lets a key without an entry have an expired last record: the code
erases expired entries without a tombstone. That an expired entry stays expired
(`DeadLater`) is where the proof uses that the clock does not go back.
`ValueAtMetadata` (value bytes of different records do not overlap) makes
offsets as good as records. `InvNext` has one lemma per group of actions.

`IndexBreaksOnlyThere` is about all errors at once, so it cannot lean on `IInv`: with a
failed append in the file even its layout is not sound. What survives is `BuiltInv`:
what `recover` has built designates complete records in the part of the file it has
read, and what `compact` has built designates complete records in the compaction
file. Every other step only adds to the file.

The refinement of `DurableMap` needs no new invariant. `IInv` gives `ViewShows`: the
index of an open store answers with `Db`. What is left is one lemma per group of
steps, each about the last record of every key: recovery reads and cuts off only what
is no complete record (`StoredCut`, `RecoverySteps`), an incomplete record hides
nothing (`StoredTorn`), an altered one stays what the map holds, because `open` fails
rather than skip it (`StoredAltered`), a compaction copies every live record before
the rename puts its file in place (`CompactionStep`), an append changes one key
(`WriteStep`), a crash inside it one or none (`WriteCrashStep`), and time takes out
what expires (`TickStep`). `OnlyWritesChangeTheMapHolds` comes out of the same lemmas
and says whose step a change of the map was.

### The cache

`LruCacheProofs!Inv` says of the list that no address and no key is in it twice, that
the map leads to every node and nowhere else (`IteratorsValid`), that the list is no
longer than the capacity (`Fits`), and that the last uses of the nodes
decrease along it (`InOrder`). With the last part the back of the list is the entry
that was used longest ago, whatever `splice` has moved: what the refinement needs. The assumption
`NoneIsNoIterator` says that "no iterator" is not an address.

### The engine

Four inductive invariants, each on top of the one before.

* `Basic`: where a thread is says what it holds of `indexMutex_`, which call it is in,
  and that a compaction about to write can write every value.
* `CInv`: every cached value is the one its index entry leads to, except while a
  compaction or an `open` is between the new file or index and clearing the cache
  (`Coherent`); a reader between reading a value and caching it still has what the index
  leads to, because it holds the shared lock (`ReaderOK`); a `set` remembers where its
  record is (`WriterOK`). It asks nothing of the callers.
* `MInv`: the entry of every key matches its last record (`EntriesMatch`), but for the
  one being changed, whose writer knows what it has appended (`WorkOK`).
* `LInv`: what a thread needs to know at the moment its call takes effect: its request,
  that the TTL counts from a moment of the call (`StartedAt`), that the entry `remove` is
  about to delete was alive at some moment of the call (`WasAlive`).

`MInv` and `LInv` hold as long as no other call runs while `open` does (`OpensAlone`):
`open` reads the file and installs the index without the lock around the two, and the
run `second_open` shows `IndexMatchesLog` fail where another call gets in between. The
hypothesis is one on the callers, and every program that opens the store once meets
it by itself: all other calls return `Closed` until `opened_` is set
(`OneOpenRunsAlone`), so that `OneOpenFollowsLog` and `OneOpenIsLinearizable` need no
hypothesis but `MaxOpens <= 1`.

The refinement has one lemma per action: an action that is the moment of effect is
the action of `KVMap`, any other one leaves the map and the answers as they are.
Assumptions: `NoneAssumption` (`None` is no thread, metadata, entry, request or
answer) and `LogsAssumption` (the file at the start is a sequence of records).

### The cleaner thread

Any set of callers and any number of calls. None of the three safety properties is
inductive; `IInv` of `CleanerThreadProofs` adds that only `open` is at its labels
(`OpInv`) and, as long as no calls have overlapped, that one caller at most is in a
call (`Alone`), what `opened_` and `joinable()` are where it is (`Known`, which also
knows where `stopRequested_` is set and where it is not), that a closed store has a
cleaner only while a `close` is about to join it (`Quiet`), and that a cleaner that
was late once has neither a wait nor a pass before it, while one that was woken has
had none (`Prompt`). The assumption is that `MaxCalls` is a natural number. Where
calls overlap nothing but `TypeCorrect` is claimed, and with three callers two of
which join at once, which is undefined, not even that.

### The shell

All lines, arguments, lengths, and every width of the integers. `IInv` of
`ShellProofs` adds to what the properties say

* `Settings`: the interval is what the conversion makes of the one asked for, and
  positive once the store is open, which leaves only those that fit;
* `Memory`: the data file and the index hold what the commands mean (`Faithful`), with
  exactly the deadline as the time of an entry where the deadline is an integer of the
  machine (`Exact`), and nothing that is still alive is missing (`Covers`); what `get`
  is about to erase is expired.

`Exact` claims nothing where the sum has overflowed, and `Lives` calls no such entry
alive, so the invariant holds whatever `ExpiryTimes` has picked. What survives is
`ExpiredIsDead`: nothing that lives counts as expired, and where the deadline has not
overflowed the two agree. `AnswersAreExpected` is therefore about
the commands that are `Determined`, which for `GET`, `EXISTS` and `DEL` depends
on their key alone and for `KEYS` and `COMPACT` on all. `ParsedSet` is where the
parser comes in: the TTL of a `SET` has been checked to be at least 1 and not to
overflow when it is converted.

### The tokenizer

`TokenizeReads` says of every text, over any set of symbols and whatever counts as
white space, that the fold and the grammar agree. The library's induction theorems
take an operator as a parameter and cannot be used; `CommandParserProofs` states
induction on the length of a text for sets instead (`Induction`), from the
well-foundedness of `<`. Recursive functions come from it:

* `Recursion`: equations in which a text is read by what shorter texts are read as have
  a solution. So `String`, `Word` and `Line` are what their equations say
  (`StringDefined`, `WordDefined`, `LineDefined`), and so is the fold (`FoldDefined`);
* `StringShortens`, `WordShortens`: what a string or a word leaves is shorter than
  what it began with, without which the equations of `Word` and `Line` are no
  recursion at all;
* `Promise(st, s)`: what the grammar makes of the rest `s` of a line, given where
  the loop is: inside a string, inside a word, behind a backslash, or between words. It
  is the loop invariant: `PromiseKept` says that an iteration leaves it as it was, with one
  case per branch of the loop, and `PromiseAtEnd` that at the end of the line it is what
  `tokenize` returns. `Sound` says which combinations of the flags there are: a string
  that is open has begun a word, and only inside one does a backslash wait.

`TokenizerFollows` makes an invariant of it: the lines of a session are texts
(`LineInv`). Assumptions: quote and backslash are symbols and no white space, and
what an escape stands for is a symbol.

### Only model-checked

* Liveness: `Restartable`, `EveryCallReturns`, `CallsReturn`, `ExpiredIsErased`. It is out of
  the prover's reach.
* What the fold `Size` computes: that a length is never negative is not proved and not
  needed.

Everything else that a passing run checks is a theorem as well.

## 5. Not modelled

* the encoding of the header and the arithmetic of the checksum: the models take
  the one to be inverted by the reader and the other to be perfect;
* loss of power (the code does not call `fsync`), a clock that is set back, failing
  `create_directories`, the overflow of an interval of centuries in `wait_for`;
* bytes altered under an open store;
* effects of an overflowing `now + ttl` other than a wrong integer;
* wording and layout of messages, `Status::toString`, the counters of recovered
  records and truncated bytes;
* benchmark and tests, which are clients of the engine.

## 6. Plan

Done: record format, store, cache, engine, cleaner thread, parser and shell with their
runs; theorems about all of them: every safety property and every refinement, those of
`DurableMap` and of the tokenizer included. Left:

1. Tie the abstraction of the storage in `KeyValueStore`, a sequence of records
   whose calls are atomic, to the file of `AppendOnlyStore`: `DurableMap` is half of
   that bridge, the other half is a `KeyValueStore` whose log is replaced by it.
2. Hazards without a property: the overflow of an interval of centuries in
   `wait_for`, and a clock that is set back between an expiry and a restart. Calls of
   `remove` and `compact` that go on after `close` are in the model and permitted
   by `KVMap`: nothing says that they must not happen.
