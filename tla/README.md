# A verification development of DeWeb

DeWeb serves websites that live on the Massa blockchain. This directory holds
TLA+ modules of the parts of it that keep state, TLC configurations that check
them on small instances, and theorems about them that the TLA+ proof system
checks for every value of the constants. `PROJECT.json` lists, for every
definition, the lines of `src/` it stands for, and for every property a
plausible bug that breaks it (the operators marked `Mutant`).

Contents: [components](#the-system), [modules](#the-modules),
[runs and bounds](#the-runs), [theorems](#the-theorems),
[disagreements found](#disagreements-between-code-and-documentation),
[what is left out](#what-is-not-modelled), [plan](#plan).

## The system

| component | state | operations | interacts with |
|---|---|---|---|
| disk cache, `server/pkg/cache/disk_cache.go` | a badger database with five keys per resource (id, data, timestamp, headers, index by id); `idCounter` and `entryCount` in memory | `SaveResource`, `Remove`, `RemoveAndGet`, `GetLastModified`, `NewDiskCache` | called by the two-level cache, under its mutex |
| two-level cache, `server/pkg/cache/cache.go` | an LRU list in RAM over the disk cache, a mutex | `Save`, `Read`, `Delete`, `GetLastModified`, `CacheHeader`, `GetHeader`, `GetHeadersForResource`, `Close` | the list's eviction callback writes to the disk cache |
| website contract, `smart-contract/assembly/contracts` | datastore: locations, chunk counts, chunks, metadata of files, global metadata, `OWNER`; its bytecode | `filesInit`, `uploadFileChunks`, `removeFileChunkRange`, `deleteFiles`, four metadata calls, `setOwner`, `upgradeSC`, `purge` | written by the uploader, read by the provider |
| provider, `server/pkg/webmanager`, `server/pkg/website` | the file list cache, the cache above | `RequestFile`, `Fetch`, `GetHttpHeaders`, `FilePathExists` | reads the contract in several calls, fills the cache |
| server, `server/int`, `server/cmd`, `server/pkg/mns` | its configuration, the stored hashes of the legal files, the cache of domain targets | booting, the disclaimer, resolving of domains and names, the allow and block lists | calls the provider |
| index contract, `deweb-index/assembly` | owner-to-address and address-to-owner keys, its owner and bytecode | `updateWebsite`, `removeWebsite`, `transferOwnership`, `upgradeSC` | reads the website contracts |
| command line interface, `cli/src` | the plan of a run, its batches, calls in flight | upload, delete, purge, immutable, metadata | calls the contract, waits for operations |
| plugin, `plugin/int` | the server process, the cached configuration, its file, `lastError` | `Start`, `Stop`, the poll of Station's network, settings | goroutines share the server and the configuration |
| settings, `plugin/int/server/config.go`, `server/int/api/config` | each field of a configuration in a request, in the cached configuration, in the YAML file, and in the server | `GetServerConfig`, `SaveServerConfig`, `LoadServerConfig`, the handlers of settings and status | the plugin writes the file, the server and the plugin load it, and a user may edit it |

What is hard in each of them, at the line where it bites, is the list of
`hazards` in `PROJECT.json`. In short: the two counters of the disk cache live
outside the transactions that change them; a call of the two-level cache is up
to three transactions, between which the process may crash, and the eviction
callback also runs when an entry is removed on purpose; the contract spreads a
file over many keys that calls in any order must keep together; an upload is
many operations, some at a time, which may fail, be lost, or be executed when
nobody waits for them any more; a provider reads a website key by key while it
changes, and two requests share what is cached of it; and in the plugin a
poller, request handlers and a monitor goroutine start, stop and watch one
process, with a mutex that is held while waiting. A field of the settings takes
part in half a dozen conversions on its way from a request to the server and back.

## The modules

### Disk cache: `DiskStore`, `DiskCache`, `DiskFifo`

`DiskStore` defines the database as a record `Disk`: a function per kind of key,
the id index as a set of (id, key) entries, the two counters and the limit. Each
operation of `DiskCache` is one `db.Update` or `db.View`, so each is an operator
on records: `DeleteEntries` is `deleteEntry` (which leaves the headers key and
ignores a resource without id), `SaveEntry` is `saveEntry`, `Evicted` is the loop
around `evictOldestEntry`, `Saved` all of `SaveResource`, `Reopened` the scan of
`NewDiskCache`. The loop takes the `Surplus(d)` lowest ids at once: each turn of
it deletes the entry with the lowest id and counts down by one.
`LoopEnds(d)` says when it ends: an eviction with an empty index changes nothing.

`WriteFaults` says whether a transaction may fail. When it does, `RollBack`
restores the keys and keeps whatever the closure had done to the counters
before, because badger knows nothing of them: `Failed` takes every prefix of the
closure.

`DiskCache` is the state machine (`disk`, `hung`, `reply`), with `Restart(limit)`
for a process that stops at any time and opens the database again, possibly with
another limit. `DiskFifo` is what it promises when nothing fails: a queue of
resources in the order of saves, no longer than the limit after a save.
`QueueOf` maps the one to the other: the entries of the index by their ids (`ByAge`).

### Two-level cache: `Cache`, `CacheMap`, `CacheHeaders`

`Cache` puts the LRU list over `DiskStore`. The list is given by the position of
each resource (`pos`, 1 for the one used last) and its entry. The mutex makes
each call one step; `Restart` starts from any of the databases that exist between
two transactions of a call (`MidCall`), so that a crash inside a call is covered.
`Close` is a step per transaction, from the oldest entry on, and stops at the
first error with the database open. After it, a call finds a closed database:
reads miss and the callback's error is ignored. A call that enters an eviction
loop that never ends keeps the mutex: `Hang`, `CloseHangs`.

`CacheMap` is the promise: a map that may forget. A resource is returned as it
was last saved, never after it was deleted; it may be missing at any time; any
call may fail. `MapRefinement` states that `Cache` implements it, with
`map <- Visible`, what a `Read` would find. The reply names the call and the
resource, so that a `Read` has to return the content of that resource.

`CacheHeaders` adds the operations on single headers. `CacheHeader` of a resource
that is not in RAM makes an entry without content and with the zero time, which
hides the resource on disk; `PartsTogether` says that content and time never come
from different saves even so.

### Website contract: `DewebSite`

One website. `files[f]` holds the keys of the datastore that start with the
prefix of `f`; `code` is the bytecode. A call that fails in one of its assertions
is undone by the blockchain, so the actions are the calls that succeed. Arrays of
(key, value) pairs are functions, since the last of two equal keys wins. The owner
may be an account, `Nobody` (the website was made immutable by
`cli/src/commands/immutable.ts`, which sets an owner that is no account) or absent
(after `purge`).

### Index contract: `DewebIndex`, `DewebChain`

`DewebIndex` is the index over websites that change by themselves: `siteOwner` and
`siteVersion` are the two keys of each website that it reads. Its two kinds of keys
are two sets of pairs. Anyone may ask for the update of a website.

`DewebChain` puts the contract of one website and the index on one chain: a step is
a call of either one, and the index reads the state of `DewebSite`. It implements
`DewebIndex`, with `siteOwner <- owner` and `siteVersion <- code # "none"`; this is
proved (`ChainImplementsIndex`) and carries the theorems of `DewebIndex` over.

### Command line interface: `Cli`

`Cli` extends `DewebSite`: the calls a run makes have the effect of the actions of
the contract. A run reads (`UploadReads`, `DeleteReads`, ...), which plans a list of
phases, and then makes the calls of a phase, `Window` at a time, before the next
phase. The plan is computed as the code does: which files differ (`RequiresUpdate`),
the chunks in batches by first fit in decreasing size (`Batcher`), the slices of the
lists for each call of `filesInit` (`Slice`). The lists of files are in some order,
where the code has that of the directory.

Each call has a `status`, what the interface knows, and a `chain` status, what
happened. Sending may throw, and the operation may exist all the same; waiting may
end without an answer or throw; the chain executes a pending operation when it
likes. When a run goes on or ends, its operations that are pending become `loose`
and may be executed in any later state. `Thrown` is the difference between the two
managers: `CallManager` logs, `UploadManager` rejects `startUpload`. `PhaseOK` says
what each phase makes of its calls. `disturbed` is a history variable: something
failed, timed out or was executed late since the run began.

`Overlooked` is what `UndisturbedSucceeds` has to except. No command asks whether there
is a website at the address it is given, which may have been purged: the calls are
refused then, an edit, a purge and an immutable fail, and `metadata` says that it is
finalized. And `metadata` neither asks whether the website is immutable, which `upload`,
`delete` and `immutable` do (`exitIfImmutable`), nor, when a file has no metadata at
all, whether the key that it removes is there (`metadata.ts:97`). All other calls are
accepted when nothing interferes, and a run fails only where one is refused.

`Published` is about what a server makes of the website: a file counts when it is
`Whole`, declared with the right count and with all its chunks. The interface reads it
in another way (`OnChain`): it leaves out the chunks that are missing. A file that an
earlier run left half done may then look like the local one, and an edit does not send
it again; such a file is `Mistakable`, and `UndisturbedKeepsItsWord` excepts it. The
other exception is an edit of a website that is gone with no chunk to send, which makes
no call and says that it is done.

### Server: `Provider`, `Gateway`

`Provider` is how one request gets one resource, a step per read from the node and
per call of the cache: which of the names exists (through the cached list of files),
the update time, `GetLastModified`, `Read` or `Delete`, the number of chunks, the
chunks, `FetchBatch` at a time, the keys and the values of the headers, `Save`. The
local variables of a request are the record `req[r]`.
A list of files that was read is stored twice, by `GetFilesPathList` (`ReadsValues`) and
by its caller (`StoresList`), maybe over a newer one, and then looked up, when it may
have expired (`LooksAgain`). The cache is the map that may
forget of `CacheMap`, whose implementation by the two levels is proved. The website
is an instance of `DewebSite`; its publisher calls `filesInit`, again for the files
that did not fit into the first call, and then sends the chunks.

`Gateway` is the process around it: it asks for consent, loads a configuration,
resolves the domain through a cache, refuses what the lists exclude, and may stop
and boot again with another configuration. `calm` is a history variable: the
requests that nothing has interfered with since they arrived. `late` is another
one: the files that had an old version when the first call of `filesInit` set
`LAST_UPDATE` and left them as they were.

### Plugin: `ServerManager`, `Plugin`

`ServerManager` has the fields of the struct and the child process: `holder` is
the caller of `Stop` that holds the mutex while it waits up to five seconds, all
other methods are one step. `monitor` is the goroutine that waits for the child;
after the exit it takes the mutex once to report and once to reset `isRunning`.
`server` stays `exited` until the monitor has waited for it (a zombie can still be
signalled), then `none`.

`Plugin` has the goroutines: `main` (API.Start and the shutdown), the `starter`,
the `poller`, the handlers of `PUT /api/settings` and the goroutines they leave
behind. `pc` is where each is. Configurations are objects of a heap, because
`GetServerConfig` hands out a pointer to the cached one which the handlers write
to without a lock, while a save replaces the cached one: each goroutine's pointer
(`conf`) may be stale. Objects that nobody points to are dropped.

`ConfigFollowsStation` says that the cached configuration comes to hold the network of
a Station that stays as it is, and the file as well `\/ unsaved`. This history variable
is set when a request fails after it has written to the cached configuration, and
cleared by the next save: the request may have written the very URL that Station has,
and the poller, which compares the cached URL only (`networkManager.go:157`), has no
reason to save. The file keeps the older one then.

Station is the environment: its network may change or go down, `MaxChanges`
times. Failures (a crash of the server, a launch, a save or a fetch that fails)
share the budget `MaxFaults`.

### Settings: `Settings`

`Plugin` has two values for a configuration; `Settings` has its fields and none of
the interleavings. A request, a poll, a start of the plugin or of the server is one
step. `Valid` is the generated validation of bodies, `Merged` and `Report` are the
two handlers with their conversions between `int32` and `uint64` (`Int32Half` and
`Int64Half` stand for 2^31 and 2^63), `Omitted` is what `omitempty`
and the comparisons with zero make of a field. `WithoutNodeData` is what the file
gives, with defaults and the resolved path of the cache; `WithNodeData` asks the
node; `Refreshed` is what the plugin makes of the errors of both, one of which makes
it panic. A save may fail before or after the file was truncated (`SaveFails`), and
the cached configuration stays changed. `expected` is a history variable: the
settings as the requests that were answered with success should have left them.

## The runs

| run | instance | distinct states | shows |
|---|---|---|---|
| `disk_cache` | 3 resources, 2 values, limits 0, 1, 2, ids up to 4, no faults | 9,360 | consistency of the five keys and both counters, first in first out, limit kept after it was lowered |
| `disk_cache_hang` | limit 0 | | violation: a save that never ends |
| `cache` | 4 resources, 2 values, RAM of 2, limits 1, 2, ids up to 3 | 43,358 | refinement of the map, levels agree, reads lose nothing, Close persists |
| `cache_headers` | 2 resources, 1 header, faults, limits 0, 1, 2, RAM of 1 | 98,281 | header operations with faults, crashes and a limit of 0 |
| `deweb_site` | a website with 2 files and 2 chunks, 2 accounts, the index | 8,710 | any order of calls keeps the datastore consistent and the two lists of the index in agreement |
| `cli` | 2 runs, 2 files, 4 directories, 2 chunks per file, 2 calls per phase, window 2 | 219,049 | an undisturbed run succeeds and keeps its word whatever the one before left, but for what the commands overlook; each run ends |
| `cli_complete` | 1 run, 1 directory | | violation: "Upload complete!" though it is not |
| `server` | 2 requests, 2 versions of 2 files, chunks read one at a time, 3 configurations, one name | 1,071,342 | what is cached as up to date is so; an undisturbed request is answered right |
| `server_stale` | the file that changes is declared in the second call | | violation: old content is served after the upload |
| `plugin` | 1 handler, 1 request, 1 fault, Station down at first, 1 change of it | 73,063 | one server, requests and stops end, the configuration follows Station |
| `plugin_restart` | 1 change, nothing fails | | violation: the server is not restarted |
| `settings` | 2 nodes, 7 bodies, 5 files, integers of 3 and 6 bits, 1 edit | 93,234 | settings that were accepted come back as they are, from the plugin and in the server, until the next update |

Why the bounds are enough. Four resources over a RAM of two and a disk of one or
two fill both levels with one resource to spare, so each call meets a full RAM, a
full disk, and a resource on either level or on none. Ids up to three or four
allow a resource to be saved, evicted, promoted and saved again, and a database
that is larger than its new limit after a restart. Two chunks and two files
distinguish an index inside, at and beyond the count, and a file from the others.
In `cli` a phase has at most two calls and both may be in flight: they are executed
in either order, or in a later run. Two runs suffice to see what a run makes of the
rest of another one, and their LAST_UPDATE differ. One chunk has half the size of a
batch, so that batches are shared and filled. The directories make a file change, shrink,
disappear and become empty, and one has nothing to send; a file of two chunks of which
one is missing can be taken for a file of one chunk. A second run may find the website
purged. In `server` two requests are the least
that share a cache, one of them fetching while the other one reads; two versions
differ in one of the two chunks of the index, so that a mixture of versions differs
from the new one, and in a file that exists in the second version only, whose name
is tried before the index. In the plugin one request, one failure and one change interleave with the poller
at every step; a second request only repeats the first one after it was answered. The request sets the
network, which no valid request leaves out, to Station's or to another one; the network
comes up as either.
In `settings` the three bits of an `int32` hold the defaults, small negative numbers and zero, and a
limit of 5 in the file is one that an `int32` does not hold; the bodies leave out or
have each field, two are not valid, and the paths are relative and absolute. One
edit by hand comes at any time, before or after the plugin has read the file.

`CHECK_DEADLOCK FALSE` is used where the system may stop: a website that was purged,
upgraded or made immutable takes no further calls, the interface has made its
`MaxRuns`, and all versions are published. The plugin's `Over` stands for
a plugin that has exited.

Symmetry is used in the runs of safety properties, over resources, files and
accounts; none of the properties tells these apart.

Fairness. The caches, the contracts and the server have none: every property of
theirs is a safety property. `CliSpec` has weak fairness of `RunStep`: the process
goes on, and a wait for an operation ends with an answer, an error or a timeout.
Nothing is assumed of the chain (operations may stay pending for ever) nor of the
user (`Declined` is not in `RunStep`). In the plugin, `FairSpec` assumes that each goroutine goes on,
and that one that waits for a mutex again and again gets it (strong fairness:
Go's mutex hands itself to a goroutine that has waited for a millisecond), that
a server that starts comes up or exits, and that a process that was killed ends.
A server that was only asked to terminate need not; nobody has to send
requests or shut down; Station need not change or come up. The liveness
properties about the poller are conditional on a Station that stays as it is.

## The theorems

Each proof module is about one component (`CliProofs` is about the interface and the
chain that it changes) and holds for any number of resources,
any limits, any size of the RAM, any file and chunk counts and any number of
handlers. The assumptions are the named `ASSUME`s of the modules, which TLC
evaluates in each run.

- `DiskStoreProofs`: lemmas about the operators on the database. `Consistent(d)`
  is: the index and the id keys are each other's inverse, ids are below the
  counter, and the parts of each entry are one of the saved values. Every
  operation keeps it, also a failing one.
- `DiskCacheProofs`: `IInv == TypeOK /\ Consistent(disk)` is inductive and gives
  `TypeCorrect`, `AlwaysBijective` and `AlwaysReadBack`, whatever fails. With
  `WriteFaults = FALSE` the exact counter is inductive as well, which gives
  `CountIsExact`, `NeverHangs` (for positive limits) and `SavesStayWithinLimit`.
  The finite counting is in `DeleteEntriesCount`, `EvictedCount`, `SavedCount`.

  `ImplementsFifo` is `FifoRefinement`, with `WriteFaults = FALSE`, for any number of
  resources and any limits, zero included. That the index has an order at all is a
  lemma: the number of entries up to an entry is its position (`RankIsPosition`), so
  that `ByAge` lists them (`ByAgeLists`) and is the only list that does
  (`OnlyByAgeLists`). Each operation is then compared with its effect on one list:
  `OldestAreFirst` and `EvictedIsNewest` (the loop cuts off a prefix), `DeletedIsWithout`
  and `SavedIsAppended` (the next id is above all others).
- `CacheProofs`: `IInv` adds the well-formed list and `LevelsAgree`, that the two
  copies of a resource on both levels are equal. The latter is needed because a
  failing removal leaves a resource on both levels, and the one in RAM may be
  dropped later. One lemma per action shows that it keeps `IInv` and is a step of
  `CacheMap`; `Combine` does the common part. This gives `CacheImplementsMap` with
  failing transactions, `Close` and crashes between transactions.

  With `WriteFaults = FALSE` (that the counters survive a failure is false, see
  `Failed`) `EInv` adds `Exclusive` and the exact counter: `LevelsStayApart`, and
  `ReadsLoseNothing`, because a promotion makes the room that the entry it pushes
  out needs; with positive limits `CacheNeverHangs`. `ClosePersistsRecent` needs
  an invariant of the loop of `Close`, `SavedSoFar`: the entries saved so far that
  fit are on disk, and in the order of their ids.

  With the calls on headers the two levels may differ, as a header is added to the
  copy in RAM only, and `IInv` is lost. `HInv` says of each level by itself that its
  entries are `Paired`: content and time are from one save, or both blank. It is
  inductive whatever fails, and gives `HeadersTypeCorrect`,
  `HeadersKeepDiskConsistent` and `PartsStayTogether`.
- `DewebSiteProofs`: `IInv` is the type, `StorageConsistent` and `PurgedIsEmpty`,
  file by file. `OldChunksNeverStay` and `ImmutableStays` are action properties.
- `DewebIndexProofs`: the two lists agree for any number of websites that change at
  will. `IInv` is the type of the entries, the agreement, and that an address has
  one entry at most; `RemovedAgree` and `OwnerRead` are what the calls rest on.
- `CliProofs`, about the interface: `Base` is the inductive type of the state. It says
  of the operations that each is one that its function takes, and of a run how far it
  is: the phase belongs to the command, the calls to the phase, and the phases of the
  plan follow it in their order. This gives `CliTypeCorrect`.

  `BatchesAreExact` is about `Batcher`, a recursive function on numbers. The theorem
  modules state induction for an operator, which the provers cannot instantiate, so
  `NaturalsInSet` derives induction over a set of numbers from the well-foundedness of
  `<`; `BatcherHolds` carries through the placement that the batches and the chunks that
  are left are a partition, and that no batch is above the limit. `PostsInv` keeps the
  result from the reads of a run to its last phase.

  `UndisturbedRunsSucceed` and `UndisturbedRunsKeepTheirWord` share `UndisturbedInv`: the
  operations that are left to do (`Todo`, of this phase and the next ones) turn the
  website into what the run promises, and each can be executed now or once others of
  them were (`Coming`); or the website is gone, and then each is refused (`Hopeless`).
  For an upload (`Uploading`) each file of the directory is declared and all
  its chunks are sent, or it is declared already and each chunk is sent or there, or, in
  an edit, it reads as the local one and none is sent; a chunk goes to a file that has
  the right count or that an operation left to do declares. Executing any of the pending
  operations keeps this (`InitStep`, `UploadStep`), so their order does not matter; it
  holds at the reads whatever the website has then (`UploadingStarts`), and with nothing
  left to do it is the promise (`UploadEnds`). `MaxRuns` is any number.
- `CliProofs`, about the chain: a step of `DewebSite` is a `SitesChange` of the index, a
  call of the index is itself. `ListingsStayAgree` follows from the refinement and the
  theorem about the index; `StaysUnlisted` combines it with the rule of the contract
  that nobody sets the owner of a website that no account owns.
- `GatewayProofs`: for any number of requests, versions and restarts, `GatewayTypeOK` and
  `CacheIsTruthful`, that is `TypeOK` and `CacheTruthful`. The inductive invariant says
  what makes the cache truthful: the files that are not waiting for a second call of
  `filesInit` hold nothing but chunks of the last version (`OfVersion`); a request whose
  update time is the last one has read a prefix of that version, and all of it once it
  reads the headers (`ReadOK`); and no update time is from the future, so that the
  next version makes all of them outdated at once. The steps of the publisher rest on
  the lemmas of `DewebSiteProofs`, of which `Website` is an instance.

  `CalmIsServed` is `CalmServed`. Its invariant, `Now`, says of each calm request that
  what it has read is what the website has now: the names that it has tried and not
  found are not there, the count, the chunks and the headers are a prefix of those
  of the file, and a list of files that it has stored or is about to store is the
  website's; and of the
  cache that an entry with the time of the last update is whole and right unless
  its file is late. No set of files may be the value `None`.
- `PluginProofs`: `ServerTracked` is inductive by itself, as the flag `isRunning`
  and the monitor change together; `NeverTwoServers` follows. `PluginTypeCorrect`
  needs more: where each goroutine is, whether it holds a pointer there
  (`HeldWhereUsed`), that `main` is alone before it launches the others, and that the
  heap has more addresses than there are pointers, so that a configuration that is
  loaded finds one. `NoNilConfiguration` is a part of it.
- `PluginProofs`, about the settings (it extends `Settings`, too): `SInv` is inductive. It is the type of each field, and, while the
  settings are promised (`expected`), that the file can be read and what is loaded from
  it before a node is asked reports them exactly (`Reports`), while the two
  configurations may have lost the URL (`Agrees`). The file has to be part of it: a new
  process knows nothing else. `SavedReports` says that a request leaves a file that
  reports what was asked for, `SyncedReports` that a poll changes the URL only (for
  which the path must be absolute already), `LoadedAgrees` that a load loses nothing but
  the URL. They rest on one lemma about each of the conversions, field by field, and on
  `RoundTrip`: an `int32` survives the way to an `uint64` and back, whatever their
  widths, as the wider one is a multiple of the other. This gives
  `SettingsTypeCorrect` and `AcceptedSettingsLast`; `ResentReportIsNeutral` needs the
  types only.

Only model-checked: the liveness properties of the plugin and the interface. The
prover has no rule for `ENABLED`, so no theorem can use fairness. No module uses
`RECURSIVE`.

## Disagreements between code and documentation

The runs with an expected violation, with the lines they contradict:

- `SaveResource` with a limit of 0, which the configuration accepts, loops for
  ever with the mutex held (`disk_cache_hang`).
- `ServerManager.Stop` waits for the exit with the mutex that the monitor needs to
  record it. The wait always lasts five seconds, `isRunning` is still set after
  it, and the `Start` that follows may be refused: after a change of Station's
  network the server stays down (`plugin_restart`).
- A batch of an upload that is not answered in time keeps the status Sent, which
  counts as neither failed nor missing, and a `filesInit` that fails is only logged:
  the interface says "Upload complete!" in both cases (`cli_complete`).
- `LAST_UPDATE` is set by the first of several calls of `filesInit`. A provider that
  fetches a file of a later call in between caches the old content with the new
  time and takes it to be up to date until the next update (`server_stale`).

Shown by the models, without a run of their own: `RequestFile` warns when it cannot
read the update time (`manager.go:33`), goes on, and dereferences the missing time
when it saves what it has fetched, so that the request gets no answer; for any error
but that of a node that is down, `refreshServerConfig` dereferences a nil pointer in
a debug message (`config.go:91`), so that a file that cannot be parsed is no answer
to a request and the end of the plugin in a poll; with `allow_offline` and a node that
does not answer, loading a configuration "using default values for minimal fees,
chain ID, and network version" also empties its URL (`config.go:77`), and the plugin's
poller restarts the server at each poll; a negative port or size of the cache in RAM
is accepted, saved, said to be "updated successfully", and keeps the server from
starting (`handlers.go:118`);
`deleteEntry` "removes an entry"
but leaves its headers in the database for ever; `Cache.Delete` of one resource may
evict another one, as the callback saves the resource that is being deleted;
`_fileInit` says that it throws for 0 chunks, and does not, so that a file may be
listed that cannot be served and that `deleteFiles` refuses; a server that booted
offline never resolves a domain, also when the node is back;
`LoadConfigWhitoutNodeFetchedData` does ask the node when there is no file, although
its comment says that it does not; and a limit of 0 in a request stands for one that
is left out, so that a limit cannot be set to zero, while a zero in the file comes
back as no limit in an answer; the `metadata` command may make a call that cannot
succeed, of a website that is gone or immutable or for a key that is not there, and says
"Operation finalized." whatever became of it (`commands/metadata.ts:173`); a file of
which chunks are missing on the website is read as what is left of it and not uploaded
again when that happens to be the local content (`read.ts:104`), though the server
answers with an error, "empty chunk"; and a request for settings that has written
Station's new URL to the cached configuration and then fails leaves the older URL in the
file, although the poller is said to "update the deweb server config file if the node
url is not the same" (`networkManager.go:119`); a plugin that starts again reads it there.

Seen while reading, and in no run: `binaryExists` is never set again once a
`Start` did not find the binary (`manager.go:75`); a server that is stopped by a
signal leaves the error "exited", which shows as an error state of a stopped
server; the poller is never started when the first launch fails
(`api.go:97-100`); `lastError` is read without the mutex (`manager.go:115`);
the `metadata` command changes headers and leaves `LAST_UPDATE` as
it is, so that cached headers stay outdated; a local file that became empty is
not looked at, and the old one stays on the website (`prepareChunk.ts:138`); the
list of files of a website may expire between the moment it is stored and the
moment it is looked up, and a file that exists is then not found (`read.go:384`).

## What is not modelled

- The frontends and the zipper: no state of their own, or input and output only.
  The generated code of the REST APIs.
- In the disk cache: the byte layout of keys; `GetAllWithPrefix` (reads only). The
  FNV hash that names a resource in RAM is taken to be injective.
- In the cache: a `NewCache` that fails half-way. `NoHeaders` stands for a nil and
  for an empty map, and `NoTime` for the zero time and what it reads back as.
- In the server: the texts of pages and what is injected into them, ports, paths and
  durations, the parsing of host names; the flag that skips the disclaimer. Calls of
  `filesInit` are executed in their order there (in `Cli` in any order).
- In the interface: coins and costs, which may make a call fail (as any call may),
  prompts other than a yes or a no, `config`, `list` and `showFile`, which only read,
  the flag that skips the check for index.html, and the update of the index after a
  deployment other than that it may fail. The `metadata` command is given one key at a
  time, and all runs have one size of chunks. The reads of a run are one step: changes
  by others during a run come after its reads.
- In the contract: coins, the encoding of keys and arguments, and the bytecode
  that `upgradeSC` installs. Hashes are those of files: `filesInit` deletes by the
  prefix that it is given without a look at its length (`deweb-interface.ts:82`,
  `chunks.ts:87`), unlike `setMetadataFile` and `removeMetadataFile`, so that
  a shorter one from the owner would delete parts of other files. `StorageConsistent`,
  `NewCountNoChunks` and their theorems are about well-formed hashes.
- In the plugin: the name of the network, the port file, registration with Station.
  A configuration file that cannot be read or is written in part is in `Settings`,
  not in `Plugin`. The end of the
  shutdown and the exit of the process are one step.

## Plan

1. Done: both caches with their refinements and proofs; the website contract and the
   index, separately and on one chain, with proofs; the interface with its calls in
   flight and the end of each run; the server from booting to the answer; the plugin
   with liveness and the proof that there is one server.
2. Done: the cache without failing transactions and with headers, the types of the
   plugin, and the request that nothing interferes with, proved; the settings field
   by field.
   Proved, too: the batches, and that an undisturbed run of the interface succeeds and
   keeps its word; the types of the settings, that they last, and that a report that is
   sent back is neutral; and that the disk cache is the queue it promises to be. All
   safety properties and refinements of the runs are theorems.
3. Larger compositions: several websites behind one cache and one list cache; the
   publisher of `Provider` replaced by `Cli` with its failures.
