# A verification of eems

eems is a UPnP media server. At its first start it scans folders of films into a LevelDB
database, a tree of containers and items with the files they refer to; from then on it answers
UPnP browse requests from that database, streams the files over HTTP, and announces itself by
SSDP. This directory holds TLA+ modules that model the parts of it with state and control worth
checking, TLC configurations that check them on small instances, and theorems that TLAPS proves
for every instance.

Source paths below are relative to the repository.

## The system

| Component | Source | State | Operations |
|---|---|---|---|
| `store_service` | `src/store/` | one LevelDB database: object keys to serialized `MediaObject`, resource keys to `Resource`; ordered by `fb_comparator` | `open_db`, `get_next_id`, `put_items`, `list`, `get`, `get_resource` |
| `movie_scanner` | `src/scanner/` | `next_object_id_`, `next_resource_id_`, `movies_folder_`; the stack of folders and the composer of the folder being scanned | `scan_all`, `scan_directory`, `object_composer`, `create_container`, `get_movies_folder_id` |
| `main` | `src/main.cpp`, `config/eems.service` | where start-up is | open or create the DB, scan into a new one, serve, stop on a signal; systemd restarts it on failure |
| `content_service` | `src/content_service.cpp` | an open file and the bytes still to send | `create_response` (range arithmetic), `handle_request` (streaming) |
| `server` | `src/server.cpp` | the acceptor; one coroutine per connection, a 30 second timer in each | `run_server`, `handle_connections` |
| `upnp_service` | `src/upnp.cpp`, `soap.cpp`, `xml_serialization.cpp` | none | `handle_upnp_request`: SOAP, Browse with paging, device descriptions |
| `discovery_service` | `src/discovery_service.cpp` | a multicast socket, one datagram and one answer at a time | `run_service`, `handle_request`: answers to M-SEARCH |
| configuration | `src/config.cpp`, `*_config.h` | `server_config`, shared by server, upnp and discovery; the list of libraries | `load_configuration`; `run_server` completes port and `base_url` |
| logging and plumbing | `src/logging.cpp`, ... | none | adapters and aliases |

The scanner calls the store synchronously, before the `io_context` runs; nothing is served while
it scans. Afterwards `upnp_service` and `content_service` only read the store, from coroutines on
one thread. So concurrency is of three kinds: the process against its environment (failed writes,
crashes, power losses, restarts, folders that cannot be listed), which is where the database can
go wrong; the coroutine of a connection against its peer, its timer and the file it is sending;
and the coroutines against each other, which take turns on the one thread of the `io_context` and
share `server_config`.

What makes each part correct:

* **store**: a lookup finds exactly the keys that are there; `get_next_id` never returns an
  identifier in use, whatever keys of the other type surround it; every reference that is stored
  resolves; the objects form one tree that only grows.
* **scanner**: despite failed writes an identifier is never handed out twice; every video is
  published once for each library it is in; an item plays its own video, offered first, with
  subtitles and artwork of its folder, each file once, and a cover; there is one Movies folder.
* **main**: the service comes up again after any failure; what it serves was scanned.
* **content**: the bytes sent are the bytes asked for, to the end of the file if they are asked
  for that far; a body is as long as announced and ends.
* **server**: one response per request on a connection that is kept alive; a connection that
  is made is accepted, or reset when the accept loop fails, and none keeps another coroutine from its turn.
* **upnp**: a client that reads a container page by page sees every object once; every link in an
  answer leads somewhere; a bad request is answered.
* **discovery**: what is announced is where the server listens; a search is answered.
* **configuration**: what the services share is consistent, whatever the file leaves out.

## Modules

| Module | Models | Role |
|---|---|---|
| `LibraryKeys` | keys, comparator, iterator positions, `get_next_id` | operators only |
| `StoreService` | `store_service` | variables `db_files`, `db`, `durable`, `faults` and the actions of the store |
| `ObjectComposer` | `object_composer` and the helpers it calls | operators over a folder's listing |
| `MovieScanner` | `scan_all` and all it calls | extends the two above with the scanner's state |
| `EemsMain` | `main()`, systemd, crashes and power losses | the composed specification `Spec`, `FairSpec` |
| `MediaLibrary` | what the store promises its readers | abstract specification, refined by `EemsMain` |
| `EemsProperties` | properties of `EemsMain` | |
| `ByteRange` | `content_service::create_response` | operators modulo 2^w |
| `HttpConnection` | `handle_connections` with `handle_request` inside | one connection |
| `UpnpService` | `handle_upnp_request` and all below it | operators over the DB of `StoreService` |
| `Browsing` | a control point (external) that walks the tree through `UpnpService` | composed with `EemsMain`: `FairBrowsing` |
| `Configuration` | `load_server_config`, `load_data_config` | operators |
| `EemsServices` | `run_server`, `run_service`, the signal handler and the connections on the `io_context` | the serving process: `FairSpec` |
| `MCLibraryKeys`, `MCEems`, `MCByteRange`, `MCHttpConnection`, `MCBrowsing`, `MCEemsServices` | instances for TLC | |
| `KeyLemmas`, `OperatorProofs`, `EemsProofs`, `TreeProofs`, `VideoProofs`, `BrowsingProofs`, `HttpProofs`, `ServicesProofs` | theorems and proofs | |

### State and actions against the code

*Store.* `db` is what a reader of LevelDB sees and `durable` what a power loss would leave of it:
`put_items` and `open_db` write with the default options, unsynced, so `durable` lags behind until
`Flush`. A batch is atomic in LevelDB, and is one update of `db` here (`Batch`); in it later
entries win, which is why the parent comes first in the `IF`. `PutRefused` stands for the
exceptions thrown before anything is written ("Container not found", "Parent mismatch");
`PutFails` for a status that is not ok, which `put_items` logs and forgets. Creating the
directory (`CreateDb`) and writing the root (`PutRoot`) are two steps because they are two writes.

*Lookups.* The code finds a key by `Seek` and a comparison with what the iterator stopped at.
`Found`, `Seek` and `Prev` say the same over a set of keys, and are used in the model everywhere
the code uses them; that they amount to membership is a theorem, not an assumption.

*Scanner.* `scan_all` is sequential, but the process can end between any two of its writes. A
step of the model therefore ends where the DB has changed or one more video has been composed:
`ScanKnownFolder`/`ScanNewFolder` (up to the loop of `scan_all`, with `get_movies_folder_id`),
`ListDirectory`/`ListCollection` (the first half of `scan_directory`, with `create_container`),
`ComposeVideo` (one call of `object_composer::operator()`), `StoreVideos`/`SkipFolder` (the call
of `put_items` at the end, and the pop and push of `scan_all`), `LibraryScanned`, and the two
exceptions: `ListThrows`, out of `directory_iterator`, and `PutThrows`, a `put_items` that refuses
to write. Either ends the process and leaves what has been written so far. The variable `composer` holds the locals of `scan_directory`; it is `NoComposer`
outside of it. `movies_folder_` is remembered even when the write of the folder failed, and the
children of a collection go under it even when it could not be written, as in the code.

*Files.* A name is the sequence of its words, so that prefixes (`alien` / `alien two`) and the
words that classify artwork remain; a listing has its videos, images and texts in the order of the
`std::map`s that hold them, and the set of its subfolders, which `directory_iterator` lists in an
order of its own (`Orders`). Its `error` says whether listing it, or asking what an entry is,
throws: a folder that may not be read, or a link that only leads back to itself. (A link to nothing
is neither a directory nor a file, and is skipped.) The files of an item are those whose names
begin with its stem, so `alien` also gets the subtitles and artwork of `alien two`: the model has
this too, and the properties say only that they are of the item's folder. `is_directory` follows
links, so a cycle of them is scanned once per path, until a path passes more links than the
system follows: a `Directory` is a path, and the last one has an `error`. Being a path, it is below
one folder only and never below itself (`PathsAssumption`). Which folders a library reaches is
said by the sets of folders that are closed under subfolders (`Reaches`), without recursion, so
that it can be reasoned about.

*Process.* `pc` is where `main()` stands. `Die` loses everything but the DB: by `Stop` (a signal,
leaving it stopped), `Crash`, `Throw` (an exception nothing catches) or `PowerLoss`, which also
takes `db` back to `durable`. In the last three the next start is systemd's.

*Range.* The functions of `ByteRange` follow `create_response` line by line, with every
subtraction and the increment modulo `Modulus` (2^64 in the code).

*Connection.* `conn` is the operation the coroutine is suspended in. `Timeout` may expire the timer
at any time; an operation on an expired stream can only fail. It is armed in `NextRequest` only,
once per request, as in the code. UPnP requests are reduced to their three outcomes: an answer, an
error that has a response, or an exception that has none and closes the connection. `UpnpService`
says which request has which. The answers other than a file are `string_body` responses, sent with
their body in one write (`ShortBody`, `WriteReply`).

*Browse.* `HandleUpnpRequest` follows the checks in the code's order, because the first that fails
decides the answer: the path, then method, content type and SOAP envelope, then `ObjectID`, the two
numbers, the flag, and last the store, whose "Container not found" is a runtime error that nothing
below `handle_connections` catches. A numeric argument is its number, and `NotANumber` if
`from_chars` would refuse it; `Int64` and `UInt32` are the ranges of the code's types, `MaxId` and
`CountModulus` standing for 2^63 - 1 and 2^32. `Page` is the `drop` and `take` of
`browse_response`, `CountOf` the default of `RequestedCount`, `list.size()` narrowed to
`uint32_t`. The control point of `Browsing` is not in the repository: it asks for the children
of each container it is shown, in any order, advancing in each by `NumberReturned` until
`TotalMatches`, as the ContentDirectory service means it to be used. Its requests are one step each, since a handler
reads the store without suspending; the process runs, dies and restarts between them.

*Configuration.* The file is a record of what it gives. `Uuid` and the friendly name are made
from the host name there is by then, in the order of the code; the port is narrowed to 16 bits.
`LoadDataConfig` gives `main` its libraries, or nothing when it throws. `MCEems` takes the contents
of its runs through it.

*The io_context.* In `EemsServices`, `ready` is the queue of handlers; the only thread takes its
head and runs it to its next suspension, which is one action. `at` is what each coroutine waits
for. `co_spawn` with `net::detached` drops an exception, so a coroutine that throws is `"ended"`
and the others go on: `ListenFails`, `AcceptFails`, `JoinFails`, `ReceiveFails`, the malformed datagram of
`DiscoveryReceives` and the failed send of `DiscoverySends`. When the accept loop ends, the acceptor
that is a local of `run_server` is closed, and the connections it has not handed over are `"reset"`
(`AcceptFails`); after `ListenFails` there never was one.
Connections are `HttpConnection` as seen from the queue: they wait for their peer, or, at the end of
a truncated file, spin without waiting for anyone. A spawned connection either runs inline or is
queued, since `co_spawn` may dispatch; the model has both.

Definitions that stand beside another with a comment "a variant with a seeded fault" are not part
of any specification. Each is a plausible mistake in the definition it stands beside; putting it
in that definition's place must make a property fail, which shows that the property depends on
the code being right there. `PROJECT.json` pairs them under `mutants`.

## Runs

All runs are `tlc -config <cfg> <module>`; the longest takes about a minute with two workers.

| Run | Configuration | Question | Distinct states |
|---|---|---|---|
| `keys` | `MCLibraryKeys` | For each of the 256 sets of keys with identifiers 0-3, is `get_next_id` fresh and are lookups exact? | 256 |
| `faults` | `MCEems`/`MCEemsFaults` | Do libraries scanned with two faults anywhere, among folders that cannot be listed and cycles of links, leave a consistent, growing tree, in the DB and in its durable part? Does `EemsMain` implement `MediaLibrary`, does each step of a scan bring it nearer to its end, and does a service that died serve again? | 17759 |
| `trees` | `MCEems`/`MCEemsTrees` | Over 384 inputs, does a scan without faults publish each video once per library, with files of its own folder, each once, and a cover? | 81872 |
| `ranges` | `MCByteRange` | Is every explicit range inside the file, and every open-ended one, answered with exactly its bytes? | 448 |
| `connection` | `MCHttpConnection` | Are responses framed, one per request; is a whole or resumed file sent without a gap and to its end; and does every body end? | 2540 |
| `browsing` | `MCBrowsing` | Does a control point that reads page by page see every object once, across deaths and restarts; do links lead somewhere; is every bad request answered; does each page bring the walk further, and does it end? | 13622 |
| `services` | `MCEemsServices` | Is what discovery announces true; is nothing forgotten that was received; are searches answered, connections accepted unless an accept fails, and signals obeyed, whatever a connection does? | 324538 |
| `fresh_scan` | `MCEems`/`MCEemsFreshScan` | Has what is served been scanned? (violated) | |
| `rootless` | `MCEems`/`MCEemsRootless` | Is a DB without a root never served? (violated) | |
| `head` | `MCHttpConnection`/`MCHttpConnectionHead` | Does a response to HEAD have no body? (violated) | |
| `suffix` | `MCByteRange`/`MCByteRangeSuffix` | Does `bytes=-n` give the last n bytes? (violated) | |
| `unbound` | `MCEemsServices`/`MCEemsServicesUnbound` | Is nobody told an address before there is one? (violated) | |

### Bounds, and why they are enough

* `MaxId` bounds the identifiers (the code's is 2^63 - 1). It is above what any scan of a run can
  reach, so its guards never bite in the runs; that nothing depends on its value is proved.
* `MaxFaults = 2` in `faults` and `browsing`: the failures that interact are pairs, such as a write
  of the Movies folder that fails followed by a crash, or a failed write followed by a power loss.
  The proofs hold for any number.
* `faults` chooses among three trees. In the first a library root, a collection with two videos,
  artwork and subtitles whose names are prefixes of one another, a folder adopted by the
  collection, and a second library: each branch of `scan_directory` is taken, and counters are read
  again after data has been written. In the other two a collection has a link back to the library:
  a cycle of two folders that is walked three times before the path has too many links, beside a
  folder that can be listed or not. Linux follows 40 links; each round of the cycle only adds
  folders like those before, so three are enough for a later one to build on what an earlier one
  wrote. Every order of listing is tried.
* `trees` varies the contents of a folder in the middle of a tree (videos, images, subtitles,
  subfolders) with and without folder names, and with libraries that overlap, without faults.
* `keys`: what `get_next_id` does depends only on whether keys of either type exist and which is
  the last; four identifiers of each type include every such case several times over.
* `ranges` takes every value of a modulus of 7; the corner cases (0, size - 1, size, the
  largest value, wrap-around) are all there, and the result is proved for any modulus.
* `connection` sends two requests of any of twelve kinds, so every response is followed by
  another request at least once; files of 0, 3 and 5 units against a chunk of 2 give several
  rounds of the loop, a last partial one, and a range that reaches past the end. `head` has the
  same bounds with HEAD requests only.
* `browsing` pages by everything at once, one and three, through containers of one to four objects:
  pages that end before, at and after the end of the list. `CountModulus = 8` is above every list,
  as 2^32 is in the code. Bad requests are wrong in one place, or in two, which is what the order of
  the checks is about.
* `services`: a port left to the system, and one that does not fit 16 bits (`PortModulus = 16`); two
  connections, since what is at stake is one keeping the other (or discovery) from its turn; a
  search for this device, one for another target and a malformed datagram, arriving in any order
  or not at all. Each peer connects once but may go on with its connection for ever.
* `CHECK_DEADLOCK FALSE` is where the system may stop: a closed connection does nothing more
  (`MCHttpConnection*`), all keys have been added (`MCLibraryKeys`), or the process has exited
  (`MCEemsServices*`).

### Fairness

`EemsMain`'s `FairSpec` has weak fairness of `Process` (a running sequential program goes on) and
of `Restart`, which is a start from `down`: `config/eems.service` has `Restart=on-failure`. There
is none for a start after `Stop`, for `Flush`, or for any fault. `Restarted` also relies on
`MaxFaults`: a service that is killed for ever need not come up. `Browsing` adds that a control
point which has begun to walk goes on while it is served; it need not begin.

`HttpConnection`'s `FairSpec` has weak fairness of the coroutine's own steps, of time passing
(`Timeout`) and of an operation on an expired stream coming back with an error, which is what
`beast::tcp_stream` promises. The peer has none: it need neither send nor read. That is why
`StreamEnds` needs the timer: at the end of a file that is shorter than announced the loop reads
nothing and writes nothing, over and over.

`EemsServices`'s `FairSpec` has weak fairness of `Run` (the thread takes the next handler while
there is one; that each gets its turn follows from the queue and from a suspension in every round of
every coroutine, not from the fairness), of the
operations the system completes by itself once they are possible (accept, receive, send), and of
time (`TimeRunsOut`). Peers, datagrams and signals have none.

### What the runs show

The seven passing runs establish their properties for these instances. Some of them hold for
reasons, or with exceptions, worth knowing: the search of `get_movies_folder_id` in the DB is never met with a
populated root on the paths of `main`, because a DB that exists is not scanned again, so that
`OneMoviesFolder` rests on `movies_folder_` alone; and `SearchAnswered` says "unless discovery has
ended", which a single malformed datagram is enough for: it throws out of `run_service`, whose
exception nobody sees, and the device is not found again until a restart. In the same way one failed
accept is enough for the exception of `AcceptedOrReset`: the connections that wait in the backlog are
reset without having been accepted, and no other is taken until a restart. `AnswersTrue` has its
exception too: while the accept loop runs, what is announced is the address the server is bound to,
but after a failed accept discovery goes on to announce it, and after a failed bind an empty one
(`unbound`, below).

Five properties that the code or its comments state do not hold of it:

* **A scan that was interrupted is never finished** (`fresh_scan`). `main` scans if and only if
  `open_db` has just created the DB. If the process ends in between, the next start finds a DB
  and serves it as it is. A folder that cannot be listed is enough: the exception ends the
  process, and systemd starts it into a library that stops there.
* **A DB without a root is served** (`rootless`). Creation of the DB and the write of its root are
  two steps; `open_db` throws when the second fails, but the next start finds the DB and takes it.
* **HEAD is answered with a body** (`head`) unless it is for a file that can be sent: the index, the
  descriptions and every error are written whole, and the connection is kept.
* **Suffix ranges are wrong** (`suffix`). `bytes=-n` is answered as `size-n` to `n` rather than
  `size-n` to `size-1`, and the announced length wraps around when `n` is less than half of the
  file. The comments on the two branches of `create_response` are each on the other's.
* **An address is announced that does not exist** (`unbound`). When the port is taken, the exception
  out of `run_server` is dropped; the process lives on, and discovery answers searches with an empty
  base address.

A consequence of the code as it is, which no statement in the repository contradicts: the timer is armed
when the coroutine starts to wait for a request and not again, so a body that takes more than 30
seconds in all is cut off even though the client is reading.

## Proofs

`tlapm <module>` checks each. The assumptions are those on constants: `MaxId` is positive,
`MaxFaults` a natural number, `Directory` finite, the four words the code compares names with are
words, what is on disk is a tree of listings with a configuration (`InputsAssumption`) whose folders are
paths (`PathsAssumption`), `Modulus` and `CountModulus` are greater than 1; file sizes are unsigned, `MaxRequests` is a natural number and the bounds of a
range are `Bound`s (`SizesAssumption`, `RequestsAssumption`); connections have names of their own
among the tasks (`ConnAssumption`), free ports are ports and the configured one is an integer
(`PortsAssumption`), `PortModulus` is greater than 1; page sizes are of type `uint32_t`
(`PageSizesAssumption`), and a request has the fields a request has, with any values
(`StrangeRequestsAssumption`).

* `KeyLemmas` (and `OperatorProofs`, the same as invariants of the `keys` run): `LookupExact`, a
  lookup by `Seek` succeeds exactly for the keys in the DB; `NextIdFresh`, `get_next_id` is the
  least identifier above those of its type, provided the last identifier is free. The
  comparator is the order of a key's place in the two ranges of identifiers laid end to end
  (`PlaceOrders`), so that a set of keys has a least and a greatest element because the naturals
  are well founded.
* `OperatorProofs`: explicit ranges inside the file and open-ended ones are exact, for every modulus.
* `EemsProofs`: `TypesAlwaysOK`, `RefsAlwaysResolve` and `CountersAlwaysFresh`,
  for every tree, configuration, `MaxId` and number of faults.
* `TreeProofs`: `AlwaysTreeShaped`, `ResourcesAlwaysOwned`, `MoviesFolderAlwaysOne`,
  `ThrowsAlwaysNeedFault`, `AlwaysAppendOnly` and `LibraryImplemented` (that `EemsMain` refines
  `MediaLibrary`), for the same constants.
* `VideoProofs`: `ItemsAlwaysPlay`, `CoverAlwaysShown`, `NeverPublishedTwice` and
  `ScanAlwaysComplete`, for the same constants: what a scan is for; and `ScanAlwaysAdvances`, that
  it comes nearer to its end with each step.
* `BrowsingProofs`: `ErrorsAlwaysAnswered`, `LinksAlwaysServed`, `AlwaysSeenOnce`,
  `AlwaysFailsOnlyIfGone`, `WalkAlwaysComplete` and `AlwaysWalkAdvances`, for every `CountModulus`, page size and order of
  containers besides.
* `HttpProofs`: `ConnectionTypes`, `ResponsesMatchRequests`, `EndAlwaysReached` and `BodiesFramed`, for every modulus,
  chunk size, file and request. The invariant adds to the types that `sent + size = announced`
  while a body is sent, as an equation of true integers: a chunk is never longer than what is left,
  so neither side wraps; that a whole or open-ended answer announces all that the file has from its
  start, and has sent it up to the position of the file (`EndReached`, from `OpenRange`); and that `responses` is `requests` between two requests and one less
  while one is being answered, but for a connection that closes.
* `ServicesProofs`: `ServicesTypes`, `AnswersAlwaysTrue` and `NothingEverForgotten`, for every
  number of connections and searches and every configuration. That discovery never reads a
  `base_url` that is set later rests on the order of the queue alone: the server is spawned first,
  is at the head when the `io_context` starts and runs to its first suspension before discovery
  starts (`ServerFirst`), so that `base_url` has then been set, or, if the bind failed, never will
  be; from then on the configuration is constant. That it is the bound address while the accept loop
  runs is `AddressTrue`. That what an operation completed with (a
  datagram, a connection in the backlog) is still there when its handler runs needs that no task is
  queued twice (`QueuesOK`). `NothingForgotten` needs besides that a response exists only while it
  is being sent (`ResponseInv`).

The argument of `EemsProofs`: `RefsResolve` is not inductive, for two reasons, and `Inv` adds what
is missing. First, a batch is closed only if what its items name is in the batch: `ItemsCovered`
says so of the items being composed, and `ComposedTyped` proves it of each call of
`object_composer`. (`BatchKeepsRefs` then needs no freshness: even an object overwritten by
another would leave every reference resolved, since keys are only added.) Second, a power loss
makes `durable` the DB: so all that is said of `db` is said of `durable` too, and `DOMAIN durable`
is a subset of `DOMAIN db`, so that counters read from `db` are above the identifiers of both.
`CountersFresh` in turn needs `IdsInside` (no identifier in the DB is the last one), the premise
of `NextIdFresh`, and the numbering within an object (`RankInside`: the artwork and subtitles of
an item get distinct numbers below its resource count). `StepInv` says that the composer is empty
outside `scan_directory` and has a parent within it. There is one lemma per action and one case
per action in `NextInv`. `Inv` was checked with TLC on the instance of `faults` before it was
proved.

The argument of `TreeProofs`: `Inv` does not say that what is written is new, and a tree needs
that. `TreeInv` adds five things to it. `ItemsFresh`: the objects being composed have identifiers
above those of the DB, all distinct, and name the container they are composed for. `Downward`: a
list only names larger identifiers than its own, so that nothing contains itself and the Movies
folder is never the root. `MoviesOnly`: the root lists one folder at most. `ParentsInv`: the keys
the scanner holds as parents (those on its stack, the composer's, `movies_folder_`) are never the
root and, until the first fault, are containers of the DB. `Emptiness`: before it is formatted
the DB is empty. `Downward` and `MoviesOnly` are said of `durable` as well, since a power loss makes
it the DB. From them each batch is a `FreshBatch`: it publishes objects that the DB lacks, each once, below a container that
it has. `NextTree` then proves, together with the invariant, `DbStep`: a step leaves the DB as it
is, formats an empty one, publishes a `FreshBatch`, flushes, or goes back to the durable DB as the
process dies. `AppendOnly` and each step of the refinement follow from `DbStep` and the shape of
the batch, without another look at the actions. `TreeInv` was checked with TLC too before it was
proved.

The argument of `VideoProofs` has two invariants on top of `TreeInv`. `FilesInv` is about single
objects: each of the DB, and of its durable part, is `Good` (it plays one video, has a cover if its
folder has one, and all its files are different and of one folder), and the i-th composed item
plays the i-th video of the folder on top of the stack. The key it needs is that within
one call of `object_composer` no key is handed out twice (`ItemKeysApart`): the artwork is numbered
by its rank, after the video, and the subtitles after the artwork. Once published an object stays
good, since a batch changes no resource and only the list of a container (`GoodAlike`).
`PublishedInv` is about the DB as a whole. Its `StackInv` says that the folders on the stack belong to the library being scanned and that no
folder is below two of them (`Apart`), which pushing the subfolders in place of their folder keeps
because folders are paths. Its `CountInv` says that, without a fault, a video has been published as
often as its folder has been scanned: once for each library that is done and reaches it, and once
more if the current one reaches it and it is not still ahead on the stack (`ScannedIn`). With
faults only "no more often" is left, and a DB that was interrupted is not scanned again
(`Scanning`). At the end of a library the stack is empty, and the count is that of the libraries.

The argument of `BrowsingProofs`: `ErrorsAnswered` and `LinksServed` are facts of any state of the
DB in which references resolve, the tree is shaped and objects are good. The walk needs memory.
`GivenInv` says exactly what the control point knows: a child is known if and only if its container
is, is no longer waiting to be listed, and, if it is the one being listed, the child stands
before `start`. So what a page brings is new (`PageIsNew`), and nothing is left out of a list that is
passed. A walk that ended and missed an object would have missed one with the least identifier;
its parent has a smaller one, so is known, has been listed, and lists it. A power loss keeps all
this because a DB that serves is never scanned again (`ServesSince`), and what is durable has of
each list a beginning (`Earlier`): positions stay what they were, and `start` may only lie past the
end. In `FailsOnlyIfGone` the case of an index that is no `uint32_t` is real: a list of 2^32 objects
could not be read to its end. The parts of `WalkInv` were checked with TLC on the instance of
`browsing` before they were proved.

### The safety half of liveness

A liveness property holds because something decreases that cannot decrease for ever. That it
decreases is a matter of single steps and states, and is proved:

* `ScanAdvances`, for `Restarted`: the folders a library's scan has ahead of it (those on the stack
  and all that are below them) stay the same while the videos of the top folder are composed one by
  one, and lose exactly that folder when it is done. The subfolders pushed in its place were ahead
  already and, folders being paths, it is below none of them (`PushedAhead`, from `Apart`).
* `WalkAdvances`, for `WalkEnds`: the page that is read next has only new objects, and some unless it
  is the last of its container, which is then never listed again. That a page inside its list is not
  empty (`PageNotEmpty`) has one exception, which is the code's: a `RequestedCount` of 0 stands for
  the size of the list as a `uint32_t`, which is 0 again for a list of a multiple of 2^32 objects
  (`CountWraps`). It is an invariant, because a page that brought nothing would be a stuttering
  step, of which an action property says nothing.
* `NothingForgotten`, for `SearchAnswered` and `AcceptedOrReset`: what was received waits in the
  socket, in the backlog or in the queue, until its turn, its answer or the end of its coroutine. That
  the queue is first in, first out, so that each turn brings it one place forward, is a property of
  the `io_context`; the code's part, that no coroutine keeps its turn, is in the model-checked
  properties.

What is left, that fairness makes the steps happen, is liveness and `ENABLED`, out of the prover's reach:
`Restarted`, `WalkEnds`, `StreamEnds`, `SearchAnswered`, `AcceptedOrReset` and `SignalEnds` are
only model-checked. `StreamEnds` has no such half: a truncated file is streamed without progress
until the timer expires. Every invariant and action property of the passing runs is proved.

## Not modelled

* **Configuration**: the TOML syntax and its type errors, the command line, the path of the DB and the logging
  section. The `[server]` table with its defaults and the content array are modelled.
* **XML**: documents are modelled by their fields. The text of `xml_serialization.cpp`, escaping
  and `dc:date`; the arguments of Browse that the code does not read (`Filter`, `SortCriteria`).
* **Discovery**: NOTIFY, which the code does not send; the delay that `MX` asks for, which it does
  not keep.
* **A media tree that changes during the scan** in another way than by a folder that can no longer
  be listed; a file that vanishes between two starts.
* **Logging and plumbing**: log formats, the adapters of `as_result.h`, the accessors generated for
  flatbuffers, MIME types, and the regular expressions of `normalize_title` beyond the year.
