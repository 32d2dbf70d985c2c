# TLA+ models of tvix

This directory holds TLA+ models of tvix, a Nix implementation in Rust: its
content-addressed store, the services and archives around it, its evaluator and
its builds. The models say what these parts do when several clients, tasks,
threads and connections work at once and any of them may fail. TLC checks them
on small instances. TLAPS proves the safety properties of the stores, the file
system, ingestion, the composition and the binary cache for every instance.

The models are translated from the Rust code. `PROJECT.json` names, for every
definition, the lines it stands for.

Contents:

1. The system and its parts
2. Modules: state and actions
3. Runs: what is checked, with which bounds and which fairness
4. Disagreements between code and comments
5. Proofs
6. What is abstracted, and what is not modelled
7. Observations without a run
8. Plan

To repeat the work, in this directory:

    tlc -workers 2 -config MCDirectories.cfg MCDirectories
    tlapm DirectoryServiceProofs.tla

## 1. The system and its parts

Data lives in three kinds of services.

* A **BlobService** stores file contents by BLAKE3 digest. The object store
  backend cuts a blob into chunks and keeps a list of them.
* A **DirectoryService** stores `Directory` messages by digest. A directory
  refers to its children by digest and announces their size. A *closure* is a
  directory with all it refers to, directly or not. Closures travel as streams,
  either leaves first (uploads) or root first (downloads).
* A **PathInfoService** maps the digest of a store path to a `PathInfo`: root
  node, references, NAR hash and size, signatures.

A **composition** builds services from a configuration; a service may be made
of others. Importers (local paths, archives, NARs) turn trees into blobs and
directories. The FUSE/virtiofs file system, the NAR renderer and nar-bridge read
them back. The **evaluator** compiles Nix expressions to bytecode and runs it on
a stack machine. Its **glue** turns derivations, fetches and imports into store
paths, and has a path built or fetched when it is first read. The **build
service** runs builds in a sandbox.

| part | state | operations | what is hard | modelled in |
|---|---|---|---|---|
| closure validation (`directory_graph.rs`, `order_validator.rs`) | graph of known and announced digests | add, validate, drain | repeated directories, wrong sizes, disconnected parts, panics behind "can't happen" | `DirectoryGraph`, `ObjectStoreDirectory` |
| key-value directory stores (`memory.rs`, `redb.rs`, `simple_putter.rs`, `utils.rs`) | set of directories | put_multiple_start, put, close, get_recursive | uploads cut short, traversals while uploads run | `DirectoryService` |
| directories on object stores | one object per closure | close, get_recursive | racing writers, broken streams | `ObjectStoreDirectory` |
| directory `Cache` | near and far | get, get_recursive | far ends early, two clients refill at once | `DirectoryCache` |
| directories over gRPC | channel, task, handler | put, close, get_recursive | connection breaks at any message | `DirectoryGrpcPut`, `DirectoryGrpc` |
| blob services | chunk objects, index objects | upload, has, chunks, open_read | requests of two clients interleave, uploads fail half-way | `BlobStores` |
| open files | position, chunk stream | read at an offset | threads sharing a handle, failing chunks | `FileReads` |
| composition | state per name, watch channels | build, resolve | recursion, dropped builds, waiting for one another | `Composition` |
| FUSE requests | inode tables under locks | lookup, getattr, readdir, open | check and insert under different locks, queued writers | `FuseFs` |
| FUSE listings | channel and background task | opendir, readdir, releasedir | full buffers, closed channels | `FuseListing` |
| ingestion | partial directories, uploads in flight | entries, join, close | back pressure, errors on either side of a channel | `NarIngest` |
| archives | graph of entries | add, finalize | repeated and replaced entries, edges renumbered by removals | `ArchiveGraph` |
| path infos | tables of the backends | get, put, sign, convert | conversions through narinfo and protobuf | `PathInfos` |
| binary cache: nar-bridge, nix_http, Cache | LRU of root nodes, castores, near | upload, narinfo, download | narinfo and NAR are separate requests, eviction, restarts, lost replies | `NarBridge` |
| NAR rendering | segments, position, pending blob reader | read, seek | seeks while a blob is being opened, calls dropped | `SeekableNar` |
| wire packets | position in the packet | poll_write, poll_flush, poll_read, fill_buf | short reads and writes, padding, tags, cut streams | `NarWire` |
| NAR reader and writer | reader stack, poison flag | next, read, entry | malformed input, consumers that skip | `NarFormat` |
| compiler | scopes, locals, upvalues, chunks | one per kind of expression | slots, finalisers, dead code, optimiser | `Compiler` |
| virtual machine | frames, stack, with-stack, heap, import cache | opcodes, force, generator requests | laziness, sharing, self-reference, catchable errors | `VMState`, `Bytecode`, `Generators`, `EvalBuiltins`, `VM` |
| what a program means | | | | `NixSemantics`, `Evaluation` |
| derivations | KnownPaths | derivationStrict, add_derivation | output paths that depend on each other's hashes | `Derivations` |
| fetches and imports | | ingest_and_persist, import_helper, toFile | hash check after ingestion | `StoreImports` |
| store I/O | stack of store_path_to_node calls | read, build, fetch, put | recursion into inputs, crashes, two evaluators | `StoreIO` |
| builds | permits, builds in progress | do_build, cancel | permits, mounts, orphaned children | `BuildService` |

`PROJECT.json` lists all parts with their files, and the hazards with the lines
at which they bite.

## 2. Modules: state and actions

An `.await` on a service, a channel or a lock ends a step. What the code does
between two of them is one step, because nothing else can be observed there.
Names ending in an underscore and a word (`StoreOne_early`) are mutated forms of
the definition that follows them. They are not part of any specification; each
shows that some property would notice that change of the code.

### Directories and blobs

**DirectoryGraph** is a library of operators on one graph value: `nodes` (digests
heard of), `known` (messages received), `pending` and `checked` (edges whose
announced size has not, or has, been compared) and `order` (what the order
validator allows). `LeavesToRoot_add` and `RootToLeaves_add` give the possible
outcomes of `DirectoryGraph::add`, `validate` the check for one connected root,
`Drained` what the drains yield. A directory is identified with its digest.
Digests cannot be cyclic, which the constant `Depth` witnesses.

**DirectoryService** has the store `db`, any number of putters (`graph`, `pc`,
`todo`, `rejected`) and traversals (`rpc`, `root`, `worklist`, `sent`). `Put` and
`Close` are the calls of a `SimplePutter`; `StoreOne` is one put of the drained
closure into the backend; `CommitAll` is the one transaction of redb's putter;
`StoreFails` and `Drop` end an upload anywhere. `Traverse`, `TraverseStep` and
`LookupFails` are `traverse_directory`.

**DirectoryCache** extends it with clients of `Cache`. `far` is any sequence of
directories that ends or fails anywhere. The refill of `near` uses the putter
actions of DirectoryService, so the same validation is applied twice, first in
the order root to leaves, then leaves to root, as in the code.

**ObjectStoreDirectory** has the walk behind the drains: petgraph's
`DfsPostOrder` (`DfsDiscover`, `DfsPush`, `DfsFinish`) and `Bfs` (`BfsNext`,
`BfsQueue`), with every order of children. What was drained is written as one
object (`FindObject`, `Shutdown`) and read frame by frame (`OpenStream`, `Frame`,
`EndOfBody`, `Break`).

**DirectoryGrpcPut** has the putter of the client, its request task, the channel,
and the server's handler, which validates the stream and writes it through a
SimplePutter of DirectoryService. **DirectoryGrpc** adds the downloads, which
stream a traversal of the same backend to a client that checks it; `promised`
records that an upload was acknowledged before a download began.

**BlobStores** has two object stores, `local` and `remote`, with `chunkObj` and
`blobObj`. A blob is the sequence of its chunks. Writers head and put the chunks
one by one and the index last; readers go through `open_read` of the object
store, the gRPC or the combined service, request by request.
**FileReads** is a `ChunkedReader` in an open FUSE handle: threads lock the
handle, seek and read; a chunk may fail to open or to be read.

**Composition** has the state of each name (`state`, `watch`, `owner`), the builders being
polled (`dfs`), and what they resolved to (`ans`). The builders of the repository
resolve everything they need with `join!` before they await anything else. The
first poll of a build is therefore a depth-first exploration on one thread, and
the stack in the context is its path.

**FuseFs** has the inode tracker as a value with its operations, and runs the
handlers on several threads, with the root map's and the tracker's lock.
parking_lot makes new readers wait behind a queued writer, and so does the model.
**FuseListing** is one directory handle: the background task that fills a channel
from `list()`, or the offset into populated children.

### Archives, NARs and the binary cache

**NarIngest** is `ingest_entries` (partial directories by path, those put so
far, and the end) with the producer of a NAR, the channel of one entry and
the `ConcurrentBlobUploader` with its semaphore: a file is read only once its
upload is admitted (`Admitted`). `ProduceFails` is every error of the producer,
`ProduceHangs` a NAR that ends within a name. **ArchiveGraph** is the entry
graph of an archive with petgraph's numbering of edges, since the code keeps edge
numbers across removals.

**NarWire** has a stream (`written`, `cut`), a `BytesWriter` (`w`) and a reader
(`r`, `rpos`). `PollWrite` and `PollFlush` offer the inner stream a slice, of
which it takes any part; `CallCancelled` drops a call. `ReadSize`,
`PollReadBody`, `FillBufBody`, `StartTrailer`, `ReadTrailer` and
`ReleaseTrailer` are the states of `BytesReader`; `ReadWhole` is `read_bytes`.
`ForceFill`, `TryReadNumber` and `SplitContents` are the `NixReader` of the daemon
protocol, which reads ahead into a buffer it keeps from packet to packet.
`Corrupt` and `Cut` are what the stream may do.

**NarFormat** feeds any token to the NAR reader at every point; a consumer builds
a tree of what it gets. The stack of directory readers and the `poisoned` flag
are those of the synchronous reader in debug builds; `Misuse` is a consumer that
lets go of a file or goes on after an error.

**SeekableNar** computes the segments of a rendered NAR as `Reader::new` does,
next to `write_nar`. A caller reads and seeks (`CallRead`, `CallSeek`); each poll
is a step; `current_blob` is the `TryMaybeDone` future of the code.

**PathInfos** is a library: what a `PathInfo` becomes as narinfo text, as
protobuf message and in each backend, and what reading it back gives or refuses.
**NarBridge** runs users against a cache: uploads (`PutNar`, `PutNarinfo`),
imports (`IngestPath`, `Import`), messages over gRPC, and downloads in the steps
of `nix_http.rs` (`GetNear`, `GetNarinfo`, `GetNar`, `FillNear`). Requests and
replies get lost (`faults`), and `Restart` empties the LRU of root nodes.

### The evaluator

**Compiler** translates expressions to chunks of instructions. It is a function
from a compiler state to the next; every function of the Rust compiler that emits
code has its operator. **VMState** has the machine's variables; **Bytecode** one
action per opcode; **Generators** and **EvalBuiltins** what a generator frame does
from one request to its next, for forcing, comparing, coercing, calling, and the
builtins. **VM** is the loop of `VM::execute`: one step is one instruction or one
resumption. `Thunk::force_` is a loop of its own: `ForceEnter`, `ForceEntered`,
`ForceCycle`, `ForceDone`, and for a thunk that evaluated to another one
`ForceSteal`, which takes over the contents of a thunk nobody else holds
(`Rc::try_unwrap`), and `ForceNested`. Who holds a thunk is computed from the
stack, the frames, the import cache and the heap (`Roots`, `Reached`).

**NixSemantics** is written independently of the code: a call-by-name evaluator
over expressions and environments, with no slots, thunks or sharing.
**Evaluation** is the abstract specification: a variable `answer` that is given
once, and is the meaning of the program. `MCEval` shows that the machine
implements it (`INSTANCE Evaluation WITH answer <- Result`, where `Result` reads
the answer off the machine's heap).

### Derivations and builds

**Derivations** has store paths, the validation and hashing of derivations,
`derivationStrict` argument by argument, and `KnownPaths`. A digest is the term
that was hashed, so digests are equal exactly when the hashed things are.
**StoreImports** is what fetches, `path`, `filterSource` and `toFile` put into the
store. **BuildService** is `do_build` on a shared server: `Submit`, `Acquire`,
`MountFails`, `Spawn`, `ChildExits`, `ChildFails`, `IngestOutputs`, `IngestFails`,
`Cancel`, `OrphanExits`. **StoreIO** runs evaluators against it: builtin calls
fill `known`, reads push frames of `store_path_to_node` on `stack`. An evaluator
may be killed between any two awaits and run again.

The `MC*` modules give the constants their values. Some put several components
beside each other, with a variable that tells which one a behaviour is about
(`store`, `part`, `about`): such a run answers questions about components that do not
interact, and the others stay in one state.

Abstract and detailed. The machine of the evaluator implements `Evaluation`.
`ClosureReadsBack`, `AcknowledgedIsServed` and `UploadMeansStored` are stated
against the closure of a root in DirectoryGraph, which is what all directory
stores promise. DirectoryCache and DirectoryGrpc are composed with
DirectoryService itself, StoreIO with BuildService, SeekableNar with NarFormat,
NarBridge with PathInfos.

## 3. Runs

### What each run shows

`directories`. The directory stores of one process and the file system on top of
them. Two uploads and one traversal over one store: `StoreClosed`, a stored
directory's children are stored; `StoredSizesAgree`, sizes announced in the store
are the real ones; `PutterNeverPanics`, whatever is put in whatever order, the
panics behind the order validator are out of reach; `ClosedMeansStored`, a
`close()` that returned Ok stored the whole upload; `TraversalComplete`,
`get_recursive` never calls the store inconsistent, and yields nothing or a whole
closure; `SentRootToLeaves`, root first, and nothing before something that refers
to it. The Cache: `CacheSound`, whatever far sends, near stays closed, a client gets
a whole closure or an error, and what the first validation accepted is never
refused by the second. FUSE: `InodesRight`, names lead to inodes of the right node,
in the root map and in populated directories, there is at most one inode per
contents, and what the kernel was told of an inode has its contents;
`InodesStable`, an inode keeps its node, a populated directory its children;
`ListingRight`, a listing below the root is exact, and one of the root has no
repetition and loses at most one entry per full reply. `DirectoriesAnswer`:
traversals and requests to the Cache end, no two handlers block each other for
ever, and the task of a released handle ends.

`services`. `UploadMeansStored`: when the client's `close()` returns Ok, all
directories whose `put()` returned Ok are in the server's store.
`DownloadComplete`: a stream that ends without an error was empty or whole.
`AcknowledgedIsServed`: after an acknowledged upload, a download of it is never
empty. `InstancesShared`: each store of a composition is instantiated at most
once, an instance exists only with all it refers to, and recursion is reported of
cycles only. `CacheConsistent`: what the cache keeps decodes to what it took, under
its own digest and signed, and what came through nar-bridge has the hash of its
node's NAR. `DownloadsVerified`: what a reader keeps was kept by the cache in just
that form, is signed by a trusted key, has the stated hash, size and contents, and
is for the digest asked for. `CallsReturn`: uploads, downloads, builds of stores
and requests to the cache do not hang. A build of a store returns, or its caller
dropped it, or it panics because the caller that was building what it waits for
dropped that (section 7).

`blobs`. `IndexComplete`: an index object names stored chunks only.
`ReadComplete`: a reader whose `open_read` succeeded finds every chunk.
`ReadExactUnlessFailed`: while no chunk fails, a read returns the bytes at its
offset, whichever threads share the handle. `ClosureReadsBack`: a closure of
directories written to an object store is read back whole, or the reader gets an
error; the upload order has children before parents.

`archives`. `IngestedMeansStored`: Ok(root) means all blobs and directories are
stored. `StreamLegalOnce`: what `finalize` gives is a stream that `ingest_entries`
accepts, as long as at most one directory was replaced by a file; section 4 has what
happens after a second. `NewestKept`: the newest entry of the archive is in it, and a path is a
file only if the last entry for it was one. `PacketExact`: what a `BytesWriter`
that reported success put on the stream is the packet `write_bytes` writes.
`FinalBytesVerified`: the last bytes of a payload are handed out only after all
padding, and the tag behind it, was read and found right. `NarReaderExact`: an
archive read to its end is the one the writer writes for the tree that was built;
no archive of the writer is refused; a consumer that goes on after an error is
stopped by an assertion. `SeekReadsRight`: a read after any seeks and dropped
calls returns the bytes of the rendered NAR at that position; the one panic that is left
is that of a seek to where the reader is, at an empty file it has read (section
7). `ArchivesEnd`: `ingest_nar` returns unless its NAR ends within a name (section
7), and a packet reader ends when its stream does.

`evaluator`. `FramesBalanced`: a frame leaves one value where it began, the
with-stack is empty whenever another frame can look names up, and every call is
a tail call. `UpvaluesFinalised`: no captured local is read before its finaliser; it holds of
programs without dynamic keys that need a later binding of their recursive set
(section 4). `ThunksSettle`: a thunk is a blackhole while its code runs, which
happens once, and its value stays, also where a thunk takes over another. `Agrees`: the machine implements `Evaluation`.

`builds`. `StoreSound`: what was fetched or imported is stored below the path of
its own contents, with the size of its NAR (that of the file for an executable
that was fetched, section 7), whatever a server sends; references lead to stored paths, or to
an output of the same derivation. `PathsStable`: what is stored at a path never
changes, with two evaluators that reach it by different inputs, and crashes.
`SandboxRight`: a running build sees each input read-only at its path, and each
output is in the scratch space it is ingested from. `RequestsEnd`: every request
ends, though builds wait for permits and for builds of their inputs.

The six other runs are in section 4.

### Bounds, and why they are enough

| run | instance | states |
|---|---|---|
| directories | stores: directories `leaf`, `mid`, `top` (shares `leaf`), `bad` (announces a wrong size), one SimplePutter, one redb putter, one traversal; Cache: two clients, far sends up to `MaxStream` = 3 directories; FUSE: two threads, a root with a directory and a file, a directory with a file of the same contents and an empty directory; listings of up to `MaxEntries` = 5 with `ChannelSize` = `ReplyCapacity` = 2 | 123 951 |
| services | gRPC: three directories, one uploader with `MaxPuts` = 3 calls, one downloader; composition: three stores with up to two dependencies each, a name that does not exist included, all graphs with one thread, all acyclic ones with two threads, one of which may be dropped; binary cache: three users, `RootNodesCapacity` = `NearCapacity` = 1, one lost message, one restart | 130 627 |
| blobs | two chunks, blobs of zero to three chunks, two writers, one reader of any service; files of two or three chunks, two threads, `MaxRequests` = 2 reads each; object store: every closure of four directories with at most two entries each, in every order, two putters, one reader | 545 790 |
| archives | six paths (two directories, three small files, one large), all post-orders, `Threshold` = 3, `MaxBuffer` = 2; archives of `MaxAdds` = 4 entries, files and directories, with paths of up to three components; packets of 0, 2, 4 and 5 units with `Block` = 4; NARs of `MaxInput` = 18 tokens; rendered NARs with `MaxCalls` = 4 calls and one failing blob | 270 248 |
| evaluator | the programs of `MCEval`, each chosen for a construct of the compiler or a path through the machine; the reference evaluator has `Fuel` = 26 and looks at results to `Depth` = 4 | 3 746 |
| builds | two evaluators per program, one permit, one fault and one restart; both ways a build server may name output nodes | 13 319 |

Every bound admits the case the hazard is about: a shared child, a wrong size, an
upload overtaken by another, a second client refilling the same closure, a cycle
through three stores, a full channel and a full reply at once, a file that must
wait for a permit, a narinfo whose NAR was evicted, a payload that ends within,
at, and one past a block, a directory in a directory with two names out of order,
a build that waits while the evaluator that holds the permit is killed. Three or
four directories are the least with a shared child and a chain; beyond that
`StoreClosed`, `TraversalComplete` and the other proved properties do not rest on
the bounds at all.

The evaluator's run is a test of chosen programs with an exact oracle, not a
search of all programs: the machine is deterministic, so what is gained is that
four properties are checked in every intermediate state.

The bounds on counters (`MaxStream`, `MaxPuts`, `MaxEntries`, `MaxAdds`,
`MaxRequests`, `MaxInput`, `MaxCalls`, `MaxFaults`, `MaxRestarts`) are guards and
named. `CHECK_DEADLOCK FALSE` is set where all calls of an instance can be over.

### Fairness

* `directories`: weak fairness of a traversal being polled, as calls of the backend
  return, with an error if need be. Near answers, and far's stream ends or fails: a
  far that stays silent for ever blocks a request, the code has no timeout. Strong
  fairness of a thread serving a request of the kernel, as parking_lot's locks are
  eventually fair and a thread is not passed over for ever; weak fairness of the
  background task and of the current listing call.
* `services`: handlers, request tasks, and calls that wait are polled until they
  end; the executor polls futures that were woken; a user of the cache goes on
  with its script. A client that stops calling `put`, or drops its build, is not
  assumed to go on.
* `archives`: `try_join!` polls both sides, and the runtime runs spawned uploads; a
  packet's reader goes on reading.
* `builds`: weak fairness of each evaluator together with the server's work on its
  build. The semaphore of tokio is a queue, and a builder's process ends.

The runs of blobs and of the evaluator check safety only.

## 4. Disagreements between code and comments

Six runs state what a comment or test says and show a behaviour of the code that
differs. `PROJECT.json` quotes the comments.

* `composition_recursion_deadlock`: the stack that is to "prevent deadlocks"
  belongs to one build call. Two threads building two stores that refer to each
  other wait for each other. Configurations built at start-up, one after the
  other, do not meet this.
* `read_after_chunk_failure`: after a chunk failed, the stream of a
  `ChunkedReader` goes on with the next chunk while `pos` stays. A read
  repeated at the same offset is answered with later bytes.
* `archive_replaced_directories`: `replace_node` collects the numbers of the edges to
  the children of a node and removes them one by one, while petgraph gives the
  number it frees to the last edge. Once edges were removed before, a number of the
  list can stand for another edge. With `a/b/x` and `a/a/x` repeated and then
  replaced by files `a/b` and `a/a`, the file `a/a` keeps a child, and the stream is
  not one `ingest_entries` accepts.
* `early_dynamic_key`: in `rec { f = x: g; ${f 1} = 1; g = "k"; }` the key is forced
  between the bindings, and `f` gets its upvalue `g` after all of them. The key is
  the placeholder of that upvalue, and the set is refused.
* `optimiser_shadowed_bool`: the optimiser asks whether `true` or `false` was
  shadowed, but only in the innermost function or thunk. A thunk below a
  `let true = ...` gets the literal.
* `build_gives_node`: the OCI service names the output nodes of a build, and the
  evaluator takes them for anonymous with an `expect`. The passing run has
  both namings; with names, it takes the panic for the end of the request.

## 5. Proofs

Eight modules hold proofs. They are for all values of the constants: any
directories, blobs, trees and scripts, any number of putters, readers, threads
and users. Every safety property of the runs `directories`, `services` and `blobs`
is a theorem, and of `archives` `IngestedMeansStored`.

The proofs have the same shape. An inductive invariant says why the property
holds at every intermediate step; one lemma per action shows that it is kept; a
frame lemma shows that what one actor does to its own state does not disturb
the others. The assumptions about constants are ASSUMEs of
the modules that declare them, and TLC evaluates them in the runs.

| module | theorem | states |
|---|---|---|
| DirectoryServiceProofs | `TypeCorrect` | `TypeOK` |
| | `StoreConsistent`, `SizesConsistent` | `StoreClosed`, `StoredSizesAgree` |
| | `PutterSafe`, `PutterCorrect` | `PutterNeverPanics`, `ClosedMeansStored` |
| | `TraversalCorrect`, `TraversalOrder` | `TraversalComplete`, `SentRootToLeaves` |
| DirectoryCacheProofs | `CacheUsesService` | the Cache implements a client of DirectoryService |
| | `CacheCorrect` | `CacheSound` |
| DirectoryGrpcProofs | `GrpcUsesService` | the server implements clients of DirectoryService |
| | `UploadCorrect`, `DownloadCorrect`, `ServedCorrect` | `UploadMeansStored`, `DownloadComplete`, `AcknowledgedIsServed` |
| ObjectStoreProofs | `ClosuresCorrect` | `ClosureReadsBack` |
| BlobStoresProofs | `AlwaysIndexComplete`, `AlwaysReadComplete` | `IndexComplete`, `ReadComplete` |
| | `ReadsCorrect` | `ReadExactUnlessFailed` |
| FuseProofs | `InodesCorrect`, `InodesKept` | `InodesRight`, `InodesStable` |
| | `ListingCorrect` | `ListingRight` |
| TaskProofs | `CompositionCorrect` | `InstancesShared` |
| | `IngestCorrect` | `IngestedMeansStored` |
| BridgeProofs | `CacheAlwaysConsistent`, `DownloadsAlwaysVerified` | `CacheConsistent`, `DownloadsVerified` |

The theorems called `...Invariance` state the inductive invariants themselves.

**DirectoryServiceProofs.** Assumptions: `DirsAssumption` (entries are sequences
of digests with sizes), `DepthAssumption` (digests are acyclic, which content
addressing gives), `PuttersAssumption`. `StoreClosed` is not inductive: nothing
in it says why the directories an upload has yet to put come with their children.
`IInv` adds, for each putter, `GraphInv` (a known directory has an edge for each
of its entries, and an entry whose child is known too announces that child's
size), `OrderInv` (an edge leads only to a digest the order validator was shown,
and such a digest is known unless its own entries contradict a known child; this
puts the panics of `add_order_unchecked` out of reach) and that a closing
upload's directories are each in `todo` or in the store. For each traversal it
adds that the children of what was sent were sent or are in the worklist, and
that everything in the worklist is stored once the root was found. `DrainedAll`
shows that a validated graph drains to all its nodes: were some node not reached,
the one of least depth would be a second root, or have a parent that is reached.
Reachability is defined as the least closed set, since a recursive definition
could not be reasoned about.

**DirectoryCacheProofs.** Assumption: `ClientsAssumption`. That near is closed
follows from `IInv`, because each step of the Cache is a step of DirectoryService
or leaves near alone (`CacheUsesService`, a refinement by the identity). The rest
is `ClientInv`: while far sends, the copy has stored exactly what came
(`CopyInv`), and no addition to it failed half-way (`CleanGraph`). From there on
the near putter holds the copy less what is still to be drained (`Refilled`). As
the drain is leaves first, each `put` finds its children, which is why near never
refuses what the copy accepted.

**DirectoryGrpcProofs.** Assumption: `UploadersAssumption`. `UploadInv` follows
each directory whose `put` returned Ok: it is in the channel or the handler's
graph, then with the drained ones or the backend's putter, then in the store.
`DownloadInv` relates the two ends of a stream: what was sent was received or is
on its way, once each (`StreamInv`), and what arrives is expected, as the root or
as a reference of something before it (`ExpectInv`).

**ObjectStoreProofs.** Assumption: `NodesAssumption` (child lists lead from a node
to higher ones). `WalkInv` describes petgraph's walks while they run. Depth first (`DfsInv`):
a node that is discovered and not finished is in the stack below higher nodes
only, and each of its children is finished, above it, or still to be looked at
(`Held`). Breadth first (`BfsInv`): the queue has each discovered node once, and
all but the root were referred to by a node yielded before. When a walk ends, the
lowest node that was not yielded would have a parent that was, so there is none.
`ObjectInv` says that the object is the whole closure in breadth-first order,
whichever putter wrote it, and that a reader has yielded a prefix of it and
has the rest in its body.

**BlobStoresProofs.** Assumptions: `BlobsAssumption`, `ReadsAssumption`. `WriterInv`
(the first `n` chunks of an upload are in its store, all of them when the index is
put) and `ReaderInv` (a streaming reader has seen the index of its blob in the
store it reads from) use that stores only grow. `FileInv` relates `pos`, the rest
of the chunk stream and the bytes got so far on an open handle; it holds until a
chunk fails, and section 4 shows what happens after that.

**FuseProofs.** Assumptions: `MountAssumption`, `ListingAssumption`. `FsInv` says
that the two tables of the tracker are inverse to each other (`TablesRight`), that
populated directories have all their children (`ChildrenRight`), and what each
handler knows between two locks (`ThreadOK`). What a handler found under one lock is
still true under the next because inodes are only added (`Extends`). This also
gives the action property `InodesStable`. `ListingInv` relates the channel, the
entries the kernel got and the ones lost to a full reply.

**TaskProofs.** Two components whose tasks wait for each other. The composition
(`ScenariosAssumption`): the stack of a thread is a path of the
configuration (`PathOn`), so a name found on it is on a cycle; and an instance has
only instances below it (`InstanceInv`). Reachability is the least closed set here
too. Ingestion (`TreeAssumption`, `OrderAssumption`, `FilesAssumption`,
`UploaderAssumption`): after `n` entries, the partial directories are exactly the
parents that are awaited, with what was recorded for them (`ConsumedInv`);
`ChannelInv` says which entry is in the channel, and that the last one is sent only
after all blobs are stored (`UploadsInv`).

**BridgeProofs.** Assumption: `BridgeAssumption` (the server's own key is well
formed, capacities are at least one, scripts and lists of signatures are
sequences). `BridgeInv` says what is known of a path info at each stage.
Taken by the cache (`TakenInv`): nothing in it is malformed, it is signed, and if it
came through the bridge its hash is that of stored contents. Kept (`InfosInv`): in
the form of the backend, from which it decodes to what was taken. Served and
parsed (`Served`): what it was, plus the URL. Downloaded (`Verified`): the contents
are in the local store and have the stated hash and size. The
lemmas `RoundTrip` and `ParsesBack` are about the conversions alone: protobuf
and narinfo text lose nothing of a path info that was accepted.

### What stays model-checked

* Liveness: `DirectoriesAnswer`, `CallsReturn`, `ArchivesEnd`, `RequestsEnd`. TLAPS does not
  handle fairness and ENABLED.
* `StreamLegalOnce`, `NewestKept`, `NarReaderExact`, `SeekReadsRight`, and all
  properties of the evaluator and of derivations and builds (`FramesBalanced`,
  `UpvaluesFinalised`, `ThunksSettle`, `Agrees`, `StoreSound`, `PathsStable`,
  `SandboxRight`). Their models use recursive operators, on expressions, terms or
  trees, and what these compute for every input needs induction over data.
* `PacketExact` and `FinalBytesVerified`. Nothing stands in the way of a proof but
  the work.


## 6. What is abstracted, and what is not modelled

Stores and services:

* Digests are the things they are digests of. Collisions do not exist. In
  Derivations, where a digest is hashed again, it is the term that was hashed.
* Directories are reduced to their entries that are directories. Sizes are kept,
  as they are checked.
* Names, wire formats, logging, tracing and metrics are left out, except where a
  conversion can lose something (PathInfos, NarFormat, NarWire).
* The store is closed as long as its writers use `put_multiple_start`, as all
  importers do. The plain `put` of a DirectoryService does not check
  references, and is no action of DirectoryService.
* Nothing is ever deleted from a store. This is why opening a chunk through the
  combined or the gRPC service can be one step.
* In the composition, anonymous stores given by URL inside a configuration are
  built like named ones and are left out.
* In FUSE, `release`, `readlink`, extended attributes and constant file attributes
  are left out.
* The `AsyncWrite` plumbing of blob writers (duplex pipe, poll functions) is left
  out; what is kept is the order of requests.
* The path an import of NarBridge computes is a parameter of the script; `list` of
  the PathInfoServices is not modelled.

Archives:

* A unit of NarWire is a byte; a block has four of them instead of eight. A token
  of NarFormat is one framed string or integer.
* tokio's `seek` polls a pending seek to its end before it starts another one. A
  caller of the seekable reader stops after the first error. `binary_search`
  may return any of several segments with equal offsets.
* Of the readers of packets, `ArchivesEnd` is about those of payloads; that
  `read_bytes_buf` may not end is part of NarIngest (`ProduceHangs`), see section 7.

Evaluator and builds:

* Reference counts are not kept, but computed where the code asks for one. A
  generator frame is taken to hold the values it was given until it ends, and a
  function all constants of its file; a cycle that cannot be reached any more may
  or may not keep a thunk alive. Strings are model values with a context; what is
  not modelled of the builtins are those on strings, versions, regular
  expressions, JSON, XML and TOML.
* Evaluators are clients of one build server with one store. What a builder
  puts out is a function of what it sees (external). Builders of fixed-output
  derivations are honest in the passing run, as nothing checks them (section 7).
* Output paths sort like output names (`HashesSortLikeNames`); see section 7.
* What a server sends is long enough for the decompressor to recognise. A URL is
  its own base name.

Not modelled at all: the FUSE and vhost-user transports, command line front ends,
tracing, the Go bindings and generated code, which have no protocol of their own;
cryptographic hashes; the handshake and operations of the daemon; the search of the reference scanner;
the walk of local paths; the Bigtable directory service; the types for names,
paths and digests. `PROJECT.json` gives the reason for each.

## 7. Observations without a run

Met while translating; kept in the models as the code has them, unless section 6
says otherwise. Paths are relative to `src/`.

Castore:

* `SimplePutter::close` succeeds after a rejected `put` if what was accepted is a
  closure (`simple_putter.rs:45`), where the trait says an error must be returned
  (`directoryservice/mod.rs:105`).
* `Cache::get` of a directory that is nowhere is an error, "got no directories"
  (`combinators.rs:76`), where the trait says `Ok(None)`
  (`directoryservice/mod.rs:47`).
* Uploads through the directory `Cache` always fail, as its `put` is not
  implemented.
* `drain_root_to_leaves` is breadth first. A directory can come before some other
  directory that refers to it. The root-to-leaves validator accepts this.
* A file's executable bit is not part of its inode's key, so the attributes told
  of an inode can differ from one name to another. `InodesRight` is about kind and
  contents.
* `readdir` of the root takes an entry from the channel before it knows whether
  the reply has room; that entry is in no reply (`fs/mod.rs:502`).
* In an archive, children of a replaced directory stay in the graph and are
  attached again when their parent is.
* A caller that waits for a store of a composition while another builds it panics
  when that other one drops its build: the sender goes away, and the result of
  `changed()` is unwrapped (`composition.rs:403`).
* A blob writer of the object store whose `close()` failed, or was dropped before
  it ended, panics at a second `close()`.
* `open_read` asks for the chunk, then for the list of chunks. If a one-chunk blob
  is uploaded between the two, the list is empty and making a reader of it panics
  (`object_store.rs:151`, `chunked_reader.rs:149`).

Store and NARs:

* nar-bridge's narinfo upload drops the result of parsing the digest in the URL
  (`narinfo.rs:91`, no `?`) and does not compare it with the narinfo's store path,
  which decides where the narinfo is kept.
* `nix_http` does not compare the store path of a narinfo with the digest asked
  for.
* The redb path info service ends its list at an error. The Bigtable one
  reports success for a second put of a path and keeps the first value.
* An error while nar-bridge renders a NAR truncates the body of the reply.
* `read_bytes_buf` (`wire/bytes/mod.rs:113-115`) does not end at the end of the
  stream: the asynchronous NAR reader hangs in a truncated name, and `ingest_nar`
  with it.
* `BytesWriter::poll_flush` returns Ok in the middle of a payload, against
  `writer.rs:20-22`. `BytesReader::poll_read` with an empty buffer is an
  `UnexpectedEof`.
* `write_op` of the daemon protocol writes the operation big-endian
  (`nix_daemon/worker_protocol.rs:282`), `read_op` reads it little-endian (`:269`).
* Errors of a NAR's tags do not poison the reader, which `reader/mod.rs:340` says.
* The seekable reader wraps a negative target of a seek to the end; a read after a
  failed open panics; a read after a seek to an empty file may be a "blob short
  read". A seek to the current position, at an empty file whose reader is gone
  already, finds no reader to seek in and panics (`seekable.rs:280-281`, `352-356`).

Evaluator:

* `removeAttrs` panics for a name that is not yet forced, and `builtins.div` for a
  zero integer. Dead code that refers to a local panics in the compiler, as may a
  nested set in a set of several (`bindings.rs:618-620`).
* Catchable errors are type errors in comparisons (`value/mod.rs:681-683`) and in
  `catAttrs`, and pass unnoticed through `deepSeq`. `?` and `or` do not lift them.
* The optimiser replaces `e || true` by `true`, also where `e` fails.
* Arguments of builtins are forced last to first. `patch_jump` truncates offsets
  to 16 bits. `try_eval_frames` is counted and never read. The warning at
  `scope.rs:365-371` is given in the opposite case.

Glue and builds:

* The nodes of a build, sorted by path, are zipped with the derivation's outputs,
  sorted by name (`tvix_store_io.rs:287-293`, `build.proto:161-162`).
* The needles for the references of outputs are the inputs' `.drv` paths
  (`build_request.rs:91-93`), against `docs/src/build/index.md:53-56`.
* Outputs of fixed-output derivations that were built, not fetched, are not
  compared with their hash.
* `Fetch::Executable` takes the size of the file for the size of the NAR.
* A `do_build` that is dropped leaves its runc child running, without a permit
  (`oci.rs:42`). Bundle directories are never removed, `additional_files` are
  not written.
* A string's context may name a `.drv`, which is never stored
  (`tvix_store_io.rs:266-268`).
* `build_ca_path` refuses self-references exactly for SHA-256 NAR hashes, the one
  case for which its comment allows them (`utils.rs:75-78`). References of `toFile`
  are not sorted.
* `hash_derivation_modulo` looks up the inputs of a fixed-output derivation though
  it does not need them (`derivation/mod.rs:196-197`).
* `DecompressedReader` loses the bytes of a short first read, and waits for ever
  for a stream shorter than its buffer.

## 8. Plan

Done: the castore services, path infos and the binary cache, NARs, the evaluator,
derivations and builds (sections 2 to 5). Next:

1. **Proofs.** `PacketExact` and `FinalBytesVerified`; `PathsStable`, once store
   paths are computed without recursive operators.
2. **Rest of castore and store.** Import of local paths, the reference scanner
   with its overlap, `list` of the PathInfoServices.
3. **Evaluator.** Builtins on strings and versions, as operators against reference
   definitions.
4. **nix-compat.** The daemon's handshake and operations.
