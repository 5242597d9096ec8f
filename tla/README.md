# graymamba in TLA+

graymamba is an NFSv3 server written in Rust. A client's requests arrive over
TCP as RPC records, are decoded by the NFS handlers, and served by `SharesFS`, a
file system whose names, attributes and contents live in a key-value store
(RocksDB, or Redis behind the same trait). Contents are secret-shared before
they are stored, writes are buffered in memory and committed by a background
task, and every change emits an audit event that an adapter either collects in
windows of a Merkle tree or sends to a Substrate chain. This directory holds a model of that program, its model-checking
runs and machine-checked proofs about it. Paths below are relative to the
repository's `src/` directory of sources.

## The system's parts

| part | state | operations | who it talks to |
|---|---|---|---|
| `sharesfs/channel_buffer.rs` | chunks of one open file, their extent, `complete` | write, read_all, read_range, set_complete, clear | used by the write path, behind a lock |
| `sharesfs/writing.rs`, `mod.rs` (write, read, setattr) | `active_writes`: file id to buffer; `commit_semaphore` | handle_write, commit_write, monitor_active_writes, read, load_existing_content | store, buffers |
| `sharesfs/mod.rs`, `directories.rs`, `rename.rs` (namespace) | the store's `nodes`, `path_to_id`, `id_to_path`, a metadata hash per path, `next_fileid` | lookup, create, create_exclusive, mkdir, symlink, remove, rename, readdir | store, audit |
| `backingstore/*` | hashes, one sorted set, a counter | hget, hset, hset_multiple, hdel, incr, rename, scans | RocksDB or Redis |
| `secret_sharing` | none | dis_assembly, re_assembly | write path |
| `audit_adapters/*` | the queue of events; of the Merkle adapter the window of leaves and the trees in RocksDB, of the Substrate adapter the event it waits for | trigger_event, process_event, rotate_window, shutdown | namespace, NFS handlers, a chain |
| `bin/audit_reader` | none; it reads the trees | verify_historical_consistency, verify_event | the database of the Merkle adapter |
| `kernel/protocol` | fragments and the command and reply queues of a connection | read_fragment, handle_rpc, write_fragment, process_socket | handlers |
| `kernel/handlers`, `kernel/vfs` | none; file handles carry a generation number | one handler per procedure | `SharesFS` |
| `bin/graymamba` | the listener, the monitor task | start, stop | everything |

What is hard here: every request is a task of its own and gives way at every lock
and at every call of the store; no request holds a lock across its calls, there
are no transactions, most errors of the store are ignored half way through a
sequence of updates; the buffers are lost in a crash; the audit window is
written to the store in several steps. `PROJECT.json` lists these places one by
one, each with the properties that look at it.

What makes each part correct:

- write path: a buffer is committed by one task at a time and stored as a whole
  or not at all; a permit that is taken is given back on every way out; a
  request is answered; a buffer that is complete is stored.
- namespace: the sorted set, the two hashes and the metadata of a path agree,
  unless requests on this path overlapped or failed; no request damages a name it
  does not mention; ids are unique; requests that do not meet are operations on a tree.
- listing: a directory that nothing disturbs is listed as it is, each name once; what
  goes on in other places, or in other names, does not falsify or hide an entry.
- audit: events are in the log, or submitted to the chain, once and in order; rotation drops
  none, and an event that gets nowhere gets an error.
- transport: every record that arrives is handled once, whole and in its order, and
  answered at most once; an answer is true to what the file system answered.

## The modules

| module | what it is | code |
|---|---|---|
| `ChannelBuffer` | one buffer: chunks in the order of arrival, `total`, `complete`; the loops of `read_all` and `read_range` and what they should return | `sharesfs/channel_buffer.rs` |
| `WritePath` | the tasks of WRITE, READ, SETATTR, REMOVE, CREATE, the monitor, the semaphore, the store | `sharesfs/writing.rs`, `sharesfs/mod.rs` |
| `BatchStore` | what the write path promises: batches that are sealed, stored as a whole once, or lost | abstract |
| `WritePathInvariant` | the inductive invariant, in five layers | |
| `WritePathProofs` | the proofs about it, layer by layer | |
| `ChannelBufferProofs` | lemmas about the chunks of a buffer and the loop of `read_all` | |
| `ChannelBufferLoops` | the proofs about the buffer of `MCChannelBuffer`, `read_range` among them | |
| `Namespace` | CREATE (three modes), MKDIR, SYMLINK, REMOVE, RMDIR, RENAME, MNT and the commit of a content, over Redis or RocksDB | `sharesfs/mod.rs`, `directories.rs`, `rename.rs`, `backingstore/*` |
| `FileTree` | what the namespace promises to clients whose requests do not meet | abstract |
| `NamespaceTree` | `Listing` with the tree that clients have been shown, and its refinement of `FileTree` | |
| `NamespaceInvariant` | the inductive invariants of `Namespace`: types and ids, and the isolation of names | |
| `NamespaceProofs`, `NamespaceIsolation` | the proofs about them | |
| `Listing` | READDIRPLUS page by page, beside the requests of `Namespace` | `sharesfs/mod.rs` (`readdir`), `kernel/handlers/nfs/directory_ops.rs` |
| `ListingInvariant` | the inductive invariants of a listing: what it has read and sent is true, and how much of the directory that is | |
| `ListingProofs` | the proofs about a listing, and that it changes nothing of the namespace | |
| `AuditLog` | the tasks that trigger audit events, the channel, the handler task, the leaves, roots and window of the Merkle adapter, and the check of the audit reader | `audit_adapters/irrefutable_audit.rs`, `merkle_audit.rs`, `merkle_tree.rs`, `bin/audit_reader/main.rs` |
| `SubstrateAudit` | both adapters behind the one channel: `AuditLog`, and the task that submits an event to a chain and waits for a block | `audit_adapters/substrate_based_audit.rs` |
| `AuditLogProofs` | the invariants of the queue, the tree and the transactions, what a root of the tree is, and the proofs from them | |
| `RpcDispatch` | what becomes of one call: the version and program checks, and each handler as a function of the call and of what the file system answers | `protocol/rpcwire.rs` (`handle_rpc`), `kernel/handlers/*` |
| `RpcConnection` | one connection: the client, the task of the socket, the pipe, the reader, the tasks of the records, the queue of replies | `protocol/tcp.rs`, `protocol/rpcwire.rs` |
| `RpcConnectionProofs` | the invariants of the records and of the replies, and the proofs about them and about the handlers | |
| `MCChannelBuffer`, `MCWritePath`, `MCNamespace`, `MCNamespaceTree`, `MCAuditLog`, `MCRpcConnection` | the instances for TLC | |

A process (a task or the monitor) has a label `pc` that names the step it takes
next and a record `local` of the local variables that later steps read. A step is
what the code does from one lock or call of the store to the next; what it
computes in between on its own values is part of it. `WritePath` keeps of the
metadata hash only the size, which is the one field the path decides on.
`Namespace` keeps of it the type and the id, and of a content only the file id it
was written through; a path is the sequence of names below the mounted
directory. The two modules share the store in the program: `WritePath` has
REMOVE and CREATE as far as they touch a content, `Namespace` has the commit of a
content (`StartCommit`, `PutData`, `Touch`) as far as it touches a name.

A SETATTR is what the code makes of it: the path is read (`AttrPath`), and the two
times, the mode and the size are each put by a call of their own whose errors are
ignored; where the path cannot be read, the code goes on with an empty one, and what
it puts there belongs to no file. After a WRITE, `is_likely_last_write` reads the
path and then the size (`CheckPath`, `CheckLast`), and either read may fail.

What a request asks of the directory that it names is that the id leads to a path
which has attributes (`Known`). No handler asks whether it is a directory, so names
can be made under files, and `FileTree` lets them. In a rename over RocksDB, which the
code makes of gets, puts and deletes, each put and each delete is a step (`MoveData`
to `CutKey`), and the keys of a path (metadata, content, target of a link) move one
after the other (`HasKey`, `NextKey`). `Fault` says which calls can fail and what
becomes of the request: the error is ignored (`After`), ends it, or skips one key
(`movedata`, `moving`); of a get in RocksDB's `rename`, of `zscore` and of the look at
a mounted directory it means "not there". `HalfDelete` is the delete whose second
half fails in silence. A get of RocksDB's counter that fails counts as 0 (`IncrLost`),
a put that fails is tried again (`IncrAgain`).

`Listing` adds one client that lists a directory. A page is many calls of the
store: the path of the directory, its members, the id of one member after the
other; then, of the first ids behind the cookie, the path, the metadata and the
path again, each in a step (the code reads the entries beside each other, with rayon's
`par_iter` and `block_on`, `mod.rs:657`). The
cookie is the id of the last entry sent, so that the listing is in the order of
ids and not of names. An entry that fails is left out of its page, a member without an
id ends the request with an error, and a page with fewer entries than it has room
for is the last one. `begun` is a bound, one listing; `calm`, `overlap` and `making`
are history: the paths that nothing has disturbed since it began, the kinds of
requests that it ran beside, and the ids of the files that were being made when it
began. LOOKUP is one read of `path_to_id`; its handler is in
`RpcDispatch`.

`AuditLog` stands by itself: the requests that trigger events only wait for room
in the channel and ignore how it went. Its handler is one task that alone touches
the tree, so that `pc` is a single label and its steps are the calls of the
database, between which the server may stop. Events are numbered as they are
triggered, a node of the tree is the sequence of events below it, time is in
minutes. `VerifyHistoricalConsistency` is what the audit reader computes of the
database.

`SubstrateAudit` puts the other adapter behind the same channel. A build has one of
them, chosen in the initial state; the steps of the other never happen. `tx` says
where `process_event` is (at the channel, the submission, the subscription or the
wait for a block) and with which event. The chain is external: the transactions of an
account are finalized in the order in which they were submitted, a block has some of
them and may have events that others caused, and the first block that a subscription
delivers may be the latest one there is. Only events of the types "disassembled" and
"reassembled" whose fields fit the pallet are submitted; `Fitting` says which ones
these are.

`RpcConnection` is `process_socket` and the `SocketMessageHandler` that it makes.
The task of the socket is at `select`, in the middle of copying what it has read
into the pipe (`copy`), in the middle of writing a reply (`write`), or gone; it
does one of these at a time, so that a full pipe holds the replies up and a full
socket holds the calls up. The reader is at a header or in the body of a fragment.
The wire carries tokens in place of bytes: the four bytes of a header are one
token, a unit of data knows its call and its place, and so a record that is cut,
joined or mixed up is seen as such. A task handles its record in one step, since
what the file system does in the meantime is the other modules' subject: it ends
with one of the outcomes that `RpcDispatch` gives for the call under some answers
of the file system. An outcome is a reply, an error, which closes the connection
once the task of the socket finds it in the queue, or a panic, which leaves
nothing; with it go the status of each message written and what the file system
answered to the changes that the handler asked for (`asked`). That is not what the
file system has done: a create answers Ok over calls of the store that failed
(`mod.rs:852`), and a rename may answer an error half done (`directories.rs:24`), which
is the subject of `Namespace`. `OverflowChecks` says whether the build panics where
READDIRPLUS subtracts 128 from a smaller number, as a debug build does and a
release build does not.

The store is the same trait twice. Where the two implementations differ in what
one call does at once, a constant says which one it is: `AtomicHset` (is
`hset_multiple` one step, or the get and the put of
`rocksdb_data_store.rs:448`), `Redis` (the same, and `incr`, `rename` and
`init_user_directory`).

## What the runs check

Passing runs:

| run | instance | shows |
|---|---|---|
| `channel_buffer` | up to 3 writes, offsets 0..3, lengths 0..2, a clear | `read_all` and `read_range`, as the loops they are, return the bytes of the last chunk that covers a place (`LoopIsReadAll`), and buffers filled in order read back (`InOrderReadsBack`) |
| `write_commit` | a git file and a pack file, 2 clients, the monitor, 2 permits; 2 writes, a read, a removal, a restart | one committer per buffer, no buffer out of reach, permits accounted for, pack files never stored, and the whole inductive invariant, `Invariant`, over git and pack files |
| `write_remove` | plain files at one path, 2 clients, the monitor, 1 permit; 2 writes, a SETATTR of a time or the mode and maybe the size, a removal, a creation, a failing call | the whole inductive invariant over plain files, `BatchesImplemented` where files come and go (the write path implements `BatchStore`), and that the monitor, whose scan and commit are two steps, takes only complete buffers |
| `write_live` | a git file and a plain one, a client and the monitor, 1 permit; 2 writes, a read, a removal, a failing call | every handler ends; a complete buffer is taken, unless its file is removed (`CompleteIsTaken`: then the scan finds no path, skips the entry, and the buffer stays for ever, `writing.rs:179`); and while one client only writes and reads and no call fails, every write is committed and the size covers the content |
| `names_isolation` | Redis from an empty store, 2 clients, 5 requests or 4 and a failing call, 2 top-level names that can be directories with a name in them | names that no request in progress mentions, and none mentioned while it overlapped with another or lost a call, are intact in all four places of the store; so are contents and directories; ids are unique |
| `names_tree` | Redis from an empty store, 2 tasks, 4 requests, a failing call, a listing (which takes the place of 3); pages of one entry; calls of the listing that fail | `RequestsAreWhole`: as long as no two requests have named paths of which one is at or above the other, and none has lost a call or was cut off, every request is an operation on the tree of `FileTree`, whole or not at all, whatever another request or the monitor's commit does between its steps. A listing that overlaps with nothing is the directory (`LoneListingIsTheTree`); creates and writes beside it hide no name that was there all along, unless it is newer than a file that was being made when the listing began (`CreatesHideNothing`); whatever goes on or fails, what it says of an undisturbed file is true (`EntriesAreTrue`), and only a disturbed name makes it fail (`FailsOnlyOverDisturbed`) |
| `names_rocks` | RocksDB from an empty store, a client, 6 requests, of which a failing call, a lost read of the counter and a restart at any step can take the place | the isolation of names where one call of the trait is several steps, and the uniqueness of ids, both for as long as no read of the counter has failed (`Counted`: after one, ids come back even for one client); `ControlOK`, the base of the proof |
| `audit_log` | either adapter, 2 tasks, room for 1 in the channel, 5 events, a window of a minute out of 3; a failing put, a failing delete, a restart between any two calls; a chain whose blocks have other events too | what is recorded stays recorded through rotations that are cut off (`RecordedStays`), each root has its window's events once and in order (`WindowsInOrder`), no event is dropped but by a failing call or a fresh server; the node of the chain is given the events once and in order (`SubmittedInOrder`); unless the server stops or a delete fails, an event that was triggered is on its way, recorded, given to the node or has got an error (`EveryEventIsAccounted`); senders get through, over Substrate while the chain goes on (`SendersGoOn`) |
| `rpc_connection` | two calls of six kinds, in one fragment or two, in any pieces; room for 3 tokens in the pipe and 1 reply in the socket; a client that may hang up | records are handled whole, in order, each once (`RecordsAreWhole`), also when the connection closes under them (`AcceptedAreRun`); a reply is sent at most once and none is lost while the connection is up; what a handler writes is the one answer to its call (SETATTR may write two), no change is asked for and left unanswered, and a success is answered exactly when the file system answered Ok (`AnswersFit`); pipe and socket, both full, do not block each other for good (`EveryCallIsAnswered`) |

Runs that find a violation: `extend_loses` (a write past the end of a committed
file turns what was there to zeroes), `id_twice` (over RocksDB two creates get
one id) and `audit_deaf` (a server without an event in its first ten minutes
drops every event from then on, because a rotation of a window without leaves is
an error that leaves the window as it is). Each quotes the sentence of the
repository that it contradicts in `PROJECT.json`.

The bounds, and why they are enough. Two tasks and the monitor are all the
processes that a race on one buffer needs: one writes, one commits, one reads or
removes; the proofs of the safety properties are for any number. Two names of
which one can be moved into, onto or out of the other, one level deep, show
every case that `rename_directory_file` tells apart: the path itself, what is
below it, what was at the target, the directory of either. `Limit` bounds how
often each thing happens: a file must be mounted, made, filled, moved and made
again to show a left-over, which is the five
requests. `Total` bounds all of these things together, so that a failing call
takes the place of a request. `CleanMount`, which
`names_isolation` and `names_tree` set, has the MNT that sets the directory up run without company
and without a failing call, for otherwise the counter of ids may be set back under
a client that is at work (see the proofs); `names_rocks` does without it.

One listing has every overlap with the two tasks: it may begin and end anywhere in
their requests, of which it takes the place of three. Pages of one entry, over
directories of up to two names, make a listing go on behind a cookie. Four requests
are a MNT, two that prepare something, and the two that run beside each other last, or
three beside each other.

Three of the five events fit the pallet, and two do not, so that an
event that is refused comes between two that are submitted.

`MaxChannels` is at least the number of writes
and reads that can start a buffer, so that it never holds anything up. Offsets 0
and 2 leave a hole, 0 and 1 do not. Five events make windows of up to four
leaves, so that trees with an odd number of nodes on two levels occur; three
minutes have room for two rotations, with the restart in either; a channel with
room for one makes the second task wait. Two calls are enough for one record to
run into the next and for one reply to overtake the other; of their six kinds one
changes the file system or fails, one may answer twice, one may panic, two may end
with an error and one is refused. A cut at the end makes an empty last fragment.
The pipe holds less than a record in two fragments or than two records, and one
read of the socket takes more than the pipe holds, so that `Copy` and `ReadBody`
take a record in pieces. Deadlock is not checked: when the
budgets are spent the model stops, and the handlers that wait for ever are the
subject of `EveryRequestAnswered` and `EveryCallIsAnswered`. The tasks are alike, and so are the two
top-level names, which no action tells apart: that is the symmetry, used by runs
without liveness only.

Fairness. `FairSpec` of `WritePath`, used by `write_live`: weak fairness of
every task's own steps and of the monitor. Tokio runs every task that is ready,
and the monitor is a loop around a one-second sleep (`sharesfs/writing.rs:168`).
There is none for the arrival of requests, for faults or for restarts. Weak
fairness is enough for the semaphore in this instance because it has one client
beside the monitor, and tokio's semaphore is first come, first served.
`FairAdapters` of `SubstrateAudit`, used by `audit_log`: weak fairness of the
handler task of either adapter, which is a loop around `recv` (`merkle_audit.rs:59`,
`substrate_based_audit.rs:101`) that no error ends, and of each sender that has got
room in the channel, which is first come, first served as well. Nothing makes the
chain produce blocks, nor blocks with an event of the pallet, and the handler's wait has no
timeout: `SendersGoOn` therefore has `ChainGoesOn` as its hypothesis.
`FairSpec` of `RpcConnection`, used by `rpc_connection`: weak fairness of the task
of the socket as a whole, for `select!` picks one of its ready branches at random
(`tcp.rs:51`), of the reader, of the tasks of the records, and of the client
taking its replies. Without the last one nothing can be said, because a client
that does not read stops its own connection. Nothing makes the client call or
hang up.

## What is proved

Every theorem is for all values of the constants, under the assumptions that the
module that declares them names (`ConstantsAssumption`, `NamespaceAssumption`, `ListingAssumption`,
`AuditAssumption`, `FittingAssumption`, `ConnectionAssumption`, `DriverAssumption`); a
theorem with a further hypothesis states it as its `ASSUME`.

Channel buffer. The two loops are recursive functions over the chunks, and what they
return is proved for chunks of any number and any overlap: `LoopAlways`
(`LoopIsReadAll`) says that the turns of `read_all` and of `read_range` give the byte
that the last chunk covering a place has there, `ReadsBackAlways` that a buffer filled
in order reads back (`InOrderReadsBack`). A recursive function is what satisfies its
equation, so a proof has two parts: the closed form satisfies the equation
(`ByteAtAppend` for one more chunk), and no two functions do (`LoopIs`, `RangeUnique`).
The second is an induction, and the library's induction theorems have an operator as a
parameter, which the provers here cannot instantiate; `SetInduction` says the same of a
set of numbers, and follows from the well-foundedness of the finite subsets of an
interval, which the library states without such a parameter.

Write path. `PermitsAlways`, `OneCommitterAlways`, `OpenIsReachableAlways`,
`BatchesAlways` (`Spec => BatchesImplemented`, the refinement of `BatchStore`),
`PacksAlways` and `MonitorAlways` rest on one invariant, `Invariant`, in five layers
that are proved one on top of the other.

1. `ControlOK`: types, the permits, and that the local variables a step reads
   have been set at the steps before it. None of the properties is inductive
   without it: a committer at `store` must have an image.
2. `HoldersOK`: a channel that is loaded or committed is held by one process, and
   its fate is the one of that process' step. The key case is `Take`: the entry
   leaves `active_writes` in the step in which the channel becomes "sealed", so
   that no second commit and no new writer can reach it.
3. `ContentOK`: a channel that is not stored yet holds exactly what has arrived,
   and a committer's image is the image of a prefix not shorter than what there
   was at the sealing, although writers that had the channel go on pushing.
4. `PacksOK`: a task that is going to commit a file has one that the routing sent
   there, and an id that leads to a pack file is never on its way to a commit
   (`PackNeverStored`), whatever a removal and a creation do to the id in between.
5. `MarkedOK`: where no file is in a git repository, an entry that the monitor has
   found complete stays the entry it found, complete, until the monitor takes it
   (`MonitorTakesOnlyComplete`). Over git files this is false, for a writer may
   commit the entry and another start a new one between the scan and the commit;
   therefore the hypothesis `GitPaths = {}` of `MonitorAlways`.

`CommitReadsAll` joins the two parts: in every reachable state of the write path in
which a committer reads its channel, the loop of `read_all` returns the closed form
that the model of the commit uses.

Namespace. `ControlAlways` (`Spec => []ControlOK`) says that no request works on
a path, an id or a list that it has not got; in particular that a rename puts
what it moves at paths that exist. `IdsUniqueAlways` says that over Redis, with
the directory mounted, no id is issued for two paths, whatever interleaves, fails
or stops: the invariant `IssuedOK` adds that ids above the counter were never
issued, and that nobody is inside the set-up of a mounted directory, which alone
sets the counter back. Both hypotheses are needed: `id_twice` shows the
violation over RocksDB, and a restart inside the set-up of the directory leaves
the counter behind the id it has given out.

Over Redis the increment is one call, so that `Counted` holds there and restricts nothing.

`NamesIsolatedAlways`, `ContentIsolatedAlways` and `DirectoriesIsolatedAlways` say that
over Redis the three kinds of isolation (`NamesAreIsolated`, `ContentIsIsolated`,
`DirectoriesAreIsolated`) hold for any number of tasks, names, failing calls and restarts,
from an empty store or a mounted one, and without `CleanMount`, while no client renames a path onto itself or
onto a directory that is not empty (`WildRenames = FALSE`). They rest on `IsolationAlways`, whose
invariant `IsolatedOK` has five parts.

1. `ApartOK`: requests of which one names a path at, above or below a path of the
   other are tainted, both of them. The others have all their paths for themselves ("clean"), for as
   long as they go on, because a request is tainted in the step in which another one
   begins beside it, also when a rename learns its target.
2. `OwnersOK`: an id leads to one place and is given at one place, or one request is at
   work on both places, or both have been left half done. Without it a removal that deletes `id_to_path` by
   the id that it has read could take the entry of a sound name.
3. `FreshOK`: an id that the counter has not come to is nowhere, so that a new file
   takes no entry from another.
4. `QuietOK`: a path that no request covers, and none at or above it was left half done, is
   sound (`Sound`): member, ids, metadata, content and target agree, and what it lies in is there.
5. `DoingOK`: what the paths of a clean request hold at each of its steps. Of a
   rename, whose twenty steps move four kinds of entries one by one, this is said with the ids `F`
   that there were when it began: at every step, which of them are
   still at the old path, which are at the new one and which are only in its lists
   (`OldAt`, `NewAt`, `ListsOK`), and that they were a tree (`TreeOK`).

The argument is the same for each step: it changes only what its request covers and the
entries of ids that it has, all other places stay as they are (`SpareApart`,
`OthersDo`), its own go from one step's description to the next (`GoesIsolated`), and at the
last one every path is sound again (`EndsIsolated`). Both hypotheses are needed. Over RocksDB a file without
content that is renamed onto one with content gets it, and a
rename onto a directory in use leaves ids that lead to other files (see below).

Listing. `ListingChangesNothing` (`ListingSpec => Spec`) says that what the
namespace does beside a listing is what it does without: every theorem about `Spec`
holds of `ListingSpec`. `ListingAlways` (`ListingSpec => []ListingOK`) says that the
steps of a page have what they read, and that a page is behind the cookie while
what was sent before is not, so that no id is listed twice.

The other four say what a listing tells its client, for any number of other requests,
failing calls and restarts, over Redis and under the hypotheses of `IsolationAlways`. A
path is calm when no request has named anything at, above or below it since the
listing began, and none has left anything there before. The argument starts from
`FirmStays`: a calm path and those that it lies in are sound and covered by no request
(`IsolatedOK`), and a step changes nothing but what its request covers (`StepKeeps`).

1. `EntriesTrueAlways` and `FailsAlways` (`EntriesAreTrue`, `FailsOnlyOverDisturbed`). The
   invariant `TruthOK` says of each stage of a page what it has of a calm path: the
   directory that was opened is the one whose members were read, an id of a calm path
   that was read is that of a member, and what was read of its entry or sent of it is so.
   That the path, the metadata and the name of an entry belong to one file, although they
   are read one after the other, is where the isolation of names is needed.
2. `LoneAlways` (`LoneListingIsTheTree`). `OpsOK` says that a task with a label has a
   request, so that nothing moves while `overlap` is empty. `LoneOK` says how far the listing
   has come: the members read and those to be read are the directory, the page is
   the first ids behind the cookie (`FirstIs`, by counting), none of them dropped, and the ids sent
   are those up to the cookie (`FirstSent`). A page that is not full is then the last one (`PageHas`).
3. `CreatesAlways` (`CreatesHideNothing`). A create makes names appear in the directory and
   its entry may be dropped from a page, which makes the page short. `OlderOK` says why this
   hides nothing older: every file being made has a greater id than the name `p` in
   question (`MakersNewer`, from the counter of `FreshOK`), so every id up to that of `p` that
   a page has is that of a whole member and stays one (`OldIsSound`, `NameStays`). It is
   not dropped, and a page without room for `p` is full. For a name that is newer than a
   file that was being made this is false: with two tasks that create, TLC finds the
   listing that ends before it.

Audit log. `DropsAlways` (`AdaptersSpec => DropsOnlyWhenFresh`) says that a server that
has recorded an event since it was started drops none while its calls succeed.
The invariant `LeavesOK` is that there are leaves whenever the handler is
between two events or about to rotate: a rotation, which takes them away, goes on
to put one, or is cut off at one that is still there, and the put of a leaf that
fails after it makes the server a fresh one again. With the Substrate adapter the
server stays fresh for ever (`FreshOK`). `SubmittedAlways` says that the
transactions are in the order of the events, each once, whatever fails or stops: the
invariant `OrderOK` adds that what is in the channel is increasing and
newer than what the handler has in its hands, which is newer than what was submitted.

`HandlerAlways` (`HandlerOK`) says what the handler has in its hands at every step, and that
the window it works on is the one in the database. `RootIs` says what the loops of
`merkle_tree.rs` compute: the root over any non-empty list of leaves is the list itself, in
its order, each leaf once (an odd node is carried to the next level, not doubled). It is
an induction over the levels, each of which is shorter than the one before, by
`SetInduction`. With it, `WindowsAlways` (`WindowsInOrder`) has for every root the events of
its window, once and in order, unless a rotation was cut off, and `RecordedAlways`
(`RecordedStays`) has every recorded event stay recorded as long as no delete fails. The
first rests on `OrderedOK`: from the roots over the leaves and the handler to the channel, the
events increase. The second rests on `MerkleOK`: the roots there are belong to earlier
windows than the one that is open, so that no rotation replaces a root, and what is left
to delete is under the root that has been stored.
`AccountedAlways` (`EveryEventIsAccounted`) is the inventory of both adapters: an event
that was triggered is in the channel, in the handler's hands, recorded, given to the node
of the chain, or has got an error, as long as the server does not stop and no delete fails.

Transport. `RecordsAreWholeAlways` (`RecordsAreWhole`) says that the tasks of a connection have the
records of the client, whole, in order and each once, for any number of calls, any cuts
into fragments and pieces, and a pipe of any size. Its invariant `RecordsOK` is about one stream,
what the reader has of a record followed by the pipe, the piece in the hands of the task of the socket and the
wire (`Unread`): it is always the rest of what the client has sent, from a header on or
from within a body whose length the reader knows, so that no step of the reader can take the data of one record for a
header of the next. `AnswersFitAlways` (`AnswersFit`) combines it with `HandlersFit`, a lemma about
`RpcDispatch` alone, for every call and every answer of the file system: at most one change is asked
for, only by the procedures that change files, and never by a handler that then ends with an
error or without a word; the message that follows is a success exactly when the file system
answered the request with Ok; and no handler but SETATTR writes a second one.
`AnsweredOnceAlways` and `NoReplyIsLostAlways` say where the reply of a
task can be, for any number of calls and any capacity: in the queue, in the hands
of the task of the socket, on its way, or at the client, in one of these places at
most, and while the connection is up in one of them at least. Their invariant
`RepliesOK` adds that the task of the socket has a reply in its hands exactly
while it is writing, and that the queue is empty once it is gone: a reply that a
task puts there later would be lost or, with another receiver, sent twice.

Only model-checked: liveness (`write_live`, `SendersGoOn`, `EveryCallIsAnswered` and
`AcceptedAreRun`, for the prover has no rule for fairness), the refinement of `FileTree`
(`RequestsAreWhole`), the isolation of names over RocksDB (`names_rocks`), and over
RocksDB what a listing tells its client.

## Other disagreements

These were met while modelling and can be reproduced by giving TLC the constants
named; the properties are in the modules, and no run is kept for them.

| property | what the code does | instance |
|---|---|---|
| `RangeFindsOverlaps` (`MCChannelBuffer`) | `read_range` finds only a chunk that starts at the offset (`channel_buffer.rs:50`); the comment at `:47` says "overlap" | as `channel_buffer` |
| `EofIsEndOfFile` | a read of a plain file whose write is not committed is short and flags the end of file (`mod.rs:550`) | one plain file, a write and a read |
| `NoReadPanics` | a read of a pack file that begins past the end inside a block slices out of range (`mod.rs:535`) | one pack file, `Grain = 2`, `Offsets = {0, 1}`, two reads |
| `NoReadSpins` | an empty chunk, left by the read of an empty pack file, makes the next read loop with the lock held (`channel_buffer.rs:50`) | one pack file, `Grain = 1`, two reads and a write |
| `NoOrphans` | over RocksDB RMDIR removes a directory in use, for `zscan_match` looks for the star of its pattern (`rocksdb_data_store.rs:528`) | 1 task, 3 requests |
| `OneFilePerName` | two exclusive creates of one name both make a file (`mod.rs:893`) | 2 tasks, `Requests = {"exclusive"}` |
| `NameIsThereOrNot` | a create beside a remove leaves a name that exists for CREATE and not for LOOKUP (`directories.rs:321`) | 2 tasks, creates and removes |
| `ContentIsOfItsId` | over RocksDB a file without content renamed onto one with content gets it (`rocksdb_data_store.rs:253`) | 1 task, 4 requests |
| `AttributesOfEveryId` | over RocksDB a rename of a path onto itself deletes its metadata | 1 task, `WildRenames = TRUE` |
| `IdsNameTheirFiles` | a rename onto a directory in use leaves ids that lead to other files (`directories.rs:157`) | 1 task, 5 requests, `WildRenames = TRUE` |
| `EofMeansAll` (`Listing`) | a name that is removed while a page is read is left out of it, the page has room, and its eof hides the names of the pages that were to come (`mod.rs:687`), although "eof flag is only valid here if we wrote everything" (`directory_ops.rs:154`) | `names_tree` mounted, with creates and removes only, `ThreeRequests`, `Total = 3`, `ListingCost = 0`, `PageSizes <- SmallPages` |
| `WaitsForItsOwn` (`SubstrateAudit`) | any event of the pallet ends the wait for a block (`substrate_based_audit.rs:163`, "Exit after finding our event"), so that the next event is taken while the one before may not be final | as `audit_deaf` |
| `SequentialSizeCovers` with `AtomicHset = FALSE` | over RocksDB `hset_multiple` puts all of the hash back that it read before, the size of a WRITE in between among it (`rocksdb_data_store.rs:448`) | as `write_live` |
| `VerifyHistoricalConsistency` without `~cut` | a server that stops between the put of a root and the delete of its leaves leaves a log that the audit reader calls inconsistent, and that no one has tampered with | as `audit_log` |
| `OneMessagePerRecord` | a SETATTR whose ctime does not match is answered with a refusal, carried out, and answered again in the same record (`basic_ops.rs:117`); a record is one RPC message (`rpcwire.rs:81`) | as `rpc_connection` |
| `WrittenIsSent` | MNT writes a refusal and then returns an error (`mount_handlers.rs:107`), so that the connection is closed and the refusal never sent | as `rpc_connection` |

`WildRenames` says whether clients send the renames that the two rows name; the
passing runs leave them out, because an isolated name is not what they break.

In `AuditLog`, `RecordedStays` does not hold once a delete has failed: the window
goes on with the leaves that are left over, and its next root is stored under the
same start and replaces the first one (`merkle_tree.rs:116`, `:123`). No sentence
of the repository says what a failed rotation leaves behind.

Seen in the code of the listing and of the audit, outside the models: a CREATE that
stops or fails between the member and its `path_to_id` leaves a directory that no
READDIRPLUS can list any more; one that lacks `id_to_path` makes pages short for
ever. A `dircount` below 16 is room for no entry at all, and the listing never ends.
A file that is moved while it is listed can be listed under the name it has in another
directory. The audit reader counts a verification that returned `Ok(false)` as
verified (`bin/audit_reader/main.rs:150`). The Substrate adapter drops the events
DELETED, DIRECTORY_READ and DIRECTORY_CREATE as unknown types.

## What is not modelled

The field-by-field content of metadata, the byte layout of XDR, listening and
accepting, metrics, user interfaces, the field
arithmetic of the hashes, proofs and secret shares (the write path takes
disassembly and reassembly as a pair that gives the content back or fails), the
authentication of users, the windows of the audit reader beyond its check of
consistency, the data room and the store browser, which are clients with a user
interface, READDIR without attributes, COMMIT, MKNOD and LINK, which the router
answers as unavailable (`handlers/nfs/router.rs:109`), and `fs_util_dead.rs`, which is
not compiled in. `PROJECT.json` has the list with
reasons.

## Plan

1. `ChannelBuffer`, `WritePath`, `BatchStore` and their proofs: done.
2. `Namespace`, `FileTree`, `NamespaceTree` and the proofs of types, ids and isolation: done.
3. `AuditLog`, `SubstrateAudit` and their proofs: done, but for liveness.
4. `RpcDispatch`, `RpcConnection` and their proofs: done, but for liveness.
5. `Listing` and its proofs: done. Left are the proof that `NamespaceTree` implements `FileTree`, file handles and their generation
   across a restart, for other requests than READDIRPLUS.
6. The shares of a content as a store of their own, in place of a pair that gives the
   content back or fails.
