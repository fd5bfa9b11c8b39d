# WiscFS in TLA+

A verification development for WiscFS (`cs739-p1-distributed-fs`): an AFSv1-like
distributed file system built on the FUSE file system *unreliablefs*. A client
keeps whole files in a cache on its own disk, asks the server at every `open`
whether its copy is still valid, and sends the whole file back at `close`.

The modules below model the code of `src/src/`; `PROJECT.json` gives, for every
definition, the lines it stands for.

## 1. Inventory: the system and its parts

| Part | Code | State it keeps | Operations |
|---|---|---|---|
| Server | `grpc-server.cpp` | exported directory, `serverclock` (path -> int, in memory, unlocked), per call: the handler thread's locals and its `path.TMP` | getFileAttributes, getFileContents, createEmptyFile, removeFile, putFileContents; directory calls |
| Client: FUSE operations | `cppWrapper.cpp` | open handles | open, create, read, write, truncate, flush, release, unlink, getattr; directory calls |
| Client: cache | `Cache.cpp` | `statusCache` (path -> dirty bit, clock; in memory), cached copies in the root directory (on disk) | isCacheEntry, isCacheValid, commitFileCache, setDirtyBit, resetDirtyBit, syncClock, deleteEntry |
| Client: RPC stubs | `grpc-client.cpp`, `afs.proto` | none between calls | one stub for each RPC, chunked streams for file contents, 60 s deadlines on the two streams |
| Fault injection | `unreliablefs_errinj.c`, `unreliablefs_ops.c`, `unreliablefs_errno_*.h` | `conf.errors` (queue of injections) under `conf.mutex`, the configuration file | error_inject at the head of every operation; config_init, config_delete |
| Mount program | `unreliablefs.c` | options, path of the configuration | start-up |
| INI parser | `conf.c` (vendored inih) | none | ini_parse |
| Path helpers | `Utility.cpp` | none | string functions |

**Interaction.** The kernel hands each file operation to a FUSE thread of the
client. `unreliable_*` first calls `error_inject`; unless that replaces the
operation, `cppWrapper_*` does it, with the `Cache` class and the RPC stubs. The
server runs each RPC on a thread of its own. Threads of the server share the
clocks and the directory with no lock (`pthread_mutex_lock` in `putFileContents`
is commented out); threads of a client share the status cache with no lock.

A file has a logical clock at the server: absent (0) at first, raised by each
`putFileContents`, erased by `removeFile`. A client's entry holds the clock its
copy had when it was last uploaded *by this client* (a fetch stores the clock of
the old entry, not the server's). `isCacheValid` refuses a copy whose clock is
below the server's.

**What is hard here.**

- Concurrency: uploads of one path share `path.TMP`; `serverclock[p] = serverclock[p] + 1`
  is a load and a store; `removeFile` is a remove and an erase; `rename` publishes
  the file before the clock is raised; `open` makes up to three RPCs and uses
  the results of the first after the last.
- Failure: the server loses its clocks in a crash, the client its status cache;
  a client that dies while it uploads leaves `path.TMP` behind; a deadline may
  pass while the handler is about to rename; `flush` ignores what
  `putFileContents` returned.
- Data: the fetched file is written as a C string; a dirty file of length 0 is
  not uploaded, and an uninitialised variable becomes its clock; lengths and offsets
  of the chunk loops are ints, the loop of an upload counts below zero and past its
  buffer, and `pwrite` may write less than it is given.
- Names: the kernel decides on a looked up name that another machine changes before
  the call; the RPCs have no deadline, and their failure or the loss of an answer must
  not look like success.
- Descriptors: the handlers share one table, and `putFileContents` closes twice.
- Fault injection: an operation on the configuration file frees the queue that
  other threads walk; comparisons at both ends of the probability range.

**What makes each part correct.**

- Whole system: close-to-open consistency (`CloseToOpen.tla`): an open returns one
  whole published version (or one whose close is in progress); a close publishes the
  whole file at one moment; the last closer wins.
- Server: readers never see an upload in the making; a published file gets a higher clock.
- Client: a copy taken for valid is the server's file; close delivers or fails; an
  entry or a handle always has its copy; every operation comes to an end.
- Transfers: an upload is published whole or not at all, a fetch returns the file of
  one moment, neither end waits for ever, the loops stay in their buffers.
- Names: `mkdir` is a lock between machines; what `mkdir` and `rmdir` report is what
  happened; every call ends.
- Fault injection: an injection has an effect only on operations its expressions match,
  and one of probability 100 always; no walk over freed memory; the mutex is always
  given back. (With which probability, and with which errnos, is where code and manual
  page differ: section 3.)

The hazards, each at its line and with the properties aimed at it, are in
`PROJECT.json`.

## 2. Modules

| Module | Models | Kind |
|---|---|---|
| `FileData` | file contents; `pwrite`, `truncate`, the C string write | operators |
| `WiscServer` | `grpc-server.cpp` | component |
| `WiscClient` | `cppWrapper.cpp`, `Cache.cpp`, the stubs of `grpc-client.cpp` | component |
| `WiscAFS` | both joined by their RPCs, failures, fairness, all properties, the refinement mapping | composition |
| `CloseToOpen` | what the file system promises; no server, cache, clock or TMP file | abstract specification |
| `ErrInj` | `unreliablefs_errinj.c`, the head of every `unreliable_*` | component |
| `Transfer` | the chunk loops of `putFileContents` and `getFileContents`, both ends, with the width of int | component |
| `Namespace` | `mkdir`, `rmdir`, `readdir`, `unlink`, `create` as far as names go: kernel, wrapper, stub, handler | composition |
| `Descriptors` | the descriptor table under `putFileContents` and `createEmptyFile` | component |
| `MCWiscAFS`, `MCErrInj`, `MCNamespace` | values for the constants | instances |
| `FileDataProofs`, `ConfigProofs` | lemmas: file contents; what loading a configuration file yields | proofs |
| `WiscAFSProofs` | theorems on clients and server under every failure | proofs |
| `WiscFreshProofs`, `WiscRefineProofs` | close-to-open consistency where it holds: invariant, then refinement | proofs |
| `ErrInjProofs`, `TransferProofs`, `NamespaceProofs` | theorems on one module each | proofs |

Definitions whose name has the form `X_Variant` and whose comment begins with
"(mutant:" are wrong versions of `X`. No specification uses them: each is put in
the place of `X` to see that a property would notice the bug.

### State and code

*Server* (`WiscServer`). `file[p]` and `temp[p]` are the directory entries of `p`
and `p.TMP`, `data[i]` the contents of inode `i`: with inodes, two handlers that have
the same TMP file open, and a file that is written after its rename, are what they are
on the disk. `wpc`, `wsess`, `wpath`, `wbuf`, `wino`, `wn`, `wreg` are the locals of
the threads in `putFileContents`: one step per chunk, then the end of the
stream (or IsCancelled), the rename, the load of the clock, the store, the reply. Open
and pwrite may fail (`PutOpenFails`, `PutWriteFails`). A failing rename goes
unnoticed, as in the code, where `set_err(0)` overwrites the error. `current[p]` is a
ghost: what the last finished upload was sent; it changes with the store of the clock,
which is where a close takes effect, while readers get the new file from the rename on.
`PublishedThenRaised` is about that window. `AttributesReply` is one step, although
`getFileAttributes` calls `lstat` before it looks the clock up: the client uses only
whether there was an error, and the clock, which is the later of the two.

*Client* (`WiscClient`). A session is an application file handle at work; `host`
says on which client. `pc` is the place in the FUSE operation, the states of
`RpcPC` are the ones in which it waits for an answer. `snap` is the pair of dirty bit
and clock that a `Cache` object copies when it is made and uses after the RPCs;
`clk` is the `logical_clock` variable (None: never set). `UploadBypass`,
`UploadEmpty` and `UploadPut` are the three ways through flush and release. `Read` is
what a read of an open handle returns, which is all that applications see of a file. A
crash of a client (`ClientCrash`) loses its handles and entries. It does not stop a
`removeFile` that its session had called: the handler looks at no cancellation, so a
session that waits in it stays until the handler is through, and a request that is
still on its way may be served or lost.

*Composition* (`WiscAFS`). An RPC is a call (the client enters an RPC state), the
handler's step or steps, and the client's next step with the answer. `Env` selects
what applications and environment do; the comment at the head of the module lists it.
`"overlap"` is the one member that restricts the server's clients rather than adding a
failure: without it the uploads of one path come one after the other, and an upload also
waits for a handler whose caller has given up; the code has no such wait (the mutex is
commented out), so the results without `"overlap"` are about clients that leave that time.
Injected faults are not part of `WiscAFS` and `Namespace`: there `error_inject` always
returns 0.

*Fault injection* (`ErrInj`). `conf.errors` is a sequence of entries with a name
(`reloads`): a thread that walks a queue with an old name walks freed memory. A
regular expression is the set of strings it matches. The probability is drawn per
entry from `0 .. MAX_PROBABLITY`, as `rand_range` does. The configuration file is
edited in the root directory by hand: a write through the mount goes to a cached copy
under a hashed name, so `Wrapper` leaves the file alone. The operations without a
`cppWrapper_*` call (`LocalOps`: link, chmod, chown, ...) work on the root directory
itself, and `chmod` or `chown` of the file may make it unreadable or readable (`Local`). It
is loaded again when an operation arrives whose path is `config_path`.

The heads of all `unreliable_*` are alike; in `PROJECT.json` each definition about them
names one of them.

*Transfers* (`Transfer`). One upload and one fetch of a path, with four threads: the
client's `flush` and `getFileContents`, and the two handlers. `buf`, `bytesLeft`, `curr`,
`numOfBytes`, `bytesRead` are the variables of the code; `stream` and `replies` are the
messages that gRPC has under way, at most `Window` of them, `writesDone` and `cancelled`
the state of the call. `ToInt` is what the build does with a length that is no int.
The bytes of the client's file are their own positions, those of a left-over `path.TMP`
are `Stale`, those of the old file `Old`, so that a property can tell where a byte came
from. An addition that overflows in the fetch loop is a choice between its outcomes.
`short` is a ghost: some `pwrite` wrote less than its chunk.

*Names* (`Namespace`). `tree[p]` is what a path is on the server. A call goes through
`lookup` (the kernel's getattr), `call` (the RPC on its way), `answer`, and for create
`fetch`. A handler checks and changes `tree` in one step, because each is one system
call. `MkdirStub`, `MkdirRet`, `RmdirStub`, `RmdirRet`, `UnlinkRets`, `ReaddirRet`,
`CreateErr` are the conversions of an answer, or of a failed RPC, up to what FUSE is
told. `did` and `owns` are ghosts: the RPC changed the tree; directories that an
application was told it made and has not tried to remove.

*Descriptors* (`Descriptors`). `table[f]` is the handler whose file is behind the
descriptor `f`. Every handler works on a path of its own, so that only descriptors are
shared.

### Abstractions

- In `WiscAFS` a block stands for a chunk of a transfer; the arithmetic of the chunk
  loops is in `Transfer`.
- What a client does between two RPCs is one step. What a handler of the server
  does to shared state is one step per change.
- A load or store of the clock map is atomic (in the code the map itself may be
  rehashed under a reader: undefined, not modelled).
- `logical_clock` uninitialised is any member of `Garbage`.
- Kernel, libfuse and gRPC are external: the kernel looks a path up before it
  creates it and takes `O_TRUNC` out of `open`; libfuse renames a file instead of
  unlinking it while it is open on the same client (and `cppWrapper_rename`
  fails); gRPC delivers each message at most once, in the order of the stream, ends
  the calls of a dead server with UNAVAILABLE, and tells a handler that its
  caller has given up.

## 3. Runs

States are distinct states; times are with two workers.

| Run | Result | Checks |
|---|---|---|
| `close_to_open` | holds | CacheFresh, LastCloserWins, CloseDelivered, ImplementsCloseToOpen |
| `faults` | holds | TypeOK, CopyPresent, UploadSealed |
| `termination` | holds | OpsTerminate, PublishedThenRaised |
| `errinj` | holds | TypeOK, NoUseAfterFree, QueueFaithful, CertainFires, OnlyMatching, InjectTerminates |
| `transfer` | holds | TypeOK, ChunksSound, PublishedWhole, CountHonest, FetchExact, TransferEnds |
| `namespace` | holds | TypeOK, OneOwner, ReportedTruly, OwnListed, CallsEnd |
| `mixed_upload` | violated | UploadSealed |
| `stale_tmp` | violated | LastCloserWins |
| `server_restart` | violated | CacheFresh |
| `lost_close` | violated | CloseDelivered |
| `undocumented_injection` | violated | InjectsAsDocumented |
| `double_close` | violated | WritesOwnFile |

**close_to_open.** Two clients, one file, two blocks, three writes, files of up to two
blocks, one crash of a client that is not uploading: 592,918 states, about 70 s. Three
writes allow a first version, a concurrent one and a third over either; two blocks
make uploads of several chunks and of different length. In this setting, uploads
one at a time, no removal, no lost upload, the system implements `CloseToOpen`, though
a fetch stores an old clock and publication precedes the clock: a client that asks
between rename and clock update gets a version whose close is in progress, which the
abstract specification allows.

**faults.** Two sessions share one client, and with it the status cache and the
copies, so that snapshots of `Cache` objects go stale. They write, truncate and unlink;
the server's disk fails, client or server crash at any moment, one failure per behaviour
(a crash of the server also fails the calls in progress, as a deadline would; deadlines
are in `termination`, and in the theorems, which hold for every `Env`). Consistency
does not survive this (see below); that uploads stay sealed in `path.TMP` does, and so
does `CopyPresent`: the local `open` of a cache hit, and the read back before an upload,
always find their file. 911,000 states, about 60 s.

**termination.** Under `FairSpec`, with deadlines, crashes during uploads and a server
that may stay dead. Besides `OpsTerminate` it checks `PublishedThenRaised`: after a rename
the clock moves on, also when the caller's deadline passed or its client died between the
two. The excuse, a crash of the server, is the run `server_restart`. 156,000 states,
about 100 s.

**errinj.** Two threads, two paths, two operations (one of them local), five contents of
the file and an unreadable or missing file, one reload racing with a walk and with the
editing of the file. 39,000 states, about 90 s. `MAX_PROBABLITY` is 2 instead of 100 and an unsigned int has 3 bits:
below, at and above the bound, and the wrap of -1, all occur.

**transfer.** Files of 0 to 17 bytes with chunks of 3 and an int of 4 bits (-8 to 7):
no byte, a part of a chunk, whole numbers of chunks (the extra empty chunk), the largest
int, lengths that are negative as an int (8 to 15) and beyond (16, 17: length 0 and 1).
Two messages under way, so that both ends block on each other. Deadline, disappearance of
the client, failure of open or pwrite and short writes at every chunk; `path.TMP` absent
or left over, longer than most uploads; the fetch at any moment of the upload. 862,000
states, about 2 minutes. The specification stops when both transfers are over, so
deadlock is not checked; `TransferEnds` says that this is the only way to stop.

**namespace.** Two applications, a directory with a directory and a file in it, one
crash of the server: 309,000 states, about 90 s. A name is made and removed by either
machine between the other's lookup and its call, and an answer is lost after its
effect.

**Bounds.** `MaxLen`, `MaxWrites`, `MaxClock`, `MaxFaults`, `MaxReloads`, `MaxLength`,
`MaxCrashes`, `MaxFd`, `MaxChunks` are the only ones. Clocks and uploads are finite because writes are. One failure is enough for each
of the violated runs. One path is enough for the consistency properties,
because no operation touches two; the theorems hold for any number.

**Symmetry.** Inodes are interchangeable; the runs of safety properties and of the
refinement use this. `termination`, a liveness run, does not.

### Where the code departs from what the documents say

Each violated run has a finding in `PROJECT.json` with the line it contradicts.

- `mixed_upload`: two handlers have the same `path.TMP` open; one renames it and
  the other goes on writing into the published file.
- `stale_tmp`: a client dies while it uploads two blocks; the next upload, of one
  block, opens the TMP file without `O_TRUNC` and publishes the tail of the dead
  client's file after its own block.
- `server_restart`: the server dies between rename and clock update; another client's
  copy, clock 0, stays valid after the restart, where every clock is 0.
- `lost_close`: an upload fails on the server's disk; close succeeds, the copy is
  clean and the data is never sent again.
- `undocumented_injection`: the configuration of `errinj`. An `errinj_noop` of probability 0
  replaces an operation, because a drawn 0 is `<=` 0 (`unreliablefs_errinj.c:186`, against
  `unreliablefs.conf.5:55`): it should never fire and does once in 101 times. Without that
  configuration the property fails for the other reason it covers: `RANDOM_ELEMENT`
  (`unreliablefs_errinj.c:26`) may pick the int behind the table (the constant `Beyond`),
  which need not be a supported errno.
- `double_close`: between the two `close(fd)` of an upload another handler gets the
  descriptor; the second close takes it away, a third handler opens its file there,
  and the chunks of one upload go into the file of another.

Known in the same way, without a run of their own: `CacheFresh` fails with
`Env = {"truncate"}` (`cppWrapper.cpp:237` sets no dirty bit: the change is never
uploaded) and with `Env = {"overlap"}` (two handlers load the same clock,
`grpc-server.cpp:344`, and one increment is lost; by then they have shared `path.TMP` too,
which is `mixed_upload`); with `Env = {"unlink"}` it fails because the clock of a file
that is removed and made again starts at 0 (`grpc-server.cpp:263`), below copies of its
predecessor. `ImplementsCloseToOpen` fails with `Env = {"sparse"}`: `commitFileCache` writes
the fetched file with `fputs` (`Cache.cpp:108`), and a file with a zero byte is cut there by
every client that fetches it.

From `Transfer`, where the properties state the limit: a file of 2^32 bytes or more is
published and fetched as a prefix of itself, one of 2^31 to 2^32 - 1 bytes is not sent
and cannot be fetched; a short `pwrite` leaves a hole that only the ignored byte count
of the answer tells (`CountHonest`). From `Namespace`: `readdir` shows an empty directory
when its RPC fails; `unlink` returns minus an `errno` that nobody set; `removeFile` uses
`fs::remove`, which takes an empty directory too, hence the exception for names that are
used for files in `OneOwner`; `createEmptyFile` opens without `O_EXCL`.

### Fairness

`WF` on the client code once an operation has begun, on the handler threads of a
running server, on a call being taken by a server that is up or failing when it
is down, and on the steps of a call of `putFileContents`. The threads of FUSE and gRPC
are scheduled by the operating system, no thread spins, and no handler waits for
another. Nothing is assumed of applications, crashes, restarts or deadlines. In
`Transfer` each of the four threads is fair, a deadline is not: both transfers end
without it. In `Namespace` a call makes progress while the server runs and fails
when it does not (gRPC notices a dead connection); the server need not come back. In
`ErrInj` only a thread that has `conf.mutex` is assumed to run: pthread
mutexes promise no order, so that *waiting* threads get the mutex is not claimed.

## 4. Theorems

Every invariant that a passing run checks, and the refinement, is also a theorem, for every value of the constants that the named assumptions allow:
`BlockAssumption`, `ServerAssumption`, `ClientAssumption`, `EnvAssumption`,
`ErrInjAssumption`, `SizesAssumption`, `NamesAssumption`, `NoneAssumption`. TLC
evaluates them in every run. They say that the special values are distinct from the
others, that `host` maps sessions to clients, that a configuration file is a sequence of
lines, that bounds are natural numbers, and that a chunk is not empty and its size is an
int.

| Theorem | States |
|---|---|
| `TypeCorrect` (`WiscAFSProofs`) | `Spec => []TypeOK` of `WiscAFS` |
| `CopyAlwaysPresent` | `Spec => []CopyPresent`, any number of clients, sessions and paths, every `Env` |
| `UploadAlwaysSealed` | `Spec => []UploadSealed` if `"overlap"` is not in `Env` |
| `CacheAlwaysFresh` | `Spec => []CacheFresh` in the setting of consistency (below) |
| `LastCloserAlwaysWins` | `Spec => []LastCloserWins`, likewise |
| `CloseAlwaysDelivered` | `Spec => []CloseDelivered`, likewise |
| `CloseToOpenImplemented` | `Spec => ImplementsCloseToOpen`, likewise: the refinement of `CloseToOpen` |
| `QueueNeverFreed` | `Spec => []NoUseAfterFree` of `ErrInj`, any threads, reloads and configurations |
| `QueueAlwaysFaithful` | `Spec => []QueueFaithful`, for configuration files of any length |
| `InjectsOnlyMatching` | `Spec => []OnlyMatching`, likewise |
| `CertainAlwaysFires` | `Spec => []CertainFires`, likewise |
| `InjectTypes` | `Spec => []TypeOK` of `ErrInj` |
| `UploadChunksSound` | `Spec => []ChunksSound` of `Transfer`, every chunk size, width of int, window and file |
| `UploadIsAtomic` | `Spec => []PublishedWhole`, likewise, every left-over `path.TMP` |
| `CountTellsShortWrites` | `Spec => []CountHonest`, likewise |
| `FetchAlwaysExact` | `Spec => []FetchExact`, likewise |
| `TransferTypes` | `Spec => []TypeOK` of `Transfer`: no counter leaves the ints |
| `TypeCorrect` (`NamespaceProofs`) | `Spec => []TypeOK` of `Namespace`: the codes that calls can return |
| `MkdirLocks` | `Spec => []OneOwner`, any applications, tree of names and number of crashes |
| `ReportsAreTrue` | `Spec => []ReportedTruly`, likewise |
| `OwnAlwaysListed` | `Spec => []OwnListed`, likewise |

The *setting of consistency* is the hypothesis of four theorems: `Env \subseteq {"ccrash"}`
and `Alone` (no two sessions on one client). The first leaves out overlapping uploads,
truncation, removal, files with a zero byte, failed disks, expired deadlines and crashes of the server
or in an upload; for each of them that breaks consistency section 3 names the run or the
counterexample. The second is the code's own: `Cache.cpp:26` does not support several
processes of one client. The setting includes what `close_to_open` checks.

**The argument.** `TypeOK` is not inductive: a session at work must have a path
(`SessPath`), a handler at work too (`WorkPath`), and the contents a flush reads
back must exist, which is `CopyPresent`. `Inv` is their conjunction; there is one
lemma per operation of client and server, and `NextInv` joins them. That
`CopyPresent` survives an unlink rests on libfuse's treatment of open files
(`HasHandle`), and that it survives a stale snapshot on `commitFileCache` writing
copy and entry together.

`UploadSealed` needs `Sealed`: at most one handler per path (`OnePerPath`, where
`"overlap"` is used), a free handler has no path (`FreeBlank`), a handler has a
file open only while it receives, namely its path's TMP file (`HoldsTemp`), a TMP
file is never a published file nor another path's (`TempApart`). `mixed_upload` is the
counterexample without `OnePerPath`.

*Consistency* rests on one invariant, `FInv`. Its core says what a clock stands for: an
entry's clock is never above the server's, and where the two are equal the clean copy is
`current[p]`, or the file of an upload that is renamed and whose clock is not stored yet
(`Tagged`, `Fresh`). The second case is why a fetch between rename and store, which
pairs new contents with an old clock, does no harm: the store makes the pair stale, and at
worst the file is fetched again. To keep that, `FInv` follows an upload through the
handler (`Reached`: how much of `path.TMP` is there in each state), ties each handler to the
session that waits for it (`Served`), says that nothing but a handler at work leaves a
`path.TMP` behind and that the file is the last published one otherwise (`Settled`), and
that a snapshot of a `Cache` object is still the entry when it is used (`SessOK`, where
`Alone` is needed). It is proved one actor at a time: a step of the server is `Steady` (no
clock goes back, what a clock stands for changes only with the clock), a step of a
session touches its own locals and one copy (`Local`), and each keeps the other's part.
The three properties follow without another step.

*The refinement* uses the same invariant. `Mapped` is the refinement mapping read
session by session: a session has *sampled* the file when its RPC was answered, not
when it opens the copy, and a close takes effect at the store of the clock. A fetch that
returns a renamed file is an abstract open of a version whose close is in progress
(`FreshVersion`). Every other step of an upload's handler stutters, the rename too, and a
crash of a client is the abstract one that gives its session up.

`NoUseAfterFree` needs `LockInv`: whoever is in the critical section holds the mutex,
and the queue a thread walks has the current name. `OnlyMatching` needs that rc and
the kill have an entry that gave them from the moment they are set (`Reason`), and that no
call begins with the result of an earlier one; `CertainFires` that a finished walk came past every entry, and
that a certain no-op is still in rc unless an errno entry was there (`Came`, with
`CertainDrawn`: `rand_range` never exceeds `MAX_PROBABLITY`).

`QueueFaithful` is about a fold over the lines of a file. `ConfigProofs` shows that the
fold is `conf_option_handler` applied line by line (`ParseReads`), and that after *n* lines
the queue says what those lines say (`Says`, `ParseSays`). Both are inductions, by least
counterexample: a set of numbers of lines for which the statement failed would have a
smallest member (`LeastNumber`, from the well-foundedness of `<` on the naturals). `LoadInv`,
that the queue is what `config_init` makes of the file loaded last, carries the result to
every state, and with it the types of the entries to `InjectTypes`.

`ChunksSound` needs `InStep`: while bytes are left, position and bytes left add up to
the length of the buffer, which is an int; the position can only overflow in the step
that ends the loop. `PublishedWhole` needs the path of a byte from the buffer to the
file (`WholeInv`): the messages under way follow one another (`Chain`), from what the
handler has taken (`Taken`) to what was sent (`Sent`); `path.TMP` begins with what was
taken and ends with what was there before (`TmpHolds`, with the lemma `PwriteExtends`);
a stream that its client ended, in a call that nobody cancelled, is complete
(`EndedWhole`); and a loop left by `numOfBytes == 0` was left at an empty message, which
is the last one. Once a call is cancelled nothing is claimed of `path.TMP`, because
`IsCancelled` is asked after the loop; a cancellation after that question comes too
late to matter.

`CountHonest` holds after cancellations and short writes too, where `Chain` says
nothing: `Ordered` keeps only that the messages lie one behind the other, and `Counts` that
`numOfBytes` is at most what was taken, and less once a write was short. So a full count
means that no write was short, and `Delivered` that the file then begins with the buffer.
The same inequalities bound the counters (`Ranges`), hence `TransferTypes`. `FetchExact`
needs the replies under way: they hold the bytes from what the client has to what was
sent, with the offset of each reply as a witness (`Follows`). A handler in state `ok` has
sent everything, because the position can only overflow in the turn that sends the last
chunk.

`OneOwner` is not inductive: a directory is in somebody's hands from the step of the
mkdir handler, before anyone knows, to that of the rmdir handler, after its owner gave
it up. `Holds` says so, and `Held`, that one application at most holds a name and the
directory is there meanwhile, is inductive. `ReportedTruly` needs that a call has done
nothing before its handler (`Fresh`), that an answer says what the handler did
(`AnswerTrue`), and the lemmas `FailedRet`, `DoneRet`, `RefusedRet` on the conversions.
`OwnListed` needs `Held`, that whatever exists is in a directory (`Rooted`, so that
listing the parent cannot fail), and that an application gains no directory between
readdir's answer and its next call (`Listed`).

**Only model-checked.** `OpsTerminate`, `PublishedThenRaised`, `InjectTerminates`,
`TransferEnds` and `CallsEnd`: liveness under fairness is out of the prover's reach. Termination of the chunk
loops and of the walk over the queue is therefore shown on the bounded instances only. The
violated runs are counterexamples and need no proof; `Descriptors` has nothing else.

## 5. Not modelled

- `rename`, `mknod`, `ftruncate` and `fsyncdir` of the client, which call the local file
  system with a server-relative path and fail; xattr, lock, utimens, statfs, access.
- Errors of the client's own disk; `fsync(fileno(fp))` after `fclose(fp)` in
  `commitFileCache`; the rehash of an unlocked map under a reader (undefined: the model
  has atomic loads and stores).
- Loss of writes between several processes of one client: `Cache.cpp:26` says that
  they are not supported. `faults` only checks that copies are present.
- What an injected fault does to the client behind it: an `open` that `errinj_noop` replaces
  leaves no descriptor in the handle, and later operations on it use descriptor 0.
- A file that changes while `getFileContents` reads it: `FetchOpen` takes the contents in one
  step. An upload replaces the directory entry, not the inode the handler has open, so this
  matters only for a handler that still writes into a published inode, which is `mixed_upload`.
- Attributes other than the kind of a name (sizes, times, modes).
- `unreliablefs.c` (start-up), `conf.c` (vendored; its contract is used),
  `Utility.cpp` (strings), the tables of errnos (data), `SayHello`.
- Tests, scripts, results and documents, except as sources of what the system
  should do.

## 6. Plan

Done: all modules, runs and theorems above. What could still be added:

1. Theorems with weaker hypotheses: which part of `FInv` survives removal of files or
   failed uploads, and what is then still true of a copy that `isCacheValid` accepts.
2. For `Descriptors`, the corrected handler (one `close`) as a second specification, with
   `WritesOwnFile` as a theorem.
