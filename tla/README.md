# A TLA+ model of wasily

wasily runs a WebAssembly program, the *guest*, inside a Cloudflare Worker: it gives the guest the
WASI calls (`wasi_snapshot_preview1`), with an in-memory file system and streams for stdin, stdout
and stderr, and further imports for KV storage and Durable Objects. Waiting is done with JSPI: an
import wrapped in `WebAssembly.Suspending` may return a promise, and the activation of the guest
that called it is suspended until the promise settles, while others run.

This directory holds TLA+ modules translated from the source, the TLC configurations that check
them on small instances, and TLAPS proofs for every instance. `PROJECT.json` lists the components,
the runs, which lines each definition models, the hazards and the findings. Paths below are
relative to the repository.

## Inventory

| component | state it keeps | operations | what is hard | what makes it correct |
|---|---|---|---|---|
| descriptor table and file calls, `memfs/memfs.cc` | `fds` (number to descriptor object), `next_fd`, `preopens`, rights, littlefs handles | about 30 exported WASI calls, each synchronous | long sequences of legal calls (close, renumber, open), rights that combine, 64-bit sizes on 32-bit offsets, several descriptors of one file | numbers, objects and handles one to one; preopens fixed; rights shrink; no `REQUIRE` fails; nothing left to flush |
| littlefs (a submodule, not in the repository) | the tree, a view of the file per open handle, 128 blocks | `lfs_*` | stale views, renames under open files, out of space | external; what `memfs.cc` relies on |
| marshalling, `memfs/util.h`, `util.cc`, `memfs/index.ts` | a 40960-byte call frame on the stack of memfs, two memories | copy in at the start, copy out at the end | sizes that do not fit or wrap, buffers that overlap, throws that skip destructors | buffers of a call are disjoint; iovecs point to the copies of their buffers; a call writes back exactly what it filled, and nothing on an error |
| stdio, `Imports/Wasi.ts` | `in.buffer`, the reader of stdin, two stream controllers | `readv`, `#fd_read` (suspends), `#fd_write`, `fd_close` | several suspended reads, memory that grows meanwhile, output chunks that alias guest memory, ends and errors of streams | bytes in order, none twice, none skipped by one reader; a consumer gets what was written, in order, and an end |
| args, environment, clocks, random, `Imports/Wasi.ts` | constants | copies into guest memory | two calls must agree on sizes that are encoded lengths, not string lengths | a guest that makes the room it was told to make finds its strings, and nothing else is written |
| imports base, `Imports/Imports.ts` | the memory, the exports | getters that throw before they are set | calls before the memory is set; exports nobody sets | no access without a memory |
| instance, `Instance.ts`, `ProcessExit.ts` | the WebAssembly instance, the promise of `run` | `open`, `run`, exports, `clock_time_get` (suspends on `fetch`) | exits and traps reject a promise | streams end when the program has |
| worker imports, `Imports/Worker.ts` | none of its own; KV and DO stubs | get/put/list/delete, stub fetch, sleep (all suspend) | guest memory read before or after the wait | an answer lands where it was asked for; a failure leaves a known part of it; every call ends; a request takes effect once, with the bytes passed |
| loop, `Loop.ts`, `Worker.#loop` | a timer | `set`, `runner`, `scheduler` | an infinite loop throws through `run()`; exceptions of a timer; imports that suspend | the loop goes on until an exception, and its streams stay open |
| Durable Object imports, `Imports/DurableObject.ts` | none of its own; DO storage | get/put/list/delete (suspend) | a view captured before the wait | the same, unless the memory grew |
| Env stubs `Imports/Env.ts`, headers `include/worker/*.h`, `snapshot_preview1.ts` | none | log and return 0; declarations | nothing | nothing |

Calls go one way: guest to `Wasi` (or to `Worker`, `DurableObject`, `Env`), and from `Wasi` to the
MemFS module for every file call and for descriptors from 3 on. MemFS never calls back except to
copy memory (`copy_in`, `copy_out`) and to throw (`trace`). What is shared is the memory of the
guest, the streams, and the one MemFS instance behind all activations of a guest.

## Modules

### `Lfs`: littlefs as `memfs.cc` uses it

Operators, no state: lookups and their error codes, changes of the tree, and changes of one open
handle. All of it is external. A tree maps paths (sequences of names) to nodes; the contents of a
file are its length. A handle is what `lfs_file_t` is to the callers: its entry, position, length
and whether there is something to write back (`dirty`). `lfs_file_sync` is `Synced` for the handle
and `SyncTree` for the tree. A handle whose entry was unlinked, replaced or renamed is orphaned:
its entry is `Nowhere` and its syncs change no file. `Low` and `Signed` are the conversions of
64-bit WASI values to `lfs_off_t` and `lfs_soff_t`; `Word` stands for 2^32.

### `MemFS`: `memfs/memfs.cc`

| variable | in the code |
|---|---|
| `fds` | `Context::fds`, from numbers to addresses of objects (0: no entry) |
| `heap` | the `FileDescriptor` objects; `file` is `state.file` |
| `mlist` | the addresses whose littlefs file or directory is open |
| `next_fd` | `Context::next_fd` |
| `tree` | what littlefs has written |
| `ret` | the errno of the last call, or `THROW` when a `REQUIRE` failed |

Each exported call is one action with the name of the call, because MemFS is synchronous: nothing
runs between its lines. A call that fails early is the disjunct `Fail`; one that fails a `REQUIRE`
(or an `LFS_ASSERT`, which is the same) has `ret' = "THROW"`. Running out of blocks may happen to
every call that allocates (`OutOfSpace`); `from_lfs_error` has no errno for it and throws. A run of
the model ends at a throw: what littlefs leaves half done then is not modelled.

Points where the model keeps what the code does rather than what it seems to mean:

- `resolve_path` copies the bytes of an iterator, that is of an address, instead of the path of
  the directory. `Pointers` says what those bytes can look like as a string. With the empty
  preopen, the case of the example worker, nothing is copied.
- `fd_renumber` of a number onto itself uses an object after freeing it. That is undefined; the
  model has what the checked-in build does (the object is closed and the number free), so nothing
  is shown for a build where the use after free does something else.
- `fd_close` of 0, 1 and 2 succeeds and leaves them in the table.
- appending moves a write to the end of the handle's view only if the position was before it.
- `fd_allocate` compares 64-bit sizes and truncates to the low 32 bits.

`Wasi.ts` creates MemFS with no preopens and no files and keeps `Options.preopens` and
`Options.fs` unused, so today a guest of `Instance` has only the three streams. The model takes the
preopens and files as constants, as `initialize_internal` does.

### `FileTable`: what the table promises

The abstract specification of `MemFS`: a function from numbers to things with a type and rights, and
four ways it may change (opening at an unused number with rights the directory passes on, closing,
renumbering, restricting). It has no objects, addresses, handles, `next_fd` or paths.
`MemFS!ImplementsTable` maps each number to what its object says (`Descriptor`). TLC checks it in
run `table`, and `TableProofs` proves it.

### `Stdio`: `Imports/Wasi.ts` and the run of `Instance.ts`

Activations (`Act`) are calls into the guest: `Main` is `run()`, the others are exports. At most
one runs; when none does (`Idle`), microtasks run in the order they were queued, and the outside
world (source of stdin, consumers of the outputs) takes a step.

| variable | in the code |
|---|---|
| `source`, `queue`, `waiting` | the stdin stream: its state, its chunks, its pending `read()`s |
| `inbuf` | `in.buffer` |
| `want`, `got`, `view` | locals of a suspended `readv`: size asked for, `read`, and the memory its views were made on |
| `jobs` | promise reactions that are due |
| `out` | the two output streams with the chunks queued in them |
| `content`, `memory` | what guest buffers hold now, and how often `memory.grow` has detached the old memory |
| `produced`, `handed`, `written`, and `consumed` in `out` | history, for the properties only |

Bytes of stdin are numbered as they are produced, chunks of output by their write. `fd_read` runs
`readv` up to its first `await`; `got_chunk` and `got_done` run it on; `store_result` is the
callback of `#fd_read`; `resume` is the return into the guest. An action is everything between two
suspension points, since JavaScript lets nothing in between.

### `Loops`: `Worker.#loop` and `Imports/Loop.ts`, composed with `Stdio`

Extends `Stdio` by activations that no host calls: a timer calls the function of a loop
(`runner`), and its return sets the timer again (`loop_return`, `scheduler`). `loop` is the import
`worker_loop`; an infinite loop throws `"unwind"` through the activation that set it, so the
promise of `run()` is rejected and `fd_close` never runs. `exports` says whether the host gave
`Imports` the exports of the guest: `Instance` gives it the memory only.

The function of a loop is called without `WebAssembly.promising`, so it cannot be suspended. An
import that returns a promise still runs first: JSPI throws the `SuspendError` into the guest
when it has the promise. For `clock_time_get` that is all (`suspending`). The `fd_read` of a loop,
though, has begun a `readv`: it has taken what `in.buffer` held, or has asked the reader for a
chunk, and goes on when that comes, overwriting `in.buffer` as any other read does. So a loop that
reads is in the state `"reading"`, from which it never returns; `Abandoned` is the rest of its
`readv`, and `unread_result` the settling of a promise that nobody keeps. A loop therefore takes
part in the race for `in.buffer`, and the bytes it takes go to the buffers of a call that has ended.

### `Storage`: `Imports/Worker.ts` and `Imports/DurableObject.ts`

| variable | in the code |
|---|---|
| `store` | what a read of each key may find in KV and in the storage of the Durable Object (external) |
| `cell`, `table`, `memory` | guest buffers, the table of pointers guests pass to `list`, and how often the memory grew |
| `state`, `call` | the activations, and the locals of their suspended handlers |
| `jobs` | promise reactions that are due, in order |
| `made`, `touched`, `owner`, `call[p].moved` | bounds and history |

A handler is split where it awaits: the action with its name runs to the `await` and asks the
platform, `resolve` and `reject` are the platform, `continue` and `rejected` are the rest of the
handler, `resume` returns into the guest. What a handler copied at the call is `call[p].copy`; a
handler that made a `Uint8Array` of the memory before its await (`HoldsView`) finds it detached
when the memory has grown, and `set` throws. Pointers in the table are read after the await, as
`KVNamespace_list` and `State_Storage_list` do. Contents of buffers are single values, `NoBytes`
being none: a get that finds an empty value returns 1 (0 for text) and leaves its buffer as it was, which
`AnswerInPlace` allows. An environment without the binding is the alternative `Unbound`.

An answer is written where guests point, with no size passed. Where it does not fit, `set` or
`getUint32` throws a RangeError after the await, and the guest gets an exception although the
platform answered. `NoRoom` says which contents do not fit where, for each size of the memory
(memory only grows, but the model needs no order between sizes); a pointer of the table that cannot be read
stands as one that points beyond the memory. `Fitting` is the part of an answer before the first
such write, which stays in the buffers.

Of the platform two things are assumed, as Cloudflare documents them:

- the storage of a Durable Object is strongly consistent: a read finds what was stored last;
- KV is eventually consistent: a read may find any value the key has had (absence is one, if it
  was ever absent), and two reads may find them in any order. `store[k]` is the set of those values. A list reads each of its
  keys by itself.

What the platform does with a rejected request is open: it may have taken effect or not. KV may
read a put `ArrayBuffer` view at any time until it answers; the storage of a Durable Object
copies it at the call. Requests of one activation are sequential, and no order holds between those of two.

`PlatformStore` is the abstract specification: what is left of those promises for a guest. A
request takes effect once, at one moment between its call and its return (or its error), with the
bytes that were passed, and its answer is what one read of each key found. It says nothing stronger of KV
than the platform does: KV is no atomic map, there or here. Bytes of guest memory that a request
refers to are *lent*: a put stores what was passed or what their owner has made of them when it takes
effect. `Storage!ImplementsStore` is the refinement. What it could catch are the handlers: one that
asked twice, read its buffer after the await, wrote an answer it did not get, or lost one.

### `Marshal`: `memfs/util.h`, `util.cc`, `memfs/index.ts`, and the direct calls of `Wasi.ts`

| variable | in the code |
|---|---|
| `given` | whether the memory setters have run |
| `guest` | the memory of the guest, a few cells of a byte or a 32-bit word each |
| `frame` | the `CallFrame`: `tmp_offset`, `tmp_buffer`, and the spans allocated so far |
| `todo`, `cursor`, `pc`, `kind` | the parts of the call still to copy in or out |
| `lost` | frames left on the stack of memfs by errors thrown through it |
| `before`, `ret`, `calls` | the memory at the call, the answer, and a bound |

`Enter` starts an export of `memfs.cc` with the parts it refers to, in the order the code does;
`ref_array` copies one in after the `REQUIRE` of `alloc` (which compares an `int` that wraps with
an unsigned size); the buffers of iovecs are added once the array has been copied, and each one that
is copied makes its iovec point to the copy (`Repointed`, the stores to `iov.buf` of
`with_external_iovs` and `with_external_ciovs`); `serve` is the function behind the export; `copy_out` is the destructor of one view, last built first. `Throw`
leaves at any point without destructors. `resolve_path` allocates the resolved name without copying.

The frame is a local of the export, and memfs.wasm never restores its stack pointer when `trace`
throws through it. Its stack runs from 10464 to 76000 and the exports with a frame use 40976 to
41248 bytes, so after one throw the next frame has a negative address and `copy_in` throws a
RangeError, whatever is asked. `Frames` is 1 for the checked-in build.

`count * sizeof(T)` is 32 bits wide. An array of iovecs is two cells each, so its size is
`(2 * count) % Word`, and from `Word / 2` on (`Wraps`) the cells that are allocated and copied are
fewer than the span of `count` elements that `ref_array` returns. `TypeOK` and `SpansApart` are about the cells allocated
and copied. What follows is taken from the checked-in memfs.wasm: its loop over the copied array ends
where the wrapped size does, with the buffers of those iovecs copied; then `fd_read` calls
`rw_buffers.reserve(iovs_len)`, which aborts at such a count (kind `unreserved`; the build does it
after the array is copied, before its buffers are), and `fd_write` passes the array to a callback that
loops over `iovs_len`, hence goes on behind the array, where any cells are taken for iovecs (kind
`overrun`): it fails or answers an arbitrary count of bytes. All the guest sees of it is that count;
what ends up in the file is not modelled.

`fillValues`, `fillSizes`, `clock_get`, `random_get` and the stubs write to guest memory directly;
`fillValues` is one action per string because it throws halfway when it leaves the memory.

### `MCMemFS`, `MCStdio`, `MCLoops`, `MCStorage`, `MCMarshal`

Values for the constants. The `VIEW` of the MemFS runs drops which errno the last call returned:
no guard depends on it except that nothing follows a throw, which the view keeps. Action
properties are about states the view tells apart, or about a throw. The `VIEW` of `input` drops what
happens to the outputs except whether something is queued: a write that fails ends an activation
like a trap, and nothing else of an output reaches the readers of stdin.

### `MemFSProofs`, `FilesProofs`, `TableProofs`, `MarshalProofs`, `ArrivalProofs`, `StdioProofs`, `LoopsProofs`, `StorageProofs`

The theorems about the modules of their names, see below; `FilesProofs` has those about the tree and
the open files of `MemFS`, and `ArrivalProofs` those about what calls of `Marshal` hand to the guest.

## Runs

| run | what it explores | properties |
|---|---|---|
| `table` | opens of files and directories with full, partial and mismatched rights, closed, restricted, renumbered, stdio and preopens among them | `TypeOK`, `PreopensPinned`, `RequireHolds`, `HandlesOwned`, `RightsNeverGrow`, `ImplementsTable`, `OpenPreservesTable` |
| `files` | one descriptor, every path call on a tree of up to four entries, with trailing slashes, and every file call with sizes that wrap a word | `EntriesAreFiles`, `ViewIsFile`, `OnlyTruncationPending` |
| `input` | two activations read stdin; chunks of 0, 1 and 2 bytes, reads of 1 and 3, one write, one `memory.grow` | `TypeOK`, `HandedInOrder`, `SkipNeedsTwoReaders`, `ShortReadAtEnd` |
| `program` | one program and one loop; both read and write, and the program sets the loop, until it returns, exits, traps or is unwound | `LoopTypeOK`, `LoopCanWrite`, `ReadsEnd`, `OutputEnds`, `LoopsGoOn` |
| `output` | two activations write three chunks from two buffers to both outputs; consumers take or cancel; one `memory.grow` | `OutputInOrder` |
| `storage` | two activations, every storage import, answers and errors in any order, answers that do not fit, one change of the guest memory | `TypeOK`, `AnswerInPlace`, `ListedInPlace`, `LeftInPart`, `CallsReturn`, `ImplementsStore` |
| `calls` | two calls of any kind, with iovecs apart, overlapping in both orders, and of a size of -1, and counts whose size wraps; strings of one character and two bytes, and empty ones; calls before the memory is set | `TypeOK`, `SpansApart`, `SpansCopied`, `OnlyHandedOver`, `BytesArrive`, `ValuesArrive`, `FrameLostByThrow` |

Five runs end in a violation, each of something the repository says:

| run | the violated statement | what happens |
|---|---|---|
| `renumber` | `REQUIRE` at `memfs.cc:440` | renumbering onto 0, 1 or 2 throws |
| `preopen` | files under a named preopen are found, `test/wasmtime-wasi-tests.test.ts:29-32` | names resolve below bytes of an address |
| `skipped` | "pull only if pending queue is empty", `Wasi.ts:153` | two suspended reads: the later chunk replaces unread bytes |
| `reused` | stdout is what the program wrote, `test/wasi-test-suite.test.ts:86-88` | a reused buffer changes a chunk that is still queued |
| `exited` | both outputs end for every program, `test/driver/common.ts:54-57` | after `proc_exit` nobody closes them |

The tests quoted were written for the API this code grew out of (`@cloudflare/workers-wasi`, which
they still import); they are read as statements of what a program's streams and files should do.

What the passing runs show that is easily missed: a get or list of a Durable Object's storage loses
its answer when another activation grows the memory, while KV's do not, and any get or list fails
after its answer when that does not fit, a list with the entries before already written (`LeftInPart`);
bytes put as an `ArrayBuffer` into KV are those of some moment until the answer
(`ImplementsStore`); two activations that read stdin can skip bytes, one alone cannot
(`SkipNeedsTwoReaders`); a chunk of output that is queued when the memory grows is lost, and nothing else is
(`OutputInOrder`); overlapping buffers of a read are harmless only because
the views of the vector are destroyed last to first, as libc++ does it, and the byte count after
them (`BytesArrive`); one thrown `REQUIRE` makes every later framed call of the
instance throw (`FrameLostByThrow`).

**Bounds and why they are enough.**
`table`: numbers 0..5 with one preopen leave two numbers free, so that after two opens (one closed
again, as there are five objects) `allocate_fd` wraps and meets numbers that are in use or were
freed by renumbering. `Word` is 4 in `table` and 6 in `files`, where sizes matter, so that lengths
reach `FileMax` (2) and the sizes 1, 4 and 7 grow, shrink, wrap (7 is 1 again) and turn negative (4
as a signed word). `files`: four entries hold the root, a file, a directory and a file in it, so
that a rename can move a directory with an open file in it or replace what is there; one descriptor
beside preopens and streams, because `ViewIsFile` is false with two.
`input`: four bytes in chunks of up to two, read by three or one, give every way a chunk can straddle
reads; two readers are the fewest that interleave. `output`: three writes give every order within a
stream, two chunks of one stream queued at once from different buffers, and a chunk written before and after memory
grew; it has no input, of which nothing reaches an output. `program`: one byte, so that a read of the
program and one that the loop abandoned wait together, in either order, for a chunk, the end or the
error; two writes, which may both be queued at the end of the run; one loop is enough, as loops share
nothing with each other but the streams.
`storage`: two activations and two calls are the fewest that interleave; one change of memory is
enough to detach a view, rewrite a buffer or move a pointer under a call that waits; two keys and a
limit of two let `list` of KV and of the Durable Object write two buffers in either order, or one
twice, and `MCNoRoom` makes either entry the one that does not fit, until the memory has grown.
`MCStores` starts with nothing stored, a value at every key, or an empty value at those of the
Durable Object.
`calls`: a frame of 10 cells holds every call with sizes of one, and too few for a rename
with sizes of two; `Word` is 32, more than twice the memory and more than a path and two frames, as in the code (2^32 against a
memory below 2^31 and frames of 40960); 17 iovecs are 34 cells, which wrap to those of one; `Stack` is 20, so that no
address of a copy is one the guest passes; and `Frames` is 1 with two calls, so that one call follows a throw.
`TopFd`, `MaxDesc`, `MaxEntries`, `MaxBytes`, `MaxQueue`, `MaxWrites`, `MaxGrow`, `MaxCalls` and
`MaxTouch` are bounds of the model and marked as such where they are declared; none of them
stands for a limit of the code. Deadlock is not checked: a MemFS run stops at a throw, and elsewhere
everyone may be done.

**Fairness.** `Stdio`: weak fairness of the microtasks together (the engine drains the queue, in
order), and strong fairness of each consumer taking a chunk (the platform reads response bodies;
the test driver reads both streams to the end), strong because activations may come and go between.
`Loops` adds strong fairness of the timers: they fire whenever nothing runs and no microtask is
left, however often that stops being so. `Storage`: weak fairness of the platform's answers to each
call, strong fairness of the microtasks. Nothing is assumed of guests (which may loop), hosts (which
may not call), the source of stdin (which may be silent) or `fetch`. The liveness properties say so:
`ReadsEnd` holds once the source has ended, `OutputEnds` and `CallsReturn` if activations give the
thread back again and again (`[]<>Idle`), and `LoopsGoOn` if besides the microtasks run out
(`[]<>Free`): a program that reads buffered stdin without a pause starves its loops. The platform
may also drop the timers of a request that has been answered; that is not modelled.

## Proofs

For every value of the constants that meets the assumptions:

| module | theorem | what |
|---|---|---|
| `MemFSProofs` | `TypeCorrect` | `Spec => []TypeOK` |
| | `Ownership` | `Spec => []HandlesOwned` |
| | `PreopensStay` | `Spec => []PreopensPinned` |
| | `RequiresHold` | `Spec => []RequireHolds` |
| | `RightsStayShrunk` | `Spec => RightsNeverGrow` |
| | `OpenTakesUnused` | `Spec => OpenPreservesTable` |
| `FilesProofs` | `EntriesStayFiles` | `Spec => []EntriesAreFiles` |
| | `OnlyTruncationWaits` | `Spec => []OnlyTruncationPending` |
| | `OneViewIsFile` | if `MaxDesc = NPre + 4`: `Spec => []ViewIsFile` |
| `TableProofs` | `TableImplemented` | `Spec => ImplementsTable`: `MemFS` implements `FileTable` |
| `MarshalProofs` | `TypesHold` | `Spec => []TypeOK` |
| | `SpansStayApart` | `Spec => []SpansApart` |
| | `SpansAreCopied` | `Spec => []SpansCopied` |
| | `OnlyHandedOverChanges` | `Spec => []OnlyHandedOver` |
| | `FramesLostByThrow` | `Spec => []FrameLostByThrow` |
| `ArrivalProofs` | `BytesReadArrive` | `Spec => []BytesArrive` |
| | `ValuesAllArrive` | `Spec => []ValuesArrive` |
| `StdioProofs` | `StdioTypes` | `Spec => []TypeOK` |
| | `BytesInOrder` | `Spec => []HandedInOrder` |
| | `ShortOnlyAtEnd` | `Spec => []ShortReadAtEnd` |
| | `OneReaderSkipsNothing` | `Spec => []SkipNeedsTwoReaders` |
| | `OutputKeepsOrder` | if `~Reuse`: `Spec => []OutputInOrder` |
| | `OutputArrives` | if `~Reuse` and `MaxGrow = 0`: `Spec => []OutputAsWritten` |
| `LoopsProofs` | `LoopTypes` | `LoopSpec => []LoopTypeOK` |
| | `LoopsCanWrite` | `LoopSpec => LoopCanWrite` |
| | `BytesInOrderWithLoops` | `LoopSpec => []HandedInOrder` |
| | `SkipsNeedTwoWithLoops` | `LoopSpec => []SkipNeedsTwoReaders` |
| | `OutputKeepsOrderWithLoops` | if `~Reuse`: `LoopSpec => []OutputInOrder` |
| `StorageProofs` | `StorageTypes` | `Spec => []TypeOK` |
| | `AnswersInPlace` | `Spec => []AnswerInPlace` |
| | `ListsInPlace` | `Spec => []ListedInPlace` |
| | `FailuresLeavePart` | `Spec => LeftInPart` |
| | `StorageImplementsStore` | `Spec => ImplementsStore`: `Storage` implements `PlatformStore` |

*`MemFS`.* The inductive invariant `IInv` is the conjunction of the four state properties
(theorem `Invariance`); none of them is inductive alone. `fd_close` frees the object of any number
that is not preopened, so preopens keep their objects only because no other number shares one
(`HandlesOwned`). `path_open` puts a new object at a free address, and that no number denotes it is
again `HandlesOwned`. Most calls only replace the file or the rights of an object; `SameObjects`
says so, and one lemma (`SameObjectsInv`) carries the invariant over all of them. `fd_close`,
`fd_renumber` and `path_open` have a lemma each. That `allocate_fd` finds a number at all is a
counting argument (`SomeUnused`): fewer objects than numbers, and `HandlesOwned` makes the map from
used numbers to objects injective. The two action properties follow step by step from `IInv`.

*The tree of `MemFS`.* Each call has one of seven effects on the tree and the open
files (`Effect`): it looks, writes an open file back, makes, removes or renames an entry, opens or
releases an object. The invariant is `FInv`: whatever is above an entry is a directory (`Closed`), and
an open file that has an entry fits it (`Fits`). `EntriesAreFiles` alone is not inductive: in a
tree with something below a path that is not there, a rename to that path could carry one entry onto
another. `RenameAllowed` says why that cannot be: `RenameError` accepts a new path only if it is
in a directory that is there and, when it exists, has nothing below it; with `Closed`, nothing is
below it when it does not exist either. `RenameIs` then gives every entry its one place after the rename
(`RebaseInjective`: two entries never move to one path; `BeforeRebased`: what is above a moved entry
moved too, or was above the new path), and `RenameFollowed` that `EntryAfterRename` of a handle is
where its entry went. A directory renamed below itself is no exception: its entries go,
and so do those of the handles in it.

`ViewIsFile` needs that there is one opened descriptor: with two, each has its own view, and a write
through one leaves the other's length behind. The hypothesis `MaxDesc = NPre + 4` says that beside
the preopens and the three streams there is room for one object, as in run `files`; `Fixed`,
that the preopens and the streams are never freed and have no file. Names, trees, sizes and the
sequence of calls stay arbitrary, and descriptors may be closed and opened again.

*The refinement.* Under `IInv` a number is open in the abstract table exactly when `fds` has it
(`OpenInView`). Calls that keep the table and shrink rights map to `Restrict`; because numbers and
objects are one to one, changing one object changes the view of one number, which is where
`HandlesOwned` is needed again. The other three calls map to the abstract action of their name.

*`Marshal`.* `SpansApart` is not inductive: `alloc` wraps at `Word`, and an offset that wrapped would
put a span over another. It cannot, because every size but one is held against the memory of the
guest before the next allocation, so that it is below half of `Word` (the size of an array as it is
after wrapping, since that is what is allocated and copied), and the one that is not, the
resolved path, is at most `DirSize + 2` longer than a string that is in the frame already. `Sized`
says that of the parts still to be allocated; `Bounded`, `Served_`, `Filling` and `NoJunk` describe
the call in each phase, and `IInv` is their conjunction with the properties. `SpansCopied` relates
three things: the iovecs of the guest, their copies in the array, and the copies of their buffers.
It needs `Vectors`: the array is the second span, the spans from the third on are the buffers of the first
iovecs in order, and the parts still to come are those of the rest, by what the *guest* holds. The
stores to `iov.buf` change the array meanwhile; each falls on the pointer of the one iovec whose
buffer is copied in the same step, hence on none that is still to be read, and on no cell of another
span because spans lie apart. `OnlyHandedOver` holds
while views are written back because the cells of the guest and of its copy differ only where
`serve` stored something; an answer that is an error stored nothing.

*What `Marshal` hands to the guest.* `BytesArrive` needs to know where each byte read is from the moment
`serve` stores it. `Framing` says that the spans of a frame leave no cell out (`Packed`: the frame is a
sequence of spans, so the bytes stored one after another fall into the buffers in order) and that those
of a read are the place of the result, the array and its buffers (`Reading`). From `serve` on, `Loaded`
says of every slot of a buffer that it holds the byte read for it or, beyond the bytes read, what the guest
held there before; and `Delivered`, while the views are written back last to first, that every cell
of the guest has the byte some view written back brought it, or is as it was. The critical case is a cell
that two buffers cover: the earlier one is written over the later, and if the read did not reach the
earlier slot this would put back a stale byte. It cannot, since the earlier buffer has the earlier
slots (`LaterPlace`): a read that reached the later one reached the earlier one too. The place of the
result is first, hence written last, over any buffer that covers it.

`ValuesArrive` is kept by `Emplacing`: after i values, the i pointers and strings are where the sum of
the encoded lengths puts them, and the rest of `values` is still to be stored. That a next value
covers none of those (`StoredNext`) holds only if the two areas of the guest are apart, which is what the
condition of the property says by counting: areas that have as many cells as both together share none
(`RoomForBoth`). Without it, pointers would be overwritten by strings.

*`Stdio`.* That bytes are handed out in order is no property of one variable: they pass from the
source through the queue of the stream, the jobs of reads that were answered and `in.buffer` to the
guest. `InOrder` of `IInv` says that what was handed out, what `in.buffer` has left, the chunks of due
reactions and the queue are one ascending sequence, in the order in which they will be read, and
`Reactions` that an activation has at most one reaction due, of the kind its state waits for.
`WaitsForMore` and `Ends` carry `ShortReadAtEnd`: a read that is suspended has not got all it asked for, and
the source has ended before a reaction says so. Nothing of that needs to know how many activations
read. That no byte is *skipped* does: `Seamless` (the same sequence has no gaps) is preserved only
if `in.buffer` is empty when a chunk arrives. `Solo` is that as long as some activation alone has
read (`Alone`: all others ask for 0 bytes), nothing is missing so far; its step needs that one who waits or has a reaction
due did read (`ReadersWant`), so that a second reader ends the premise before it can do harm. Run `skipped` is what happens then.

`OutputInOrder` follows from `OutputSound`: what was consumed is what was written first, or nothing
where the memory has grown, and the chunks queued are the next writes, whose buffers still hold
them, or are views of a memory that is gone. `~Reuse` keeps the buffers; with `MaxGrow = 0` the exception
does not occur, and `OutputArrives` gives `OutputAsWritten`. Run `reused` is what happens without the first.

*`Loops`.* Each step is one of `Stdio`, or the settling of a read nobody keeps (`UnreadResult`), or moves no byte
(`Switches`), so the lemmas about steps of `Stdio` are used again. A loop that reads is one of the
readers: its `readv` goes on after the `SuspendError`, and `SkipsNeedTwoWithLoops` counts it.

*`Storage`.* `IInv` relates the reactions due to the states of the activations (`Due`), and says of every
activation what its handler relies on while it waits (`Sound`): its locals are those of its operation, an
answer has no more entries than the table, a view is not newer than the memory. `Answered` and `Listed` say the
same as the properties of a handler that has written. They are inductive together because the
only writers of a buffer are a guest or another handler, and both change its `owner`.

`LeftInPart` is a property of one step, but needs that answers have no more entries than the table and
pointers for each (`Sound`). What a failed handler has written is a prefix of its answer (`FittingIs`); of two
entries for one buffer the later one of the prefix is there (`WriteIs`), and the entry after the prefix
is one that has no room (`FullLeaves`). `DetachedLeaves` is the other case, of a view whose memory has grown.

*The refinement of `PlatformStore`.* A handler that waits is a pending request, one that was answered an
answer, and the locals between are invisible. `resolve` and `reject` are the moments a request
takes effect; a call is `Call`, `continue`, `rejected` and `resume` are `Return` or nothing. What remains are the guest
steps and the handlers that write buffers while another activation has lent its bytes to KV: they are
`Change`, since `RequestOf` of that activation differs at most in `lent`. `IInv` is needed for the
request and the answer to be of the abstract types, and for a reaction to be due once. What KV may let a
read find is the same set in both modules, the assumption stated above: the theorem is about the handlers.

*Induction over data.* `ArrivalProofs` needs what `FlattenSeq` and `FoldLeft` return, which the community
modules define by recursive functions. That such a function exists, and where in the result each element
is (`FlattenLayout`, `SizeLayout`), is proved by the least-number principle (`LeastNumber`): the shortest sequence for which it
fails would have a shorter one. `Storage` needs two facts about sequences that are found by induction: the
last of several writes to a buffer (`Max` of a set of places), and the n-th of the keys that are
there. Both follow from the same principle, which both modules get from `NatLessThanWellFounded`
and `WFMin`, theorems without an operator as a parameter. So that they can be stated, `Present` counts with
`Cardinality` instead of `SelectSeq`, and `NoBytes` names the empty string, whose literal the SMT
backend does not read.

*Assumptions.* All are evaluated by TLC in every run of the module. `WordAssumption`,
`TimesAssumption`, `TableAssumption`, `ArgumentAssumption` and `PathAssumption` for `MemFS`; the one
that says something of the program is `MaxDesc + NPre <= MaxFd + 1`: there are never as many
descriptors as numbers up to INT_MAX, without which the loop of `allocate_fd` would not end.
`StorageAssumption` for `Storage`, and those of `Stdio` and `Loops`, only say of which kind the constants are.
(What is assumed of the platform is in the actions of `Storage`, see there.)
`SizeAssumption`, `DataAssumption` and `InputAssumption` for `Marshal`: the memory of a guest is at
most half of the address space, since `copy_in` sees larger addresses and sizes as negative and
throws, and `DirSize + 2 * FrameSize + 2 < Word`: the name of a directory is not gigabytes long.

*Only model-checked.* Every invariant and every action property of a passing run is proved, `OutputInOrder`
and `ViewIsFile` under the hypotheses above. Liveness (`ReadsEnd`, `OutputEnds`,
`LoopsGoOn`, `CallsReturn`) is out of the prover's reach and stays with TLC, and so do the five violations,
which are counterexamples.

## Not modelled, and why

- Contents of files (lengths tell the properties of `MemFS` apart; `Marshal` has the bytes on their
  way), directory iteration (`fd_readdir` returns `ENOSYS`), the stat structures, wear and blocks of
  littlefs.
- The value a clock answers: no state depends on it. `Instance.#clock_time_get` multiplies
  seconds and milliseconds by the same factor, as `PROJECT.json` notes.
- Contents of guest buffers in `Storage` beyond one value: that an answer is longer than its buffer,
  but ends within the memory, and overwrites what follows, is not seen. The response of a Durable Object's stub, which the handler only logs.
- The Env stubs, which log and return 0, the headers, the constant tables, the example worker.
- The guest itself, and with it the shadow stack that interleaved exports share.
- The assembly of imports in `Instance`'s constructor, and the JSON memfs.wasm is initialised with.
- `Wasi`'s choice between the streams and MemFS for a number (planned).

## Plan

Done, in this order: `Lfs`, `MemFS` with its proofs, `Stdio`, `Storage` with `PlatformStore`, `Loops`,
`FileTable` with its refinement and proof, `Marshal` with its proofs, and the proofs about `Stdio`,
`Loops`, `Storage`, the tree of `MemFS`, and what `Marshal` hands to the guest.

1. `Pipe`, a sequence of bytes with two ends, as what `Stdio` with one activation implements.
2. `Wasi`: the choice between `Stdio` and `MemFS`, composed with `INSTANCE`: which numbers reach
   which component after stdio is renumbered or a number below 3 is handed out (`memfs.cc:175`).
