# A TLA+ model of go-zfs

go-zfs is a Go library that talks to the ZFS kernel module through ioctls whose
arguments are nvlists. This directory models the parts of it where order,
concurrency, retries and untrusted lengths matter, checks them with TLC on small
instances, and proves the safety properties with TLAPS for all values of the
constants.

## The system

| Part | Code | State | Operations | Model |
|---|---|---|---|---|
| Send stream | `ioctl/wrappers.go` 438-549 | pipe, `errorChan`, `peekBuf`, `isEOF`, `lastError` | `Send`, its goroutine, `peek`, `Read`, `Close` | `SendStream` |
| Receive stream | `ioctl/wrappers.go` 551-677 | pipe, `beginRecordChan`, `errorChan`, `beginRecord`, `lastError` | `Receive`'s goroutine, `Write`, `WaitAndClose` | `ReceiveStream` |
| NvlistIoctl | `ioctl/ioctl.go` | the caller's `Cmd`, its private copy, `dst` | one call: marshal, system call, retry, unmarshal | `NvlistIoctl`, `DstBuffer` |
| NUL-delimited strings | `ioctl/wrappers.go` 138-159 | none | to and from a buffer | `DelimitedBuf` |
| nvlist decoder | `nvlist/decode.go` | cursors of two readers, recursion | `Unmarshal` | `NvDecoder`, `NvFormat` |
| nvlist encoder | `nvlist/encoder.go` | output, start of the open pair | `Marshal` | `NvEncoder`, `NvCodec` |
| Listing wrappers | `ioctl/wrappers.go` 161-183 | cursor, kept by the caller | `DatasetListNext`, `SnapshotListNext` | `DatasetList` |
| Other wrappers | `ioctl/wrappers.go` 185-436, 679-742 | none of their own | about 25 straight-line calls | `Wrappers` |
| Device handle | `ioctl/wrappers.go` 90-107 | `zfsHandle` | `Init` | `Wrappers` |
| Tracer | `ioctl/trace/main.go` | `exit`, the entry/exit parity | ptrace loop | `Trace` |
| Types, constants, test helpers | `types*.go`, `fuzz.go`, `testhelper` | none | none | not modelled: tables, generated code, scaffolding |

How they interact: every wrapper makes a fresh `Cmd` and calls `NvlistIoctl`, which
marshals the request, issues the system call with a copy of the `Cmd`, repeats it
with a larger reply buffer on ENOMEM, and unmarshals the reply. `Send` and `Receive`
run that call in a goroutine, connected to the user of the library by a pipe whose
other end the kernel uses, and by channels for the verdict.

What is hard about it: three actors (caller, goroutine, kernel) on one pipe and one or
two bounded channels; failure at any point of a transfer; a reader that closes early; a
writer that stops early; a retry that repeats work already done; lengths and counts
taken from the data; a recursion that shares one cursor between nested lists; a listing
whose state is a cookie in the caller's hands; operations that are not idempotent under a
retry or can fail half way; a tracer that tells stops apart by counting them.

## Modules

- `SnapshotTransfer` - abstract: the far side gets a growing prefix of the stream, and
  the transfer is complete only with all of it.
- `SendStream` - implements it for `Send`. `gpc` is the goroutine (`ioctl`, `report` =
  line 535, `close` = line 536), `cpc` the caller (`peek`, `read` inside a blocking read
  of the pipe, `peekWait`/`readWait` = receiving from `errorChan` at lines 474/457).
  `PeekData`, `PeekEOF`, `PeekFails` are `peek` and the end of `Send`; `Read*` are the
  branches of `Read`; `Close` may happen during a `Read`.
- `ReceiveStream` - implements it for `Receive`. `Write(n)` is `Write` up to the pipe,
  `PipeWrite`/`PipeBroken` the write into the pipe, `WaitAndClose`/`WaitEnds` the two
  halves of `WaitAndClose` around its wait. Slices sent over `beginRecordChan` are
  represented by their length.
- `IoctlCall` - abstract: the caller's `Cmd` changes as by one execution of the handler, or
  not at all.
- `NvlistIoctl` - implements it with the retry loop. `DstBuffer` holds the loop's
  arithmetic with the code's own numbers and is shared by the two streams, whose goroutines
  sit in the same loop. `DelimitedBuf` is the string conversion, byte by byte.
- `NvDecoder` - `Unmarshal`. What the code reads from the data is any value of a set, so
  the runs and proofs speak of all data; the recursion of `readPairs` is the variable
  `stack`, the destination found by reflection a `target`. A panic is an outcome.
- `NvFormat` - lengths and alignment that reader and writer share.
- `NvEncoder` - `Marshal`. The value is met field by field (a behaviour chooses the next
  one); of the bytes, positions, lengths and zeroed regions are kept, because a reader takes four
  zero bytes for the end of a list. `stack` is the recursion of `writeNvPairs`; errors travel up it
  as the code passes them on. `given` records the value as it was met.
- `NvCodec` - composes it with `Unmarshal` of that data into `map[string]interface{}`, following the
  positions, sizes and counts that were written. `got` records what became of each pair and end it met.
- `DatasetList` - a caller's loop over `DatasetListNext` or `SnapshotListNext`, with
  `NvlistIoctl`'s retry inside each call, while others create and destroy datasets.
- `Wrappers` - `Init` and every other wrapper, one call at a time. `FirstOpen`, `Mknod` and `SecondOpen` are
  `Init`. `Request` is the ioctl, `Cmd` and request a wrapper builds, `Refused` its early returns (and `PoolImport`'s
  panic on a config without `pool_guid`), `CopyBack` line 59 of `ioctl.go`, `ErrorOf` and `StringOf` what the wrapper makes
  of the `Cmd` it gets back. `Handler` and `PoolHandler`, the kernel's side, are external: a pool with
  filesystems, snapshots (held or not), a scan and properties. `KernelFails` and `NoMem` are handlers that answer EIO or
  ENOMEM before or after their work, or with `Leftovers`, part of it.
- `Trace` - the tracer against a program that may not start, enters and leaves system calls, gets signals and may be
  killed; `thread` says whether the goroutine still runs on the thread that started it. A tracer that is
  over lets go of the program, which runs on (`RunsOn`).
- `MC*` give the constants their values. `*Proofs` hold the theorems.

Stream bytes are represented by their positions, so lost, repeated and reordered bytes are
all visible. The kernel is external: its actions (`Kernel*`, `Handler*`) are modelled
from what the code expects of it.

Operators commented "Possible slip" are not part of a specification. Each is a plausible
mistake in the definition it precedes; substituted for it, it must break the property
`PROJECT.json` pairs it with.

## Runs

| Run | Checks | Result |
|---|---|---|
| `send` (1197 states) | `TypeOK`, `VerdictPrecedesEOF`, `FailFast`, `VerdictIsIoctls`, `ImplementsTransfer`, `SenderEnds` | hold |
| `receive` (3114) | `TypeOK`, `WriteErrorHasVerdict`, `SendsNeverBlock`, `ShortOnlyIfShort`, `ImplementsTransfer`, `WriteReturns`, `WaitReturns`, `ClosesEverything` | hold |
| `ioctl` (11400) | `TypeOK`, `KernelSeesName`, `GaveUpOnlyIfTooBig`, `ImplementsOneCall`, `CallReturns` | hold |
| `decoder` (310749) | `NoPanic`, `NestingKept`, `PairConfined` | hold |
| `decoder_typed` (124032) | `TypeOK`, `DepthBounded`, `Terminates` | hold |
| `codec` (1343114) | `ErrorsSurface`, `PairsTile`, `RoundTrip` | hold |
| `list` (5756) | `NothingMissed`, `ListedOnce`, `ListingEnds` | hold |
| `wrappers` (481262) | `TypeOK`, `NilMeansDone`, `ErrorsConfined`, `Served`, `PromoteReports` | hold |
| `trace` (33170) | `ReportsEnded`, `Complete`, `SignalsOnlyRepeat`, `TracerEnds` | hold |
| `send_retry` | `ImplementsTransfer` when ENOMEM may follow output | violated |
| `decoder_unknown` | `NestingKept` for struct destinations | violated |
| `destroy_snapshots` | `SnapshotsDestroyed` | violated |

What the violations mean:

- `send_retry`: the loop of `NvlistIoctl` repeats the call into the same pipe. It depends on the
  kernel answering ENOMEM after output, which the library cannot exclude; without
  that (`LateENOMEM = FALSE`) the property holds.
- `decoder_unknown`: a nested list without a field in the struct is not skipped.
- `destroy_snapshots`: `DestroySnapshots` (`wrappers.go:316`) issues `ZFS_IOC_CLONE`, whose handler refuses a request without
  an origin. Snapshots that exist and that nobody holds stay, and the caller gets an error.

### What the properties except

Other places where the code does less than its documentation or its own error paths suggest
are in the models, and the properties say exactly how far the promise goes. Without a named exception TLC
finds the property violated.

| Where | What happens | Exception |
|---|---|---|
| `wrappers.go:631` | `WaitAndClose` closes the write end only after the verdict; the kernel, given part of a stream, waits for its end | `Starved` in `WaitReturns` |
| `wrappers.go:660` | the goroutine waits for a begin record although `ReceiveOpts` has one: a long `Write` hangs, and the receive fails | `preset` in `WriteReturns`, `ShortOnlyIfShort` |
| `wrappers.go:574`, `decode.go:295` | `ErrorList` is a nil map: a reply with property errors makes the goroutine panic | `~Alive` in `WriteReturns`, `WaitReturns` |
| `ioctl.go:46` | the error of `stringToDelimitedBuf` is dropped: a name with a NUL is cut, one too long is empty | `Legal` in `KernelSeesName` |
| `wrappers.go:403` | the same in `Rename` | `Buffer` in `Wanted` |
| `decode.go:85`, `decode.go:95` | a byte or string may be read from one byte past its pair; it stays inside the data (`NoPanic`), because the size check counts the size field twice | `+ 1` in `PairConfined` |
| `encoder.go:256` | the error of a nested list is answered with `nil`, and the list has no end marker | `"nested"` in `ErrorsSurface`, `Faithful` |
| `encoder.go:169` | a nil pointer, at the top or in an array, gets no end marker | `"nil"` in `Faithful` |
| `encoder.go:237`, 260, 293 | a null byte ends a name or string, without terminator or error | `nul` in `Faithful` |
| `encoder.go:122` | an array of interfaces makes `Marshal` panic | outcome `"panic"`, of which no property speaks |
| `decode.go:269` | `Unmarshal` refuses an array of more than 65535 elements, `Marshal` one of 2^31 - 1 | `MaxElems` in `Faithful` |
| `decode.go`, no case for doubles | `Unmarshal` skips a float64 that `Marshal` wrote | `"double"` in `RoundTrip` |
| `wrappers.go:316` | `DestroySnapshots` issues `ZFS_IOC_CLONE` and is refused | `NotAsOffered` in `Served`; `SnapshotsDestroyed` |
| `wrappers.go:410` | `Destroy` does not use its argument `deferred` | `NotAsOffered` in `Served` |
| `wrappers.go:339` | `Rollback` passes its reply struct by value and always returns an empty target | `StringOf`, of which no property speaks for `Rollback` |
| `ioctl.go:57` | a wrapper whose handler acts and then answers ENOMEM can return an error for what was done | `"acted"` in `ErrorsConfined` |
| `wrappers.go:262`, 364 | `errList` is not looked at: a caller cannot tell whether some of the work was done | `"acted"` and `SetProp` in `ErrorsConfined` |
| `wrappers.go:222` | `PoolImport` panics on a config without `pool_guid` | `Refused` in `Undisturbed` |
| `wrappers.go:100` | the mode 666 is decimal: `Mknod` makes a regular file, which is then opened without an error | `node = "device"` in `Possible` |
| `trace/main.go:41` | the error of `Start` is dropped, and line 47 panics | `stop = "none"` in `HasReason` |
| `trace/main.go:143` | a signal's stop shifts the parity; from then on ioctls are printed at their entry | `signals = 0` in `ReportsEnded`, `Complete` |
| `trace/main.go:52` | on another thread `PtraceGetRegs` fails: the loop ends, and the program runs on unseen | `thread` in `Complete`, `SignalsOnlyRepeat`, `HasReason` |
| `trace/main.go:63` to 127 | an ioctl of another device, or one that failed, may not be printable: `main` panics | `"ioctl"` in `HasReason` |

The type invariants of `NvEncoder`, `DatasetList` and `Trace` are part of no run, but theorems.

### Bounds

- Streams: four (send) and five (receive) bytes against a pipe of two and three, reads of one or two and
  writes of up to three bytes, a begin record of two. So the pipe fills and empties, writes
  end before, at and after the end of the record, and the kernel blocks in mid-stream.
- Receive: callers that supply nothing, part of the record, all but the last byte, the whole stream, or two
  bytes more than the kernel takes, which overflow the pipe; with and without a record in `ReceiveOpts`.
- Ioctl: the code's buffer lengths; replies of 0 bytes, one above the first, one above the
  fourth, and one above the last length. Names of zero to three letters in a buffer of four, so that one just
  fits, one with a NUL inside and one a byte too long.
- Decoder: 64 bytes of data, room for three nested pairs; every size from -1 to 65 (`decoder`), or
  the sizes at which a check changes its answer (`decoder_typed`, which has five
  destinations); counts -1, 0, 1, 2 and one above the limit.
- Codec: up to three pairs in lists nested up to three deep, so that pairs come before, in and after
  nested lists and elements of arrays; values that end on and off an 8-byte boundary; a name one byte too
  long, arrays just beyond the limits of reader and writer, an unencodable value.
- Listing: three datasets with a gap between their places, any of them created and destroyed any number of
  times; one error the caller puts up with (`MaxErrors`), the code's own buffer lengths.
- Wrappers: two filesystems, one snapshot, two properties, so that one of them may be set and the other not; `Init`
  and every wrapper with each of its flags; two system calls per `NvlistIoctl` (`MaxTries`), so a retry happens and
  giving up too. The run `destroy_snapshots` has only the calls that lead to its case.
- Tracer: all programs of up to three system calls, up to two signals.

`CHECK_DEADLOCK` is off for the two streams, the decoder and the codec, which end; whether they end too
early is what their liveness properties say.

### Fairness

- Runnable goroutines run, so each of goroutine and caller is weakly fair in what it has begun.
- The kernel goes on while it can: it writes while the pipe has room and gets EPIPE when
  nobody can read (send), reads while there is data and answers when the stream is complete or
  ended (receive), answers every call (ioctl). Failures and ENOMEM are possible but never obliged.
- The user of a send stream calls `Read` again and again, as `io.Copy` does, and may `Close` at
  any time; the user of a receive stream writes what it has and then calls
  `WaitAndClose`.
- `Unmarshal` is sequential code.
- A listing goes on: its caller calls again and the kernel answers; whoever else changes datasets may do so
  or not.
- The traced program and the tracer run on; a signal is never obliged.

## Proofs

All for every value of the constants that the modules' assumptions allow. Every safety property
of a passing run is a theorem; its proof is an inductive invariant, one step per action, and the
refinements are shown step by step from the same invariant.

Two kinds of theorem stand in for liveness, which the prover does not reach. `*StepsBounded` give a natural number that
every step of an actor lowers and no step of another raises: the actor takes finitely many steps under any
schedule. `*NeverStuck` say that whenever somebody waits, one of those it depends on can take a step; the
conditions (`KernelCanRun`, `GoCanRun`, `CallerCanRun`, `WriteCanRun`) are the guards of the actions,
written out because `ENABLED` is out of reach as well. Together with the fairness above they are
the argument for the liveness properties; the last inference is left to TLC.

`SendStreamProofs`. `SendVerdictPrecedesEOF` and `SendVerdictIsIoctls` rest on `VerdictInv`,
which ties the write end, the place of the goroutine and the content of `errorChan` together:
the write end is open until the goroutine is past its send; from then on the channel holds
exactly `gerr` until someone latches it, and `isEOF` says that someone did. They and
`SendTypeCorrect` cover late ENOMEM. `SendFailFast` and `SendRefinement` assume
`~LateENOMEM`, without which `send_retry` refutes the refinement. They rest on `DataInv`: what
`Read` has returned, the peeked byte and the pipe's content are, in this order, one run of
positions up to `kpos`, and nothing is left of it when the verdict is latched. At io.EOF the reader has
then exactly the stream (`SendEOFMeansAll`).

What is left with late ENOMEM is `SendEOFMeansWhole`: at io.EOF the bytes delivered end with the whole stream. So the
defect that `send_retry` shows can put beginnings of the stream in front, and cannot lose or reorder anything of
the last execution. `SuffixInv` says that what was delivered, the peeked byte and the pipe, in this order, end with the
first `kpos` positions; a repeated ioctl sets `kpos` back. `SendNeverStuck` also covers
every kernel: in a call of `Send` or `Read` somebody can always go on, and between calls the goroutine
waits for the caller at most. `SendStepsBounded`: goroutine and kernel take no more than
`5 * (StreamLen + 1) + 3` steps, five being the buffer lengths of the retry loop.

`ReceiveStreamProofs`. `RecordInv` gives the content of `beginRecordChan` in every state (the
record, then the empty one, of which the goroutine takes the first); from it follow
`ReceiveSendsNeverBlock` and `ReceiveShortOnlyIfShort`. `VerdictInv` says where the verdict
is, and that only a goroutine that has sent it closes the read end, hence
`ReceiveWriteErrorHasVerdict`. `DataInv` says that record, bytes consumed, pipe and the rest
of the `Write` in progress are, in this order, what was written; with `~LateENOMEM` it gives
`ReceiveRefinement` and `ReceiveSuccessMeansAll`. `ReceiveWriteNeverStuck` covers every kernel; its exceptions are
those of `WriteReturns` (`preset`, `~Alive`). `ReceiveWaitNeverStuck`, with the exceptions of `WaitReturns` (`Starved`,
`~Alive`), assumes `~LateENOMEM`, since a kernel that has taken bytes and is called again waits for
bytes that do not come. `ReceiveStepsBounded` is the bound for its goroutine and kernel.

`NvlistIoctlProofs`. The invariant says that the caller's `Cmd` stays as made until `Finish`,
that the copy the handler gets starts from it in every round, and that ENOMEM has one of its
two reasons: `IoctlTypeCorrect`, `IoctlGaveUpOnlyIfTooBig`, `IoctlRefinement`. What a NUL-delimited
buffer gives back is `DelimitedHead`: the part before the first NUL. The place of the first
NUL is a least element (`LeastElement`, from the well-ordering of the naturals); with it
`DelimitedRoundTrip` holds for every buffer length and `IoctlKernelSeesName` for all names, legal
or not. `IoctlStepsBounded` counts the lengths still to try: a call takes at most twenty steps,
five of them system calls, whatever the kernel answers.

`NvDecoderProofs`. `ReaderInv` says that four bytes of data follow every open pair (from
`SizeInvalid`), so that one byte past the pair is still inside the data (`DecoderNoPanic`); `ConfinedInv`
that the pair's own reader stays between its ends (`DecoderPairConfined`); `StackInv` that each frame
was paid for with a pair of at least 17 bytes (`DecoderDepthBounded`); `AnyInv` that below a
`map[string]interface{}` all destinations are of that kind. `DecoderNestingKnown` says that for every destination
the frames agree with the lists the data has opened as long as no step is `OpenUnknown`, a nested list without a
field; so the step that `decoder_unknown` shows is the only cause. `DecoderNestingKept` is its consequence for
`map[string]interface{}`, which takes every list. `DecoderReadsInData`: for every destination no byte outside the data is
read. `DecoderStepsBounded`: each step moves the cursor on or lowers the rank of the place in
`readPairs` (`Work`). `DecoderTypeCorrect` needs more than types: that the counts of lists still to come
in the data and in the frames stay aligned from the top, also when a struct has no field for a list
(`FlatInv`, `AlignedInv`), or a count could become negative.

`NvCodecProofs`. `ErrorInv`: an error that no caller drops is on its way out or has come out
(`EncoderErrorsSurface`). `TileInv`: each pair ends where the next one, an end marker or the end
of the data is (`EncoderPairsTile`). `EncoderTypeCorrect` adds the types of the rest. `CodecRoundTrip` is about encoder and decoder together. Its invariant
says that there are places `pos` and nestings `nest`, one for each item of the value and one more,
such that item i lies from `pos[i]` to `pos[i + 1]` as the pair or end marker it is (`Layout`), that a
reader has the lists `nest[i]` open there, and that these end up as the lists
`writeNvPairs` has open (`Nest`). While the encoder works, each step appends to both; afterwards they are
fixed, and `ReadUpTo` says that the decoder is at the place, and in the nesting, of the first item it has
not met. `NextItem` is the heart: no zeros but an end marker's lie at an item's place, and the pair
there passes every check of `readPairs` (the size check, which wants four more bytes than the pair
has, because an end marker always follows). `CodecImpliesEncoder` carries the encoder's theorems over.

`DatasetListProofs`. `CursorInv`: what was listed ascends up to the caller's cursor, what stayed and lies
up to the cursor was listed, and the kernel starts from the cursor in every repeated call. Hence
`ListNothingMissed` and `ListListedOnce`. `ListTypeCorrect` follows from the same invariant. `ListStepsBounded` assumes
only that places in the directory have a bound `b`: the caller's remaining errors, the places
ahead of its cursor and the rest of the call in progress bound the steps of the listing, and what others create
or destroy meanwhile does not add to them.

`WrappersProofs`. `Between` is what a repeated system call starts from: the call has done nothing, or an execution of the
handler that then failed has done all of it, or, in `SetProp`, set some of the properties. `Whole` says what one more execution
makes of that and is shown wrapper by wrapper (`PoolWhole` to `ReadingWhole`): no error means that all of it is
done, an error that it changed nothing, and what the pool allows gets none. `LeftoversPartly` says that a handler that fails
stays within `Between`. `FileInv` ties `zfsHandle` to the node once `Init` has returned nil. Hence `WrappersTypeCorrect`,
`WrappersNilMeansDone`, `WrappersErrorsConfined`, `WrappersServed`, `WrappersPromoteReports`. `WrappersAssumption` says that
calls are calls of `Init` and the 25 wrappers and that `Create` and `Clone` get names of filesystems or snapshots.

`WrappersActOnce` is about the repeated system call alone: in one call the kernel's state changes at most once, except that
`SetProp` may set its properties one after the other. It follows from `Between`: once a call other than `SetProp` has
acted all of it is done, and another execution can only lead to the same state.

`TraceProofs`. `PhaseInv`: until a signal arrives, `exit` is true just when the program has left its
system call (`TraceReportsEnded`). `PrintedInv`: the program does not get past an ioctl unprinted, since
of its entry and its exit one is met with `exit` true, whatever the parity (`TraceComplete`).
`CountInv` counts a print that is still due against the ioctls entered and the signals
(`TraceSignalsOnlyRepeat`). `TracePanicExplained`: a tracer whose program has started and gets no signal, that stays on its
thread and meets only ioctls that can be printed, does not panic. `TraceStepsBounded` counts the stops the program can still make and
the steps of the loop for each. `TraceTypeCorrect` follows from the invariants.

Only model-checked: liveness (`SenderEnds`, `WriteReturns`, `WaitReturns`, `ClosesEverything`, `CallReturns`,
`Terminates`, `ListingEnds`, `TracerEnds`), which is outside the prover's reach. What is proved of them are the
bounds and the absence of mutual waiting described above; for the encoder, whose values are met field by field
without end in sight, there is no bound to prove. The definitions of these theorems hold on the
instances of the runs too, where TLC also shows that the `*CanRun` conditions are the `ENABLED` of their actions.

## What is abstracted

Payloads (bytes are positions), option structs and props, error texts, pointers and
`runtime.KeepAlive`, decoded values, reserved fields, the byte order. `NvlistIoctl` keeps `Name` and
`Cookie` of `Cmd`, `Wrappers` the fields the wrappers set. The decoder's integers are unbounded: on
32-bit platforms `decode.go:243` could overflow, which the model does not show. Pairs of 2 GiB and more, whose
Size wraps in its int32 (`encoder.go:142`), are left out of `NvEncoder` by `SizeAssumption`. Strings of one array are
alike in `NvEncoder`, and elements of arrays of pointers to scalars are not nil. `Wrappers` takes a reply as
decodable (`NvDecoder` has the others), and nobody but the calls and the holders of snapshots
changes the pool. Its handlers are modelled from what the code expects of them: the handler of `ZFS_IOC_SET_PROP` takes
the cookie for a `PropSource`, properties belong to the pool and not to a dataset, and only `SetProp` and `Clone` can leave
something behind when they fail.

## Not modelled

- Generated types and constants (`types*.go`, `ioctl/types.go` but for `Cmd`), which have no behaviour, the
  fuzzing entry point `fuzz.go`, which only calls `Unmarshal`, and `testhelper`.
- What the wrappers' replies say about datasets and pools, and what the tracer prints about an ioctl:
  formatting.
- Calling `WaitAndClose` twice, or `Write` after it: both panic in Go, and nothing in the repository says
  what they should do.
- `Init` while a call is running, or two calls at once: they share only `zfsHandle`, and nothing in the repository calls
  `Init` twice. So the reuse of a descriptor's number under a running call is not modelled either.
