# Rasterrocket: TLA+ models, model checking and proofs

Rasterrocket turns the pages of a PDF into bitmaps. Pages are rendered in parallel on a
pool of CPU threads, optionally with a GPU that decodes images and paints; what the
pages have in common (decoded images, parsed objects, GPU decoders, the recorder of device
work) is shared by every thread, and the finished pages go to a reader, to files or to a
document. This directory specifies those shared parts, checks the specifications with TLC
on small instances, and proves their main invariants with TLAPS for all instances.

The rendering itself (parsing, rasterising, decoding) is sequential and is not modelled.
What is modelled is what sequential tests do not reach: threads that meet on one entry of a
cache, a step that fails or panics half-way, a process that is killed while another uses its
files, a reader that stops, counters that must agree with what they count.

Contents: 1 inventory, 2 plan, 3 modules, 4 runs and bounds, 5 fairness, 6 proofs,
7 findings, 8 what is left out.

## 1. Inventory

Line numbers are those of the files under `src/`.

### 1.1 Device image cache (`crates/gpu/src/cache`)

| part | state | operations |
|---|---|---|
| VRAM tier, `mod.rs`, `eviction.rs` | `primary` (hash to image), `by_doc_obj` (object to hash), `used_bytes` | `lookup_by_id`, `lookup_by_hash_for_doc`, `insert`, `evict_to_fit`, `demote_to_host` |
| host tier, `host_tier.rs` | `entries`, `used_bytes`: pinned RAM | `lookup`, `insert`, `evict_to_fit` |
| promotion, `promotion.rs` | none | `promote_from_host`, `promote_from_disk` |
| disk tier, `disk_tier.rs` | entry files, the write queue, `in_flight`, `used_estimate` | `insert`, `lookup_into`, the writer thread, `evict_to_fit`, `drop` |

Render threads and prefetch workers call the cache with no lock around the calls. Each map is
sharded and locked for one access only, each counter is a relaxed atomic, and a call makes
five to twenty such accesses. The disk tier hands writes to one writer thread over a bounded
channel; processes that use the same directory know nothing of one another.

*Hard*: eviction, insertion, demotion and promotion of one hash interleaved; counters
updated apart from the maps; loops that other threads can keep busy; a kill in the middle of
a write. *Correct* means: no byte is charged or refunded twice, the budget is exceeded only
by what races allow, each call returns, no reader sees half a file, and no failed write costs
a queue slot.

### 1.2 Document image store and page memo (`crates/pdf_interp/src/renderer`)

`DocumentImages` (`document_images.rs`) holds under one mutex a slot for each image XObject:
seen on one page (with a weak reference to that page's decode), shared (with a `OnceLock` for the
one decode) or refused; and the bytes kept. Each page has an `ImageMemo`
(`page/image_memo.rs`) with a budget of its own. The Do operator (`page/xobject.rs`) asks the
memo, then the store.

*Hard*: the decode happens outside the mutex, while other pages wait in the cell or adopt
another decode; a decode panics with pages waiting; a decode that must stay with its page
(curtailed, or in device memory) or that serves only some draw sizes. *Correct* means: the byte
count is that of what is kept and within the budget, one page decodes for a cell, nothing kept
is decoded again where it serves, no page waits for ever.

### 1.3 GPU decoders of a thread (`crates/pdf_raster/src/{gpu_init,decoders,render}.rs`)

A thread-local slot per decoder: uninitialised, failed, ready, or ready and away. A page takes
the decoders its policy wants into its renderer, and a guard puts them back on every way out;
construction is serialised by one process-wide lock. *Hard*: a lend that fails after some
decoders have been taken, pages of different policies on one thread, a panic under the lock.
*Correct* means: what was lent can be returned, a failed construction is not retried, every
page gives its thread back.

### 1.4 From a document to its readers (`crates/pdf_raster/src`, `crates/cli/src`)

| part | state | operations | what is hard |
|---|---|---|---|
| page iterator and render channel, `batch.rs` | cursor, open session, bounded channel, cancel token | `render_channel`, its producer task, `PageIter::next`, drop | readers that stop or are slow, a panic outside a page, cancellation with pages in the channel, producers that block the threads of a shared pool |
| session, `open.rs` | decode queue, image cache, prefetcher | `open_session`, drop in the order of the fields | threads that are joined while they wait for one another |
| JPEG decode queue, `gpu/src/decode_queue.rs` | request channel, one worker, a reply channel for each request | `new`, `handle`, `decode`, drop | a worker that panics with requests queued, a drop before the handles are gone |
| prefetcher, `pdf_interp/src/cache/prefetch.rs` | discovery thread, workers at one locked receiver, cancel flag | `spawn_prefetch`, drop | cancellation while a worker waits under the lock; a thread that cannot be spawned |
| page loop, `cli/src/{main,render,print,fax}.rs` | `document_failed`, errors, pages collected, spool, page files, exit status | render a page, add or write it, write a window, deliver | pages finish in any order and some fail; a document is delivered whole or not at all |

*Correct* means: a reader gets each page once, in order, and an end that means the session is
gone; opening and dropping a session end; the program reports success only with all of its
output made.

### 1.5 Objects of a document (`crates/pdf/src`)

`Document::get_object_at` keeps parsed objects under a mutex that it does not hold while it parses;
a stream's filter is inlined as the stream is parsed, and may itself be stored in an object
stream, up to eight deep. Opened object streams have a cache of their own (`objstm.rs`), and
values that upper layers derive from an object are made once, in a `OnceLock` (`derived.rs`).
*Hard*: racing parses at different depths, cycles through filters, derivations that nest or
panic. *Correct* means: what the caches give is what a parse gives, except where the nesting limit
cuts a chain of containers, and the harm stays there; a value is derived once, and every request
ends.

### 1.6 Device work of the Vulkan backend (`crates/gpu/src/backend`)

A page of device work is begun, recorded, submitted and waited for (`recorder.rs`); a guard
abandons it when a step fails (`mod.rs`, `run_page_steps`). Copies to and from device buffers
are made in place when the recorder is quiescent, on an integrated GPU, and else through staging
buffers (`transfer.rs`). `aa_fill.rs` lends scratch buffers to fills. *Hard*: a failure between
the recording and the end of the wait, with the device still at work; three locks; timeline
values taken and never signalled. *Correct* means: nothing the device uses is touched, reset or
lent, and every fill and copy returns.

### 1.7 The other parts

The parser, the content interpreter, the rasteriser, colour, codecs and fonts are sequential;
their inputs are far beyond small instances. `PROJECT.json` lists them with the reason.

### 1.8 How they meet

    cli page loop / render_channel / PageIter --> page render (pool thread)
      |  files, fax, spool                       |-- lends GPU decoders  (thread-local slots)
      v                                          |-- decode queue handle --> queue worker
    readers                                      |-- get_object, derived --> document caches
                                                 |-- Do operator --> ImageMemo --> DocumentImages
    session: opens and drops                     |                        |  decode
      decode queue, image cache, prefetcher      |                        v
                   |                             |               dct.rs --> GpuImageCache
                   |                             v                          VRAM <-> host RAM <- disk
                   |                        page recorder                             |
                   '------ prefetcher -----------------------^       writer thread --> files

`DeviceImageCache` has the disk tier as a set of files with a queue in front of it (`DiskWrite`,
`DiskEvict`); `DiskTier` has the steps behind those two actions. `DocumentImages` has a decode
as one step with any of the results the decoder may give, among them a device-resident one,
which is what the cache returns. `RenderSession` extends `DecodeQueue` and `Prefetch` and adds
the session that starts and joins their threads. `RenderChannel` has a page as one step of a pool
thread (two with deskew), and implements `PageDelivery`.

## 2. Plan

The order follows what is shared most and tested least.

| step | modules | status |
|---|---|---|
| 1 | `DeviceImageCache`: VRAM and host tiers, promotion | modelled, proved |
| 2 | `DocumentImages`: store, memo, Do operator | modelled, proved |
| 3 | `DecoderLend`: slots, lend, reclaim, release | modelled, proved |
| 4 | `DiskTier`: queue, writer, eviction, processes | modelled, proved |
| 5 | `PageDelivery`, `RenderChannel`: what a reader is promised and the producers that keep it | modelled, refinement proved |
| 6 | `DecodeQueue`, `Prefetch`, `RenderSession`: the threads of a session | modelled, proved |
| 7 | `DocumentOutput`: page loop, collection, delivery | modelled, proved |
| 8 | `DocumentObjects`: object cache, nested filters, derived values | modelled, proved |
| 9 | `PageRecorder`: pages, copies and scratches of the Vulkan backend | modelled, proved |
| 10 | proofs about `DocumentObjects` and `DocumentOutput`, and of `EstimateCovers` | done: every safety property a run checks is a theorem |
| 11 | `DiskTier` implements the disk as `DeviceImageCache` sees it; the CUDA recorder | later |

A run asks every question of its instance that the instance is large enough for.

## 3. Modules

| module | what it is |
|---|---|
| `Totals`, `TotalsTheorems` | the sum of a weight over a finite set as a cardinality, and its laws, proved |
| `DeviceImageCache` | the cache of 1.1 as its threads run it |
| `DocumentImages` | the store and memo of 1.2 |
| `DecoderLend` | the slots of 1.3 |
| `DiskTier` | the disk tier of 1.1, processes and system calls |
| `PageDelivery` | what the readers of 1.4 are promised: the abstract specification |
| `RenderChannel` | the iterator, the channel and the pool of 1.4 |
| `DecodeQueue`, `Prefetch` | the two thread groups of a session |
| `RenderSession` | the session: it extends the two and starts and joins them |
| `RenderPool` | the threads that `DocumentOutput` and `DocumentObjects` are about |
| `DocumentOutput` | the page loop of 1.4 and its outputs |
| `DocumentObjects` | the caches of 1.5 |
| `PageRecorder` | the device work of 1.6 |
| `MC*` | constants for TLC, and the sessions or documents an instance is of |
| `DeviceImageCacheProofs`, `DocumentImagesProofs`, `DiskTierProofs`, `RenderChannelProofs`, `PageRecorderProofs` | theorems about the module of that name |
| `RenderSessionProofs` | theorems about `RenderSession` and about `DecoderLend` |
| `DocumentProofs` | theorems about `DocumentOutput` and about `DocumentObjects` |

Next to a step, a module also defines mistakes that could be made in it (`RemoveRefundsAnyway`
next to `Remove`). They are not part of the specification: each is listed in `PROJECT.json`
under `mutants` with the property that fails when it takes the step's place.

### DeviceImageCache

One action is one access to a shared map or counter, taken by a thread whose place in the code
is `pc[t]`. The locals of the calls are variables indexed by thread: the stage of the DCT path
(`lookup_by_id`, then by hash, then decode and `insert`), the victim of an eviction, the
iterations left to its loop.

| actions | code |
|---|---|
| `Request`, `Probe`, `Decode`, `Miss`, `Hit` | `dct.rs` 361-494, `mod.rs` lookups and `insert` |
| `InsertInstall` | the entry transition of `insert`, `mod.rs` 527-586, with the queueing of the disk write |
| `Check`, `Pick`, `Remove`, `Subtract`, `Demote` | `eviction.rs`: room check, LRU scan, removal, `fetch_sub`, demotion |
| `HostReplace` ... `HostPut` | `HostTier::insert` and its `evict_to_fit`, `host_tier.rs` |
| `HostLookup`, `PromoteInstall`, `DiskLookup` | `promotion.rs` |
| `Release` | the caller drops its `Arc`: `strong_count` is `pins` and `hostPins` |

The scan for a victim visits the map shard after shard, so it can find nothing although an entry is
unpinned, if other threads run meanwhile (`FindsNone`). A decode may be refused before any room
is made, or be too large for the budget (`Insertable`, `mod.rs` 498-529).

The LRU clock is abstracted to "any unpinned entry": every order the clock can give is included.
A removed entry's outstanding `Arc`s are forgotten, since no code of the cache looks at them again.

### DocumentImages

A critical section of the mutex, or one decode, is one action: `Lookup` (with `AdoptOffer`),
`DecodeOnPage`, `Resolve` (entry to `get_or_init`), `Make`, `Settle`, `SettleLocal`, `Take`. A
page that finds the cell being made is disabled at `Resolve`, which is the wait. `Panic` drops
the page and, from inside the cell, leaves it empty, as `OnceLock` does. The weak reference to
a page's decode is `offered`, withdrawn in the step that drops or replaces the memo entry.

### DecoderLend

`Lend` is one `ensure_*` and take; `Lock` and `Build` the construction under
`DECODER_INIT_LOCK`; `Reclaim` the guard; `Release` the broadcast between documents. `Wants`,
`Forces` and `PrefersVulkan` translate the policy tests of `decoders.rs`.

### DiskTier

An action is a system call or an access to the channel or a counter. A process (`Procs`) has
render threads and a writer; `End` (after `drop`, or a kill) leaves only the files, and
`Start` begins again with the same pid. A file under a name is absent, partial, whole or bad (a
foreign or outdated format). `CountsNothing` is the `unwrap_or(0)` of line 897: with
`ReadErrors`, sizing a directory may fail at any call, for any reason, and the directory then counts as
empty with its files still there. Three variables are not in the code but record its history, for
`EstimateCovers`: `mine`, which files in place are the process's own; `unread`, the directories a pass met
an error in; and `missed`, the own entries in those when the pass replaced the counter.

The saturation test of `insert`, its increment and its `try_send` are three steps, so that several
threads may pass the test together.

### PageDelivery and RenderChannel

`PageDelivery` has two variables, what each reader has received and which readers have seen the
end. `RenderChannel` maps to it by `received` and `reader`: everything between a page and its reader (the task,
the pool, the session, the channel, the token) is the implementation's. A busy pool thread is a
stack of frames. `StealPart` gives a part of a page's deskew to another thread, which may itself
be waiting inside such a loop, and `TakeFromQueue` starts a task on a thread that is idle or
waits so; the frame below goes on only when the one above has ended. What rayon does by itself is
external. `After` gives the readers: a job is read when those of its `After` that were called are done with, so one thread may
read several jobs, and may have called them in any order.

| actions | code |
|---|---|
| `CallInvalid`, `Call` | `render_channel` and its check of the options, `batch.rs` 318-341 |
| `Open`, `StartPage`, `FinishPage`, `Send`, `NoMorePages`, `DropSession`, `SendAbort`, `Close` | `render_channel_worker` 264-299; the token is read at the start of a page and by its operators (`render.rs` 176, 222) |
| `YieldPage`, `YieldError`, `Exhaust` | `PageIter::next` 169-189 |
| `Unwind` | a panic outside a page |
| `Raise`, `DropReader`, `Receive`, `SeeEnd` | the program that reads |

### DecodeQueue, Prefetch, RenderSession

One action is one operation on a channel, a lock, the flag or a thread. Dropping the queue's
sender and joining its worker are two actions, as are setting the cancel flag and joining the
prefetcher: the drop stands between them while others run. A worker that waits in `recv` holds
the receiver's lock (`Acquire`, `TakeJob`, `SeeClosed`). The channel of the prefetcher is closed
when its walk has ended, or when `spawn_threads` returned with an error.

### DocumentOutput

`Render(t)` is `render_one` on a pool thread: test of the flag, render, then a page or each of its
two halves added to the sink or written to a file, with a failure possible at every step. The
flag is relaxed, so a thread may go on although it is set. `Main` is what follows the join of the
threads: the window written to the spool, the next window, and the delivery or the report.

### DocumentObjects

A thread is a stack of calls (`get_object_at`, the read of a filter, `get_or_derive`), the innermost
first, and an action is what runs between two accesses to a cache. A document is a map from an
object stream to the one that holds its filter: chains and cycles of any length are such maps, those
longer than the nesting limit among them. The value of an object is "whole", "wrong" (read from a container
that was wrongly decoded), "missing", or, of a stream whose filter could not be inlined, "raw".

What a raw stream decodes to depends on which of its entries is the reference. A `/Filter` that is one is an
error (`stream.rs` 850-861), and nothing is kept. A `/DecodeParms` that is one is passed over (863-873):
the stream is decoded without its predictor, and as a container it is then kept in that form for good
(`objstm.rs` 136-142). `Parms` are the streams of the second sort; `Decodes` and `Found` say what comes of
them. `Uses` says which derived value needs which; the code's derivations (transfer function, then function)
go one way.

What an answer may be is stated apart from the steps, over the document alone: `MayBe`. It says which streams
an object needs (`Within`), which chains the limit reaches the end of (`CutAt`), and which containers are
stored in one another (`Endless`).

### PageRecorder

One action is what a thread does between two lock operations or waits. `page` is the backend's page lock,
`inner` the recorder's, `staging`, `cmdPool` and `queue` the others. `Complete` is
the device: it completes submissions in order, and a page signals its timeline value. Every
fallible call may fail (`Fail`), up to `MaxFailures` times in a behaviour. `lost` records that a
wait itself failed where the code has no other to follow (`abort_page`, `submit_and_wait_idle`), after which the
driver is in an error state and nothing is claimed.

## 4. Runs

Every run that is expected to pass explores all reachable states of its instance.

| run | instance | question |
|---|---|---|
| `image_cache_tiers` | two threads, images of 1 and 2 bytes, VRAM and host budget 2, no disk | accounting of the VRAM tier, the overshoot |
| `image_cache_returns` | two sessions: the same images with tighter bounds; one image that comes back from the disk | every request returns, the host counter covers what is held, also when promotion from disk, demotion and re-insertion meet |
| `document_images` | two pages and two documents: images of 1 and 2 bytes, or one JPEG 2000 image at two draw sizes; a store of 2, every decode result, a panic | bytes, budget, one maker, no second decode, no page waits for ever |
| `decoder_lend_pages` | two threads, a Vulkan Huffman and an nvJPEG decoder, four policies | lend and return, remembered failures, progress through the lock |
| `disk_tier_alone` | one process, two render threads, queue of 2, two documents, budget 2, failing reads | both counters, no temporary file left, `drop` returns |
| `disk_tier_shared` | two processes, one of them killed at any step, one entry, a bad file at the start, failing reads | no torn entry; the estimate while another process deletes |
| `render_channel` | a pool of two; two channel jobs of two and one page, the first with deskew, and an iterator with deskew, called in any order and drained in turn by one reader; errors, panics, one token | the deliveries implement `PageDelivery`, the session is gone at the end, no page after the token, every job ends unless its reader holds up the pool |
| `render_session` | two renderers on the queue; two prefetch workers, four images in five references, a cap of two | shutdown and its parts |
| `page_recorder` | two threads that fill, one of them twice, an upload and a download, two failures, both kinds of device | host access, pools, scratches, everyone comes back |
| `document_output` | two threads, five pages, two spreads, three outputs | a document whole or not at all, success, windows |
| `document_objects` | two threads, five streams, three documents (a chain the limit cuts, with a stream beside it; a shared container; a cycle with a stream leading to it), `/DecodeParms` and `/Filter` references, a nesting limit of 2, a panic | the limit's damage is confined, one maker, every request ends |
| `decoder_lend_populated_claim` | one thread, one decoder, two policies | the finding of section 7; TLC finds the claim violated |

The type invariants are checked in these runs too: by name in two, and as a conjunct of
`InFlightExact`, `ScratchesLentOnce`, `PagesAccountedFor`, `DerivedOnce` and `NothingLeftRunning` in the modules
that have them. All of them are proved.

### Bounds and why they are enough

* Two threads are enough for every race on an entry or a counter in the cache: each
  step touches one map or counter, and the invariants are sums over threads. The proofs remove
  this bound.
* Sizes 1 and 2 with a budget of 2 make one image fill the tier and the other half of it, so
  that one insert must evict none, one or two entries.
* `MCDeviceImageCache` and `MCDocumentImages` have a variable `drawn`, the session or document
  of a behaviour, fixed by its first state. In a session with two images the disk writer does not
  run; in the other the one image goes through every tier.
* `IterSlack` is 4 as in the code, and 1 in `image_cache_returns`, to keep the eviction loop's
  iterations few. The proofs hold for any value.
* `DriftCap` stops new requests when `hostUsed` is above it, for the host counter may drift
  (section 7) and would grow for ever. It is 3 in `image_cache_tiers`, one more than the host
  budget: requests go on with the tier full and with the counter drifted. It is 1 in `image_cache_returns`, where host evictions
  happen only through threads that were under way. `PinCap` limits the images a thread holds as
  it asks for another: with 0 a thread may hold one at a time, but still holds it while others
  evict around it. Both only guard `Request`; the theorems hold for any value of them.
* The image cache runs turn deadlock checking off: a state in which the counter has passed
  `DriftCap` and every thread is idle is an end of the bounded instance. `RequestReturns` covers
  what a deadlock of the real system would be. The runs of the channel, the session and the
  recorder end when their work is done; a liveness property of each covers a deadlock. The output ends too:
  every step of it is a pool thread's own or main's after the join, and none waits for another.
* `MaxPanics` is 1 in the image and object runs: a page that waits takes over after the panic of the maker.
* `EstimateCap` stops new disk inserts when `used_estimate` has passed it, which bounds that counter; it is not
  below the budget, so that evictions happen. The queue is one or two deep (64 in the code).
* The shared disk run has one entry because its questions are about processes that meet on a
  file. Documents and sizes matter to what a pass adds up, which `disk_tier_alone` explores. `EstimateCovers` is
  checked in both: in the first with reads that fail, in the second with directories that vanish under a scan
  and writers that are killed. The theorem has all of it at once.
* A channel of capacity one and a job of two pages make the producer block; asked capacity 0 is the code's
  own edge. Three jobs on two threads make one wait in the queue. One reader for the three has the
  states of section 7 in which it holds up the pool, of both kinds (`Burying`, `Starving`). The proofs remove these bounds.
* `MaxImages` 2 of three JPEGs lets the walk stop at its cap, a repeated reference at the first
  image, and a queue of two.
* `Rounds` (two fills for one thread, one for the others) lets a scratch be lent again, a page follow a
  failed page, and a copy meet both. Two failures are a failed step and a failed wait on it. There is one more
  name for scratches than threads that fill; the proofs need no more than as many.
* Five pages on two threads are two full windows of the print loop and a short one; the spreads lie
  in different windows.
* A nesting limit of 2 with five streams has a chain that is cut, something next to it that is not, and a
  cycle that must be cut. The code's limit is 8; the proof has any.

## 5. Fairness

Only weak fairness is assumed, of threads that have work in hand, and of the device:

* cache: `WF(Step(t))`. The calls take no lock they could wait on for long (a shard is locked
  for one access), so a thread that runs takes its next step. No fairness for `Request`, `Release` or
  the disk writer: nobody promises to make room.
* document images: `WF(Work(p))`. A page that waits at a cell has no enabled step, so nothing is
  assumed about it until the cell is set or empty again. Decodes terminate.
* decoders: `WF(Work(t))`, and `PageEnds` is claimed only of behaviours in which constructors stop
  panicking. The mutex is not fair, so a waiting thread may be passed by others;
  it is served because each slot is built once and the others run out of reasons to lock. A
  constructor that panics for ever could pass it for ever.
* disk tier: `WF(WriterStep(p))`. The writer waits only on its channel.
* render channel: `WF` of each job's own steps, of the pool's taking of queued work, and of each
  reader that reads. Nobody has to raise a token, drop a reader, or steal a part; a
  reader that stops without dropping its end is not fair, and its producer waits for it. A reader that reads
  another job owes this one nothing until that is done: `EveryJobEnds` says what may come of it.
* session: `WF` of the owner that opens and drops it, of every thread, and of a renderer's wait for its reply.
  Decodes end. Nobody has to close the session or ask for a decode.
* page recorder: `WF` of each thread and of the device. The locks are not fair;
  a thread is served because each other thread starts a bounded number of fills and copies.
* document objects: `WF(Step(t))` of a thread inside a request. Waiting for a cell has no enabled step.

## 6. Proofs

TLAPS checks every theorem to the last leaf; nothing is assumed but the named `ASSUME`s on the
constants (finite sets of threads, hashes and keys; sizes and budgets are natural numbers; at least as
many names for scratches as fillers), which TLC evaluates in the runs. `DecoderLend` and
`DocumentObjects` call their specifications `LendingSpec` and `ObjectsSpec`, as each shares the module of its
proofs with another component. All hold for any number of
threads, processes, images, pages and decoders, any documents and budgets, and any number of failures and kills.

| theorem (module) | says |
|---|---|
| `TypeCorrect`, `VramAccountingHolds` (`DeviceImageCacheProofs`) | the VRAM counter is at every step the bytes indexed plus those removed and not yet subtracted, and never underflows |
| `OvershootBoundedHolds` | the VRAM tier never holds more than one budget for each thread |
| `HostNeverUndercountsHolds` | the host counter is never below what its index holds and what threads are about to add or subtract |
| `BytesMatchKeptHolds`, `BudgetRespectedHolds` (`DocumentImagesProofs`) | the store's byte count is exact and within its budget |
| `OneMakerHolds`, `KeptNeverRedecodedHolds` | one page at a time makes an image for the store; what is kept is not decoded again where it serves |
| `LentIsReturnableHolds`, `FailureRememberedHolds` (`RenderSessionProofs`) | lent decoders can be given back; a failed construction is forgotten only by the release of an idle pool |
| `KeepsPromiseHolds` (`RenderChannelProofs`) | the channel and the iterator implement `PageDelivery` |
| `EndMeansSessionGoneHolds`, `NoPageAfterRaiseHolds` | a reader that has seen the end can rely on the session being gone; no page begun after the token was raised is delivered as rendered |
| `InFlightExactHolds` (`DiskTierProofs`) | every queue slot is a write queued, in the writer's hand, or about to be sent or given up |
| `NoEntryTornHolds`, `NoTempLeftHolds` | no reader opens half an entry, with any number of processes killed at any step; no error path leaves its temporary file |
| `EstimateCoversHolds` | the estimate of a process covers what it has written, but for what lies in directories its last pass could not read; with any number of processes, killed at any step |
| `OneJobPerImageHolds`, `CancelIsPromptHolds` (`RenderSessionProofs`) | the prefetcher sends an image once and within its cap; a worker begins at most one decode after the flag |
| `NothingLeftRunningHolds` | a session that is gone left no thread and no request |
| `HostAccessAloneHolds`, `PoolsQuietHolds` (`PageRecorderProofs`) | the host touches nothing the device uses, and resets no pool with work in flight, also when pages fail or unwind |
| `ScratchesLentOnceHolds` | a scratch is lent to one fill, and there are no more of them than fillers |
| `WholeOrNothingHolds`, `SuccessMeansEverythingHolds` (`DocumentProofs`) | a document handed on has every page and half, once and in order; success is reported only with everything made |
| `PagesAccountedForHolds`, `OneWindowHeldHolds` | of page files each page is complete or reported; the print loop holds one window |
| `DamageIsConfinedHolds`, `DerivedOnceHolds` | what the object caches answer is whole unless it needs a container where the nesting limit cuts a chain, and never wrong but through unread parameters; a derived value has one maker, named by its cell |

Each follows from an inductive invariant `IInv`:

* **Cache.** `TierTypes`, `CallTypes`, `VramAccounting`, `AdmittedFit`, `OvershootBounded` and
  `HostNeverUndercounts`. Types come first, but that the counters do not underflow is a consequence of
  the accounting and not provable before it; hence `used \in Int` in `TierTypes`.
  The accounting is preserved because each action moves at most one thread in or out of `At("sub")`,
  whose weights (the victim's size) change for no one else. The overshoot needs `AdmittedFit`: a
  thread at its install has an image that fits the budget alone. The step that adds a thread to
  `At("install")` knows `used + Size <= VramBudget`, but says nothing of the other threads there; each of those weighs at most
  one budget, which gives the bound of one budget a thread.
* **Document images.** `CellOfPage`, `SlotOfPage`, `Unshared` and `OneMaker` say which slot and
  cell states go with a page's place in the code, and `BytesMatchKept` and `BudgetRespected` follow from them. The
  count is exact because a cell enters the kept set at exactly one step: adoption, or the settle
  of its only maker.
* **Decoders.** `BuildsUnbuilt` (a thread that waits for the lock or builds is at a slot never built) and
  `IdleHoldsNothing`, with `LentIsReturnable` itself.
* **Render channel.** What a job has delivered, has in its channel and has in hand is the prefix
  of its selection that the cursor has given out, `next` long, with a last item at most once
  and nothing after it; each producer's phase says which of the three parts its page is in, and
  that the session is open exactly between `Open` and `DropSession`. Receiving moves an item from one part to
  another, which is `Page` or `GiveUp` of `PageDelivery`; every other step is a stutter, but
  `SeeEnd`, which is `End`, since the channel of an ended job is drained. Lemmas about the sequences
  come first and know nothing of the program.
* **Disk tier.** `in_flight` is exact because a slot moves between four places (a sender, the queue, the
  writer's hand, free) and each action moves one; the senders are counted as a finite set of threads. While
  a pass evicts, `used` is at least the total of the documents it has found, so the subtraction of
  `evict_to_fit` does not underflow; this needs the pass to be the only one to subtract. No entry is
  torn because what the writer renames it has filled: a kill leaves the half under its temporary name.
  `EstimateCovers` is the delicate one: the pass replaces the counter by what it
  found on the disk. What it is to cover is `Readable` while a pass sizes directories (the own entries in
  directories it met no error in), and `Kept`, all but what `missed` records, from then on. `CoverInv` says that
  what the process wrote lies in directories the scan found (`AllFound`), a listing has all of it and keeps it
  (`ListingComplete`), a directory that has been sized was found to hold at least that (`SizesCover`), and while
  the pass evicts the counter is at least the sizes of the directories still to go and the entries in the others
  (`UsedCovers`): a directory that goes takes its size and its entries, one that stays leaves both. That the sizes
  of directories cover the entries is `TotalGrouped`, an injection of cells and not an induction. Another process
  can only make the set to be covered smaller (`LossCovers`): what it deletes or replaces leaves `mine`.
* **Session.** A request of a blocked renderer is in the channel, in the worker's hand or answered, and
  in one place only (`QueueInv`); what the walk has sent is distinct and among what it has seen (`WalkInv`); a worker
  that has begun a decode since the flag is in it or past it (`WorkerInv`); the stages of the session's drop say
  which of its threads have ended (`StageInv`).
* **Page recorder.** Each lock is held by the one thread between its lock and its unlock (`LocksInv`,
  from one lemma about keeping, taking and giving back a lock). The recorder's state is that of the page's
  thread (`StateInv`). While no wait was lost, a page in flight is the only one, the one submitted last, and its
  value is above the timeline; a copy in flight is its copier's at `copying` (`DeviceInv`). So a state
  other than Submitted, or a timeline at the last value, means that no page is in flight, which is what every path out of a page
  and `with_quiescent` establish before they let go.

* **Output.** A page of the window waits, is on one thread or is done with (`PagesInv`); what is done with, in a
  document no page of which has failed, is in the sink, once (`HeldInv`) or already in the spool
  (`SpoolInv`). The sink is sorted when its window is joined, and sorting keeps its elements: the order of a
  finite set of distinct pages exists, which is an induction on its length by least counterexample.
  Windows follow one another, so the spool stays ascending. A flag raised by one thread late is no danger:
  it only makes others skip, and a document with a skipped page has an error (`FailInv`).
* **Objects.** For `DerivedOnce`: the thread a cell names has, in its stack, one call past `enter` for it, and no
  other thread has one (`MakersInv`). For `DamageIsConfined`: each cache holds for an object only what the
  document lets it be (`CacheInv`, `OpenedInv`, `CellInv`), and a stack is sound (`CallsOK`): each call waits for
  the one above it, a value on its way up is one that the object asked for may be, and a call at depth d is for a
  stream that a chain of d containers leads to (`FrameOK`). So where a thread meets the limit, the
  document has a chain that the limit cuts (`LimitCuts`), and that is all the proof has to know of who
  asked first. What needs a cut container may be damaged too, since the sets that are closed under need
  (`Within`) of the one are those of the other.

`TotalsTheorems` proves the laws of sums the first two need, from the library's theorems about
finite sets: adding, removing, replacing, bounding and grouping elements. Its `LeastNumber` gives
induction in the form the provers can use, a least counterexample: it serves facts about numbers and
lengths. What a recursive definition computes for every input stays out of reach; chains and needs of
containers are therefore stated by paths and closed sets (`Reached`, `Within`).

Only model-checked: liveness (`RequestReturns`, `WaitingPageServed`, `PageEnds`, `DropReturns`,
`EveryJobEnds`, `EveryRequestAnswered`, `SessionGetsThrough`, `EveryoneComesBack`,
`EveryRequestEnds`), which is beyond what TLAPS can do under fairness.

## 7. Findings

One statement of the repository is shown by a run not to hold of the code.

`decoders.rs` 216-217: pages after the guard "still find their decoder slots populated". A page
that was lent nothing (`CpuOnly`) also reclaims, and writes `None` over a slot that is ready.
The thread has no decoder from then on, and the page that wants one runs without it.

Remarks met while modelling, without a run:

* `host_tier.rs` 216-217, on `used_bytes`: "tracks **bytes managed by this tier's index**". Two threads that demote the
  same hash each pass the removal (231) before either puts its entry (238); the second put
  replaces the first without subtracting it. The counter stays too high for good. The
  direction that matters for memory is `HostNeverUndercounts`.
* `main.rs` 301-302: `release_gpu_decoders` drops the decoders "on every worker thread". The CUDA
  Huffman decoder (`JPEG_CUDA_DEC`) has no release.
* `disk_tier.rs` 457-459: an error during the scan makes the pass return early. An
  error inside a directory instead counts it as empty (897), and the estimate is then too low by what lies in it:
  a file that vanishes between its listing and its sizing is enough, and so is any failing read.
  `EstimateCovers` says that it is too low by no more.
* `document.rs` 458: "The cache is just a memo of immutable parses". A stream that was first reached
  at the nesting limit is cached with its filter unresolved, and is served so to a caller at
  depth 0, for whom a parse would resolve it. It takes a chain of more than eight object streams
  whose filters are stored in one another. The run has such a chain; `DamageIsConfined` says what remains
  true with it.
* `stream.rs` 846-849 makes an unresolved `/Filter` an error, as decoding without it "would hand on
  encoded bytes as decoded ones". An unresolved `/DecodeParms` does just that: it is passed over, the stream is decoded
  without its predictor, and as an object stream it is kept so for good (`objstm.rs` 136-142).
* A thread that waits for a stolen part of a deskew may start another document's producer and
  block in its `send`. A reader that drains the deskewing job's channel first, and the other one
  next, then waits for ever; so does one that leaves a channel unread while it reads another on a
  pool of one thread, or of no more threads than such channels. Both are in the run, and `EveryJobEnds` excepts
  them by name (`HoldsUpPool`). `lib.rs` 60-64 warns of readers inside the pool only.
* `batch.rs` 198-200: the release profile aborts on a panic. What is said of panics here holds of the
  unwinding builds.
* `budget.rs` 21 calls the VRAM budget the "Maximum bytes the cache is allowed to hold on the
  device". The check (`eviction.rs` 76-82) and the addition (`mod.rs` 556) are apart, so the tier
  may exceed it; `OvershootBounded` says by how much.
* `mod.rs` 490-491 and `eviction.rs` 64-65 say eviction fails when every entry is pinned. It also
  fails when the index is empty for the moment because another thread is between its removal and its
  `fetch_sub`.
* `host_tier.rs` 270-275 bounds the overshoot by promotions in flight. An entry larger than the
  whole budget overshoots too.
* `image_memo.rs` 31-32: an image the store also holds counts nothing in the memo. A page that waited
  for the cell can read the slot as shared before `settle` refuses it; its entry then counts
  nothing although only the memo holds it.
* `disk_tier.rs` 170-176 has `in_flight` decremented as the writer pulls a write. The code
  decrements it after the write, so the write in hand counts too (`InFlightExact`).
* `report_bad_entry` (`disk_tier.rs` 663-669) removes what is at the path when it runs, which may
  be a good file renamed into place after the bad one was read.

## 8. What is left out

* Bytes, pixels, headers and hashing: a hash is a value, two images with one hash are one.
* CUDA streams: a copy ordered on a stream is complete when the next access sees it.
* The memory orderings: relaxed atomics are modelled as interleaved read-modify-writes. Each
  counter is one location, every update is a read-modify-write, and no decision reads two of them
  together, so no weaker outcome exists for what is claimed here.
* Allocation failures other than those the code turns into an error value.
* Inline images and form XObjects in the page memo; two renders of one page at a time.
* `unlink` of a single file is taken to succeed; removing a directory may fail half-way.
* Malformed documents in which two objects share a number (`dct.rs` 390 drops the generation).
* Poisoning of the recorder's mutex, pages other than fills, and the CUDA recorder.
* The choice between RAM and disk for a page file, and the front ends for comics and cameras, which
  share the output with the page loop. A panic in a page of the command line ends the program.
* Recovery of an object by scanning the file (`recover_object`, `document.rs` 731). For an object in an object
  stream it goes through `parse_compressed` once more, with the container that the scan names: one more
  caller, at the same depth, of the reads that are modelled. In the model a direct read succeeds.
* Steps of the prefetcher in the image cache: a decode is one step there, and `DeviceImageCache`
  has a prefetch worker as one more thread.
* The sequential parts of 1.7, for good.
