# Formal models of codelib

TLA+ specifications of the programs of this repository that keep state over
time, the TLC runs that check them on small instances, and theorems checked by
TLAPS for every value of the constants.  `PROJECT.json` ties each definition to
the lines it models, each run to its properties, each property to a mutation of
the code that breaks it, and each hazard of the code to the properties that
would catch it.

    tlc -workers 4 -config IbvRc_faults.cfg MCIbvRc      # a run
    tlapm IbvRc_proofs.tla                               # the proofs of a module

## 1. Inventory

codelib is a collection of independent programs; none calls another.  What each
does with its environment is where the difficulty is.

| component | state | operations | meets |
|---|---|---|---|
| `c/ibtest/ibv-rc.c`, RDMA reliable-connection test | `struct resources`, the buffer, the socket, the queue pair (QP) | `sock_connect`, `resources_create`, `sock_sync_data`, `connect_qp`, `post_send`, `post_receive`, `poll_completion`, `resources_destroy` | a second copy of itself over TCP and RDMA |
| `c/ibtest/ib-conn.c` with `cm-conn.c`, RDMA connection server | the shared context, one structure per connection, the completion queue (CQ) | `on_event` and its handlers; `poll_cq`, `on_completion` in a second thread | peers, connection manager, adapter |
| `c/reorder`, store/load reordering test | `X Y r1 r2`, two barrier counters | `sync_thread`, the two thread routines, `main` | three threads on a processor with store buffers |
| `go/hhash`, string handles | the table, the package variable `last` | `Init`, `AllocString` | other tables of the same program |
| `c/cl_qsort.c`, Shell sort | the array, gap and indices | `uclibc_qsort`, `cmp` | the comparison function |
| `c/cl_ca/audio.c`, audio player | three buffers, two file positions | listener, callback, `main` | the Core Audio queue and its run loop |
| `kmod/ktoy`, character device | registrations, `ktoy_val` | `ktoy_init`, `ktoy_exit`, ioctl, `ldmod.sh`, `unldmod.sh` | the kernel and processes |
| `c/cl_aio.c`, asynchronous read | `fin`, the control block | completion handler, busy wait | kernel, signal or thread |
| `c/cl_daemonize.h` | process, session, descriptors | double fork | kernel, terminal |
| `go/pbar`, progress bar | counters and width | `Start`, `check`, `updateBar` | a sender on a channel, the terminal |
| `go/clisrv`, client and server | a socket and a channel | one exchange | each other |
| `c/ibtest/verb-probe.c` | verbs objects | acquire, print, release | the adapters |
| `go/mailthem`, `drplayer`, `pimon`, `pack`; `c/cl_fts.c`, `cl_rdtsc_clock.c`, `cl_rope`, `include`; `perl`, `gnuplot`, `elisp`, `clj` | none beyond their input | text filters, queries, stubs | files, devices |

What is hard to test in them, and the properties that make each correct:

* **ibv-rc** -- two processes and two adapters interleave freely; only single
  bytes on a TCP stream order the RDMA operations, of which the other side
  notices nothing.  Reads may be partial, calls may fail with either of two
  conventions, a peer may die at any point, a poll gives up after two seconds
  while its operation is still on its way.  Correct: the byte exchanges are
  barriers; nobody touches a buffer an operation can still reach; the receive is
  there before the send; each poll sees its own completion; success is reported
  only for a complete exchange; whatever fails, every process settles; nothing
  is released twice or lost.
* **ib-conn/cm-conn** -- the main thread frees what the completion thread uses;
  notifications are one-shot; a peer may send before the server has heard that
  it is connected.  Polling may fail.  Correct: no completion is slept on, none
  points to freed memory, no first message is refused, no peer is accepted,
  served or released out of turn or reported without having been accepted, every
  identifier is released.
* **reorder** -- barriers that are never reset, with plain memory accesses
  between them on a machine that reorders them.  Correct: nobody passes a
  barrier alone, nobody hangs at one, and with the fence the reordering the
  program hunts is impossible.
* **hhash** -- a cyclic search whose end is marked by a variable all tables
  share, and a table replaced in the middle of it.  Correct: handles stay,
  a table grows only when it is full and stays compact, and the search ends.
* **cl_qsort** -- byte offsets and a comparison by subtraction that is no order.
  Correct: in bounds, nothing lost, ends, and sorted if the comparison is an order.
* **audio** -- the end of the file is discovered by buffers that come back.
  Correct: all of it is heard, no buffer is refilled while heard, the player ends.
* **ktoy** -- a module that may be used while it is being set up or taken down.
  Correct: no call into memory that has gone, no value undone that somebody set
  whom the scripts let in.
* **cl_aio** -- the completion handler interrupts `main` on one platform and runs
  beside it on the other, where `main` may end the process first.  Correct: no
  notification is missed or kills the process, and the data has arrived when it
  ends.
* **cl_daemonize** -- three processes that exit in any order, and a terminal that
  hangs up under them.  Correct: what returns is detached from session, terminal
  and descriptors, and nothing keeps the daemon from running.
* **pbar** -- unsigned differences and products, a terminal that changes its
  width, a bar that is started again with its old count.  Correct: a line fits
  and is full exactly at the end.
* **clisrv** -- the server takes one connection while the kernel takes any number.
  Correct: every client ends, and the one served gets its line.
* **verb-probe** -- releases what it has acquired.  Correct: in order, once, all.

Every place where the code is exposed is listed under `hazards`, those no
property covers with the reason.

## 2. Modules

| module | role |
|---|---|
| `IbvRc`, `MCIbvRc` | ibv-rc: both processes, TCP, both adapters; values for TLC |
| `RcExchange` | what ibv-rc promises to somebody who sees its output; `IbvRc` implements it (`ImplementsExchange`) |
| `IbvResources` | the inner steps of `resources_create` and `resources_destroy`, which are single steps in `IbvRc`; verb-probe, on the same objects |
| `CmServer` | ib-conn with the handlers of cm-conn |
| `ConnLife` | what the connection server promises to each peer; `CmServer` implements it (`KeepsPromise`) |
| `Reorder` | reorder |
| `HandleMap` | hhash |
| `ShellSort` | cl_qsort |
| `Ktoy` | ktoy with its scripts |
| `AudioPlayer`, `AioRead`, `Daemonize`, `PBar`, `CliSrv` | audio, cl_aio, cl_daemonize, pbar, clisrv |
| `Tools` | these five side by side: a behaviour is a run of one of them |
| `*_proofs` | the theorems about the module of that name; `Tools_proofs` has those about all five programs of `Tools` |

Components do not share state, so modules compose only where a program has
parts: `IbvRc` is made of two processes and two adapters, `CmServer` of two
threads, the peers and their adapters.  Each refines the abstract specification
of what is seen of it from outside, `RcExchange` and `ConnLife`.  `IbvResources`
has the inner steps of two actions of `IbvRc`, which share no variable with it.
`Tools` puts five independent programs into one run and relates nothing.
Definitions named as a
variant of another and commented `Mutant` are faulty versions used to check that
the properties can fail; no specification uses them.

### How states and actions correspond to the code

**IbvRc.**  `pc[p]` names the call of `main` or `connect_qp` that process `p`
executes next.  There is one action per call: `Bind`, `Connect`, `Accept`
(`sock_connect`, each with the ways it fails: `Refused` leads to the clean-up,
`NoSocket` is the `exit(1)` after `socket`), `Create`, `Modify...`, `PostReceive`, `SendMsg`, `ReadPeer`,
`WritePeer`, `PollFound/Timeout/Error`, `Destroy`, `Close`.  `sock_sync_data` is
two actions, its write and each turn of its read loop, because the peer runs in
between; its four uses are the stages `C` (QP data), `Q`, `R` and `W` (dummy
bytes).  The bytes on the stream are counted, not stored: `sent` and `rcvd` tell
which bytes are in flight since TCP keeps their order, and whether a call has
taken bytes of the next one.  `SyncRead` asks for `xfer_size` bytes after a
partial read too, as the code does, and `SyncEof` spins, because the code
compares the result of `read` with `EOF` (-1).  `Modify` and `PostReceive` test
results as the code does (`< 0`, `== -1`): `VerbErrs` holds what a failing verb
may return.  The adapters have one request in flight per side: `DeliverSend`,
`DeliverRdma` (effect at the responder), `Complete`, `RequestFails`.

**IbvResources.**  The order of the acquisitions and of the two functions that
release them is data (`CreatePlan`, `CleanupPlan`, `DestroyPlan`; `ProbePlan`,
`ReleasePlan` for verb-probe); `ptr` is the set of fields that are not NULL,
`live` the set of objects that exist.

**CmServer.**  `mpc` is where the main thread is in `main`, `on_event` and the
handlers, `ppc` where the completion thread is in `poll_cq`.  `on_disconnect` is
three actions (queue pair, memory, identifier) since the other thread runs in
between.  `armed` and `events` are the one-shot notification.  `PollFails` is an
`ibv_poll_cq` that returns an error: the loop `while (ibv_poll_cq(...))` takes it
for a completion and handles `wc` once more, which at the start holds nothing
defined (a completion of any kind, whose pointer leads nowhere: `NoConn`).  `OnCompletion` looks at nothing but `wc`, as the code does: the
message of a connection that `main` has freed in the meantime is printed again or
the process dies.  `Stage` maps a peer to its stage in `ConnLife`; `Disconnect`
covers peers that leave, that die while connected, and that give up while they are
still requesting (stage `withdrawn`).  ib-conn.c
declares the handlers and cm-conn.c, its next version, defines them; the model
puts both together.

**Reorder.**  `pc` names the statement; `sb` are the store buffers of x86-TSO,
emptied by `Flush`; the locked increment and `mfence` wait for an empty buffer.
Counters wrap at `Word`.

**HandleMap.**  `Call` is the entry of `AllocString`, then one action per turn
of its loop; `last` is one variable for all tables, as in the package.

**ShellSort.**  One action per comparison, on byte offsets; the arithmetic of
gaps is that of the code.  `wrongCmp` is chosen at the start: the comparison by
subtraction (`WRONG_CMP`, which wraps and is no order) or the right one.

**AudioPlayer.**  `Fill`/`Finish` are the listener on start and stop, `Callback`
is `AQTestBufferCallback`; both run one at a time from the run loop's events
(`pending`) while `Play` and `Halt` are the queue.  `Start` includes an
`AudioQueueStart` that fails: `main` waits in its run loop all the same.

**Ktoy.**  Each registration and release is an action, so that processes act in
between; `Open` is refused by the kernel once the module is going.  `node` is
/dev/ktoy: absent, root's, or the group's after `ldmod.sh`; `unldmod.sh` removes it
first (`RemoveNode`).  `left` collects what the images of the module that are gone
have left registered, and who left it; `last` remembers the last SET, a failing one
included, and when it was made.

**AioRead.**  One action per statement of `main` and of the handler.  `platform`
chooses between the two programs of the file: where the handler is a signal
handler `main` does not move while it runs (`MainMoves`), where it is a thread
the end of `main` cuts it off.  A signal without a handler kills the process.

**Daemonize.**  `parent`, `child` and `daemon` run the same code after their
`fork`; a session is named for its leader.  `HangUp` sends SIGHUP to a session
that has a terminal, and so does the exit of its leader.  `OpenTerminal` is a
caller that opens a terminal afterwards: the second fork is there for it.

**PBar.**  `Start`, `Receive` and `Check` are the goroutine; `drawn` is the
arithmetic of `updateBar`, in which every difference and product wraps at
`Uint16` and `Uint64`.  `finish` survives a second `Start`, as in the code.

**CliSrv.**  Every `main` waits for its goroutine on a channel (stage `main`).  A
listening server has connections it never accepts; when it exits, they end.  Where
`net.Listen` fails (stage `failed`) nobody is listening.

## 3. Runs

| run | constants | shows |
|---|---|---|
| `ibvrc_nominal` | no faults, record of 2 bytes | the exchanges stay aligned (`SyncAligned`), the SEND finds its receive (`ReceiverReady`), both processes end with 0 (`BothSucceed`) |
| `ibvrc_faults` | all faults, errors -1 or positive, record of 3 bytes | `Barrier`, `QuiescentBuffer`, `PollsOwnCompletion`, `CqWithinCapacity`, refinement of `RcExchange`, `Settles`: also ignored errors surface as failed posts or timeouts, never as a wrong result |
| `ibvrc_rnr` | errors positive | *violated*: `ReceiverReady` |
| `ibvrc_short` | partial reads only | *violated*: `ClientGetsMessage` |
| `ibv_resources` | every acquisition, and the releases of all but `free` and the device list, may fail; also verb-probe | `NoDoubleRelease`, `NoLeak`, `ReleaseOrder` |
| `cm` | 2 connections, 2 adapters, peers that leave, abort, withdraw or send too much, failing calls and polls | `WakesUp`, `CqOnlyLive`, `ReceiveReady`, `Reported`, `Served`, `Released`, refinement of `ConnLife` (`KeepsPromise`) |
| `reorder` | with the fence, word 16, 4 iterations | `Exclusive`, `NeverReordered`, `Iterates` |
| `handlemap` | two tables that share `last`, 2 strings, 9 calls | `OnlyAdds`, `DoublesWhenFull`, `Compact`; a call whose `last` lies in its table, or whose table has room, returns (`ReturnsIfFindable`) |
| `handlemap_shared` | two tables | *violated*: `AlwaysReturns` |
| `sort` | 7 elements of 2 bytes, 3 values, both comparison functions | `InBounds`, `Permuted`, `Terminates` with both, `Sorted` with the right one |
| `tools` | audio: files of 0 to 13 packets | `WholeFile`, `InTurns`, `Ends` |
| | cl_aio: both platforms | `EndsClean` |
| | cl_daemonize: started from a shell or as the leader of a session, hang-ups, failing calls | `Detached`, `DaemonRuns` |
| | pbar: 3 sends, totals 0, 1, 3, 90, three widths | `LineFits` |
| | clisrv: 2 clients | `Answered` |
| `ktoy` | 2 processes of root, 2 others, each registration may fail | `NeverIntoUnloaded`: what a removed module leaves behind is the region and the cdev, only when `class_create` failed; `SetKept`: the only SET undone is one of root before `ktoy_init` has given the value |

`Exclusive` without the fence needs no run of its own: a theorem covers it for every
value of the constants (`BarriersHold`).

### Bounds, and why they are enough

* *ibv-rc* is finite as it is: one client, one server, four exchanges, three
  operations.  Only the size of the record is reduced.  Two bytes suffice for a
  partial read to leave one byte, three for two partial reads in one call; the
  theorems hold for every size.
* *CmServer*: two connections are the least for one to be served, or to die,
  while the other is handled, and the second request is the one that finds the
  context built, at the same or at another adapter.  Two messages per peer
  (`MaxMsgs`) allow one too many.  The completion queue is unbounded: a connection
  can have two completions in it, so the ten entries of the code are room for five
  connections, and nothing in the code stops a sixth.  With the two of the run
  they are never full.
* *IbvResources*: `ReleaseFaults` is the set of releases that may fail.  The run
  takes the largest set, whose behaviours include those of every smaller one.
* *Reorder*: words of 2^4 with `3 * MaxIter + 2 < Word` are the region without a
  wrap; four iterations let a fast thread be a whole barrier ahead in each
  direction.
* *HandleMap*: two tables and nine calls.  All of them in one table double it
  twice, so that a search starts, ends and grows in a table that has grown before;
  shared out, they leave `last` anywhere in the table that is searched, or beyond it.
* *ShellSort*: with seven elements the first gap is 4, so there are two passes,
  and elements sink more than once.  Three values cover an element smaller than,
  equal to and larger than its neighbour.
* *AudioPlayer*: buffers hold two packets and three are used, so 13 packets turn
  every buffer more than once and end with full, half and empty ones.
* *AioRead* has no bound.  *Daemonize*: with three descriptors the loop that closes
  them goes round, stops, and leaves one out.
* *PBar*: the moduli are scaled to 256 and 4096.  On a terminal of 20 columns the
  width wraps, on one of 33 a single column is left, on one of 80 many; the totals
  are zero, one, few, and one (90) whose products overflow.  Three sends bring a
  bar to its end in one step or several, and past it, and leave one for a second
  start.  `LinesFit` is proved for all values of these.
* *CliSrv*: two clients are the one served and one behind it.
* *Ktoy*: the module may be loaded and unloaded any number of times; two
  processes of each kind can hold the device in each other's way.

### Fairness

* ibv-rc: each process is scheduled, each adapter makes progress (it delivers,
  completes or fails a request, as a reliable connection does after
  `retry_cnt`).  Nothing is assumed about faults: a failing `ibv_poll_cq`
  (`PollError`), which would end any wait, is outside the fair actions.  Timeouts are never needed
  unless nothing can complete any more.
* CmServer: both threads are scheduled, the network delivers what was sent or
  reports it failed.  Peers may stop at any time; `Served` and `Reported` say so.
  Polling is strongly fair, that is, `ibv_poll_cq` does not fail for ever while
  something can be polled.
* Reorder: the three threads are scheduled and store buffers drain, which x86
  guarantees; no thread waits on a lock.
* HandleMap, ShellSort: the caller runs.  Ktoy has no fairness and no liveness
  property.
* Tools: the audio run loop dispatches and the queue plays and halts; an
  asynchronous read completes, `main` and its handler go on; the forked processes,
  the server and each client are scheduled.  No peer is assumed to do anything
  else: no terminal hangs up, nobody opens one.  The progress bar has no fairness,
  since its sender may stop.

`CHECK_DEADLOCK FALSE` is set where the system may stop: the connection server
waits for peers for ever or has ended, the two workers of reorder wait at the
barrier for ever after `main`'s last iteration (the bound on its endless loop),
HandleMap ends when the calls are used up, and the programs of Tools end or wait
for somebody (the echo server for a client, the bar for its sender).

## 4. Theorems

All hold for every value of the constants that satisfies the named assumptions
of the modules, and are proved from nothing but those.

* **IbvRc_proofs.**  `TypeCorrect`.  `SyncOrder`: `SyncInv`, which says that the
  bytes written are exactly those of the calls completed and begun and the bytes
  read are at least those; it is inductive while `Barrier` is not, because
  `Barrier` alone does not say what the stream holds.  `BarrierHolds` follows
  from it.  `NoRnrFlow` (errors are -1): `ReceiverInv`, which follows the client
  from RESET to RTR with its receive posted on the way, and the server until its
  first post.  `Alignment` (no partial reads).

  That `IbvRc` implements `RcExchange` (`ExchangeImplemented`) is proved for every
  size of the record, every set of faults and every value a failing verb may
  return, in three layers on top of `SyncInv`.
  `QueueInv`: of a request, a receive and a completion a side has at most one, and
  it is what its next poll waits for; `PollsItsOwn` and `OneIsEnough` follow.
  `QuietInv`: the server's request is over once the client has its message, the
  client has a request in flight only between the third and the fourth exchange;
  `BufferIsQuiet` follows.  `DataInv`: what the buffers hold and what has been
  shown at each stage; from it every step is one of `RcExchange` or a stutter
  (`Maps`).  `ServerFrame` and `ClientFrame` say what of this a step of one side may
  touch, so that each step is examined once.

  `NothingFails` (no faults) is the safety half of `BothSucceed`: `AllFine` adds to
  the layers above that the queue pair is where the stage of the program puts it
  (`StageQp`), that a process closes its socket only after all exchanges, and that
  the client's receive is there until the message is (`Message`).  From it each
  error path is refuted by name: `ExchangesComplete` (the socket is never reset),
  `RequestsServed` (no request finds its responder not ready), `NoTimeout` (a poll
  with nothing in flight always has a peer that can still move).
* **IbvResources_proofs.**  `TypeCorrect`, `NothingTwice`, `NothingLost`,
  `ReleasedInOrder`, for every set of releases that may fail.  `Acquiring` says that
  before its next call a program holds exactly what the calls before have made;
  `Held`, that afterwards what is live is what the running plan has still to release,
  and what it could not.  `ReleaseStep` is the one argument for all three functions
  that release: what is released has nothing made of it in the rest of the plan,
  since no plan names an object twice or an object before what is made of it.
* **CmServer_proofs.**  `IInv` is the conjunction of `Wake` (of the next event
  at most one is on the way and one is asked for otherwise), `Unstarted`
  (nothing happens before the first request), `Order` (the events of a
  connection come request first, disconnection last, and tell how far the peer
  is) and `Memory` (a connection is live as long as a request, an event or a
  completion refers to it, and a receive is posted before the peer may send).
  `NeverSleepsOnWork`, `NoStaleCompletion` and `FirstMessageReceived` follow.
  The last two need `Order`: that the handler of a disconnection is the last one
  to touch a connection is a fact about the events, not about the handler.
  `PromiseKept`, the refinement of `ConnLife`, adds `Once` (each peer is told of its
  connection once, and nothing is sent before) and `Past` (what was freed or
  received belongs to a peer that has gone, or was accepted).
  `NothingForgotten` is the safety half of `Served`, `Reported` and `Released`: `Owed`
  (a peer that asked, was connected or went has its event queued or in the hand of
  main, or what the event is for has happened: `Told` ends only with the last step of
  the handler), `Kept` (a message that arrived was reported, or its completion is
  queued or in the hand of the thread) and `Acked` (`rdma_destroy_id` never waits for
  an event that nobody would acknowledge).
* **Reorder_proofs.**  `BarriersHold` and `TypeCorrect`, as long as the counters
  do not wrap (`3 * MaxIter + 2 < Word`): `Counting` relates the stage of the
  three threads to the distance of the counters from the start of the iteration.
  `FenceWorks` adds `RaceInv`: of two workers that have loaded, one got the
  other's store.  `NeverStuck`, the safety half of `Iterates`, says that of three
  threads at their barriers one always may pass.
* **HandleMap_proofs.**  `TypeCorrect`, `HandlesKept` and `TablesCompact` for any
  number of tables that share `last`: a table is doubled only when all its slots but
  two at most are taken (`DoubledWhenFull`), so it never has more than twice the slots
  it needs, and six.  `DoubledWhenFull`: `Scan` says that a search
  either has gone round from `First` and met no free slot (`FirstTurn`), or has
  doubled its table and has a free slot of the new half ahead (`SecondTurn`), so that
  it does not come to the test of `last` again.  It is silent about a table of
  which `last` is no slot, where the search may go round for ever
  (`handlemap_shared`).
* **ShellSort_proofs.**  `TypeCorrect`, `NoAccessOutside` (gaps are 1, 4, 13, ...
  times the width, so the division on byte offsets is exact: `GapInv`,
  `SiftInv`), `NothingLost` (an exchange is a bijection between the offsets that
  hold a value before and after), `SortsCorrectly` (`SortInv`: in the pass with
  the smallest gap everything up to the element in hand is sorted around it).
* **Ktoy_proofs.**  `TypeCorrect`, `LeftOnlyByFailedClass`, `SetsKept`, whichever
  registrations fail.  `Registered` says what is registered at each place of
  `ktoy_init` and `ktoy_exit`, `Opened` that before the value is given only root can
  have the device open.
* **Tools_proofs.**  `DaemonDetached`, for every limit of descriptors: `Roles`
  follows who has forked whom and in whose session, `NoTerminal` says that the new
  session never gets a terminal, `Closing` how far the loop is.  `LinesFit`, for all
  moduli, widths, totals and increments: `LineInv` says that a line shows at most
  its total, `Scale` that `a * b \div t` is at most `b` then, and is `b` only at the
  end.

  `BuffersInTurn`, `FileIsHeard` and `PlayerTypes`, for files and buffers of any
  length: `Apart` says, index by index, that no buffer is twice in the queue or among
  the events (`ApartInTurns` leads from it to `InTurns`).  `Stream` gives each
  packet its place: `Heard` is what must be heard at each position, the start of the
  file twice, and `Holds` follows it through what was played and what is queued.
  `Unfilled` and `Filled` are the listener before and after its first call, which
  never comes if the queue does not start.

  Of three liveness properties the safety half is proved: `DaemonSurvives` (only its
  own failing `chdir` ends the daemon before it runs), `ReadEndsClean` (an ended read
  is clean, `ReadInv`), `ServedGetsLine` (the client served gets its line, `EchoInv`).

Only model-checked: all liveness (`Settles`, `BothSucceed`, `Reported`, `Served`,
`Released`, `Iterates`, `AlwaysReturns`, `Terminates`, `Ends`, `EndsClean`,
`DaemonRuns`, `Answered`), since TLAPS can prove neither `ENABLED` nor, therefore,
anything from weak or strong fairness.  Every invariant and every action property of
the passing runs, and both refinements, are theorems.

## 5. Where code and text disagree

* `ibvrc_rnr`: "there is a Receive Request in the responder side, so we won't
  get andy into RNR flow" (`ibv-rc.c:464`).  libibverbs reports errors as a
  positive errno, which the tests `< 0` and `== -1` take for success.
* `ibvrc_short`: "in both sides we expect to get a completion"
  (`ibv-rc.c:761`).  After a partial read `sock_sync_data` asks for the whole
  size again and may take bytes of the next exchange.
* `handlemap_shared`: "this function should always return" (`hhash.go:60`).
  `last` belongs to the package and may be no index of a smaller table.

Seen while modelling: the barrier counters of reorder are never reset and count
modulo 3 while they wrap modulo 2^w, so that after a wrap a thread passes a
barrier alone (`Exclusive` and its theorems state the bound `3 * MaxIter + 2 <
Word`; with 64 bits the wrap is out of reach, with 32 it is not); the listener
of the audio player allocates three buffers where `main` has already allocated
three, which nobody then plays or frees (`data` and `mBuffers` in `Fill`); the
audio callback reads from its own position, so the first three buffers are heard
twice (`WholeFile` allows it); a SET with a bad address clears `ktoy_val` although it
fails (`SetBadAddress`); `resources_destroy` frees the buffer although
`ibv_dereg_mr` may just have failed (`ReleaseOrder` speaks of the time before
the first failure); a completion taken from the queue just before `on_disconnect` is
read after its connection was freed (`OnCompletion` prints from it or dies;
`ConnLife` allows both);
`ktoy_init` returns an error from `class_create` with the region and the cdev
still registered (`NeverIntoUnloaded` says that these two are all that is ever left);
the device can be opened before `ktoy_val` has its first value, and a SET of root in
between is undone (`SetKept` says that nobody else meets this); a failing `ibv_poll_cq`
is taken for a completion (`PollFails`); the completion queue of the connection
server is overrun from the sixth connection on; an event of an
unexpected kind, or one failed request, ends the connection server with all its
connections; an audio file without a packet never ends, since no callback comes,
and neither does a player whose `AudioQueueStart` failed, which nobody looks at
(`Ends` speaks of a queue that has started on a file that has one); the comment "Close all open file
descriptors" (`cl_daemonize.h:57`) stands on a loop that leaves out 0, and all of
them when `sysconf` gives -1 (`Detached` says what is left); the "fall back to text
mode" of the progress bar (`pbar.go:46`) is empty and the width wraps on a narrow
terminal; a total of zero with an increment of zero divides by zero (`panic`); a
second `Start` keeps the old count, and draws nothing once that is beyond the new
total; on Linux `main` of cl_aio may end before the handler has called
`aio_return` and `close` (`Clean` asks for both only where a signal handler runs);
verb-probe never frees its buffer (`NoLeak` allows it), and its tests `< 0` miss a
positive errno; `on_connect_request` of cm-conn asserts a queue pair nobody
creates.

## 6. Not modelled

* `cm-conn.c:96-112` (`build_endpoint`) and its use in `on_connect_request`:
  unfinished, with undeclared names; the file does not compile.
* Option parsing, printing and lookups of names; the `--gid-idx` option of ibv-rc;
  failures of allocating, reading into or enqueueing a buffer in audio.c;
  libc's `qsort` and `bsearch` in
  cl_qsort.c; the loops of verb-probe over devices and GIDs; `settotal` of pbar,
  which nobody calls.
* `go/mailthem`: one mail after the other, no state between them.
  `go/drplayer`, `go/pimon`: print a file, read a temperature.  `go/pack`,
  `c/cl_rope`: stubs.
* `perl/sosper.pl`: one pass over a table.  Its counters depend on nothing but the
  input; two quirks of them (the column counter runs modulo 10, so that a short row
  shifts the rows after it, and an unknown company, being undefined, equals 0 and
  counts as academic) are a matter of the input's format, not of the order of steps.
* `c/cl_fts.c`, `c/cl_rdtsc_clock.c`, `c/include` (macros that count or rename
  their arguments), the remaining scripts: nothing that changes state over time.

## 7. Plan

Done, the most intricate program first: IbvRc with RcExchange and IbvResources;
HandleMap; Reorder; ShellSort; CmServer; AudioPlayer; Ktoy; then AioRead,
Daemonize, PBar and CliSrv in Tools, verb-probe in IbvResources, failing polls in
CmServer, ConnLife.  Both refinements are proved.

Next:

1. The safety half of `Settles`, the last liveness property of the larger models that
   has none: a process which waits is waited for or gone (`IbvRc`, all faults).
2. A measure for `Terminates`: no gap and no element is gone through twice, which
   bounds the number of steps of the sort without fairness.
