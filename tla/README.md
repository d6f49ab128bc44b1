# Razor: TLA+ models of the occam-pi run-time system

Razor is a tool chain and run-time system for occam-pi, a language of
communicating sequential processes.  A compiler (`occ21`) and a code
translator (`tranx86`) turn a program into native code that calls the CCSP
kernel (`runtime/ccsp`); alternatively the Transterpreter (`tvm/libtvm`)
interprets the same instruction set.  C programs reach the kernel through the C
interface library (`runtime/libkrocif`).

What is hard about Razor is the kernel.  A program is up to millions of
processes, run by one *scheduler* per processor (an operating system thread
each, as many as processors unless `CCSP_RUNTIME_THREADS` says otherwise,
`common/userproc.c:844-863`).  The schedulers share channel words, ALT states,
semaphores, barriers, run queues and mail boxes **without locks**: every
operation is a short sequence of atomic reads, writes, swaps, bit operations
and compare-and-swaps of single words.  A wrong order of two of them shows up
as a process that runs on two processors at once, or never again, once in a
week.  That is what these modules check.

## 1. Inventory

`PROJECT.json` lists every component with its files.  Those with protocol state:

| Component | State | Operations | Correct when |
|---|---|---|---|
| Channels (`sched.c` 5041-5372) | channel word: empty, `Wptr`, `Wptr\|1`; `pointer` word of the workspace | `in`, `out`, `xable`, `xin`, `xend`, mobile variants | an output and an input pair up, neither goes on before |
| ALT (`sched.c` 1399-1418, 5523-6310) | ALT state word (three flags and a reference count), selected guard | `alt`, `enbc`, `enbs`, `enbt`, `altwt`, `taltwt`, `disc`, `diss`, `dist`, `altend`, `trigger_alt_guard` | a ready guard is selected, by priority; no wakeup is lost; nobody is woken twice |
| Semaphores (`sched.c` 2802-2918) | `fptr`, `bptr` with a lock bit, link words | claim, release | FIFO lock |
| Scheduler core (`sched.c` 640-1240, 1993-2177) | run queues, batches, priofinity, `sync`, `loop` | enqueue, dispatch, batch swap, priority change | a runnable process runs once and eventually |
| Mail and sleep (`sched.c` 935-1000, 1993-2177, `userproc.c`) | `bmail`, `pmail`, `sync`, `sleeping_threads`, `idle_threads`, pipes | mail a process or batch, sleep, wake, detect deadlock | no mail is left with everybody asleep, no false deadlock |
| Migration (`sched.c` 826-925, 1248-1315) | migration windows | publish, withdraw, steal a batch | a batch has one owner |
| Barriers (`sched.c` 2636-3439) | state words, per-scheduler queues | sync, enroll, resign, fork, mobile process barrier | all enrolled processes meet, each phase releases each once |
| Timers (`sched.c` 1318-1530, 5465-5500) | sorted timer queue, wrapping clock | `tin`, timer guards, timeout, delete | nobody wakes early or never |
| PAR (`sched.c` 4548-4720) | join count in the parent workspace | `startp`, `runp`, `endp`, `par_enroll`, `pause`, `stopp` | the parent goes on after the last child |
| Mobile types (`sched.c` 3443-3980) | reference counts | alloc, clone, release, i/o | freed once, when unused |
| Blocking calls (`bsyscalls.c`) | pool, job queue, waiting and running counters, kill word | dispatch, run, kill | every job is run once and its process comes back |
| libkrocif (`cif.c`) | locals | `ProcAlt`, `ProcPar` | as ALT and PAR |
| Transterpreter (`libtvm`) | one ready queue, timer queue, the same words | the same instructions, single-threaded | the same, plus save and restore at instruction boundaries |

Interactions: all of them put processes on run queues with
`enqueue_process` and leave a call with `kernel_scheduler`; ALTs are triggered
from channel output, from timers and from external channels; shared
channel-bundle ends are a semaphore around channel communication;
mail carries processes whose affinity excludes the scheduler that woke them;
blocking calls come back through batch mail.

The hard behaviours, with their lines, are the `hazards` of `PROJECT.json`.
They are interleavings of two or three schedulers inside kernel calls, words
whose meaning changes (`pointer` and `state` are one word), a scheduler that
goes on executing a call on behalf of a process that already runs elsewhere,
and lost wakeups.

## 2. Plan

1. `CcspSched`, `CcspAlt`, `Rendezvous`: channels and ALT. **Done.**
2. `CcspSem`, `Semaphore`, `CcspSemProofs`: semaphores, proved. **Done.**
3. `CcspMail`, `Scheduling`: mail boxes, the sync word, sleep and wake, deadlock
   detection; implements what `CcspSched` assumes of a run queue. **Done.**
4. `CcspMigrate`: batches, run queues, migration windows and stealing, against
   the same `Scheduling`. **Done.**
5. `CcspBarrier` with abstract `Barrier`. **Done.**
6. `CcspTimer`: timer queues and timer guards, on top of `CcspAlt`. **Done.**
7. `CcspBsc`: the threads that make blocking calls, and kill. **Done.**
8. Proofs: `CcspSem`, the counters and the kill protocol of `CcspBsc`, the
   barrier and the mail boxes with their refinements, the batches of
   `CcspMigrate`, its affinities and its refinement of `Scheduling`, the channels
   and ALTs of `CcspAlt` with their refinement of `Rendezvous`, and the safety of
   ALTs with timer guards, `CcspTimer`. **Done** but for `NobodyEarly`.
9. Not begun: `CcspMprocBar` (whose retry after a failed compare-and-swap queues
   the process a second time, `sched.c:3434`), `CcspPar` (fork barriers, join
   counts), mobile reference counts, `TvmChan` and `TvmBarrier` (the
   interpreter's versions against `Rendezvous` and `Barrier`).

## 3. Modules

**`CcspSched`** is what every kernel call sees of the scheduler: `pc[s]` (where
scheduler `s` is), `cur[s]` (the process it runs) and `queued[p]` (how many
queue entries `p` has).  `EnqueueProcess` is `enqueue_process`,
`KernelScheduler` the entry into `kernel_scheduler` and `Dispatch` its end.
Which runnable process comes next is left open.  `queued` is a count and not a
set because the kernel cannot notice that it enqueues a process twice.

**`CcspAlt`** models channels and ALT, one action per access to a shared word.
The workspace of a process is `state` (the word that is an ALT state during an
ALT and an I/O pointer during a communication), `temp` (the selected guard) and
`iptr`; `chan` holds the channel words.  The local variables of kernel calls
are `word` and `tgt`.  Three `style`s of generated code are modelled, one for each
ALT in the constant `Alts`: the jumping instructions `ENBC3`/`NDISC` of the occam back end (`gen10.c`), the plain
instructions on every guard, and `ProcAlt` of libkrocif.  `reschedule_point` may
or may not preempt the caller.  `io` records what each process asked for and is
the refinement mapping to `Rendezvous`; `ready0` remembers which guards were
ready when the enabling or disabling began.

**`Rendezvous`** is the abstract channel: offer, and transfer when both ends are
there.

**`CcspSem`** models one semaphore.  `fptr`, `bptr`, bit 0 of `bptr` (`low`) and the
`link` words are shared; `me`, `val`, `bit`, `front` and `next` are the locals of
`sem_claim` and `sem_dequeue`.  `ClaimPush` is the point where the process becomes
visible to others: from there on the scheduler works on behalf of a process
that may already run elsewhere, so `cur[s]` is given up there.  The link word of
a process that has left the queue is reused by the run queues, so a late look
at it (`DeqRetest`) may read anything.

**`Semaphore`** is the abstract FIFO lock.

**`CcspMail`** models `kernel_scheduler` and everything by which one thread hands
a process to another.  Its threads are the schedulers and `Bscs`, the threads
that execute blocking calls; one action is one access to a shared word.  A
mail box is `fptr`, `bptr` and the `link` words; `mailq` is the order in which
mail entered it, a history variable.  `sync` is the sync word as a set of bits,
`sleeping` and `idle` are the two global words, `pipe` the bytes in the
signalling pipe of a scheduler, written without blocking (a byte that does not
fit is dropped, so a bound of one byte, `PipeSize`, shows what a full pipe
does).  Run queues, batches and the migration window of a scheduler are one set
of processes, `local[s]`, from which `Migrate` may steal; spinning before sleep
is one choice (`Sleep` or `Migrate`).  A process may change its own affinity
(`SetAff`), which may mail it away.  The two words of the deadlock check are read one
after the other (`ReadIdle`, `ReadSleeping`), as the compiled expression does; C
leaves their order open.  Left out: timers and external events (which keep a
scheduler from sleeping for ever), and starting and stopping of threads.

**`CcspBarrier`** models the full barrier: the state word (`count`, `tag`, `syncing`),
the bitmap `heads` and one `head` word per scheduler, which holds a tag and the
processes collected on that scheduler.  How a head sorts them into batches by
priority is left out.  `enrolled` and `waiting` are history variables, changed by
the compare-and-swap that counts a process off or starts a completion; the
processes still to be let go are then those in a head that neither wait nor
run, which is the refinement mapping.  A process that resigns ends, and may be
enrolled and started again by another one.  The barrier is never freed.

**`Barrier`** is the abstract barrier: sync, enroll, resign, and a completion that is
possible only when everybody enrolled waits.

**`CcspTimer`** adds time to `CcspAlt`: `clock` wraps around at `Wrap` (2^32 in the
code) and is compared by `After`, the sign of the difference; `tq[s]` is the timer
queue of a scheduler and `node` the contents of its nodes.  The links of a queue
are private to its scheduler; what a process that disables its guard and the
scheduler that walks the queue share is the workspace pointer in the node and
its dirty bit, one action per access.  `Place` is the search of
`add_to_timer_queue` from both ends.  The timeout words, the alarm signal and
`SYNC_TIME` only serve to make a scheduler look at its queue once the head is
due; in the model a scheduler may look whenever it is between processes, and the
clock does not get further than `Lag` past a time that is due.  Timers come after the channels of a guard list.

**`CcspMigrate`** opens the run queue: current batch, pending batch and the queue
of batches of one priority (`curb`, `pend`, `rq`), the migration window (`slot`,
`head`, `bm`, `mwstate`), and what becomes of a batch object (`free`, `laundry`, the
dirty bit).  A stolen batch stays in its owner's queue as an empty shell; the
owner learns of it when its own swap of the slot finds nothing and may reuse the
shell only when the thief has marked it clean.  Abstracted: mail is a set
(`CcspMail` has the protocol), the free list is a set from which the lowest batch
is taken, allocation waits when the `PoolSize` batches of a scheduler are used up
instead of asking for memory, and excess memory is not given back.
`find_remove_from_runqueue` (debugging), priorities and the start of a process
under a stale priofinity (`STARTP` in a reused workspace) are left out.  Two steps are
coarser than the code: a process that changes its affinity leaves through the top of
`kernel_scheduler`, where `Y_setaff` goes on with the current batch while it has
processes (`get_process_or_reschedule`, `sched.c:1162`), and a thief reads `mwstate` and
the state word of the window at one moment.  The race
on `mwstate` that the code accepts ("don't worry about race", `sched.c:1273`) is in
the model: it may hide a batch from thieves, and its owner still runs it.

**`CcspBsc`** models one pool of threads for blocking calls, pool 0 or one with
affinity (`number`, chosen at first).  Code under the pool's lock is one action;
the word of a killable call, `pending` and `running` are changed outside it, one
action per access.  `bsyscall_kill` is `KillSwap`, then `Cancel` for a word that held
a job or `KillReset`, the second write, for one that said the thread was through;
a process has one word for all its killable calls, so that write may be late and
hit the next call (`wiped` remembers it).  `wait` to `look` is a signal, a time-out or a spurious wake-up
(`Wakeup`), which leaves `waiting` one too high: `pthread_cond_timedwait` reports a
time-out by a positive number, so the branch at `bsyscalls.c:336` that would
uncount the thread is dead.  A cancellation takes effect anywhere between the
thread's swap of the word and its compare-and-swap (`Region`), and the handlers
end call and thread.  A dying thread leaves itself to be joined and joins the one
before.  Which affinity the process comes back with (`bsyscalls.c:209-222`) is left
out, and so is the wake-up at program shutdown.

**`Scheduling`** is the contract that `CcspSched` assumes: a process that was made
runnable is resumed by one scheduler, once.

The modules assume that an access to a word is atomic and that accesses are
seen in program order (the barriers in the code, `weak_write_barrier`,
`strong_memory_barrier`, are there to make it so); weak memory is not modelled.

## 4. Runs

| Run | Instance | Shows |
|---|---|---|
| `alt` | 3 schedulers, 2 writers, 1 reader; jumping instructions on lists with a repeated channel and SKIP in every position, plain instructions with no channel after a ready guard, `ProcAlt` on one channel | the ALT protocol is safe, channels implement `Rendezvous`, every ALT selects and partners that meet communicate |
| `alt_procalt_hang` | 2 schedulers; `ProcAlt` on two channels | **violation**, see below |
| `timer_safe` | 2 schedulers, a reader that ALTs on a channel and two timers in two styles, a writer that also sleeps; clock of 8 values | nodes are not reused too soon, references are counted, nobody is scheduled twice, nobody wakes early |
| `timer_live` | the same with one timer and a clock of 4 values | everybody wakes |
| `sem` | 2 schedulers, 3 processes | FIFO lock, nobody scheduled twice, never lost, nobody starves |
| `mail_safe` | 2 schedulers; two processes bound to `s2` that make blocking calls, two threads for these | two enqueues to one mail box against its owner; nobody sleeps over mail, `Scheduling` is implemented |
| `mail_live` | 2 schedulers; one process bound to `s2`, one that moves between free and bound to `s1` | with migration and process mail: mail arrives, a real deadlock is reported, and no other |
| `mail_false_deadlock` | 3 schedulers; a process bound to each of two | **violation**, see below |
| `migrate_safe` | 2 schedulers, 3 free processes, a window of 1 slot, 4 batches each | `Scheduling` is implemented, batches are as the code's assertions say, a stolen one is not reused, a visible one can be found |
| `migrate_live` | 2 schedulers, 2 processes, one of which ties itself to a scheduler | affinity is respected, every runnable process runs |
| `barrier` | 2 schedulers, 3 processes, 2 of them enrolled at first | `Barrier` is implemented, the count is exact, everybody gets through |
| `bsc` | a pool of either kind, 2 processes, 3 threads, 2 kills at a time | every call comes back once, the counters are exact, kill and return never both end a call, a call loses its pointer in the word only to a kill, taken calls return, and all do if no thread dies |

Every module has a type invariant; `sem` and `barrier` list it, in the other runs it
held when the modules were written and gives way to properties that say more.

Bounds.  The races of an ALT are between the ALTing process and the writers of
its channels, two of which can be inside `trigger_alt_guard` while the reader
runs: three schedulers let all three processes be in the kernel at once, and a
fourth would be idle.  Two channels are enough for one guard to be triggered
while another is enabled or disabled.  A semaphore needs a holder that
releases, a process whose enqueue is half done and a third one behind it; the
theorems of section 5 remove the bounds.  For mail, two
threads put two half-done enqueues in front of one another while `s2` empties
its boxes or falls asleep; a third scheduler matters only to the deadlock check,
whose counterexample needs it.  For the barrier, two schedulers are the one
that completes and one whose processes come back meanwhile; the third process
enrolls and resigns during the completion.  The safety properties of the
barrier were also checked with three schedulers (418 000 states).  For timers,
the races are between one ALT, the writer of its channel and the scheduler that
walks the queue; with 3 nodes one is still in a queue, dead, while the next ALT
takes another.  `Wrap` is a small multiple of the delays so that every queue
crosses zero; the assumption that a delay plus `Lag` is below half of it is that of
the code.  A migration window of one slot is always full, so that every
publication pushes another batch out; three processes make a current, a pending
and a queued batch.  `MaxCalls` bounds how often processes block or change their
affinity.  In `bsc` two processes are two queued calls, of which a kill ends one;
three threads are two that serve and one that waits to be joined, and
`MaxKills` bounds how many kills have swapped the word and have still to do something,
`MaxMissed` how far `waiting` runs ahead of the truth.

Fairness.  `WF` (ALT) or `SF` (semaphore) of a scheduler's steps: the operating
system runs every thread, and a process makes its next kernel call (processes
are cooperative; one that computes or pauses for ever starves its own
processor by design).  For the semaphore it is strong because a process may
pause between any two calls.  `SF` of dispatching a process: run queues are
FIFO and a batch gives way when its dispatch count is used up, so a runnable
process is not passed over for ever.  Writers in the ALT model write again and
again, so that every ALT has a partner.

For the barrier, `SF` of coming to the barrier: a running process syncs or resigns
in the end.  For mail: `WF` of a scheduler's kernel steps and of the thread of blocking calls (a
call that never returns keeps its process by right), `SF` of leaving the
processor and of dispatching a local process.  The mail runs switch TLC's
deadlock check off: `ccsp_kernel_deadlock` ends the program, and in the safety
runs a scheduler blocked on its pipe is a legal end.

For timers, `SF` of the clock and of a scheduler's look at its queue: it looks
between any two processes it runs and, when idle, at the alarm.  For migration `WF`
of a scheduler's steps and of its process's next call.  For blocking calls `WF` of
each thread, whose system calls return; neither kills nor time-outs are fair.  `bsc`
switches the deadlock check off: `ccsp_kernel_exit` ends the program when no
thread can be started.

Symmetry under permutation of schedulers, processes (`migrate_safe`) or threads
(`mail_safe`) is used in safety runs only.

### Findings

*`ProcAlt` on several schedulers* (`alt_procalt_hang`).  A guard triggered while
the enabling goes on clears `ALT_NOT_READY`; when the next one is found ready the
code keeps `ALT_ENABLING` (only the first ready guard clears it), `ProcAlt` skips
`AltWait`, which would have cleared it, and `kernel_altend` sleeps on a state that
nobody will bring to zero.  `ai/cif.md:29` says it "performs the `disable` sequence,
and returns the index of the successfully selected guard".

*The deadlock check is not simultaneous* (`mail_false_deadlock`).  The comment at
`sched.c:2105-2109` says that deadlock is declared only when all schedulers are
"idle+sleeping simultaneously".  `sched.c:2131` reads two words at two moments.
With three schedulers, one can be idle and woken (its bit still in
`idle_threads`, taken out of `sleeping_threads`), run, mail a process to another
one and announce its next sleep between the two reads: both words are full, and
a process is in a mail box.  With two schedulers it cannot happen (`mail_live`).

Further observations, met while modelling, that no run states:

- The plain instructions on several channels, as in the example
  `stdlib/cif/examples/cift14-c.c`: a guard found ready clears `ALT_ENABLING`
  (`sched.c:5727`), the next channel gets `Wptr|1` before the reference is counted
  (`5719`, `5735`), and a writer that triggers in between enqueues a running
  process.  `alt` has such lists only with SKIP after the channel; the jumping
  instructions of the compiler enable nothing after a ready guard and are safe.
- `sched.c:2118` reads the number of pending calls and `2131` the idle words; another
  scheduler can dispatch a call and go idle in between.  `NoFalseDeadlock` is
  therefore checked without blocking calls.
- With a timer guard *before* a channel, `ENBC3` of a ready channel jumps past
  `TALTWT`, `Time_f` keeps an old time, and `NDIST` (`sched.c:6274`) may select the
  timer guard before it is due.  `NobodyEarly` holds for lists in which timers come
  last.  Of two timers that are both due `NDIST` selects the one that is disabled
  last.
- A killed thread of a pool with affinity makes its process runnable before it
  counts itself out (`bsyscalls.c:229`, `189`).  A call made in between finds a
  running thread, starts none, and stays in the queue; in pool 0 the same happens
  when `waiting` is too high.  `CallsReturn` is stated for behaviours in which no
  thread dies.
- A kill that comes after its call may hit the next one.  `bsyscall_kill` swaps 1 into
  the word and, when the word said that the thread was through (2), writes 0 in a second
  step (`bsyscalls.c:446`).  In between the thread resets the word, its process goes on
  and makes its next killable call on the same channel; the write wipes the job pointer
  of that call (`wiped`).  A kill of it is then answered -1, "not yet started", and
  cancels nothing, and when the call is over its thread finds the pointer gone, takes
  itself for cancelled (`bsyscalls.c:301-305`) and exits, although nobody killed it; a
  kill that came before the next call started can be lost in the same way.  The process
  is still made runnable once and the call returns (`ReturnsOnce`, `TakenCallsReturn`),
  and `KilledWhileInRegion` says what remains true of the word: nothing but such a write
  and a kill of the call itself takes the pointer out.  It needs two kills of the first
  call, one before it starts and one as it ends; the libraries in `stdlib/bsclib` kill a
  call once.
- `bsyscall_kill` reads the thread out of a job that may be over (`bsyscalls.c:451`).
  The model lets the read find the thread.
- `bsc_cleanup_job` resets the word of a call to 0, so a kill after the end of the
  call answers -1, "not yet started" in the words of
  `stdlib/inmoslibs/libsrc/forall/intrinsics.occ:328-330`, and not 1.

## 5. Proofs

Seven components are proved for all values of their constants, one module each and
two for migration.
The assumptions are the ones named in the modules: the null process (or thread)
is not a process (a thread), the first members of a barrier are processes, the
threads of blocking calls are no schedulers, a signalling pipe holds a byte, a
channel has two ends, the marks for no guard are distinct from the guards, and the
sets that are counted (`Procs` for the barrier, `Procs` and `Threads` for blocking
calls, `Scheds` and `Chans` for ALTs) are finite; for timers, delays are shorter than
half the range of the clock.  Each module has an inductive invariant (`IInv`; `JInv`
for the second layer of migration, `TimerInv` for ALTs with timers), one lemma per
action, and gets its other theorems from it; the invariants were checked by TLC on the
instance of the run before they were proved.

| Module | Theorem | Statement |
|---|---|---|
| `CcspSemProofs` | `TypeCorrect` | `Spec => []TypeOK` |
| | `Exclusion` | `Spec => []MutualExclusion` |
| | `NoDoubleScheduling` | `Spec => []ScheduledOnce` |
| | `TokenKept` | `Spec => []NeverLost` |
| | `Refinement` | `Spec => Abs!Spec`, the FIFO lock |
| `CcspBarrierProofs` | `TypeCorrect` | `Spec => []TypeOK` |
| | `CountIsExact` | `Spec => []CountExact` |
| | `HeadsAreFound` | `Spec => []NoHeadForgotten` |
| | `BarrierIsImplemented` | `Spec => ImplementsBarrier`, that is, `Abs!Spec` |
| `CcspBscProofs` | `TypeCorrect` | `Spec => []TypeOK` |
| | `CallReturnsOnce` | `Spec => []ReturnsOnce` |
| | `PendingExact` | `Spec => []PendingCoversCalls` |
| | `ThreadsJoined` | `Spec => []ThreadsAccounted` |
| | `KillHitsItsCall` | `Spec => []KilledWhileInRegion` |
| `CcspMailProofs` | `SleepersAreWoken` | `Spec => []NobodySleepsOverMail` |
| | `MailIsScheduling` | `Spec => ImplementsScheduling`, that is, `Abs!Spec` |
| `CcspAltProofs` | `ScheduledOnce` | `OneChannel` implies `Spec => []NeverScheduledTwice` |
| | `StateWordKept` | `OneChannel` implies `Spec => []StateWordNotReused` |
| | `ReferencesExact` | `OneChannel` implies `Spec => []ReferencesCounted` |
| | `SelectionByPriority` | `OneChannel` implies `Spec => []SelectedByPriority` |
| | `ChannelsAreRendezvous` | `OneChannel` implies `Spec => ImplementsRendezvous`, that is, `R!Spec` |
| `CcspTimerProofs` | `TimerTypes` | `TimerSpec => []TimerTypeOK` |
| | `TimerInvariance` | `OneChannel` implies `TimerSpec => []TimerInv` |
| | `ScheduledOnceWithTimers` | `OneChannel` implies `TimerSpec => []NeverScheduledTwice` |
| | `StateWordKeptWithTimers` | `OneChannel` implies `TimerSpec => []StateWordNotReused` |
| | `NodesNotReused` | `OneChannel` implies `TimerSpec => []NodeNotReused` |
| | `TimerReferencesExact` | `OneChannel` implies `TimerSpec => []TimerReferencesCounted` |
| `CcspMigrateProofs` | `TypeCorrect` | `Spec => []TypeOK` |
| | `AssertionsHold` | `Spec => []BatchesAsAsserted` |
| | `NoReuseWhileStolen` | `Spec => []StolenNotReused` |
| | `VisibleFound` | `Spec => []VisibleBatchesFound` |
| `CcspMigrateSchedProofs` | `PlacesInvariance` | `Spec => []JInv` |
| | `AffinityHolds` | `Spec => []AffinityRespected` |
| | `MigrateIsScheduling` | `Spec => ImplementsScheduling`, that is, `Abstract!Spec` |

### Semaphores

The right to the semaphore is a **token**: bit 0 of `bptr` set, or a process that
holds the semaphore, or a scheduler in `sem_dequeue` (or in the tail of a
`sem_claim` that took bit 0 with it).  The conjuncts of `IInv`:

- `Token`: there is exactly one token, in one place;
- `Chain`: the queue is connected: `bptr` is the last waiting process, and each
  process's link is the next one unless the scheduler that enqueued the next one
  has not written it yet; likewise `fptr` and the first;
- `Pending`: what the half-done enqueues still have to write, at most one per
  process and each for two neighbours of the queue;
- `Dequeuing`: what the token's scheduler knows in each step of `sem_dequeue`, in
  particular that `front[s]` is the head of the queue;
- `Running`, `RunQueued`, `Granting`, `Control`: a process is in exactly one
  place, waiting, running, on a run queue or about to be granted;
- `TypeOK` and `NeverLost`.

### Barriers

The difficulty is that up to three parties empty a head of the phase that is over:
its own scheduler in `bar_complete` or in a `bar_sync` of the next phase, and the
scheduler that completes.  Meanwhile the first processes are back.  What keeps them
apart is that a head has one of two tags, and that a phase cannot end under a
running process.  The conjuncts of `IInv`:

- `Places`: an enrolled process is runnable, run by one scheduler, in one head, or
  on its way out of one; a running process is in a head only just before its
  compare-and-swap;
- `Phases`: a head with the current tag has its bit set and holds processes that
  wait; one with another tag still has to be looked at by the `bar_complete` that
  runs;
- `Syncing`: the state that `bar_sync` has read is not stale where it matters: no
  phase ends between the read and the compare-and-swap, so the tag is the same, and
  `BAR_SYNCING` can only have been cleared;
- `Completion`: there is one `bar_complete` while `BAR_SYNCING` is set, and none
  otherwise; when it finds everybody back, everybody waits;
- `Counted`: the count of the state word plus those that wait and those that are let
  go and not counted yet is the number enrolled (plus one).

`Counted` carries the argument: with a running process the count cannot be the one
that lets a phase end (`CountRunner`, `NotEnding`), and when the count is 1 every
other scheduler is in `kernel_scheduler` (`LastAlone`).  The proof shows a little
more than `NoHeadForgotten` asks: the bit that `bar_complete` puts back for a head of
the new phase (`sched.c`, `NextHead` and `SetBit`) is always set already.  For the
refinement, `Released` is shown to be what is in heads of the last phase or taken out
of one (`Mapped`); then every action is `Sync`, `Resign`, `Complete`, `Enroll`,
`Release` or a stuttering step.

### Blocking system calls

- `Placed`: a process runs, or is in the job queue once, or is served by one thread;
- `Hit` and `Aimed`: a kill that has taken the job out of the word cancels the thread
  only in the part of the code between its swap and its compare-and-swap, or after it
  has begun to die;
- `Explained`: between the two the word points to the job, or a kill is about to cancel
  the thread, or the late write of an earlier kill has wiped the pointer
  (`KilledWhileInRegion` is `Hit` and `Explained`);
- `Joined`: the threads that have left form a chain of which each is joined by one
  other and the last is in `reap`;
- `Counted`: `running`, `pending` and `waiting` against the sets they count.

The counters are stated over sets, and `Cardinality` comes in only where a set gains
or loses one element (`CardStep`).

### Mail

A mail box has no lock: senders swap `bptr` and connect what they have sent later,
each in its own time, while the owner takes from the front and may empty the box
under them.  `IInv` follows the mail in the history `mailq`:

- `Placed`: a process runs on one scheduler, or is in one local queue, or in a
  blocking call, or travels: in the hands of one thread, at one place of one box,
  or both, between the swap and the link;
- `Chained`: what `fptr`, `bptr` and the link words say agrees with `mailq`, as far
  as it has been written.  While the owner is between its two compare-and-swaps
  (`Clearing`) the item in front belongs to it and the chain begins at the second;
- `Linked` and `Linkers`: each place whose word is unwritten has a sender that is
  about to write it, and each sender has such a place.  A sender whose swap found
  the box empty writes `fptr`, the others the link of the item before theirs;
- `Taking`: the owner's `ptr` is still the front when it uses it; behind an item
  that it could not swap off the back there is another;
- `Noticed`: a box with a front has its bit in the sync word or in the owner's copy
  of it, or a sender still has to set the bit.  This is why the owner may give up
  on a box whose next item is not linked yet: the sender that links it sets the bit
  afterwards (`GiveUpStep`);
- `Awaited` and `Roused`: a scheduler that somebody has struck off
  `sleeping_threads` will find a bit in its sync word, so that it does not
  wait for a byte nobody writes; one that reads its empty pipe with a bit set has a
  thread that will write the byte.

For the refinement, `Runnable` is the union of the queues and of all that travels.
Sending, linking and taking are stuttering steps of it; `Dispatch` and `Migrate` are
`Dispatch`, and the steps of the running process and of the blocking call threads are
`Enqueue`, `Deschedule` and `Requeue`.  `NoFalseDeadlock` is no theorem: the run
`mail_false_deadlock` refutes it for three schedulers.

### Channels and ALT

The theorems are about every number of schedulers, processes and channels, and every
set of ALTs over channels and `SKIP` in the code of each process, under one condition on
these ALTs, `OneChannel` of `CcspAlt`: for the jumping instructions of occam it asks
nothing; the plain instructions have a channel only as first guard, `ProcAlt` only as
last.  It is not a convenience.  With a channel behind a guard that can be ready the code
is wrong: `ProcAlt` skips `ALTWT` with `ALT_ENABLING` set and never gets past `ALTEND` (run
`alt_procalt_hang`), and the plain instructions go on to enable the channel with
`ALT_ENABLING` cleared, where a partner that comes before the late count of `kernel_enbc`
sees a count of 1 and puts a running process on a run queue.  TLC evaluates the condition
for the ALTs of the runs (`SafeAltsAreOneChannel`, `TimerAltsAreOneChannel`).

The invariant has to say three things at once.

*Where everybody is.*  A process is on one run queue, run by one scheduler, about to be
enqueued by one, or `Off` (`OnceAt`).  `RunAt` says what a scheduler runs at each label,
`HoldAt` that the partner whose workspace it has read from a channel word still sleeps
there (`HeldBy`), and `ChanAt` what a channel word says of the two ends: a process in it
sleeps in it or is about to be taken out, an ALT in it is at a place of its code where
it may be (`AltIn`).

*How the ALT goes on.*  `ListAt`: the guards still to be enabled are the rest of the list,
those to be disabled the rest of an enabled prefix, in reverse for occam.  `FlagsAt`: a
process in an ALT is asleep exactly when `ALT_WAITING` is set, and `ALT_ENABLING` is set
until it has found a guard ready.  `EnabledAt`, `SelectedAt`: if `ALT_NOT_READY` is clear or
somebody is on the way into `trigger_alt_guard`, then a guard that has been enabled is
ready, and stays so until it is selected.  `FirstAt`: no guard of `ready0` has been passed
over; this is where the reverse order of `NDISC` matters, since every ready guard
overwrites the selection.

*The reference count* (`CountAt`).  It is the process's own reference, one for each channel
that it is in and one for each trigger that is coming, but `kernel_enbc` counts a channel
after it is in it and `kernel_disc` drops it after it has left.  Because the count is exact, a
trigger with a count of 1 and `ALT_ENABLING` clear is the last one, and the process has
given up its own reference in `ALTEND` and sleeps there (`WakesAsleep`): that is the only
way to wake it without `ALT_WAITING`.

Each action has a lemma of its own.  Most touch one process; `StepFrame` says what is left
to show of such a step, and that other processes, schedulers and channels stay as they
are.  For the refinement, the beginning of `kernel_chan_io` is `Offer` (`OfferStep`), the
copy is `Transfer` (`TransferStep`), and all else is a stuttering step.

### Timers

A node has two owners: the queue it was put into, which gives it up by clearing the
dirty bit, and the process that waits on it, which gives it up by setting the released
bit.  Neither looks at the other's bit; `NodeInv` says what each bit stands for.

- `QueueAt`: a node is in one queue at most, once, that of its scheduler; there it is
  dirty, unless it is the node of a TIN, which is not released before the walk
  wakes its process;
- `WalkAt`: a node that a walk has taken out and is challenging is dirty, in no queue,
  and the walk's alone;
- `HeldAt`: a node of an ALT that is not released is in `TLink` of one process or in
  the hands of the one scheduler that disables a timer guard of it;
- `CasAt`: the node that TALTWT has put into the queue of its own scheduler is still
  there when the compare-and-swap fails and takes it out again.

That these are kept takes one fact about processes, that no two schedulers run the same
one: nobody else follows `TLink` of a process that is in the kernel.  With timers this is
as hard as for channels, and the answer is the same invariant.  `IInv` of `CcspAltProofs`
has a parameter, `tm`: how many references besides those of channels and triggers each ALT
has, and who is asleep for another reason than a channel.  `CcspAltProofs` proves that
every step of `Next` keeps it whatever `tm` is, and its theorems about `Spec` are the case
`NoTimers`; with timers it is `TimersNow`, what the nodes say:

- `NodeRef`: an ALT has a reference more while its workspace is in a node, or while
  `kernel_dist` has taken it out of there and has not uncounted it; not yet while
  `TALTWT` has filled the node in and not counted it;
- the sleepers are the processes in TIN (`wait`).

`Link` is what ties nodes to processes.

- `OwnerAt`: a node with the workspace of an ALT is in its `TLink` or in the hands of
  the scheduler that disables its guard, and `Somewhere`: in a queue, taken out by a walk
  that has not challenged it yet, or taken back by the disabling; a node with the workspace
  of a TIN is that process's only one, and not dirty; a node in the hands of
  `kernel_dist` whose workspace is still there can only be one no walk will touch;
- `LinkAt`: `TLink` is a node only in `TALTWT`, before it sleeps, and while a timer guard
  is still to be disabled, so ALTEND never leaves a node behind;
- `HandsAt`: what a scheduler in `TALTWT` or `kernel_dist` knows of that node.

So the workspace leaves the node once, by the walk's swap or by the disabling's, and with it
goes the reference: to a trigger, or back.  `ChallengeInv` is the walk's side (the ALT it
has taken the workspace of is disabling or asleep before it, and its count covers the
trigger), `DistDecKeeps` the other.  Each action has a lemma `...Keeps`.  Most are steps
`Aside`, which change no node and no owner; the others handle one node (`Handles`), and
what is left to show is about that node (`HandledLink`) and its process (`HandledSame`).
`NodeRefIs` counts: the sets of `TimerReferences` have one element between them.

`Without`, a queue without some of its nodes, is defined by the ranks of what is kept
and not by the recursive `SelectSeq`, which the provers cannot unfold; `WithoutFacts`
says that it keeps nodes, each at most as often as before, and nothing that is to go.

### Migration

The assumptions are those of `MigrateAssumption`: the numbers are positive, the null
process and the null batch are none, the program starts with a process on a
scheduler, and affinities are sets of schedulers.  A batch is known to its owner and,
through a slot, to everybody; the bit of the slot, the slot, the dirty bit and the
window number are separate words.  The conjuncts of `IInv`:

- `OwnedAt` and `ApartAt`: the run queue, the free list, the laundry, the pending batch
  and the batch that is being added or withdrawn are disjoint, without repetition, and
  the scheduler's own;
- `StockedAt`, `LinedAt`: a free batch is as good as new, and a batch of the run queue
  that nobody has stolen holds processes and is clean unless it has a window number;
- `ShownAt`: what is in slot `w` has window number `w`, is dirty, and is in the run
  queue or about to be.  So a batch is in one slot at most, and one without a window
  number in none: the owner may take it without looking (`PullOwnStep`);
- `FoundAt`: the statement of `VisibleBatchesFound` about the bits;
- `Stolen`: a batch that a thief holds is dirty, no longer in its slot, still in the
  queue or laundry of its owner, and held by one thief.  That it is dirty keeps the
  laundry from giving it back (`CleanFacts`), that it is not in its slot keeps the
  owner from taking it or from reclaiming it when it fills the slot again
  (`ReplaceShown`);
- `Control`: what a scheduler does fits where it is; a thief looks at nobody that has
  no work, hence never at itself.

A step of an owner is shown to preserve what it says of the owner, and to leave alone
what thieves hold (`OwnerStep`).

`CcspMigrateSchedProofs` adds the processes to this.  A batch *waits* while somebody
will still load it (`Waits`): it is in its slot, its owner's pending batch, on its way
into or out of the queue, an unpublished batch of the queue, or in the hands of a
thief.  A place is a processor, a mail box, a current batch or a batch that waits.  The
invariant `JInv`, given `IInv`, has two parts:

- `Apart`: a process is in one place, and once;
- `Tied`: the processes of a current batch have the affinity the scheduler runs under,
  those of a pending batch the affinity it was built for, those of any other waiting
  batch share one that allows its owner, and those of a batch with a window number have
  none, so that any thief may run them; every affinity was chosen by its process.

The step of a scheduler changes a few places, and each lemma says only what it does to
them: a batch passes from one holder to the next (`BatPassed`), a new pending batch
takes the processes of the current one (`Pended`), the current batch is loaded.  That
`Apart` is kept and that the step is one of `Scheduling` both follow from there
(`Moves`): what a step does to batches is a stuttering step, and enqueueing, descheduling
and dispatching are what their names say.  Stealing is where the first layer is needed:
that a thief's batch is in no slot and with no other thief means that it waits in one place.

### Only model-checked

`NobodyEarly` (`CcspTimer`), which is about differences of times that wrap around;
`NoFalseDeadlock`, which holds for two schedulers and not for three (run `mail_false_deadlock`); liveness
(`EveryoneGetsThrough`, `TakenCallsReturn`, `CallsReturn`, `MailDelivered` and the
others): fairness and `ENABLED` are outside what the proof system handles.

## 6. Not modelled

See `components` in `PROJECT.json`.  Left for the plan above: the other barriers,
PAR, mobile types, the Transterpreter.  Left out for good: the compiler and
translator (batch programs without concurrent state, nine tenths of the
repository's C), memory allocation and copying of workspaces, register-level
entry code, terminal and signal set-up, generated wrappers of C libraries,
tracing, libraries and tests.
