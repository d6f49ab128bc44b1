------------------------------- MODULE CcspBsc -------------------------------
(***************************************************************************)
(* Blocking system calls of CCSP (bsyscalls.c): a process leaves its       *)
(* scheduler, a thread of a pool makes the call for it and makes it        *)
(* runnable again.  Killable calls (Y_bx_dispatch) have a word, shared     *)
(* with the processes that may kill them, that says how far they are.      *)
(* This is one pool; all that pools share is the counter `pending'.        *)
(*                                                                         *)
(* A stretch of code under the lock of a pool is one step.  What is        *)
(* outside the lock is atomic operation by atomic operation: the word,     *)
(* `pending', `running', and when a cancellation arrives.  A process has   *)
(* one word for all its killable calls, so what a kill does late to the    *)
(* word may hit the next call.                                             *)
(*                                                                         *)
(* bsyscall_kill reads the thread out of the job after its swap.  By then  *)
(* the job may be over and its memory used for something else; here the    *)
(* read still finds the thread, and cancelling one that has gone does      *)
(* nothing.                                                                *)
(***************************************************************************)
EXTENDS Integers, Sequences, FiniteSets, Functions

CONSTANTS Procs,     \* the processes that make blocking calls
          Threads,   \* identities of threads (bound: as many can exist)
          MaxKills,  \* bound: the kills that can be under way at the same time
          Pools,     \* pool 0 serves processes without affinity, others one scheduler
          NoProc, NoThread,
          MaxRunning, \* MAX_BSC_THREADS
          MaxMissed   \* bound: how far `waiting' gets ahead of the truth

ASSUME BscAssumption ==
  /\ IsFiniteSet(Procs) /\ NoProc \notin Procs
  /\ IsFiniteSet(Threads) /\ NoThread \notin Threads
  /\ Threads \subseteq Nat /\ Pools \subseteq Nat /\ 0 \in Pools
  /\ MaxRunning \in Nat \ {0} /\ MaxMissed \in Nat /\ MaxKills \in Nat

VARIABLES queue,    \* the jobs from fptr to bptr, by their process
          waiting,  \* threads that wait, as far as the counter knows
          running,  \* threads that have been started and have not left
          reap,     \* to_reap, NoThread while `dead' is 0
          pending,  \* calls that have not been answered
          killable, \* killable[p]: bsc.adjust of the job of p
          word,     \* word[p]: Free, Killed, Over or "job", a pointer to p's job
          pc,       \* pc[t]: where thread t is, "none" if there is no thread t
          job,      \* job[t]: the process t makes the call for
          victim,   \* victim[t]: the thread t has to join as it leaves
          doomed,   \* the threads a kill is about to cancel
          resets,   \* resets[p]: how many kills are about to free the word of p
          wiped,    \* history, wiped[p]: a kill freed the word of p during its call
          runs,     \* runs[p]: how often p is running or runnable
          number,   \* the number of the pool
          exited    \* ccsp_kernel_exit has been called

poolVars == <<queue, waiting, running, reap>>
threadVars == <<pc, job, victim>>
killVars == <<doomed, resets>>
vars == <<poolVars, threadVars, pending, killable, word, killVars, wiped, runs, number,
          exited>>

Free == "0"
Killed == "1"
Over == "2"

(* Between its swap of the word and its compare-and-swap a thread can be    *)
(* cancelled; the handlers pushed before then end the call and the thread.  *)
Region == {"func", "late"}
Dying == {"die", "die_count", "exit", "leave", "join", "zombie"}
Serving(t) == pc[t] \in Region \cup {"plain", "enter", "clean", "die"}
Waiting == {t \in Threads : pc[t] = "wait"}
Missed == waiting - Cardinality(Waiting)

Init ==
  /\ queue = <<>>
  /\ waiting = 0 /\ running = 0
  /\ reap = NoThread
  /\ pending = 0
  /\ killable = [p \in Procs |-> FALSE] /\ word = [p \in Procs |-> Free]
  /\ pc = [t \in Threads |-> "none"]
  /\ job = [t \in Threads |-> NoProc]
  /\ victim = [t \in Threads |-> NoThread]
  /\ doomed = {} /\ resets = [p \in Procs |-> 0]
  /\ wiped = [p \in Procs |-> FALSE]
  /\ runs = [p \in Procs |-> 1]
  /\ number \in Pools /\ exited = FALSE

(***************************************************************************)
(* kernel_bsc_dispatch and bsyscall_dispatch: p is queued and a thread is  *)
(* woken or started for it.  `waiting' goes down for the thread that is    *)
(* signalled, if any thread really waits.                                  *)
(***************************************************************************)
Enqueue(p, x) ==
  /\ ~exited /\ runs[p] > 0
  /\ runs' = [runs EXCEPT ![p] = @ - 1]
  /\ killable' = [killable EXCEPT ![p] = x]
  /\ pending' = pending + 1
  /\ queue' = Append(queue, p)
  /\ UNCHANGED <<word, killVars, wiped, reap, job, victim>>

Signal(p, x) ==
  /\ Enqueue(p, x)
  /\ waiting > 0
  /\ waiting' = waiting - 1
  /\ IF Waiting = {}
     THEN UNCHANGED pc
     ELSE \E t \in Waiting : pc' = [pc EXCEPT ![t] = "look"]
  /\ UNCHANGED <<running, exited>>

(* The identity of a thread that was joined is not given out again while a *)
(* kill is about to use it; of the others any would do.                    *)
Unused == {t \in Threads : pc[t] = "none" /\ t \notin doomed}

MayStart == IF number = 0 THEN running < MaxRunning ELSE running = 0

StartThread(p, x, t) ==
  /\ Enqueue(p, x)
  /\ waiting = 0 /\ MayStart
  /\ t \in Unused /\ \A u \in Unused : t <= u
  /\ pc' = [pc EXCEPT ![t] = "look"]
  /\ running' = IF number = 0 THEN running + 1 ELSE 1
  /\ UNCHANGED <<waiting, exited>>

StartFails(p, x) ==
  /\ Enqueue(p, x)
  /\ waiting = 0 /\ MayStart
  /\ exited' = (running = 0)
  /\ UNCHANGED <<waiting, running, pc>>

(* Every thread is busy, or looks at the queue before it waits. *)
LeaveQueued(p, x) ==
  /\ Enqueue(p, x)
  /\ waiting = 0 /\ ~MayStart
  /\ UNCHANGED <<waiting, running, pc, exited>>

Dispatch(p, x) ==
  /\ UNCHANGED number
  /\ \/ Signal(p, x) \/ StartFails(p, x) \/ LeaveQueued(p, x)
     \/ \E t \in Threads : StartThread(p, x, t)

(***************************************************************************)
(* bsc_thread, under the lock: take a job, or wait for one.  After a wait  *)
(* it comes back here, signalled or not: pthread_cond_timedwait returns a  *)
(* positive number when the minute is over, so the code that takes the     *)
(* thread out of `waiting' and ends it is never reached.  A thread waits   *)
(* only while the queue is empty.                                          *)
(***************************************************************************)
Take(t) ==
  /\ pc[t] = "look" /\ queue # <<>>
  /\ job' = [job EXCEPT ![t] = Head(queue)]
  /\ queue' = Tail(queue)
  /\ pc' = [pc EXCEPT ![t] = IF killable[Head(queue)] THEN "enter" ELSE "plain"]
  /\ UNCHANGED <<waiting, running, reap, victim, pending, killable, word, killVars, wiped,
                 runs>>

(* Mutant: the thread waits without looking at the queue again. *)
WaitUnseen(t) ==
  /\ pc[t] = "look"
  /\ waiting' = waiting + 1
  /\ pc' = [pc EXCEPT ![t] = "wait"]
  /\ UNCHANGED <<queue, running, reap, job, victim, pending, killable, word, killVars, wiped,
                 runs>>

Wait(t) ==
  /\ pc[t] = "look" /\ queue = <<>>
  /\ waiting' = waiting + 1
  /\ pc' = [pc EXCEPT ![t] = "wait"]
  /\ UNCHANGED <<queue, running, reap, job, victim, pending, killable, word, killVars, wiped,
                 runs>>

(* A time-out or a spurious wake-up. *)
Wakeup(t) ==
  /\ ~exited /\ pc[t] = "wait" /\ Missed < MaxMissed
  /\ pc' = [pc EXCEPT ![t] = "look"]
  /\ UNCHANGED <<poolVars, job, victim, pending, killable, word, killVars, wiped, runs,
                 number, exited>>

(***************************************************************************)
(* The call itself, and the protocol on the word of a killable call.       *)
(***************************************************************************)
Move(t, label) ==
  /\ pc' = [pc EXCEPT ![t] = label]
  /\ UNCHANGED <<poolVars, job, victim, pending, killable, killVars, wiped, runs>>

Plain(t) == pc[t] = "plain" /\ Move(t, "clean") /\ UNCHANGED word

Enter(t) ==
  /\ pc[t] = "enter"
  /\ word' = [word EXCEPT ![job[t]] = "job"]
  /\ Move(t, IF word[job[t]] \in {Free, Over} THEN "func" ELSE "late")

(* Mutant: the word is given back without a look at it. *)
FuncBlind(t) ==
  /\ pc[t] = "func"
  /\ word' = [word EXCEPT ![job[t]] = Free]
  /\ Move(t, "clean")

(* Mutant: a thread that finds itself killed waits to be cancelled. *)
FuncAwaitsCancel(t) ==
  /\ pc[t] = "func" /\ word[job[t]] = "job"
  /\ word' = [word EXCEPT ![job[t]] = Free]
  /\ Move(t, "clean")

Func(t) ==
  /\ pc[t] = "func"
  /\ IF word[job[t]] = "job"
     THEN word' = [word EXCEPT ![job[t]] = Free] /\ Move(t, "clean")
     ELSE UNCHANGED word /\ Move(t, "die")

(* Mutant: the word is marked without a look at it. *)
LateBlind(t) ==
  /\ pc[t] = "late"
  /\ word' = [word EXCEPT ![job[t]] = Over]
  /\ Move(t, "clean")

Late(t) ==
  /\ pc[t] = "late"
  /\ word' = [word EXCEPT ![job[t]] = Over]
  /\ Move(t, IF word[job[t]] = "job" THEN "clean" ELSE "die")

(***************************************************************************)
(* bsc_cleanup_job, called or run as a handler: the word is reset and the  *)
(* process made runnable, then `pending' goes down.                        *)
(***************************************************************************)
Clean(t) ==
  LET p == job[t] IN
  /\ pc[t] \in {"clean", "die"}
  /\ word' = IF killable[p] THEN [word EXCEPT ![p] = Free] ELSE word
  /\ runs' = [runs EXCEPT ![p] = @ + 1]
  /\ job' = [job EXCEPT ![t] = NoProc] /\ killable' = [killable EXCEPT ![p] = FALSE]
  /\ wiped' = [wiped EXCEPT ![p] = FALSE]
  /\ pc' = [pc EXCEPT ![t] = IF @ = "clean" THEN "count" ELSE "die_count"]
  /\ UNCHANGED <<poolVars, victim, pending, killVars>>

(* Mutant: a call that ends with its thread stays counted. *)
CountNormal(t) ==
  /\ pc[t] \in {"count", "die_count"}
  /\ pending' = IF pc[t] = "count" THEN pending - 1 ELSE pending
  /\ pc' = [pc EXCEPT ![t] = IF @ = "count" THEN "look" ELSE "exit"]
  /\ UNCHANGED <<poolVars, job, victim, killable, word, killVars, wiped,
                 runs>>

Count(t) ==
  /\ pc[t] \in {"count", "die_count"}
  /\ pending' = pending - 1
  /\ pc' = [pc EXCEPT ![t] = IF @ = "count" THEN "look" ELSE "exit"]
  /\ UNCHANGED <<poolVars, job, victim, killable, word, killVars, wiped,
                 runs>>

(***************************************************************************)
(* bsc_cleanup_prepool and bsc_cleanup_pool: the thread leaves itself to   *)
(* be joined by the next one that leaves and joins the one before.         *)
(***************************************************************************)
(* Mutant: the flag is raised, the thread before it stays to be joined. *)
ExitKeepsFirst(t) ==
  /\ pc[t] = "exit"
  /\ victim' = [victim EXCEPT ![t] = reap]
  /\ reap' = IF reap = NoThread THEN t ELSE reap
  /\ pc' = [pc EXCEPT ![t] = "leave"]
  /\ UNCHANGED <<queue, waiting, running, job, pending, killable, word, killVars, wiped,
                 runs>>

Exit(t) ==
  /\ pc[t] = "exit"
  /\ victim' = [victim EXCEPT ![t] = reap]
  /\ reap' = t
  /\ pc' = [pc EXCEPT ![t] = "leave"]
  /\ UNCHANGED <<queue, waiting, running, job, pending, killable, word, killVars, wiped,
                 runs>>

Leave(t) ==
  /\ pc[t] = "leave"
  /\ running' = running - 1
  /\ pc' = [pc EXCEPT ![t] = IF victim[t] = NoThread THEN "zombie" ELSE "join"]
  /\ UNCHANGED <<queue, waiting, reap, job, victim, pending, killable, word, killVars, wiped,
                 runs>>

Join(t) ==
  /\ pc[t] = "join" /\ pc[victim[t]] = "zombie"
  /\ pc' = [pc EXCEPT ![t] = "zombie", ![victim[t]] = "none"]
  /\ victim' = [victim EXCEPT ![t] = NoThread]
  /\ UNCHANGED <<poolVars, job, pending, killable, word, killVars, wiped,
                 runs>>

(***************************************************************************)
(* bsyscall_kill, from a process that shares p's word: the swap, then the  *)
(* second write to a word that said the thread was through, or the         *)
(* cancellation, which takes effect at once (the threads are cancelled     *)
(* asynchronously) unless the thread is on its way out already.  Outside   *)
(* the region only the handler of the pool would be run.                   *)
(***************************************************************************)
KillSwap(p) ==
  /\ ~exited
  /\ word' = [word EXCEPT ![p] = Killed]
  /\ doomed' = IF word[p] = "job" THEN doomed \cup {t \in Threads : job[t] = p} ELSE doomed
  /\ resets' = IF word[p] = Over THEN [resets EXCEPT ![p] = @ + 1] ELSE resets
  /\ Cardinality(doomed') + FoldFunction(+, 0, resets') <= MaxKills
  /\ UNCHANGED <<poolVars, threadVars, pending, killable, wiped, runs, number, exited>>

(* By now the word may be that of the next call. *)
KillReset(p) ==
  /\ ~exited /\ resets[p] > 0
  /\ word' = [word EXCEPT ![p] = Free]
  /\ wiped' = IF word[p] = "job" THEN [wiped EXCEPT ![p] = TRUE] ELSE wiped
  /\ resets' = [resets EXCEPT ![p] = @ - 1]
  /\ UNCHANGED <<poolVars, threadVars, pending, killable, doomed, runs, number, exited>>

Cancel(t) ==
  /\ ~exited /\ t \in doomed
  /\ pc' = [pc EXCEPT ![t] =
              CASE @ \in Region -> "die" [] @ \in Dying \cup {"none"} -> @ [] OTHER -> "exit"]
  /\ doomed' = doomed \ {t}
  /\ UNCHANGED <<poolVars, job, victim, pending, killable, word, resets, wiped, runs, number,
                 exited>>

ThreadStep(t) ==
  /\ ~exited /\ UNCHANGED <<number, exited>>
  /\ \/ Take(t) \/ Wait(t) \/ Plain(t) \/ Enter(t) \/ Func(t) \/ Late(t)
     \/ Clean(t) \/ Count(t) \/ Exit(t) \/ Leave(t) \/ Join(t)

Next ==
  \/ \E p \in Procs, x \in BOOLEAN : Dispatch(p, x)
  \/ \E t \in Threads : ThreadStep(t) \/ Wakeup(t) \/ Cancel(t)
  \/ \E p \in Procs : KillSwap(p) \/ KillReset(p)

Spec == Init /\ [][Next]_vars

(* The operating system runs every thread, and every system call returns. *)
FairSpec == Spec /\ \A t \in Threads : WF_vars(ThreadStep(t))

-----------------------------------------------------------------------------
TypeOK ==
  /\ queue \in Seq(Procs)
  /\ waiting \in 0..(Cardinality(Threads) + MaxMissed)
  /\ running \in 0..Cardinality(Threads)
  /\ reap \in Threads \cup {NoThread}
  /\ pending \in 0..(2 * Cardinality(Threads) + Cardinality(Procs))
  /\ killable \in [Procs -> BOOLEAN]
  /\ word \in [Procs -> {Free, Killed, Over, "job"}]
  /\ pc \in [Threads -> Region \cup Dying \cup
       {"none", "look", "wait", "plain", "enter", "clean", "count"}]
  /\ job \in [Threads -> Procs \cup {NoProc}]
  /\ victim \in [Threads -> Threads \cup {NoThread}]
  /\ doomed \subseteq Threads
  /\ resets \in [Procs -> Nat] /\ wiped \in [Procs -> BOOLEAN]
  /\ runs \in [Procs -> Nat] /\ number \in Pools /\ exited \in BOOLEAN

(* A process that made a call is queued, or served by one thread, or has   *)
(* been made runnable once, whatever kills and cancellations arrive when:  *)
(* the handler and the normal end of a call never both run.                *)
ReturnsOnce ==
  \A p \in Procs :
    runs[p] + Cardinality({i \in DOMAIN queue : queue[i] = p})
            + Cardinality({t \in Threads : Serving(t) /\ job[t] = p}) = 1

(* The count the deadlock check of the schedulers relies on: a call is     *)
(* counted from before it is queued until after its process is runnable.   *)
PendingCoversCalls ==
  pending = Cardinality({p \in Procs : runs[p] = 0})
            + Cardinality({t \in Threads : pc[t] \in {"count", "die_count"}})

(* Threads leave outside the lock and join each other, and yet `running'   *)
(* counts those that have not left (a pool with affinity makes its calls   *)
(* one after the other), and every thread that has left is joined by at    *)
(* most one other and, but for the last one, by at least one.              *)
ThreadsAccounted ==
  /\ running = Cardinality({t \in Threads : pc[t] \notin {"none", "join", "zombie"}})
  /\ running <= IF number = 0 THEN MaxRunning ELSE 1
  /\ \A t \in Threads : pc[t] \in {"leave", "join", "zombie"} =>
       (IF reap = t THEN 1 ELSE 0) + Cardinality({u \in Threads : victim[u] = t}) = 1

(* A word that points to a job belongs to a thread that can still be       *)
(* cancelled, and one that a kill took out of the word never ends its call *)
(* the normal way.  Conversely the word of a call that is being made       *)
(* points to its job, unless a kill is about to cancel the thread or a     *)
(* kill of an earlier call has freed the word: only then does a thread     *)
(* find its pointer gone and die that no kill is about to cancel.          *)
KilledWhileInRegion ==
  /\ \A p \in Procs : word[p] = "job" =>
       \E t \in Threads : job[t] = p /\ pc[t] \in Region
  /\ \A t \in doomed : pc[t] \in Region \cup Dying \cup {"none"}
  /\ \A t \in Threads : pc[t] \in Region /\ word[job[t]] # "job" =>
       wiped[job[t]] \/ t \in doomed

(* A call that a thread has taken returns, killed or not, even when the    *)
(* thread dies of it.                                                      *)
TakenCallsReturn ==
  \A p \in Procs : (\E t \in Threads : job[t] = p) ~> (runs[p] > 0 \/ exited)

(* As long as no thread dies, every call returns, although `waiting'       *)
(* may count threads that no longer wait and threads cannot be started.    *)
CallsReturn ==
  []((~exited) /\ \A t \in Threads : pc[t] \notin Dying)
    => \A p \in Procs : (runs[p] = 0) ~> (runs[p] > 0)
=============================================================================
