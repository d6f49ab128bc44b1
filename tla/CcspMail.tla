------------------------------- MODULE CcspMail ------------------------------
(***************************************************************************)
(* Mail between CCSP schedulers, and how a scheduler goes to sleep, is     *)
(* woken and detects deadlock: kernel_scheduler, mail_process, mail_batch, *)
(* the lock-free mail boxes (atomic_enqueue_to_runqueue and                *)
(* atomic_dequeue_from_runqueue), ccsp_wake_thread and ccsp_safe_pause.    *)
(*                                                                         *)
(* A process whose affinity excludes the scheduler that makes it runnable  *)
(* is mailed to a scheduler it may run on, a thread that has finished a    *)
(* blocking call mails the batch of the calling process.  One action is    *)
(* one access to a shared word.  Run queues and migration windows are one  *)
(* set of processes per scheduler; timers are left out.                    *)
(***************************************************************************)
EXTENDS Integers, FiniteSets, Sequences

CONSTANTS Scheds,      \* the schedulers, all enabled (enabled_threads)
          Procs,       \* the processes
          NotProcess,  \* NotProcess_p and NULL
          Bscs,        \* the threads that execute blocking calls
          First,       \* the scheduler that starts the program
          Main,        \* the first process of the program
          Affinities,  \* Affinities[p]: the affinities p may have, {} for anywhere
          Callers,     \* the processes that make blocking calls
          PipeSize     \* how many bytes the signalling pipe of a scheduler holds

ASSUME MailAssumption ==
  /\ NotProcess \notin Procs /\ Bscs \cap Scheds = {}
  /\ First \in Scheds /\ Main \in Procs
  /\ \A p \in Procs : Affinities[p] # {} /\ Affinities[p] \subseteq SUBSET Scheds
  /\ Callers \subseteq Procs
  /\ PipeSize \in Nat \ {0}

Threads == Scheds \cup Bscs
Boxes == {"bmail", "pmail"}
Null == NotProcess

VARIABLES pc,        \* pc[t]: where thread t is
          affinity,  \* affinity[p]: where p may run, {} for anywhere
          cur,       \* cur[s]: the process s runs
          local,     \* local[s]: processes in the run queues and batches of s
          fptr,      \* fptr[s][b], bptr[s][b]: mail box b of s
          bptr,
          link,      \* link[p]: link word of a process (next of its batch)
          sync,      \* sync[s]: the sync word, a set of bits
          sleeping,  \* sleeping_threads
          idle,      \* idle_threads
          pipe,      \* pipe[s]: bytes in the signalling pipe of s
          pending,   \* number of blocking calls not yet answered
          calls,     \* processes whose blocking call has not been finished
          got,       \* got[s]: sync bits s has taken out of its sync word
          seen,      \* seen[s]: idle_threads as read by the deadlock check of s
          ptr,       \* ptr[s]: the front of the mail box s takes mail from
          item,      \* item[t]: the process t mails,
          to,        \* to[t]: the scheduler it mails it to or wakes,
          box,       \* box[t]: the mail box or the sync bit,
          back,      \* back[t]: what bptr held before
          mailq      \* history: mailq[s][b], mail in the order of its enqueues

mailVars == <<fptr, bptr, link, mailq>>
sleepVars == <<sync, sleeping, idle, pipe>>
callVars == <<pending, calls>>
postVars == <<item, to, box, back>>
localVars == <<got, seen, ptr>>
procVars == <<cur, affinity, local>>
vars == <<pc, procVars, mailVars, sleepVars, callVars, localVars, postVars>>

Init ==
  /\ pc = [t \in Threads |-> IF t \in Bscs THEN "bsc" ELSE "sched"]
  /\ affinity \in {a \in [Procs -> SUBSET Scheds] :
                     /\ \A p \in Procs : a[p] \in Affinities[p]
                     /\ a[Main] = {} \/ First \in a[Main]}
  /\ cur = [s \in Scheds |-> NotProcess]
  /\ local = [s \in Scheds |-> IF s = First THEN {Main} ELSE {}]
  /\ fptr = [s \in Scheds |-> [b \in Boxes |-> Null]]
  /\ bptr = [s \in Scheds |-> [b \in Boxes |-> Null]]
  /\ link = [p \in Procs |-> Null]
  /\ sync = [s \in Scheds |-> {}]
  /\ sleeping = {} /\ idle = {}
  /\ pipe = [s \in Scheds |-> 0]
  /\ pending = 0 /\ calls = {}
  /\ got = [s \in Scheds |-> {}]
  /\ seen = [s \in Scheds |-> {}]
  /\ ptr = [s \in Scheds |-> Null]
  /\ item = [t \in Threads |-> Null]
  /\ to = [t \in Threads |-> First]
  /\ box = [t \in Threads |-> "pmail"]
  /\ back = [t \in Threads |-> Null]
  /\ mailq = [s \in Scheds |-> [b \in Boxes |-> << >>]]

Goto(t, label) == pc' = [pc EXCEPT ![t] = label]
SetBits(s, bits) == sync' = [sync EXCEPT ![s] = @ \cup bits]

(***************************************************************************)
(* Processes that are runnable: in run queues, in mail boxes, or in the    *)
(* hands of a thread that mails them or has just dequeued them.            *)
(***************************************************************************)
Mailed(p) == \E s \in Scheds, b \in Boxes : \E i \in DOMAIN mailq[s][b] : mailq[s][b][i] = p
Posted(p) == \E t \in Threads : item[t] = p
Asleep(p) ==
  /\ \A s \in Scheds : cur[s] # p /\ p \notin local[s]
  /\ p \notin calls /\ ~Mailed(p) /\ ~Posted(p)

(***************************************************************************)
(* mail_process and mail_batch: t sends p to mail box b of u.              *)
(***************************************************************************)
Post(t, p, u, b) ==
  /\ item' = [item EXCEPT ![t] = p]
  /\ to' = [to EXCEPT ![t] = u]
  /\ box' = [box EXCEPT ![t] = b]
  /\ Goto(t, "mail_swap")
  /\ UNCHANGED back

Targets(a) == IF a = {} THEN Scheds ELSE a

(* The mail is sent and, if need be, the scheduler woken: back to work. *)
Return(t) ==
  /\ Goto(t, CASE t \in Bscs -> "bsc_dec"
                [] t \in Scheds -> IF cur[t] = NotProcess THEN "sched" ELSE "user")
  /\ to' = [to EXCEPT ![t] = First]
  /\ box' = [box EXCEPT ![t] = "pmail"]
  /\ UNCHANGED <<item, back>>

(* atomic_enqueue_to_runqueue: swap bptr, then connect the item. *)
MailSwap(t) ==
  LET u == to[t] b == box[t] p == item[t] IN
  /\ pc[t] = "mail_swap"
  /\ link' = [link EXCEPT ![p] = Null]
  /\ back' = [back EXCEPT ![t] = bptr[u][b]]
  /\ bptr' = [bptr EXCEPT ![u][b] = p]
  /\ mailq' = [mailq EXCEPT ![u][b] = Append(@, p)]
  /\ Goto(t, "mail_link")
  /\ UNCHANGED <<procVars, fptr, sleepVars, callVars, localVars, item, to, box>>

(* Mutant: the item always becomes the front. *)
MailLinkFront(t) ==
  /\ pc[t] = "mail_link"
  /\ fptr' = [fptr EXCEPT ![to[t]][box[t]] = item[t]]
  /\ item' = [item EXCEPT ![t] = Null]
  /\ back' = [back EXCEPT ![t] = Null]
  /\ Goto(t, "mail_sync")
  /\ UNCHANGED <<procVars, link, bptr, mailq, sleepVars, callVars, localVars, to, box>>

MailLink(t) ==
  /\ pc[t] = "mail_link"
  /\ IF back[t] = Null
       THEN fptr' = [fptr EXCEPT ![to[t]][box[t]] = item[t]] /\ UNCHANGED link
       ELSE link' = [link EXCEPT ![back[t]] = item[t]] /\ UNCHANGED fptr
  /\ item' = [item EXCEPT ![t] = Null]
  /\ back' = [back EXCEPT ![t] = Null]
  /\ Goto(t, "mail_sync")
  /\ UNCHANGED <<procVars, bptr, mailq, sleepVars, callVars, localVars, to, box>>

MailSync(t) ==
  /\ pc[t] = "mail_sync"
  /\ SetBits(to[t], {box[t]})
  /\ Goto(t, "mail_look")
  /\ UNCHANGED <<procVars, mailVars, sleeping, idle, pipe, callVars, localVars, postVars>>

MailLook(t) ==
  /\ pc[t] = "mail_look"
  /\ IF to[t] \in sleeping
       THEN Goto(t, "wake_clear") /\ UNCHANGED postVars
       ELSE Return(t)
  /\ UNCHANGED <<procVars, mailVars, sleepVars, callVars, localVars>>

(***************************************************************************)
(* ccsp_wake_thread.  The pipe is written without blocking: a byte that    *)
(* does not fit is dropped.                                                *)
(***************************************************************************)
WakeClear(t) ==
  /\ pc[t] = "wake_clear"
  /\ sleeping' = sleeping \ {to[t]}
  /\ Goto(t, "wake_sync")
  /\ UNCHANGED <<procVars, mailVars, sync, idle, pipe, callVars, localVars, postVars>>

WakeSync(t) ==
  /\ pc[t] = "wake_sync"
  /\ SetBits(to[t], {box[t]})
  /\ Goto(t, "wake_write")
  /\ UNCHANGED <<procVars, mailVars, sleeping, idle, pipe, callVars, localVars, postVars>>

(* Mutant: nothing is written to the pipe. *)
WakeNoWrite(t) ==
  /\ pc[t] = "wake_write"
  /\ Return(t)
  /\ UNCHANGED <<procVars, mailVars, sleepVars, callVars, localVars>>

WakeWrite(t) ==
  /\ pc[t] = "wake_write"
  /\ pipe' = [pipe EXCEPT ![to[t]] = IF @ < PipeSize THEN @ + 1 ELSE @]
  /\ Return(t)
  /\ UNCHANGED <<procVars, mailVars, sync, sleeping, idle, callVars, localVars>>

(***************************************************************************)
(* What the running process does: make another one runnable                *)
(* (enqueue_process), go to sleep, or make a blocking call.                *)
(***************************************************************************)
MayRun(s, a) == a = {} \/ s \in a

EnqueueProcess(s, p) ==
  /\ pc[s] = "user" /\ Asleep(p)
  /\ IF MayRun(s, affinity[p])
       THEN /\ local' = [local EXCEPT ![s] = @ \cup {p}]
            /\ UNCHANGED <<pc, postVars>>
       ELSE /\ \E u \in Targets(affinity[p]) : Post(s, p, u, "pmail")
            /\ UNCHANGED local
  /\ UNCHANGED <<cur, affinity, mailVars, sleepVars, callVars, localVars>>

(* Y_setaff: with a new affinity the process leaves, perhaps by mail. *)
SetAff(s, a) ==
  LET p == cur[s] IN
  /\ pc[s] = "user" /\ a \in Affinities[p] /\ a # affinity[p]
  /\ affinity' = [affinity EXCEPT ![p] = a]
  /\ cur' = [cur EXCEPT ![s] = NotProcess]
  /\ IF MayRun(s, a)
       THEN /\ local' = [local EXCEPT ![s] = @ \cup {p}]
            /\ Goto(s, "sched")
            /\ UNCHANGED postVars
       ELSE /\ \E u \in Targets(a) : Post(s, p, u, "pmail")
            /\ UNCHANGED local
  /\ UNCHANGED <<mailVars, sleepVars, callVars, localVars>>

Deschedule(s) ==
  /\ pc[s] = "user"
  /\ cur' = [cur EXCEPT ![s] = NotProcess]
  /\ Goto(s, "sched")
  /\ UNCHANGED <<affinity, local, mailVars, sleepVars, callVars, localVars, postVars>>

(* kernel_bsc_dispatch: bsyscall_dispatch works under the lock of its pool. *)
BscDispatch(s) ==
  /\ pc[s] = "user" /\ cur[s] \in Callers
  /\ pending' = pending + 1
  /\ calls' = calls \cup {cur[s]}
  /\ cur' = [cur EXCEPT ![s] = NotProcess]
  /\ Goto(s, "sched")
  /\ UNCHANGED <<affinity, local, mailVars, sleepVars, localVars, postVars>>

(* bsc_cleanup_job: the call is over, mail the batch, then count it off. *)
BscCleanupJob(b, p) ==
  /\ pc[b] = "bsc" /\ p \in calls
  /\ calls' = calls \ {p}
  /\ \E u \in Targets(affinity[p]) : Post(b, p, u, "bmail")
  /\ UNCHANGED <<procVars, mailVars, sleepVars, pending, localVars>>

BscDec(b) ==
  /\ pc[b] = "bsc_dec"
  /\ pending' = pending - 1
  /\ Goto(b, "bsc")
  /\ UNCHANGED <<procVars, mailVars, sleepVars, calls, localVars, postVars>>

(***************************************************************************)
(* kernel_scheduler: take the sync word and empty the mail boxes it names. *)
(***************************************************************************)
Scheduler(s) ==
  /\ pc[s] = "sched"
  /\ got' = [got EXCEPT ![s] = sync[s]]
  /\ sync' = [sync EXCEPT ![s] = {}]
  /\ Goto(s, IF sync[s] = {} THEN "pick" ELSE "drain")
  /\ UNCHANGED <<procVars, mailVars, sleeping, idle, pipe, callVars, seen, ptr, postVars>>

(* atomic_dequeue_from_runqueue on the mail box being emptied. *)
Box(s) == IF "bmail" \in got[s] THEN "bmail" ELSE "pmail"
Emptied(s) == got' = [got EXCEPT ![s] = @ \ {Box(s)}]

Drained(s) ==
  /\ pc[s] = "drain" /\ got[s] \cap Boxes = {}
  /\ got' = [got EXCEPT ![s] = {}]
  /\ Goto(s, "pick")
  /\ UNCHANGED <<procVars, mailVars, sleepVars, callVars, seen, ptr, postVars>>

Dequeue(s) ==
  LET f == fptr[s][Box(s)] IN
  /\ pc[s] = "drain" /\ got[s] \cap Boxes # {}
  /\ IF f = Null
       THEN Emptied(s) /\ UNCHANGED <<pc, ptr>>
       ELSE /\ ptr' = [ptr EXCEPT ![s] = f]
            /\ Goto(s, "deq_cas")
            /\ UNCHANGED got
  /\ UNCHANGED <<procVars, mailVars, sleepVars, callVars, seen, postVars>>

(* The read of bptr before the compare-and-swap decides nothing more. *)
DequeueCas(s) ==
  /\ pc[s] = "deq_cas"
  /\ IF bptr[s][Box(s)] = ptr[s]
       THEN bptr' = [bptr EXCEPT ![s][Box(s)] = Null] /\ Goto(s, "deq_clear")
       ELSE Goto(s, "deq_link") /\ UNCHANGED bptr
  /\ UNCHANGED <<procVars, fptr, link, mailq, sleepVars, callVars, localVars, postVars>>

(* push_batch or enqueue_process: the mailed process is runnable here, and *)
(* its link word belongs to the run queues.                                *)
Received(s) ==
  /\ link' = [link EXCEPT ![ptr[s]] = Null]
  /\ local' = [local EXCEPT ![s] = @ \cup {ptr[s]}]
  /\ mailq' = [mailq EXCEPT ![s][Box(s)] = Tail(@)]
  /\ ptr' = [ptr EXCEPT ![s] = Null]
  /\ Goto(s, "drain")

DequeueClear(s) ==
  /\ pc[s] = "deq_clear"
  /\ fptr' = [fptr EXCEPT ![s][Box(s)] = IF @ = ptr[s] THEN Null ELSE @]
  /\ Received(s)
  /\ UNCHANGED <<cur, affinity, bptr, sleepVars, callVars, got, seen, postVars>>

(* With more mail behind the front only its owner writes fptr. *)
DequeueLink(s) ==
  /\ pc[s] = "deq_link"
  /\ IF link[ptr[s]] = Null
       THEN /\ Emptied(s)
            /\ ptr' = [ptr EXCEPT ![s] = Null]
            /\ Goto(s, "drain")
            /\ UNCHANGED <<affinity, local, fptr, link, mailq>>
       ELSE /\ fptr' = [fptr EXCEPT ![s][Box(s)] = link[ptr[s]]]
            /\ Received(s)
            /\ UNCHANGED got
  /\ UNCHANGED <<cur, affinity, bptr, sleepVars, callVars, seen, postVars>>

(***************************************************************************)
(* Run a local process; with more work that could migrate, first wake a    *)
(* sleeping scheduler.                                                     *)
(***************************************************************************)
Migratable(s) == {p \in local[s] : affinity[p] = {}}

Run(s, p) ==
  /\ cur' = [cur EXCEPT ![s] = p]
  /\ local' = [local EXCEPT ![s] = @ \ {p}]

Dispatch(s, p) ==
  /\ pc[s] = "pick" /\ p \in local[s]
  /\ Run(s, p)
  /\ IF Migratable(s) \ {p} # {} /\ sleeping # {}
       THEN /\ \E u \in sleeping : to' = [to EXCEPT ![s] = u]
            /\ box' = [box EXCEPT ![s] = "work"]
            /\ Goto(s, "wake_clear")
            /\ UNCHANGED <<item, back>>
       ELSE Goto(s, "user") /\ UNCHANGED postVars
  /\ UNCHANGED <<affinity, mailVars, sleepVars, callVars, localVars>>

(* migrate_some_work: from a scheduler that is awake. *)
Migrate(s, u, p) ==
  /\ pc[s] = "pick" /\ local[s] = {}
  /\ u \notin sleeping /\ u # s /\ p \in Migratable(u)
  /\ cur' = [cur EXCEPT ![s] = p]
  /\ local' = [local EXCEPT ![u] = @ \ {p}]
  /\ Goto(s, "user")
  /\ UNCHANGED <<affinity, mailVars, sleepVars, callVars, localVars, postVars>>

(***************************************************************************)
(* Nothing to do: after some spinning, announce to sleep and look again.   *)
(***************************************************************************)
Sleep(s) ==
  /\ pc[s] = "pick" /\ local[s] = {}
  /\ sleeping' = sleeping \cup {s}
  /\ Goto(s, "check")
  /\ UNCHANGED <<procVars, mailVars, sync, idle, pipe, callVars, localVars, postVars>>

Check(s) ==
  /\ pc[s] = "check"
  /\ Goto(s, IF sync[s] = {} THEN "set_idle" ELSE "unsleep")
  /\ UNCHANGED <<procVars, mailVars, sleepVars, callVars, localVars, postVars>>

Unsleep(s) ==
  /\ pc[s] = "unsleep"
  /\ sleeping' = sleeping \ {s}
  /\ Goto(s, "sched")
  /\ UNCHANGED <<procVars, mailVars, sync, idle, pipe, callVars, localVars, postVars>>

SetIdle(s) ==
  /\ pc[s] = "set_idle"
  /\ idle' = idle \cup {s}
  /\ Goto(s, "pending")
  /\ UNCHANGED <<procVars, mailVars, sync, sleeping, pipe, callVars, localVars, postVars>>

(***************************************************************************)
(* The deadlock check: no blocking call, then the words idle_threads and   *)
(* sleeping_threads are read one after the other.                          *)
(***************************************************************************)
(* Mutant: >= instead of >. *)
CheckPendingZero(s) ==
  /\ pc[s] = "pending"
  /\ Goto(s, IF pending >= 0 THEN "pause" ELSE "read_idle")
  /\ UNCHANGED <<procVars, mailVars, sleepVars, callVars, localVars, postVars>>

CheckPending(s) ==
  /\ pc[s] = "pending"
  /\ Goto(s, IF pending > 0 THEN "pause" ELSE "read_idle")
  /\ UNCHANGED <<procVars, mailVars, sleepVars, callVars, localVars, postVars>>

ReadIdle(s) ==
  /\ pc[s] = "read_idle"
  /\ seen' = [seen EXCEPT ![s] = idle]
  /\ Goto(s, "read_sleeping")
  /\ UNCHANGED <<procVars, mailVars, sleepVars, callVars, got, ptr, postVars>>

(* Mutant: only idle_threads counts. *)
IgnoreSleeping(s) ==
  /\ pc[s] = "read_sleeping"
  /\ Goto(s, IF seen[s] = Scheds THEN "deadlock" ELSE "pause")
  /\ seen' = [seen EXCEPT ![s] = {}]
  /\ UNCHANGED <<procVars, mailVars, sleepVars, callVars, got, ptr, postVars>>

ReadSleeping(s) ==
  /\ pc[s] = "read_sleeping"
  /\ Goto(s, IF seen[s] \cap sleeping = Scheds THEN "deadlock" ELSE "pause")
  /\ seen' = [seen EXCEPT ![s] = {}]
  /\ UNCHANGED <<procVars, mailVars, sleepVars, callVars, got, ptr, postVars>>

(* ccsp_safe_pause: until the sync word is not zero, read a byte. *)
Pause(s) ==
  /\ pc[s] = "pause"
  /\ got' = [got EXCEPT ![s] = sync[s]]
  /\ sync' = [sync EXCEPT ![s] = {}]
  /\ Goto(s, IF sync[s] = {} THEN "read" ELSE "restore")
  /\ UNCHANGED <<procVars, mailVars, sleeping, idle, pipe, callVars, seen, ptr, postVars>>

Read(s) ==
  /\ pc[s] = "read" /\ pipe[s] > 0
  /\ pipe' = [pipe EXCEPT ![s] = @ - 1]
  /\ Goto(s, "pause")
  /\ UNCHANGED <<procVars, mailVars, sync, sleeping, idle, callVars, localVars, postVars>>

(* Mutant: the flags that ended the pause are forgotten. *)
RestoreLost(s) ==
  /\ pc[s] = "restore"
  /\ got' = [got EXCEPT ![s] = {}]
  /\ Goto(s, "clear_idle")
  /\ UNCHANGED <<procVars, mailVars, sleepVars, callVars, seen, ptr, postVars>>

Restore(s) ==
  /\ pc[s] = "restore"
  /\ SetBits(s, got[s])
  /\ got' = [got EXCEPT ![s] = {}]
  /\ Goto(s, "clear_idle")
  /\ UNCHANGED <<procVars, mailVars, sleeping, idle, pipe, callVars, seen, ptr, postVars>>

ClearIdle(s) ==
  /\ pc[s] = "clear_idle"
  /\ idle' = idle \ {s}
  /\ Goto(s, "sched")
  /\ UNCHANGED <<procVars, mailVars, sync, sleeping, pipe, callVars, localVars, postVars>>

Mail(t) ==
  \/ MailSwap(t) \/ MailLink(t) \/ MailSync(t) \/ MailLook(t)
  \/ WakeClear(t) \/ WakeSync(t) \/ WakeWrite(t)

Kernel(s) ==
  \/ Mail(s) \/ Scheduler(s)
  \/ Drained(s) \/ Dequeue(s) \/ DequeueCas(s) \/ DequeueClear(s) \/ DequeueLink(s)
  \/ Sleep(s) \/ Check(s) \/ Unsleep(s) \/ SetIdle(s)
  \/ CheckPending(s) \/ ReadIdle(s) \/ ReadSleeping(s)
  \/ Pause(s) \/ Read(s) \/ Restore(s) \/ ClearIdle(s)

User(s) ==
  \/ Deschedule(s) \/ BscDispatch(s) \/ \E a \in SUBSET Scheds : SetAff(s, a)
  \/ \E p \in Procs : EnqueueProcess(s, p)

BscThread(b) == Mail(b) \/ BscDec(b) \/ \E p \in Procs : BscCleanupJob(b, p)

(* ccsp_kernel_deadlock ends the program. *)
Reported == \E s \in Scheds : pc[s] = "deadlock"

Next ==
  /\ ~Reported
  /\ \/ \E b \in Bscs : BscThread(b)
     \/ \E s \in Scheds :
          \/ Kernel(s) \/ User(s)
          \/ \E p \in Procs : Dispatch(s, p) \/ \E u \in Scheds : Migrate(s, u, p)

Spec == Init /\ [][Next]_vars

(***************************************************************************)
(* Threads run, blocking calls end, running processes give way in the end, *)
(* and a local process is not passed over for ever.                        *)
(***************************************************************************)
Fairness ==
  /\ \A b \in Bscs : WF_vars(~Reported /\ BscThread(b))
  /\ \A s \in Scheds :
       /\ WF_vars(~Reported /\ Kernel(s))
       /\ SF_vars(~Reported /\ Deschedule(s))
  /\ \A p \in Procs, s \in Scheds : SF_vars(~Reported /\ Dispatch(s, p))

FairSpec == Spec /\ Fairness

-----------------------------------------------------------------------------
Words == Procs \cup {Null}
SchedLabels == {"sched", "drain", "deq_cas", "deq_clear", "deq_link", "pick", "user",
                "check", "unsleep", "set_idle", "pending", "read_idle",
                "read_sleeping", "pause", "read", "restore", "clear_idle", "deadlock"}
MailLabels == {"mail_swap", "mail_link", "mail_sync", "mail_look",
               "wake_clear", "wake_sync", "wake_write"}

(* Every variable has its type; the count of blocking calls is not negative. *)
TypeOK ==
  /\ pc \in [Threads -> SchedLabels \cup MailLabels \cup {"bsc", "bsc_dec"}]
  /\ affinity \in [Procs -> SUBSET Scheds]
  /\ cur \in [Scheds -> Words] /\ local \in [Scheds -> SUBSET Procs]
  /\ fptr \in [Scheds -> [Boxes -> Words]] /\ bptr \in [Scheds -> [Boxes -> Words]]
  /\ link \in [Procs -> Words]
  /\ sync \in [Scheds -> SUBSET (Boxes \cup {"work"})]
  /\ sleeping \subseteq Scheds /\ idle \subseteq Scheds
  /\ pipe \in [Scheds -> 0..PipeSize]
  /\ pending \in Nat /\ calls \subseteq Procs

(* Mail loses nothing and delivers nothing twice: seen from the kernel     *)
(* calls, a process that was made runnable is resumed by one scheduler,    *)
(* whatever mail boxes, half-done enqueues and migration do to it on the   *)
(* way (atomic_enqueue_to_runqueue, atomic_dequeue_from_runqueue).         *)
Runnable ==
  {p \in Procs : Mailed(p) \/ Posted(p) \/ \E s \in Scheds : p \in local[s]}
Abs == INSTANCE Scheduling WITH running <- cur, runnable <- Runnable
ImplementsScheduling == Abs!Spec

(* No scheduler sleeps over its mail: when it blocks on its empty pipe     *)
(* with sync bits set or mail at the front of a box, some thread is on its *)
(* way to set the bit and to write to the pipe (mail_process against       *)
(* kernel_scheduler and ccsp_safe_pause).                                  *)
OnItsWayTo(s) ==
  \E t \in Threads : to[t] = s /\ pc[t] \in {"mail_link", "mail_sync", "mail_look",
                                              "wake_clear", "wake_sync", "wake_write"}
NobodySleepsOverMail ==
  \A s \in Scheds :
    pc[s] = "read" /\ pipe[s] = 0 /\ (sync[s] # {} \/ \E b \in Boxes : fptr[s][b] # Null)
      => OnItsWayTo(s)

(* Deadlock is reported only when there is nothing left to run: no process *)
(* is running, runnable or in a blocking call (kernel_scheduler, "ALL      *)
(* scheduler threads ... idle+sleeping simultaneously").                   *)
AllAsleep == \A p \in Procs : Asleep(p)
NoFalseDeadlock == Reported => AllAsleep

(* A mailed process runs, unless the program ends before. *)
MailDelivered ==
  \A p \in Procs : Mailed(p) ~> (Reported \/ \E s \in Scheds : cur[s] = p)

(* When no process is left to run, some scheduler reports the deadlock: the *)
(* checks of several schedulers do not keep each other from succeeding.    *)
DeadlockReported == AllAsleep ~> Reported
=============================================================================
