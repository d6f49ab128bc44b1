----------------------------- MODULE CcspMigrate -----------------------------
(***************************************************************************)
(* Batches, run queues and the migration of work between CCSP schedulers.  *)
(*                                                                         *)
(* A scheduler runs the processes of its current batch, keeps one pending  *)
(* batch and a queue of further batches, and makes the batches of its      *)
(* queue that have no affinity visible to the other schedulers through a   *)
(* migration window: a state word (head and bitmap) and a ring of slots.   *)
(* A scheduler without work takes a batch out of a slot of another one     *)
(* (the thief); the batch stays in the queue of its owner, who finds out   *)
(* when it fails to take the batch out of the slot itself, and reuses it   *)
(* only once the thief has marked it clean.                                *)
(*                                                                         *)
(* One priority is modelled.  One action is one access to a shared word    *)
(* (a slot, a state word, mwstate, the state of a batch) together with the *)
(* accesses to the scheduler's own data around it.  Mail boxes are sets,   *)
(* sleeping and waking is left out: CcspMail models both.                  *)
(***************************************************************************)
EXTENDS Integers, FiniteSets, Sequences, SequencesExt

CONSTANTS Scheds,      \* the schedulers, all enabled
          Procs,       \* the processes
          NotProcess,  \* NotProcess_p
          NoBatch,     \* NULL
          MaxCalls,    \* bound: how often processes block or set their affinity
          Starts,      \* the schedulers and processes the program may start with
          Affinities,  \* Affinities[p]: what p may set its affinity to, {} for none
          Size,        \* MWINDOW_SIZE: the slots of a migration window
          Ppd,         \* BATCH_PPD: dispatches per process of a batch
          MaxDisp,     \* BATCH_MD_MASK: the most dispatches of a batch
          PoolSize     \* how many batches a scheduler has

ASSUME MigrateAssumption ==
  /\ NotProcess \notin Procs /\ Starts \subseteq Scheds \X Procs
  /\ \A p \in Procs : Affinities[p] \subseteq SUBSET Scheds
  /\ {Size, Ppd, MaxDisp, PoolSize} \subseteq Nat \ {0} /\ MaxCalls \in Nat
  /\ NoBatch \notin Scheds \X (1..PoolSize)

Batches == Scheds \X (1..PoolSize)
Slots == 1..Size

VARIABLES pc,        \* pc[s]: where scheduler s is
          cur,       \* cur[s]: the process it runs
          affinity,  \* affinity[p]: the affinity in the priofinity of p
          calls,     \* how often processes have blocked or set their affinity
          mail,      \* mail[s]: processes mailed to s
          curb,      \* curb[s]: processes and emptied flag of the current batch,
                     \*   dispatches left and affinity (sched->priofinity)
          pend,      \* pend[s]: rq->pending, and rq->priofinity as flag and affinity
          rq,        \* rq[s]: the run queue, a sequence of batches
          rqstate,   \* rqstate[s]: there may be work in the run queue
          free,      \* free[s]: the free list, a set
          laundry,   \* laundry[s]: batches that are not known to be clean
          bat,       \* bat[b]: processes, dirty bit and window number of batch b
          slot,      \* slot[s][w]: the slots of the migration window of s,
          head,      \* head[s], bm[s]: head and bitmap of its state word
          bm,
          mwstate,   \* mwstate[s]: s may have visible batches
          job,       \* job[s]: the batch s adds, has pulled or has stolen
          ret,       \* ret[s]: where to go once a batch has been added
          thief      \* thief[s]: who to look at, and the victim, head, bitmap
                     \*   and slot of the migration window looked at

schedVars == <<cur, affinity, calls, mail, curb>>
queueVars == <<pend, rq, rqstate, free, laundry, job, ret>>
windowVars == <<slot, head, bm, mwstate>>
vars == <<pc, schedVars, queueVars, bat, windowVars, thief>>

NoCurb == [procs |-> << >>, emptied |-> TRUE, disp |-> Ppd, aff |-> {}]
CleanBatch == [procs |-> << >>, dirty |-> FALSE, win |-> 0]
NoThief(s) == [active |-> {}, victim |-> s, head |-> 0, bm |-> {}, w |-> 0]

(***************************************************************************)
(* Y_rtthreadinit for every scheduler; one of them has the first process   *)
(* of the program.                                                         *)
(***************************************************************************)
Init ==
  /\ pc = [s \in Scheds |-> "sched"]
  /\ cur = [s \in Scheds |-> NotProcess]
  /\ affinity = [p \in Procs |-> {}]
  /\ calls = 0
  /\ mail = [s \in Scheds |-> {}]
  /\ \E st \in Starts :
       curb = [s \in Scheds |-> IF s = st[1] THEN [NoCurb EXCEPT !.procs = <<st[2]>>] ELSE NoCurb]
  /\ pend = [s \in Scheds |-> [batch |-> <<s, 1>>, on |-> FALSE, aff |-> {}]]
  /\ rq = [s \in Scheds |-> << >>]
  /\ rqstate = [s \in Scheds |-> FALSE]
  /\ free = [s \in Scheds |-> {s} \X (2..PoolSize)]
  /\ laundry = [s \in Scheds |-> {}]
  /\ bat = [b \in Batches |-> CleanBatch]
  /\ slot = [s \in Scheds |-> [w \in Slots |-> NoBatch]]
  /\ head = [s \in Scheds |-> 0]
  /\ bm = [s \in Scheds |-> {}]
  /\ mwstate = [s \in Scheds |-> FALSE]
  /\ job = [s \in Scheds |-> NoBatch]
  /\ ret = [s \in Scheds |-> "sched"]
  /\ thief = [s \in Scheds |-> NoThief(s)]

Goto(s, label) == pc' = [pc EXCEPT ![s] = label]

(***************************************************************************)
(* Who holds which processes.  A batch in the queue of its owner that has  *)
(* a window number is the owner's only while it is still in its slot.      *)
(***************************************************************************)
InSlot(s, b) == bat[b].win = 0 \/ slot[s][bat[b].win] = b

JobLive(s) ==
  CASE job[s] = NoBatch -> FALSE
    [] pc[s] \in {"add_state", "add_mw"} -> InSlot(s, job[s])
    [] OTHER -> pc[s] # "steal_mark"

LiveBatches(s) ==
  {b \in ToSet(rq[s]) : InSlot(s, b)}
    \cup (IF pend[s].on THEN {pend[s].batch} ELSE {})
    \cup (IF JobLive(s) THEN {job[s]} ELSE {})

InBatch(p, b) == \E i \in DOMAIN bat[b].procs : bat[b].procs[i] = p

Runnable(p) ==
  \E s \in Scheds :
    \/ p \in mail[s] \/ p \in ToSet(curb[s].procs)
    \/ \E b \in LiveBatches(s) : InBatch(p, b)

Blocked(p) == ~Runnable(p) /\ \A s \in Scheds : cur[s] # p

(***************************************************************************)
(* The current batch: enqueue_to_batch, dequeue_from_batch,                *)
(* calculate_dispatches.  The flag BATCH_EMPTIED stays set once the last   *)
(* process has been dequeued.                                              *)
(***************************************************************************)
CurbWith(s, p) == [curb EXCEPT ![s].procs = Append(@, p)]

Dispatches(n) == IF n * Ppd > MaxDisp THEN MaxDisp ELSE n * Ppd

Dequeue(s, c) ==
  /\ cur' = [cur EXCEPT ![s] = Head(c.procs)]
  /\ curb' = [curb EXCEPT ![s] = [c EXCEPT !.procs = Tail(@),
                                           !.emptied = @ \/ Len(c.procs) = 1]]

EndOfCurb(s) == curb[s].disp <= 0 \/ curb[s].procs = << >>

(***************************************************************************)
(* The free list and the laundry.  Before a batch is allocated from an     *)
(* empty free list the laundry is done: what is clean by now is put on the *)
(* free list.  reinit_batch_t empties a batch; the window number it leaves *)
(* is not read before it is set again, and is forgotten.  Which free batch *)
(* is allocated makes no difference: the one with the lowest number.       *)
(***************************************************************************)
(* Mutant: the laundry returns batches that are still dirty. *)
AllOfLaundry(s) == laundry[s]

CleanIn(s) == {b \in laundry[s] : ~bat[b].dirty}

Washed(washed) == [b \in Batches |-> IF b \in washed THEN CleanBatch ELSE bat[b]]

DoLaundry(s) ==
  /\ free' = [free EXCEPT ![s] = @ \cup CleanIn(s)]
  /\ laundry' = [laundry EXCEPT ![s] = @ \ CleanIn(s)]
  /\ bat' = Washed(CleanIn(s))

ToWash(s) == IF free[s] = {} THEN CleanIn(s) ELSE {}
Stock(s) == free[s] \cup ToWash(s)
Allocated(s) == CHOOSE b \in Stock(s) : \A x \in Stock(s) : b[2] <= x[2]

SetClean(bats, b) == [bats EXCEPT ![b].dirty = FALSE, ![b].win = 0]

(***************************************************************************)
(* add_to_runqueue: a batch of affinity a is added to the run queue, out   *)
(* of sight if it has affinity (add_affine_batch_to_runqueue), visibly     *)
(* otherwise (add_to_visible_runqueue).  Only the owner fills slots, so    *)
(* the test whether the slot is empty and the swap or store that follows   *)
(* are one step: a thief that empties the slot in between makes the swap   *)
(* return NULL.  A batch pushed out of its slot is the owner's alone       *)
(* again.  `bats' are the batches before, `from' is where s goes next.     *)
(***************************************************************************)
IncrementHead(h) == IF h = Size THEN 1 ELSE h + 1

(* Mutant: the batch that was in the slot keeps its window number. *)
KeepOld(bats, old) == bats

ReclaimOld(bats, old) == IF old = NoBatch THEN bats ELSE SetClean(bats, old)

FillSlot(s, b, bats) ==
  LET w == IncrementHead(head[s]) IN
  /\ slot' = [slot EXCEPT ![s][w] = b]
  /\ bat' = ReclaimOld([bats EXCEPT ![b].dirty = TRUE, ![b].win = w], slot[s][w])

AddLocal(s, b) == rq' = [rq EXCEPT ![s] = Append(@, b)]

(* Mutant: batches with affinity are made visible too. *)
HidesNone(a) == FALSE

Hides(a) == a # {}

AddToRunqueue(s, b, a, bats, from) ==
  \/ /\ Hides(a)
     /\ AddLocal(s, b)
     /\ bat' = SetClean(bats, b)
     /\ Goto(s, from)
     /\ UNCHANGED <<slot, job, ret>>
  \/ /\ ~Hides(a)
     /\ FillSlot(s, b, bats)
     /\ job' = [job EXCEPT ![s] = b]
     /\ ret' = [ret EXCEPT ![s] = from]
     /\ Goto(s, "add_state")
     /\ UNCHANGED rq

(* Mutant: the head is updated and the bit is not set. *)
NewStateNoBit(s, w) == head' = [head EXCEPT ![s] = w] /\ UNCHANGED bm

NewState(s, w) ==
  /\ head' = [head EXCEPT ![s] = w]
  /\ bm' = [bm EXCEPT ![s] = @ \cup {w}]

(* The compare-and-swap loop on the state word. *)
AddState(s) ==
  /\ pc[s] = "add_state"
  /\ NewState(s, IncrementHead(head[s]))
  /\ Goto(s, "add_mw")
  /\ UNCHANGED <<schedVars, queueVars, bat, slot, mwstate, thief>>

(* add_to_local_runqueue, and the end of add_to_runqueue. *)
AddMw(s) ==
  /\ pc[s] = "add_mw"
  /\ AddLocal(s, job[s])
  /\ mwstate' = [mwstate EXCEPT ![s] = TRUE]
  /\ job' = [job EXCEPT ![s] = NoBatch]
  /\ ret' = [ret EXCEPT ![s] = "sched"]
  /\ Goto(s, ret[s])
  /\ UNCHANGED <<schedVars, pend, rqstate, free, laundry, bat, slot, head, bm, thief>>

(***************************************************************************)
(* push_batch: processes that left the current batch become the pending    *)
(* batch; a batch that was pending is added to the run queue.              *)
(***************************************************************************)
HasPending(s) == pend[s].on

PushBatch(s, procs, from) ==
  LET b == Allocated(s)
      bats == [Washed(ToWash(s)) EXCEPT ![b].procs = procs]
      old == pend[s]
  IN /\ Stock(s) # {}
     /\ pend' = [pend EXCEPT ![s] = [batch |-> b, on |-> TRUE, aff |-> curb[s].aff]]
     /\ rqstate' = [rqstate EXCEPT ![s] = TRUE]
     /\ free' = [free EXCEPT ![s] = (Stock(s) \ {b}) \cup (IF HasPending(s) THEN {} ELSE {old.batch})]
     /\ laundry' = [laundry EXCEPT ![s] = @ \ ToWash(s)]
     /\ \/ ~HasPending(s) /\ bat' = bats /\ Goto(s, from) /\ UNCHANGED <<rq, slot, job, ret>>
        \/ HasPending(s) /\ AddToRunqueue(s, old.batch, old.aff, bats, from)

(***************************************************************************)
(* enqueue_process for a process p of affinity a on scheduler s: into the  *)
(* current batch, into the pending batch (enqueue_far_process), or by mail *)
(* to a scheduler p may run on.  A pending batch of another affinity is    *)
(* moved to the run queue first.  `from' is where s goes afterwards.       *)
(***************************************************************************)
ToCurb(s, p, a) ==
  /\ curb[s].aff = a /\ (a = {} \/ s \in a)
  /\ curb' = CurbWith(s, p)
  /\ UNCHANGED <<queueVars, bat, slot>>

SameBatch(s, a) ==
  IF a = {} THEN pend[s].aff = {} ELSE ~pend[s].on \/ pend[s].aff = a

ToPending(s, p, a, from) ==
  /\ curb[s].aff # a /\ (a = {} \/ s \in a)
  /\ rqstate' = [rqstate EXCEPT ![s] = TRUE]
  /\ \/ /\ SameBatch(s, a)
        /\ pend' = [pend EXCEPT ![s].on = TRUE, ![s].aff = a]
        /\ bat' = [bat EXCEPT ![pend[s].batch].procs = Append(@, p)]
        /\ Goto(s, from)
        /\ UNCHANGED <<free, laundry, job, ret, rq, slot>>
     \/ /\ ~SameBatch(s, a)
        /\ Stock(s) # {}
        /\ LET b == Allocated(s)
               bats == [Washed(ToWash(s)) EXCEPT ![b].procs = Append(@, p)]
           IN /\ pend' = [pend EXCEPT ![s] = [batch |-> b, on |-> TRUE, aff |-> a]]
              /\ free' = [free EXCEPT ![s] = Stock(s) \ {b}]
              /\ laundry' = [laundry EXCEPT ![s] = @ \ ToWash(s)]
              /\ AddToRunqueue(s, pend[s].batch, pend[s].aff, bats, from)

EnqueueProcess(s, p, a, from, delivered) ==
  \/ ToCurb(s, p, a) /\ Goto(s, from) /\ mail' = delivered
  \/ ToPending(s, p, a, from) /\ mail' = delivered /\ UNCHANGED curb
  \/ /\ a # {} /\ s \notin a
     /\ \E u \in a : mail' = [delivered EXCEPT ![u] = @ \cup {p}]
     /\ Goto(s, from)
     /\ UNCHANGED <<curb, queueVars, bat, slot>>

(***************************************************************************)
(* The running process makes another one runnable (any kernel call that    *)
(* calls enqueue_process), pauses (Y_pause), blocks, or sets its affinity. *)
(***************************************************************************)
Wake(s, p) ==
  /\ pc[s] = "user" /\ Blocked(p)
  /\ EnqueueProcess(s, p, affinity[p], "user", mail)
  /\ UNCHANGED <<cur, affinity, calls, head, bm, mwstate, thief>>

(* save_priofinity: a process that has an affinity keeps it. *)
SavedAffinity(s, p) == IF affinity[p] # {} THEN affinity[p] ELSE curb[s].aff

Leave(s) == cur' = [cur EXCEPT ![s] = NotProcess]

Pause(s) ==
  /\ pc[s] = "user"
  /\ affinity' = [affinity EXCEPT ![cur[s]] = SavedAffinity(s, cur[s])]
  /\ curb' = CurbWith(s, cur[s])
  /\ Leave(s)
  /\ Goto(s, "sched")
  /\ UNCHANGED <<calls, mail, queueVars, bat, windowVars, thief>>

Block(s) ==
  /\ pc[s] = "user" /\ calls < MaxCalls
  /\ calls' = calls + 1
  /\ affinity' = [affinity EXCEPT ![cur[s]] = SavedAffinity(s, cur[s])]
  /\ Leave(s)
  /\ Goto(s, "sched")
  /\ UNCHANGED <<mail, curb, queueVars, bat, windowVars, thief>>

(* Y_setaff; an affinity that does not change and allows s is no step.     *)
(* The next process is taken at the top of kernel_scheduler.               *)
SetAff(s, a) ==
  /\ pc[s] = "user" /\ a \in Affinities[cur[s]]
  /\ a # curb[s].aff \/ (a # {} /\ s \notin a)
  /\ calls < MaxCalls /\ calls' = calls + 1
  /\ affinity' = [affinity EXCEPT ![cur[s]] = a]
  /\ EnqueueProcess(s, cur[s], a, "sched", mail)
  /\ Leave(s)
  /\ UNCHANGED <<head, bm, mwstate, thief>>

(***************************************************************************)
(* kernel_scheduler, from the top of its loop: mail first, then the        *)
(* current batch while it has dispatches left.  A current batch that has   *)
(* been through all its processes goes on if there is no other work, else  *)
(* push_curb puts it behind the other batches, splitting its first process *)
(* off if it had no dispatches left before it was through.                 *)
(***************************************************************************)
TakeMail(s, p) ==
  /\ pc[s] = "sched" /\ p \in mail[s]
  /\ EnqueueProcess(s, p, affinity[p], "sched", [mail EXCEPT ![s] = @ \ {p}])
  /\ UNCHANGED <<cur, affinity, calls, head, bm, mwstate, thief>>

AtTop(s) == pc[s] = "sched" /\ mail[s] = {}

NextOfCurb(s) ==
  /\ AtTop(s) /\ ~EndOfCurb(s)
  /\ Dequeue(s, [curb[s] EXCEPT !.disp = @ - 1])
  /\ Goto(s, "user")
  /\ UNCHANGED <<affinity, calls, mail, queueVars, bat, windowVars, thief>>

(* Mutant: a batch goes on whether or not other work is waiting. *)
GoesOnRegardless(s) == curb[s].emptied /\ curb[s].procs # << >>

GoesOn(s) == curb[s].emptied /\ curb[s].procs # << >> /\ ~rqstate[s]

ContinueCurb(s) ==
  /\ AtTop(s) /\ EndOfCurb(s) /\ GoesOn(s)
  /\ Dequeue(s, [curb[s] EXCEPT !.disp = Dispatches(Len(curb[s].procs)), !.emptied = FALSE])
  /\ Goto(s, "user")
  /\ UNCHANGED <<affinity, calls, mail, queueVars, bat, windowVars, thief>>

Splits(s) == curb[s].disp <= 0 /\ Len(curb[s].procs) > 1 /\ ~curb[s].emptied

SplitCurb(s) ==
  /\ AtTop(s) /\ EndOfCurb(s) /\ ~GoesOn(s) /\ Splits(s)
  /\ PushBatch(s, <<Head(curb[s].procs)>>, "save")
  /\ curb' = [curb EXCEPT ![s].procs = Tail(@)]
  /\ UNCHANGED <<cur, affinity, calls, mail, head, bm, mwstate, thief>>

(* save_curb.  What it leaves in the current batch is not used before      *)
(* load_curb or new_curb sets it again.                                    *)
SaveCurb(s) ==
  /\ \/ AtTop(s) /\ EndOfCurb(s) /\ ~GoesOn(s) /\ ~Splits(s) /\ curb[s].procs # << >>
     \/ pc[s] = "save"
  /\ PushBatch(s, curb[s].procs, "pick")
  /\ curb' = [curb EXCEPT ![s].procs = << >>]
  /\ UNCHANGED <<cur, affinity, calls, mail, head, bm, mwstate, thief>>

(* The current batch is used up or saved: look for another one. *)
Picks(s) == pc[s] = "pick" \/ (AtTop(s) /\ curb[s].procs = << >>)

(***************************************************************************)
(* load_curb: the processes and the affinity of a batch become those of    *)
(* the current batch, and its first process is run.  A batch of its own is *)
(* released by the scheduler that loads it.                                *)
(***************************************************************************)
LoadCurb(s, b) ==
  Dequeue(s, [procs |-> bat[b].procs, emptied |-> FALSE,
              disp |-> Dispatches(Len(bat[b].procs)),
              aff |-> affinity[Head(bat[b].procs)]])

(***************************************************************************)
(* pick_batch and try_pull_from_runqueue.  A batch with a window number is *)
(* the owner's if the compare-and-swap takes it out of its slot; otherwise *)
(* it has been stolen and goes to the laundry.                             *)
(***************************************************************************)
PullOwn(s) ==
  LET b == Head(rq[s]) IN
  /\ Picks(s) /\ rqstate[s] /\ rq[s] # << >> /\ bat[b].win = 0
  /\ rq' = [rq EXCEPT ![s] = Tail(@)]
  /\ LoadCurb(s, b)
  /\ free' = [free EXCEPT ![s] = @ \cup {b}]
  /\ bat' = Washed({b})
  /\ Goto(s, "user")
  /\ UNCHANGED <<affinity, calls, mail, pend, rqstate, laundry, job, ret, windowVars, thief>>

(* Mutant: a batch that was stolen is put on the free list. *)
ReleaseStolenAtOnce(s, b) == free' = [free EXCEPT ![s] = @ \cup {b}] /\ UNCHANGED laundry

ReleaseDirty(s, b) == laundry' = [laundry EXCEPT ![s] = @ \cup {b}] /\ UNCHANGED free

PullVisible(s) ==
  LET b == Head(rq[s])
      w == bat[b].win
  IN /\ Picks(s) /\ rqstate[s] /\ rq[s] # << >> /\ w # 0
     /\ rq' = [rq EXCEPT ![s] = Tail(@)]
     /\ \/ /\ slot[s][w] = b
           /\ slot' = [slot EXCEPT ![s][w] = NoBatch]
           /\ job' = [job EXCEPT ![s] = b]
           /\ Goto(s, "pull_clear")
           /\ UNCHANGED <<free, laundry>>
        \/ /\ slot[s][w] # b
           /\ ReleaseDirty(s, b)
           /\ Goto(s, "pick")
           /\ UNCHANGED <<slot, job>>
     /\ UNCHANGED <<schedVars, pend, rqstate, ret, bat, head, bm, mwstate, thief>>

PullClear(s) ==
  LET b == job[s] IN
  /\ pc[s] = "pull_clear"
  /\ bm' = [bm EXCEPT ![s] = @ \ {bat[b].win}]
  /\ LoadCurb(s, b)
  /\ free' = [free EXCEPT ![s] = @ \cup {b}]
  /\ bat' = Washed({b})
  /\ job' = [job EXCEPT ![s] = NoBatch]
  /\ Goto(s, "user")
  /\ UNCHANGED <<affinity, calls, mail, pend, rq, rqstate, laundry, ret, slot, head, mwstate, thief>>

(* The run queue is empty: the pending batch, with a new one in its place. *)
PullPending(s) ==
  LET b == Allocated(s) IN
  /\ Picks(s) /\ rqstate[s] /\ rq[s] = << >> /\ pend[s].on /\ Stock(s) # {}
  /\ LoadCurb(s, pend[s].batch)
  /\ pend' = [pend EXCEPT ![s] = [batch |-> b, on |-> FALSE, aff |-> {}]]
  /\ free' = [free EXCEPT ![s] = (Stock(s) \ {b}) \cup {pend[s].batch}]
  /\ laundry' = [laundry EXCEPT ![s] = @ \ ToWash(s)]
  /\ bat' = Washed(ToWash(s) \cup {pend[s].batch})
  /\ Goto(s, "user")
  /\ UNCHANGED <<affinity, calls, mail, rq, rqstate, job, ret, windowVars, thief>>

PickNone(s) ==
  /\ Picks(s) /\ rqstate[s] /\ rq[s] = << >> /\ ~pend[s].on
  /\ rqstate' = [rqstate EXCEPT ![s] = FALSE]
  /\ mwstate' = [mwstate EXCEPT ![s] = FALSE]
  /\ Goto(s, "pick")
  /\ UNCHANGED <<schedVars, pend, rq, free, laundry, job, ret, bat, slot, head, bm, thief>>

(***************************************************************************)
(* migrate_some_work: look at the schedulers until one may have work.      *)
(***************************************************************************)
StartMigrate(s) ==
  /\ Picks(s) /\ ~rqstate[s]
  /\ thief' = [thief EXCEPT ![s] = [NoThief(s) EXCEPT !.active = Scheds]]
  /\ Goto(s, "migrate")
  /\ UNCHANGED <<schedVars, queueVars, bat, windowVars>>

NoWork(s, v) ==
  /\ pc[s] = "migrate" /\ v \in thief[s].active /\ ~mwstate[v]
  /\ thief' = [thief EXCEPT ![s].active = @ \ {v}]
  /\ UNCHANGED <<pc, schedVars, queueVars, bat, windowVars>>

(***************************************************************************)
(* try_migrate_from_scheduler: the state word of v is read, then slot by   *)
(* slot a bit is cleared and the slot emptied, until there was a batch in  *)
(* it.  mwstate is cleared if the window seems to be empty.                *)
(***************************************************************************)
TryMigrate(s, v) ==
  /\ pc[s] = "migrate" /\ v \in thief[s].active /\ mwstate[v]
  /\ thief' = [thief EXCEPT ![s].victim = v, ![s].head = head[v], ![s].bm = bm[v]]
  /\ Goto(s, IF bm[v] = {} THEN "mig_end" ELSE "mig_bit")
  /\ UNCHANGED <<schedVars, queueVars, bat, windowVars>>

Highest(S) == CHOOSE w \in S : \A x \in S : x <= w

PickSlot(seen, h) ==
  LET above == {w \in seen : w >= h} IN IF above # {} THEN Highest(above) ELSE Highest(seen)

MigrateBit(s) ==
  LET w == PickSlot(thief[s].bm, thief[s].head) IN
  /\ pc[s] = "mig_bit"
  /\ bm' = [bm EXCEPT ![thief[s].victim] = @ \ {w}]
  /\ thief' = [thief EXCEPT ![s].w = w, ![s].bm = @ \ {w}]
  /\ Goto(s, "mig_slot")
  /\ UNCHANGED <<schedVars, queueVars, bat, slot, head, mwstate>>

MigrateSlot(s) ==
  LET v == thief[s].victim
      b == slot[v][thief[s].w]
  IN /\ pc[s] = "mig_slot"
     /\ slot' = [slot EXCEPT ![v][thief[s].w] = NoBatch]
     /\ job' = [job EXCEPT ![s] = b]
     /\ thief' = [thief EXCEPT ![s].w = 0]
     /\ Goto(s, IF b = NoBatch /\ thief[s].bm # {} THEN "mig_bit" ELSE "mig_end")
     /\ UNCHANGED <<schedVars, pend, rq, rqstate, free, laundry, ret, bat, head, bm, mwstate>>

Migrated(s) ==
  /\ Goto(s, IF job[s] = NoBatch THEN "migrate" ELSE "steal_load")
  /\ thief' = [thief EXCEPT ![s] = [NoThief(s) EXCEPT !.active = IF job[s] = NoBatch THEN thief[s].active ELSE {}]]

MigrateEnd(s) ==
  LET v == thief[s].victim
      empty == thief[s].bm = {} /\ bm[v] = {} /\ head[v] = thief[s].head
  IN /\ pc[s] = "mig_end"
     /\ \/ empty /\ Goto(s, "mig_mw") /\ UNCHANGED thief
        \/ ~empty /\ Migrated(s)
     /\ UNCHANGED <<schedVars, queueVars, bat, windowVars>>

MigrateMw(s) ==
  /\ pc[s] = "mig_mw"
  /\ mwstate' = [mwstate EXCEPT ![thief[s].victim] = FALSE]
  /\ Migrated(s)
  /\ UNCHANGED <<schedVars, queueVars, bat, slot, head, bm>>

(* load_curb of a remote batch: read it, then mark_batch_clean.  The batch *)
(* keeps pointers to processes that are no longer in it (Dangling).        *)
Dangling == <<NotProcess>>

StealLoad(s) ==
  /\ pc[s] = "steal_load"
  /\ LoadCurb(s, job[s])
  /\ bat' = [bat EXCEPT ![job[s]].procs = Dangling]
  /\ Goto(s, "steal_mark")
  /\ UNCHANGED <<affinity, calls, mail, queueVars, windowVars, thief>>

MarkClean(s, b) == bat' = [bat EXCEPT ![b].dirty = FALSE] /\ UNCHANGED free

StealMark(s) ==
  /\ pc[s] = "steal_mark"
  /\ MarkClean(s, job[s])
  /\ job' = [job EXCEPT ![s] = NoBatch]
  /\ Goto(s, "user")
  /\ UNCHANGED <<schedVars, pend, rq, rqstate, laundry, ret, windowVars, thief>>

(***************************************************************************)
(* No work anywhere: new_curb, and do_laundry now and then.                *)
(***************************************************************************)
NoWorkAnywhere(s) ==
  /\ pc[s] = "migrate" /\ thief[s].active = {}
  /\ curb' = [curb EXCEPT ![s] = [NoCurb EXCEPT !.aff = curb[s].aff]]
  /\ thief' = [thief EXCEPT ![s] = NoThief(s)]
  /\ Goto(s, "sched")
  /\ DoLaundry(s) \/ UNCHANGED <<free, laundry, bat>>
  /\ UNCHANGED <<cur, affinity, calls, mail, pend, rq, rqstate, job, ret, windowVars>>

Kernel(s) ==
  \/ AddState(s) \/ AddMw(s)
  \/ (\E p \in Procs : TakeMail(s, p))
  \/ NextOfCurb(s) \/ ContinueCurb(s) \/ SplitCurb(s) \/ SaveCurb(s)
  \/ PullOwn(s) \/ PullVisible(s) \/ PullClear(s) \/ PullPending(s) \/ PickNone(s)
  \/ StartMigrate(s) \/ (\E v \in Scheds : NoWork(s, v) \/ TryMigrate(s, v))
  \/ MigrateBit(s) \/ MigrateSlot(s) \/ MigrateEnd(s) \/ MigrateMw(s)
  \/ StealLoad(s) \/ StealMark(s) \/ NoWorkAnywhere(s)

Next ==
  \E s \in Scheds :
    \/ Kernel(s) \/ Pause(s) \/ Block(s)
    \/ (\E p \in Procs : Wake(s, p)) \/ (\E a \in SUBSET Scheds : SetAff(s, a))

Spec == Init /\ [][Next]_vars

(***************************************************************************)
(* Every scheduler thread keeps running, and a process does not run for    *)
(* ever: occam-pi processes leave the processor by themselves.             *)
(***************************************************************************)
Fairness == \A s \in Scheds : WF_vars(Kernel(s)) /\ WF_vars(Pause(s) \/ Block(s))

FairSpec == Spec /\ Fairness

-----------------------------------------------------------------------------
(***************************************************************************)
(* Properties.                                                             *)
(***************************************************************************)
(* Every variable has its type; in particular a batch is only ever in the  *)
(* lists of the scheduler that allocated it.                               *)
TypeOK ==
  /\ cur \in [Scheds -> Procs \cup {NotProcess}]
  /\ affinity \in [Procs -> SUBSET Scheds]
  /\ mail \in [Scheds -> SUBSET Procs]
  /\ \A s \in Scheds :
       /\ (pc[s] \in {"user", "steal_mark"}) => cur[s] # NotProcess
       /\ ToSet(rq[s]) \cup free[s] \cup laundry[s] \cup {pend[s].batch} \subseteq {s} \X (1..PoolSize)
       /\ slot[s] \in [Slots -> Batches \cup {NoBatch}]
       /\ head[s] \in 0..Size /\ bm[s] \subseteq Slots
       /\ job[s] \in Batches \cup {NoBatch}

(* The assertions of the code: a batch is clean when its owner loads it    *)
(* and on the free list, and dirty when a thief loads it; and what is      *)
(* loaded holds a process.                                                 *)
BatchesAsAsserted ==
  \A s \in Scheds :
    /\ \A b \in LiveBatches(s) : bat[b].procs # << >> /\ ~InBatch(NotProcess, b)
    /\ \A b \in ToSet(rq[s]) : bat[b].win = 0 => ~bat[b].dirty
    /\ ~bat[pend[s].batch].dirty
    /\ pc[s] = "steal_load" => bat[job[s]].dirty
    /\ \A b \in free[s] : ~bat[b].dirty /\ bat[b].procs = << >>

(* While a thief holds a batch it has not marked clean, its owner still    *)
(* has it in its queue or laundry and uses it for nothing else.            *)
StolenNotReused ==
  \A s \in Scheds, v \in Scheds :
    (pc[s] \in {"mig_end", "mig_mw", "steal_load", "steal_mark"} /\ job[s] # NoBatch
       /\ v = job[s][1]) =>
      /\ s # v
      /\ job[s] \notin free[v] \cup {pend[v].batch}
      /\ \/ job[s] \in ToSet(rq[v]) \cup laundry[v]
         \/ job[v] = job[s] /\ pc[v] \in {"add_state", "add_mw"}

(* A batch in a slot can be found: its bit is set, or its owner is about   *)
(* to set it, or a thief that has cleared it is about to take the batch.   *)
(* The owner's queue holds every batch that is in a slot.                  *)
VisibleBatchesFound ==
  \A s \in Scheds, w \in Slots :
    slot[s][w] # NoBatch =>
      /\ \/ w \in bm[s]
         \/ pc[s] = "add_state" /\ w = IncrementHead(head[s])
         \/ \E t \in Scheds : pc[t] = "mig_slot" /\ thief[t].victim = s /\ thief[t].w = w
      /\ slot[s][w] \in ToSet(rq[s]) \cup {job[s]}

(* A process only runs on a scheduler its affinity allows, the processes   *)
(* of a current batch share the affinity the scheduler runs under, and no  *)
(* process gets an affinity it did not set (save_priofinity copies that of *)
(* the scheduler).                                                         *)
AffinityRespected ==
  /\ \A s \in Scheds :
       /\ cur[s] # NotProcess => affinity[cur[s]] = {} \/ s \in affinity[cur[s]]
       /\ \A p \in ToSet(curb[s].procs) : affinity[p] = curb[s].aff
  /\ \A p \in Procs : affinity[p] \in Affinities[p] \cup {{}}

(* What kernel calls rely on: a runnable process is resumed by exactly one *)
(* scheduler, whoever pulls or steals its batch (see Scheduling).          *)
Abstract == INSTANCE Scheduling WITH
  running <- cur, runnable <- {p \in Procs : Runnable(p)}
ImplementsScheduling == Abstract!Spec

(* Every runnable process is run. *)
EventuallyRuns ==
  \A p \in Procs : Runnable(p) ~> (\E s \in Scheds : cur[s] = p)
=============================================================================
