------------------------------ MODULE CcspTimer ------------------------------
(***************************************************************************)
(* Timers of the CCSP kernel: X_ldtimer, Y_tin and Y_fasttin, timer guards *)
(* of ALTs (X_talt, the enbt and dist families, Y_taltwt) and the timer    *)
(* queue each scheduler keeps (add_to_timer_queue, walk_timer_queue,       *)
(* clean_timer_queue, remove_from_timer_queue), on top of CcspAlt.         *)
(*                                                                         *)
(* A queue's links are private to its scheduler.  What schedulers share is *)
(* the workspace pointer of a node of an ALT, which the walking scheduler  *)
(* and the process that disables the guard both swap for NotProcess_p, and *)
(* its dirty bit: a node may be used again once the queue is done with it  *)
(* (clean) and the ALT is done with it (released).                         *)
(***************************************************************************)
EXTENDS CcspAlt

CONSTANTS Nodes,     \* tqnode_t's (bound: memory for them is never short)
          Delay,     \* Delay[t]: what the code adds to the time it read
          TinDelays, \* the same, for TIN
          Wrap,      \* the number of values of Time, 2^32 in the code
          Lag        \* bound: nothing that is due waits longer than this

ASSUME TimerAssumption ==
  /\ Wrap \in Nat \ {0} /\ Lag \in Nat /\ Nodes \subseteq Nat \ {0}
  /\ \A t \in Timers : Delay[t] \in Nat /\ Delay[t] + Lag < Wrap \div 2
  /\ \A d \in TinDelays : d \in Nat /\ d + 1 + Lag < Wrap \div 2

VARIABLES clock,    \* Time_GetTime
          base,     \* base[p]: the time p read with X_ldtimer
          timeF,    \* timeF[p]: Wptr[Time_f]
          tlink,    \* tlink[p]: Wptr[TLink_f]: NotSet, Set or a node
          tq,       \* tq[s]: the timer queue of s, from tq_fptr to tq_bptr
          node,     \* node[n]: the contents of node n
          sync,     \* sync[s]: SYNC_TQ of the sync word of s
          now,      \* now[s]: the time read by the kernel call s executes
          tn,       \* tn[s]: the node the kernel call s executes is at
          wait      \* history: the time p asked to sleep until in TIN

timerVars == <<clock, base, timeF, tlink, tq, node, sync, now, tn, wait>>
altAll == <<chan, state, procVars, localVars, histVars>>
tvars == <<vars, timerVars>>

Time == 0..(Wrap - 1)
NotSet == 0
Set == -1
NoNode == 0
NoTime == Wrap

Plus(t, d) == (t + d) % Wrap

(* Time_AFTER: the sign bit of the difference. *)
After(t1, t2) == (t2 - t1) % Wrap >= Wrap \div 2

Due(p, t) == Plus(base[p], Delay[t])

(***************************************************************************)
(* Nodes.  wptr is a word like a channel's: NotProcess_p once the node is  *)
(* dead, Wptr of a process in TIN, Wptr | 1 of an ALT.  A node on the free *)
(* list, or in the laundry and clean (do_laundry), has no contents.        *)
(***************************************************************************)
FreeNode == [wptr |-> Empty, time |-> 0, sched |-> NotProcess, dirty |-> FALSE, released |-> TRUE]
Allocatable(n) == node[n].released /\ ~node[n].dirty
FirstFree(n) == Allocatable(n) /\ \A m \in Nodes : m < n => ~Allocatable(m)
Live(n) == node[n].wptr # Empty

(* Mutant: the dirty bit of the node of an ALT is not set. *)
SetupTqnodeClean(s, p, t, alt) ==
  [wptr |-> [p |-> p, alt |-> alt], time |-> t, sched |-> s, dirty |-> FALSE, released |-> FALSE]

SetupTqnode(s, p, t, alt) ==
  [wptr |-> [p |-> p, alt |-> alt], time |-> t, sched |-> s, dirty |-> alt, released |-> FALSE]

Tidy(nd) == IF nd.released /\ ~nd.dirty THEN FreeNode ELSE nd
Release(nd) == Tidy([nd EXCEPT !.released = TRUE])
Clean(nd) == Tidy([nd EXCEPT !.dirty = FALSE])

SetNode(n, nd) == node' = [node EXCEPT ![n] = nd]
SetQueue(s, q) == tq' = [tq EXCEPT ![s] = q]

(* A queue without the nodes of a set: the k-th node left is the k-th kept. *)
Without(q, gone) ==
  LET kept == {i \in DOMAIN q : q[i] \notin gone}
      Rank(i) == Cardinality({j \in kept : j <= i})
  IN  [k \in 1..Cardinality(kept) |-> q[CHOOSE i \in kept : Rank(i) = k]]

Queued(n) == \E s \in Scheds : \E i \in DOMAIN tq[s] : tq[s][i] = n

(***************************************************************************)
(* add_to_timer_queue searches from both ends at once: k steps from the    *)
(* front it asks whether the node there is later than t, k steps from the  *)
(* back whether the node there is not.  The result is the number of nodes  *)
(* before the new one.  (The branch of insert_tqnode that would take over  *)
(* a dead node that is clean is never taken: see NodeNotReused.)           *)
(***************************************************************************)
Place(q, t) ==
  LET later(i) == After(node[q[i]].time, t)
      found(k) == later(k + 1) \/ ~later(Len(q) - k)
      k0 == CHOOSE k \in 0..(Len(q) - 1) : found(k) /\ \A j \in 0..(k - 1) : ~found(j)
  IN  IF q = << >> THEN 0 ELSE IF later(k0 + 1) THEN k0 ELSE Len(q) - k0

AddToTimerQueue(s, n, p, t, alt) ==
  LET i == Place(tq[s], t) IN
  /\ FirstFree(n)
  /\ SetNode(n, SetupTqnode(s, p, t, alt))
  /\ SetQueue(s, SubSeq(tq[s], 1, i) \o <<n>> \o SubSeq(tq[s], i + 1, Len(tq[s])))

-----------------------------------------------------------------------------
(***************************************************************************)
(* X_ldtimer, and TIN and TALT with a time computed from what it returned. *)
(***************************************************************************)
Ldtimer(s, p) ==
  /\ At(s, p, {"main"}) /\ Ops[p] \cap {"tin", "talt"} # {}
  /\ base' = [base EXCEPT ![p] = clock]
  /\ SetIptr(p, "timed")
  /\ UNCHANGED <<schedVars, chan, state, temp, altVars, todo, ch, localVars, histVars>>
  /\ UNCHANGED <<clock, timeF, tlink, tq, node, sync, now, tn, wait>>

(***************************************************************************)
(* Y_tin, and Y_fasttin with the test the translator puts before it: at    *)
(* once if the time has passed, else in the timer queue until the tick     *)
(* after it.  (The time both leave in Wptr[Time_f] is not read.)           *)
(***************************************************************************)
TinPast(s, p, d) ==
  /\ At(s, p, {"timed"}) /\ "tin" \in Ops[p]
  /\ After(clock, Plus(base[p], d))
  /\ SetIptr(p, "main")
  /\ base' = [base EXCEPT ![p] = 0]
  /\ UNCHANGED <<schedVars, chan, state, temp, altVars, todo, ch, localVars, histVars>>
  /\ UNCHANGED <<clock, timeF, tlink, tq, node, sync, now, tn, wait>>

(* Mutant: the time is not incremented. *)
TinSameTick(s, p, d, n) ==
  LET t == Plus(base[p], d) IN
  /\ At(s, p, {"timed"}) /\ "tin" \in Ops[p]
  /\ ~After(clock, t)
  /\ SetIptr(p, "main")
  /\ AddToTimerQueue(s, n, p, t, FALSE)
  /\ wait' = [wait EXCEPT ![p] = t]
  /\ base' = [base EXCEPT ![p] = 0]
  /\ KernelScheduler(s)
  /\ UNCHANGED <<queued, chan, state, temp, altVars, todo, ch, localVars, histVars>>
  /\ UNCHANGED <<clock, timeF, tlink, sync, now, tn>>

Tin(s, p, d, n) ==
  LET t == Plus(base[p], d) IN
  /\ At(s, p, {"timed"}) /\ "tin" \in Ops[p]
  /\ ~After(clock, t)
  /\ SetIptr(p, "main")
  /\ AddToTimerQueue(s, n, p, Plus(t, 1), FALSE)
  /\ wait' = [wait EXCEPT ![p] = t]
  /\ base' = [base EXCEPT ![p] = 0]
  /\ KernelScheduler(s)
  /\ UNCHANGED <<queued, chan, state, temp, altVars, todo, ch, localVars, histVars>>
  /\ UNCHANGED <<clock, timeF, tlink, sync, now, tn>>

(***************************************************************************)
(* X_talt.  (An ALT whose timer guards all have FALSE preconditions also   *)
(* starts with TALT and then behaves like one without them.)               *)
(***************************************************************************)
Talt(s, p, a) ==
  /\ At(s, p, {"timed"}) /\ "talt" \in Ops[p] /\ Timed(a.guards)
  /\ StartAlt(p, a)
  /\ tlink' = [tlink EXCEPT ![p] = NotSet]
  /\ UNCHANGED <<clock, base, timeF, tq, node, sync, now, tn, wait>>

(***************************************************************************)
(* kernel_enbt: ENBT3 and CENBT look at the clock and find the guard ready *)
(* if it is due; ENBT does not look.  Otherwise Time_f collects the        *)
(* earliest time of the guards.                                            *)
(***************************************************************************)
EnbtReady(s, p) ==
  LET t == Head(todo[p]) IN
  /\ At(s, p, {"enable"}) /\ t \in Timers
  /\ ~After(Due(p, t), clock)
  /\ tlink' = [tlink EXCEPT ![p] = Set]
  /\ timeF' = [timeF EXCEPT ![p] = clock]
  /\ Goto(s, "enb_ready")
  /\ UNCHANGED <<queued, altAll, clock, base, tq, node, sync, now, tn, wait>>

Enbt(s, p) ==
  LET t == Head(todo[p]) IN
  /\ At(s, p, {"enable"}) /\ t \in Timers
  /\ style[p] = "jump" => After(Due(p, t), clock)
  /\ tlink' = [tlink EXCEPT ![p] = Set]
  /\ timeF' = IF tlink[p] = NotSet \/ After(timeF[p], Due(p, t))
                THEN [timeF EXCEPT ![p] = Due(p, t)] ELSE timeF
  /\ NextGuard(p)
  /\ UNCHANGED <<schedVars, chan, state, temp, altVars, ch, localVars, histVars>>
  /\ UNCHANGED <<clock, base, tq, node, sync, now, tn, wait>>

(***************************************************************************)
(* Y_taltwt: unless a guard is ready or due, a node goes into the queue of *)
(* this scheduler and the process sleeps, by a compare-and-swap that also  *)
(* counts the node's reference and fails if a guard became ready.          *)
(***************************************************************************)
TaltWtReady(s, p) ==
  /\ At(s, p, {"altwt"}) /\ Timed(guards[p])
  /\ state[p].notReady => tlink[p] = Set /\ ~After(timeF[p], clock)
  /\ temp' = [temp EXCEPT ![p] = None]
  /\ now' = [now EXCEPT ![s] = clock]
  /\ Goto(s, "taltwt_clear")
  /\ UNCHANGED <<queued, chan, state, iptr, altVars, todo, ch, localVars, histVars>>
  /\ UNCHANGED <<clock, base, timeF, tlink, tq, node, sync, tn, wait>>

TaltWt(s, p, n) ==
  /\ At(s, p, {"altwt"}) /\ Timed(guards[p])
  /\ state[p].notReady /\ tlink[p] = Set /\ After(timeF[p], clock)
  /\ temp' = [temp EXCEPT ![p] = None]
  /\ now' = [now EXCEPT ![s] = clock]
  /\ AddToTimerQueue(s, n, p, timeF[p], TRUE)
  /\ tlink' = [tlink EXCEPT ![p] = n]
  /\ Goto(s, "taltwt_cas")
  /\ UNCHANGED <<queued, chan, state, iptr, altVars, todo, ch, localVars, histVars>>
  /\ UNCHANGED <<clock, base, timeF, sync, tn, wait>>

(* Mutant: after a failed compare-and-swap the node stays in the queue. *)
TaltWtCasKeepsNode(s, p) ==
  /\ InKernel(s, p, "taltwt_cas")
  /\ IF state[p].notReady
       THEN /\ SetState(p, AltState(FALSE, TRUE, FALSE, state[p].n + 1))
            /\ StartDisabling(p, Len(guards[p]))
            /\ KernelScheduler(s)
            /\ now' = [now EXCEPT ![s] = 0]
            /\ UNCHANGED <<tlink, node, tq>>
       ELSE /\ tlink' = [tlink EXCEPT ![p] = Set]
            /\ Goto(s, "taltwt_clear")
            /\ UNCHANGED <<state, todo, iptr, ready0, now, node, tq>>
  /\ UNCHANGED <<queued, chan, temp, altVars, ch, localVars, io>>
  /\ UNCHANGED <<clock, base, timeF, sync, tn, wait>>

TaltWtCas(s, p) ==
  /\ InKernel(s, p, "taltwt_cas")
  /\ IF state[p].notReady
       THEN /\ SetState(p, AltState(FALSE, TRUE, FALSE, state[p].n + 1))
            /\ StartDisabling(p, Len(guards[p]))
            /\ KernelScheduler(s)
            /\ now' = [now EXCEPT ![s] = 0]
            /\ UNCHANGED <<tlink, node, tq>>
       ELSE /\ tlink' = [tlink EXCEPT ![p] = Set]
            /\ SetQueue(s, Without(tq[s], {tlink[p]}))
            /\ SetNode(tlink[p], Release(Clean(node[tlink[p]])))
            /\ Goto(s, "taltwt_clear")
            /\ UNCHANGED <<state, todo, iptr, ready0, now>>
  /\ UNCHANGED <<queued, chan, temp, altVars, ch, localVars, io>>
  /\ UNCHANGED <<clock, base, timeF, sync, tn, wait>>

(* Mutant: TALTWT tries again until it sleeps. *)
TaltWtClearRetries(s, p) ==
  /\ InKernel(s, p, "taltwt_clear")
  /\ now' = [now EXCEPT ![s] = 0]
  /\ Goto(s, "user")
  /\ UNCHANGED <<queued, altAll, clock, base, timeF, tlink, tq, node, sync, tn, wait>>

TaltWtClear(s, p) ==
  /\ InKernel(s, p, "taltwt_clear")
  /\ timeF' = [timeF EXCEPT ![p] = now[s]]
  /\ now' = [now EXCEPT ![s] = 0]
  /\ SetState(p, ClearReadyFlags(state[p]))
  /\ StartDisabling(p, Len(guards[p]))
  /\ Goto(s, "user")
  /\ UNCHANGED <<queued, chan, temp, altVars, ch, localVars, io>>
  /\ UNCHANGED <<clock, base, tlink, tq, node, sync, tn, wait>>

(***************************************************************************)
(* kernel_dist.  Without a node the guard is ready if it was due at the    *)
(* time in Time_f.                                                         *)
(***************************************************************************)
DistNoNode(s, p) ==
  LET t == Head(todo[p]) IN
  /\ At(s, p, {"disable"}) /\ t \in Timers /\ tlink[p] \notin Nodes
  /\ IF tlink[p] = Set /\ ~After(Due(p, t), timeF[p]) THEN Select(p, t) ELSE UNCHANGED temp
  /\ NextGuard(p)
  /\ UNCHANGED <<schedVars, chan, state, altVars, ch, localVars, histVars, timerVars>>

(***************************************************************************)
(* With a node the guard fired if the walking scheduler took the workspace *)
(* out of it.  The node then says when; if that was before this guard was  *)
(* due, another timer guard of the ALT was, and Time_f takes over.         *)
(***************************************************************************)
DistFired(s, p, n) ==
  LET t == Head(todo[p])
      early == After(Due(p, t), node[n].time) IN
  /\ timeF' = [timeF EXCEPT ![p] = node[n].time]
  /\ tlink' = [tlink EXCEPT ![p] = IF early THEN Set ELSE NotSet]
  /\ IF early THEN UNCHANGED temp ELSE Select(p, t)
  /\ SetNode(n, Release(node[n]))
  /\ tn' = [tn EXCEPT ![s] = NoNode]
  /\ NextGuard(p)
  /\ pc' = [pc EXCEPT ![s] = "user"]
  /\ UNCHANGED <<cur, tq>>

(* remove_from_timer_queue, on the scheduler that has the node or elsewhere. *)
Dist(s, p) ==
  LET n == tlink[p] IN
  /\ At(s, p, {"disable"}) /\ Head(todo[p]) \in Timers /\ n \in Nodes
  /\ IF ~Live(n)
       THEN DistFired(s, p, n)
       ELSE /\ tlink' = [tlink EXCEPT ![p] = NotSet]
            /\ tn' = [tn EXCEPT ![s] = n]
            /\ IF node[n].sched = s
                 THEN /\ SetQueue(s, Without(tq[s], {n}))
                      /\ SetNode(n, Clean(node[n]))
                      /\ Goto(s, "dist_dec")
                 ELSE Goto(s, "dist_swap") /\ UNCHANGED <<tq, node>>
            /\ UNCHANGED <<timeF, temp, todo, iptr>>
  /\ UNCHANGED <<queued, chan, state, altVars, ch, localVars, histVars>>
  /\ UNCHANGED <<clock, base, sync, now, wait>>

DistSwap(s, p) ==
  LET n == tn[s] IN
  /\ InKernel(s, p, "dist_swap")
  /\ IF ~Live(n)
       THEN DistFired(s, p, n)
       ELSE /\ SetNode(n, [node[n] EXCEPT !.wptr = Empty])
            /\ Goto(s, "dist_sync")
            /\ UNCHANGED <<timeF, tlink, temp, todo, iptr, tn, tq>>
  /\ UNCHANGED <<queued, chan, state, altVars, ch, localVars, histVars>>
  /\ UNCHANGED <<clock, base, sync, now, wait>>

DistSync(s, p) ==
  /\ InKernel(s, p, "dist_sync")
  /\ sync' = [sync EXCEPT ![node[tn[s]].sched] = TRUE]
  /\ Goto(s, "dist_dec")
  /\ UNCHANGED <<queued, altAll, clock, base, timeF, tlink, tq, node, now, tn, wait>>

(* Mutant: the reference of the node stays counted. *)
DistDecLost(s, p) ==
  /\ InKernel(s, p, "dist_dec")
  /\ SetNode(tn[s], Release(node[tn[s]]))
  /\ tn' = [tn EXCEPT ![s] = NoNode]
  /\ NextGuard(p)
  /\ Goto(s, "user")
  /\ UNCHANGED <<queued, chan, state, temp, altVars, ch, localVars, histVars>>
  /\ UNCHANGED <<clock, base, timeF, tlink, tq, sync, now, wait>>

DistDec(s, p) ==
  /\ InKernel(s, p, "dist_dec")
  /\ SetState(p, [state[p] EXCEPT !.n = @ - 1])
  /\ SetNode(tn[s], Release(node[tn[s]]))
  /\ tn' = [tn EXCEPT ![s] = NoNode]
  /\ NextGuard(p)
  /\ Goto(s, "user")
  /\ UNCHANGED <<queued, chan, temp, altVars, ch, localVars, histVars>>
  /\ UNCHANGED <<clock, base, timeF, tlink, tq, sync, now, wait>>

-----------------------------------------------------------------------------
(***************************************************************************)
(* kernel_scheduler looks at its timer queue between two processes.  When  *)
(* it looks (sched->timeout, SYNC_TIME and alarms) is abstracted to "some  *)
(* time after the first node is due or dead".                              *)
(***************************************************************************)
CheckTimerQueue(s) ==
  /\ pc[s] = "sched" /\ tq[s] # << >>
  /\ ~Live(Head(tq[s])) \/ ~After(node[Head(tq[s])].time, clock)
  /\ now' = [now EXCEPT ![s] = clock]
  /\ Goto(s, "walk")
  /\ UNCHANGED <<queued, altAll, clock, base, timeF, tlink, tq, node, sync, tn, wait>>

(***************************************************************************)
(* One node of walk_timer_queue: stop at the first that is alive and not   *)
(* due; wake a process in TIN and release its node; stamp the node of an   *)
(* ALT with the time and challenge it; clean up after a dead one.          *)
(***************************************************************************)
WalkDone(s) ==
  /\ pc[s] = "walk"
  /\ tq[s] # << >> => Live(Head(tq[s])) /\ After(node[Head(tq[s])].time, now[s])
  /\ now' = [now EXCEPT ![s] = 0]
  /\ Goto(s, "sched")
  /\ UNCHANGED <<queued, altAll, clock, base, timeF, tlink, tq, node, sync, tn, wait>>

AtNode(s) ==
  /\ pc[s] = "walk" /\ tq[s] # << >>
  /\ ~Live(Head(tq[s])) \/ ~After(node[Head(tq[s])].time, now[s])
  /\ SetQueue(s, Tail(tq[s]))

WalkTin(s) ==
  LET n == Head(tq[s]) IN
  /\ AtNode(s) /\ Live(n) /\ ~node[n].wptr.alt
  /\ EnqueueProcess(node[n].wptr.p)
  /\ wait' = [wait EXCEPT ![node[n].wptr.p] = NoTime]
  /\ SetNode(n, Release(node[n]))
  /\ UNCHANGED <<pc, cur, altAll, clock, base, timeF, tlink, sync, now, tn>>

WalkAlt(s) ==
  LET n == Head(tq[s]) IN
  /\ AtNode(s) /\ node[n].wptr.alt
  /\ SetNode(n, [node[n] EXCEPT !.time = now[s]])
  /\ tn' = [tn EXCEPT ![s] = n]
  /\ Goto(s, "walk_swap")
  /\ UNCHANGED <<queued, altAll, clock, base, timeF, tlink, sync, now, wait>>

WalkDead(s) ==
  LET n == Head(tq[s]) IN
  /\ AtNode(s) /\ ~Live(n)
  /\ SetNode(n, Clean(node[n]))
  /\ UNCHANGED <<schedVars, altAll, clock, base, timeF, tlink, sync, now, tn, wait>>

WalkSwap(s) ==
  LET n == tn[s] IN
  /\ pc[s] = "walk_swap"
  /\ SetNode(n, [node[n] EXCEPT !.wptr = Empty])
  /\ IF Live(n)
       THEN /\ tgt' = [tgt EXCEPT ![s] = node[n].wptr.p]
            /\ Goto(s, "walk_trigger")
       ELSE Goto(s, "walk_clean") /\ UNCHANGED tgt
  /\ UNCHANGED <<queued, chan, state, procVars, word, histVars>>
  /\ UNCHANGED <<clock, base, timeF, tlink, tq, sync, now, tn, wait>>

(* trigger_alt_guard, called by the walk. *)
WalkTrigger(s) ==
  /\ pc[s] = "walk_trigger"
  /\ SetState(tgt[s], Triggered(state[tgt[s]]))
  /\ IF Wakes(state[tgt[s]])
       THEN Goto(s, "walk_enqueue") /\ UNCHANGED localVars
       ELSE Goto(s, "walk_clean") /\ Forget(s)
  /\ UNCHANGED <<queued, chan, procVars, histVars, timerVars>>

WalkEnqueue(s) ==
  /\ pc[s] = "walk_enqueue"
  /\ EnqueueProcess(tgt[s])
  /\ Goto(s, "walk_clean")
  /\ Forget(s)
  /\ UNCHANGED <<chan, state, procVars, histVars, timerVars>>

WalkClean(s) ==
  /\ pc[s] = "walk_clean"
  /\ SetNode(tn[s], Clean(node[tn[s]]))
  /\ tn' = [tn EXCEPT ![s] = NoNode]
  /\ Goto(s, "walk")
  /\ UNCHANGED <<queued, altAll, clock, base, timeF, tlink, tq, sync, now, wait>>

(***************************************************************************)
(* clean_timer_queue, on SYNC_TQ or when there is nothing to run.  Nodes   *)
(* that die behind the loop are left for the next time.                    *)
(***************************************************************************)
CleanTimerQueue(s) ==
  LET dead == {n \in Nodes : \E i \in DOMAIN tq[s] : tq[s][i] = n /\ ~Live(n)} IN
  /\ pc[s] = "sched"
  /\ SetQueue(s, Without(tq[s], dead))
  /\ node' = [n \in Nodes |-> IF n \in dead THEN Clean(node[n]) ELSE node[n]]
  /\ UNCHANGED <<schedVars, altAll, clock, base, timeF, tlink, now, tn, wait>>

SyncTq(s) == sync[s] /\ CleanTimerQueue(s) /\ sync' = [sync EXCEPT ![s] = FALSE]

IdleClean(s) ==
  /\ ~sync[s] /\ CleanTimerQueue(s)
  /\ tq'[s] # tq[s]
  /\ UNCHANGED sync

(***************************************************************************)
(* Time passes, but never by so much that something that is due seems to   *)
(* lie in the future again: the bound Lag on how late schedulers are, with *)
(* the delays of the program, stays below half the range of Time.          *)
(***************************************************************************)
Times ==
  {node[n].time : n \in {m \in Nodes : Queued(m)}}
    \cup {Plus(base[p], d) : p \in {q \in Procs : iptr[q] = "timed"}, d \in TinDelays}
    \cup UNION {{Due(p, t) : t \in Timers} : p \in {q \in Procs : iptr[q] = "timed" \/ InAlt(q)}}

Tick ==
  /\ \A t \in Times : After(t, clock) \/ (clock - t) % Wrap < Lag
  /\ clock' = Plus(clock, 1)
  /\ UNCHANGED <<vars, base, timeF, tlink, tq, node, sync, now, tn, wait>>

-----------------------------------------------------------------------------
TimerInit ==
  /\ Init
  /\ clock = 0
  /\ base = [p \in Procs |-> 0]
  /\ timeF = [p \in Procs |-> 0]
  /\ tlink = [p \in Procs |-> NotSet]
  /\ tq = [s \in Scheds |-> << >>]
  /\ node = [n \in Nodes |-> FreeNode]
  /\ sync = [s \in Scheds |-> FALSE]
  /\ now = [s \in Scheds |-> 0]
  /\ tn = [s \in Scheds |-> NoNode]
  /\ wait = [p \in Procs |-> NoTime]

(* Words an ALT leaves behind in its workspace are never read again. *)
Kept(p, f) == IF InAlt(p)' THEN f[p] ELSE 0
AltStep(s) ==
  /\ Step(s)
  /\ base' = [p \in Procs |-> IF iptr'[p] = "timed" THEN base[p] ELSE Kept(p, base)]
  /\ timeF' = [p \in Procs |-> Kept(p, timeF)]
  /\ tlink' = [p \in Procs |-> IF InAlt(p)' THEN tlink[p] ELSE NotSet]
  /\ UNCHANGED <<clock, tq, node, sync, now, tn, wait>>

TimerStep(s) ==
  \/ AltStep(s)
  \/ WalkDone(s) \/ WalkTin(s) \/ WalkAlt(s) \/ WalkDead(s)
  \/ WalkSwap(s) \/ WalkTrigger(s) \/ WalkEnqueue(s) \/ WalkClean(s)
  \/ \E p \in Procs :
       \/ Ldtimer(s, p)
       \/ \E d \in TinDelays : TinPast(s, p, d) \/ \E n \in Nodes : Tin(s, p, d, n)
       \/ \E a \in Alts[p] : Talt(s, p, a)
       \/ EnbtReady(s, p) \/ Enbt(s, p)
       \/ TaltWtReady(s, p) \/ (\E n \in Nodes : TaltWt(s, p, n))
       \/ TaltWtCas(s, p) \/ TaltWtClear(s, p)
       \/ DistNoNode(s, p) \/ Dist(s, p) \/ DistSwap(s, p) \/ DistSync(s, p) \/ DistDec(s, p)

(* kernel_scheduler handles SYNC_TQ before it dispatches. *)
TimerResume(s, p) == ~sync[s] /\ Resume(s, p) /\ UNCHANGED timerVars

TimerNext ==
  \/ Tick
  \/ \E s \in Scheds :
       \/ TimerStep(s) \/ CheckTimerQueue(s) \/ SyncTq(s) \/ IdleClean(s)
       \/ \E p \in Procs : TimerResume(s, p)

TimerSpec == TimerInit /\ [][TimerNext]_tvars

(***************************************************************************)
(* Threads run, time passes, a runnable process is not passed over for     *)
(* ever, and a scheduler that returns to kernel_scheduler again and again  *)
(* looks at its timer queue there.                                         *)
(***************************************************************************)
TimerFairness ==
  /\ SF_tvars(Tick)
  /\ \A s \in Scheds : WF_tvars(TimerStep(s)) /\ SF_tvars(CheckTimerQueue(s) \/ SyncTq(s))
  /\ \A p \in Procs : SF_tvars(\E s \in Scheds : TimerResume(s, p))

TimerFairSpec == TimerSpec /\ TimerFairness

-----------------------------------------------------------------------------
TqNode == [wptr : ChanWord, time : Time, sched : Scheds \cup {NotProcess},
           dirty : BOOLEAN, released : BOOLEAN]

(* Every variable has its type. *)
TimerTypeOK ==
  /\ clock \in Time
  /\ base \in [Procs -> Time] /\ timeF \in [Procs -> Time]
  /\ tlink \in [Procs -> Nodes \cup {NotSet, Set}]
  /\ \A s \in Scheds : tq[s] \in Seq(Nodes)
  /\ node \in [Nodes -> TqNode]
  /\ sync \in [Scheds -> BOOLEAN]
  /\ now \in [Scheds -> Time]
  /\ tn \in [Scheds -> Nodes \cup {NoNode}]
  /\ wait \in [Procs -> Time \cup {NoTime}]

(* A node can be allocated again only when nobody has it any more: it is   *)
(* in no timer queue, no process has it in its workspace, and no scheduler *)
(* is between its swap and its clean-up, whichever of the walk and the     *)
(* disabling is done first.  And a dead node in a queue is dirty, so       *)
(* insert_tqnode never takes over one the ALT has released.                *)
NodeNotReused ==
  \A n \in Nodes :
    /\ Allocatable(n) =>
         /\ ~Queued(n)
         /\ \A p \in Procs : tlink[p] # n
         /\ \A s \in Scheds : tn[s] # n
    /\ Queued(n) /\ ~Live(n) => node[n].dirty

(* The reference count of an ALT with timer guards: besides the references *)
(* of CcspAlt, one for its node while the node is in a queue and has the   *)
(* workspace, and one for a walk that took the workspace and has not       *)
(* triggered yet.                                                          *)
TimerReferences(p) ==
  Cardinality({n \in Nodes : Queued(n) /\ node[n].wptr = AltPtr(p)})
    + Cardinality({s \in Scheds : pc[s] = "walk_swap" /\ node[tn[s]].wptr = AltPtr(p)})
    + Cardinality({s \in Scheds : pc[s] = "walk_trigger" /\ tgt[s] = p})
    + By(p, {"dist_sync", "dist_dec"}) - By(p, {"taltwt_cas"})
TimerReferencesCounted ==
  \A p \in Procs : InAlt(p) => state[p].n = AltReferences(p) + TimerReferences(p)

(* Nobody wakes early, across the wrap-around of the clock: a timer guard  *)
(* is selected only when its time has come, although time and node are     *)
(* stamped by another scheduler, and when a process is made runnable that  *)
(* called TIN the clock is AFTER the time it asked for.                    *)
NobodyEarly ==
  [][\A p \in Procs :
       /\ temp'[p] # temp[p] /\ temp'[p] \in Timers => ~After(Due(p, temp'[p]), clock)
       /\ wait[p] # NoTime /\ wait'[p] = NoTime => After(clock, wait[p])]_tvars

(* Everybody wakes: TIN returns, and an ALT with a timer guard goes on,    *)
(* whether its channels are written to or not, and whichever of timeout,   *)
(* trigger and disabling come first.                                       *)
EverybodyWakes ==
  \A p \in Procs :
    /\ (wait[p] # NoTime) ~> (wait[p] = NoTime)
    /\ "talt" \in Ops[p] =>
         ((iptr[p] = "enable") ~> (\E s \in Scheds : At(s, p, {"selected"})))
=============================================================================
