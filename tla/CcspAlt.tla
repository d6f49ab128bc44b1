------------------------------- MODULE CcspAlt -------------------------------
(***************************************************************************)
(* Channels and ALTs of the CCSP kernel: kernel_chan_io, Y_xable, X_xend,  *)
(* X_alt, the enbc, enbs, disc and diss families, Y_altwt, kernel_altend   *)
(* and trigger_alt_guard, run by several schedulers at once.               *)
(*                                                                         *)
(* One action is one atomic access to a word other schedulers may touch (a *)
(* channel word, an ALT state word, a run queue) with the accesses to the  *)
(* caller's own workspace around it.  A compare-and-swap loop that retries *)
(* until it succeeds is one action.                                        *)
(***************************************************************************)
EXTENDS CcspSched, Sequences

CONSTANTS Chans,     \* channels
          Writer,    \* Writer[c]: the only process that outputs on c
          Reader,    \* Reader[c]: the only process that inputs from c
          Ops,       \* Ops[p]: what the code of p does, of "out","in","xin","alt"
          Alts,      \* Alts[p]: the ALTs in the code of p, records of the
                     \* guard list and the style of the code (see below)
          Timers,    \* timer guards (their instructions are in CcspTimer)
          Skip,      \* a SKIP guard
          None,      \* NoneSelected_o
          Junk       \* a word left over from an earlier use of the workspace

(***************************************************************************)
(* "jump":    ENBC3/ENBS3, which jump to the disabling of the guard found  *)
(*            ready, and NDISC/NDISS in reverse order (occam);             *)
(* "all":     ENBC/ENBS on every guard, then ALTWT, then DISC/DISS on      *)
(*            every guard (occam without ready addresses, raw CIF);        *)
(* "procalt": ProcAlt of libkrocif, which stops at the first guard found   *)
(*            ready, skips ALTWT then, and disables the enabled guards.    *)
(***************************************************************************)
Styles == {"jump", "all", "procalt"}

ASSUME AltAssumption ==
  /\ Writer \in [Chans -> Procs]
  /\ Reader \in [Chans -> Procs]
  /\ \A c \in Chans : Writer[c] # Reader[c]
  /\ IsFiniteSet(Scheds) /\ IsFiniteSet(Chans)
  /\ {Skip, None, Junk} \cap (Chans \cup Timers) = {} /\ Chans \cap Timers = {}
  /\ Skip # None /\ Skip # Junk /\ None # Junk
  /\ \A p \in Procs : \A a \in Alts[p] :
       /\ a.style \in Styles
       /\ a.guards \in Seq(Chans \cup Timers \cup {Skip}) /\ a.guards # << >>
       /\ \A i \in DOMAIN a.guards : a.guards[i] \in Chans => Reader[a.guards[i]] = p

VARIABLES chan,    \* chan[c]: the channel word
          state,   \* state[p]: the word at Wptr[-4], an ALT state or an I/O pointer
          temp,    \* temp[p]: Wptr[0], the guard selected so far
          iptr,    \* iptr[p]: the next instruction of p
          guards,  \* guards[p]: the guard list of the ALT p executes
          style,   \* style[p]: the style of its code
          todo,    \* todo[p]: guards p still has to enable or disable
          ch,      \* ch[p]: the channel of the instruction p executes
          word,    \* word[s]: a word read by the kernel call s executes
          tgt,     \* tgt[s]: the process trigger_alt_guard or xend wakes
          io,      \* history: the communication p asked for (Rendezvous!io)
          ready0   \* history: guards of p that were ready when it began to
                   \* enable or to disable them

altVars == <<guards, style>>
procVars == <<temp, iptr, altVars, todo, ch>>
localVars == <<word, tgt>>
histVars == <<io, ready0>>
vars == <<schedVars, chan, state, procVars, localVars, histVars>>

(***************************************************************************)
(* Channel words: NotProcess_p, Wptr of a waiting process, or Wptr | 1 of  *)
(* a process that ALTs on the channel.                                     *)
(***************************************************************************)
Empty == [p |-> NotProcess, alt |-> FALSE]
Wptr(p) == [p |-> p, alt |-> FALSE]
AltPtr(p) == [p |-> p, alt |-> TRUE]

(***************************************************************************)
(* The word shared by `pointer' and `state': tag says which of the two it  *)
(* holds.  The ALT state is three flags and a count of references.         *)
(***************************************************************************)
Pointer == [tag |-> "pointer", enabling |-> FALSE, waiting |-> FALSE,
            notReady |-> FALSE, n |-> 0]
AltState(en, wt, nr, n) ==
  [tag |-> "alt", enabling |-> en, waiting |-> wt, notReady |-> nr, n |-> n]

R == INSTANCE Rendezvous

Init ==
  /\ SchedInit
  /\ chan = [c \in Chans |-> Empty]
  /\ state = [p \in Procs |-> Pointer]
  /\ temp = [p \in Procs |-> Junk]
  /\ iptr = [p \in Procs |-> "main"]
  /\ guards = [p \in Procs |-> << >>]
  /\ style = [p \in Procs |-> "jump"]
  /\ todo = [p \in Procs |-> << >>]
  /\ ch = [p \in Procs |-> None]
  /\ word = [s \in Scheds |-> Empty]
  /\ tgt = [s \in Scheds |-> NotProcess]
  /\ io = [p \in Procs |-> R!Idle]
  /\ ready0 = [p \in Procs |-> {}]

(***************************************************************************)
(* Process p, run by s, is at one of the instructions `at'.                *)
(***************************************************************************)
At(s, p, at) == pc[s] = "user" /\ cur[s] = p /\ iptr[p] \in at
InKernel(s, p, label) == pc[s] = label /\ cur[s] = p

SetIptr(p, at) == iptr' = [iptr EXCEPT ![p] = at]
SetChan(c, w) == chan' = [chan EXCEPT ![c] = w]
SetState(p, st) == state' = [state EXCEPT ![p] = st]

(* What an ALT left in the workspace is overwritten by the code after it. *)
ForgetAlt(p) ==
  /\ temp' = [temp EXCEPT ![p] = Junk]
  /\ guards' = [guards EXCEPT ![p] = << >>]
  /\ style' = [style EXCEPT ![p] = "jump"]
  /\ ready0' = [ready0 EXCEPT ![p] = {}]

(* The kernel call's local variables go out of scope. *)
Forget(s) ==
  /\ word' = [word EXCEPT ![s] = Empty]
  /\ tgt' = [tgt EXCEPT ![s] = NotProcess]

(***************************************************************************)
(* trigger_alt_guard, entered with the tagged workspace in tgt[s]: one     *)
(* reference less, no longer waiting, and ready.  The caller has already   *)
(* given up its own process.                                               *)
(***************************************************************************)
Triggered(st) == [st EXCEPT !.n = @ - 1, !.waiting = FALSE, !.notReady = FALSE]
(* Mutant: the wake test forgets ALT_ENABLING. *)
WakesEnabling(st) == st.waiting \/ st.n = 1
Wakes(st) == st.waiting \/ (st.n = 1 /\ ~st.enabling)

TriggerAltGuard(s) ==
  /\ pc[s] = "trigger"
  /\ SetState(tgt[s], Triggered(state[tgt[s]]))
  /\ IF Wakes(state[tgt[s]])
       THEN Goto(s, "trigger_enqueue") /\ UNCHANGED localVars
       ELSE KernelScheduler(s) /\ Forget(s)
  /\ UNCHANGED <<queued, chan, procVars, histVars>>

TriggerEnqueue(s) ==
  /\ pc[s] = "trigger_enqueue"
  /\ EnqueueProcess(tgt[s])
  /\ KernelScheduler(s)
  /\ Forget(s)
  /\ UNCHANGED <<chan, state, procVars, histVars>>

(***************************************************************************)
(* After p has been swapped into a channel word: sleep if the channel was  *)
(* empty, wake the ALTing process on the other side if it held one.        *)
(***************************************************************************)
SleepInChannel(s, w) ==
  IF w = Empty
    THEN KernelScheduler(s) /\ UNCHANGED tgt
    ELSE /\ pc' = [pc EXCEPT ![s] = "trigger"]
         /\ cur' = [cur EXCEPT ![s] = NotProcess]
         /\ tgt' = [tgt EXCEPT ![s] = w.p]

(***************************************************************************)
(* kernel_chan_io, first read of the channel word.  `back' is the saved    *)
(* return address and io records the request.  With the partner in the     *)
(* word, an ordinary transfer clears it and an extended one leaves it.     *)
(***************************************************************************)
WithPartner(back) == IF back = "xend" THEN "xin_copy" ELSE "io_clear"

ChanIo(s, p, c, dir, back) ==
  /\ ch' = [ch EXCEPT ![p] = c]
  /\ io' = [io EXCEPT ![p] = R!Pending(dir, c)]
  /\ SetIptr(p, back)
  /\ IF chan[c] = Empty \/ chan[c].alt
       THEN /\ SetState(p, Pointer)
            /\ Goto(s, "io_swap")
            /\ UNCHANGED word
       ELSE /\ word' = [word EXCEPT ![s] = chan[c]]
            /\ Goto(s, WithPartner(back))
            /\ UNCHANGED state
  /\ ForgetAlt(p)
  /\ UNCHANGED <<queued, chan, todo, tgt>>

(* OUT, and IN both free-standing and as the first action of a chosen guard. *)
Output(s, p, c) ==
  /\ At(s, p, {"main"}) /\ "out" \in Ops[p] /\ Writer[c] = p
  /\ ChanIo(s, p, c, "out", "main")

Input(s, p, c) ==
  /\ Reader[c] = p
  /\ \/ At(s, p, {"main"}) /\ "in" \in Ops[p]
     \/ At(s, p, {"selected"}) /\ temp[p] = c
  /\ ChanIo(s, p, c, "in", "main")

(* Mutants: no return after trigger_alt_guard; no second look after the swap. *)
IoSwapNoReturn(s, p) ==
  LET c == ch[p] IN
  /\ InKernel(s, p, "io_swap")
  /\ SetChan(c, Wptr(p))
  /\ IF chan[c] = Empty
       THEN SleepInChannel(s, chan[c]) /\ UNCHANGED word
       ELSE /\ word' = [word EXCEPT ![s] = chan[c]]
            /\ Goto(s, WithPartner(iptr[p]))
            /\ UNCHANGED tgt
  /\ UNCHANGED <<queued, state, procVars, histVars>>

IoSwapBlind(s, p) ==
  LET c == ch[p] IN
  /\ InKernel(s, p, "io_swap")
  /\ SetChan(c, Wptr(p))
  /\ SleepInChannel(s, IF chan[c].alt THEN chan[c] ELSE Empty)
  /\ UNCHANGED <<queued, state, procVars, word, histVars>>

(* atw_swap of the caller's workspace into the channel word. *)
IoSwap(s, p) ==
  LET c == ch[p] IN
  /\ InKernel(s, p, "io_swap")
  /\ SetChan(c, Wptr(p))
  /\ IF chan[c] = Empty \/ chan[c].alt
       THEN SleepInChannel(s, chan[c]) /\ UNCHANGED word
       ELSE /\ word' = [word EXCEPT ![s] = chan[c]]
            /\ Goto(s, WithPartner(iptr[p]))
            /\ UNCHANGED tgt
  /\ UNCHANGED <<queued, state, procVars, histVars>>

(* The partner is there: the channel word is cleared ... *)
IoClear(s, p) ==
  /\ InKernel(s, p, "io_clear")
  /\ SetChan(ch[p], Empty)
  /\ Goto(s, "io_copy")
  /\ UNCHANGED <<queued, state, procVars, localVars, histVars>>

(***************************************************************************)
(* ... the data is copied through the partner's pointer, and               *)
(* reschedule_point makes the partner runnable; a partner of higher        *)
(* priority also preempts the caller.                                      *)
(***************************************************************************)
Copied(p, q) == io' = [io EXCEPT ![p] = R!Idle, ![q] = R!Idle]

IoCopy(s, p) ==
  LET q == word[s].p IN
  /\ InKernel(s, p, "io_copy")
  /\ Copied(p, q)
  /\ \/ EnqueueProcess(q) /\ Goto(s, "user")
     \/ /\ queued' = [queued EXCEPT ![q] = @ + 1, ![p] = @ + 1]
        /\ KernelScheduler(s)
  /\ Forget(s)
  /\ UNCHANGED <<chan, state, procVars, ready0>>

(***************************************************************************)
(* Extended input: Y_xable waits for the writer without communicating,     *)
(* Y_xin copies and leaves the writer in the channel, X_xend releases it.  *)
(***************************************************************************)
Xable(s, p, c) ==
  /\ Reader[c] = p /\ "xin" \in Ops[p]
  /\ \/ At(s, p, {"main"})
     \/ At(s, p, {"selected"}) /\ temp[p] = c
  /\ ch' = [ch EXCEPT ![p] = c]
  /\ SetIptr(p, "xin")
  /\ IF chan[c] = Empty \/ chan[c].alt
       THEN /\ SetState(p, AltState(FALSE, TRUE, FALSE, 1))
            /\ Goto(s, "xable_swap")
       ELSE UNCHANGED <<state, pc, cur>>
  /\ ForgetAlt(p)
  /\ UNCHANGED <<queued, chan, todo, localVars, io>>

XableSwap(s, p) ==
  LET c == ch[p] IN
  /\ InKernel(s, p, "xable_swap")
  /\ SetChan(c, AltPtr(p))
  /\ IF chan[c] = Empty \/ chan[c].alt
       THEN SleepInChannel(s, chan[c]) /\ UNCHANGED word
       ELSE /\ word' = [word EXCEPT ![s] = chan[c]]
            /\ Goto(s, "xable_restore")
            /\ UNCHANGED tgt
  /\ UNCHANGED <<queued, state, procVars, histVars>>

XableRestore(s, p) ==
  /\ InKernel(s, p, "xable_restore")
  /\ SetChan(ch[p], word[s])
  /\ Goto(s, "user")
  /\ Forget(s)
  /\ UNCHANGED <<queued, state, procVars, histVars>>

Xin(s, p) ==
  /\ At(s, p, {"xin"})
  /\ ChanIo(s, p, ch[p], "in", "xend")

XinCopy(s, p) ==
  /\ InKernel(s, p, "xin_copy")
  /\ Copied(p, word[s].p)
  /\ Goto(s, "user")
  /\ Forget(s)
  /\ UNCHANGED <<queued, chan, state, procVars, ready0>>

Xend(s, p) ==
  LET c == ch[p] IN
  /\ At(s, p, {"xend"})
  /\ word' = [word EXCEPT ![s] = chan[c]]
  /\ SetChan(c, Empty)
  /\ Goto(s, "xend_enqueue")
  /\ UNCHANGED <<queued, state, procVars, tgt, histVars>>

XendEnqueue(s, p) ==
  /\ InKernel(s, p, "xend_enqueue")
  /\ EnqueueProcess(word[s].p)
  /\ SetIptr(p, "main")
  /\ Goto(s, "user")
  /\ Forget(s)
  /\ UNCHANGED <<chan, state, temp, altVars, todo, ch, histVars>>

(***************************************************************************)
(* X_alt.  The guard list is what the preconditions of the ALT leave:      *)
(* enabling a guard whose precondition is FALSE does nothing.              *)
(***************************************************************************)
Timed(gs) == \E i \in DOMAIN gs : gs[i] \in Timers

ReadyOf(gs) ==
  {g \in {gs[i] : i \in DOMAIN gs} :
     g = Skip \/ (g \in Chans /\ ~chan[g].alt /\ chan[g] # Empty)}

StartAlt(p, a) ==
  /\ SetState(p, AltState(TRUE, FALSE, TRUE, 1))
  /\ guards' = [guards EXCEPT ![p] = a.guards]
  /\ style' = [style EXCEPT ![p] = a.style]
  /\ todo' = [todo EXCEPT ![p] = a.guards]
  /\ ready0' = [ready0 EXCEPT ![p] = ReadyOf(a.guards)]
  /\ SetIptr(p, "enable")
  /\ UNCHANGED <<schedVars, chan, temp, ch, localVars, io>>

Alt(s, p, a) ==
  /\ At(s, p, {"main"}) /\ "alt" \in Ops[p] /\ ~Timed(a.guards)
  /\ StartAlt(p, a)

(***************************************************************************)
(* Control in the ALT of p: after a guard has been enabled, and when the   *)
(* disabling begins with the first k guards of the list enabled.           *)
(***************************************************************************)
Advance(p) == IF Len(todo[p]) = 1
                THEN IF iptr[p] = "enable" THEN "altwt" ELSE "altend"
                ELSE iptr[p]

NextGuard(p) ==
  /\ todo' = [todo EXCEPT ![p] = Tail(@)]
  /\ SetIptr(p, Advance(p))

(* Mutant: NDISC in list order. *)
DisablingListForward(p, k) == SubSeq(guards[p], 1, k)

DisablingList(p, k) ==
  IF style[p] = "jump" THEN [i \in 1..k |-> guards[p][k + 1 - i]]
                       ELSE SubSeq(guards[p], 1, k)

StartDisabling(p, k) ==
  /\ todo' = [todo EXCEPT ![p] = DisablingList(p, k)]
  /\ SetIptr(p, "disable")
  /\ ready0' = [ready0 EXCEPT ![p] = @ \cup ReadyOf(guards[p])]

(* The guard being enabled was found ready. *)
GuardReady(p) ==
  IF style[p] = "all" THEN NextGuard(p) /\ UNCHANGED ready0
                      ELSE StartDisabling(p, Len(guards[p]) - Len(todo[p]) + 1)

(***************************************************************************)
(* kernel_enbc: read the channel word; if empty swap in Wptr | 1 and only  *)
(* then count the reference, else the guard is ready.                      *)
(***************************************************************************)
Enbc(s, p) ==
  LET g == Head(todo[p]) IN
  /\ At(s, p, {"enable"}) /\ g \in Chans
  /\ CASE chan[g] = Empty     -> Goto(s, "enbc_swap") /\ UNCHANGED <<todo, iptr>>
       [] chan[g] = AltPtr(p) -> NextGuard(p) /\ UNCHANGED <<pc, cur>>
       [] OTHER               -> Goto(s, "enb_ready") /\ UNCHANGED <<todo, iptr>>
  /\ UNCHANGED <<queued, chan, state, temp, altVars, ch, localVars, histVars>>

EnbcSwap(s, p) ==
  LET c == Head(todo[p]) IN
  /\ InKernel(s, p, "enbc_swap")
  /\ SetChan(c, AltPtr(p))
  /\ word' = [word EXCEPT ![s] = chan[c]]
  /\ Goto(s, IF chan[c] = Empty THEN "enbc_inc" ELSE "enbc_restore")
  /\ UNCHANGED <<queued, state, procVars, tgt, histVars>>

EnbcRestore(s, p) ==
  /\ InKernel(s, p, "enbc_restore")
  /\ SetChan(Head(todo[p]), word[s])
  /\ Goto(s, "enb_ready")
  /\ Forget(s)
  /\ UNCHANGED <<queued, state, procVars, histVars>>

EnbcInc(s, p) ==
  /\ InKernel(s, p, "enbc_inc")
  /\ SetState(p, [state[p] EXCEPT !.n = @ + 1])
  /\ NextGuard(p)
  /\ Goto(s, "user")
  /\ Forget(s)
  /\ UNCHANGED <<queued, chan, temp, altVars, ch, histVars>>

(* kernel_enbs: a SKIP guard is always ready. *)
Enbs(s, p) ==
  /\ At(s, p, {"enable"}) /\ Head(todo[p]) = Skip
  /\ Goto(s, "enb_ready")
  /\ UNCHANGED <<queued, chan, state, procVars, localVars, histVars>>

(***************************************************************************)
(* The ready branch of kernel_enbc and kernel_enbs.  With `jump' the flags *)
(* are cleared at once; otherwise they are looked at first, and only the   *)
(* first guard found ready clears them and (CIF) records its identity.     *)
(***************************************************************************)
ClearReadyFlags(st) == [st EXCEPT !.enabling = FALSE, !.notReady = FALSE]

EnbReady(s, p) ==
  /\ InKernel(s, p, "enb_ready")
  /\ IF style[p] # "jump" /\ state[p].notReady
       THEN Goto(s, "enb_and") /\ UNCHANGED <<state, todo, iptr, ready0>>
       ELSE /\ IF style[p] = "jump"
                 THEN SetState(p, ClearReadyFlags(state[p]))
                 ELSE UNCHANGED state
            /\ GuardReady(p)
            /\ Goto(s, "user")
  /\ UNCHANGED <<queued, chan, temp, altVars, ch, localVars, io>>

EnbAnd(s, p) ==
  /\ InKernel(s, p, "enb_and")
  /\ SetState(p, ClearReadyFlags(state[p]))
  /\ temp' = [temp EXCEPT ![p] = Head(todo[p])]
  /\ GuardReady(p)
  /\ Goto(s, "user")
  /\ UNCHANGED <<queued, chan, altVars, ch, localVars, io>>

(***************************************************************************)
(* Y_altwt: sleep if no guard is ready, by a compare-and-swap that fails   *)
(* if the word changed since it was read.  Only triggers change it in the  *)
(* meantime and every trigger clears NOT_READY, so "unchanged" is "still   *)
(* NOT_READY".                                                             *)
(***************************************************************************)
AltWt(s, p) ==
  /\ At(s, p, {"altwt"}) /\ ~Timed(guards[p])
  /\ temp' = [temp EXCEPT ![p] = None]
  /\ Goto(s, IF state[p].notReady THEN "altwt_cas" ELSE "altwt_clear")
  /\ UNCHANGED <<queued, chan, state, iptr, altVars, todo, ch, localVars, histVars>>

(* Mutant: a plain store instead of the compare-and-swap. *)
AltWtStore(s, p) ==
  /\ InKernel(s, p, "altwt_cas")
  /\ SetState(p, AltState(FALSE, TRUE, FALSE, state[p].n))
  /\ StartDisabling(p, Len(guards[p]))
  /\ KernelScheduler(s)
  /\ UNCHANGED <<queued, chan, temp, altVars, ch, localVars, io>>

AltWtCas(s, p) ==
  /\ InKernel(s, p, "altwt_cas")
  /\ IF state[p].notReady
       THEN /\ SetState(p, AltState(FALSE, TRUE, FALSE, state[p].n))
            /\ StartDisabling(p, Len(guards[p]))
            /\ KernelScheduler(s)
       ELSE Goto(s, "altwt_clear") /\ UNCHANGED <<state, todo, iptr, ready0>>
  /\ UNCHANGED <<queued, chan, temp, altVars, ch, localVars, io>>

AltWtClear(s, p) ==
  /\ InKernel(s, p, "altwt_clear")
  /\ SetState(p, [state[p] EXCEPT !.enabling = FALSE])
  /\ StartDisabling(p, Len(guards[p]))
  /\ Goto(s, "user")
  /\ UNCHANGED <<queued, chan, temp, altVars, ch, localVars, io>>

(***************************************************************************)
(* kernel_disc: take the ALT pointer back out of the channel and drop its  *)
(* reference, or find the guard ready and maybe select it.  NDISC lets     *)
(* every ready guard overwrite the selection, DISC only the first.         *)
(***************************************************************************)
Select(p, g) ==
  temp' = IF style[p] = "jump" \/ temp[p] = None
            THEN [temp EXCEPT ![p] = g] ELSE temp

Disc(s, p) ==
  LET g == Head(todo[p]) IN
  /\ At(s, p, {"disable"}) /\ g \in Chans
  /\ IF chan[g] = AltPtr(p)
       THEN Goto(s, "disc_cas") /\ UNCHANGED <<temp, todo, iptr>>
       ELSE /\ IF chan[g] = Empty THEN UNCHANGED temp ELSE Select(p, g)
            /\ NextGuard(p)
            /\ UNCHANGED <<pc, cur>>
  /\ UNCHANGED <<queued, chan, state, altVars, ch, localVars, histVars>>

DiscCas(s, p) ==
  LET c == Head(todo[p]) IN
  /\ InKernel(s, p, "disc_cas")
  /\ IF chan[c] = AltPtr(p)
       THEN /\ SetChan(c, Empty)
            /\ Goto(s, "disc_dec")
            /\ UNCHANGED <<temp, todo, iptr>>
       ELSE /\ Select(p, c)
            /\ NextGuard(p)
            /\ Goto(s, "user")
            /\ UNCHANGED chan
  /\ UNCHANGED <<queued, state, altVars, ch, localVars, histVars>>

(* Mutant: the reference of a disabled channel stays counted. *)
DiscDecLost(s, p) ==
  /\ InKernel(s, p, "disc_dec")
  /\ NextGuard(p)
  /\ Goto(s, "user")
  /\ UNCHANGED <<queued, chan, state, temp, altVars, ch, localVars, histVars>>

DiscDec(s, p) ==
  /\ InKernel(s, p, "disc_dec")
  /\ SetState(p, [state[p] EXCEPT !.n = @ - 1])
  /\ NextGuard(p)
  /\ Goto(s, "user")
  /\ UNCHANGED <<queued, chan, temp, altVars, ch, localVars, histVars>>

Diss(s, p) ==
  /\ At(s, p, {"disable"}) /\ Head(todo[p]) = Skip
  /\ Select(p, Skip)
  /\ NextGuard(p)
  /\ UNCHANGED <<schedVars, chan, state, altVars, ch, localVars, histVars>>

(***************************************************************************)
(* kernel_altend: references other than the process's own belong to        *)
(* partners that are still on their way into trigger_alt_guard; the last   *)
(* of them wakes the process.                                              *)
(***************************************************************************)
(* Mutant: ALTEND does not wait for partners still in trigger_alt_guard. *)
AltEndNoWait(s, p) ==
  /\ At(s, p, {"altend"})
  /\ SetIptr(p, "selected")
  /\ UNCHANGED <<schedVars, chan, state, temp, altVars, todo, ch, localVars, histVars>>

AltEnd(s, p) ==
  /\ At(s, p, {"altend"})
  /\ SetIptr(p, "selected")
  /\ IF state[p] = AltState(FALSE, FALSE, FALSE, 1)
       THEN UNCHANGED <<pc, cur>>
       ELSE Goto(s, "altend_dec")
  /\ UNCHANGED <<queued, chan, state, temp, altVars, todo, ch, localVars, histVars>>

AltEndDec(s, p) ==
  LET st == [state[p] EXCEPT !.n = @ - 1] IN
  /\ InKernel(s, p, "altend_dec")
  /\ SetState(p, st)
  /\ IF st = AltState(FALSE, FALSE, FALSE, 0)
       THEN Goto(s, "user") ELSE KernelScheduler(s)
  /\ UNCHANGED <<queued, chan, procVars, localVars, histVars>>

(* A SKIP or timer guard has no input; a channel guard goes on with Input or Xable. *)
SkipBody(s, p) ==
  /\ At(s, p, {"selected"}) /\ temp[p] \in Timers \cup {Skip}
  /\ SetIptr(p, "main")
  /\ ForgetAlt(p)
  /\ UNCHANGED <<schedVars, chan, state, todo, ch, localVars, io>>

Resume(s, p) ==
  /\ Dispatch(s, p)
  /\ UNCHANGED <<chan, state, procVars, localVars, histVars>>

Step(s) ==
  \/ TriggerAltGuard(s) \/ TriggerEnqueue(s)
  \/ \E p \in Procs :
       \/ \E c \in Chans : Output(s, p, c) \/ Input(s, p, c) \/ Xable(s, p, c)
       \/ \E a \in Alts[p] : Alt(s, p, a)
       \/ IoSwap(s, p) \/ IoClear(s, p) \/ IoCopy(s, p)
       \/ XableSwap(s, p) \/ XableRestore(s, p)
       \/ Xin(s, p) \/ XinCopy(s, p) \/ Xend(s, p) \/ XendEnqueue(s, p)
       \/ Enbc(s, p) \/ EnbcSwap(s, p) \/ EnbcRestore(s, p) \/ EnbcInc(s, p)
       \/ Enbs(s, p) \/ EnbReady(s, p) \/ EnbAnd(s, p)
       \/ AltWt(s, p) \/ AltWtCas(s, p) \/ AltWtClear(s, p)
       \/ Disc(s, p) \/ DiscCas(s, p) \/ DiscDec(s, p) \/ Diss(s, p)
       \/ AltEnd(s, p) \/ AltEndDec(s, p) \/ SkipBody(s, p)

Next == \E s \in Scheds : Step(s) \/ \E p \in Procs : Resume(s, p)

Spec == Init /\ [][Next]_vars

(***************************************************************************)
(* Threads run (the operating system schedules them), and a runnable       *)
(* process is not passed over for ever (batches and run queues are FIFO    *)
(* and a batch is bounded by its dispatch count).                          *)
(***************************************************************************)
Fairness ==
  /\ \A s \in Scheds : WF_vars(Step(s))
  /\ \A p \in Procs : SF_vars(\E s \in Scheds : Resume(s, p))

FairSpec == Spec /\ Fairness

-----------------------------------------------------------------------------
StateWord == [tag : {"pointer", "alt"}, enabling : BOOLEAN, waiting : BOOLEAN,
              notReady : BOOLEAN, n : 0..(Cardinality(Chans) + 2)]
ChanWord == [p : Procs \cup {NotProcess}, alt : BOOLEAN]
Labels == {"main", "enable", "altwt", "disable", "altend", "selected", "xin", "xend"}
Requests == {R!Idle} \cup {R!Pending(d, c) : d \in {"in", "out"}, c \in Chans}

(* Every variable has its type; in particular the reference count of an    *)
(* ALT state never goes below zero, where it would borrow from the flags.  *)
TypeOK ==
  /\ cur \in [Scheds -> Procs \cup {NotProcess}]
  /\ queued \in [Procs -> Nat]
  /\ chan \in [Chans -> ChanWord]
  /\ state \in [Procs -> StateWord]
  /\ temp \in [Procs -> Chans \cup Timers \cup {Skip, None, Junk}]
  /\ iptr \in [Procs -> Labels]
  /\ \A p \in Procs : guards[p] \in {<< >>} \cup {a.guards : a \in Alts[p]}
  /\ style \in [Procs -> Styles]
  /\ ch \in [Procs -> Chans \cup {None}]
  /\ word \in [Scheds -> ChanWord]
  /\ tgt \in [Scheds -> Procs \cup {NotProcess}]
  /\ io \in [Procs -> Requests]

(***************************************************************************)
(* The ALTs the flags of the state word are made for.  The occam back end  *)
(* jumps away from a guard it finds ready.  The other two styles may have  *)
(* no channel after a guard that can be ready: "all" would go on to enable *)
(* it with ENABLING already cleared, where a trigger that comes before the *)
(* late count of kernel_enbc wakes a running process, and "procalt" would  *)
(* skip ALTWT with ENABLING still set, which ALTEND never gets rid of.     *)
(***************************************************************************)
OneChannel ==
  \A p \in Procs : \A a \in Alts[p] : \A i \in DOMAIN a.guards : a.guards[i] \in Chans =>
    /\ a.style = "all" => i = 1
    /\ a.style = "procalt" => i = Len(a.guards)

(* A process is never on two run queues, or running and on a run queue:    *)
(* enqueue_process is only ever called for a process that has been         *)
(* descheduled (trigger_alt_guard, reschedule_point, X_xend).              *)
NeverScheduledTwice == \A p \in Procs : Scheduled(p) <= 1

(* The word at Wptr[-4] is an ALT state for as long as a partner is going  *)
(* to trigger it, so kernel_chan_io never overwrites it with a pointer     *)
(* under trigger_alt_guard, and it is a pointer while a partner copies.    *)
StateWordNotReused ==
  \A s \in Scheds :
    /\ pc[s] = "trigger" =>
         /\ state[tgt[s]].tag = "alt"
         /\ \/ iptr[tgt[s]] \in {"enable", "altwt", "disable", "altend"}
            \/ iptr[tgt[s]] = "selected" /\ \E t \in Scheds : InKernel(t, tgt[s], "altend_dec")
            \/ iptr[tgt[s]] \in {"selected", "xin"} /\ Scheduled(tgt[s]) = 0
    /\ pc[s] \in {"io_copy", "xin_copy"} => state[word[s].p].tag = "pointer"

(* The reference count of an ALT: one for the ALTing process until it has  *)
(* given it up in kernel_altend, one for each channel it is in, and one    *)
(* for each partner on its way into trigger_alt_guard, where kernel_enbc   *)
(* counts late and kernel_disc uncounts late.                              *)
InAlt(p) == iptr[p] \in {"enable", "altwt", "disable", "altend"}
By(p, labels) == Cardinality({s \in Scheds : cur[s] = p /\ pc[s] \in labels})
AltReferences(p) ==
  1 + Cardinality({c \in Chans : chan[c] = AltPtr(p)})
    + Cardinality({s \in Scheds : pc[s] = "trigger" /\ tgt[s] = p})
    + By(p, {"disc_dec"}) - By(p, {"enbc_inc", "enbc_restore"})
ReferencesCounted ==
  \A p \in Procs : InAlt(p) => state[p].n = AltReferences(p)

(* After ALTEND the ALTing process is in no channel any more, and the      *)
(* guard it selected is ready: a SKIP guard of the list, or a channel of   *)
(* the list whose writer waits in it (AltEnd, kernel_disc, kernel_enbc).   *)
InList(p, g) == \E i \in DOMAIN guards[p] : guards[p][i] = g
SelectedIsReady ==
  \A p \in Procs : iptr[p] = "selected" =>
    /\ \A c \in Chans : chan[c] # AltPtr(p)
    /\ temp[p] \in Chans \cup {Skip} /\ InList(p, temp[p])
    /\ temp[p] \in Chans => chan[temp[p]] = Wptr(Writer[temp[p]])

(* Priority: a guard that was ready when the enabling or the disabling     *)
(* began is never passed over for a guard further down the list, although  *)
(* triggers interleave with both (NDISC in reverse order, every ready      *)
(* guard overwriting the selection).                                       *)
Position(p, g) == CHOOSE i \in DOMAIN guards[p] : guards[p][i] = g /\
                    \A j \in 1..(i - 1) : guards[p][j] # g
PriorityRespected ==
  \A p \in Procs : iptr[p] = "selected" /\ InList(p, temp[p]) =>
    \A g \in ready0[p] : Position(p, temp[p]) <= Position(p, g)

(* An ALT selects a guard that is ready, and by priority. *)
SelectedByPriority == SelectedIsReady /\ PriorityRespected

(* Channels implement the rendezvous: no kernel call lets a process go on  *)
(* before its communication, and each communication pairs one output with  *)
(* one input of the same channel.                                          *)
ImplementsRendezvous == R!Spec

(* No wakeup is lost: a process that has begun an ALT over channels whose  *)
(* writers keep writing eventually runs the guard it selected.             *)
AltSelects ==
  \A p \in Procs :
    (iptr[p] = "enable") ~> (\E s \in Scheds : At(s, p, {"selected"}))

(* Two processes that ask for the two ends of a channel communicate.       *)
PartnersMeet ==
  \A c \in Chans :
    (io[Writer[c]] = R!Pending("out", c) /\ io[Reader[c]] = R!Pending("in", c))
      ~> (io[Writer[c]] = R!Idle)
=============================================================================
