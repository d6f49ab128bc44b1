---------------------------- MODULE CcspAltProofs ----------------------------
(***************************************************************************)
(* The safety properties of CcspAlt, proved for any schedulers, processes, *)
(* channels and ALTs, of occam in general and of the other styles under    *)
(* OneChannel.                                                             *)
(*                                                                         *)
(* Three things have to be known at once.  A process is in one place: on a *)
(* run queue, run by one scheduler, about to be enqueued by one, or off,   *)
(* asleep in a channel, an ALT or an ALTEND.  A channel word says where    *)
(* the processes at its two ends are.  And the reference count of an ALT   *)
(* is exact, which is why a partner that is still on its way into          *)
(* trigger_alt_guard finds the ALT it means.                               *)
(***************************************************************************)
EXTENDS CcspAlt, FiniteSetTheorems, WellFoundedInduction, NaturalsInduction, TLAPS

-----------------------------------------------------------------------------
(***************************************************************************)
(* Where a process is.                                                     *)
(***************************************************************************)
On(s, p) == cur[s] = p \/ (pc[s] \in {"trigger_enqueue", "walk_enqueue"} /\ tgt[s] = p)
Off(p) == queued[p] = 0 /\ \A s \in Scheds : ~On(s, p)
Runs(p, labels) == \E s \in Scheds : cur[s] = p /\ pc[s] \in labels

(* Asleep in channel c, for an ordinary communication. *)
Waiting(tm, p, c) ==
  Off(p) /\ p \notin tm.tin /\ iptr[p] = "main" /\ ch[p] = c /\ state[p].tag = "pointer"

IdleLabels == {"sched", "trigger", "trigger_enqueue",
               "walk", "walk_swap", "walk_trigger", "walk_enqueue", "walk_clean"}
IoLabels == {"io_swap", "io_clear", "io_copy"}
XableLabels == {"xable_swap", "xable_restore"}
XendLabels == {"xin_copy", "xend_enqueue"}
EnbcLabels == {"enbc_swap", "enbc_restore", "enbc_inc"}
EnbLabels == {"enb_ready", "enb_and"}
AltwtLabels == {"altwt_cas", "altwt_clear", "taltwt_cas", "taltwt_clear"}
DiscLabels == {"disc_cas", "disc_dec"}
DistLabels == {"dist_swap", "dist_sync", "dist_dec"}
(* Labels at which `word' holds the partner the caller has found. *)
HoldLabels == {"io_clear", "io_copy", "xable_restore", "xin_copy", "xend_enqueue", "enbc_restore"}

Ends(c) == {Writer[c], Reader[c]}
Partner(p, c) == IF p = Writer[c] THEN Reader[c] ELSE Writer[c]
Dir(p, c) == IF p = Writer[c] THEN "out" ELSE "in"
Asked(p, c) == io[p] = R!Pending(Dir(p, c), c)
Ready(g) == g \in Timers \cup {Skip} \/ (g \in Chans /\ chan[g] = Wptr(Writer[g]))
Elems(q) == {q[i] : i \in DOMAIN q}

StateWords == [tag : {"pointer", "alt"}, enabling : BOOLEAN, waiting : BOOLEAN,
               notReady : BOOLEAN, n : Int]
PcLabels == {"user", "altend_dec"} \cup IdleLabels \cup IoLabels \cup XableLabels
              \cup XendLabels \cup EnbcLabels \cup EnbLabels \cup AltwtLabels \cup DiscLabels \cup DistLabels
Types ==
  /\ pc \in [Scheds -> PcLabels]
  /\ cur \in [Scheds -> Procs \cup {NotProcess}]
  /\ queued \in [Procs -> {0, 1}]
  /\ chan \in [Chans -> ChanWord]
  /\ state \in [Procs -> StateWords]
  /\ temp \in [Procs -> Chans \cup Timers \cup {Skip, None, Junk}]
  /\ iptr \in [Procs -> Labels \cup {"timed"}]
  /\ guards \in [Procs -> Seq(Chans \cup Timers \cup {Skip})]
  /\ style \in [Procs -> Styles]
  /\ todo \in [Procs -> Seq(Chans \cup Timers \cup {Skip})]
  /\ ch \in [Procs -> Chans \cup {None}]
  /\ word \in [Scheds -> ChanWord]
  /\ tgt \in [Scheds -> Procs \cup {NotProcess}]
  /\ io \in [Procs -> Requests]
  /\ ready0 \in [Procs -> SUBSET (Chans \cup {Skip})]

(* A process is in one place. *)
OnceAt(p) ==
  /\ \A s \in Scheds : On(s, p) => queued[p] = 0
  /\ \A s, t \in Scheds : On(s, p) /\ On(t, p) => s = t

(* What a scheduler runs fits where it is. *)
RunAt(s) ==
  /\ pc[s] \in IdleLabels <=> cur[s] = NotProcess
  /\ pc[s] \in {"trigger", "trigger_enqueue", "walk_trigger", "walk_enqueue"} => tgt[s] \in Procs
  /\ pc[s] \in IoLabels => /\ iptr[cur[s]] = "main" /\ ch[cur[s]] \in Chans
                           /\ cur[s] \in Ends(ch[cur[s]]) /\ Asked(cur[s], ch[cur[s]])
  /\ pc[s] = "io_swap" => state[cur[s]].tag = "pointer"
  /\ pc[s] \in XableLabels => iptr[cur[s]] = "xin"
  /\ pc[s] = "xable_swap" => state[cur[s]] = AltState(FALSE, TRUE, FALSE, 1)
  /\ pc[s] \in XendLabels => iptr[cur[s]] = "xend"
  /\ pc[s] = "xin_copy" => Asked(cur[s], ch[cur[s]])
  /\ pc[s] \in EnbcLabels \cup EnbLabels => iptr[cur[s]] = "enable"
  /\ pc[s] \in EnbcLabels => Head(todo[cur[s]]) \in Chans
  /\ pc[s] \in AltwtLabels => iptr[cur[s]] = "altwt"
  /\ pc[s] \in DiscLabels => iptr[cur[s]] = "disable" /\ Head(todo[cur[s]]) \in Chans
  /\ pc[s] \in DistLabels => iptr[cur[s]] = "disable" /\ Head(todo[cur[s]]) \in Timers
  /\ pc[s] = "altend_dec" => iptr[cur[s]] = "selected"

(* The partner in `word' is asleep in the channel. *)
ChannelOf(s) == IF pc[s] = "enbc_restore" THEN Head(todo[cur[s]]) ELSE ch[cur[s]]
HeldBy(tm, s, c, q) ==
  /\ word[s] = Wptr(q) /\ Waiting(tm, q, c)
  /\ pc[s] \notin IoLabels => cur[s] = Reader[c]
  /\ IF pc[s] = "xend_enqueue" THEN io[q] = R!Idle ELSE Asked(q, c)
  /\ pc[s] = "io_clear" => chan[c] \in {Wptr(cur[s]), Wptr(q)}
  /\ pc[s] \in {"io_copy", "xend_enqueue"} => chan[c] = Empty
  /\ pc[s] \in {"xable_restore", "enbc_restore"} => chan[c] = AltPtr(cur[s])
  /\ pc[s] = "xin_copy" => chan[c] = Wptr(q)
HoldAt(tm, s) == pc[s] \in HoldLabels => HeldBy(tm, s, ChannelOf(s), Partner(cur[s], ChannelOf(s)))

(* The channels the ALT of p may be in. *)
Passed(p) == {guards[p][i] : i \in 1..(Len(guards[p]) - Len(todo[p]))}
Enabled(p) == Passed(p) \cup (IF Runs(p, {"enbc_inc"}) THEN {Head(todo[p])} ELSE {})
AltIn(p, c) ==
  \/ iptr[p] = "xin" /\ ch[p] = c /\ (Off(p) \/ Runs(p, {"xable_restore"}))
  \/ iptr[p] \in {"enable", "altwt"} /\ c \in Enabled(p)
  \/ Runs(p, {"enbc_restore"}) /\ c = Head(todo[p])
  \/ iptr[p] = "disable" /\ c \in Elems(todo[p])

(* What a channel word says. *)
Transferred(p) == iptr[p] = "xend" /\ Runs(p, {"user"})
Extended(c) == ch[Reader[c]] = c /\ Transferred(Reader[c])
ChanAt(tm, c) ==
  /\ chan[c] = Empty \/ chan[c] = AltPtr(Reader[c]) \/ \E p \in Ends(c) : chan[c] = Wptr(p)
  /\ \A p \in Ends(c) : chan[c] = Wptr(p) =>
       /\ Waiting(tm, p, c) \/ (ch[p] = c /\ Runs(p, {"io_clear"}))
       /\ IF p = Writer[c] /\ Extended(c) THEN io[p] = R!Idle ELSE Asked(p, c)
  /\ chan[c] = AltPtr(Reader[c]) => AltIn(Reader[c], c)

-----------------------------------------------------------------------------
(***************************************************************************)
(* The course of an ALT.                                                   *)
(***************************************************************************)
(* A guard has been selected.  Before that `temp' has no guard in it. *)
Chosen(p) == temp[p] \notin {None, Junk}

(* Which guards are still to be enabled or disabled. *)
ListAt(p) ==
  /\ InAlt(p) \/ iptr[p] = "selected" =>
       \E a \in Alts[p] : a.guards = guards[p] /\ a.style = style[p]
  /\ iptr[p] = "enable" =>
       /\ todo[p] # << >> /\ Len(todo[p]) <= Len(guards[p])
       /\ \A i \in DOMAIN todo[p] : todo[p][i] = guards[p][Len(guards[p]) - Len(todo[p]) + i]
       /\ style[p] = "procalt" => Passed(p) \subseteq Timers
  /\ iptr[p] = "altwt" => todo[p] = << >>
  /\ iptr[p] = "disable" =>
       /\ todo[p] # << >> /\ Elems(todo[p]) \subseteq Elems(guards[p])
       /\ Len(todo[p]) <= Len(guards[p])
       /\ style[p] = "jump" =>
            \A i \in DOMAIN todo[p] : todo[p][i] = guards[p][Len(todo[p]) + 1 - i]
       /\ style[p] # "jump" /\ temp[p] = None =>
            \A i \in DOMAIN todo[p] : todo[p][i] = guards[p][Len(guards[p]) - Len(todo[p]) + i]

(* The flags of the state word, and where a process sleeps in an ALT. *)
FlagsAt(p) ==
  /\ InAlt(p) => state[p].tag = "alt" /\ (state[p].waiting <=> Off(p) /\ iptr[p] = "disable")
  /\ iptr[p] \in {"enable", "altwt", "altend", "xend"} => \E s \in Scheds : cur[s] = p
  /\ iptr[p] = "enable" /\ (style[p] = "all" => Len(todo[p]) = Len(guards[p])) =>
       state[p].enabling
  /\ iptr[p] = "selected" /\ (Off(p) \/ Runs(p, {"altend_dec"})) =>
       state[p].tag = "alt" /\ ~state[p].waiting
  /\ iptr[p] = "xin" /\ Off(p) => state[p].tag = "alt" /\ state[p].waiting
  /\ Runs(p, {"altwt_clear"}) => ~state[p].notReady

(* The input that follows an extended one, or a selected guard. *)
TriggeredOn(p) == \E s \in Scheds : pc[s] \in {"trigger", "walk_trigger"} /\ tgt[s] = p
XinAt(p) ==
  iptr[p] \in {"xin", "xend"} =>
    /\ ch[p] \in Chans /\ Reader[ch[p]] = p
    /\ (Off(p) /\ ~TriggeredOn(p)) \/ Runs(p, XableLabels \cup XendLabels) \/ Ready(ch[p])

(* While guards are enabled: a channel that has been is not empty, and     *)
(* when one has been triggered or found ready there is one that is ready.  *)
Hopeful(p, g) == Ready(g) /\ (style[p] = "procalt" => g \notin Timers)
EnabledAt(p) ==
  iptr[p] \in {"enable", "altwt"} =>
    /\ \A g \in Enabled(p) : g \in Chans => chan[g] # Empty
    /\ ~state[p].notReady \/ TriggeredOn(p) => \E g \in Enabled(p) : Hopeful(p, g)
    /\ Runs(p, EnbcLabels) => Head(todo[p]) \notin Passed(p) \cup ready0[p]
    /\ Runs(p, EnbLabels) => Ready(Head(todo[p]))
    /\ Runs(p, {"enb_and"}) => style[p] # "jump"

(* What is selected is ready, and something is or will be. *)
SelectedAt(p) ==
  /\ iptr[p] \in {"main", "timed", "xin", "xend"} => temp[p] = Junk
  /\ iptr[p] = "enable" /\ style[p] # "all" => temp[p] = Junk
  /\ iptr[p] = "altwt" /\ Runs(p, AltwtLabels) => temp[p] = None
  /\ iptr[p] = "disable" /\ style[p] # "jump" => temp[p] # Junk
  /\ iptr[p] = "disable" /\ Runs(p, {"disc_cas"}) => chan[Head(todo[p])] # Empty
  /\ iptr[p] = "disable" /\ Runs(p, {"disc_dec"}) =>
       /\ Head(todo[p]) \notin ready0[p] /\ chan[Head(todo[p])] # AltPtr(p)
       /\ ~Timed(guards[p]) => Chosen(p) \/ \E g \in Elems(Tail(todo[p])) : Ready(g)
  /\ iptr[p] = "disable" /\ ~Timed(guards[p]) /\ (~state[p].waiting \/ TriggeredOn(p)) =>
       Chosen(p) \/ \E g \in Elems(todo[p]) : Ready(g)
  /\ iptr[p] \in {"altend", "selected"} /\ ~Timed(guards[p]) => Chosen(p)
  /\ iptr[p] \in {"disable", "altend", "selected"} /\ Chosen(p) =>
       temp[p] \in Elems(guards[p]) /\ Ready(temp[p])

(* No guard that was ready is passed over. *)
FirstAt(p) ==
  /\ InAlt(p) => \A g \in ready0[p] : g \in Elems(guards[p]) /\ Ready(g)
  /\ iptr[p] = "disable" /\ style[p] # "jump" /\ temp[p] = None =>
       \A g \in ready0[p] : Position(p, g) > Len(guards[p]) - Len(todo[p])
  /\ iptr[p] = "disable" /\ Chosen(p) =>
       \A g \in ready0[p] : \/ style[p] = "jump" /\ Position(p, g) <= Len(todo[p])
                            \/ Position(p, temp[p]) <= Position(p, g)
  /\ iptr[p] \in {"altend", "selected"} /\ Chosen(p) =>
       \A g \in ready0[p] : Position(p, temp[p]) <= Position(p, g)

-----------------------------------------------------------------------------
(***************************************************************************)
(* The reference count.                                                    *)
(***************************************************************************)
InChans(p) == {c \in Chans : chan[c] = AltPtr(p)}
Triggers(p) == {s \in Scheds : pc[s] \in {"trigger", "walk_trigger"} /\ tgt[s] = p}
Refs(p) == Cardinality(InChans(p)) + Cardinality(Triggers(p))

CountAt(tm, p) ==
  /\ tm.refs[p] \in Nat
  /\ InAlt(p) => state[p].n = 1 + Refs(p) + tm.refs[p]
                                 + (IF Runs(p, {"disc_dec"}) THEN 1 ELSE 0)
                                 - (IF Runs(p, {"enbc_inc", "enbc_restore"}) THEN 1 ELSE 0)
  /\ Runs(p, {"altend_dec"}) => state[p].n = 1 + Refs(p) + tm.refs[p]
  /\ iptr[p] = "selected" /\ Off(p) => state[p].n = Refs(p) + tm.refs[p]
  /\ iptr[p] = "xin" /\ Off(p) => state[p].n = 1 /\ Refs(p) = 1
  /\ tm.refs[p] # 0 => InAlt(p) \/ (iptr[p] = "selected" /\ (Off(p) \/ Runs(p, {"altend_dec"})))

(* Whom a partner triggers. *)
Target(p) ==
  \/ InAlt(p)
  \/ iptr[p] = "selected" /\ (Off(p) \/ Runs(p, {"altend_dec"}))
  \/ iptr[p] = "xin" /\ Off(p)
TriggerAt(s) == pc[s] \in {"trigger", "walk_trigger"} => Target(tgt[s])

(* Who has asked for a communication. *)
IoAt(p) ==
  \/ io[p] = R!Idle
  \/ Runs(p, IoLabels \cup {"xin_copy"})
  \/ Off(p) /\ iptr[p] = "main"
TinAt(tm, p) == p \in tm.tin => Off(p) /\ iptr[p] = "main" /\ io[p] = R!Idle

FlowAt(tm, p) ==
  /\ ListAt(p) /\ FlagsAt(p) /\ XinAt(p)
  /\ EnabledAt(p) /\ SelectedAt(p) /\ FirstAt(p)
  /\ CountAt(tm, p)

(* No timers. *)
NoTimers == [refs |-> [p \in Procs |-> 0], tin |-> {}]

IInv(tm) ==
  /\ Types
  /\ \A s \in Scheds : RunAt(s) /\ HoldAt(tm, s) /\ TriggerAt(s)
  /\ \A c \in Chans : ChanAt(tm, c)
  /\ \A p \in Procs : OnceAt(p) /\ IoAt(p) /\ TinAt(tm, p) /\ FlowAt(tm, p)

-----------------------------------------------------------------------------
(***************************************************************************)
(* Words, ends and lists.                                                  *)
(***************************************************************************)
(* Channel words differ. *)
LEMMA WordFacts ==
  /\ Empty \in ChanWord /\ ~Empty.alt
  /\ \A p \in Procs : /\ Wptr(p) \in ChanWord /\ Wptr(p).p = p /\ ~Wptr(p).alt /\ Wptr(p) # Empty
                      /\ AltPtr(p) \in ChanWord /\ AltPtr(p).p = p /\ AltPtr(p).alt /\ AltPtr(p) # Empty
  /\ \A p, q \in Procs : /\ Wptr(p) # AltPtr(q)
                         /\ Wptr(p) = Wptr(q) => p = q
                         /\ AltPtr(p) = AltPtr(q) => p = q
BY NotProcessAssumption DEF ChanWord, Empty, Wptr, AltPtr

(* A channel has two ends. *)
LEMMA EndFacts ==
  ASSUME NEW c \in Chans
  PROVE  /\ Writer[c] \in Procs /\ Reader[c] \in Procs /\ Writer[c] # Reader[c]
         /\ \A p : p \in Ends(c) <=> p = Writer[c] \/ p = Reader[c]
         /\ \A p \in Ends(c) : /\ p \in Procs /\ Partner(p, c) \in Ends(c) /\ Partner(p, c) # p
                               /\ Partner(Partner(p, c), c) = p
                               /\ \A q \in Ends(c) : q = p \/ q = Partner(p, c)
BY AltAssumption DEF Ends, Partner

(* The values of `temp' that are no guard. *)
LEMMA GuardFacts ==
  /\ Skip # None /\ Skip # Junk /\ None # Junk
  /\ \A c \in Chans : c # Skip /\ c # None /\ c # Junk /\ c \notin Timers
  /\ \A g \in Timers : g # Skip /\ g # None /\ g # Junk /\ g \notin Chans
BY AltAssumption

(* Sequences. *)
LEMMA SeqFacts ==
  ASSUME NEW S, NEW q \in Seq(S), q # << >>
  PROVE  /\ Len(q) \in Nat /\ Len(q) >= 1 /\ Head(q) = q[1] /\ Head(q) \in S
         /\ Tail(q) \in Seq(S) /\ Len(Tail(q)) = Len(q) - 1
         /\ \A i \in 1..(Len(q) - 1) : Tail(q)[i] = q[i + 1]
         /\ Elems(q) = {Head(q)} \cup Elems(Tail(q))
<1>1. /\ Len(q) \in Nat /\ Len(q) >= 1 /\ Head(q) = q[1] /\ Head(q) \in S
      /\ Tail(q) \in Seq(S) /\ Len(Tail(q)) = Len(q) - 1
      /\ \A i \in 1..(Len(q) - 1) : Tail(q)[i] = q[i + 1]
  OBVIOUS
<1>2. DOMAIN q = 1..Len(q) /\ DOMAIN Tail(q) = 1..(Len(q) - 1)
  BY <1>1
<1>3. ASSUME NEW x \in Elems(q) PROVE x \in {Head(q)} \cup Elems(Tail(q))
  <2>1. PICK i \in 1..Len(q) : x = q[i]
    BY <1>2 DEF Elems
  <2>2. i = 1 \/ (i - 1 \in 1..(Len(q) - 1) /\ q[i] = Tail(q)[i - 1])
    BY <1>1
  <2> QED BY <1>1, <1>2, <2>1, <2>2 DEF Elems
<1>4. ASSUME NEW x \in {Head(q)} \cup Elems(Tail(q)) PROVE x \in Elems(q)
  <2>1. CASE x = Head(q)
    BY <1>1, <1>2, <2>1 DEF Elems
  <2>2. CASE x \in Elems(Tail(q))
    <3>1. PICK i \in 1..(Len(q) - 1) : x = Tail(q)[i]
      BY <1>2, <2>2 DEF Elems
    <3>2. i + 1 \in 1..Len(q) /\ x = q[i + 1]
      BY <1>1, <3>1
    <3> QED BY <1>2, <3>2 DEF Elems
  <2> QED BY <1>4, <2>1, <2>2
<1> QED BY <1>1, <1>3, <1>4

(* The position of a guard is its first one. *)
LEMMA PositionIs ==
  ASSUME Types, NEW p \in Procs, NEW g \in Elems(guards[p])
  PROVE  /\ Position(p, g) \in 1..Len(guards[p]) /\ guards[p][Position(p, g)] = g
         /\ \A i \in 1..Len(guards[p]) : guards[p][i] = g => Position(p, g) <= i
<1>1. guards[p] \in Seq(Chans \cup Timers \cup {Skip})
  BY DEF Types
<1>2. DOMAIN guards[p] = 1..Len(guards[p]) /\ Len(guards[p]) \in Nat
  BY <1>1
<1> DEFINE T == {i \in Nat : i \in 1..Len(guards[p]) /\ guards[p][i] = g}
<1>3. T # {} /\ T \subseteq Nat
  BY <1>2 DEF Elems
<1>4. PICK k \in T : \A i \in T : ~(<<i, k>> \in {ss \in Nat \X Nat : ss[1] < ss[2]})
  <2>1. IsWellFoundedOn({ss \in Nat \X Nat : ss[1] < ss[2]}, Nat)
    BY NatLessThanWellFounded DEF OpToRel
  <2> QED BY <1>3, <2>1, WFMin
<1>5. ASSUME NEW i \in T PROVE k <= i
  <2>1. i \in Nat /\ k \in Nat
    BY <1>3
  <2>2. <<i, k>> \notin {ss \in Nat \X Nat : ss[1] < ss[2]}
    BY <1>4
  <2>3. ~(i < k)
    <3> HIDE DEF T
    <3> QED BY <2>1, <2>2
  <2> QED BY <2>1, <2>3
<1>6. \A j \in 1..(k - 1) : guards[p][j] # g
  BY <1>2, <1>3, <1>5
<1>7. k \in DOMAIN guards[p] /\ guards[p][k] = g
  BY <1>2
<1>8. /\ Position(p, g) \in DOMAIN guards[p] /\ guards[p][Position(p, g)] = g
      /\ \A j \in 1..(Position(p, g) - 1) : guards[p][j] # g
  BY <1>6, <1>7 DEF Position
<1>9. ASSUME NEW i \in 1..Len(guards[p]), guards[p][i] = g PROVE Position(p, g) <= i
  BY <1>2, <1>8, <1>9
<1> QED BY <1>2, <1>8, <1>9

(* A set that gains or loses an element. *)
LEMMA CardStep ==
  ASSUME NEW S, IsFiniteSet(S), NEW x
  PROVE  /\ Cardinality(S) \in Nat
         /\ x \notin S => Cardinality(S \cup {x}) = Cardinality(S) + 1
         /\ x \in S => Cardinality(S \ {x}) = Cardinality(S) - 1
BY FS_CardinalityType, FS_AddElement, FS_RemoveElement

-----------------------------------------------------------------------------
(***************************************************************************)
(* What a step leaves alone.                                               *)
(***************************************************************************)
(* A step of scheduler s that is about the processes of P only. *)
Touch(s, P) ==
  /\ \A t \in Scheds : t # s =>
       pc'[t] = pc[t] /\ cur'[t] = cur[t] /\ word'[t] = word[t] /\ tgt'[t] = tgt[t]
  /\ \A r \in Procs : r \notin P =>
       /\ queued'[r] = queued[r] /\ state'[r] = state[r] /\ io'[r] = io[r]
       /\ temp'[r] = temp[r] /\ iptr'[r] = iptr[r] /\ guards'[r] = guards[r]
       /\ style'[r] = style[r] /\ todo'[r] = todo[r] /\ ch'[r] = ch[r] /\ ready0'[r] = ready0[r]
       /\ ~On(s, r) /\ ~On(s, r)'

(* What timers have to do with processes outside of P stays the same. *)
Same(tm, tn, P) ==
  \A r \in Procs : r \notin P => tn.refs[r] = tm.refs[r] /\ (r \in tn.tin <=> r \in tm.tin)

(* Other processes stay where they are. *)
LEMMA TimedPlaceFrame ==
  ASSUME NEW tm, NEW tn, NEW s \in Scheds, NEW P, Touch(s, P), Same(tm, tn, P)
  PROVE  /\ \A r \in Procs : r \notin P =>
              /\ Off(r)' <=> Off(r)
              /\ \A t \in Scheds : On(t, r)' <=> On(t, r)
              /\ \A c : Waiting(tn, r, c)' <=> Waiting(tm, r, c)
              /\ \A c : Asked(r, c)' <=> Asked(r, c)
         /\ \A r \in Procs : r \notin P => \A L : Runs(r, L)' <=> Runs(r, L)
         /\ \A r \in Procs : r \notin P => (Transferred(r)' <=> Transferred(r))
<1>1. ASSUME NEW r \in Procs, r \notin P
      PROVE  /\ Off(r)' <=> Off(r)
             /\ \A t \in Scheds : On(t, r)' <=> On(t, r)
  <2>1. \A t \in Scheds : On(t, r)' <=> On(t, r)
    BY <1>1 DEF Touch, On
  <2> QED BY <1>1, <2>1 DEF Off, Touch
<1>2. ASSUME NEW r \in Procs, r \notin P, NEW L PROVE Runs(r, L)' <=> Runs(r, L)
  <2>1. cur[s] # r /\ cur'[s] # r
    BY <1>2 DEF Touch, On
  <2> QED BY <2>1 DEF Runs, Touch
<1>3. ASSUME NEW r \in Procs, r \notin P
      PROVE  /\ \A c : Waiting(tn, r, c)' <=> Waiting(tm, r, c)
             /\ \A c : Asked(r, c)' <=> Asked(r, c)
             /\ Transferred(r)' <=> Transferred(r)
  <2>1. state'[r] = state[r] /\ iptr'[r] = iptr[r] /\ ch'[r] = ch[r] /\ io'[r] = io[r]
    BY <1>3 DEF Touch
  <2>2. \A c : Waiting(tn, r, c)' <=> Waiting(tm, r, c)
    BY <1>1, <1>3, <2>1 DEF Waiting, Same
  <2>3. \A c : Asked(r, c)' <=> Asked(r, c)
    BY <2>1 DEF Asked, Dir
  <2>4. Transferred(r)' <=> Transferred(r)
    BY <1>2, <1>3, <2>1 DEF Transferred
  <2> QED BY <2>2, <2>3, <2>4
<1> QED BY <1>1, <1>2, <1>3

(* The same for a step that has nothing to do with timers. *)
LEMMA PlaceFrame ==
  ASSUME NEW s \in Scheds, NEW P, Touch(s, P)
  PROVE  /\ \A r \in Procs : r \notin P =>
              /\ Off(r)' <=> Off(r)
              /\ \A t \in Scheds : On(t, r)' <=> On(t, r)
              /\ \A tm, c : Waiting(tm, r, c)' <=> Waiting(tm, r, c)
              /\ \A c : Asked(r, c)' <=> Asked(r, c)
         /\ \A r \in Procs : r \notin P => \A L : Runs(r, L)' <=> Runs(r, L)
         /\ \A r \in Procs : r \notin P => (Transferred(r)' <=> Transferred(r))
<1>1. \A tm : Same(tm, tm, P)
  BY DEF Same
<1> QED BY <1>1, TimedPlaceFrame

(* Schedulers other than s. *)
LEMMA SchedFrame ==
  ASSUME NEW s \in Scheds, NEW P, Touch(s, P), NEW t \in Scheds, t # s, cur[t] \notin P, Types, RunAt(t)
  PROVE  RunAt(t)'
<1>1. pc'[t] = pc[t] /\ cur'[t] = cur[t] /\ tgt'[t] = tgt[t]
  BY DEF Touch
<1>2. CASE cur[t] = NotProcess
  BY <1>1, <1>2 DEF RunAt, IdleLabels, IoLabels, XableLabels, XendLabels, EnbcLabels, EnbLabels,
                    AltwtLabels, DiscLabels, DistLabels
<1>3. CASE cur[t] # NotProcess
  <2>1. cur[t] \in Procs /\ cur[t] \notin P
    BY <1>3 DEF Touch, Types
  <2>2. /\ state'[cur[t]] = state[cur[t]] /\ iptr'[cur[t]] = iptr[cur[t]]
        /\ ch'[cur[t]] = ch[cur[t]] /\ todo'[cur[t]] = todo[cur[t]]
    BY <2>1 DEF Touch
  <2>3. \A c : Asked(cur[t], c)' <=> Asked(cur[t], c)
    BY <1>1, <2>1 DEF Touch, Asked, Dir
  <2> QED BY <1>1, <2>2, <2>3 DEF RunAt
<1> QED BY <1>2, <1>3

(* The partner another scheduler has found is still there. *)
LEMMA TimedHoldFrame ==
  ASSUME NEW tm, NEW tn, NEW s \in Scheds, NEW P, Touch(s, P), Same(tm, tn, P), NEW t \in Scheds, t # s, cur[t] \notin P, Types, RunAt(t), HoldAt(tm, t),
         pc[t] \in HoldLabels =>
           /\ ChannelOf(t) \in Chans /\ cur[t] \in Ends(ChannelOf(t))
           /\ Partner(cur[t], ChannelOf(t)) \notin P
           /\ chan'[ChannelOf(t)] = chan[ChannelOf(t)]
  PROVE  HoldAt(tn, t)'
<1> SUFFICES ASSUME pc[t] \in HoldLabels PROVE HoldAt(tn, t)'
  BY DEF Touch, HoldAt
<1>1. pc'[t] = pc[t] /\ cur'[t] = cur[t] /\ word'[t] = word[t]
  BY DEF Touch
<1>2. cur[t] \in Procs /\ cur[t] \notin P
  BY EndFacts DEF Touch
<1>3. ChannelOf(t)' = ChannelOf(t)
  BY <1>1, <1>2 DEF ChannelOf, Touch
<1>4. PICK c \in Chans : c = ChannelOf(t)
  OBVIOUS
<1>5. PICK q \in Procs : q = Partner(cur[t], c)
  BY <1>4, EndFacts
<1>6. HeldBy(tm, t, c, q) /\ q \notin P /\ chan'[c] = chan[c]
  BY <1>4, <1>5 DEF HoldAt
<1>7. /\ Waiting(tn, q, c)' <=> Waiting(tm, q, c)
      /\ Asked(q, c)' <=> Asked(q, c)
      /\ io'[q] = io[q]
  BY <1>6, TimedPlaceFrame DEF Touch
<1>8. HeldBy(tn, t, c, q)'
  BY <1>1, <1>6, <1>7 DEF HeldBy, Wptr, AltPtr, Empty
<1> QED BY <1>1, <1>3, <1>4, <1>5, <1>8 DEF HoldAt, Partner

(* The first element of a suffix. *)
LEMMA SuffixFacts ==
  ASSUME NEW S, NEW q \in Seq(S), NEW gs \in Seq(S), q # << >>, Len(q) <= Len(gs),
         \A i \in DOMAIN q : q[i] = gs[Len(gs) - Len(q) + i]
  PROVE  /\ Len(gs) - Len(q) + 1 \in 1..Len(gs)
         /\ Head(q) = gs[Len(gs) - Len(q) + 1]
         /\ Head(q) \in Elems(gs)
<1>1. PICK n \in Nat, m \in Nat : n = Len(q) /\ m = Len(gs)
  OBVIOUS
<1>2. n >= 1 /\ Head(q) = q[1] /\ DOMAIN q = 1..n /\ DOMAIN gs = 1..m
  BY <1>1, SeqFacts
<1>3. m - n + 1 \in 1..m /\ 1 \in DOMAIN q
  BY <1>1, <1>2
<1>4. q[1] = gs[m - n + 1]
  BY <1>1, <1>3
<1>5. gs[m - n + 1] \in Elems(gs)
  BY <1>2, <1>3 DEF Elems
<1> QED BY <1>1, <1>2, <1>3, <1>4, <1>5

(* The guard that is being enabled. *)
LEMMA EnableFacts ==
  ASSUME Types, NEW p \in Procs, ListAt(p), iptr[p] = "enable"
  PROVE  /\ Len(todo[p]) \in Nat /\ Len(guards[p]) \in Nat
         /\ Len(guards[p]) - Len(todo[p]) + 1 \in 1..Len(guards[p])
         /\ Head(todo[p]) = guards[p][Len(guards[p]) - Len(todo[p]) + 1]
         /\ Head(todo[p]) \in Elems(guards[p])
         /\ Head(todo[p]) \in Chans \cup Timers \cup {Skip}
<1>1. todo[p] \in Seq(Chans \cup Timers \cup {Skip}) /\ guards[p] \in Seq(Chans \cup Timers \cup {Skip})
  BY DEF Types
<1>2. /\ todo[p] # << >> /\ Len(todo[p]) <= Len(guards[p])
      /\ \A i \in DOMAIN todo[p] : todo[p][i] = guards[p][Len(guards[p]) - Len(todo[p]) + i]
  BY DEF ListAt
<1>3. Head(todo[p]) \in Chans \cup Timers \cup {Skip} /\ Len(todo[p]) \in Nat /\ Len(guards[p]) \in Nat
  BY <1>1, <1>2
<1> QED BY <1>1, <1>2, <1>3, SuffixFacts

(* The guard that is being disabled. *)
LEMMA DisableFacts ==
  ASSUME Types, NEW p \in Procs, ListAt(p), iptr[p] = "disable"
  PROVE  /\ Len(todo[p]) \in Nat /\ Len(todo[p]) >= 1 /\ Len(guards[p]) \in Nat
         /\ Len(todo[p]) <= Len(guards[p])
         /\ todo[p] \in Seq(Chans \cup Timers \cup {Skip}) /\ todo[p] # << >>
         /\ Head(todo[p]) \in Chans \cup Timers \cup {Skip}
         /\ Elems(todo[p]) = {Head(todo[p])} \cup Elems(Tail(todo[p]))
         /\ Elems(todo[p]) \subseteq Elems(guards[p])
<1>1. todo[p] \in Seq(Chans \cup Timers \cup {Skip}) /\ guards[p] \in Seq(Chans \cup Timers \cup {Skip})
  BY DEF Types
<1>2. /\ todo[p] # << >> /\ Len(todo[p]) <= Len(guards[p])
      /\ Elems(todo[p]) \subseteq Elems(guards[p])
  BY DEF ListAt
<1>3. Len(guards[p]) \in Nat
  BY <1>1
<1> QED BY <1>1, <1>2, <1>3, SeqFacts

(* What a step may do to the channels and triggers of a process it is not  *)
(* about.                                                                  *)
Undisturbed(r) ==
  /\ \A c \in Chans : chan'[c] # chan[c] =>
       /\ chan'[c] # AltPtr(r)
       /\ Reader[c] = r => iptr[r] = "main" \/ (chan[c] = Empty /\ chan'[c] = Wptr(Writer[c]))
  /\ \A t \in Scheds : (pc[t] \in {"trigger", "walk_trigger"} /\ tgt[t] = r)'
                         <=> (pc[t] \in {"trigger", "walk_trigger"} /\ tgt[t] = r)

(* The ALT of a process the step is not about goes on. *)
LEMMA TimedFlowFrame ==
  ASSUME NEW tm, NEW tn, NEW s \in Scheds, NEW P, Touch(s, P), Same(tm, tn, P), NEW r \in Procs, r \notin P, Undisturbed(r),
         Types, \A c \in Chans : ChanAt(tm, c), \A t \in Scheds : RunAt(t), FlowAt(tm, r)
  PROVE  /\ FlowAt(tn, r)'
         /\ Target(r)' <=> Target(r)
         /\ \A c \in Chans : AltIn(r, c)' <=> AltIn(r, c)
<1>1. /\ state'[r] = state[r] /\ temp'[r] = temp[r] /\ iptr'[r] = iptr[r]
      /\ guards'[r] = guards[r] /\ style'[r] = style[r] /\ todo'[r] = todo[r] /\ ch'[r] = ch[r]
      /\ ready0'[r] = ready0[r]
  BY DEF Touch
<1>2. /\ Off(r)' <=> Off(r)
      /\ \A L : Runs(r, L)' <=> Runs(r, L)
      /\ InAlt(r)' <=> InAlt(r)
  BY <1>1, PlaceFrame DEF InAlt
<1>3. Passed(r)' = Passed(r) /\ Enabled(r)' = Enabled(r)
      /\ \A g : Position(r, g)' = Position(r, g)
  BY <1>1, <1>2 DEF Passed, Enabled, Position
<1>4. ListAt(r)'
  <2>1. ListAt(r)
    BY DEF FlowAt
  <2> QED BY <1>1, <1>2, <1>3, <2>1 DEF ListAt, Chosen
<1>5. FlagsAt(r)'
  <2>1. FlagsAt(r)
    BY DEF FlowAt
  <2>2. (\E t \in Scheds : cur[t] = r) => \E t \in Scheds : cur'[t] = r
    BY DEF Touch, On
  <2> QED BY <1>1, <1>2, <2>1, <2>2 DEF FlagsAt
<1>6. TriggeredOn(r)' <=> TriggeredOn(r)
  BY DEF Undisturbed, TriggeredOn
<1>7. iptr[r] # "main" =>
        \A c \in Chans : /\ chan[c] = Wptr(Writer[c]) /\ Reader[c] = r => chan'[c] = Wptr(Writer[c])
                         /\ chan[c] # Empty /\ Reader[c] = r => chan'[c] # Empty
                         /\ chan'[c] = AltPtr(r) <=> chan[c] = AltPtr(r)
  <2> SUFFICES ASSUME iptr[r] # "main", NEW c \in Chans
               PROVE /\ chan[c] = Wptr(Writer[c]) /\ Reader[c] = r => chan'[c] = Wptr(Writer[c])
                     /\ chan[c] # Empty /\ Reader[c] = r => chan'[c] # Empty
                     /\ chan'[c] = AltPtr(r) <=> chan[c] = AltPtr(r)
    OBVIOUS
  <2>1. Writer[c] \in Procs /\ Reader[c] \in Procs
    BY EndFacts
  <2>2. chan[c] = AltPtr(r) => Reader[c] = r
    <3>1. \A q \in Ends(c) : q \in Procs
      BY EndFacts
    <3> QED BY <2>1, <3>1, WordFacts DEF ChanAt
  <2> QED BY <2>1, <2>2, WordFacts DEF Undisturbed
<1>8. \A c \in Chans : c \in Elems(guards[r]) /\ (InAlt(r) \/ iptr[r] = "selected") => Reader[c] = r
  <2>1. ListAt(r)
    BY DEF FlowAt
  <2> QED BY <2>1, AltAssumption DEF ListAt, Elems
<1>9. \A g : iptr[r] # "main" /\ (g \in Chans => Reader[g] = r) => (Ready(g) => Ready(g)')
  BY <1>7 DEF Ready
<1>10. XinAt(r)'
  <2>1. XinAt(r)
    BY DEF FlowAt
  <2> QED BY <1>1, <1>2, <1>6, <1>9, <2>1 DEF XinAt
<1>11. /\ iptr[r] \in {"enable", "altwt"} => Enabled(r) \subseteq Elems(guards[r])
       /\ iptr[r] = "enable" => Head(todo[r]) \in Elems(guards[r])
       /\ iptr[r] = "disable" => Elems(todo[r]) \subseteq Elems(guards[r])
  <2>1. ListAt(r) /\ todo[r] \in Seq(Chans \cup Timers \cup {Skip}) /\ guards[r] \in Seq(Chans \cup Timers \cup {Skip})
    BY DEF FlowAt, Types
  <2>2. Passed(r) \subseteq Elems(guards[r])
    <3>1. PICK n \in Nat, m \in Nat : n = Len(todo[r]) /\ m = Len(guards[r]) /\ DOMAIN guards[r] = 1..m
      BY <2>1
    <3>2. \A i \in 1..(m - n) : i \in DOMAIN guards[r]
      BY <3>1
    <3>3. \A i \in 1..(Len(guards[r]) - Len(todo[r])) : guards[r][i] \in Elems(guards[r])
      BY <3>1, <3>2 DEF Elems
    <3> QED BY <3>3 DEF Passed
  <2>3. iptr[r] = "enable" => Head(todo[r]) \in Elems(guards[r])
    BY <2>1, EnableFacts
  <2>4. iptr[r] = "altwt" => ~Runs(r, {"enbc_inc"})
    BY DEF Runs, RunAt, EnbcLabels
  <2> QED BY <2>1, <2>2, <2>3, <2>4 DEF Enabled, ListAt
<1>12. EnabledAt(r)'
  <2>1. EnabledAt(r)
    BY DEF FlowAt
  <2> SUFFICES ASSUME iptr[r] \in {"enable", "altwt"} PROVE EnabledAt(r)'
    BY <1>1 DEF EnabledAt
  <2>2. \A g \in Enabled(r) : g \in Chans => chan'[g] # Empty
    BY <1>7, <1>8, <1>11, <2>1 DEF EnabledAt, InAlt
  <2>3. ~state[r].notReady \/ TriggeredOn(r) => \E g \in Enabled(r) : Hopeful(r, g)'
    <3>1. style'[r] = style[r]
      BY <1>1
    <3> QED BY <1>8, <1>9, <1>11, <2>1, <3>1 DEF EnabledAt, Hopeful, InAlt
  <2>4. Runs(r, EnbLabels) => Ready(Head(todo[r]))'
    <3>1. Runs(r, EnbLabels) => iptr[r] = "enable"
      BY DEF Runs, RunAt, EnbLabels
    <3> SUFFICES ASSUME Runs(r, EnbLabels) PROVE Ready(Head(todo[r]))'
      OBVIOUS
    <3>2. PICK g : g = Head(todo[r])
      OBVIOUS
    <3>3. Ready(g) /\ g \in Elems(guards[r])
      BY <1>11, <2>1, <3>1, <3>2 DEF EnabledAt
    <3>4. Ready(g)'
      BY <1>8, <1>9, <3>1, <3>3 DEF InAlt
    <3> QED BY <1>1, <3>2, <3>4 DEF Ready
  <2> QED BY <1>1, <1>2, <1>3, <1>6, <2>1, <2>2, <2>3, <2>4 DEF EnabledAt
<1>13. SelectedAt(r)'
  <2>1. SelectedAt(r)
    BY DEF FlowAt
  <2>2. iptr[r] = "disable" /\ (\E g \in Elems(todo[r]) : Ready(g)) => \E g \in Elems(todo[r]) : Ready(g)'
    BY <1>8, <1>9, <1>11 DEF InAlt
  <2>3. iptr[r] \in {"disable", "altend", "selected"} /\ temp[r] \in Elems(guards[r]) /\ Ready(temp[r])
          => Ready(temp[r])'
    <3>1. PICK g : g = temp[r]
      OBVIOUS
    <3>2. iptr[r] \in {"disable", "altend", "selected"} /\ g \in Elems(guards[r]) /\ Ready(g) => Ready(g)'
      BY <1>8, <1>9 DEF InAlt
    <3> QED BY <1>1, <3>1, <3>2 DEF Ready
  <2>4. ASSUME iptr[r] = "disable"
        PROVE  /\ Runs(r, DiscLabels) => Head(todo[r]) \in Chans
               /\ \A g \in Elems(todo[r]) \cup Elems(Tail(todo[r])) : Ready(g) => Ready(g)'
               /\ Head(todo[r]) \in Chans => Reader[Head(todo[r])] = r
    <3>1. Runs(r, DiscLabels) => Head(todo[r]) \in Chans
      BY DEF Runs, RunAt
    <3>2. /\ Elems(todo[r]) = {Head(todo[r])} \cup Elems(Tail(todo[r]))
          /\ Elems(todo[r]) \subseteq Elems(guards[r])
      BY <2>4, DisableFacts DEF FlowAt
    <3>3. \A g \in Elems(guards[r]) : Ready(g) => Ready(g)'
      BY <1>8, <1>9, <2>4 DEF InAlt
    <3> QED BY <1>8, <2>4, <3>1, <3>2, <3>3 DEF InAlt
  <2>5. iptr[r] = "disable" /\ Runs(r, {"disc_cas"}) => chan'[Head(todo[r])] # Empty
    BY <1>7, <2>1, <2>4 DEF SelectedAt, Runs, DiscLabels, DistLabels
  <2>6. iptr[r] = "disable" /\ Runs(r, {"disc_dec"}) =>
          /\ Head(todo[r]) \notin ready0[r] /\ chan'[Head(todo[r])] # AltPtr(r)
          /\ ~Timed(guards[r]) => Chosen(r) \/ \E g \in Elems(Tail(todo[r])) : Ready(g)'
    BY <1>7, <2>1, <2>4 DEF SelectedAt, Runs, DiscLabels, DistLabels
  <2>7. /\ Runs(r, {"disc_cas"})' <=> Runs(r, {"disc_cas"})
        /\ Runs(r, {"disc_dec"})' <=> Runs(r, {"disc_dec"})
        /\ Runs(r, AltwtLabels)' <=> Runs(r, AltwtLabels)
    BY <1>2
  <2> QED BY <1>1, <1>6, <2>1, <2>2, <2>3, <2>5, <2>6, <2>7 DEF SelectedAt, Chosen, AltwtLabels, AltPtr, Empty
<1>14. FirstAt(r)'
  <2>1. FirstAt(r)
    BY DEF FlowAt
  <2>2. InAlt(r) => \A g \in ready0[r] : Ready(g)'
    BY <1>8, <1>9, <2>1 DEF FirstAt, InAlt
  <2> QED BY <1>1, <1>2, <1>3, <2>1, <2>2 DEF FirstAt, Chosen
<1>15. iptr[r] # "main" => Refs(r)' = Refs(r)
  <2> SUFFICES ASSUME iptr[r] # "main" PROVE Refs(r)' = Refs(r)
    OBVIOUS
  <2>1. InChans(r)' = InChans(r)
    BY <1>7 DEF InChans
  <2>2. Triggers(r)' = Triggers(r)
    BY DEF Undisturbed, Triggers
  <2> QED BY <2>1, <2>2 DEF Refs
<1>16. CountAt(tn, r)'
  <2>1. CountAt(tm, r)
    BY DEF FlowAt
  <2>2. Runs(r, {"altend_dec"}) => iptr[r] = "selected"
    BY DEF Runs, RunAt
  <2>3. \/ InAlt(r) \/ Runs(r, {"altend_dec"}) \/ iptr[r] \in {"selected", "xin"} => Refs(r)' = Refs(r)
    BY <1>15, <2>2 DEF InAlt
  <2>4. /\ Runs(r, {"disc_dec"})' <=> Runs(r, {"disc_dec"})
        /\ Runs(r, {"enbc_inc", "enbc_restore"})' <=> Runs(r, {"enbc_inc", "enbc_restore"})
        /\ Runs(r, {"altend_dec"})' <=> Runs(r, {"altend_dec"})
    BY <1>2
  <2>5. tn.refs[r] = tm.refs[r]
    BY DEF Same
  <2> QED BY <1>1, <1>2, <2>1, <2>3, <2>4, <2>5 DEF CountAt
<1>17. Target(r)' <=> Target(r)
  BY <1>1, <1>2 DEF Target
<1>18. \A c \in Chans : AltIn(r, c)' <=> AltIn(r, c)
  BY <1>1, <1>2, <1>3 DEF AltIn
<1> QED BY <1>4, <1>5, <1>10, <1>12, <1>13, <1>14, <1>16, <1>17, <1>18 DEF FlowAt

-----------------------------------------------------------------------------
(***************************************************************************)
(* Which invariants a step has to look at.                                 *)
(***************************************************************************)
(* A scheduler that is not in kernel_scheduler or on its way there runs a  *)
(* process.                                                                *)
LEMMA CurIs ==
  ASSUME NEW tm, IInv(tm), NEW s \in Scheds
  PROVE  /\ cur[s] \in Procs \cup {NotProcess}
         /\ pc[s] \notin IdleLabels <=> cur[s] \in Procs
<1>1. Types /\ RunAt(s)
  BY DEF IInv
<1> QED BY <1>1, NotProcessAssumption DEF Types, RunAt

(* The guards of an ALT in progress are read by its process. *)
LEMMA GuardsRead ==
  ASSUME Types, NEW p \in Procs, ListAt(p), InAlt(p) \/ iptr[p] = "selected"
  PROVE  \A c \in Chans : c \in Elems(guards[p]) => Reader[c] = p
BY AltAssumption DEF ListAt, Elems

(* The channel whose partner a scheduler has found. *)
LEMMA HoldChannel ==
  ASSUME NEW tm, IInv(tm), NEW s \in Scheds, pc[s] \in HoldLabels
  PROVE  /\ cur[s] \in Procs /\ ChannelOf(s) \in Chans /\ cur[s] \in Ends(ChannelOf(s))
         /\ HeldBy(tm, s, ChannelOf(s), Partner(cur[s], ChannelOf(s)))
<1>1. Types /\ RunAt(s) /\ HoldAt(tm, s)
  BY DEF IInv
<1>2. cur[s] \in Procs
  BY CurIs DEF IdleLabels, HoldLabels
<1>3. PICK p \in Procs : p = cur[s]
  BY <1>2
<1>4. ListAt(p) /\ XinAt(p)
  BY DEF IInv, FlowAt
<1>5. CASE pc[s] \in IoLabels
  BY <1>1, <1>2, <1>5 DEF RunAt, ChannelOf, IoLabels, HoldAt
<1>6. CASE pc[s] \in {"xable_restore", "xin_copy", "xend_enqueue"}
  <2>1. iptr[p] \in {"xin", "xend"}
    BY <1>1, <1>3, <1>6 DEF RunAt, XableLabels, XendLabels
  <2>2. ch[p] \in Chans /\ p \in Ends(ch[p])
    BY <1>4, <2>1, EndFacts DEF XinAt
  <2> QED BY <1>1, <1>3, <1>6, <2>2 DEF ChannelOf, HoldAt
<1>7. CASE pc[s] = "enbc_restore"
  <2>1. iptr[p] = "enable" /\ Head(todo[p]) \in Chans
    BY <1>1, <1>3, <1>7 DEF RunAt, EnbcLabels
  <2>2. Reader[Head(todo[p])] = p
    BY <1>1, <1>4, <2>1, EnableFacts, GuardsRead DEF InAlt
  <2>3. p \in Ends(Head(todo[p]))
    BY <2>1, <2>2, EndFacts
  <2> QED BY <1>1, <1>3, <1>7, <2>1, <2>3 DEF ChannelOf, HoldAt
<1> QED BY <1>5, <1>6, <1>7 DEF HoldLabels, IoLabels

(* A channel word that does not change says the truth as long as the       *)
(* processes the step is about do not wait in it.                          *)
Stays(d, P) ==
  /\ \A x \in Ends(d) : x \in P => chan[d] # Wptr(x)
  /\ Reader[d] \in P =>
       /\ chan[d] = AltPtr(Reader[d]) => AltIn(Reader[d], d)'
       /\ Extended(d)' <=> Extended(d)

(* A channel word that stays as it is goes on saying the truth. *)
LEMMA TimedChanFrame ==
  ASSUME NEW tm, NEW tn, IInv(tm), NEW s \in Scheds, NEW P, Touch(s, P), Same(tm, tn, P), NEW d \in Chans, chan'[d] = chan[d], Stays(d, P),
         Reader[d] \notin P => (AltIn(Reader[d], d)' <=> AltIn(Reader[d], d))
  PROVE  ChanAt(tn, d)'
<1>1. ChanAt(tm, d)
  BY DEF IInv
<1>2. Reader[d] \in Procs
  BY EndFacts
<1>3. (chan[d] = AltPtr(Reader[d])) => AltIn(Reader[d], d)'
  BY <1>1 DEF ChanAt, Stays
<1>4. Extended(d)' <=> Extended(d)
  <2>1. CASE Reader[d] \in P
    BY <2>1 DEF Stays
  <2>2. CASE Reader[d] \notin P
    BY <1>2, <2>2, TimedPlaceFrame DEF Touch, Extended
  <2> QED BY <2>1, <2>2
<1>5. ASSUME NEW x \in Ends(d), chan[d] = Wptr(x)
      PROVE  /\ Waiting(tn, x, d)' \/ (ch'[x] = d /\ Runs(x, {"io_clear"})')
             /\ IF x = Writer[d] /\ Extended(d)' THEN io'[x] = R!Idle ELSE Asked(x, d)'
  <2>1. x \in Procs /\ x \notin P
    BY <1>5, EndFacts DEF Stays
  <2>2. /\ Waiting(tn, x, d)' <=> Waiting(tm, x, d)
        /\ Asked(x, d)' <=> Asked(x, d)
        /\ Runs(x, {"io_clear"})' <=> Runs(x, {"io_clear"})
        /\ ch'[x] = ch[x] /\ io'[x] = io[x]
    BY <2>1, TimedPlaceFrame DEF Touch
  <2> QED BY <1>1, <1>4, <1>5, <2>2 DEF ChanAt
<1>6. (chan[d] = Empty \/ chan[d] = AltPtr(Reader[d]) \/ \E p \in Ends(d) : chan[d] = Wptr(p))'
  BY <1>1 DEF ChanAt, Empty, AltPtr, Wptr, Ends
<1> QED BY <1>3, <1>5, <1>6 DEF ChanAt, Ends, Wptr, AltPtr

(* Another scheduler's partner is none of P. *)
Unheld(s, P) ==
  \A t \in Scheds : t # s /\ pc[t] \in HoldLabels =>
    /\ Partner(cur[t], ChannelOf(t)) \notin P
    /\ chan'[ChannelOf(t)] = chan[ChannelOf(t)]

(* What has to be known of a process that is not in P. *)
Steady(tm, r) ==
  /\ FlowAt(tm, r)' /\ (Target(r)' <=> Target(r))
  /\ \A c \in Chans : AltIn(r, c)' <=> AltIn(r, c)

(* A step of scheduler s about the processes in P keeps the invariant if   *)
(* it does so for s, for P, and for the channels and triggers it changes.  *)
LEMMA TimedStepFrame ==
  ASSUME NEW tm, NEW tn, IInv(tm), NEW s \in Scheds, NEW P, Touch(s, P), Same(tm, tn, P), Types', Unheld(s, P),
         RunAt(s)', HoldAt(tn, s)', TriggerAt(s)',
         \A t \in Scheds : t # s => cur[t] \notin P \/ (RunAt(t)' /\ HoldAt(tn, t)'),
         \A p \in Procs : p \in P => OnceAt(p)' /\ IoAt(p)' /\ TinAt(tn, p)' /\ FlowAt(tn, p)',
         \A p \in Procs : p \in P /\ (\E t \in Scheds : t # s /\ pc[t] \in {"trigger", "walk_trigger"} /\ tgt[t] = p) => Target(p)',
         \A r \in Procs : r \notin P => Undisturbed(r) \/ Steady(tn, r),
         \A d \in Chans : ChanAt(tn, d)' \/ (chan'[d] = chan[d] /\ Stays(d, P))
  PROVE  IInv(tn)'
<1>1. Types /\ (\A t \in Scheds : RunAt(t) /\ HoldAt(tm, t) /\ TriggerAt(t)) /\ (\A c \in Chans : ChanAt(tm, c))
      /\ (\A r \in Procs : OnceAt(r) /\ IoAt(r) /\ TinAt(tm, r) /\ FlowAt(tm, r))
  BY DEF IInv
<1>2. ASSUME NEW r \in Procs, r \notin P
      PROVE  /\ FlowAt(tn, r)' /\ (Target(r)' <=> Target(r))
             /\ \A c \in Chans : AltIn(r, c)' <=> AltIn(r, c)
  <2>1. CASE Undisturbed(r)
    BY <1>1, <1>2, <2>1, TimedFlowFrame
  <2>2. CASE Steady(tn, r)
    BY <2>2 DEF Steady
  <2> QED BY <1>2, <2>1, <2>2
<1>3. ASSUME NEW r \in Procs, r \notin P PROVE OnceAt(r)' /\ IoAt(r)' /\ TinAt(tn, r)'
  <2>1. OnceAt(r)'
    <3>1. \A t \in Scheds : On(t, r)' <=> On(t, r)
      BY <1>3, PlaceFrame
    <3>2. queued'[r] = queued[r]
      BY <1>3 DEF Touch
    <3> QED BY <1>1, <1>3, <3>1, <3>2 DEF OnceAt
  <2>2. IoAt(r)'
    <3>1. /\ Off(r)' <=> Off(r)
          /\ Runs(r, IoLabels \cup {"xin_copy"})' <=> Runs(r, IoLabels \cup {"xin_copy"})
          /\ io'[r] = io[r] /\ iptr'[r] = iptr[r]
      BY <1>3, PlaceFrame DEF Touch
    <3> QED BY <1>1, <1>3, <3>1 DEF IoAt, IoLabels
  <2>3. TinAt(tn, r)'
    <3>1. /\ Off(r)' <=> Off(r)
          /\ io'[r] = io[r] /\ iptr'[r] = iptr[r]
      BY <1>3, PlaceFrame DEF Touch
    <3> QED BY <1>1, <1>3, <3>1 DEF TinAt, Same
  <2> QED BY <2>1, <2>2, <2>3
<1>4. ASSUME NEW t \in Scheds PROVE RunAt(t)' /\ HoldAt(tn, t)' /\ TriggerAt(t)'
  <2>1. CASE t = s
    BY <2>1
  <2>2. CASE t # s
    <3>1. cur[t] \notin P => RunAt(t)'
      BY <1>1, <2>2, SchedFrame
    <3>2. cur[t] \notin P => HoldAt(tn, t)'
      <4>1. pc[t] \in HoldLabels => ChannelOf(t) \in Chans /\ cur[t] \in Ends(ChannelOf(t))
        BY HoldChannel
      <4> QED BY <1>1, <2>2, <4>1, TimedHoldFrame DEF Unheld
    <3>3. TriggerAt(t)'
      <4>1. pc'[t] = pc[t] /\ tgt'[t] = tgt[t]
        BY <2>2 DEF Touch
      <4> SUFFICES ASSUME pc[t] \in {"trigger", "walk_trigger"} PROVE Target(tgt[t])'
        BY <4>1 DEF TriggerAt, Target, InAlt, Off, Runs, On
      <4>2. PICK r \in Procs : r = tgt[t]
        BY <1>1 DEF RunAt
      <4>3. Target(r)
        BY <1>1, <4>2 DEF TriggerAt
      <4>4. Target(r)'
        BY <1>2, <2>2, <4>2, <4>3
      <4> QED BY <4>1, <4>2, <4>4 DEF Target, InAlt, Off, Runs, On
    <3> QED BY <2>2, <3>1, <3>2, <3>3
  <2> QED BY <2>1, <2>2
<1>5. ASSUME NEW d \in Chans PROVE ChanAt(tn, d)'
  <2>1. CASE chan'[d] = chan[d] /\ Stays(d, P)
    <3>1. Reader[d] \in Procs
      BY EndFacts
    <3>2. Stays(d, P)
      BY <2>1
    <3>3. Reader[d] \notin P => (AltIn(Reader[d], d)' <=> AltIn(Reader[d], d))
      BY <1>2, <3>1
    <3> QED BY <2>1, <3>2, <3>3, TimedChanFrame
  <2>2. CASE ChanAt(tn, d)'
    BY <2>2
  <2> QED BY <2>1, <2>2
<1> QED BY <1>2, <1>3, <1>4, <1>5 DEF IInv

(* The same for a step that has nothing to do with timers. *)
LEMMA StepFrame ==
  ASSUME NEW tm, IInv(tm), NEW s \in Scheds, NEW P, Touch(s, P), Types', Unheld(s, P),
         RunAt(s)', HoldAt(tm, s)', TriggerAt(s)',
         \A t \in Scheds : t # s => cur[t] \notin P \/ (RunAt(t)' /\ HoldAt(tm, t)'),
         \A p \in Procs : p \in P => OnceAt(p)' /\ IoAt(p)' /\ TinAt(tm, p)' /\ FlowAt(tm, p)',
         \A p \in Procs : p \in P /\ (\E t \in Scheds : t # s /\ pc[t] \in {"trigger", "walk_trigger"} /\ tgt[t] = p) => Target(p)',
         \A r \in Procs : r \notin P => Undisturbed(r) \/ Steady(tm, r),
         \A d \in Chans : ChanAt(tm, d)' \/ (chan'[d] = chan[d] /\ Stays(d, P))
  PROVE  IInv(tm)'
<1>1. Same(tm, tm, P)
  BY DEF Same
<1> QED BY <1>1, TimedStepFrame

(* A process that a scheduler runs is nowhere else. *)
LEMMA RunnerFacts ==
  ASSUME NEW tm, IInv(tm), NEW s \in Scheds, NEW p \in Procs, cur[s] = p
  PROVE  /\ ~Off(p) /\ queued[p] = 0 /\ \A t \in Scheds : On(t, p) => t = s
         /\ \A L : Runs(p, L) <=> pc[s] \in L
         /\ \A c : ~Waiting(tm, p, c)
         /\ \A c \in Chans : p \in Ends(c) /\ chan[c] = Wptr(p) => pc[s] = "io_clear" /\ ch[p] = c
         /\ \A t \in Scheds : t # s /\ pc[t] \in HoldLabels => Partner(cur[t], ChannelOf(t)) # p
         /\ p \notin tm.tin /\ tm.refs[p] \in Nat
         /\ tm.refs[p] # 0 => InAlt(p) \/ (iptr[p] = "selected" /\ pc[s] = "altend_dec")
<1>1. OnceAt(p) /\ \A c \in Chans : ChanAt(tm, c)
  BY DEF IInv
<1>2. On(s, p)
  BY DEF On
<1>3. ~Off(p) /\ queued[p] = 0 /\ \A t \in Scheds : On(t, p) => t = s
  BY <1>1, <1>2 DEF OnceAt, Off
<1>4. ASSUME NEW L PROVE Runs(p, L) <=> pc[s] \in L
  BY <1>3 DEF Runs, On
<1>5. \A c : ~Waiting(tm, p, c)
  BY <1>3 DEF Waiting
<1>6. ASSUME NEW c \in Chans, p \in Ends(c), chan[c] = Wptr(p) PROVE pc[s] = "io_clear" /\ ch[p] = c
  BY <1>1, <1>4, <1>5, <1>6 DEF ChanAt
<1>7. ASSUME NEW t \in Scheds, t # s, pc[t] \in HoldLabels, Partner(cur[t], ChannelOf(t)) = p PROVE FALSE
  BY <1>5, <1>7, HoldChannel DEF HeldBy
<1>8. p \notin tm.tin
  BY <1>3 DEF IInv, TinAt
<1>9. tm.refs[p] \in Nat
  BY DEF IInv, FlowAt, CountAt
<1>10. tm.refs[p] # 0 => InAlt(p) \/ (iptr[p] = "selected" /\ pc[s] = "altend_dec")
  BY <1>3, <1>4 DEF IInv, FlowAt, CountAt
<1> QED BY <1>3, <1>4, <1>5, <1>6, <1>7, <1>8, <1>9, <1>10

(* The same after a step that keeps the process on its scheduler, or takes *)
(* it off.                                                                 *)
LEMMA RunnerNext ==
  ASSUME NEW tm, IInv(tm), NEW s \in Scheds, NEW p \in Procs, cur[s] = p, Touch(s, {p}), pc'[s] \notin {"trigger_enqueue", "walk_enqueue"}
  PROVE  /\ cur'[s] = p => ~Off(p)' /\ \A L : Runs(p, L)' <=> pc'[s] \in L
         /\ cur'[s] # p => (Off(p)' <=> queued'[p] = 0) /\ \A L : ~Runs(p, L)'
         /\ cur'[s] # p \/ queued'[p] = 0 => OnceAt(p)'
<1>1. \A t \in Scheds : t # s => ~On(t, p)
  BY RunnerFacts
<1>2. \A t \in Scheds : t # s => ~On(t, p)'
  BY <1>1 DEF Touch, On
<1>3. On(s, p)' <=> cur'[s] = p
  BY DEF On
<1>4. \A t \in Scheds : t # s => cur'[t] # p
  BY <1>2 DEF On
<1>5. CASE cur'[s] = p
  <2>1. ~Off(p)'
    BY <1>3, <1>5 DEF Off
  <2>2. ASSUME NEW L PROVE Runs(p, L)' <=> pc'[s] \in L
    BY <1>4, <1>5 DEF Runs
  <2>3. queued'[p] = 0 => OnceAt(p)'
    BY <1>2 DEF OnceAt
  <2> QED BY <1>5, <2>1, <2>2, <2>3
<1>6. CASE cur'[s] # p
  <2>1. \A t \in Scheds : ~On(t, p)'
    BY <1>2, <1>3, <1>6
  <2>2. Off(p)' <=> queued'[p] = 0
    BY <2>1 DEF Off
  <2>3. ASSUME NEW L PROVE ~Runs(p, L)'
    BY <1>4, <1>6 DEF Runs
  <2>4. OnceAt(p)'
    BY <2>1 DEF OnceAt
  <2> QED BY <1>6, <2>2, <2>3, <2>4
<1> QED BY <1>5, <1>6

(* A step of a kernel call: process p of scheduler s, and the words of its *)
(* channels.                                                               *)
Moved(tm, p) ==
  \A d \in Chans : chan'[d] # chan[d] =>
    /\ p \in Ends(d) /\ ChanAt(tm, d)'
    /\ \A r \in Procs : r # p => chan'[d] # AltPtr(r)
    /\ Reader[d] # p => iptr[Reader[d]] = "main" \/ (chan[d] = Empty /\ chan'[d] = Wptr(Writer[d]))

(* The same for the step of a kernel call that is about its own process    *)
(* only.                                                                   *)
LEMMA TimedOwnStep ==
  ASSUME NEW tm, NEW tn, IInv(tm), NEW s \in Scheds, NEW p \in Procs, cur[s] = p, Touch(s, {p}), Types',
         Same(tm, tn, {p}), TinAt(tn, p)',
         pc'[s] \notin {"trigger", "trigger_enqueue", "walk_trigger", "walk_enqueue"}, cur'[s] = p => queued'[p] = 0,
         Moved(tn, p),
         \A d \in Chans : chan'[d] = chan[d] /\ chan[d] = AltPtr(p) => AltIn(p, d)',
         \A d \in Chans : chan'[d] = chan[d] /\ ch[p] = d => pc[s] # "io_clear" /\ ~Transferred(p),
         ~Transferred(p)',
         RunAt(s)', HoldAt(tn, s)', IoAt(p)', FlowAt(tn, p)', TriggeredOn(p) => Target(p)'
  PROVE  IInv(tn)'
<1>1. pc[s] \notin {"trigger", "walk_trigger"}
  BY CurIs DEF IdleLabels
<1>2. Unheld(s, {p})
  <2> SUFFICES ASSUME NEW t \in Scheds, t # s, pc[t] \in HoldLabels
               PROVE  /\ Partner(cur[t], ChannelOf(t)) # p
                      /\ chan'[ChannelOf(t)] = chan[ChannelOf(t)]
    BY DEF Unheld
  <2>1. PICK d \in Chans : d = ChannelOf(t)
    BY HoldChannel
  <2>2. Partner(cur[t], d) # p /\ cur[t] \in Ends(d) /\ cur[t] # p
    BY <2>1, RunnerFacts, HoldChannel DEF On
  <2>3. p \notin Ends(d)
    BY <2>2, EndFacts
  <2> QED BY <2>1, <2>2, <2>3 DEF Moved
<1>3. TriggerAt(s)'
  BY DEF TriggerAt
<1>4. OnceAt(p)'
  BY RunnerNext
<1>5. \A r \in Procs : r # p => Undisturbed(r)
  BY <1>1 DEF Moved, Undisturbed, Touch
<1>6. ASSUME NEW d \in Chans, chan'[d] = chan[d] PROVE Stays(d, {p})
  <2>1. p \in Ends(d) => chan[d] # Wptr(p)
    BY <1>6, RunnerFacts
  <2>2. Reader[d] = p => /\ chan[d] = AltPtr(Reader[d]) => AltIn(Reader[d], d)'
                         /\ ~Extended(d) /\ ~Extended(d)'
    BY <1>6 DEF Extended
  <2> QED BY <2>1, <2>2 DEF Stays
<1>7. (\E t \in Scheds : t # s /\ pc[t] \in {"trigger", "walk_trigger"} /\ tgt[t] = p) => Target(p)'
  BY DEF TriggeredOn
<1>8. \A t \in Scheds : t # s => cur[t] # p
  BY RunnerFacts DEF On
<1> QED BY <1>2, <1>3, <1>4, <1>5, <1>6, <1>7, <1>8, TimedStepFrame DEF Moved

(* The same for a step that has nothing to do with timers. *)
LEMMA OwnStep ==
  ASSUME NEW tm, IInv(tm), NEW s \in Scheds, NEW p \in Procs, cur[s] = p, Touch(s, {p}), Types',
         pc'[s] \notin {"trigger", "trigger_enqueue", "walk_trigger", "walk_enqueue"}, cur'[s] = p => queued'[p] = 0,
         Moved(tm, p),
         \A d \in Chans : chan'[d] = chan[d] /\ chan[d] = AltPtr(p) => AltIn(p, d)',
         \A d \in Chans : chan'[d] = chan[d] /\ ch[p] = d => pc[s] # "io_clear" /\ ~Transferred(p),
         ~Transferred(p)',
         RunAt(s)', HoldAt(tm, s)', IoAt(p)', FlowAt(tm, p)', TriggeredOn(p) => Target(p)'
  PROVE  IInv(tm)'
<1>1. Same(tm, tm, {p})
  BY DEF Same
<1>2. TinAt(tm, p)'
  BY RunnerFacts DEF TinAt
<1> QED BY <1>1, <1>2, TimedOwnStep

(* The same for a step that leaves the channels alone. *)
LEMMA TimedQuietStep ==
  ASSUME NEW tm, NEW tn, IInv(tm), NEW s \in Scheds, NEW p \in Procs, cur[s] = p, Touch(s, {p}), Types',
         Same(tm, tn, {p}), TinAt(tn, p)',
         pc'[s] \notin {"trigger", "trigger_enqueue", "walk_trigger", "walk_enqueue"}, cur'[s] = p => queued'[p] = 0,
         UNCHANGED chan, pc[s] # "io_clear", ~Transferred(p), ~Transferred(p)',
         \A d \in Chans : chan[d] = AltPtr(p) => AltIn(p, d)',
         RunAt(s)', HoldAt(tn, s)', IoAt(p)', FlowAt(tn, p)', TriggeredOn(p) => Target(p)'
  PROVE  IInv(tn)'
BY TimedOwnStep DEF Moved

(* The same for a step that has nothing to do with timers either. *)
LEMMA QuietStep ==
  ASSUME NEW tm, IInv(tm), NEW s \in Scheds, NEW p \in Procs, cur[s] = p, Touch(s, {p}), Types',
         pc'[s] \notin {"trigger", "trigger_enqueue", "walk_trigger", "walk_enqueue"}, cur'[s] = p => queued'[p] = 0,
         UNCHANGED chan, pc[s] # "io_clear", ~Transferred(p), ~Transferred(p)',
         \A d \in Chans : chan[d] = AltPtr(p) => AltIn(p, d)',
         RunAt(s)', HoldAt(tm, s)', IoAt(p)', FlowAt(tm, p)', TriggeredOn(p) => Target(p)'
  PROVE  IInv(tm)'
BY OwnStep DEF Moved

-----------------------------------------------------------------------------
(***************************************************************************)
(* Communication.                                                          *)
(***************************************************************************)
(* Who is in no ALT is in no channel as one, and nobody triggers it.       *)
LEMMA AltingFacts ==
  ASSUME NEW tm, IInv(tm), NEW p \in Procs
  PROVE  /\ TriggeredOn(p) => Target(p)
         /\ \A c \in Chans : chan[c] = AltPtr(p) => Reader[c] = p /\ AltIn(p, c)
<1>1. TriggeredOn(p) => Target(p)
  BY DEF IInv, TriggerAt, TriggeredOn
<1>2. ASSUME NEW c \in Chans, chan[c] = AltPtr(p) PROVE Reader[c] = p /\ AltIn(p, c)
  <2>1. ChanAt(tm, c) /\ Reader[c] \in Procs /\ \A q \in Ends(c) : q \in Procs
    BY EndFacts DEF IInv
  <2>2. chan[c] = AltPtr(Reader[c])
    BY <1>2, <2>1, WordFacts DEF ChanAt
  <2>3. Reader[c] = p
    BY <1>2, <2>1, <2>2, WordFacts
  <2> QED BY <2>1, <2>2, <2>3 DEF ChanAt
<1> QED BY <1>1, <1>2

(* A process outside ALTs sees a channel empty, with a waiting partner in  *)
(* it or, if it is the writer, with an ALT.                                *)
LEMMA ChanSeen ==
  ASSUME NEW tm, IInv(tm), NEW s \in Scheds, NEW p \in Procs, cur[s] = p, pc[s] # "io_clear", pc[s] # "xable_restore",
         NEW c \in Chans, p \in Ends(c), iptr[p] \in {"main", "timed", "selected", "xin"}
  PROVE  \/ chan[c] = Empty
         \/ chan[c] = AltPtr(Reader[c]) /\ p = Writer[c]
         \/ chan[c] = Wptr(Partner(p, c)) /\ Waiting(tm, Partner(p, c), c) /\ Asked(Partner(p, c), c)
<1>1. ChanAt(tm, c) /\ RunAt(s)
  BY DEF IInv
<1>2. PICK q \in Ends(c) : q = Partner(p, c) /\ q \in Procs /\ Partner(q, c) = p /\ q # p
  BY EndFacts
<1>3. chan[c] # Wptr(p)
  BY RunnerFacts
<1>4. CASE chan[c] = AltPtr(Reader[c])
  <2>1. Reader[c] # p
    <3> SUFFICES ASSUME Reader[c] = p PROVE FALSE
      OBVIOUS
    <3>1. AltIn(p, c) /\ ~Off(p) /\ (\A L : Runs(p, L) <=> pc[s] \in L)
      BY <1>4, AltingFacts, RunnerFacts
    <3>2. pc[s] # "enbc_restore"
      BY <1>1 DEF RunAt, EnbcLabels
    <3> QED BY <3>1, <3>2 DEF AltIn
  <2> QED BY <1>4, <2>1, EndFacts
<1>5. CASE chan[c] = Wptr(q)
  <2>1. ~Runs(q, {"io_clear"}) \/ ch[q] # c
    <3> SUFFICES ASSUME NEW t \in Scheds, cur[t] = q, pc[t] = "io_clear", ch[q] = c PROVE FALSE
      BY DEF Runs
    <3>1. ChannelOf(t) = c /\ pc[t] \in HoldLabels /\ t # s
      BY <1>2 DEF ChannelOf, HoldLabels
    <3> QED BY <1>2, <3>1, RunnerFacts
  <2>2. Waiting(tm, q, c)
    BY <1>1, <1>5, <2>1 DEF ChanAt
  <2>3. Asked(q, c)
    <3>1. q = Writer[c] => Reader[c] = p
      BY <1>2, EndFacts
    <3> QED BY <1>1, <1>5, <3>1 DEF ChanAt, Extended, Transferred
  <2> QED BY <1>2, <1>5, <2>2, <2>3
<1>6. chan[c] = Empty \/ chan[c] = AltPtr(Reader[c]) \/ chan[c] = Wptr(q)
  BY <1>1, <1>2, <1>3, EndFacts DEF ChanAt
<1> QED BY <1>2, <1>4, <1>5, <1>6

(* State words. *)
LEMMA StateFacts ==
  /\ Pointer \in StateWords /\ Pointer.tag = "pointer"
  /\ \A en, wt, nr \in BOOLEAN, n \in Int :
       /\ AltState(en, wt, nr, n) \in StateWords
       /\ AltState(en, wt, nr, n).tag = "alt" /\ AltState(en, wt, nr, n).enabling = en
       /\ AltState(en, wt, nr, n).waiting = wt /\ AltState(en, wt, nr, n).notReady = nr
       /\ AltState(en, wt, nr, n).n = n
  /\ \A st \in StateWords :
       /\ st.tag \in {"pointer", "alt"} /\ st.enabling \in BOOLEAN /\ st.waiting \in BOOLEAN
       /\ st.notReady \in BOOLEAN /\ st.n \in Int
BY DEF StateWords, Pointer, AltState

(* The reference count and the enabling flag are changed one at a time. *)
LEMMA StateUpdates ==
  ASSUME NEW st \in StateWords
  PROVE  /\ \A m \in Int : /\ [st EXCEPT !.n = m] \in StateWords
                           /\ [st EXCEPT !.n = m].tag = st.tag /\ [st EXCEPT !.n = m].enabling = st.enabling
                           /\ [st EXCEPT !.n = m].waiting = st.waiting
                           /\ [st EXCEPT !.n = m].notReady = st.notReady /\ [st EXCEPT !.n = m].n = m
         /\ [st EXCEPT !.enabling = FALSE] \in StateWords
         /\ [st EXCEPT !.enabling = FALSE].tag = st.tag /\ ~[st EXCEPT !.enabling = FALSE].enabling
         /\ [st EXCEPT !.enabling = FALSE].waiting = st.waiting
         /\ [st EXCEPT !.enabling = FALSE].notReady = st.notReady /\ [st EXCEPT !.enabling = FALSE].n = st.n
<1>1. ASSUME NEW m \in Int PROVE [st EXCEPT !.n = m] \in StateWords
  BY DEF StateWords
<1>2. [st EXCEPT !.enabling = FALSE] \in StateWords
  BY DEF StateWords
<1>3. ASSUME NEW m \in Int
      PROVE  /\ [st EXCEPT !.n = m].tag = st.tag /\ [st EXCEPT !.n = m].enabling = st.enabling
             /\ [st EXCEPT !.n = m].waiting = st.waiting
             /\ [st EXCEPT !.n = m].notReady = st.notReady /\ [st EXCEPT !.n = m].n = m
  BY DEF StateWords
<1>4. /\ [st EXCEPT !.enabling = FALSE].tag = st.tag /\ ~[st EXCEPT !.enabling = FALSE].enabling
      /\ [st EXCEPT !.enabling = FALSE].waiting = st.waiting
      /\ [st EXCEPT !.enabling = FALSE].notReady = st.notReady /\ [st EXCEPT !.enabling = FALSE].n = st.n
  BY DEF StateWords
<1> QED BY <1>1, <1>2, <1>3, <1>4

(* trigger_alt_guard takes one reference and clears two flags; a guard     *)
(* that is found ready clears the other two.                               *)
LEMMA FlagUpdates ==
  ASSUME NEW st \in StateWords
  PROVE  /\ Triggered(st) \in StateWords
         /\ Triggered(st).tag = st.tag /\ Triggered(st).enabling = st.enabling
         /\ ~Triggered(st).waiting /\ ~Triggered(st).notReady /\ Triggered(st).n = st.n - 1
         /\ ClearReadyFlags(st) \in StateWords
         /\ ClearReadyFlags(st).tag = st.tag /\ ~ClearReadyFlags(st).enabling
         /\ ClearReadyFlags(st).waiting = st.waiting /\ ~ClearReadyFlags(st).notReady
         /\ ClearReadyFlags(st).n = st.n
<1>1. st.n - 1 \in Int
  BY DEF StateWords
<1>2. [st EXCEPT !.n = st.n - 1] \in StateWords
  BY <1>1, StateUpdates
<1>3. ASSUME NEW w \in StateWords
      PROVE  [w EXCEPT !.waiting = FALSE] \in StateWords /\ [w EXCEPT !.notReady = FALSE] \in StateWords
  BY DEF StateWords
<1>4. Triggered(st) = [[[st EXCEPT !.n = st.n - 1] EXCEPT !.waiting = FALSE] EXCEPT !.notReady = FALSE]
  BY DEF StateWords, Triggered
<1>5. Triggered(st) \in StateWords
  BY <1>2, <1>3, <1>4
<1>6. Triggered(st).tag = st.tag /\ Triggered(st).enabling = st.enabling
  BY DEF StateWords, Triggered
<1>7. ~Triggered(st).waiting /\ ~Triggered(st).notReady /\ Triggered(st).n = st.n - 1
  BY DEF StateWords, Triggered
<1>8. ClearReadyFlags(st) \in StateWords
  BY DEF StateWords, ClearReadyFlags
<1>9. ClearReadyFlags(st).tag = st.tag /\ ~ClearReadyFlags(st).enabling
  BY DEF StateWords, ClearReadyFlags
<1>10. /\ ClearReadyFlags(st).waiting = st.waiting /\ ~ClearReadyFlags(st).notReady
       /\ ClearReadyFlags(st).n = st.n
  BY DEF StateWords, ClearReadyFlags
<1> QED BY <1>5, <1>6, <1>7, <1>8, <1>9, <1>10

(* What the step of a kernel call does to others: nothing. *)
Alone(s, p) ==
  /\ \A t \in Scheds : t # s =>
       pc'[t] = pc[t] /\ cur'[t] = cur[t] /\ word'[t] = word[t] /\ tgt'[t] = tgt[t]
  /\ \A r \in Procs : r # p =>
       /\ queued'[r] = queued[r] /\ state'[r] = state[r] /\ io'[r] = io[r]
       /\ temp'[r] = temp[r] /\ iptr'[r] = iptr[r] /\ guards'[r] = guards[r]
       /\ style'[r] = style[r] /\ todo'[r] = todo[r] /\ ch'[r] = ch[r] /\ ready0'[r] = ready0[r]
  /\ cur'[s] \in {p, NotProcess} /\ pc'[s] \notin {"trigger_enqueue", "walk_enqueue"}

(* A step that changes nothing of other processes touches its own only. *)
LEMMA AloneTouch ==
  ASSUME NEW tm, IInv(tm), NEW s \in Scheds, NEW p \in Procs, cur[s] = p, Alone(s, p)
  PROVE  Touch(s, {p})
<1>1. pc[s] \notin {"trigger_enqueue", "walk_enqueue"}
  BY CurIs DEF IdleLabels
<1>2. \A r \in Procs : r # p => ~On(s, r) /\ ~On(s, r)'
  BY <1>1, NotProcessAssumption DEF Alone, On
<1> QED BY <1>2 DEF Alone, Touch

(* A process outside ALTs and kernel calls. *)
LEMMA QuietUser ==
  ASSUME NEW tm, IInv(tm), NEW s \in Scheds, NEW p \in Procs, cur[s] = p, pc[s] = "user",
         iptr[p] \in {"main", "timed", "selected", "xin", "xend"}
  PROVE  /\ ~TriggeredOn(p) /\ io[p] = R!Idle
         /\ \A c \in Chans : chan[c] # AltPtr(p)
         /\ iptr[p] = "xin" => ch[p] \in Chans /\ Reader[ch[p]] = p /\ Ready(ch[p])
<1>1. ~Off(p) /\ \A L : Runs(p, L) <=> pc[s] \in L
  BY RunnerFacts
<1>2. ~Runs(p, {"altend_dec"}) /\ ~Runs(p, {"xable_restore"}) /\ ~Runs(p, {"enbc_restore"})
      /\ ~Runs(p, IoLabels \cup {"xin_copy"}) /\ ~Runs(p, XableLabels \cup XendLabels)
  BY <1>1 DEF IoLabels, XableLabels, XendLabels
<1>3. ~TriggeredOn(p)
  BY <1>1, <1>2, AltingFacts DEF Target, InAlt
<1>4. \A c \in Chans : chan[c] # AltPtr(p)
  BY <1>1, <1>2, AltingFacts DEF AltIn
<1>5. io[p] = R!Idle
  BY <1>1, <1>2 DEF IInv, IoAt
<1>6. iptr[p] = "xin" => ch[p] \in Chans /\ Reader[ch[p]] = p /\ Ready(ch[p])
  BY <1>1, <1>2 DEF IInv, FlowAt, XinAt
<1> QED BY <1>3, <1>4, <1>5, <1>6

(* Outside ALTs and extended inputs little has to hold. *)
LEMMA MainFlow ==
  ASSUME NEW tm, NEW p \in Procs, iptr'[p] \in {"main", "timed"}, (temp[p] = Junk)', ~Runs(p, {"altwt_clear"})',
         ~Runs(p, {"altend_dec"})', tm.refs[p] = 0
  PROVE  FlowAt(tm, p)'
<1>1. ListAt(p)'
  BY DEF ListAt, InAlt
<1>2. FlagsAt(p)' /\ XinAt(p)' /\ EnabledAt(p)'
  BY DEF FlagsAt, XinAt, EnabledAt, InAlt
<1>3. SelectedAt(p)' /\ FirstAt(p)'
  BY DEF SelectedAt, FirstAt, InAlt, Chosen
<1>4. CountAt(tm, p)'
  BY DEF CountAt, InAlt
<1> QED BY <1>1, <1>2, <1>3, <1>4 DEF FlowAt

(* The input of an extended input. *)
LEMMA XendFlow ==
  ASSUME NEW tm, NEW p \in Procs, (iptr[p] = "xend")', (temp[p] = Junk)', (\E s \in Scheds : cur[s] = p)',
         ~Runs(p, {"altwt_clear"})', ~Runs(p, {"altend_dec"})', tm.refs[p] = 0,
         (ch[p] \in Chans /\ Reader[ch[p]] = p)', Runs(p, XableLabels \cup XendLabels)' \/ Ready(ch[p])'
  PROVE  FlowAt(tm, p)'
<1>1. ListAt(p)'
  BY DEF ListAt, InAlt
<1>2. FlagsAt(p)' /\ XinAt(p)' /\ EnabledAt(p)'
  BY DEF FlagsAt, XinAt, EnabledAt, InAlt
<1>3. SelectedAt(p)' /\ FirstAt(p)'
  BY DEF SelectedAt, FirstAt, InAlt, Chosen
<1>4. CountAt(tm, p)'
  BY DEF CountAt, InAlt
<1> QED BY <1>1, <1>2, <1>3, <1>4 DEF FlowAt

(* The first half of a communication. *)
LEMMA ChanIoTypes ==
  ASSUME Types, NEW s \in Scheds, NEW p \in Procs, NEW c \in Chans, NEW dir \in {"in", "out"},
         NEW back \in {"main", "xend"}, ChanIo(s, p, c, dir, back)
  PROVE  Types'
<1>1. pc' \in [Scheds -> PcLabels]
  BY DEF Types, ChanIo, Goto, WithPartner, PcLabels, IoLabels, XendLabels
<1>2. cur' \in [Scheds -> Procs \cup {NotProcess}] /\ queued' \in [Procs -> {0, 1}]
  BY DEF Types, ChanIo, Goto
<1>3. /\ chan' \in [Chans -> ChanWord] /\ word' \in [Scheds -> ChanWord]
      /\ tgt' \in [Scheds -> Procs \cup {NotProcess}]
  BY DEF Types, ChanIo, ForgetAlt
<1>4. state' \in [Procs -> StateWords]
  <2>1. state' = state \/ state' = [state EXCEPT ![p] = Pointer]
    BY DEF ChanIo, SetState
  <2>2. Pointer \in StateWords /\ state \in [Procs -> StateWords]
    BY StateFacts DEF Types
  <2> QED BY <2>1, <2>2
<1>5. iptr' \in [Procs -> Labels \cup {"timed"}] /\ ch' \in [Procs -> Chans \cup {None}]
  BY DEF Types, ChanIo, SetIptr, Labels
<1>6. temp' \in [Procs -> Chans \cup Timers \cup {Skip, None, Junk}] /\ style' \in [Procs -> Styles]
  BY DEF Types, ChanIo, ForgetAlt, Styles
<1>7. guards' \in [Procs -> Seq(Chans \cup Timers \cup {Skip})] /\ todo' \in [Procs -> Seq(Chans \cup Timers \cup {Skip})]
  BY DEF Types, ChanIo, ForgetAlt
<1>8. ready0' \in [Procs -> SUBSET (Chans \cup {Skip})]
  BY DEF Types, ChanIo, ForgetAlt
<1>9. R!Pending(dir, c) \in Requests
  BY DEF Requests
<1>10. io' \in [Procs -> Requests]
  BY <1>9 DEF Types, ChanIo
<1> QED BY <1>1, <1>2, <1>3, <1>4, <1>5, <1>6, <1>7, <1>8, <1>10 DEF Types

(* kernel_chan_io begins: the process asks for its communication and looks *)
(* at the channel word.                                                    *)
LEMMA ChanIoStep ==
  ASSUME NEW tm, IInv(tm), NEW s \in Scheds, NEW p \in Procs, cur[s] = p, pc[s] = "user",
         NEW c \in Chans, p \in Ends(c), NEW back \in {"main", "xend"},
         back = "main" => iptr[p] \in {"main", "selected"},
         back = "xend" => iptr[p] = "xin" /\ ch[p] = c,
         ChanIo(s, p, c, Dir(p, c), back)
  PROVE  IInv(tm)'
<1>1. Types /\ Types'
  BY ChanIoTypes DEF IInv, Dir
<1>2. /\ ch'[p] = c /\ io'[p] = R!Pending(Dir(p, c), c) /\ iptr'[p] = back /\ temp'[p] = Junk
      /\ cur'[s] = p /\ UNCHANGED <<chan, queued, tgt>>
  BY <1>1 DEF ChanIo, SetIptr, ForgetAlt, Goto, Types
<1>3. Alone(s, p)
  <2>1. \A t \in Scheds : t # s =>
          pc'[t] = pc[t] /\ cur'[t] = cur[t] /\ word'[t] = word[t] /\ tgt'[t] = tgt[t]
    BY <1>1 DEF ChanIo, Goto, Types
  <2>2. \A r \in Procs : r # p =>
          /\ queued'[r] = queued[r] /\ state'[r] = state[r] /\ io'[r] = io[r]
          /\ temp'[r] = temp[r] /\ iptr'[r] = iptr[r] /\ guards'[r] = guards[r]
          /\ style'[r] = style[r] /\ todo'[r] = todo[r] /\ ch'[r] = ch[r] /\ ready0'[r] = ready0[r]
    BY <1>1 DEF ChanIo, SetIptr, SetState, ForgetAlt, Types
  <2>3. pc'[s] \notin {"trigger_enqueue", "walk_enqueue"}
    BY <1>1 DEF ChanIo, Goto, WithPartner, Types
  <2> QED BY <1>2, <2>1, <2>2, <2>3 DEF Alone
<1>4. Touch(s, {p}) /\ queued[p] = 0
  BY <1>3, AloneTouch, RunnerFacts
<1>5. ~TriggeredOn(p) /\ (\A d \in Chans : chan[d] # AltPtr(p))
      /\ (iptr[p] = "xin" => Reader[c] = p /\ chan[c] = Wptr(Writer[c]))
  BY QuietUser, GuardFacts DEF Ready
<1>6. PICK q \in Procs : q = Partner(p, c) /\ q # p
  BY EndFacts
<1>7. \/ (chan[c] = Empty \/ chan[c].alt) /\ pc'[s] = "io_swap" /\ state'[p] = Pointer /\ back = "main"
      \/ /\ chan[c] = Wptr(q) /\ Waiting(tm, q, c) /\ Asked(q, c)
         /\ word'[s] = Wptr(q) /\ pc'[s] = WithPartner(back)
  <2>1. \/ chan[c] = Empty
        \/ chan[c] = AltPtr(Reader[c]) /\ p = Writer[c]
        \/ chan[c] = Wptr(q) /\ Waiting(tm, q, c) /\ Asked(q, c)
    BY <1>6, ChanSeen
  <2>2. CASE chan[c] = Empty \/ chan[c] = AltPtr(Reader[c])
    <3>1. chan[c] = Empty \/ chan[c].alt
      BY <2>2, EndFacts, WordFacts
    <3>2. back = "main"
      BY <1>5, <2>2, EndFacts, WordFacts
    <3> QED BY <1>1, <3>1, <3>2 DEF ChanIo, Goto, SetState, Types
  <2>3. CASE chan[c] = Wptr(q) /\ Waiting(tm, q, c) /\ Asked(q, c)
    <3>1. chan[c] # Empty /\ ~chan[c].alt
      BY <2>3, WordFacts
    <3> QED BY <1>1, <2>3, <3>1 DEF ChanIo, Goto, Types
  <2> QED BY <2>1, <2>2, <2>3
<1>8. pc'[s] \in {"io_swap", WithPartner(back)}
  BY <1>7
<1>9. Asked(p, c)'
  BY <1>2 DEF Asked
<1>10. RunAt(s)'
  <2>1. CASE pc'[s] = "io_swap"
    BY <1>2, <1>7, <1>9, <2>1, StateFacts, NotProcessAssumption
       DEF RunAt, WithPartner, IdleLabels, IoLabels, XableLabels, XendLabels, EnbcLabels, EnbLabels,
           AltwtLabels, DiscLabels, DistLabels
  <2>2. CASE pc'[s] = WithPartner(back) /\ pc'[s] # "io_swap"
    BY <1>2, <1>9, <2>2, NotProcessAssumption
       DEF RunAt, WithPartner, IdleLabels, IoLabels, XableLabels, XendLabels, EnbcLabels, EnbLabels,
           AltwtLabels, DiscLabels, DistLabels
  <2> QED BY <1>8, <2>1, <2>2
<1>11. HoldAt(tm, s)'
  <2> SUFFICES ASSUME pc'[s] = WithPartner(back) PROVE HoldAt(tm, s)'
    BY <1>8 DEF HoldAt, HoldLabels
  <2>1. pc'[s] # "io_swap"
    BY DEF WithPartner
  <2>2. Waiting(tm, q, c)' /\ Asked(q, c)'
    BY <1>4, <1>6, <1>7, <2>1, PlaceFrame
  <2>3. (ChannelOf(s) = c)' /\ (Partner(cur[s], c) = q)'
    BY <1>2, <1>6 DEF ChannelOf, Partner, WithPartner
  <2>4. back = "xend" => p = Reader[c]
    BY <1>5
  <2>5. HeldBy(tm, s, c, q)'
    BY <1>2, <1>7, <2>1, <2>2, <2>4 DEF HeldBy, WithPartner, IoLabels, Wptr
  <2> QED BY <2>3, <2>5 DEF HoldAt
<1>12. \A L : Runs(p, L)' <=> pc'[s] \in L
  BY <1>2, <1>3, <1>4, RunnerNext DEF Alone
<1>13. IoAt(p)'
  BY <1>8, <1>12 DEF IoAt, WithPartner, IoLabels
<1>14. FlowAt(tm, p)'
  <2>1. ~Runs(p, {"altwt_clear"})' /\ ~Runs(p, {"altend_dec"})'
    BY <1>8, <1>12 DEF WithPartner
  <2>2. tm.refs[p] = 0
    BY RunnerFacts DEF InAlt
  <2>3. CASE back = "main"
    BY <1>2, <2>1, <2>2, <2>3, MainFlow
  <2>4. CASE back = "xend"
    <3>1. Runs(p, XableLabels \cup XendLabels)'
      BY <1>7, <1>12, <2>4 DEF WithPartner, XendLabels
    <3>2. ch'[p] \in Chans /\ Reader[ch'[p]] = p
      BY <1>2, <1>5, <2>4
    <3> QED BY <1>2, <2>1, <2>2, <2>4, <3>1, <3>2, XendFlow
  <2> QED BY <2>3, <2>4
<1>15. ~Transferred(p) /\ ~Transferred(p)'
  BY <1>8, <1>12 DEF Transferred, WithPartner
<1> QED BY <1>1, <1>2, <1>3, <1>4, <1>5, <1>8, <1>10, <1>11, <1>13, <1>14, <1>15, QuietStep
      DEF WithPartner

(* A triggered process: its channel is ready, and its reference is the     *)
(* trigger now.                                                            *)
LEMMA TriggerSteady ==
  ASSUME NEW tm, IInv(tm), NEW s \in Scheds, NEW p \in Procs, cur[s] = p, Touch(s, {p}),
         NEW c \in Chans, p = Writer[c], NEW r \in Procs, r = Reader[c], r # p,
         chan[c] = AltPtr(r), chan' = [chan EXCEPT ![c] = Wptr(p)],
         pc[s] \notin {"trigger", "walk_trigger"}, pc'[s] = "trigger", tgt'[s] = r
  PROVE  Steady(tm, r) /\ Target(r)'
<1>1. Types /\ ChanAt(tm, c) /\ FlowAt(tm, r) /\ (\A t \in Scheds : RunAt(t))
  BY DEF IInv
<1>2. /\ state'[r] = state[r] /\ temp'[r] = temp[r] /\ iptr'[r] = iptr[r]
      /\ guards'[r] = guards[r] /\ style'[r] = style[r] /\ todo'[r] = todo[r] /\ ch'[r] = ch[r]
      /\ ready0'[r] = ready0[r]
  BY DEF Touch
<1>3. /\ Off(r)' <=> Off(r)
      /\ \A L : Runs(r, L)' <=> Runs(r, L)
      /\ InAlt(r)' <=> InAlt(r)
  BY <1>2, PlaceFrame DEF InAlt
<1>4. Passed(r)' = Passed(r) /\ Enabled(r)' = Enabled(r)
      /\ \A g : Position(r, g)' = Position(r, g)
  BY <1>2, <1>3 DEF Passed, Enabled, Position
<1>5. /\ chan'[c] = Wptr(Writer[c]) /\ chan'[c] # Empty /\ chan'[c] # AltPtr(r)
      /\ \A d \in Chans : d # c => chan'[d] = chan[d]
  BY <1>1, WordFacts DEF Types
<1>6. \A g : Ready(g) => Ready(g)'
  BY <1>5 DEF Ready
<1>7. Ready(c)'
  BY <1>5 DEF Ready
<1>8. AltIn(r, c)
  BY <1>1 DEF ChanAt
<1>9. /\ ~(Runs(r, {"enbc_restore"}) /\ c = Head(todo[r]))
      /\ ~(Runs(r, {"xable_restore"}) /\ c = ch[r])
  <2> SUFFICES ASSUME NEW t \in Scheds, cur[t] = r, pc[t] \in {"enbc_restore", "xable_restore"},
                      c = ChannelOf(t)
               PROVE FALSE
    BY DEF Runs, ChannelOf
  <2>1. t # s /\ pc[t] \in HoldLabels /\ Partner(r, c) = p
    BY DEF HoldLabels, Partner
  <2> QED BY <2>1, RunnerFacts
<1>10. \/ iptr[r] = "xin" /\ Off(r) /\ ch[r] = c
       \/ iptr[r] \in {"enable", "altwt"} /\ c \in Enabled(r)
       \/ iptr[r] = "disable" /\ c \in Elems(todo[r])
  BY <1>8, <1>9 DEF AltIn
<1>11. Target(r)' /\ (Target(r)' <=> Target(r))
  BY <1>2, <1>3, <1>10 DEF Target, InAlt
<1>12. \A d \in Chans : AltIn(r, d)' <=> AltIn(r, d)
  BY <1>2, <1>3, <1>4 DEF AltIn
<1>13. ListAt(r)'
  BY <1>1, <1>2, <1>3, <1>4 DEF FlowAt, ListAt, Chosen
<1>14. FlagsAt(r)'
  <2>1. FlagsAt(r)
    BY <1>1 DEF FlowAt
  <2>2. (\E t \in Scheds : cur[t] = r) => \E t \in Scheds : cur'[t] = r
    BY DEF Touch, On
  <2> QED BY <1>2, <1>3, <2>1, <2>2 DEF FlagsAt
<1>15. XinAt(r)'
  <2>1. XinAt(r)
    BY <1>1 DEF FlowAt
  <2>2. iptr[r] = "xin" => Ready(ch[r])'
    BY <1>2, <1>7, <1>10 DEF Ready
  <2>3. iptr[r] # "xend"
    BY <1>10
  <2> QED BY <1>2, <1>3, <2>1, <2>2, <2>3 DEF XinAt
<1>16. EnabledAt(r)'
  <2>1. EnabledAt(r)
    BY <1>1 DEF FlowAt
  <2> SUFFICES ASSUME iptr[r] \in {"enable", "altwt"} PROVE EnabledAt(r)'
    BY <1>2 DEF EnabledAt
  <2>2. \A g \in Enabled(r) : g \in Chans => chan'[g] # Empty
    BY <1>5, <2>1 DEF EnabledAt
  <2>3. \E g \in Enabled(r) : Hopeful(r, g)'
    BY <1>7, <1>10, GuardFacts DEF Hopeful
  <2>4. Runs(r, EnbLabels) => Ready(Head(todo[r]))'
    <3> SUFFICES ASSUME Runs(r, EnbLabels) PROVE Ready(Head(todo[r]))'
      OBVIOUS
    <3>1. PICK g : g = Head(todo[r])
      OBVIOUS
    <3>2. Ready(g)'
      BY <1>6, <2>1, <3>1 DEF EnabledAt
    <3> QED BY <1>2, <3>1, <3>2 DEF Ready
  <2> QED BY <1>2, <1>3, <1>4, <2>1, <2>2, <2>3, <2>4 DEF EnabledAt
<1>17. SelectedAt(r)'
  <2>1. SelectedAt(r)
    BY <1>1 DEF FlowAt
  <2>2. iptr[r] = "disable" => \E g \in Elems(todo[r]) : Ready(g)'
    BY <1>7, <1>10
  <2>3. Ready(temp[r]) => Ready(temp[r])'
    <3>1. PICK g : g = temp[r]
      OBVIOUS
    <3>2. Ready(g) => Ready(g)'
      BY <1>6
    <3> QED BY <1>2, <3>1, <3>2 DEF Ready
  <2>4. iptr[r] = "disable" /\ Runs(r, DiscLabels) => Head(todo[r]) \in Chans
    BY <1>1 DEF Runs, RunAt
  <2>5. iptr[r] = "disable" /\ Runs(r, {"disc_cas"}) => chan'[Head(todo[r])] # Empty
    BY <1>5, <2>1, <2>4 DEF SelectedAt, Runs, DiscLabels, DistLabels
  <2>6. iptr[r] = "disable" /\ Runs(r, {"disc_dec"}) =>
          /\ Head(todo[r]) \notin ready0[r] /\ chan'[Head(todo[r])] # AltPtr(r)
          /\ ~Timed(guards[r]) => Chosen(r) \/ \E g \in Elems(Tail(todo[r])) : Ready(g)'
    BY <1>5, <1>6, <2>1, <2>4 DEF SelectedAt, Runs, DiscLabels, DistLabels
  <2>7. /\ Runs(r, {"disc_cas"})' <=> Runs(r, {"disc_cas"})
        /\ Runs(r, {"disc_dec"})' <=> Runs(r, {"disc_dec"})
        /\ Runs(r, AltwtLabels)' <=> Runs(r, AltwtLabels)
    BY <1>3
  <2> QED BY <1>2, <2>1, <2>2, <2>3, <2>5, <2>6, <2>7 DEF SelectedAt, Chosen, AltwtLabels, AltPtr, Empty
<1>18. FirstAt(r)'
  <2>1. FirstAt(r)
    BY <1>1 DEF FlowAt
  <2>2. InAlt(r) => \A g \in ready0[r] : Ready(g)'
    BY <1>6, <2>1 DEF FirstAt
  <2> QED BY <1>2, <1>3, <1>4, <2>1, <2>2 DEF FirstAt, Chosen
<1>19. Refs(r)' = Refs(r)
  <2>1. InChans(r)' = InChans(r) \ {c} /\ c \in InChans(r) /\ IsFiniteSet(InChans(r))
    <3>1. IsFiniteSet(InChans(r))
      BY AltAssumption, FS_Subset DEF InChans
    <3> QED BY <1>5, <3>1 DEF InChans
  <2>2. Triggers(r)' = Triggers(r) \cup {s} /\ s \notin Triggers(r) /\ IsFiniteSet(Triggers(r))
    <3>1. IsFiniteSet(Triggers(r))
      BY AltAssumption, FS_Subset DEF Triggers
    <3>2. \A t \in Scheds : t # s => pc'[t] = pc[t] /\ tgt'[t] = tgt[t]
      BY DEF Touch
    <3> QED BY <3>1, <3>2 DEF Triggers
  <2>3. /\ Cardinality(InChans(r))' = Cardinality(InChans(r)) - 1
        /\ Cardinality(Triggers(r))' = Cardinality(Triggers(r)) + 1
        /\ Cardinality(InChans(r)) \in Nat /\ Cardinality(Triggers(r)) \in Nat
    BY <2>1, <2>2, CardStep
  <2> QED BY <2>3 DEF Refs
<1>20. CountAt(tm, r)'
  <2>1. CountAt(tm, r)
    BY <1>1 DEF FlowAt
  <2>2. /\ Runs(r, {"disc_dec"})' <=> Runs(r, {"disc_dec"})
        /\ Runs(r, {"enbc_inc", "enbc_restore"})' <=> Runs(r, {"enbc_inc", "enbc_restore"})
        /\ Runs(r, {"altend_dec"})' <=> Runs(r, {"altend_dec"})
    BY <1>3
  <2> QED BY <1>2, <1>3, <1>19, <2>1, <2>2 DEF CountAt
<1> QED BY <1>11, <1>12, <1>13, <1>14, <1>15, <1>16, <1>17, <1>18, <1>20 DEF FlowAt, Steady

(* The writer of an extended input stays in the channel. *)
LEMMA NotExtended ==
  ASSUME NEW tm, IInv(tm), NEW c \in Chans, chan[c] # Wptr(Writer[c])
  PROVE  ~Extended(c)
<1> SUFFICES ASSUME Extended(c) PROVE FALSE
  OBVIOUS
<1>1. PICK r \in Procs : r = Reader[c]
  BY EndFacts
<1>2. iptr[r] = "xend" /\ ch[r] = c /\ Runs(r, {"user"})
  BY <1>1 DEF Extended, Transferred
<1>3. PICK s \in Scheds : cur[s] = r /\ pc[s] = "user"
  BY <1>2 DEF Runs
<1>4. ~Off(r) /\ ~Runs(r, XableLabels \cup XendLabels)
  BY <1>3, RunnerFacts DEF XableLabels, XendLabels
<1>5. Ready(c)
  BY <1>2, <1>4 DEF IInv, FlowAt, XinAt
<1> QED BY <1>5, GuardFacts DEF Ready

(* The types of the swap. *)
LEMMA IoSwapTypes ==
  ASSUME Types, NEW s \in Scheds, NEW p \in Procs, ch[p] \in Chans, IoSwap(s, p)
  PROVE  Types'
<1>1. PICK c \in Chans : c = ch[p]
  OBVIOUS
<1>2. Wptr(p) \in ChanWord /\ chan[c] \in ChanWord
  BY WordFacts DEF Types
<1>3. chan[c].p \in Procs \cup {NotProcess}
  BY <1>2 DEF ChanWord
<1>4. chan' \in [Chans -> ChanWord]
  BY <1>1, <1>2 DEF Types, IoSwap, SetChan
<1>5. word' \in [Scheds -> ChanWord]
  BY <1>1, <1>2 DEF Types, IoSwap
<1>6. tgt' \in [Scheds -> Procs \cup {NotProcess}]
  BY <1>1, <1>3 DEF Types, IoSwap, SleepInChannel
<1>7. pc' \in [Scheds -> PcLabels]
  BY DEF Types, IoSwap, SleepInChannel, KernelScheduler, Goto, WithPartner, PcLabels, IdleLabels,
         IoLabels, XendLabels
<1>8. cur' \in [Scheds -> Procs \cup {NotProcess}]
  BY DEF Types, IoSwap, SleepInChannel, KernelScheduler, Goto
<1>9. UNCHANGED <<queued, state, temp, iptr, guards, style, todo, ch, io, ready0>>
  BY DEF IoSwap, procVars, altVars, histVars
<1> QED BY <1>4, <1>5, <1>6, <1>7, <1>8, <1>9 DEF Types

(* The swap of the workspace into the channel word: the process sleeps in  *)
(* the channel, triggers the ALT it finds there, or goes on with the       *)
(* partner that came in between.                                           *)
LEMMA IoSwapStep ==
  ASSUME NEW tm, IInv(tm), NEW s \in Scheds, NEW p \in Procs, IoSwap(s, p)
  PROVE  IInv(tm)'
<1>1. cur[s] = p /\ pc[s] = "io_swap"
  BY DEF IoSwap, InKernel
<1>2. PICK c \in Chans : c = ch[p] /\ p \in Ends(c)
  BY <1>1 DEF IInv, RunAt, IoLabels
<1>3. iptr[p] = "main" /\ Asked(p, c) /\ state[p].tag = "pointer"
  BY <1>1, <1>2 DEF IInv, RunAt, IoLabels
<1>4. Types /\ Types'
  BY <1>2, IoSwapTypes DEF IInv
<1>5. /\ UNCHANGED <<queued, state, temp, iptr, guards, style, todo, ch, io, ready0>>
      /\ chan' = [chan EXCEPT ![c] = Wptr(p)]
  BY <1>2 DEF IoSwap, SetChan, procVars, altVars, histVars
<1>6. Alone(s, p)
  <2>1. \A t \in Scheds : t # s =>
          pc'[t] = pc[t] /\ cur'[t] = cur[t] /\ word'[t] = word[t] /\ tgt'[t] = tgt[t]
    BY <1>4 DEF IoSwap, SleepInChannel, KernelScheduler, Goto, Types
  <2>2. pc'[s] \notin {"trigger_enqueue", "walk_enqueue"} /\ cur'[s] \in {p, NotProcess}
    BY <1>1, <1>4 DEF IoSwap, SleepInChannel, KernelScheduler, Goto, WithPartner, Types
  <2> QED BY <1>5, <2>1, <2>2 DEF Alone
<1>7. Touch(s, {p}) /\ queued[p] = 0
  BY <1>1, <1>6, AloneTouch, RunnerFacts
<1>8. PICK q \in Procs : q = Partner(p, c) /\ q # p /\ q \in Ends(c)
  BY <1>2, EndFacts
<1>9. /\ chan'[c] = Wptr(p) /\ \A d \in Chans : d # c => chan'[d] = chan[d]
  BY <1>4, <1>5 DEF Types
<1>10. \/ chan[c] = Empty
       \/ chan[c] = AltPtr(Reader[c]) /\ p = Writer[c]
       \/ chan[c] = Wptr(q) /\ Waiting(tm, q, c) /\ Asked(q, c)
  BY <1>1, <1>2, <1>3, <1>8, ChanSeen
<1>11. ~TriggeredOn(p) /\ \A d \in Chans : chan[d] # AltPtr(p)
  <2>1. ~Off(p) /\ \A L : Runs(p, L) <=> pc[s] \in L
    BY <1>1, RunnerFacts
  <2> QED BY <1>1, <1>3, <2>1, AltingFacts DEF Target, InAlt, AltIn
<1>12. Asked(p, c)' /\ iptr'[p] = "main" /\ ch'[p] = c /\ state'[p].tag = "pointer"
  BY <1>2, <1>3, <1>5 DEF Asked
<1>13. FlowAt(tm, p)'
  <2>1. temp[p] = Junk
    BY <1>3 DEF IInv, FlowAt, SelectedAt
  <2>2. pc'[s] \notin {"altwt_clear", "altend_dec"}
    BY <1>4 DEF IoSwap, SleepInChannel, KernelScheduler, Goto, WithPartner, Types
  <2>3. ~Runs(p, {"altwt_clear"})' /\ ~Runs(p, {"altend_dec"})'
    <3>1. pc'[s] \notin {"trigger_enqueue", "walk_enqueue"}
      BY <1>6 DEF Alone
    <3> QED BY <1>1, <1>7, <2>2, <3>1, RunnerNext
  <2>4. tm.refs[p] = 0
    BY <1>1, <1>3, RunnerFacts DEF InAlt
  <2> QED BY <1>5, <1>12, <2>1, <2>3, <2>4, MainFlow
<1>14. \A d \in Chans : d # c => p \notin Ends(d) \/ chan[d] # Wptr(p)
  BY <1>1, <1>2, RunnerFacts
<1>15. chan'[c] # AltPtr(Reader[c]) /\ \A x \in Ends(c) : chan'[c] = Wptr(x) => x = p
  <2>1. Reader[c] \in Procs /\ \A x \in Ends(c) : x \in Procs
    BY EndFacts
  <2> QED BY <1>9, <2>1, WordFacts
<1>16. ~(p = Writer[c] /\ Extended(c)')
  <2> SUFFICES ASSUME p = Writer[c] PROVE ~Extended(c)'
    OBVIOUS
  <2>1. Reader[c] \in Procs /\ Reader[c] # p
    BY EndFacts
  <2>2. chan[c] # Wptr(p)
    BY <1>1, <1>2, RunnerFacts
  <2>3. ~Extended(c)
    BY <2>2, NotExtended
  <2> QED BY <1>5, <1>7, <2>1, <2>3, PlaceFrame DEF Extended
<1>17. CASE chan[c] = Empty
  <2>1. pc'[s] = "sched" /\ cur'[s] = NotProcess
    BY <1>2, <1>4, <1>17 DEF IoSwap, SleepInChannel, KernelScheduler, Types
  <2>2. Off(p)' /\ OnceAt(p)'
    BY <1>1, <1>5, <1>7, <2>1, RunnerNext, NotProcessAssumption
  <2>3. Waiting(tm, p, c)'
    BY <1>1, <1>12, <2>2, RunnerFacts DEF Waiting
  <2>4. ChanAt(tm, c)'
    BY <1>2, <1>9, <1>12, <1>15, <1>16, <2>3 DEF ChanAt, Wptr, Ends, AltPtr
  <2>5. Moved(tm, p)
    <3>1. \A r \in Procs : Wptr(p) # AltPtr(r)
      BY WordFacts
    <3>2. Reader[c] # p => p = Writer[c]
      BY <1>2, EndFacts
    <3> QED BY <1>2, <1>9, <1>17, <2>4, <3>1, <3>2 DEF Moved
  <2>6. RunAt(s)'
    BY <2>1 DEF RunAt, IdleLabels, IoLabels, XableLabels, XendLabels, EnbcLabels, EnbLabels,
               AltwtLabels, DiscLabels, DistLabels
  <2>7. HoldAt(tm, s)' /\ IoAt(p)'
    BY <1>12, <2>1, <2>2 DEF HoldAt, HoldLabels, IoAt
  <2> QED BY <1>1, <1>3, <1>4, <1>7, <1>11, <1>12, <1>13, <2>1, <2>5, <2>6, <2>7, OwnStep, NotProcessAssumption
          DEF Transferred
<1>18. CASE chan[c] = Wptr(q) /\ Waiting(tm, q, c) /\ Asked(q, c)
  <2>1. chan[c] # Empty /\ ~chan[c].alt
    BY <1>18, WordFacts
  <2>2. pc'[s] = "io_clear" /\ cur'[s] = p /\ word'[s] = Wptr(q)
    BY <1>1, <1>2, <1>3, <1>4, <1>18, <2>1 DEF IoSwap, Goto, WithPartner, Types
  <2>3. \A L : Runs(p, L)' <=> pc'[s] \in L
    BY <1>1, <1>7, <2>2, RunnerNext
  <2>4. Runs(p, {"io_clear"})' /\ IoAt(p)'
    BY <2>2, <2>3 DEF IoAt, IoLabels
  <2>5. ChanAt(tm, c)'
    BY <1>2, <1>9, <1>12, <1>15, <1>16, <2>4 DEF ChanAt, Wptr, Ends, AltPtr
  <2>6. Moved(tm, p)
    <3>1. \A r \in Procs : Wptr(p) # AltPtr(r)
      BY WordFacts
    <3>2. Reader[c] # p => iptr[Reader[c]] = "main"
      BY <1>2, <1>8, <1>18, EndFacts DEF Waiting
    <3> QED BY <1>2, <1>9, <2>5, <3>1, <3>2 DEF Moved
  <2>7. RunAt(s)'
    BY <1>2, <1>12, <2>2, NotProcessAssumption
       DEF RunAt, IdleLabels, IoLabels, XableLabels, XendLabels, EnbcLabels, EnbLabels, AltwtLabels, DiscLabels, DistLabels
  <2>8. HoldAt(tm, s)'
    <3>1. Waiting(tm, q, c)' /\ Asked(q, c)'
      BY <1>7, <1>8, <1>18, PlaceFrame
    <3>2. (ChannelOf(s) = c)' /\ (Partner(cur[s], c) = q)'
      BY <1>8, <1>12, <2>2 DEF ChannelOf, Partner
    <3>3. HeldBy(tm, s, c, q)'
      BY <1>9, <2>2, <3>1 DEF HeldBy, IoLabels, Wptr
    <3> QED BY <3>2, <3>3 DEF HoldAt
  <2> QED BY <1>1, <1>3, <1>4, <1>5, <1>7, <1>11, <1>12, <1>13, <2>2, <2>4, <2>6, <2>7, <2>8, OwnStep
          DEF Transferred
<1>19. CASE chan[c] = AltPtr(Reader[c]) /\ p = Writer[c]
  <2>1. PICK r \in Procs : r = Reader[c] /\ r # p
    BY <1>19, EndFacts
  <2>2. chan[c] # Empty /\ chan[c].alt /\ chan[c].p = r
    BY <1>19, <2>1, WordFacts
  <2>3. pc'[s] = "trigger" /\ cur'[s] = NotProcess /\ tgt'[s] = r
    BY <1>2, <1>4, <2>2 DEF IoSwap, SleepInChannel, Types
  <2>4. Off(p)' /\ OnceAt(p)'
    BY <1>1, <1>5, <1>7, <2>3, RunnerNext, NotProcessAssumption
  <2>5. Waiting(tm, p, c)' /\ IoAt(p)' /\ TinAt(tm, p)'
    BY <1>1, <1>12, <2>4, RunnerFacts DEF Waiting, IoAt, TinAt
  <2>6. ChanAt(tm, c)'
    BY <1>2, <1>9, <1>12, <1>15, <1>16, <2>5 DEF ChanAt, Wptr, Ends, AltPtr
  <2>7. Steady(tm, r) /\ Target(r)'
    BY <1>1, <1>5, <1>7, <1>19, <2>1, <2>3, TriggerSteady
  <2>8. ASSUME NEW x \in Procs, x \notin {p}, x # r PROVE Undisturbed(x)
    <3>1. Reader[c] # x /\ chan'[c] # AltPtr(x)
      BY <1>9, <2>1, <2>8, WordFacts
    <3>2. \A t \in Scheds : (pc[t] \in {"trigger", "walk_trigger"} /\ tgt[t] = x)' <=> (pc[t] \in {"trigger", "walk_trigger"} /\ tgt[t] = x)
      <4>1. \A t \in Scheds : t # s => pc'[t] = pc[t] /\ tgt'[t] = tgt[t]
        BY <1>6 DEF Alone
      <4> QED BY <1>1, <2>3, <2>8, <4>1
    <3> QED BY <1>9, <3>1, <3>2 DEF Undisturbed
  <2>9. Unheld(s, {p})
    <3> SUFFICES ASSUME NEW t \in Scheds, t # s, pc[t] \in HoldLabels
                 PROVE  /\ Partner(cur[t], ChannelOf(t)) # p
                        /\ chan'[ChannelOf(t)] = chan[ChannelOf(t)]
      BY DEF Unheld
    <3>1. PICK d \in Chans : d = ChannelOf(t)
      BY HoldChannel
    <3>2. Partner(cur[t], d) # p /\ cur[t] \in Ends(d) /\ cur[t] # p
      BY <1>1, <3>1, RunnerFacts, HoldChannel DEF On
    <3>3. d # c
      BY <1>2, <3>2, EndFacts
    <3> QED BY <1>9, <3>1, <3>2, <3>3
  <2>10. RunAt(s)'
    BY <2>3 DEF RunAt, IdleLabels, IoLabels, XableLabels, XendLabels, EnbcLabels, EnbLabels,
               AltwtLabels, DiscLabels, DistLabels
  <2>11. HoldAt(tm, s)' /\ TriggerAt(s)'
    <3>1. HoldAt(tm, s)'
      BY <2>3 DEF HoldAt, HoldLabels
    <3>2. TriggerAt(s)'
      BY <2>3, <2>7 DEF TriggerAt, Target, InAlt, Off, Runs, On
    <3> QED BY <3>1, <3>2
  <2>12. \A d \in Chans : ChanAt(tm, d)' \/ (chan'[d] = chan[d] /\ Stays(d, {p}))
    <3> SUFFICES ASSUME NEW d \in Chans
                 PROVE  ChanAt(tm, d)' \/ (chan'[d] = chan[d] /\ Stays(d, {p}))
      OBVIOUS
    <3>1. CASE d = c
      BY <1>15, <1>19, <2>6, <3>1
    <3>2. CASE d # c
      <4>1. \A x \in Ends(d) : x \in {p} => chan[d] # Wptr(x)
        BY <1>14, <3>2
      <4>2. Reader[d] \in {p} => chan[d] # AltPtr(Reader[d]) /\ ~Extended(d) /\ ~Extended(d)'
        BY <1>3, <1>11, <1>12 DEF Extended, Transferred
      <4>3. Stays(d, {p})
        BY <4>1, <4>2 DEF Stays
      <4> QED BY <1>9, <3>2, <4>3
    <3> QED BY <3>1, <3>2
  <2>13. ~(\E t \in Scheds : t # s /\ pc[t] \in {"trigger", "walk_trigger"} /\ tgt[t] = p)
    BY <1>11 DEF TriggeredOn
  <2>14. \A t \in Scheds : t # s => cur[t] # p
    BY <1>1, RunnerFacts DEF On
  <2> QED BY <1>4, <1>7, <1>13, <2>4, <2>5, <2>7, <2>8, <2>9, <2>10, <2>11, <2>12, <2>13, <2>14, StepFrame
<1> QED BY <1>10, <1>17, <1>18, <1>19

(* A channel word that a process has put itself in. *)
LEMMA ChanWith ==
  ASSUME NEW tm, NEW c \in Chans, NEW x \in Ends(c), chan'[c] = Wptr(x),
         Waiting(tm, x, c)' \/ (ch'[x] = c /\ Runs(x, {"io_clear"})'),
         IF x = Writer[c] /\ Extended(c)' THEN io'[x] = R!Idle ELSE Asked(x, c)'
  PROVE  ChanAt(tm, c)'
<1>1. x \in Procs /\ Reader[c] \in Procs /\ \A y \in Ends(c) : y \in Procs
  BY EndFacts
<1>2. chan'[c] # AltPtr(Reader[c]) /\ \A y \in Ends(c) : chan'[c] = Wptr(y) => y = x
  BY <1>1, WordFacts
<1>3. (\E y \in Ends(c) : chan[c] = Wptr(y))'
  BY DEF Ends, Wptr
<1>4. (chan[c] # AltPtr(Reader[c]))'
  BY <1>2 DEF AltPtr
<1>5. ASSUME NEW y \in Ends(c), (chan[c] = Wptr(y))'
      PROVE  /\ Waiting(tm, y, c)' \/ (ch'[y] = c /\ Runs(y, {"io_clear"})')
             /\ IF y = Writer[c] /\ Extended(c)' THEN io'[y] = R!Idle ELSE Asked(y, c)'
  <2>1. y = x
    BY <1>2, <1>5 DEF Wptr
  <2> QED BY <2>1
<1> QED BY <1>3, <1>4, <1>5 DEF ChanAt, Ends

(* The partner that a scheduler has found is held by no other one, and is  *)
(* in no other channel.                                                    *)
LEMMA PartnerFacts ==
  ASSUME NEW tm, IInv(tm), NEW s \in Scheds, pc[s] \in HoldLabels, NEW c \in Chans, c = ChannelOf(s),
         NEW p \in Procs, p = cur[s], NEW q \in Procs, q = Partner(p, c)
  PROVE  /\ q # p /\ p \in Ends(c) /\ q \in Ends(c) /\ Partner(q, c) = p
         /\ Waiting(tm, q, c) /\ HeldBy(tm, s, c, q)
         /\ \A t \in Scheds : t # s /\ pc[t] \in HoldLabels => Partner(cur[t], ChannelOf(t)) # q
         /\ \A d \in Chans : q \in Ends(d) /\ chan[d] = Wptr(q) => d = c
         /\ ~TriggeredOn(q) /\ \A d \in Chans : chan[d] # AltPtr(q)
<1>1. q # p /\ p \in Ends(c) /\ q \in Ends(c) /\ Partner(q, c) = p /\ Waiting(tm, q, c) /\ HeldBy(tm, s, c, q)
  BY HoldChannel, EndFacts DEF HeldBy
<1>2. \A t \in Scheds : cur[t] # q
  BY <1>1 DEF Waiting, Off, On
<1>3. ASSUME NEW t \in Scheds, t # s, pc[t] \in HoldLabels, Partner(cur[t], ChannelOf(t)) = q PROVE FALSE
  <2>1. PICK d \in Chans : d = ChannelOf(t) /\ cur[t] \in Ends(d) /\ HeldBy(tm, t, d, q)
    BY <1>3, HoldChannel
  <2>2. d = c
    BY <1>1, <2>1 DEF HeldBy, Waiting
  <2>3. cur[t] = p
    BY <1>2, <1>3, <2>1, <2>2, <1>1, EndFacts
  <2> QED BY <1>3, <2>3, RunnerFacts DEF On
<1>4. ASSUME NEW d \in Chans, q \in Ends(d), chan[d] = Wptr(q) PROVE d = c
  <2>1. ch[q] = d
    BY <1>4 DEF IInv, ChanAt, Waiting
  <2> QED BY <1>1, <2>1 DEF Waiting
<1>5. iptr[q] = "main" /\ (\A L : ~Runs(q, L))
  BY <1>1, <1>2 DEF Waiting, Runs
<1>6. ~TriggeredOn(q) /\ \A d \in Chans : chan[d] # AltPtr(q)
  BY <1>5, AltingFacts DEF Target, InAlt, AltIn
<1> QED BY <1>1, <1>3, <1>4, <1>6

(* The second half: the data is copied or the partner released.            *)
LEMMA PairStep ==
  ASSUME NEW tm, IInv(tm), NEW s \in Scheds, NEW p \in Procs, cur[s] = p,
         pc[s] \in {"io_copy", "xin_copy", "xend_enqueue"},
         NEW c \in Chans, c = ch[p], NEW q \in Procs, q = Partner(p, c), Types',
         UNCHANGED <<chan, state, temp, guards, style, todo, ch, ready0>>,
         \A t \in Scheds : t # s =>
           pc'[t] = pc[t] /\ cur'[t] = cur[t] /\ word'[t] = word[t] /\ tgt'[t] = tgt[t],
         \A r \in Procs : r \notin {p, q} =>
           queued'[r] = queued[r] /\ io'[r] = io[r] /\ iptr'[r] = iptr[r],
         iptr'[q] = iptr[q], io'[p] = R!Idle, io'[q] = R!Idle,
         \/ pc'[s] = "user" /\ cur'[s] = p /\ queued'[p] = 0
         \/ pc'[s] = "sched" /\ cur'[s] = NotProcess /\ iptr'[p] = "main",
         IF pc[s] = "xin_copy" THEN queued'[q] = 0 /\ iptr'[p] = "xend" ELSE iptr'[p] = "main"
  PROVE  IInv(tm)'
<1>1. pc[s] \in HoldLabels /\ c = ChannelOf(s)
  BY DEF HoldLabels, ChannelOf
<1>2. /\ q # p /\ p \in Ends(c) /\ q \in Ends(c) /\ Partner(q, c) = p
      /\ Waiting(tm, q, c) /\ HeldBy(tm, s, c, q)
      /\ \A t \in Scheds : t # s /\ pc[t] \in HoldLabels => Partner(cur[t], ChannelOf(t)) # q
      /\ \A d \in Chans : q \in Ends(d) /\ chan[d] = Wptr(q) => d = c
      /\ ~TriggeredOn(q) /\ \A d \in Chans : chan[d] # AltPtr(q)
  BY <1>1, PartnerFacts
<1>3. Types /\ RunAt(s) /\ FlowAt(tm, p) /\ FlowAt(tm, q) /\ ChanAt(tm, c)
  BY DEF IInv
<1>4. iptr[p] = IF pc[s] = "io_copy" THEN "main" ELSE "xend"
  BY <1>3 DEF RunAt, IoLabels, XendLabels
<1>5. temp[p] = Junk /\ temp[q] = Junk
  BY <1>2, <1>3, <1>4 DEF FlowAt, SelectedAt, Waiting
<1>6. /\ ~Off(p) /\ queued[p] = 0 /\ \A t \in Scheds : On(t, p) => t = s
      /\ \A L : Runs(p, L) <=> pc[s] \in L
      /\ \A d \in Chans : p \in Ends(d) => chan[d] # Wptr(p)
      /\ \A t \in Scheds : t # s /\ pc[t] \in HoldLabels => Partner(cur[t], ChannelOf(t)) # p
      /\ tm.refs[p] = 0 /\ tm.refs[q] = 0
  <2>1. tm.refs[p] = 0
    BY <1>4, RunnerFacts DEF InAlt
  <2>2. tm.refs[q] = 0
    BY <1>2 DEF IInv, FlowAt, CountAt, Waiting, InAlt
  <2> QED BY <2>1, <2>2, RunnerFacts
<1>7. ~TriggeredOn(p) /\ \A d \in Chans : chan[d] # AltPtr(p)
  BY <1>4, <1>6, AltingFacts DEF Target, InAlt, AltIn
<1>8. pc[s] \notin {"trigger", "trigger_enqueue", "walk_trigger", "walk_enqueue"} /\ pc'[s] \in {"user", "sched"}
  OBVIOUS
<1>9. \A t \in Scheds : ~On(t, q) /\ ~On(t, q)'
  <2>1. \A t \in Scheds : ~On(t, q)
    BY <1>2 DEF Waiting, Off
  <2>2. ~On(s, q)'
    BY <1>2, <1>8, NotProcessAssumption DEF On
  <2> QED BY <2>1, <2>2 DEF On
<1>10. /\ Touch(s, {p, q})
       /\ \A t \in Scheds : t # s => cur[t] \notin {p, q}
  <2>1. \A t \in Scheds : t # s => cur[t] \notin {p, q}
    BY <1>6, <1>9 DEF On
  <2>2. \A r \in Procs : r \notin {p, q} => ~On(s, r) /\ ~On(s, r)'
    BY <1>8, NotProcessAssumption DEF On
  <2> QED BY <2>1, <2>2 DEF Touch
<1>11. \A t \in Scheds : t # s => ~On(t, p)'
  BY <1>6 DEF On
<1>12. Unheld(s, {p, q})
  BY <1>2, <1>6 DEF Unheld
<1>13. RunAt(s)' /\ HoldAt(tm, s)' /\ TriggerAt(s)'
  <2>1. RunAt(s)'
    BY <1>8, NotProcessAssumption
       DEF RunAt, IdleLabels, IoLabels, XableLabels, XendLabels, EnbcLabels, EnbLabels, AltwtLabels, DiscLabels, DistLabels
  <2> QED BY <1>8, <2>1 DEF HoldAt, HoldLabels, TriggerAt
<1>14. OnceAt(p)' /\ OnceAt(q)'
  <2>1. OnceAt(q)'
    BY <1>9 DEF OnceAt
  <2>2. OnceAt(p)'
    BY <1>8, <1>11, NotProcessAssumption DEF OnceAt, On
  <2> QED BY <2>1, <2>2
<1>15. IoAt(p)' /\ IoAt(q)' /\ TinAt(tm, p)' /\ TinAt(tm, q)'
  BY <1>2, RunnerFacts DEF IoAt, TinAt, Waiting
<1>16. \A L : Runs(p, L)' => pc'[s] \in L
  BY <1>11 DEF Runs, On
<1>17. FlowAt(tm, q)'
  <2>1. \A L : ~Runs(q, L)'
    BY <1>9 DEF Runs, On
  <2>2. iptr'[q] = "main" /\ temp'[q] = Junk
    BY <1>2, <1>5 DEF Waiting
  <2> QED BY <1>6, <2>1, <2>2, MainFlow
<1>18. pc[s] = "xin_copy" => /\ pc'[s] = "user" /\ p = Reader[c] /\ q = Writer[c] /\ chan[c] = Wptr(q)
                             /\ Runs(p, {"user"})'
  <2> SUFFICES ASSUME pc[s] = "xin_copy"
               PROVE  /\ pc'[s] = "user" /\ p = Reader[c] /\ q = Writer[c] /\ chan[c] = Wptr(q)
                      /\ Runs(p, {"user"})'
    OBVIOUS
  <2>1. p = Reader[c] /\ chan[c] = Wptr(q)
    BY <1>2 DEF HeldBy, IoLabels
  <2>2. q = Writer[c]
    BY <1>2, <2>1, EndFacts
  <2>3. pc'[s] = "user" /\ cur'[s] = p
    OBVIOUS
  <2> QED BY <2>1, <2>2, <2>3 DEF Runs
<1>19. FlowAt(tm, p)'
  <2>1. ~Runs(p, {"altwt_clear"})' /\ ~Runs(p, {"altend_dec"})'
    BY <1>8, <1>16
  <2>2. CASE pc[s] = "xin_copy"
    <3>1. Ready(ch[p])' /\ Reader[ch'[p]] = p
      BY <1>18, <2>2 DEF Ready
    <3>2. \E t \in Scheds : cur'[t] = p
      BY <1>18, <2>2 DEF Runs
    <3> QED BY <1>5, <1>6, <2>1, <2>2, <3>1, <3>2, XendFlow
  <2>3. CASE pc[s] # "xin_copy"
    BY <1>5, <1>6, <2>1, <2>3, MainFlow
  <2> QED BY <2>2, <2>3
<1>20. ASSUME NEW d \in Chans PROVE ChanAt(tm, d)' \/ (chan'[d] = chan[d] /\ Stays(d, {p, q}))
  <2>1. CASE pc[s] = "xin_copy" /\ d = c
    <3>1. Waiting(tm, q, c)'
      BY <1>2, <1>9, <2>1 DEF Waiting, Off
    <3>2. Extended(c)'
      BY <1>18, <2>1 DEF Extended, Transferred
    <3>3. ChanAt(tm, c)'
      BY <1>2, <1>18, <2>1, <3>1, <3>2, ChanWith
    <3> QED BY <2>1, <3>3
  <2>2. CASE ~(pc[s] = "xin_copy" /\ d = c)
    <3>1. \A x \in Ends(d) : x \in {p, q} => chan[d] # Wptr(x)
      <4>1. pc[s] # "xin_copy" => chan[c] = Empty
        BY <1>2 DEF HeldBy
      <4>2. chan[d] = Wptr(q) => q \notin Ends(d)
        BY <1>2, <2>2, <4>1, WordFacts
      <4> QED BY <1>6, <4>2
    <3>2. ASSUME Reader[d] \in {p, q}
          PROVE  chan[d] # AltPtr(Reader[d]) /\ ~Extended(d) /\ ~Extended(d)'
      <4>1. chan[d] # AltPtr(Reader[d])
        BY <1>2, <1>7, <3>2
      <4>2. CASE Reader[d] = q
        <5>1. \A L : ~Runs(q, L) /\ ~Runs(q, L)'
          BY <1>9 DEF Runs, On
        <5> QED BY <4>1, <4>2, <5>1 DEF Extended, Transferred
      <4>3. CASE Reader[d] = p
        <5>1. ~Transferred(p)
          BY <1>6 DEF Transferred
        <5>2. ~Extended(d)'
          <6>1. CASE pc[s] = "xin_copy"
            BY <2>2, <4>3, <6>1 DEF Extended
          <6>2. CASE pc[s] # "xin_copy"
            BY <4>3, <6>2 DEF Extended, Transferred
          <6> QED BY <6>1, <6>2
        <5> QED BY <4>1, <4>3, <5>1, <5>2 DEF Extended
      <4> QED BY <3>2, <4>2, <4>3
    <3>3. Stays(d, {p, q})
      BY <3>1, <3>2 DEF Stays
    <3> QED BY <3>3
  <2> QED BY <2>1, <2>2
<1>21. \A r \in Procs : r \notin {p, q} => Undisturbed(r)
  BY <1>8 DEF Undisturbed
<1>22. ~(\E t \in Scheds : t # s /\ pc[t] \in {"trigger", "walk_trigger"} /\ tgt[t] \in {p, q})
  BY <1>2, <1>7 DEF TriggeredOn
<1> QED BY <1>10, <1>12, <1>13, <1>14, <1>15, <1>17, <1>19, <1>20, <1>21, <1>22, StepFrame

(* An empty channel says nothing. *)
LEMMA ChanEmpty ==
  ASSUME NEW tm, NEW c \in Chans, chan'[c] = Empty
  PROVE  ChanAt(tm, c)'
<1>1. /\ \A x \in Ends(c) : x \in Procs
      /\ Reader[c] \in Procs
  BY EndFacts
<1>2. \A x \in Procs : Empty # Wptr(x) /\ Empty # AltPtr(x)
  BY WordFacts
<1>3. (chan[c] = Empty)'
  BY DEF Empty
<1>4. \A x \in Ends(c) : (chan[c] # Wptr(x))'
  BY <1>1, <1>2 DEF Wptr
<1>5. (chan[c] # AltPtr(Reader[c]))'
  BY <1>1, <1>2 DEF AltPtr
<1> QED BY <1>3, <1>4, <1>5 DEF ChanAt, Ends

(* A channel word that a process has put its ALT pointer in. *)
LEMMA ChanAlt ==
  ASSUME NEW tm, NEW c \in Chans, chan'[c] = AltPtr(Reader[c]), AltIn(Reader[c], c)'
  PROVE  ChanAt(tm, c)'
<1>1. /\ \A x \in Ends(c) : x \in Procs
      /\ Reader[c] \in Procs
  BY EndFacts
<1>2. \A x \in Ends(c) : (chan[c] # Wptr(x))'
  BY <1>1, WordFacts DEF Wptr
<1>3. (chan[c] = AltPtr(Reader[c]))'
  BY DEF AltPtr
<1> QED BY <1>2, <1>3 DEF ChanAt, Ends

(* The channel word is cleared once the partner is known. *)
LEMMA IoClearStep ==
  ASSUME NEW tm, IInv(tm), NEW s \in Scheds, NEW p \in Procs, IoClear(s, p)
  PROVE  IInv(tm)'
<1>1. cur[s] = p /\ pc[s] = "io_clear" /\ Types
  BY DEF IoClear, InKernel, IInv
<1>2. PICK c \in Chans : c = ch[p]
  BY <1>1 DEF IInv, RunAt, IoLabels
<1>3. iptr[p] = "main" /\ Asked(p, c) /\ p \in Ends(c)
  BY <1>1, <1>2 DEF IInv, RunAt, IoLabels
<1>4. /\ UNCHANGED <<queued, state, temp, iptr, guards, style, todo, ch, word, tgt, io, ready0, cur>>
      /\ chan' = [chan EXCEPT ![c] = Empty] /\ pc' = [pc EXCEPT ![s] = "io_copy"]
  BY <1>2 DEF IoClear, SetChan, Goto, procVars, altVars, localVars, histVars
<1>5. Types'
  <2>1. chan' \in [Chans -> ChanWord] /\ pc' \in [Scheds -> PcLabels]
    BY <1>1, <1>4, WordFacts DEF Types, PcLabels, IoLabels
  <2> QED BY <1>1, <1>4, <2>1 DEF Types
<1>6. /\ pc'[s] = "io_copy" /\ cur'[s] = p /\ chan'[c] = Empty
      /\ (\A d \in Chans : d # c => chan'[d] = chan[d]) /\ \A t \in Scheds : t # s => pc'[t] = pc[t]
  BY <1>1, <1>4 DEF Types
<1>7. Touch(s, {p})
  <2>1. Alone(s, p)
    BY <1>4, <1>6 DEF Alone
  <2> QED BY <1>1, <2>1, AloneTouch
<1>8. PICK q \in Procs : q = Partner(p, c) /\ q # p /\ q \in Ends(c)
  BY <1>3, EndFacts
<1>9. HeldBy(tm, s, c, q) /\ queued[p] = 0
  BY <1>1, <1>2, <1>8, HoldChannel, RunnerFacts DEF ChannelOf, HoldLabels
<1>10. Waiting(tm, q, c) /\ Asked(q, c) /\ word[s] = Wptr(q) /\ chan[c] \in {Wptr(p), Wptr(q)}
  BY <1>1, <1>9 DEF HeldBy
<1>11. \A L : Runs(p, L)' <=> pc'[s] \in L
  BY <1>1, <1>6, <1>7, RunnerNext
<1>12. /\ ~TriggeredOn(p) /\ \A d \in Chans : chan[d] # AltPtr(p)
       /\ ~Transferred(p) /\ ~Transferred(p)'
  <2>1. ~Off(p) /\ \A L : Runs(p, L) <=> pc[s] \in L
    BY <1>1, RunnerFacts
  <2> QED BY <1>1, <1>3, <1>4, <2>1, AltingFacts DEF Target, InAlt, AltIn, Transferred
<1>13. FlowAt(tm, p)'
  <2>1. temp[p] = Junk
    BY <1>3 DEF IInv, FlowAt, SelectedAt
  <2>2. tm.refs[p] = 0
    BY <1>1, <1>3, RunnerFacts DEF InAlt
  <2> QED BY <1>3, <1>4, <1>6, <1>11, <2>1, <2>2, MainFlow
<1>14. Moved(tm, p)
  <2>1. ChanAt(tm, c)' /\ \A r \in Procs : Empty # AltPtr(r)
    BY <1>6, ChanEmpty, WordFacts
  <2>2. Reader[c] # p => iptr[Reader[c]] = "main"
    BY <1>3, <1>8, <1>10, EndFacts DEF Waiting
  <2> QED BY <1>3, <1>6, <2>1, <2>2 DEF Moved
<1>15. Asked(p, c)'
  BY <1>3, <1>4 DEF Asked
<1>16. RunAt(s)'
  BY <1>2, <1>3, <1>4, <1>6, <1>15, NotProcessAssumption
     DEF RunAt, IdleLabels, IoLabels, XableLabels, XendLabels, EnbcLabels, EnbLabels, AltwtLabels, DiscLabels, DistLabels
<1>17. HoldAt(tm, s)'
  <2>1. Waiting(tm, q, c)' /\ Asked(q, c)'
    BY <1>7, <1>8, <1>10, PlaceFrame
  <2>2. (ChannelOf(s) = c)' /\ (Partner(cur[s], c) = q)'
    BY <1>2, <1>4, <1>6, <1>8 DEF ChannelOf, Partner
  <2>3. HeldBy(tm, s, c, q)'
    BY <1>4, <1>6, <1>10, <2>1 DEF HeldBy, IoLabels, Wptr, Empty
  <2> QED BY <2>2, <2>3 DEF HoldAt
<1>18. IoAt(p)'
  BY <1>6, <1>11 DEF IoAt, IoLabels
<1>19. chan'[c] # chan[c]
  BY <1>6, <1>8, <1>10, WordFacts
<1> QED BY <1>1, <1>2, <1>4, <1>5, <1>6, <1>7, <1>9, <1>12, <1>13, <1>14, <1>16, <1>17, <1>18, <1>19, OwnStep

(* The copy makes the partner runnable, and sometimes the caller too. *)
LEMMA IoCopyStep ==
  ASSUME NEW tm, IInv(tm), NEW s \in Scheds, NEW p \in Procs, IoCopy(s, p)
  PROVE  IInv(tm)'
<1>1. cur[s] = p /\ pc[s] = "io_copy" /\ Types
  BY DEF IoCopy, InKernel, IInv
<1>2. PICK c \in Chans : c = ch[p]
  BY <1>1 DEF IInv, RunAt, IoLabels
<1>3. iptr[p] = "main" /\ p \in Ends(c)
  BY <1>1, <1>2 DEF IInv, RunAt, IoLabels
<1>4. PICK q \in Procs : q = Partner(p, c)
  BY <1>3, EndFacts
<1>5. q # p /\ HeldBy(tm, s, c, q)
  BY <1>1, <1>2, <1>4, PartnerFacts DEF ChannelOf, HoldLabels
<1>6. word[s].p = q /\ queued[q] = 0 /\ queued[p] = 0
  BY <1>1, <1>5, WordFacts, RunnerFacts DEF HeldBy, Waiting, Off
<1>7. /\ UNCHANGED <<chan, state, temp, iptr, guards, style, todo, ch, ready0>>
      /\ io' = [io EXCEPT ![p] = R!Idle, ![q] = R!Idle]
      /\ word' = [word EXCEPT ![s] = Empty] /\ tgt' = [tgt EXCEPT ![s] = NotProcess]
  BY <1>6 DEF IoCopy, Copied, Forget, procVars, altVars
<1>8. \/ /\ queued' = [queued EXCEPT ![q] = @ + 1] /\ pc' = [pc EXCEPT ![s] = "user"] /\ cur' = cur
      \/ /\ queued' = [queued EXCEPT ![q] = @ + 1, ![p] = @ + 1]
         /\ pc' = [pc EXCEPT ![s] = "sched"] /\ cur' = [cur EXCEPT ![s] = NotProcess]
  BY <1>6 DEF IoCopy, EnqueueProcess, Goto, KernelScheduler
<1>9. R!Idle \in Requests
  BY DEF Requests
<1>10. /\ queued' \in [Procs -> {0, 1}] /\ \A r \in Procs : r \notin {p, q} => queued'[r] = queued[r]
       /\ pc'[s] = "user" => queued'[p] = 0
  <2>1. CASE queued' = [queued EXCEPT ![q] = @ + 1]
    BY <1>1, <1>5, <1>6, <2>1 DEF Types
  <2>2. CASE queued' = [queued EXCEPT ![q] = @ + 1, ![p] = @ + 1] /\ pc' = [pc EXCEPT ![s] = "sched"]
    <3>1. queued' = [queued EXCEPT ![q] = 1, ![p] = 1]
      BY <1>1, <1>5, <1>6, <2>2 DEF Types
    <3>2. pc'[s] = "sched"
      BY <1>1, <2>2 DEF Types
    <3> QED BY <1>1, <3>1, <3>2 DEF Types
  <2> QED BY <1>8, <2>1, <2>2
<1>11. Types'
  <2>1. pc' \in [Scheds -> PcLabels] /\ cur' \in [Scheds -> Procs \cup {NotProcess}]
    BY <1>1, <1>8 DEF Types, PcLabels, IdleLabels
  <2>2. io' \in [Procs -> Requests]
    BY <1>1, <1>7, <1>9 DEF Types
  <2>3. word' \in [Scheds -> ChanWord] /\ tgt' \in [Scheds -> Procs \cup {NotProcess}]
    BY <1>1, <1>7, WordFacts DEF Types
  <2> QED BY <1>1, <1>7, <1>10, <2>1, <2>2, <2>3 DEF Types
<1>12. /\ io'[p] = R!Idle /\ io'[q] = R!Idle
       /\ \A r \in Procs : r \notin {p, q} => io'[r] = io[r]
  BY <1>1, <1>7 DEF Types
<1>13. \A t \in Scheds : t # s =>
         pc'[t] = pc[t] /\ cur'[t] = cur[t] /\ word'[t] = word[t] /\ tgt'[t] = tgt[t]
  BY <1>1, <1>7, <1>8 DEF Types
<1>14. \/ pc'[s] = "user" /\ cur'[s] = p /\ queued'[p] = 0
       \/ pc'[s] = "sched" /\ cur'[s] = NotProcess
  BY <1>1, <1>8, <1>10 DEF Types
<1>15. /\ \A r \in Procs : r \notin {p, q} =>
            queued'[r] = queued[r] /\ io'[r] = io[r] /\ iptr'[r] = iptr[r]
       /\ iptr'[q] = iptr[q] /\ iptr'[p] = "main"
  BY <1>3, <1>7, <1>10, <1>12
<1>16. UNCHANGED <<chan, state, temp, guards, style, todo, ch, ready0>>
  BY <1>7
<1> QED BY <1>1, <1>2, <1>4, <1>11, <1>12, <1>13, <1>14, <1>15, <1>16, PairStep

(* The copy of an extended input leaves the writer asleep. *)
LEMMA XinCopyStep ==
  ASSUME NEW tm, IInv(tm), NEW s \in Scheds, NEW p \in Procs, XinCopy(s, p)
  PROVE  IInv(tm)'
<1>1. cur[s] = p /\ pc[s] = "xin_copy" /\ Types
  BY DEF XinCopy, InKernel, IInv
<1>2. PICK c \in Chans : c = ch[p] /\ p \in Ends(c)
  BY <1>1, HoldChannel DEF ChannelOf, HoldLabels
<1>3. iptr[p] = "xend"
  BY <1>1 DEF IInv, RunAt, XendLabels
<1>4. PICK q \in Procs : q = Partner(p, c)
  BY <1>2, EndFacts
<1>5. q # p /\ HeldBy(tm, s, c, q)
  BY <1>1, <1>2, <1>4, PartnerFacts DEF ChannelOf, HoldLabels
<1>6. word[s].p = q /\ queued[q] = 0 /\ queued[p] = 0
  BY <1>1, <1>5, WordFacts, RunnerFacts DEF HeldBy, Waiting, Off
<1>7. /\ UNCHANGED <<chan, state, temp, iptr, guards, style, todo, ch, ready0, queued, cur>>
      /\ io' = [io EXCEPT ![p] = R!Idle, ![q] = R!Idle] /\ pc' = [pc EXCEPT ![s] = "user"]
      /\ word' = [word EXCEPT ![s] = Empty] /\ tgt' = [tgt EXCEPT ![s] = NotProcess]
  BY <1>6 DEF XinCopy, Copied, Forget, Goto, procVars, altVars
<1>8. R!Idle \in Requests
  BY DEF Requests
<1>9. Types'
  <2>1. pc' \in [Scheds -> PcLabels] /\ io' \in [Procs -> Requests]
    BY <1>1, <1>7, <1>8 DEF Types, PcLabels
  <2>2. word' \in [Scheds -> ChanWord] /\ tgt' \in [Scheds -> Procs \cup {NotProcess}]
    BY <1>1, <1>7, WordFacts DEF Types
  <2> QED BY <1>1, <1>7, <2>1, <2>2 DEF Types
<1>10. /\ io'[p] = R!Idle /\ io'[q] = R!Idle
       /\ \A r \in Procs : r \notin {p, q} => io'[r] = io[r]
  BY <1>1, <1>7 DEF Types
<1>11. /\ \A t \in Scheds : t # s =>
            pc'[t] = pc[t] /\ cur'[t] = cur[t] /\ word'[t] = word[t] /\ tgt'[t] = tgt[t]
       /\ pc'[s] = "user" /\ cur'[s] = p
  BY <1>1, <1>7 DEF Types
<1>12. /\ \A r \in Procs : r \notin {p, q} =>
            queued'[r] = queued[r] /\ io'[r] = io[r] /\ iptr'[r] = iptr[r]
       /\ iptr'[q] = iptr[q] /\ iptr'[p] = "xend" /\ queued'[q] = 0 /\ queued'[p] = 0
  BY <1>3, <1>6, <1>7, <1>10
<1>13. UNCHANGED <<chan, state, temp, guards, style, todo, ch, ready0>>
  BY <1>7
<1> QED BY <1>1, <1>2, <1>4, <1>9, <1>10, <1>11, <1>12, <1>13, PairStep

(* X_xend makes the writer runnable. *)
LEMMA XendEnqueueStep ==
  ASSUME NEW tm, IInv(tm), NEW s \in Scheds, NEW p \in Procs, XendEnqueue(s, p)
  PROVE  IInv(tm)'
<1>1. cur[s] = p /\ pc[s] = "xend_enqueue" /\ Types
  BY DEF XendEnqueue, InKernel, IInv
<1>2. PICK c \in Chans : c = ch[p] /\ p \in Ends(c)
  BY <1>1, HoldChannel DEF ChannelOf, HoldLabels
<1>3. iptr[p] = "xend"
  BY <1>1 DEF IInv, RunAt, XendLabels
<1>4. PICK q \in Procs : q = Partner(p, c)
  BY <1>2, EndFacts
<1>5. q # p /\ HeldBy(tm, s, c, q)
  BY <1>1, <1>2, <1>4, PartnerFacts DEF ChannelOf, HoldLabels
<1>6. word[s].p = q /\ queued[q] = 0 /\ queued[p] = 0 /\ io[q] = R!Idle
  BY <1>1, <1>5, WordFacts, RunnerFacts DEF HeldBy, Waiting, Off
<1>7. io[p] = R!Idle
  <2>1. ~Off(p) /\ ~Runs(p, IoLabels \cup {"xin_copy"})
    BY <1>1, RunnerFacts DEF IoLabels
  <2> QED BY <2>1 DEF IInv, IoAt
<1>8. /\ UNCHANGED <<chan, state, temp, guards, style, todo, ch, ready0, io, cur>>
      /\ iptr' = [iptr EXCEPT ![p] = "main"] /\ pc' = [pc EXCEPT ![s] = "user"]
      /\ word' = [word EXCEPT ![s] = Empty] /\ tgt' = [tgt EXCEPT ![s] = NotProcess]
      /\ queued' = [queued EXCEPT ![q] = @ + 1]
  BY <1>6 DEF XendEnqueue, Forget, Goto, SetIptr, EnqueueProcess, altVars, histVars
<1>9. /\ queued' \in [Procs -> {0, 1}] /\ \A r \in Procs : r # q => queued'[r] = queued[r]
  BY <1>1, <1>6, <1>8 DEF Types
<1>10. Types'
  <2>1. pc' \in [Scheds -> PcLabels] /\ iptr' \in [Procs -> Labels \cup {"timed"}]
    BY <1>1, <1>8 DEF Types, PcLabels, Labels
  <2>2. word' \in [Scheds -> ChanWord] /\ tgt' \in [Scheds -> Procs \cup {NotProcess}]
    BY <1>1, <1>8, WordFacts DEF Types
  <2> QED BY <1>1, <1>8, <1>9, <2>1, <2>2 DEF Types
<1>11. iptr'[p] = "main" /\ \A r \in Procs : r # p => iptr'[r] = iptr[r]
  BY <1>1, <1>8 DEF Types
<1>12. /\ \A t \in Scheds : t # s =>
            pc'[t] = pc[t] /\ cur'[t] = cur[t] /\ word'[t] = word[t] /\ tgt'[t] = tgt[t]
       /\ pc'[s] = "user" /\ cur'[s] = p
  BY <1>1, <1>8 DEF Types
<1>13. queued'[p] = 0 /\ UNCHANGED io
  BY <1>5, <1>6, <1>8, <1>9, SMTT(30)
<1> QED BY <1>1, <1>2, <1>4, <1>5, <1>6, <1>7, <1>8, <1>9, <1>10, <1>11, <1>12, <1>13, PairStep

(* X_xend takes the writer out of the channel. *)
LEMMA XendStep ==
  ASSUME NEW tm, IInv(tm), NEW s \in Scheds, NEW p \in Procs, Xend(s, p)
  PROVE  IInv(tm)'
<1>1. cur[s] = p /\ pc[s] = "user" /\ iptr[p] = "xend" /\ Types
  BY DEF Xend, At, IInv
<1>2. ~Off(p) /\ queued[p] = 0 /\ \A L : Runs(p, L) <=> pc[s] \in L
  BY <1>1, RunnerFacts
<1>3. ch[p] \in Chans /\ Reader[ch[p]] = p /\ Ready(ch[p])
  <2>1. ~Runs(p, XableLabels \cup XendLabels)
    BY <1>1, <1>2 DEF XableLabels, XendLabels
  <2> QED BY <1>1, <1>2, <2>1 DEF IInv, FlowAt, XinAt
<1>4. PICK c \in Chans : c = ch[p] /\ p = Reader[c] /\ p \in Ends(c)
  BY <1>3, EndFacts
<1>5. PICK q \in Procs : q = Writer[c] /\ q = Partner(p, c) /\ q # p /\ q \in Ends(c)
                         /\ chan[c] = Wptr(q)
  BY <1>3, <1>4, EndFacts, GuardFacts DEF Ready, Partner
<1>6. Waiting(tm, q, c) /\ io[q] = R!Idle
  <2>1. ~(ch[q] = c /\ Runs(q, {"io_clear"}))
    <3> SUFFICES ASSUME NEW t \in Scheds, cur[t] = q, pc[t] = "io_clear", ch[q] = c PROVE FALSE
      BY DEF Runs
    <3>1. t # s /\ pc[t] \in HoldLabels /\ ChannelOf(t) = c /\ Partner(q, c) = p
      BY <1>1, <1>4, <1>5, EndFacts DEF HoldLabels, ChannelOf
    <3> QED BY <1>1, <3>1, RunnerFacts
  <2>2. Extended(c)
    BY <1>1, <1>2, <1>4 DEF Extended, Transferred
  <2> QED BY <1>5, <2>1, <2>2 DEF IInv, ChanAt
<1>7. /\ UNCHANGED <<queued, state, temp, iptr, guards, style, todo, ch, tgt, io, ready0, cur>>
      /\ chan' = [chan EXCEPT ![c] = Empty] /\ pc' = [pc EXCEPT ![s] = "xend_enqueue"]
      /\ word' = [word EXCEPT ![s] = chan[c]]
  BY <1>4 DEF Xend, SetChan, Goto, procVars, altVars, histVars
<1>8. Types'
  <2>1. chan' \in [Chans -> ChanWord] /\ pc' \in [Scheds -> PcLabels]
    BY <1>1, <1>7, WordFacts DEF Types, PcLabels, XendLabels
  <2>2. word' \in [Scheds -> ChanWord]
    BY <1>1, <1>7 DEF Types
  <2> QED BY <1>1, <1>7, <2>1, <2>2 DEF Types
<1>9. /\ pc'[s] = "xend_enqueue" /\ cur'[s] = p /\ chan'[c] = Empty /\ word'[s] = Wptr(q)
      /\ (\A d \in Chans : d # c => chan'[d] = chan[d])
      /\ \A t \in Scheds : t # s => pc'[t] = pc[t] /\ word'[t] = word[t]
  BY <1>1, <1>5, <1>7 DEF Types
<1>10. Touch(s, {p})
  <2>1. Alone(s, p)
    BY <1>7, <1>9 DEF Alone
  <2> QED BY <1>1, <2>1, AloneTouch
<1>11. \A L : Runs(p, L)' <=> pc'[s] \in L
  BY <1>1, <1>9, <1>10, RunnerNext
<1>12. ~TriggeredOn(p) /\ (\A d \in Chans : chan[d] # AltPtr(p)) /\ io[p] = R!Idle
  BY <1>1, QuietUser
<1>13. FlowAt(tm, p)'
  <2>1. temp[p] = Junk
    BY <1>1 DEF IInv, FlowAt, SelectedAt
  <2>2. /\ Runs(p, XableLabels \cup XendLabels)' /\ ~Runs(p, {"altwt_clear"})'
        /\ ~Runs(p, {"altend_dec"})' /\ \E t \in Scheds : cur'[t] = p
    BY <1>9, <1>11 DEF XendLabels
  <2>3. tm.refs[p] = 0
    BY <1>1, RunnerFacts DEF InAlt
  <2> QED BY <1>1, <1>3, <1>7, <2>1, <2>2, <2>3, XendFlow
<1>14. Moved(tm, p)
  <2>1. ChanAt(tm, c)' /\ \A r \in Procs : Empty # AltPtr(r)
    BY <1>9, ChanEmpty, WordFacts
  <2> QED BY <1>4, <1>9, <2>1 DEF Moved
<1>15. RunAt(s)'
  BY <1>1, <1>7, <1>9, NotProcessAssumption
     DEF RunAt, IdleLabels, IoLabels, XableLabels, XendLabels, EnbcLabels, EnbLabels, AltwtLabels, DiscLabels, DistLabels
<1>16. HoldAt(tm, s)'
  <2>1. Waiting(tm, q, c)'
    BY <1>5, <1>6, <1>10, PlaceFrame
  <2>2. (ChannelOf(s) = c)' /\ (Partner(cur[s], c) = q)'
    BY <1>4, <1>5, <1>7, <1>9 DEF ChannelOf, Partner
  <2>3. HeldBy(tm, s, c, q)'
    BY <1>4, <1>6, <1>7, <1>9, <2>1 DEF HeldBy, IoLabels, Wptr, Empty
  <2> QED BY <2>2, <2>3 DEF HoldAt
<1>17. IoAt(p)' /\ ~Transferred(p)'
  BY <1>7, <1>9, <1>11, <1>12 DEF IoAt, Transferred
<1>18. chan'[c] # chan[c]
  BY <1>5, <1>9, WordFacts
<1> QED BY <1>1, <1>2, <1>4, <1>7, <1>8, <1>9, <1>10, <1>12, <1>13, <1>14, <1>15, <1>16, <1>17, <1>18, OwnStep

(* Between the two halves of an extended input. *)
LEMMA XinFlow ==
  ASSUME NEW tm, NEW p \in Procs, (iptr[p] = "xin")', (temp[p] = Junk)',
         ~Runs(p, {"altwt_clear"})', ~Runs(p, {"altend_dec"})', tm.refs[p] = 0,
         (ch[p] \in Chans /\ Reader[ch[p]] = p)',
         IF Off(p)' THEN (state[p] = AltState(FALSE, TRUE, FALSE, 1) /\ Refs(p) = 1 /\ ~TriggeredOn(p))'
                    ELSE Runs(p, XableLabels)' \/ Ready(ch[p])'
  PROVE  FlowAt(tm, p)'
<1>1. ListAt(p)'
  BY DEF ListAt, InAlt
<1>2. (state[p] = AltState(FALSE, TRUE, FALSE, 1) => /\ state[p].tag = "alt" /\ state[p].waiting
                                                    /\ state[p].n = 1)'
  BY DEF AltState
<1>3. Runs(p, XableLabels)' => Runs(p, XableLabels \cup XendLabels)'
  BY DEF Runs
<1>4. FlagsAt(p)' /\ XinAt(p)' /\ EnabledAt(p)'
  BY <1>2, <1>3 DEF FlagsAt, XinAt, EnabledAt, InAlt
<1>5. SelectedAt(p)' /\ FirstAt(p)'
  BY DEF SelectedAt, FirstAt, InAlt, Chosen
<1>6. CountAt(tm, p)'
  <2>1. Off(p)' => state'[p].n = 1 /\ Refs(p)' = 1
    <3>1. Off(p)' => state'[p] = AltState(FALSE, TRUE, FALSE, 1) /\ Refs(p)' = 1
      OBVIOUS
    <3>2. AltState(FALSE, TRUE, FALSE, 1).n = 1
      BY DEF AltState
    <3> QED BY <3>1, <3>2
  <2>2. ~InAlt(p)' /\ iptr'[p] # "selected"
    BY DEF InAlt
  <2>3. tm.refs[p] \in Nat /\ ~(tm.refs[p] # 0)
    OBVIOUS
  <2> QED BY <2>1, <2>2, <2>3 DEF CountAt
<1> QED BY <1>1, <1>4, <1>5, <1>6 DEF FlowAt

(* Y_xable goes on if the writer is there already. *)
LEMMA XableStep ==
  ASSUME NEW tm, IInv(tm), NEW s \in Scheds, NEW p \in Procs, NEW c \in Chans, Xable(s, p, c)
  PROVE  IInv(tm)'
<1>1. cur[s] = p /\ pc[s] = "user" /\ iptr[p] \in {"main", "selected"} /\ Types /\ Reader[c] = p
  BY DEF Xable, At, IInv
<1>2. /\ UNCHANGED <<chan, queued, todo, word, tgt, io, cur>>
      /\ ch' = [ch EXCEPT ![p] = c] /\ iptr' = [iptr EXCEPT ![p] = "xin"]
      /\ temp' = [temp EXCEPT ![p] = Junk]
      /\ guards' = [guards EXCEPT ![p] = << >>]
      /\ style' = [style EXCEPT ![p] = "jump"]
      /\ ready0' = [ready0 EXCEPT ![p] = {}]
  BY DEF Xable, ForgetAlt, SetIptr, Goto, localVars
<1>3. IF chan[c] = Empty \/ chan[c].alt
        THEN /\ state' = [state EXCEPT ![p] = AltState(FALSE, TRUE, FALSE, 1)]
             /\ pc' = [pc EXCEPT ![s] = "xable_swap"]
        ELSE UNCHANGED <<state, pc>>
  BY DEF Xable, Goto, SetState
<1>4. Types'
  <2>1. pc' \in [Scheds -> PcLabels]
    BY <1>1, <1>3, ZenonT(40) DEF Types, PcLabels, XableLabels
  <2>2. state' \in [Procs -> StateWords]
    <3>1. AltState(FALSE, TRUE, FALSE, 1) \in StateWords
      BY DEF AltState, StateWords
    <3>2. state' = state \/ state' = [state EXCEPT ![p] = AltState(FALSE, TRUE, FALSE, 1)]
      BY <1>3
    <3>3. state \in [Procs -> StateWords]
      BY <1>1 DEF Types
    <3> QED BY <3>1, <3>2, <3>3
  <2>3. iptr' \in [Procs -> Labels \cup {"timed"}] /\ ch' \in [Procs -> Chans \cup {None}]
    BY <1>1, <1>2 DEF Types, Labels
  <2>4. temp' \in [Procs -> Chans \cup Timers \cup {Skip, None, Junk}] /\ style' \in [Procs -> Styles]
    BY <1>1, <1>2 DEF Types, Styles
  <2>5. guards' \in [Procs -> Seq(Chans \cup Timers \cup {Skip})]
    BY <1>1, <1>2 DEF Types
  <2>6. ready0' \in [Procs -> SUBSET (Chans \cup {Skip})]
    BY <1>1, <1>2 DEF Types
  <2> QED BY <1>1, <1>2, <2>1, <2>2, <2>3, <2>4, <2>5, <2>6 DEF Types
<1>5. /\ ch'[p] = c /\ iptr'[p] = "xin" /\ temp'[p] = Junk /\ cur'[s] = p
      /\ \A r \in Procs : r # p => /\ temp'[r] = temp[r] /\ iptr'[r] = iptr[r] /\ guards'[r] = guards[r]
                                  /\ style'[r] = style[r] /\ ch'[r] = ch[r] /\ ready0'[r] = ready0[r]
  BY <1>1, <1>2 DEF Types
<1>6. /\ \A t \in Scheds : t # s => pc'[t] = pc[t]
      /\ \A r \in Procs : r # p => state'[r] = state[r]
      /\ pc'[s] \in {"user", "xable_swap"}
  BY <1>1, <1>3 DEF Types
<1>7. Touch(s, {p})
  <2>1. Alone(s, p)
    BY <1>2, <1>5, <1>6 DEF Alone
  <2> QED BY <1>1, <2>1, AloneTouch
<1>8. ~Off(p)' /\ \A L : Runs(p, L)' <=> pc'[s] \in L
  BY <1>1, <1>5, <1>6, <1>7, RunnerNext
<1>9. ~TriggeredOn(p) /\ (\A d \in Chans : chan[d] # AltPtr(p)) /\ io[p] = R!Idle /\ queued[p] = 0
      /\ tm.refs[p] = 0
  BY <1>1, QuietUser, RunnerFacts DEF InAlt
<1>10. \/ chan[c] = Empty
       \/ chan[c] = Wptr(Writer[c])
  BY <1>1, ChanSeen, EndFacts DEF Partner
<1>11. CASE chan[c] = Empty
  <2>1. pc'[s] = "xable_swap" /\ state'[p] = AltState(FALSE, TRUE, FALSE, 1)
    BY <1>1, <1>3, <1>11 DEF Types
  <2>2. RunAt(s)'
    <3>1. (state[cur[s]] = AltState(FALSE, TRUE, FALSE, 1))'
      BY <1>5, <2>1 DEF AltState
    <3> QED BY <1>5, <2>1, <3>1, NotProcessAssumption
            DEF RunAt, IdleLabels, IoLabels, XableLabels, XendLabels, EnbcLabels, EnbLabels, AltwtLabels,
                DiscLabels, DistLabels
  <2>3. FlowAt(tm, p)'
    <3>1. Runs(p, XableLabels)' /\ ~Runs(p, {"altwt_clear"})' /\ ~Runs(p, {"altend_dec"})'
      BY <1>8, <2>1 DEF XableLabels
    <3> QED BY <1>1, <1>5, <1>8, <1>9, <3>1, XinFlow
  <2>4. HoldAt(tm, s)' /\ IoAt(p)' /\ ~Transferred(p) /\ ~Transferred(p)'
    <3>1. HoldAt(tm, s)' /\ IoAt(p)'
      BY <1>2, <1>9, <2>1 DEF HoldAt, HoldLabels, IoAt
    <3>2. ~Transferred(p) /\ ~Transferred(p)'
      BY <1>1, <1>5 DEF Transferred
    <3> QED BY <3>1, <3>2
  <2> QED BY <1>1, <1>2, <1>4, <1>5, <1>7, <1>9, <2>1, <2>2, <2>3, <2>4, QuietStep
<1>12. CASE chan[c] = Wptr(Writer[c])
  <2>1. chan[c] # Empty /\ ~chan[c].alt
    BY <1>12, EndFacts, WordFacts
  <2>2. pc'[s] = "user" /\ state'[p] = state[p]
    BY <1>1, <1>3, <2>1 DEF Types
  <2>3. RunAt(s)'
    BY <1>5, <2>2, NotProcessAssumption
       DEF RunAt, IdleLabels, IoLabels, XableLabels, XendLabels, EnbcLabels, EnbLabels, AltwtLabels,
           DiscLabels, DistLabels
  <2>4. FlowAt(tm, p)'
    <3>1. ~Runs(p, {"altwt_clear"})' /\ ~Runs(p, {"altend_dec"})'
      BY <1>8, <2>2
    <3>2. Ready(ch[p])'
      BY <1>2, <1>5, <1>12 DEF Ready, Wptr
    <3> QED BY <1>1, <1>5, <1>8, <1>9, <3>1, <3>2, XinFlow
  <2>5. HoldAt(tm, s)' /\ IoAt(p)' /\ ~Transferred(p) /\ ~Transferred(p)'
    <3>1. HoldAt(tm, s)' /\ IoAt(p)'
      BY <1>2, <1>9, <2>2 DEF HoldAt, HoldLabels, IoAt
    <3>2. ~Transferred(p) /\ ~Transferred(p)'
      BY <1>1, <1>5 DEF Transferred
    <3> QED BY <3>1, <3>2
  <2> QED BY <1>1, <1>2, <1>4, <1>5, <1>7, <1>9, <2>2, <2>3, <2>4, <2>5, QuietStep
<1> QED BY <1>10, <1>11, <1>12

(* The swap of Y_xable: asleep as an ALT on one channel, or back to the    *)
(* writer that came in between.                                            *)
LEMMA XableSwapStep ==
  ASSUME NEW tm, IInv(tm), NEW s \in Scheds, NEW p \in Procs, XableSwap(s, p)
  PROVE  IInv(tm)'
<1>1. cur[s] = p /\ pc[s] = "xable_swap" /\ Types
  BY DEF XableSwap, InKernel, IInv
<1>2. iptr[p] = "xin" /\ state[p] = AltState(FALSE, TRUE, FALSE, 1)
  BY <1>1 DEF IInv, RunAt, XableLabels
<1>3. PICK c \in Chans : c = ch[p] /\ p = Reader[c] /\ p \in Ends(c)
  BY <1>2, EndFacts DEF IInv, FlowAt, XinAt
<1>4. PICK q \in Procs : q = Writer[c] /\ q = Partner(p, c) /\ q # p /\ q \in Ends(c)
  BY <1>3, EndFacts DEF Partner
<1>5. chan[c] = Empty \/ (chan[c] = Wptr(q) /\ Waiting(tm, q, c) /\ Asked(q, c))
  BY <1>1, <1>2, <1>3, <1>4, ChanSeen
<1>6. /\ UNCHANGED <<queued, state, temp, iptr, guards, style, todo, ch, io, ready0>>
      /\ chan' = [chan EXCEPT ![c] = AltPtr(p)]
      /\ IF chan[c] = Empty
           THEN /\ pc' = [pc EXCEPT ![s] = "sched"] /\ cur' = [cur EXCEPT ![s] = NotProcess]
                /\ UNCHANGED <<tgt, word>>
           ELSE /\ word' = [word EXCEPT ![s] = chan[c]] /\ pc' = [pc EXCEPT ![s] = "xable_restore"]
                /\ UNCHANGED <<tgt, cur>>
  <2>1. chan[c] # Empty => ~chan[c].alt
    BY <1>5, WordFacts
  <2> QED BY <1>3, <2>1 DEF XableSwap, SetChan, SleepInChannel, KernelScheduler, Goto, procVars, altVars,
                            histVars
<1>7. Types'
  <2>1. chan' \in [Chans -> ChanWord] /\ word' \in [Scheds -> ChanWord]
    <3>1. AltPtr(p) \in ChanWord /\ chan \in [Chans -> ChanWord] /\ word \in [Scheds -> ChanWord]
      BY <1>1, WordFacts DEF Types
    <3>2. word' = word \/ word' = [word EXCEPT ![s] = chan[c]]
      BY <1>6
    <3>3. chan' \in [Chans -> ChanWord]
      BY <1>6, <3>1
    <3>4. word' \in [Scheds -> ChanWord]
      BY <3>1, <3>2
    <3> QED BY <3>3, <3>4
  <2>2. pc' \in [Scheds -> PcLabels] /\ cur' \in [Scheds -> Procs \cup {NotProcess}]
    BY <1>1, <1>6 DEF Types, PcLabels, IdleLabels, XableLabels
  <2> QED BY <1>1, <1>6, <2>1, <2>2 DEF Types
<1>8. /\ chan'[c] = AltPtr(p) /\ \A d \in Chans : d # c => chan'[d] = chan[d]
  BY <1>1, <1>6 DEF Types
<1>9. /\ \A t \in Scheds : t # s => pc'[t] = pc[t] /\ cur'[t] = cur[t] /\ word'[t] = word[t]
      /\ pc'[s] \notin {"trigger_enqueue", "walk_enqueue"} /\ cur'[s] \in {p, NotProcess} /\ tgt' = tgt
  BY <1>1, <1>6 DEF Types
<1>10. Touch(s, {p})
  <2>1. Alone(s, p)
    BY <1>6, <1>9 DEF Alone
  <2> QED BY <1>1, <2>1, AloneTouch
<1>11. ~TriggeredOn(p) /\ (\A d \in Chans : chan[d] # AltPtr(p)) /\ queued[p] = 0 /\ io[p] = R!Idle
  <2>1. ~Off(p) /\ queued[p] = 0 /\ (\A L : Runs(p, L) <=> pc[s] \in L)
    BY <1>1, RunnerFacts
  <2>2. io[p] = R!Idle
    BY <1>1, <2>1 DEF IInv, IoAt, IoLabels
  <2> QED BY <1>1, <1>2, <2>1, <2>2, AltingFacts DEF Target, InAlt, AltIn
<1>12. temp[p] = Junk /\ tm.refs[p] = 0
  <2>1. temp[p] = Junk
    BY <1>2 DEF IInv, FlowAt, SelectedAt
  <2>2. tm.refs[p] = 0
    BY <1>1, <1>2, RunnerFacts DEF InAlt
  <2> QED BY <2>1, <2>2
<1>13. ChanAt(tm, c)' => Moved(tm, p)
  <2>1. \A r \in Procs : r # p => AltPtr(p) # AltPtr(r)
    BY WordFacts
  <2> QED BY <1>3, <1>8, <2>1 DEF Moved
<1>14. /\ ~Transferred(p) /\ ~Transferred(p)'
       /\ \A d \in Chans : chan'[d] = chan[d] => chan[d] # AltPtr(p)
       /\ chan'[c] # chan[c]
  BY <1>2, <1>6, <1>8, <1>11 DEF Transferred
<1>15. IoAt(p)'
  BY <1>6, <1>11 DEF IoAt
<1>16. CASE chan[c] = Empty
  <2>1. pc'[s] = "sched" /\ cur'[s] = NotProcess
    BY <1>1, <1>6, <1>16 DEF Types
  <2>2. Off(p)' /\ \A L : ~Runs(p, L)'
    BY <1>1, <1>6, <1>10, <1>11, <2>1, RunnerNext, NotProcessAssumption
  <2>3. ChanAt(tm, c)'
    <3>1. AltIn(p, c)'
      BY <1>2, <1>3, <1>6, <2>2 DEF AltIn
    <3> QED BY <1>3, <1>8, <3>1, ChanAlt
  <2>4. Refs(p)' = 1 /\ ~TriggeredOn(p)'
    <3>1. InChans(p)' = {c}
      BY <1>8, <1>11 DEF InChans, AltPtr
    <3>2. Triggers(p)' = {} /\ ~TriggeredOn(p)'
      BY <1>9, <1>11, <2>1 DEF Triggers, TriggeredOn
    <3>3. Cardinality({c}) = 1 /\ Cardinality({}) = 0
      BY FS_Singleton, FS_EmptySet
    <3> QED BY <3>1, <3>2, <3>3 DEF Refs
  <2>5. FlowAt(tm, p)'
    <3>1. (state[p] = AltState(FALSE, TRUE, FALSE, 1))'
      BY <1>2, <1>6 DEF AltState
    <3>2. (ch[p] \in Chans /\ Reader[ch[p]] = p)'
      BY <1>3, <1>6
    <3> QED BY <1>2, <1>6, <1>12, <2>2, <2>4, <3>1, <3>2, XinFlow
  <2>6. RunAt(s)' /\ HoldAt(tm, s)'
    <3>1. RunAt(s)'
      BY <2>1 DEF RunAt, IdleLabels, IoLabels, XableLabels, XendLabels, EnbcLabels, EnbLabels, AltwtLabels,
                  DiscLabels, DistLabels
    <3> QED BY <2>1, <3>1 DEF HoldAt, HoldLabels
  <2> QED BY <1>1, <1>3, <1>7, <1>10, <1>11, <1>13, <1>14, <1>15, <2>1, <2>3, <2>5, <2>6, OwnStep,
             NotProcessAssumption
<1>17. CASE chan[c] = Wptr(q) /\ Waiting(tm, q, c) /\ Asked(q, c)
  <2>1. chan[c] # Empty
    BY <1>17, WordFacts
  <2>2. pc'[s] = "xable_restore" /\ cur'[s] = p /\ word'[s] = Wptr(q)
    BY <1>1, <1>6, <1>17, <2>1 DEF Types
  <2>3. ~Off(p)' /\ \A L : Runs(p, L)' <=> pc'[s] \in L
    BY <1>1, <1>10, <2>2, RunnerNext
  <2>4. ChanAt(tm, c)'
    <3>1. Runs(p, {"xable_restore"})'
      BY <2>2, <2>3
    <3>2. AltIn(p, c)'
      BY <1>2, <1>3, <1>6, <3>1 DEF AltIn
    <3> QED BY <1>3, <1>8, <3>2, ChanAlt
  <2>5. FlowAt(tm, p)'
    <3>1. (ch[p] \in Chans /\ Reader[ch[p]] = p)'
      BY <1>3, <1>6
    <3>2. Runs(p, XableLabels)' /\ ~Runs(p, {"altwt_clear"})' /\ ~Runs(p, {"altend_dec"})'
      BY <2>2, <2>3 DEF XableLabels
    <3> QED BY <1>2, <1>6, <1>12, <2>3, <3>1, <3>2, XinFlow
  <2>6. RunAt(s)'
    BY <1>2, <1>6, <2>2, NotProcessAssumption
       DEF RunAt, IdleLabels, IoLabels, XableLabels, XendLabels, EnbcLabels, EnbLabels, AltwtLabels, DiscLabels, DistLabels
  <2>7. HoldAt(tm, s)'
    <3>1. Waiting(tm, q, c)' /\ Asked(q, c)'
      BY <1>4, <1>10, <1>17, PlaceFrame
    <3>2. (ChannelOf(s) = c)' /\ (Partner(cur[s], c) = q)'
      BY <1>3, <1>4, <1>6, <2>2 DEF ChannelOf, Partner
    <3>3. HeldBy(tm, s, c, q)'
      BY <1>3, <1>8, <2>2, <3>1 DEF HeldBy, IoLabels, Wptr, AltPtr
    <3> QED BY <3>2, <3>3 DEF HoldAt
  <2> QED BY <1>1, <1>3, <1>6, <1>7, <1>10, <1>11, <1>13, <1>14, <1>15, <2>2, <2>4, <2>5, <2>6, <2>7, OwnStep
<1> QED BY <1>5, <1>16, <1>17

(* The writer that Y_xable swapped out is put back. *)
LEMMA XableRestoreStep ==
  ASSUME NEW tm, IInv(tm), NEW s \in Scheds, NEW p \in Procs, XableRestore(s, p)
  PROVE  IInv(tm)'
<1>1. cur[s] = p /\ pc[s] = "xable_restore" /\ Types
  BY DEF XableRestore, InKernel, IInv
<1>2. iptr[p] = "xin"
  BY <1>1 DEF IInv, RunAt, XableLabels
<1>3. PICK c \in Chans : c = ch[p] /\ p = Reader[c] /\ p \in Ends(c)
  BY <1>2, EndFacts DEF IInv, FlowAt, XinAt
<1>4. PICK q \in Procs : q = Writer[c] /\ q = Partner(p, c) /\ q # p /\ q \in Ends(c)
  BY <1>3, EndFacts DEF Partner
<1>5. Waiting(tm, q, c) /\ Asked(q, c) /\ word[s] = Wptr(q) /\ chan[c] = AltPtr(p)
  <2>1. HeldBy(tm, s, c, q)
    BY <1>1, <1>3, <1>4, HoldChannel DEF ChannelOf, HoldLabels
  <2> QED BY <1>1, <2>1 DEF HeldBy
<1>6. /\ UNCHANGED <<queued, state, temp, iptr, guards, style, todo, ch, io, ready0, cur>>
      /\ chan' = [chan EXCEPT ![c] = Wptr(q)] /\ pc' = [pc EXCEPT ![s] = "user"]
      /\ word' = [word EXCEPT ![s] = Empty] /\ tgt' = [tgt EXCEPT ![s] = NotProcess]
  BY <1>3, <1>5 DEF XableRestore, SetChan, Goto, Forget, procVars, altVars, histVars
<1>7. Types'
  <2>1. chan' \in [Chans -> ChanWord] /\ word' \in [Scheds -> ChanWord]
    BY <1>1, <1>6, WordFacts DEF Types
  <2>2. pc' \in [Scheds -> PcLabels] /\ tgt' \in [Scheds -> Procs \cup {NotProcess}]
    BY <1>1, <1>6 DEF Types, PcLabels
  <2> QED BY <1>1, <1>6, <2>1, <2>2 DEF Types
<1>8. /\ chan'[c] = Wptr(q) /\ (\A d \in Chans : d # c => chan'[d] = chan[d])
      /\ \A t \in Scheds : t # s => pc'[t] = pc[t] /\ word'[t] = word[t] /\ tgt'[t] = tgt[t]
      /\ pc'[s] = "user" /\ cur'[s] = p
  BY <1>1, <1>6 DEF Types
<1>9. Touch(s, {p})
  <2>1. Alone(s, p)
    BY <1>6, <1>8 DEF Alone
  <2> QED BY <1>1, <2>1, AloneTouch
<1>10. ~TriggeredOn(p) /\ (\A d \in Chans : d # c => chan[d] # AltPtr(p)) /\ queued[p] = 0 /\ io[p] = R!Idle
  <2>1. ~Off(p) /\ queued[p] = 0 /\ (\A L : Runs(p, L) <=> pc[s] \in L)
    BY <1>1, RunnerFacts
  <2>2. io[p] = R!Idle
    BY <1>1, <2>1 DEF IInv, IoAt, IoLabels
  <2>3. \A d \in Chans : d # c => chan[d] # AltPtr(p)
    BY <1>1, <1>2, <1>3, <2>1, AltingFacts DEF AltIn
  <2> QED BY <1>1, <1>2, <2>1, <2>2, <2>3, AltingFacts DEF Target, InAlt
<1>11. ~Off(p)' /\ \A L : Runs(p, L)' <=> pc'[s] \in L
  BY <1>1, <1>8, <1>9, RunnerNext
<1>12. FlowAt(tm, p)'
  <2>1. temp[p] = Junk
    BY <1>2 DEF IInv, FlowAt, SelectedAt
  <2>2. (ch[p] \in Chans /\ Reader[ch[p]] = p)' /\ Ready(ch[p])'
    BY <1>3, <1>4, <1>6, <1>8 DEF Ready, Wptr
  <2>3. ~Runs(p, {"altwt_clear"})' /\ ~Runs(p, {"altend_dec"})'
    BY <1>8, <1>11
  <2>4. tm.refs[p] = 0
    BY <1>1, <1>2, RunnerFacts DEF InAlt
  <2> QED BY <1>2, <1>6, <1>11, <2>1, <2>2, <2>3, <2>4, XinFlow
<1>13. Moved(tm, p)
  <2>1. Waiting(tm, q, c)' /\ Asked(q, c)'
    BY <1>4, <1>5, <1>9, PlaceFrame
  <2>2. ~Extended(c)'
    BY <1>2, <1>3, <1>6 DEF Extended, Transferred
  <2>3. ChanAt(tm, c)'
    BY <1>4, <1>8, <2>1, <2>2, ChanWith
  <2>4. \A r \in Procs : Wptr(q) # AltPtr(r)
    BY WordFacts
  <2> QED BY <1>3, <1>8, <2>3, <2>4 DEF Moved
<1>14. ~Transferred(p) /\ ~Transferred(p)'
  BY <1>2, <1>6 DEF Transferred
<1>15. RunAt(s)'
  BY <1>8, NotProcessAssumption
     DEF RunAt, IdleLabels, IoLabels, XableLabels, XendLabels, EnbcLabels, EnbLabels, AltwtLabels, DiscLabels, DistLabels
<1>16. HoldAt(tm, s)' /\ IoAt(p)'
  BY <1>6, <1>8, <1>10 DEF HoldAt, HoldLabels, IoAt
<1>17. \A d \in Chans : chan'[d] = chan[d] => chan[d] # AltPtr(p)
  <2>1. chan'[c] # AltPtr(p)
    BY <1>8, WordFacts
  <2> QED BY <1>10, <2>1
<1> QED BY <1>1, <1>6, <1>7, <1>8, <1>9, <1>10, <1>12, <1>13, <1>14, <1>15, <1>16, <1>17, OwnStep

(* OUT, IN and the IN of an extended input. *)
LEMMA CommunicationStep ==
  ASSUME NEW tm, IInv(tm), NEW s \in Scheds, NEW p \in Procs,
         (\E c \in Chans : Output(s, p, c) \/ Input(s, p, c)) \/ Xin(s, p)
  PROVE  IInv(tm)'
<1>1. ASSUME NEW c \in Chans, Output(s, p, c) PROVE IInv(tm)'
  <2>1. /\ cur[s] = p /\ pc[s] = "user" /\ iptr[p] = "main" /\ p \in Ends(c) /\ Dir(p, c) = "out"
        /\ ChanIo(s, p, c, "out", "main")
    BY <1>1 DEF Output, At, Ends, Dir
  <2> QED BY <2>1, ChanIoStep
<1>2. ASSUME NEW c \in Chans, Input(s, p, c) PROVE IInv(tm)'
  <2>1. /\ cur[s] = p /\ pc[s] = "user" /\ iptr[p] \in {"main", "selected"}
        /\ p \in Ends(c) /\ Dir(p, c) = "in" /\ ChanIo(s, p, c, "in", "main")
    BY <1>2, EndFacts DEF Input, At, Ends, Dir
  <2> QED BY <2>1, ChanIoStep
<1>3. ASSUME Xin(s, p) PROVE IInv(tm)'
  <2>1. cur[s] = p /\ pc[s] = "user" /\ iptr[p] = "xin"
    BY <1>3 DEF Xin, At
  <2>2. PICK c \in Chans : c = ch[p] /\ Reader[c] = p
    BY <2>1, QuietUser
  <2>3. p \in Ends(c) /\ Dir(p, c) = "in" /\ ChanIo(s, p, c, "in", "xend")
    BY <1>3, <2>2, EndFacts DEF Xin, Ends, Dir
  <2> QED BY <2>1, <2>2, <2>3, ChanIoStep
<1> QED BY <1>1, <1>2, <1>3

-----------------------------------------------------------------------------
(***************************************************************************)
(* Scheduling.                                                             *)
(***************************************************************************)
(* A process that is put on a run queue, or taken from it.                 *)
LEMMA PlaceStep ==
  ASSUME NEW tm, IInv(tm), NEW s \in Scheds, NEW r \in Procs, Touch(s, {r}), Types',
         UNCHANGED <<chan, state, temp, iptr, guards, style, todo, ch, io, ready0>>,
         ~Off(r), ~Off(r)', \A t \in Scheds : cur[t] # r,
         \A t \in Scheds : cur'[t] = r => pc'[t] = "user",
         OnceAt(r)', pc[s] \notin {"trigger", "walk_trigger"}, pc'[s] \notin {"trigger", "walk_trigger"}, RunAt(s)', HoldAt(tm, s)'
  PROVE  IInv(tm)'
<1>1. Types /\ FlowAt(tm, r) /\ IoAt(r) /\ (\A c \in Chans : ChanAt(tm, c))
  BY DEF IInv
<1>2. /\ \A L : ~Runs(r, L)
      /\ \A L : Runs(r, L)' => "user" \in L
  BY DEF Runs
<1>3. /\ iptr[r] \notin {"enable", "altwt", "altend", "xend"}
      /\ FlagsAt(r)'
  <2>1. FlagsAt(r)
    BY <1>1 DEF FlowAt
  <2>2. iptr[r] \notin {"enable", "altwt", "altend", "xend"}
    BY <2>1 DEF FlagsAt
  <2>3. ~Runs(r, {"altend_dec"})' /\ ~Runs(r, {"altwt_clear"})'
    BY <1>2
  <2> QED BY <2>1, <2>2, <2>3 DEF FlagsAt, InAlt
<1>4. ListAt(r)'
  BY <1>1 DEF FlowAt, ListAt, InAlt, Chosen, Passed
<1>5. \A x \in Procs : \A t \in Scheds : (pc[t] \in {"trigger", "walk_trigger"} /\ tgt[t] = x)' <=> (pc[t] \in {"trigger", "walk_trigger"} /\ tgt[t] = x)
  BY DEF Touch
<1>6. TriggeredOn(r)' <=> TriggeredOn(r)
  BY <1>5 DEF TriggeredOn
<1>7. XinAt(r)'
  <2>1. XinAt(r)
    BY <1>1 DEF FlowAt
  <2>2. iptr[r] \in {"xin", "xend"} => Ready(ch[r])
    BY <1>2, <2>1 DEF XinAt
  <2> QED BY <2>1, <2>2 DEF XinAt, Ready
<1>8. EnabledAt(r)'
  BY <1>3 DEF EnabledAt
<1>9. SelectedAt(r)'
  <2>1. ~Runs(r, {"disc_cas"})' /\ ~Runs(r, {"disc_dec"})'
    BY <1>2
  <2> QED BY <1>1, <1>3, <1>6, <2>1 DEF FlowAt, SelectedAt, Chosen, Ready
<1>10. FirstAt(r)'
  <2>1. FirstAt(r)
    BY <1>1 DEF FlowAt
  <2>2. \A g : Position(r, g)' = Position(r, g)
    BY DEF Position
  <2>3. \A g : Ready(g)' <=> Ready(g)
    BY DEF Ready
  <2> QED BY <2>1, <2>2, <2>3 DEF FirstAt, InAlt, Chosen
<1>11. CountAt(tm, r)'
  <2>1. CountAt(tm, r)
    BY <1>1 DEF FlowAt
  <2>2. Refs(r)' = Refs(r)
    <3>1. InChans(r)' = InChans(r)
      BY DEF InChans
    <3>2. Triggers(r)' = Triggers(r)
      BY <1>5 DEF Triggers
    <3> QED BY <3>1, <3>2 DEF Refs
  <2>3. /\ ~Runs(r, {"disc_dec"})' /\ ~Runs(r, {"disc_dec"})
        /\ ~Runs(r, {"enbc_inc", "enbc_restore"})' /\ ~Runs(r, {"enbc_inc", "enbc_restore"})
        /\ ~Runs(r, {"altend_dec"})' /\ ~Runs(r, {"altend_dec"})
    BY <1>2
  <2> QED BY <2>1, <2>2, <2>3 DEF CountAt, InAlt
<1>12. FlowAt(tm, r)'
  BY <1>3, <1>4, <1>7, <1>8, <1>9, <1>10, <1>11 DEF FlowAt
<1>13. TriggeredOn(r) => Target(r)'
  <2>1. TriggeredOn(r) => InAlt(r)
    BY <1>2, AltingFacts DEF Target
  <2> QED BY <2>1 DEF Target, InAlt
<1>14. IoAt(r)'
  <2>1. io[r] = R!Idle
    BY <1>1, <1>2 DEF IoAt
  <2> QED BY <2>1 DEF IoAt
<1>15. \A c : ~Waiting(tm, r, c)
  BY DEF Waiting
<1>16. Unheld(s, {r})
  <2> SUFFICES ASSUME NEW t \in Scheds, pc[t] \in HoldLabels
               PROVE  Partner(cur[t], ChannelOf(t)) # r
    BY DEF Unheld
  <2> QED BY <1>15, HoldChannel DEF HeldBy
<1>17. \A x \in Procs : x # r => Undisturbed(x)
  BY <1>5 DEF Undisturbed
<1>18. ASSUME NEW d \in Chans PROVE Stays(d, {r})
  <2>1. r \in Ends(d) => chan[d] # Wptr(r)
    BY <1>1, <1>2, <1>15 DEF ChanAt
  <2>2. chan[d] = AltPtr(r) => AltIn(r, d)'
    <3>1. chan[d] = AltPtr(r) => AltIn(r, d)
      BY AltingFacts
    <3>2. AltIn(r, d) => AltIn(r, d)'
      BY <1>2, <1>3 DEF AltIn
    <3> QED BY <3>1, <3>2
  <2>3. Reader[d] = r => ~Extended(d) /\ ~Extended(d)'
    BY <1>3 DEF Extended, Transferred
  <2> QED BY <2>1, <2>2, <2>3 DEF Stays
<1>19. TriggerAt(s)'
  BY DEF TriggerAt
<1>20. (\E t \in Scheds : t # s /\ pc[t] \in {"trigger", "walk_trigger"} /\ tgt[t] = r) => Target(r)'
  BY <1>13 DEF TriggeredOn
<1>21. TinAt(tm, r)'
  BY DEF IInv, TinAt
<1> QED BY <1>12, <1>14, <1>16, <1>17, <1>18, <1>19, <1>20, <1>21, StepFrame

(* A scheduler takes a process from a run queue. *)
LEMMA ResumeStep ==
  ASSUME NEW tm, IInv(tm), NEW s \in Scheds, NEW p \in Procs, Resume(s, p)
  PROVE  IInv(tm)'
<1>1. Types /\ OnceAt(p) /\ RunAt(s)
  BY DEF IInv
<1>2. pc[s] = "sched" /\ cur[s] = NotProcess
  BY <1>1 DEF Resume, Dispatch, RunAt, IdleLabels
<1>3. queued[p] = 1 /\ queued \in [Procs -> {0, 1}]
  BY <1>1 DEF Resume, Dispatch, Types
<1>4. queued' = [queued EXCEPT ![p] = 0]
  BY <1>3 DEF Resume, Dispatch
<1>5. /\ UNCHANGED <<chan, state, temp, iptr, guards, style, todo, ch, word, tgt, io, ready0>>
      /\ cur' = [cur EXCEPT ![s] = p] /\ pc' = [pc EXCEPT ![s] = "user"]
  BY DEF Resume, Dispatch, procVars, altVars, localVars, histVars
<1>6. Types'
  <2>1. pc' \in [Scheds -> PcLabels] /\ cur' \in [Scheds -> Procs \cup {NotProcess}]
    BY <1>1, <1>5 DEF Types, PcLabels
  <2>2. queued' \in [Procs -> {0, 1}]
    BY <1>3, <1>4
  <2> QED BY <1>1, <1>5, <2>1, <2>2 DEF Types
<1>7. /\ pc'[s] = "user" /\ cur'[s] = p /\ \A t \in Scheds : t # s => pc'[t] = pc[t] /\ cur'[t] = cur[t]
      /\ queued'[p] = 0 /\ \A r \in Procs : r # p => queued'[r] = queued[r]
  BY <1>1, <1>3, <1>4, <1>5 DEF Types
<1>8. \A t \in Scheds : ~On(t, p)
  BY <1>1, <1>3 DEF OnceAt
<1>9. \A t \in Scheds : On(t, p)' => t = s
  BY <1>5, <1>7, <1>8 DEF On
<1>10. Touch(s, {p})
  <2>1. \A r \in Procs : r # p => ~On(s, r) /\ ~On(s, r)'
    BY <1>2, <1>7, NotProcessAssumption DEF On
  <2> QED BY <1>5, <1>7, <2>1 DEF Touch
<1>11. ~Off(p) /\ ~Off(p)' /\ OnceAt(p)'
  <2>1. On(s, p)'
    BY <1>7 DEF On
  <2> QED BY <1>3, <1>7, <1>9, <2>1 DEF Off, OnceAt
<1>12. /\ \A t \in Scheds : cur[t] # p
       /\ \A t \in Scheds : cur'[t] = p => pc'[t] = "user"
  BY <1>7, <1>8, <1>9 DEF On
<1>13. RunAt(s)' /\ HoldAt(tm, s)'
  <2>1. RunAt(s)'
    BY <1>7, NotProcessAssumption
       DEF RunAt, IdleLabels, IoLabels, XableLabels, XendLabels, EnbcLabels, EnbLabels, AltwtLabels, DiscLabels, DistLabels
  <2> QED BY <1>7, <2>1 DEF HoldAt, HoldLabels
<1> QED BY <1>2, <1>5, <1>6, <1>7, <1>10, <1>11, <1>12, <1>13, PlaceStep

(* The end of trigger_alt_guard: the process is put on a run queue. *)
LEMMA EnqueueStep ==
  ASSUME NEW tm, IInv(tm), NEW s \in Scheds, pc[s] \in {"trigger_enqueue", "walk_enqueue"},
         NEW r \in Procs, r = tgt[s], NEW l \in {"sched", "walk_clean"},
         UNCHANGED <<chan, state, temp, iptr, guards, style, todo, ch, io, ready0>>,
         queued' = [queued EXCEPT ![r] = @ + 1],
         cur' = [cur EXCEPT ![s] = NotProcess], pc' = [pc EXCEPT ![s] = l],
         word' = [word EXCEPT ![s] = Empty], tgt' = [tgt EXCEPT ![s] = NotProcess]
  PROVE  IInv(tm)'
<1>1. Types /\ RunAt(s) /\ pc[s] \in {"trigger_enqueue", "walk_enqueue"}
  BY DEF IInv
<1>2. r = tgt[s]
  OBVIOUS
<1>3. cur[s] = NotProcess
  BY <1>1 DEF RunAt, IdleLabels
<1>4. On(s, r) /\ OnceAt(r)
  BY <1>1, <1>2 DEF On, IInv
<1>5. queued[r] = 0 /\ \A t \in Scheds : On(t, r) => t = s
  BY <1>4 DEF OnceAt
<1>6. /\ UNCHANGED <<chan, state, temp, iptr, guards, style, todo, ch, io, ready0>>
      /\ queued' = [queued EXCEPT ![r] = @ + 1]
      /\ cur' = [cur EXCEPT ![s] = NotProcess] /\ pc' = [pc EXCEPT ![s] = l]
      /\ word' = [word EXCEPT ![s] = Empty] /\ tgt' = [tgt EXCEPT ![s] = NotProcess]
  OBVIOUS
<1>7. Types'
  <2>1. pc' \in [Scheds -> PcLabels] /\ cur' \in [Scheds -> Procs \cup {NotProcess}]
    BY <1>1, <1>6 DEF Types, PcLabels, IdleLabels
  <2>2. queued' \in [Procs -> {0, 1}]
    BY <1>1, <1>5, <1>6 DEF Types
  <2>3. word' \in [Scheds -> ChanWord] /\ tgt' \in [Scheds -> Procs \cup {NotProcess}]
    BY <1>1, <1>6, WordFacts DEF Types
  <2> QED BY <1>1, <1>6, <2>1, <2>2, <2>3 DEF Types
<1>8. /\ pc'[s] \in {"sched", "walk_clean"} /\ cur'[s] = NotProcess
      /\ \A t \in Scheds : t # s => pc'[t] = pc[t] /\ cur'[t] = cur[t] /\ word'[t] = word[t] /\ tgt'[t] = tgt[t]
      /\ queued'[r] = 1 /\ \A x \in Procs : x # r => queued'[x] = queued[x]
  BY <1>1, <1>5, <1>6 DEF Types
<1>9. \A t \in Scheds : cur[t] # r /\ cur'[t] # r /\ ~On(t, r)'
  BY <1>3, <1>5, <1>8, NotProcessAssumption DEF On
<1>10. Touch(s, {r})
  <2>1. \A x \in Procs : x # r => ~On(s, x) /\ ~On(s, x)'
    BY <1>2, <1>3, <1>8, NotProcessAssumption DEF On
  <2> QED BY <1>6, <1>8, <2>1 DEF Touch
<1>11. ~Off(r) /\ ~Off(r)' /\ OnceAt(r)'
  BY <1>4, <1>8, <1>9 DEF Off, OnceAt
<1>12. RunAt(s)' /\ HoldAt(tm, s)'
  <2>1. RunAt(s)'
    BY <1>8 DEF RunAt, IdleLabels, IoLabels, XableLabels, XendLabels, EnbcLabels, EnbLabels, AltwtLabels,
                DiscLabels, DistLabels
  <2> QED BY <1>8, <2>1 DEF HoldAt, HoldLabels
<1> QED BY <1>1, <1>6, <1>7, <1>8, <1>9, <1>10, <1>11, <1>12, PlaceStep

(* The end of trigger_alt_guard, called by kernel_chan_io or Y_xable. *)
LEMMA TriggerEnqueueStep ==
  ASSUME NEW tm, IInv(tm), NEW s \in Scheds, TriggerEnqueue(s)
  PROVE  IInv(tm)'
<1>1. RunAt(s) /\ pc[s] = "trigger_enqueue"
  BY DEF IInv, TriggerEnqueue
<1>2. PICK r \in Procs : r = tgt[s]
  BY <1>1 DEF RunAt
<1>3. /\ UNCHANGED <<chan, state, temp, iptr, guards, style, todo, ch, io, ready0>>
      /\ queued' = [queued EXCEPT ![r] = @ + 1]
      /\ cur' = [cur EXCEPT ![s] = NotProcess] /\ pc' = [pc EXCEPT ![s] = "sched"]
      /\ word' = [word EXCEPT ![s] = Empty] /\ tgt' = [tgt EXCEPT ![s] = NotProcess]
  BY <1>2 DEF TriggerEnqueue, EnqueueProcess, KernelScheduler, Forget, procVars, altVars, histVars
<1> QED BY <1>1, <1>2, <1>3, EnqueueStep

(* The references that are counted.                                        *)
LEMMA RefsFacts ==
  ASSUME NEW p \in Procs
  PROVE  /\ IsFiniteSet(InChans(p)) /\ IsFiniteSet(Triggers(p))
         /\ Cardinality(InChans(p)) \in Nat /\ Cardinality(Triggers(p)) \in Nat /\ Refs(p) \in Nat
         /\ TriggeredOn(p) => Cardinality(Triggers(p)) >= 1 /\ Refs(p) >= 1
<1>1. IsFiniteSet(InChans(p)) /\ IsFiniteSet(Triggers(p))
  BY AltAssumption, FS_Subset DEF InChans, Triggers
<1>2. Cardinality(InChans(p)) \in Nat /\ Cardinality(Triggers(p)) \in Nat
  BY <1>1, FS_CardinalityType
<1>3. TriggeredOn(p) => Cardinality(Triggers(p)) >= 1
  <2> SUFFICES ASSUME NEW s \in Triggers(p) PROVE Cardinality(Triggers(p)) >= 1
    BY DEF TriggeredOn, Triggers
  <2>1. IsFiniteSet(Triggers(p) \ {s})
    BY <1>1, FS_Subset
  <2>2. Cardinality(Triggers(p) \ {s}) \in Nat /\ Cardinality(Triggers(p) \ {s}) = Cardinality(Triggers(p)) - 1
    BY <1>1, <2>1, CardStep
  <2> QED BY <1>2, <2>2
<1> QED BY <1>1, <1>2, <1>3 DEF Refs

(* A partner wakes a process that is asleep, and no other one.  This is    *)
(* where the guard lists matter: the count of a process that enables a     *)
(* channel may be one short, and is only saved by ALT_ENABLING.            *)
LEMMA WakesAsleep ==
  ASSUME NEW tm, IInv(tm), OneChannel, NEW s \in Scheds, pc[s] \in {"trigger", "walk_trigger"}, NEW r \in Procs, r = tgt[s],
         Wakes(state[r])
  PROVE  Off(r) /\ iptr[r] \in {"disable", "selected", "xin"}
<1>1. Types /\ FlowAt(tm, r) /\ Target(r) /\ (\A t \in Scheds : RunAt(t))
  BY DEF IInv, TriggerAt
<1>2. FlagsAt(r) /\ CountAt(tm, r) /\ ListAt(r)
  BY <1>1 DEF FlowAt
<1>3. Refs(r) \in Nat /\ Refs(r) >= 1
  BY RefsFacts DEF TriggeredOn
<1>4. CASE InAlt(r)
  <2>1. CASE state[r].waiting
    BY <1>2, <1>4, <2>1 DEF FlagsAt
  <2>2. CASE ~state[r].waiting
    <3>1. state[r].n = 1 /\ ~state[r].enabling
      BY <2>2 DEF Wakes
    <3>2. Runs(r, {"enbc_inc", "enbc_restore"})
      BY <1>2, <1>3, <1>4, <3>1 DEF CountAt
    <3>3. iptr[r] = "enable" /\ Head(todo[r]) \in Chans
      BY <1>1, <3>2 DEF Runs, RunAt, EnbcLabels
    <3>4. style[r] = "all" /\ Len(todo[r]) # Len(guards[r])
      BY <1>2, <3>1, <3>3 DEF FlagsAt
    <3>5. /\ Len(todo[r]) \in Nat /\ Len(guards[r]) \in Nat
          /\ Len(guards[r]) - Len(todo[r]) + 1 \in 1..Len(guards[r])
          /\ Head(todo[r]) = guards[r][Len(guards[r]) - Len(todo[r]) + 1]
      BY <1>1, <1>2, <3>3, EnableFacts
    <3>6. PICK a \in Alts[r] : a.guards = guards[r] /\ a.style = "all"
      BY <1>2, <1>4, <3>4 DEF ListAt
    <3>7. PICK i \in 1..Len(guards[r]) : i = Len(guards[r]) - Len(todo[r]) + 1
      BY <3>5
    <3>8. i \in DOMAIN guards[r] /\ guards[r][i] \in Chans
      BY <1>1, <3>3, <3>5, <3>7 DEF Types
    <3>9. i = 1
      BY <3>6, <3>8 DEF OneChannel
    <3> QED BY <3>4, <3>5, <3>7, <3>9
  <2> QED BY <2>1, <2>2
<1>5. CASE iptr[r] = "selected" /\ Runs(r, {"altend_dec"})
  <2>1. ~state[r].waiting /\ state[r].n = 1 + Refs(r) + tm.refs[r] /\ tm.refs[r] \in Nat
    BY <1>2, <1>5 DEF FlagsAt, CountAt
  <2> QED BY <1>3, <2>1 DEF Wakes
<1>6. CASE iptr[r] \in {"selected", "xin"} /\ Off(r)
  BY <1>6
<1> QED BY <1>1, <1>4, <1>5, <1>6 DEF Target

(* What the trigger does to the ALT of its target. *)
LEMMA TriggeredFlow ==
  ASSUME NEW tm, IInv(tm), OneChannel, NEW s \in Scheds, pc[s] \in {"trigger", "walk_trigger"}, NEW r \in Procs, r = tgt[s],
         UNCHANGED <<chan, temp, iptr, guards, style, todo, ch, ready0>>,
         state'[r] = Triggered(state[r]),
         Triggers(r)' = Triggers(r) \ {s}, TriggeredOn(r)' => TriggeredOn(r),
         Off(r)' <=> Off(r) /\ ~Wakes(state[r]),
         \A L : Runs(r, L)' <=> Runs(r, L), (\E t \in Scheds : cur[t] = r) => (\E t \in Scheds : cur'[t] = r)
  PROVE  /\ FlowAt(tm, r)'
         /\ Refs(r)' = Refs(r) - 1
         /\ TriggeredOn(r)' => Target(r)'
<1>1. Types /\ FlowAt(tm, r) /\ Target(r)
  BY DEF IInv, TriggerAt
<1>2. FlagsAt(r) /\ CountAt(tm, r) /\ ListAt(r) /\ XinAt(r) /\ EnabledAt(r) /\ SelectedAt(r) /\ FirstAt(r)
  BY <1>1 DEF FlowAt
<1>3. TriggeredOn(r) /\ s \in Triggers(r)
  BY DEF TriggeredOn, Triggers
<1>4. /\ state'[r].tag = state[r].tag /\ state'[r].enabling = state[r].enabling
      /\ ~state'[r].waiting /\ ~state'[r].notReady /\ state'[r].n = state[r].n - 1
      /\ state[r].n \in Int
  BY <1>1, FlagUpdates, StateFacts DEF Types
<1>5. Refs(r)' = Refs(r) - 1 /\ Refs(r) \in Nat
  <2>1. InChans(r)' = InChans(r)
    BY DEF InChans
  <2>2. Cardinality(Triggers(r) \ {s}) = Cardinality(Triggers(r)) - 1
    BY <1>3, RefsFacts, CardStep
  <2>3. Cardinality(InChans(r)) \in Nat /\ Cardinality(Triggers(r)) \in Nat /\ Refs(r) \in Nat
    BY RefsFacts
  <2> QED BY <2>1, <2>2, <2>3 DEF Refs
<1>6. Wakes(state[r]) => Off(r) /\ iptr[r] \in {"disable", "selected", "xin"}
  BY WakesAsleep
<1>7. state[r].waiting => Wakes(state[r])
  BY DEF Wakes
<1>8. InAlt(r)' <=> InAlt(r)
  BY DEF InAlt
<1>9. \A g : (Ready(g)' <=> Ready(g)) /\ (Hopeful(r, g)' <=> Hopeful(r, g))
  BY DEF Ready, Hopeful
<1>10. Passed(r)' = Passed(r) /\ Enabled(r)' = Enabled(r) /\ \A g : Position(r, g)' = Position(r, g)
  BY DEF Passed, Enabled, Position
<1>11. iptr[r] = "xin" => Wakes(state[r])
  BY <1>1, <1>2, <1>7 DEF Target, InAlt, FlagsAt
<1>12. ListAt(r)'
  BY <1>2, <1>8, <1>10 DEF ListAt
<1>13. FlagsAt(r)'
  BY <1>2, <1>4, <1>6, <1>7, <1>8, <1>11 DEF FlagsAt
<1>14. XinAt(r)'
  <2>1. iptr[r] # "xend"
    BY <1>1 DEF Target, InAlt
  <2>2. iptr[r] = "xin" => Ready(ch[r])
    <3>1. Off(r) => \A L : ~Runs(r, L)
      BY DEF Off, On, Runs
    <3> QED BY <1>2, <1>3, <1>6, <1>11, <3>1 DEF XinAt
  <2>3. Ready(ch[r]) => Ready(ch[r])'
    BY DEF Ready
  <2> QED BY <1>2, <2>1, <2>2, <2>3 DEF XinAt
<1>15. EnabledAt(r)'
  <2>1. Ready(Head(todo[r])) => Ready(Head(todo[r]))'
    BY DEF Ready
  <2> QED BY <1>2, <1>3, <1>9, <1>10, <2>1 DEF EnabledAt
<1>16. SelectedAt(r)'
  <2>1. Ready(temp[r]) => Ready(temp[r])'
    BY DEF Ready
  <2> QED BY <1>2, <1>3, <1>9, <2>1 DEF SelectedAt, Chosen
<1>17. FirstAt(r)'
  BY <1>2, <1>8, <1>9, <1>10 DEF FirstAt, Chosen
<1>18. CountAt(tm, r)'
  <2>1. /\ Runs(r, {"disc_dec"})' <=> Runs(r, {"disc_dec"})
        /\ Runs(r, {"enbc_inc", "enbc_restore"})' <=> Runs(r, {"enbc_inc", "enbc_restore"})
        /\ Runs(r, {"altend_dec"})' <=> Runs(r, {"altend_dec"})
    OBVIOUS
  <2>2. InAlt(r)' => state'[r].n = 1 + Refs(r)' + tm.refs[r]
                                     + (IF Runs(r, {"disc_dec"})' THEN 1 ELSE 0)
                                     - (IF Runs(r, {"enbc_inc", "enbc_restore"})' THEN 1 ELSE 0)
    BY <1>2, <1>4, <1>5, <1>8, <2>1 DEF CountAt
  <2>3. Runs(r, {"altend_dec"})' => state'[r].n = 1 + Refs(r)' + tm.refs[r]
    BY <1>2, <1>4, <1>5, <2>1 DEF CountAt
  <2>4. iptr'[r] = "selected" /\ Off(r)' => state'[r].n = Refs(r)' + tm.refs[r]
    BY <1>2, <1>4, <1>5 DEF CountAt
  <2>5. ~(iptr'[r] = "xin" /\ Off(r)')
    BY <1>11
  <2>6. tm.refs[r] \in Nat
    BY <1>2 DEF CountAt
  <2>7. tm.refs[r] # 0 => InAlt(r)' \/ (iptr'[r] = "selected" /\ (Off(r)' \/ Runs(r, {"altend_dec"})'))
    <3> SUFFICES ASSUME tm.refs[r] # 0, iptr[r] = "selected", Off(r) PROVE ~Wakes(state[r])
      BY <1>2, <1>8 DEF CountAt
    <3>1. state[r].n = Refs(r) + tm.refs[r] /\ ~state[r].waiting
      BY <1>2 DEF CountAt, FlagsAt
    <3>2. Refs(r) >= 1
      BY <1>3, RefsFacts
    <3> QED BY <1>5, <2>6, <3>1, <3>2 DEF Wakes
  <2> QED BY <2>2, <2>3, <2>4, <2>5, <2>6, <2>7 DEF CountAt
<1>19. TriggeredOn(r)' => Target(r)'
  <2> SUFFICES ASSUME TriggeredOn(r)' PROVE Target(r)'
    OBVIOUS
  <2>1. Refs(r) >= 2
    <3>1. \E t \in Scheds : t \in Triggers(r)'
      BY DEF TriggeredOn, Triggers
    <3>2. PICK t \in Triggers(r) : t # s
      BY <3>1
    <3>3. PICK T : T = Triggers(r)
      OBVIOUS
    <3>4. IsFiniteSet(T) /\ IsFiniteSet(T \ {s}) /\ IsFiniteSet((T \ {s}) \ {t})
      BY <3>3, RefsFacts, FS_Subset
    <3>5. /\ Cardinality(T \ {s}) = Cardinality(T) - 1
          /\ Cardinality((T \ {s}) \ {t}) = Cardinality(T \ {s}) - 1
          /\ Cardinality((T \ {s}) \ {t}) \in Nat /\ Cardinality(T) \in Nat
      BY <1>3, <3>2, <3>3, <3>4, CardStep
    <3>6. Cardinality(T) >= 2
      BY <3>5
    <3> QED BY <3>3, <3>6, RefsFacts DEF Refs
  <2>2. CASE InAlt(r)
    BY <1>8, <2>2 DEF Target
  <2>3. CASE iptr[r] = "selected" /\ Runs(r, {"altend_dec"})
    BY <2>3 DEF Target
  <2>4. CASE iptr[r] = "selected" /\ Off(r)
    <3>1. ~Wakes(state[r])
      BY <1>2, <1>5, <2>1, <2>4 DEF CountAt, FlagsAt, Wakes
    <3> QED BY <2>4, <3>1 DEF Target
  <2>5. CASE iptr[r] = "xin" /\ Off(r)
    BY <1>2, <2>1, <2>5 DEF CountAt
  <2> QED BY <1>1, <2>2, <2>3, <2>4, <2>5 DEF Target
<1> QED BY <1>5, <1>12, <1>13, <1>14, <1>15, <1>16, <1>17, <1>18, <1>19 DEF FlowAt

(* The words a trigger changes.                                            *)
LEMMA TriggerAltGuardTypes ==
  ASSUME Types, NEW s \in Scheds, NEW r \in Procs, r = tgt[s], TriggerAltGuard(s)
  PROVE  /\ Types'
         /\ UNCHANGED <<queued, chan, temp, iptr, guards, style, todo, ch, io, ready0>>
         /\ state'[r] = Triggered(state[r]) /\ \A x \in Procs : x # r => state'[x] = state[x]
         /\ \A t \in Scheds : t # s =>
              pc'[t] = pc[t] /\ cur'[t] = cur[t] /\ word'[t] = word[t] /\ tgt'[t] = tgt[t]
         /\ Wakes(state[r]) => pc'[s] = "trigger_enqueue" /\ cur'[s] = cur[s] /\ tgt'[s] = r
         /\ ~Wakes(state[r]) => pc'[s] = "sched" /\ cur'[s] = NotProcess /\ tgt'[s] = NotProcess
<1>1. UNCHANGED <<queued, chan, temp, iptr, guards, style, todo, ch, io, ready0>>
  BY DEF TriggerAltGuard, procVars, altVars, histVars
<1>2. state' = [state EXCEPT ![r] = Triggered(state[r])]
  BY DEF TriggerAltGuard, SetState
<1>3. Triggered(state[r]) \in StateWords
  BY FlagUpdates DEF Types
<1>4. CASE Wakes(state[r])
  <2>1. pc' = [pc EXCEPT ![s] = "trigger_enqueue"] /\ UNCHANGED <<cur, word, tgt>>
    BY <1>4 DEF TriggerAltGuard, Goto, localVars
  <2>2. pc' \in [Scheds -> PcLabels]
    BY <2>1 DEF Types, PcLabels, IdleLabels
  <2> QED BY <1>1, <1>2, <1>3, <1>4, <2>1, <2>2 DEF Types
<1>5. CASE ~Wakes(state[r])
  <2>1. /\ pc' = [pc EXCEPT ![s] = "sched"] /\ cur' = [cur EXCEPT ![s] = NotProcess]
        /\ word' = [word EXCEPT ![s] = Empty] /\ tgt' = [tgt EXCEPT ![s] = NotProcess]
    BY <1>5 DEF TriggerAltGuard, KernelScheduler, Forget
  <2>2. pc' \in [Scheds -> PcLabels] /\ cur' \in [Scheds -> Procs \cup {NotProcess}]
    BY <2>1 DEF Types, PcLabels, IdleLabels
  <2>3. word' \in [Scheds -> ChanWord] /\ tgt' \in [Scheds -> Procs \cup {NotProcess}]
    BY <2>1, WordFacts DEF Types
  <2> QED BY <1>1, <1>2, <1>3, <1>5, <2>1, <2>2, <2>3 DEF Types
<1> QED BY <1>4, <1>5

(* trigger_alt_guard takes its reference and decides whether to wake the   *)
(* process.                                                                *)
LEMMA TriggerStep ==
  ASSUME NEW tm, IInv(tm), OneChannel, NEW s \in Scheds, pc[s] \in {"trigger", "walk_trigger"},
         NEW r \in Procs, r = tgt[s], Types',
         UNCHANGED <<queued, chan, temp, iptr, guards, style, todo, ch, io, ready0>>,
         state'[r] = Triggered(state[r]), \A x \in Procs : x # r => state'[x] = state[x],
         \A t \in Scheds : t # s =>
           pc'[t] = pc[t] /\ cur'[t] = cur[t] /\ word'[t] = word[t] /\ tgt'[t] = tgt[t],
         Wakes(state[r]) =>
           pc'[s] \in {"trigger_enqueue", "walk_enqueue"} /\ cur'[s] = cur[s] /\ tgt'[s] = r,
         ~Wakes(state[r]) => pc'[s] \in {"sched", "walk_clean"} /\ cur'[s] = NotProcess
  PROVE  IInv(tm)'
<1>1. /\ Types /\ RunAt(s) /\ TriggerAt(s) /\ pc[s] \in {"trigger", "walk_trigger"}
      /\ (\A t \in Scheds : RunAt(t))
  BY DEF IInv
<1>2. r = tgt[s]
  OBVIOUS
<1>3. cur[s] = NotProcess
  BY <1>1 DEF RunAt, IdleLabels
<1>4. /\ Types'
      /\ UNCHANGED <<queued, chan, temp, iptr, guards, style, todo, ch, io, ready0>>
      /\ state'[r] = Triggered(state[r]) /\ \A x \in Procs : x # r => state'[x] = state[x]
      /\ \A t \in Scheds : t # s =>
           pc'[t] = pc[t] /\ cur'[t] = cur[t] /\ word'[t] = word[t] /\ tgt'[t] = tgt[t]
      /\ Wakes(state[r]) =>
           pc'[s] \in {"trigger_enqueue", "walk_enqueue"} /\ cur'[s] = cur[s] /\ tgt'[s] = r
      /\ ~Wakes(state[r]) => pc'[s] \in {"sched", "walk_clean"} /\ cur'[s] = NotProcess
  OBVIOUS
<1>5. cur'[s] = NotProcess /\ pc'[s] \in {"trigger_enqueue", "walk_enqueue", "sched", "walk_clean"}
  BY <1>3, <1>4
<1>6. Target(r) /\ iptr[r] \in {"enable", "altwt", "disable", "altend", "selected", "xin"}
  BY <1>1, <1>2 DEF TriggerAt, Target, InAlt
<1>7. Touch(s, {r})
  <2>1. \A x \in Procs : x # r => ~On(s, x) /\ ~On(s, x)'
    BY <1>1, <1>3, <1>4, <1>5, NotProcessAssumption DEF On
  <2> QED BY <1>4, <2>1 DEF Touch
<1>8. \A L : Runs(r, L)' <=> Runs(r, L)
  BY <1>3, <1>4, <1>5, NotProcessAssumption DEF Runs
<1>9. Wakes(state[r]) => Off(r)
  BY <1>1, <1>2, WakesAsleep
<1>10. ~On(s, r) /\ \A t \in Scheds : t # s => (On(t, r)' <=> On(t, r))
  BY <1>1, <1>3, <1>4, NotProcessAssumption DEF On
<1>11. On(s, r)' <=> Wakes(state[r])
  BY <1>4, <1>5, NotProcessAssumption DEF On
<1>12. Off(r)' <=> Off(r) /\ ~Wakes(state[r])
  BY <1>4, <1>10, <1>11 DEF Off
<1>13. OnceAt(r)'
  <2>1. OnceAt(r)
    BY DEF IInv
  <2>2. CASE Wakes(state[r])
    <3>1. queued'[r] = 0 /\ \A t \in Scheds : On(t, r)' => t = s
      BY <1>4, <1>9, <1>10, <2>2 DEF Off
    <3> QED BY <3>1 DEF OnceAt
  <2>3. CASE ~Wakes(state[r])
    <3>1. \A t \in Scheds : On(t, r)' <=> On(t, r)
      BY <1>10, <1>11, <2>3
    <3> QED BY <1>4, <2>1, <3>1 DEF OnceAt
  <2> QED BY <2>2, <2>3
<1>14. Triggers(r)' = Triggers(r) \ {s}
  BY <1>1, <1>2, <1>4, <1>5 DEF Triggers
<1>15. TriggeredOn(r)' => TriggeredOn(r)
  BY <1>4, <1>5 DEF TriggeredOn
<1>16. (\E t \in Scheds : cur[t] = r) => (\E t \in Scheds : cur'[t] = r)
  BY <1>3, <1>4, NotProcessAssumption
<1>17. FlowAt(tm, r)' /\ (TriggeredOn(r)' => Target(r)')
  BY <1>1, <1>2, <1>4, <1>8, <1>12, <1>14, <1>15, <1>16, TriggeredFlow
<1>18. IoAt(r)'
  <2>1. IoAt(r)
    BY DEF IInv
  <2> QED BY <1>4, <1>6, <1>8, <2>1 DEF IoAt
<1>19. \A c : ~Waiting(tm, r, c)
  BY <1>6 DEF Waiting
<1>20. Unheld(s, {r})
  <2> SUFFICES ASSUME NEW t \in Scheds, pc[t] \in HoldLabels
               PROVE  Partner(cur[t], ChannelOf(t)) # r
    BY <1>4 DEF Unheld
  <2> QED BY <1>19, HoldChannel DEF HeldBy
<1>21. \A x \in Procs : x # r => Undisturbed(x)
  BY <1>1, <1>2, <1>4, <1>5 DEF Undisturbed
<1>22. ASSUME NEW d \in Chans PROVE Stays(d, {r})
  <2>1. r \in Ends(d) => chan[d] # Wptr(r)
    <3>1. ~Runs(r, {"io_clear"})
      BY <1>1, <1>6 DEF Runs, RunAt, IoLabels
    <3> QED BY <1>19, <3>1 DEF IInv, ChanAt
  <2>2. chan[d] = AltPtr(r) => AltIn(r, d)'
    <3> SUFFICES ASSUME chan[d] = AltPtr(r) PROVE AltIn(r, d)'
      OBVIOUS
    <3>1. AltIn(r, d)
      BY AltingFacts
    <3>2. ~(iptr[r] = "xin" /\ Off(r))
      <4> SUFFICES ASSUME iptr[r] = "xin", Off(r) PROVE FALSE
        OBVIOUS
      <4>1. Refs(r) = 1
        BY DEF IInv, FlowAt, CountAt
      <4>2. PICK T : T = InChans(r)
        OBVIOUS
      <4>3. d \in T /\ IsFiniteSet(T) /\ IsFiniteSet(T \ {d})
        BY <4>2, RefsFacts, FS_Subset DEF InChans
      <4>4. Cardinality(T \ {d}) = Cardinality(T) - 1 /\ Cardinality(T) \in Nat /\ Cardinality(T \ {d}) \in Nat
        BY <4>3, CardStep
      <4>5. Cardinality(InChans(r)) >= 1
        BY <4>2, <4>4
      <4> QED BY <1>1, <1>2, <4>1, <4>5, RefsFacts DEF TriggeredOn, Refs
    <3>3. Passed(r)' = Passed(r) /\ Enabled(r)' = Enabled(r)
      BY <1>4, <1>8 DEF Passed, Enabled
    <3> QED BY <1>4, <1>8, <3>1, <3>2, <3>3 DEF AltIn
  <2>3. Reader[d] = r => ~Extended(d) /\ ~Extended(d)'
    BY <1>4, <1>6 DEF Extended, Transferred
  <2> QED BY <2>1, <2>2, <2>3 DEF Stays
<1>23. RunAt(s)' /\ HoldAt(tm, s)' /\ TriggerAt(s)'
  <2>1. pc'[s] \in {"trigger_enqueue", "walk_enqueue"} => tgt'[s] \in Procs
    BY <1>4, <1>5
  <2>2. RunAt(s)'
    BY <1>5, <2>1 DEF RunAt, IdleLabels, IoLabels, XableLabels, XendLabels, EnbcLabels, EnbLabels, AltwtLabels,
                DiscLabels, DistLabels
  <2> QED BY <1>5, <2>2 DEF HoldAt, HoldLabels, TriggerAt
<1>24. ASSUME NEW t \in Scheds, t # s, cur[t] = r PROVE RunAt(t)' /\ HoldAt(tm, t)'
  <2>1. pc'[t] = pc[t] /\ cur'[t] = r /\ word'[t] = word[t] /\ RunAt(t) /\ HoldAt(tm, t)
    BY <1>4, <1>24 DEF IInv
  <2>2. ~Off(r)
    BY <1>24 DEF Off, On
  <2>3. pc[t] \notin IoLabels \cup XableLabels \cup XendLabels
    BY <1>6, <1>24, <2>1, <2>2 DEF RunAt, Target, InAlt
  <2>4. RunAt(t)'
    BY <1>4, <1>24, <2>1, <2>3 DEF RunAt, IoLabels, XableLabels, XendLabels
  <2>5. HoldAt(tm, t)'
    <3> SUFFICES ASSUME pc[t] \in HoldLabels PROVE HoldAt(tm, t)'
      BY <2>1 DEF HoldAt
    <3>1. pc[t] = "enbc_restore"
      BY <2>3 DEF HoldLabels, IoLabels, XableLabels, XendLabels
    <3>2. PICK c \in Chans : c = Head(todo[r])
      BY <1>24, <2>1, <3>1 DEF RunAt, EnbcLabels
    <3>3. PICK q : q = Partner(r, c)
      OBVIOUS
    <3>4. HeldBy(tm, t, c, q) /\ q # r
      BY <1>24, <1>19, <2>1, <3>1, <3>2, <3>3 DEF HoldAt, ChannelOf, HeldBy
    <3>5. q \in Procs
      BY <3>3, EndFacts DEF Partner
    <3>6. Waiting(tm, q, c)' /\ Asked(q, c)'
      BY <1>7, <3>1, <3>4, <3>5, PlaceFrame DEF HeldBy
    <3>7. HeldBy(tm, t, c, q)'
      BY <1>4, <1>24, <2>1, <3>1, <3>4, <3>6 DEF HeldBy, Wptr, AltPtr
    <3>8. (ChannelOf(t) = c)' /\ (Partner(cur[t], c) = q)'
      BY <1>4, <2>1, <3>1, <3>2, <3>3 DEF ChannelOf, Partner
    <3> QED BY <3>7, <3>8 DEF HoldAt
  <2> QED BY <2>4, <2>5
<1>25. (\E t \in Scheds : t # s /\ pc[t] \in {"trigger", "walk_trigger"} /\ tgt[t] = r) => Target(r)'
  <2>1. (\E t \in Scheds : t # s /\ pc[t] \in {"trigger", "walk_trigger"} /\ tgt[t] = r) => TriggeredOn(r)'
    BY <1>4 DEF TriggeredOn
  <2> QED BY <1>17, <2>1
<1>26. TinAt(tm, r)'
  <2>1. TinAt(tm, r)
    BY DEF IInv
  <2> QED BY <1>6, <2>1 DEF TinAt
<1> QED BY <1>4, <1>7, <1>13, <1>17, <1>18, <1>20, <1>21, <1>22, <1>23, <1>24, <1>25, <1>26, StepFrame

(* trigger_alt_guard, called by kernel_chan_io or Y_xable. *)
LEMMA TriggerAltGuardStep ==
  ASSUME NEW tm, IInv(tm), OneChannel, NEW s \in Scheds, TriggerAltGuard(s)
  PROVE  IInv(tm)'
<1>1. Types /\ RunAt(s) /\ pc[s] = "trigger"
  BY DEF IInv, TriggerAltGuard
<1>2. PICK r \in Procs : r = tgt[s]
  BY <1>1 DEF RunAt
<1> QED BY <1>1, <1>2, TriggerAltGuardTypes, TriggerStep

-----------------------------------------------------------------------------
(***************************************************************************)
(* The instructions of an ALT.                                             *)
(***************************************************************************)
(* A process that executes one. *)
LEMMA AltFacts ==
  ASSUME NEW tm, IInv(tm), NEW s \in Scheds, NEW p \in Procs, cur[s] = p, InAlt(p)
  PROVE  /\ Types /\ FlowAt(tm, p) /\ RunAt(s)
         /\ ~Off(p) /\ queued[p] = 0 /\ \A L : Runs(p, L) <=> pc[s] \in L
         /\ io[p] = R!Idle
         /\ pc[s] \in {"user"} \cup EnbcLabels \cup EnbLabels \cup AltwtLabels \cup DiscLabels \cup DistLabels
         /\ state[p] \in StateWords /\ state[p].tag = "alt" /\ ~state[p].waiting
         /\ \A c \in Chans : chan[c] = AltPtr(p) => Reader[c] = p /\ AltIn(p, c)
         /\ \A c \in Chans : c \in Elems(guards[p]) => Reader[c] = p
<1>1. Types /\ FlowAt(tm, p) /\ RunAt(s)
  BY DEF IInv
<1>2. ~Off(p) /\ queued[p] = 0 /\ \A L : Runs(p, L) <=> pc[s] \in L
  BY RunnerFacts
<1>3. pc[s] \in {"user"} \cup EnbcLabels \cup EnbLabels \cup AltwtLabels \cup DiscLabels \cup DistLabels
  <2>1. cur[s] # NotProcess
    BY NotProcessAssumption
  <2>2. pc[s] \notin IdleLabels \cup IoLabels \cup XableLabels \cup XendLabels /\ pc[s] # "altend_dec"
    BY <1>1, <2>1 DEF RunAt, InAlt
  <2> QED BY <1>1, <2>2 DEF Types, PcLabels
<1>4. io[p] = R!Idle
  BY <1>2, <1>3 DEF IInv, IoAt, IoLabels, EnbcLabels, EnbLabels, AltwtLabels, DiscLabels, DistLabels
<1>5. state[p] \in StateWords /\ state[p].tag = "alt" /\ ~state[p].waiting
  BY <1>1, <1>2 DEF Types, FlowAt, FlagsAt
<1>6. \A c \in Chans : chan[c] = AltPtr(p) => Reader[c] = p /\ AltIn(p, c)
  BY AltingFacts
<1>7. \A c \in Chans : c \in Elems(guards[p]) => Reader[c] = p
  BY <1>1, GuardsRead DEF FlowAt
<1> QED BY <1>1, <1>2, <1>3, <1>4, <1>5, <1>6, <1>7

(* It sees its channels empty, with its own ALT in them, or ready. *)
LEMMA AltSeen ==
  ASSUME NEW tm, IInv(tm), NEW s \in Scheds, NEW p \in Procs, cur[s] = p, InAlt(p), NEW c \in Chans, Reader[c] = p
  PROVE  \/ chan[c] = Empty
         \/ chan[c] = AltPtr(p)
         \/ /\ chan[c] = Wptr(Writer[c]) /\ Ready(c)
            /\ pc[s] # "enbc_restore" => Waiting(tm, Writer[c], c) /\ Asked(Writer[c], c)
<1>1. ChanAt(tm, c) /\ pc[s] # "io_clear"
  BY AltFacts DEF IInv, EnbcLabels, EnbLabels, AltwtLabels, DiscLabels, DistLabels
<1>2. PICK q \in Procs : q = Writer[c] /\ q # p /\ q \in Ends(c) /\ Partner(q, c) = p
  BY EndFacts DEF Partner
<1>3. p \in Ends(c) /\ chan[c] # Wptr(p)
  BY <1>1, EndFacts, RunnerFacts
<1>4. chan[c] = Empty \/ chan[c] = AltPtr(p) \/ chan[c] = Wptr(q)
  BY <1>1, <1>2, <1>3, EndFacts DEF ChanAt
<1>5. ASSUME chan[c] = Wptr(q) PROVE Waiting(tm, q, c) /\ Asked(q, c)
  <2>1. ~(ch[q] = c /\ Runs(q, {"io_clear"}))
    <3> SUFFICES ASSUME NEW t \in Scheds, cur[t] = q, pc[t] = "io_clear", ch[q] = c PROVE FALSE
      BY DEF Runs
    <3>1. ChannelOf(t) = c /\ pc[t] \in HoldLabels /\ t # s
      BY <1>2 DEF ChannelOf, HoldLabels
    <3> QED BY <1>2, <3>1, RunnerFacts
  <2>2. ~Extended(c)
    BY DEF Extended, Transferred, InAlt
  <2> QED BY <1>1, <1>2, <1>5, <2>1, <2>2 DEF ChanAt
<1> QED BY <1>2, <1>4, <1>5, GuardFacts DEF Ready

(* A step that leaves the process where it is. *)
LEMMA TimedAltQuietStep ==
  ASSUME NEW tm, NEW tn, IInv(tm), NEW s \in Scheds, NEW p \in Procs, cur[s] = p, InAlt(p), Types',
         Same(tm, tn, {p}), p \notin tn.tin,
         UNCHANGED <<chan, queued, io, ch, cur>>,
         \A t \in Scheds : t # s => pc'[t] = pc[t] /\ word'[t] = word[t] /\ tgt'[t] = tgt[t],
         \A r \in Procs : r # p =>
           /\ state'[r] = state[r] /\ temp'[r] = temp[r] /\ iptr'[r] = iptr[r] /\ guards'[r] = guards[r]
           /\ style'[r] = style[r] /\ todo'[r] = todo[r] /\ ready0'[r] = ready0[r],
         \/ pc'[s] = "user" /\ iptr'[p] \in {"enable", "altwt", "disable", "altend", "selected"}
         \/ pc'[s] \in {"enbc_swap"} \cup EnbLabels /\ iptr'[p] = "enable"
         \/ pc'[s] \in AltwtLabels /\ iptr'[p] = "altwt"
         \/ pc'[s] \in DiscLabels \cup DistLabels /\ iptr'[p] = "disable"
         \/ pc'[s] = "altend_dec" /\ iptr'[p] = "selected",
         pc'[s] \in {"enbc_swap"} \cup DiscLabels => (Head(todo[p]) \in Chans)',
         pc'[s] \in DistLabels => (Head(todo[p]) \in Timers)',
         iptr'[p] = "selected" /\ pc'[s] = "user" => ~TriggeredOn(p),
         \A d \in Chans : chan[d] = AltPtr(p) => AltIn(p, d)',
         FlowAt(tn, p)'
  PROVE  IInv(tn)'
<1>1. /\ ~Off(p) /\ queued[p] = 0 /\ io[p] = R!Idle
      /\ pc[s] \in {"user"} \cup EnbcLabels \cup EnbLabels \cup AltwtLabels \cup DiscLabels \cup DistLabels
  BY AltFacts
<1>2. /\ pc'[s] \notin IdleLabels \cup IoLabels \cup XableLabels \cup XendLabels
      /\ pc'[s] \notin HoldLabels
  BY DEF IdleLabels, IoLabels, XableLabels, XendLabels, HoldLabels, EnbLabels, AltwtLabels, DiscLabels, DistLabels
<1>3. Touch(s, {p})
  <2>1. Alone(s, p)
    BY <1>2 DEF Alone, IdleLabels
  <2> QED BY <2>1, AloneTouch
<1>4. ~Transferred(p) /\ ~Transferred(p)'
  BY DEF Transferred, InAlt
<1>5. RunAt(s)'
  <2>1. pc'[s] \in EnbcLabels \cup EnbLabels => iptr'[p] = "enable" /\ pc'[s] \in {"enbc_swap"} \cup EnbLabels
    BY DEF EnbcLabels, EnbLabels, AltwtLabels, DiscLabels, DistLabels
  <2>2. pc'[s] \in EnbcLabels => pc'[s] = "enbc_swap"
    BY <2>1 DEF EnbcLabels, EnbLabels
  <2>3. pc'[s] \in AltwtLabels => iptr'[p] = "altwt"
    BY DEF EnbLabels, AltwtLabels, DiscLabels, DistLabels
  <2>4. pc'[s] \in DiscLabels \cup DistLabels => iptr'[p] = "disable"
    BY DEF EnbLabels, AltwtLabels, DiscLabels, DistLabels
  <2>5. pc'[s] = "altend_dec" => iptr'[p] = "selected"
    BY DEF EnbLabels, AltwtLabels, DiscLabels, DistLabels
  <2>6. cur'[s] = p /\ p # NotProcess
    <3>1. p # NotProcess
      BY NotProcessAssumption
    <3> QED BY <3>1
  <2> QED BY <1>2, <2>1, <2>2, <2>3, <2>4, <2>5, <2>6 DEF RunAt, IdleLabels, IoLabels, XableLabels, XendLabels
<1>6. HoldAt(tn, s)' /\ IoAt(p)' /\ TinAt(tn, p)'
  BY <1>1, <1>2 DEF HoldAt, IoAt, TinAt
<1>7. \A L : Runs(p, L)' <=> pc'[s] \in L
  BY <1>2, <1>3, RunnerNext DEF IdleLabels
<1>8. TriggeredOn(p) => Target(p)'
  BY <1>7 DEF Target, InAlt
<1>9. pc[s] # "io_clear" /\ pc'[s] \notin {"trigger", "trigger_enqueue", "walk_trigger", "walk_enqueue"}
  BY <1>1, <1>2 DEF EnbcLabels, EnbLabels, AltwtLabels, DiscLabels, DistLabels, IdleLabels
<1> QED BY <1>1, <1>3, <1>4, <1>5, <1>6, <1>8, <1>9, TimedQuietStep

(* The same for a step that has nothing to do with timers. *)
LEMMA AltQuietStep ==
  ASSUME NEW tm, IInv(tm), NEW s \in Scheds, NEW p \in Procs, cur[s] = p, InAlt(p), Types',
         UNCHANGED <<chan, queued, io, ch, cur>>,
         \A t \in Scheds : t # s => pc'[t] = pc[t] /\ word'[t] = word[t] /\ tgt'[t] = tgt[t],
         \A r \in Procs : r # p =>
           /\ state'[r] = state[r] /\ temp'[r] = temp[r] /\ iptr'[r] = iptr[r] /\ guards'[r] = guards[r]
           /\ style'[r] = style[r] /\ todo'[r] = todo[r] /\ ready0'[r] = ready0[r],
         \/ pc'[s] = "user" /\ iptr'[p] \in {"enable", "altwt", "disable", "altend", "selected"}
         \/ pc'[s] \in {"enbc_swap"} \cup EnbLabels /\ iptr'[p] = "enable"
         \/ pc'[s] \in AltwtLabels /\ iptr'[p] = "altwt"
         \/ pc'[s] \in DiscLabels \cup DistLabels /\ iptr'[p] = "disable"
         \/ pc'[s] = "altend_dec" /\ iptr'[p] = "selected",
         pc'[s] \in {"enbc_swap"} \cup DiscLabels => (Head(todo[p]) \in Chans)',
         pc'[s] \in DistLabels => (Head(todo[p]) \in Timers)',
         iptr'[p] = "selected" /\ pc'[s] = "user" => ~TriggeredOn(p),
         \A d \in Chans : chan[d] = AltPtr(p) => AltIn(p, d)',
         FlowAt(tm, p)'
  PROVE  IInv(tm)'
<1>1. Same(tm, tm, {p})
  BY DEF Same
<1>2. p \notin tm.tin
  BY RunnerFacts
<1> QED BY <1>1, <1>2, TimedAltQuietStep

(* A sequence is empty when its length is zero. *)
LEMMA EmptyFacts ==
  ASSUME NEW S, NEW q \in Seq(S)
  PROVE  /\ Len(q) \in Nat /\ (q = << >> <=> Len(q) = 0) /\ DOMAIN q = 1..Len(q)
         /\ \A i \in DOMAIN q : q[i] \in S
OBVIOUS

(* Nothing comes after the last guard. *)
LEMMA LastFacts ==
  ASSUME NEW S, NEW q \in Seq(S), Len(q) = 1
  PROVE  Elems(Tail(q)) = {}
<1>1. q # << >>
  BY EmptyFacts
<1>2. Tail(q) \in Seq(S) /\ Len(Tail(q)) = Len(q) - 1
  BY <1>1, SeqFacts
<1>3. PICK t \in Seq(S) : t = Tail(q) /\ Len(t) = 0
  <2>1. PICK n \in Nat, m \in Nat : n = Len(q) /\ m = Len(Tail(q))
    BY <1>2, EmptyFacts
  <2>2. n = 1 /\ m = n - 1
    BY <1>2, <2>1
  <2>3. m = 0
    BY ONLY <2>2, m \in Nat
  <2> QED BY <1>2, <2>1, <2>3
<1>4. DOMAIN t = 1..0
  BY <1>3, EmptyFacts
<1>5. DOMAIN t = {}
  BY <1>4
<1>6. Elems(t) = {}
  BY <1>5 DEF Elems
<1> QED BY <1>3, <1>6

(* The list without its first guard is a suffix, or a reversed prefix, too. *)
LEMMA TailFacts ==
  ASSUME NEW S, NEW q \in Seq(S), NEW gs \in Seq(S), q # << >>, Len(q) <= Len(gs)
  PROVE  /\ DOMAIN Tail(q) = 1..(Len(q) - 1)
         /\ (\A i \in DOMAIN q : q[i] = gs[Len(gs) - Len(q) + i]) =>
              \A i \in DOMAIN Tail(q) : Tail(q)[i] = gs[Len(gs) - Len(Tail(q)) + i]
         /\ (\A i \in DOMAIN q : q[i] = gs[Len(q) + 1 - i]) =>
              \A i \in DOMAIN Tail(q) : Tail(q)[i] = gs[Len(Tail(q)) + 1 - i]
<1>1. PICK n \in Nat, m \in Nat : n = Len(q) /\ m = Len(gs)
  OBVIOUS
<1>2. /\ n >= 1 /\ DOMAIN q = 1..n /\ Tail(q) \in Seq(S) /\ Len(Tail(q)) = n - 1
      /\ \A i \in 1..(n - 1) : Tail(q)[i] = q[i + 1]
  BY <1>1, SeqFacts
<1>3. DOMAIN Tail(q) = 1..(n - 1)
  BY <1>2
<1>4. ASSUME \A i \in 1..n : q[i] = gs[m - n + i], NEW i \in 1..(n - 1)
      PROVE Tail(q)[i] = gs[m - (n - 1) + i]
  <2>1. Tail(q)[i] = gs[m - n + (i + 1)]
    BY <1>2, <1>4
  <2>2. m - n + (i + 1) = m - (n - 1) + i
    OBVIOUS
  <2> QED BY <2>1, <2>2
<1>5. ASSUME \A i \in 1..n : q[i] = gs[n + 1 - i], NEW i \in 1..(n - 1)
      PROVE Tail(q)[i] = gs[(n - 1) + 1 - i]
  <2>1. Tail(q)[i] = gs[n + 1 - (i + 1)]
    BY <1>2, <1>5
  <2>2. n + 1 - (i + 1) = (n - 1) + 1 - i
    OBVIOUS
  <2> QED BY <2>1, <2>2
<1> QED BY <1>1, <1>2, <1>3, <1>4, <1>5

(* On to the next guard of the list. *)
LEMMA NextGuardFacts ==
  ASSUME Types, NEW p \in Procs, todo[p] # << >>, NextGuard(p), iptr[p] \in {"enable", "disable"}
  PROVE  /\ todo'[p] = Tail(todo[p]) /\ \A r \in Procs : r # p => todo'[r] = todo[r] /\ iptr'[r] = iptr[r]
         /\ iptr[p] = "enable" => iptr'[p] = IF Len(todo[p]) = 1 THEN "altwt" ELSE "enable"
         /\ iptr[p] = "disable" => iptr'[p] = IF Len(todo[p]) = 1 THEN "altend" ELSE "disable"
         /\ todo' \in [Procs -> Seq(Chans \cup Timers \cup {Skip})] /\ iptr' \in [Procs -> Labels \cup {"timed"}]
<1>1. todo[p] \in Seq(Chans \cup Timers \cup {Skip})
  BY DEF Types
<1>2. Tail(todo[p]) \in Seq(Chans \cup Timers \cup {Skip})
  BY <1>1, SeqFacts
<1>3. Advance(p) \in Labels
  BY DEF Advance, Types, Labels
<1>4. /\ todo \in [Procs -> Seq(Chans \cup Timers \cup {Skip})] /\ iptr \in [Procs -> Labels \cup {"timed"}]
      /\ todo' = [todo EXCEPT ![p] = Tail(todo[p])] /\ iptr' = [iptr EXCEPT ![p] = Advance(p)]
  BY DEF NextGuard, SetIptr, Types
<1>5. todo' \in [Procs -> Seq(Chans \cup Timers \cup {Skip})] /\ iptr' \in [Procs -> Labels \cup {"timed"}]
  BY <1>2, <1>3, <1>4
<1>6. /\ iptr[p] = "enable" => iptr'[p] = IF Len(todo[p]) = 1 THEN "altwt" ELSE "enable"
      /\ iptr[p] = "disable" => iptr'[p] = IF Len(todo[p]) = 1 THEN "altend" ELSE "disable"
  BY <1>4 DEF Advance
<1> QED BY <1>4, <1>5, <1>6

(* When a guard has been enabled the rest of the list is still to be       *)
(* enabled.                                                                *)
LEMMA EnableNext ==
  ASSUME Types, NEW p \in Procs, ListAt(p), iptr[p] = "enable", NextGuard(p),
         guards'[p] = guards[p], style'[p] = style[p],
         style[p] = "procalt" => Len(todo[p]) = 1 \/ Head(todo[p]) \in Timers
  PROVE  /\ ListAt(p)' /\ Passed(p)' = Passed(p) \cup {Head(todo[p])}
         /\ iptr'[p] \in {"enable", "altwt"} /\ Len(todo'[p]) # Len(guards[p])
<1>1. PICK q \in Seq(Chans \cup Timers \cup {Skip}), gs \in Seq(Chans \cup Timers \cup {Skip}) : q = todo[p] /\ gs = guards[p]
  BY DEF Types
<1>2. q # << >> /\ Len(q) <= Len(gs) /\ \A i \in DOMAIN q : q[i] = gs[Len(gs) - Len(q) + i]
  BY <1>1 DEF ListAt
<1>3. /\ Len(q) \in Nat /\ Len(q) >= 1 /\ Head(q) = q[1] /\ Len(gs) \in Nat
      /\ Tail(q) \in Seq(Chans \cup Timers \cup {Skip}) /\ Len(Tail(q)) = Len(q) - 1
  BY <1>2, SeqFacts
<1>4. \A i \in DOMAIN Tail(q) : Tail(q)[i] = gs[Len(gs) - Len(Tail(q)) + i]
  BY <1>2, TailFacts, SMTT(30)
<1>5. /\ todo'[p] = Tail(q) /\ guards'[p] = gs
      /\ iptr'[p] = IF Len(q) = 1 THEN "altwt" ELSE "enable"
  BY <1>1, <1>2, NextGuardFacts, SMTT(30)
<1>6. PICK t \in Seq(Chans \cup Timers \cup {Skip}) : t = Tail(q) /\ Len(t) = Len(q) - 1
  BY <1>3
<1>7. t = << >> <=> Len(q) = 1
  <2>1. t = << >> <=> Len(t) = 0
    BY EmptyFacts
  <2> QED BY <1>3, <1>6, <2>1
<1>8. \E a \in Alts[p] : a.guards = gs /\ a.style = style'[p]
  BY <1>1 DEF ListAt, InAlt
<1>10. {gs[i] : i \in 1..(Len(gs) - Len(t))} = {gs[i] : i \in 1..(Len(gs) - Len(q))} \cup {Head(q)}
  <2>1. PICK n \in Nat : n = Len(q)
    BY <1>3
  <2>2. Len(gs) - n \in Nat
    BY <1>2, <1>3, <2>1
  <2>3. PICK m \in Nat : m = Len(gs) - Len(q)
    BY <2>1, <2>2
  <2>4. Len(gs) - Len(t) = m + 1
    BY <1>3, <1>6, <2>3
  <2>5. Head(q) = gs[m + 1]
    <3>1. 1 \in DOMAIN q
      BY <1>3, EmptyFacts
    <3> QED BY <1>2, <1>3, <2>3, <3>1
  <2>6. {gs[i] : i \in 1..(m + 1)} = {gs[i] : i \in 1..m} \cup {gs[m + 1]}
    <3>1. 1..(m + 1) = (1..m) \cup {m + 1}
      OBVIOUS
    <3> QED BY <3>1
  <2> QED BY <2>3, <2>4, <2>5, <2>6
<1>11. Passed(p)' = Passed(p) \cup {Head(todo[p])}
  <2>1. Passed(p)' = {gs[i] : i \in 1..(Len(gs) - Len(t))}
    BY <1>5, <1>6 DEF Passed
  <2>2. Passed(p) = {gs[i] : i \in 1..(Len(gs) - Len(q))}
    BY <1>1 DEF Passed
  <2> QED BY <1>1, <1>10, <2>1, <2>2
<1>9. ListAt(p)'
  <2>1. iptr'[p] = "enable" /\ style[p] = "procalt" => Passed(p)' \subseteq Timers
    <3>1. style[p] = "procalt" => Passed(p) \subseteq Timers
      BY DEF ListAt
    <3> QED BY <1>1, <1>5, <1>11, <3>1
  <2> QED BY <1>1, <1>2, <1>3, <1>4, <1>5, <1>6, <1>7, <1>8, <2>1 DEF ListAt, InAlt
<1> QED BY <1>1, <1>2, <1>3, <1>5, <1>9, <1>11

(* One guard less to disable.  What is lost from the list was not ready,   *)
(* or is selected.                                                         *)
SkippedOver(p) ==
  /\ temp'[p] = temp[p] /\ Head(todo[p]) \notin ready0[p]
  /\ ~Timed(guards[p]) => Chosen(p) \/ \E g \in Elems(Tail(todo[p])) : Ready(g)
SelectedNow(p) ==
  /\ Ready(Head(todo[p]))
  /\ temp'[p] = IF style[p] = "jump" \/ temp[p] = None THEN Head(todo[p]) ELSE temp[p]

(* When a guard has been disabled the rest of the list is still to be      *)
(* disabled.                                                               *)
LEMMA DisableList ==
  ASSUME Types, NEW p \in Procs, ListAt(p), iptr[p] = "disable", NextGuard(p),
         guards'[p] = guards[p], style'[p] = style[p], temp'[p] = None => temp[p] = None
  PROVE  /\ ListAt(p)' /\ iptr'[p] \in {"disable", "altend"}
         /\ iptr'[p] = "altend" => Len(todo[p]) = 1 /\ Elems(Tail(todo[p])) = {}
         /\ iptr'[p] = "disable" => todo'[p] = Tail(todo[p]) /\ Len(todo'[p]) = Len(todo[p]) - 1
<1>1. PICK q \in Seq(Chans \cup Timers \cup {Skip}), gs \in Seq(Chans \cup Timers \cup {Skip}) : q = todo[p] /\ gs = guards[p]
  BY DEF Types
<1>2. /\ q # << >> /\ Len(q) <= Len(gs) /\ Elems(q) \subseteq Elems(gs)
      /\ style[p] = "jump" => \A i \in DOMAIN q : q[i] = gs[Len(q) + 1 - i]
      /\ style[p] # "jump" /\ temp[p] = None => \A i \in DOMAIN q : q[i] = gs[Len(gs) - Len(q) + i]
  BY <1>1 DEF ListAt
<1>3. /\ Len(q) \in Nat /\ Len(q) >= 1 /\ Len(gs) \in Nat
      /\ Tail(q) \in Seq(Chans \cup Timers \cup {Skip}) /\ Len(Tail(q)) = Len(q) - 1
      /\ Elems(Tail(q)) \subseteq Elems(q)
  BY <1>2, SeqFacts
<1>4. /\ style[p] = "jump" => \A i \in DOMAIN Tail(q) : Tail(q)[i] = gs[Len(Tail(q)) + 1 - i]
      /\ style[p] # "jump" /\ temp[p] = None =>
           \A i \in DOMAIN Tail(q) : Tail(q)[i] = gs[Len(gs) - Len(Tail(q)) + i]
  BY <1>2, TailFacts, SMTT(30)
<1>5. PICK t \in Seq(Chans \cup Timers \cup {Skip}) : t = Tail(q) /\ Len(t) = Len(q) - 1
  BY <1>3
<1>6. t = << >> <=> Len(q) = 1
  <2>1. t = << >> <=> Len(t) = 0
    BY EmptyFacts
  <2> QED BY <1>3, <1>5, <2>1
<1>7. /\ todo'[p] = t /\ guards'[p] = gs
      /\ iptr'[p] = IF Len(q) = 1 THEN "altend" ELSE "disable"
  BY <1>1, <1>2, <1>5, NextGuardFacts
<1>8. \E a \in Alts[p] : a.guards = gs /\ a.style = style'[p]
  BY <1>1 DEF ListAt, InAlt
<1>9. ListAt(p)'
  BY <1>1, <1>2, <1>3, <1>4, <1>5, <1>6, <1>7, <1>8 DEF ListAt, InAlt
<1>10. Len(q) = 1 => Elems(t) = {}
  BY <1>6 DEF Elems
<1> QED BY <1>1, <1>5, <1>7, <1>9, <1>10

(* A guard that is passed over was not ready, or one is selected; and by   *)
(* priority.                                                               *)
LEMMA DisableNext ==
  ASSUME NEW tm, Types, NEW p \in Procs, FlowAt(tm, p), iptr[p] = "disable", NextGuard(p),
         UNCHANGED chan, guards'[p] = guards[p], style'[p] = style[p], ready0'[p] = ready0[p],
         ~Runs(p, DiscLabels)', SkippedOver(p) \/ SelectedNow(p)
  PROVE  /\ ListAt(p)' /\ SelectedAt(p)' /\ FirstAt(p)' /\ iptr'[p] \in {"disable", "altend"}
         /\ iptr'[p] = "disable" => todo'[p] = Tail(todo[p])
<1>1. ListAt(p) /\ SelectedAt(p) /\ FirstAt(p)
  BY DEF FlowAt
<1>2. PICK h \in Chans \cup Timers \cup {Skip} : h = Head(todo[p]) /\ h \in Elems(todo[p])
  BY <1>1, DisableFacts
<1>3. h # None /\ h # Junk
  BY GuardFacts
<1>4. \/ /\ temp'[p] = temp[p] /\ h \notin ready0[p]
         /\ ~Timed(guards[p]) => Chosen(p) \/ \E g \in Elems(Tail(todo[p])) : Ready(g)
      \/ Ready(h) /\ temp'[p] = h /\ (style[p] = "jump" \/ temp[p] = None)
      \/ temp'[p] = temp[p] /\ style[p] # "jump" /\ Chosen(p)
  BY <1>1, <1>2 DEF SkippedOver, SelectedNow, SelectedAt, Chosen
<1>5. /\ ListAt(p)' /\ iptr'[p] \in {"disable", "altend"}
      /\ iptr'[p] = "altend" => Len(todo[p]) = 1 /\ Elems(Tail(todo[p])) = {}
      /\ iptr'[p] = "disable" => todo'[p] = Tail(todo[p]) /\ Len(todo'[p]) = Len(todo[p]) - 1
  BY <1>1, <1>3, <1>4, DisableList
<1>6. \A g : Ready(g)' <=> Ready(g)
  BY DEF Ready
<1>7. Chosen(p)' => temp'[p] \in Elems(guards[p]) /\ Ready(temp'[p])
  BY <1>1, <1>2, <1>4, DisableFacts DEF SelectedAt, Chosen
<1>8. ~Timed(guards[p]) => Chosen(p)' \/ \E g \in Elems(Tail(todo[p])) : Ready(g)
  BY <1>3, <1>4 DEF Chosen
<1>9. SelectedAt(p)'
  <2>1. style[p] # "jump" => temp'[p] # Junk
    BY <1>1, <1>3, <1>4 DEF SelectedAt
  <2>2. Chosen(p)' => temp'[p] \in Elems(guards[p]) /\ Ready(temp[p])'
    BY <1>7 DEF Ready
  <2>3. ~Runs(p, {"disc_cas"})' /\ ~Runs(p, {"disc_dec"})'
    BY DEF Runs, DiscLabels, DistLabels
  <2>4. iptr'[p] = "disable" /\ ~Timed(guards[p]) => Chosen(p)' \/ \E g \in Elems(todo'[p]) : Ready(g)'
    BY <1>5, <1>6, <1>8
  <2>5. iptr'[p] = "altend" /\ ~Timed(guards[p]) => Chosen(p)'
    BY <1>5, <1>8
  <2>6. Timed(guards[p])' <=> Timed(guards[p])
    BY DEF Timed
  <2> QED BY <1>5, <2>1, <2>2, <2>3, <2>4, <2>5, <2>6 DEF SelectedAt
<1>10. \A g : Position(p, g)' = Position(p, g)
  BY DEF Position
<1>11. PICK m \in Nat, k \in Nat : m = Len(todo[p]) /\ k = Len(guards[p]) /\ m >= 1 /\ m <= k
  BY <1>1, DisableFacts
<1>12. /\ style[p] = "jump" => h = guards[p][m]
       /\ style[p] # "jump" /\ temp[p] = None => h = guards[p][k - m + 1]
  <2>1. todo[p] \in Seq(Chans \cup Timers \cup {Skip}) /\ todo[p] # << >>
    BY <1>1, DisableFacts
  <2>2. 1 \in DOMAIN todo[p] /\ h = todo[p][1]
    BY <1>2, <1>11, <2>1, EmptyFacts, SeqFacts
  <2>3. m + 1 - 1 = m
    OBVIOUS
  <2> QED BY <1>1, <1>11, <2>2, <2>3 DEF ListAt
<1>13. /\ h \in Elems(guards[p])
       /\ \A g \in ready0[p] : g \in Elems(guards[p]) /\ Ready(g)
  BY <1>1, <1>2, DisableFacts DEF FirstAt, InAlt
<1>14. \A g \in Elems(guards[p]) :
         /\ Position(p, g) \in 1..k /\ guards[p][Position(p, g)] = g
         /\ \A i \in 1..k : guards[p][i] = g => Position(p, g) <= i
  BY <1>11, PositionIs
<1>15. ASSUME NEW g \in ready0[p], style[p] # "jump", temp'[p] = None
       PROVE  Position(p, g) > k - (m - 1)
  <2>1. temp[p] = None /\ h \notin ready0[p]
    BY <1>3, <1>4, <1>15 DEF Chosen
  <2>2. Position(p, g) > k - m
    BY <1>1, <1>11, <1>15, <2>1 DEF FirstAt
  <2>3. Position(p, g) # k - m + 1
    BY <1>12, <1>13, <1>14, <1>15, <2>1
  <2> QED BY <1>13, <1>14, <2>2, <2>3
<1>16. ASSUME NEW g \in ready0[p], Chosen(p)'
       PROVE  (style[p] = "jump" /\ Position(p, g) <= m - 1) \/ Position(p, temp'[p]) <= Position(p, g)
  <2>1. Position(p, g) \in 1..k /\ Position(p, h) \in 1..k
    BY <1>13, <1>14
  <2>2. CASE temp'[p] = temp[p] /\ Chosen(p) /\ (style[p] = "jump" => h \notin ready0[p])
    <3>1. (style[p] = "jump" /\ Position(p, g) <= m) \/ Position(p, temp[p]) <= Position(p, g)
      BY <1>1, <1>11, <2>2 DEF FirstAt
    <3>2. style[p] = "jump" => Position(p, g) # m
      BY <1>12, <1>13, <1>14, <2>2
    <3> QED BY <2>1, <2>2, <3>1, <3>2
  <2>3. CASE temp'[p] = h /\ style[p] = "jump"
    <3>1. Position(p, h) <= m
      BY <1>11, <1>12, <1>13, <1>14, <2>3
    <3> QED BY <2>1, <2>3, <3>1
  <2>4. CASE temp'[p] = h /\ style[p] # "jump" /\ temp[p] = None
    <3>1. PICK j \in 1..k : j = k - m + 1
      <4>1. m >= 1 /\ m <= k
        BY <1>11
      <4>2. k - m + 1 \in 1..k
        BY ONLY <4>1, m \in Nat, k \in Nat
      <4> QED BY <4>2
    <3>2. Position(p, h) <= j
      BY <1>12, <1>13, <1>14, <2>4, <3>1
    <3>3. Position(p, g) > k - m
      BY <1>1, <1>11, <2>4 DEF FirstAt
    <3> QED BY <2>1, <2>4, <3>1, <3>2, <3>3
  <2>5. Chosen(p) \/ temp'[p] # temp[p]
    BY <1>16 DEF Chosen
  <2> QED BY <1>4, <2>2, <2>3, <2>4, <2>5
<1>17. FirstAt(p)'
  <2>1. \A g \in ready0[p] : g \in Elems(guards[p]) /\ Ready(g)'
    BY <1>6, <1>13
  <2>2. iptr'[p] = "disable" /\ style[p] # "jump" /\ temp'[p] = None =>
          \A g \in ready0[p] : Position(p, g)' > Len(guards[p]) - Len(todo'[p])
    BY <1>5, <1>10, <1>11, <1>15
  <2>3. iptr'[p] = "disable" /\ Chosen(p)' =>
          \A g \in ready0[p] : \/ style[p] = "jump" /\ Position(p, g)' <= Len(todo'[p])
                               \/ Position(p, temp[p])' <= Position(p, g)'
    <3>1. Position(p, temp[p])' = Position(p, temp'[p])
      BY DEF Position
    <3> QED BY <1>5, <1>10, <1>11, <1>16, <3>1
  <2>4. iptr'[p] = "altend" /\ Chosen(p)' => \A g \in ready0[p] : Position(p, temp[p])' <= Position(p, g)'
    <3>1. Position(p, temp[p])' = Position(p, temp'[p])
      BY DEF Position
    <3>2. iptr'[p] = "altend" => m = 1
      BY <1>5, <1>11
    <3>3. \A g \in ready0[p] : ~(Position(p, g) <= 0)
      BY <1>13, <1>14
    <3> QED BY <1>10, <1>16, <3>1, <3>2, <3>3
  <2> QED BY <1>5, <2>1, <2>2, <2>3, <2>4 DEF FirstAt, InAlt
<1> QED BY <1>5, <1>9, <1>17

(* What is left to know of a process that goes on disabling. *)
LEMMA DisableFlow ==
  ASSUME NEW tm, NEW p \in Procs, iptr'[p] \in {"disable", "altend"}, ListAt(p)', SelectedAt(p)', FirstAt(p)',
         state'[p].tag = "alt", state'[p].waiting <=> Off(p)' /\ iptr'[p] = "disable",
         iptr'[p] = "altend" => \E s \in Scheds : cur'[s] = p,
         ~Runs(p, {"altwt_clear"})', ~Runs(p, {"altend_dec"})', CountAt(tm, p)'
  PROVE  FlowAt(tm, p)'
<1>1. FlagsAt(p)' /\ XinAt(p)' /\ EnabledAt(p)'
  BY DEF FlagsAt, XinAt, EnabledAt, InAlt
<1> QED BY <1>1 DEF FlowAt

(* Nobody else triggers, and the references stay. *)
LEMMA SameRefs ==
  ASSUME NEW s \in Scheds, NEW p \in Procs, UNCHANGED chan, pc[s] \notin {"trigger", "walk_trigger"}, pc'[s] \notin {"trigger", "walk_trigger"},
         \A t \in Scheds : t # s => pc'[t] = pc[t] /\ tgt'[t] = tgt[t]
  PROVE  Refs(p)' = Refs(p) /\ (TriggeredOn(p)' <=> TriggeredOn(p))
<1>1. Triggers(p)' = Triggers(p) /\ InChans(p)' = InChans(p)
  BY DEF Triggers, InChans
<1>2. TriggeredOn(p)' <=> TriggeredOn(p)
  BY DEF TriggeredOn
<1> QED BY <1>1, <1>2 DEF Refs

(* The process goes on to the next guard that it disables. *)
LEMMA TimedDisableStep ==
  ASSUME NEW tm, NEW tn, IInv(tm), NEW s \in Scheds, NEW p \in Procs, cur[s] = p, iptr[p] = "disable",
         Same(tm, tn, {p}), p \notin tn.tin, tn.refs[p] \in Nat,
         IF pc[s] = "dist_dec" THEN tn.refs[p] = tm.refs[p] - 1 ELSE tn.refs[p] = tm.refs[p],
         pc[s] \in {"user"} \cup DiscLabels \cup DistLabels, NextGuard(p), SkippedOver(p) \/ SelectedNow(p),
         UNCHANGED <<chan, queued, io, ch, cur, guards, style, word, tgt, ready0>>,
         pc' = [pc EXCEPT ![s] = "user"],
         IF pc[s] \in {"disc_dec", "dist_dec"}
           THEN state' = [state EXCEPT ![p] = [state[p] EXCEPT !.n = @ - 1]]
           ELSE state' = state,
         temp' = temp \/ temp' = [temp EXCEPT ![p] = Head(todo[p])],
         \A d \in Chans : chan[d] = AltPtr(p) => d # Head(todo[p])
  PROVE  IInv(tn)'
<1>1. /\ Types /\ FlowAt(tm, p) /\ ~Off(p) /\ queued[p] = 0 /\ \A L : Runs(p, L) <=> pc[s] \in L
      /\ state[p] \in StateWords /\ state[p].tag = "alt" /\ ~state[p].waiting
      /\ \A c \in Chans : chan[c] = AltPtr(p) => Reader[c] = p /\ AltIn(p, c)
  BY AltFacts DEF InAlt
<1>2. /\ todo[p] \in Seq(Chans \cup Timers \cup {Skip}) /\ todo[p] # << >> /\ Head(todo[p]) \in Chans \cup Timers \cup {Skip}
      /\ Elems(todo[p]) = {Head(todo[p])} \cup Elems(Tail(todo[p])) /\ Len(todo[p]) \in Nat
  BY <1>1, DisableFacts DEF FlowAt
<1>3. /\ todo'[p] = Tail(todo[p]) /\ (\A r \in Procs : r # p => todo'[r] = todo[r] /\ iptr'[r] = iptr[r])
      /\ iptr'[p] = IF Len(todo[p]) = 1 THEN "altend" ELSE "disable"
      /\ todo' \in [Procs -> Seq(Chans \cup Timers \cup {Skip})] /\ iptr' \in [Procs -> Labels \cup {"timed"}]
  BY <1>1, <1>2, NextGuardFacts
<1>4. state[p].n - 1 \in Int
  <2>1. state[p] \in StateWords
    BY <1>1
  <2>2. state[p].n \in Int
    BY <2>1, StateFacts
  <2> QED BY <2>2
<1>5. /\ state' \in [Procs -> StateWords] /\ (\A r \in Procs : r # p => state'[r] = state[r])
      /\ state'[p].tag = "alt" /\ ~state'[p].waiting
      /\ state'[p].n = IF pc[s] \in {"disc_dec", "dist_dec"} THEN state[p].n - 1 ELSE state[p].n
  <2>1. CASE pc[s] \in {"disc_dec", "dist_dec"}
    <3>1. PICK w \in StateWords : w = [state[p] EXCEPT !.n = state[p].n - 1]
      BY <1>1, <1>4, StateUpdates
    <3>2. w.tag = "alt" /\ ~w.waiting /\ w.n = state[p].n - 1
      BY <1>1, <1>4, <3>1, StateUpdates
    <3>3. state' = [state EXCEPT ![p] = w]
      BY <2>1, <3>1
    <3>4. state \in [Procs -> StateWords]
      BY <1>1 DEF Types
    <3> QED BY <2>1, <3>2, <3>3, <3>4
  <2>2. CASE pc[s] \notin {"disc_dec", "dist_dec"}
    BY <1>1, <2>2 DEF Types
  <2> QED BY <2>1, <2>2
<1>6. temp' \in [Procs -> Chans \cup Timers \cup {Skip, None, Junk}] /\ \A r \in Procs : r # p => temp'[r] = temp[r]
  <2>1. temp \in [Procs -> Chans \cup Timers \cup {Skip, None, Junk}]
    BY <1>1 DEF Types
  <2>2. Head(todo[p]) \in Chans \cup Timers \cup {Skip, None, Junk}
    BY <1>2
  <2>3. temp' \in [Procs -> Chans \cup Timers \cup {Skip, None, Junk}]
    BY <2>1, <2>2
  <2> QED BY <2>1, <2>3
<1>7. pc' \in [Scheds -> PcLabels] /\ pc'[s] = "user" /\ \A t \in Scheds : t # s => pc'[t] = pc[t]
  BY <1>1 DEF Types, PcLabels
<1>8. Types'
  BY <1>1, <1>3, <1>5, <1>6, <1>7 DEF Types
<1>9. Touch(s, {p})
  <2>1. Alone(s, p)
    BY <1>3, <1>5, <1>6, <1>7 DEF Alone
  <2> QED BY <2>1, AloneTouch
<1>10. ~Off(p)' /\ \A L : Runs(p, L)' <=> pc'[s] \in L
  BY <1>7, <1>9, RunnerNext
<1>11. ListAt(p)' /\ SelectedAt(p)' /\ FirstAt(p)' /\ iptr'[p] \in {"disable", "altend"}
  <2>1. ~Runs(p, DiscLabels)'
    BY <1>7, <1>10 DEF DiscLabels, DistLabels
  <2> QED BY <1>1, <2>1, DisableNext
<1>12. CountAt(tn, p)'
  <2>1. Refs(p)' = Refs(p) /\ Refs(p) \in Nat
    BY <1>1, <1>7, SameRefs, RefsFacts DEF DiscLabels, DistLabels
  <2>2. state[p].n = 1 + Refs(p) + tm.refs[p] + (IF pc[s] = "disc_dec" THEN 1 ELSE 0) /\ tm.refs[p] \in Nat
    <3>1. CountAt(tm, p) /\ InAlt(p)
      BY <1>1 DEF FlowAt, InAlt
    <3>2. /\ Runs(p, {"disc_dec"}) <=> pc[s] = "disc_dec"
          /\ ~Runs(p, {"enbc_inc", "enbc_restore"})
      BY <1>1 DEF DiscLabels, DistLabels
    <3> QED BY <2>1, <3>1, <3>2 DEF CountAt
  <2>3. state'[p].n = 1 + Refs(p)' + tn.refs[p]
    BY <1>5, <2>1, <2>2
  <2>4. ~Runs(p, {"disc_dec"})' /\ ~Runs(p, {"enbc_inc", "enbc_restore"})' /\ ~Runs(p, {"altend_dec"})'
    BY <1>7, <1>10
  <2>5. InAlt(p)' /\ iptr'[p] \notin {"selected", "xin"}
    BY <1>11 DEF InAlt
  <2> QED BY <1>10, <2>1, <2>3, <2>4, <2>5 DEF CountAt
<1>13. FlowAt(tn, p)'
  <2>1. ~Runs(p, {"altwt_clear"})' /\ ~Runs(p, {"altend_dec"})'
    BY <1>7, <1>10
  <2> QED BY <1>5, <1>10, <1>11, <1>12, <2>1, DisableFlow
<1>14. ASSUME NEW d \in Chans, chan[d] = AltPtr(p) PROVE AltIn(p, d)'
  <2>1. d \in Elems(todo[p])
    <3>1. AltIn(p, d) /\ ~Runs(p, {"enbc_restore"})
      BY <1>1, <1>14 DEF DiscLabels, DistLabels
    <3> QED BY <3>1 DEF AltIn
  <2>2. d \in Elems(Tail(todo[p]))
    BY <1>2, <1>14, <2>1
  <2>3. iptr'[p] = "disable"
    <3>1. Len(todo[p]) = 1 => Elems(Tail(todo[p])) = {}
      BY <1>2, LastFacts
    <3> QED BY <1>3, <2>2, <3>1
  <2> QED BY <1>3, <2>2, <2>3 DEF AltIn
<1>15. /\ InAlt(p) /\ pc'[s] \notin {"enbc_swap"} \cup DiscLabels \cup DistLabels
       /\ iptr'[p] # "selected" /\ iptr'[p] \in {"enable", "altwt", "disable", "altend", "selected"}
  BY <1>7, <1>11 DEF InAlt, DiscLabels, DistLabels
<1>16. /\ \A t \in Scheds : t # s => pc'[t] = pc[t] /\ word'[t] = word[t] /\ tgt'[t] = tgt[t]
       /\ \A r \in Procs : r # p =>
            /\ state'[r] = state[r] /\ temp'[r] = temp[r] /\ iptr'[r] = iptr[r] /\ guards'[r] = guards[r]
            /\ style'[r] = style[r] /\ todo'[r] = todo[r] /\ ready0'[r] = ready0[r]
       /\ UNCHANGED <<chan, queued, io, ch, cur>> /\ pc'[s] = "user"
  BY <1>3, <1>5, <1>6, <1>7
<1> QED BY <1>8, <1>13, <1>14, <1>15, <1>16, TimedAltQuietStep

(* The same for a step that has nothing to do with timers. *)
LEMMA DisableStep ==
  ASSUME NEW tm, IInv(tm), NEW s \in Scheds, NEW p \in Procs, cur[s] = p, iptr[p] = "disable",
         pc[s] \in {"user", "dist_swap"} \cup DiscLabels, NextGuard(p), SkippedOver(p) \/ SelectedNow(p),
         UNCHANGED <<chan, queued, io, ch, cur, guards, style, word, tgt, ready0>>,
         pc' = [pc EXCEPT ![s] = "user"],
         IF pc[s] = "disc_dec" THEN state' = [state EXCEPT ![p] = [state[p] EXCEPT !.n = @ - 1]]
                               ELSE state' = state,
         temp' = temp \/ temp' = [temp EXCEPT ![p] = Head(todo[p])],
         \A d \in Chans : chan[d] = AltPtr(p) => d # Head(todo[p])
  PROVE  IInv(tm)'
<1>1. Same(tm, tm, {p})
  BY DEF Same
<1>2. p \notin tm.tin /\ tm.refs[p] \in Nat
  BY RunnerFacts
<1>3. pc[s] # "dist_dec" /\ pc[s] \in {"user"} \cup DiscLabels \cup DistLabels
  BY DEF DiscLabels, DistLabels
<1> QED BY <1>1, <1>2, <1>3, TimedDisableStep

(* disc_cas: a guard whose channel still has the ALT in it is left. *)
LEMMA DiscStep ==
  ASSUME NEW tm, IInv(tm), NEW s \in Scheds, NEW p \in Procs, Disc(s, p)
  PROVE  IInv(tm)'
<1>1. /\ pc[s] = "user" /\ cur[s] = p /\ iptr[p] = "disable"
      /\ UNCHANGED <<queued, chan, state, guards, style, ch, word, tgt, io, ready0>>
  BY DEF Disc, At, altVars, localVars, histVars
<1>2. PICK h \in Chans : h = Head(todo[p])
  BY DEF Disc
<1>3. /\ Types /\ FlowAt(tm, p) /\ ~Off(p) /\ \A L : Runs(p, L) <=> pc[s] \in L
      /\ \A c \in Chans : c \in Elems(guards[p]) => Reader[c] = p
      /\ \A c \in Chans : chan[c] = AltPtr(p) => Reader[c] = p /\ AltIn(p, c)
      /\ state[p].tag = "alt" /\ ~state[p].waiting
  BY <1>1, AltFacts DEF InAlt
<1>4. h \in Elems(todo[p]) /\ Elems(todo[p]) \subseteq Elems(guards[p])
      /\ Elems(todo[p]) = {h} \cup Elems(Tail(todo[p]))
  BY <1>2, <1>3, DisableFacts, <1>1 DEF FlowAt
<1>5. Reader[h] = p
  BY <1>3, <1>4
<1>6. chan[h] = Empty \/ chan[h] = AltPtr(p) \/ Ready(h)
  BY <1>1, <1>5, AltSeen DEF InAlt
<1>7. pc \in [Scheds -> PcLabels] /\ cur \in [Scheds -> Procs \cup {NotProcess}]
  BY <1>3 DEF Types
<1>8. CASE chan[h] # AltPtr(p)
  <2>1. NextGuard(p) /\ UNCHANGED <<pc, cur>>
    BY <1>2, <1>8 DEF Disc
  <2>2. SkippedOver(p) \/ SelectedNow(p)
    <3>1. CASE chan[h] = Empty
      <4>1. temp' = temp
        BY <1>2, <1>8, <3>1 DEF Disc
      <4>2. ~Ready(h)
        <5>1. Writer[h] \in Procs /\ h # Skip /\ h \notin Timers
          BY EndFacts, GuardFacts
        <5> QED BY <3>1, <5>1, WordFacts DEF Ready
      <4>3. h \notin ready0[p]
        BY <1>1, <1>3, <4>2 DEF FlowAt, FirstAt, InAlt
      <4>4. ~Timed(guards[p]) => Chosen(p) \/ \E g \in Elems(todo[p]) : Ready(g)
        BY <1>1, <1>3 DEF FlowAt, SelectedAt
      <4> QED BY <1>2, <1>4, <4>1, <4>2, <4>3, <4>4 DEF SkippedOver
    <3>2. CASE chan[h] # Empty
      <4>1. Select(p, h)
        BY <1>2, <1>8, <3>2 DEF Disc
      <4>2. temp \in [Procs -> Chans \cup Timers \cup {Skip, None, Junk}]
        BY <1>3 DEF Types
      <4>3. temp'[p] = IF style[p] = "jump" \/ temp[p] = None THEN h ELSE temp[p]
        BY <4>1, <4>2 DEF Select
      <4> QED BY <1>2, <1>6, <1>8, <3>2, <4>3 DEF SelectedNow
    <3> QED BY <3>1, <3>2
  <2>3. temp' = temp \/ temp' = [temp EXCEPT ![p] = h]
    BY <1>2, <1>8 DEF Disc, Select
  <2>4. pc' = [pc EXCEPT ![s] = "user"]
    BY <1>1, <1>7, <2>1
  <2> QED BY <1>1, <1>2, <1>8, <2>1, <2>2, <2>3, <2>4, DisableStep
<1>9. CASE chan[h] = AltPtr(p)
  <2>1. Goto(s, "disc_cas") /\ UNCHANGED <<temp, todo, iptr>>
    BY <1>2, <1>9 DEF Disc
  <2>2. pc' = [pc EXCEPT ![s] = "disc_cas"] /\ cur' = cur
    BY <2>1 DEF Goto
  <2>3. pc' \in [Scheds -> PcLabels] /\ pc'[s] = "disc_cas" /\ \A t \in Scheds : t # s => pc'[t] = pc[t]
    BY <1>7, <2>2 DEF PcLabels, DiscLabels, DistLabels
  <2>4. Types'
    BY <1>1, <1>3, <2>1, <2>2, <2>3 DEF Types
  <2>5. Touch(s, {p})
    <3>1. Alone(s, p)
      BY <1>1, <2>1, <2>2, <2>3 DEF Alone
    <3> QED BY <1>1, <3>1, AloneTouch
  <2>6. ~Off(p)' /\ \A L : Runs(p, L)' <=> pc'[s] \in L
    BY <1>1, <2>2, <2>3, <2>5, RunnerNext
  <2>7. Refs(p)' = Refs(p) /\ (TriggeredOn(p)' <=> TriggeredOn(p))
    BY <1>1, <2>3, SameRefs
  <2>8. ListAt(p)' /\ FirstAt(p)'
    <3>1. \A g : (Ready(g)' <=> Ready(g)) /\ Position(p, g)' = Position(p, g)
      BY <1>1 DEF Ready, Position
    <3>2. ListAt(p)'
      BY <1>1, <1>3, <2>1 DEF FlowAt, ListAt, InAlt
    <3>3. FirstAt(p)'
      <4>1. Position(p, temp[p])' = Position(p, temp[p])
        BY <1>1, <2>1 DEF Position
      <4>2. FirstAt(p)
        BY <1>3 DEF FlowAt
      <4> QED BY <1>1, <2>1, <3>1, <4>1, <4>2 DEF FirstAt, InAlt, Chosen
    <3> QED BY <3>2, <3>3
  <2>9. SelectedAt(p)'
    <3>1. \A g : Ready(g)' <=> Ready(g)
      BY <1>1 DEF Ready
    <3>2. chan[h] # Empty
      BY <1>9, WordFacts
    <3>3. SelectedAt(p)
      BY <1>3 DEF FlowAt
    <3>4. iptr'[p] = "disable" /\ style'[p] = style[p] /\ temp'[p] = temp[p] /\ todo'[p] = todo[p]
          /\ guards'[p] = guards[p] /\ state'[p] = state[p] /\ chan' = chan
      BY <1>1, <2>1
    <3>5. /\ ~Runs(p, {"disc_dec"})'
          /\ Chosen(p)' <=> Chosen(p)
      BY <2>3, <2>6, <3>4 DEF Chosen
    <3>6. Chosen(p)' => temp'[p] \in Elems(guards'[p]) /\ Ready(temp[p])'
      BY <1>1, <3>1, <3>3, <3>4, <3>5 DEF SelectedAt, Ready
    <3>7. (Head(todo[p]) = h)'
      BY <1>2, <3>4
    <3>8. ~Timed(guards'[p]) => Chosen(p)' \/ \E g \in Elems(todo'[p]) : Ready(g)'
      <4>1. ~Timed(guards[p]) => Chosen(p) \/ \E g \in Elems(todo[p]) : Ready(g)
        BY <1>1, <1>3, <3>3 DEF SelectedAt
      <4>2. guards'[p] = guards[p] /\ todo'[p] = todo[p] /\ (Chosen(p)' <=> Chosen(p))
        BY <3>4, <3>5
      <4> QED BY <3>1, <4>1, <4>2
    <3>9. style[p] # "jump" => temp[p] # Junk
      BY <1>1, <3>3 DEF SelectedAt
    <3>10. chan'[(Head(todo[p]))'] # Empty
      BY <3>2, <3>4, <3>7
    <3>11. Timed(guards[p])' <=> Timed(guards'[p])
      BY DEF Timed
    <3> QED BY <3>4, <3>5, <3>6, <3>8, <3>9, <3>10, <3>11 DEF SelectedAt
  <2>10. CountAt(tm, p)'
    <3>1. CountAt(tm, p)
      BY <1>3 DEF FlowAt
    <3>2. /\ ~Runs(p, {"disc_dec"}) /\ ~Runs(p, {"enbc_inc", "enbc_restore"})
          /\ ~Runs(p, {"disc_dec"})' /\ ~Runs(p, {"enbc_inc", "enbc_restore"})' /\ ~Runs(p, {"altend_dec"})'
      BY <1>1, <1>3, <2>3, <2>6
    <3> QED BY <1>1, <2>1, <2>6, <2>7, <3>1, <3>2 DEF CountAt, InAlt
  <2>11. FlowAt(tm, p)'
    <3>1. ~Runs(p, {"altwt_clear"})' /\ ~Runs(p, {"altend_dec"})'
      BY <2>3, <2>6
    <3> QED BY <1>1, <1>3, <2>1, <2>6, <2>8, <2>9, <2>10, <3>1, DisableFlow
  <2>12. \A d \in Chans : chan[d] = AltPtr(p) => AltIn(p, d)'
    <3> SUFFICES ASSUME NEW d \in Chans, chan[d] = AltPtr(p) PROVE AltIn(p, d)'
      OBVIOUS
    <3>1. d \in Elems(todo[p])
      <4>1. AltIn(p, d) /\ ~Runs(p, {"enbc_restore"})
        BY <1>1, <1>3
      <4> QED BY <1>1, <4>1 DEF AltIn
    <3> QED BY <1>1, <2>1, <3>1 DEF AltIn
  <2>13. InAlt(p) /\ pc'[s] \in DiscLabels /\ iptr'[p] = "disable" /\ (Head(todo[p]) \in Chans)'
         /\ pc'[s] \notin DistLabels /\ UNCHANGED <<chan, queued, io, ch, cur>>
    BY <1>1, <1>2, <2>1, <2>2, <2>3 DEF InAlt, DiscLabels, DistLabels
  <2> QED BY <1>1, <2>1, <2>3, <2>4, <2>11, <2>12, <2>13, AltQuietStep
<1> QED BY <1>8, <1>9

(* A step that changes the word of a channel the ALT reads from. *)
LEMMA AltChanStep ==
  ASSUME NEW tm, IInv(tm), NEW s \in Scheds, NEW p \in Procs, cur[s] = p, InAlt(p), Types',
         NEW c \in Chans, Reader[c] = p,
         UNCHANGED <<queued, state, temp, iptr, guards, style, todo, ch, cur, io, ready0>>,
         \A d \in Chans : d # c => chan'[d] = chan[d],
         ChanAt(tm, c)', chan'[c] \in {Empty, AltPtr(p), Wptr(Writer[c])},
         \A t \in Scheds : t # s => pc'[t] = pc[t] /\ word'[t] = word[t] /\ tgt'[t] = tgt[t],
         \/ pc'[s] \in {"enbc_inc", "enbc_restore", "enb_ready"} /\ iptr[p] = "enable"
         \/ pc'[s] = "disc_dec" /\ iptr[p] = "disable",
         pc'[s] # "enb_ready" => Head(todo[p]) \in Chans,
         HoldAt(tm, s)',
         \A d \in Chans : d # c /\ chan[d] = AltPtr(p) => AltIn(p, d)',
         FlowAt(tm, p)'
  PROVE  IInv(tm)'
<1>1. /\ ~Off(p) /\ queued[p] = 0 /\ io[p] = R!Idle
      /\ pc[s] \in {"user"} \cup EnbcLabels \cup EnbLabels \cup AltwtLabels \cup DiscLabels \cup DistLabels
  BY AltFacts
<1>2. pc'[s] \notin IdleLabels \cup IoLabels \cup XableLabels \cup XendLabels \cup AltwtLabels \cup DistLabels
  BY DEF IdleLabels, IoLabels, XableLabels, XendLabels, AltwtLabels, DistLabels
<1>3. Touch(s, {p})
  <2>1. Alone(s, p)
    BY <1>2 DEF Alone, IdleLabels
  <2> QED BY <2>1, AloneTouch
<1>4. ~Transferred(p) /\ ~Transferred(p)'
  BY DEF Transferred, InAlt
<1>5. RunAt(s)'
  <2>1. pc'[s] \in EnbcLabels \cup EnbLabels => iptr'[p] = "enable"
    BY DEF EnbcLabels, EnbLabels
  <2>2. pc'[s] \in EnbcLabels => Head(todo[p]) \in Chans
    BY DEF EnbcLabels
  <2>3. pc'[s] \in DiscLabels => iptr'[p] = "disable" /\ Head(todo[p]) \in Chans
    BY DEF DiscLabels, DistLabels
  <2>4. cur'[s] = p /\ p # NotProcess /\ todo' = todo /\ pc'[s] # "altend_dec"
    <3>1. p # NotProcess
      BY NotProcessAssumption
    <3> QED BY <3>1
  <2> QED BY <1>2, <2>1, <2>2, <2>3, <2>4 DEF RunAt, IdleLabels, IoLabels, XableLabels, XendLabels
<1>6. IoAt(p)'
  BY <1>1 DEF IoAt
<1>7. pc[s] # "io_clear" /\ pc'[s] \notin {"trigger", "trigger_enqueue", "walk_trigger", "walk_enqueue"}
  BY <1>1 DEF EnbcLabels, EnbLabels, AltwtLabels, DiscLabels, DistLabels
<1>8. Moved(tm, p)
  <2> SUFFICES ASSUME NEW d \in Chans, chan'[d] # chan[d]
               PROVE  /\ p \in Ends(d) /\ ChanAt(tm, d)' /\ Reader[d] = p
                      /\ \A r \in Procs : r # p => chan'[d] # AltPtr(r)
    BY DEF Moved
  <2>1. d = c /\ p \in Ends(d)
    BY EndFacts
  <2>2. Writer[c] \in Procs
    BY EndFacts
  <2>3. ASSUME NEW r \in Procs, r # p PROVE chan'[d] # AltPtr(r)
    BY <2>1, <2>2, <2>3, WordFacts
  <2> QED BY <2>1, <2>3
<1>9. ASSUME NEW d \in Chans, chan'[d] = chan[d], chan[d] = AltPtr(p) PROVE AltIn(p, d)'
  <2>1. CASE d = c
    BY <1>9, <2>1 DEF ChanAt
  <2>2. CASE d # c
    BY <1>9, <2>2
  <2> QED BY <2>1, <2>2
<1>10. TriggeredOn(p) => Target(p)'
  BY DEF Target, InAlt
<1> QED BY <1>1, <1>3, <1>4, <1>5, <1>6, <1>7, <1>8, <1>9, <1>10, OwnStep

(* The ALT leaves a channel. *)
LEMMA LeaveRefs ==
  ASSUME NEW s \in Scheds, NEW p \in Procs, NEW c \in Chans, chan[c] = AltPtr(p), chan'[c] # AltPtr(p),
         \A d \in Chans : d # c => chan'[d] = chan[d], pc[s] \notin {"trigger", "walk_trigger"}, pc'[s] \notin {"trigger", "walk_trigger"},
         \A t \in Scheds : t # s => pc'[t] = pc[t] /\ tgt'[t] = tgt[t]
  PROVE  Refs(p)' = Refs(p) - 1 /\ (TriggeredOn(p)' <=> TriggeredOn(p))
<1>1. Triggers(p)' = Triggers(p) /\ InChans(p)' = InChans(p) \ {c} /\ c \in InChans(p)
  BY DEF Triggers, InChans
<1>2. TriggeredOn(p)' <=> TriggeredOn(p)
  BY DEF TriggeredOn
<1>3. Cardinality(InChans(p) \ {c}) = Cardinality(InChans(p)) - 1
  BY <1>1, RefsFacts, CardStep
<1>4. Cardinality(InChans(p)) \in Nat /\ Cardinality(Triggers(p)) \in Nat
  BY RefsFacts
<1> QED BY <1>1, <1>2, <1>3, <1>4 DEF Refs

(* The ALT enters a channel. *)
LEMMA EnterRefs ==
  ASSUME NEW s \in Scheds, NEW p \in Procs, NEW c \in Chans, chan[c] # AltPtr(p), chan'[c] = AltPtr(p),
         \A d \in Chans : d # c => chan'[d] = chan[d], pc[s] \notin {"trigger", "walk_trigger"}, pc'[s] \notin {"trigger", "walk_trigger"},
         \A t \in Scheds : t # s => pc'[t] = pc[t] /\ tgt'[t] = tgt[t]
  PROVE  Refs(p)' = Refs(p) + 1 /\ (TriggeredOn(p)' <=> TriggeredOn(p))
<1>1. Triggers(p)' = Triggers(p) /\ InChans(p)' = InChans(p) \cup {c} /\ c \notin InChans(p)
  BY DEF Triggers, InChans
<1>2. TriggeredOn(p)' <=> TriggeredOn(p)
  BY DEF TriggeredOn
<1>3. Cardinality(InChans(p) \cup {c}) = Cardinality(InChans(p)) + 1
  BY <1>1, RefsFacts, CardStep
<1>4. Cardinality(InChans(p)) \in Nat /\ Cardinality(Triggers(p)) \in Nat
  BY RefsFacts
<1> QED BY <1>1, <1>2, <1>3, <1>4 DEF Refs

(* The compare-and-swap of kernel_disc: the ALT leaves the channel, or the *)
(* guard has become ready.                                                 *)
LEMMA DiscCasStep ==
  ASSUME NEW tm, IInv(tm), NEW s \in Scheds, NEW p \in Procs, DiscCas(s, p)
  PROVE  IInv(tm)'
<1>1. /\ pc[s] = "disc_cas" /\ cur[s] = p
      /\ UNCHANGED <<queued, state, guards, style, ch, word, tgt, io, ready0>>
  BY DEF DiscCas, InKernel, altVars, localVars, histVars
<1>2. iptr[p] = "disable" /\ Head(todo[p]) \in Chans
  BY <1>1 DEF IInv, RunAt, DiscLabels, DistLabels
<1>3. PICK h \in Chans : h = Head(todo[p])
  BY <1>2
<1>4. /\ Types /\ FlowAt(tm, p) /\ ~Off(p) /\ \A L : Runs(p, L) <=> pc[s] \in L
      /\ \A c \in Chans : c \in Elems(guards[p]) => Reader[c] = p
      /\ \A c \in Chans : chan[c] = AltPtr(p) => Reader[c] = p /\ AltIn(p, c)
      /\ state[p].tag = "alt" /\ ~state[p].waiting /\ state[p] \in StateWords
  BY <1>1, <1>2, AltFacts DEF InAlt
<1>5. h \in Elems(todo[p]) /\ Elems(todo[p]) \subseteq Elems(guards[p])
      /\ Elems(todo[p]) = {h} \cup Elems(Tail(todo[p]))
  BY <1>2, <1>3, <1>4, DisableFacts DEF FlowAt
<1>6. Reader[h] = p /\ Writer[h] \in Procs /\ h # Skip /\ h \notin Timers
  BY <1>4, <1>5, EndFacts, GuardFacts
<1>7. chan[h] = AltPtr(p) \/ Ready(h)
  <2>1. chan[h] = Empty \/ chan[h] = AltPtr(p) \/ Ready(h)
    BY <1>1, <1>2, <1>6, AltSeen DEF InAlt
  <2>2. SelectedAt(p) /\ Runs(p, {"disc_cas"})
    BY <1>1, <1>4 DEF FlowAt
  <2>3. chan[h] # Empty
    BY <1>2, <1>3, <2>2 DEF SelectedAt
  <2> QED BY <2>1, <2>3
<1>8. pc \in [Scheds -> PcLabels] /\ cur \in [Scheds -> Procs \cup {NotProcess}]
      /\ temp \in [Procs -> Chans \cup Timers \cup {Skip, None, Junk}] /\ chan \in [Chans -> ChanWord]
  BY <1>4 DEF Types
<1>9. CASE chan[h] # AltPtr(p)
  <2>1. Select(p, h) /\ NextGuard(p) /\ pc' = [pc EXCEPT ![s] = "user"] /\ cur' = cur /\ chan' = chan
    BY <1>3, <1>9 DEF DiscCas, Goto
  <2>2. temp'[p] = IF style[p] = "jump" \/ temp[p] = None THEN h ELSE temp[p]
    BY <1>8, <2>1 DEF Select
  <2>3. SelectedNow(p)
    BY <1>3, <1>7, <1>9, <2>2 DEF SelectedNow
  <2>4. temp' = temp \/ temp' = [temp EXCEPT ![p] = h]
    BY <2>1 DEF Select
  <2> QED BY <1>1, <1>2, <1>3, <1>9, <2>1, <2>3, <2>4, DisableStep DEF DiscLabels, DistLabels
<1>10. CASE chan[h] = AltPtr(p)
  <2>1. /\ chan' = [chan EXCEPT ![h] = Empty] /\ pc' = [pc EXCEPT ![s] = "disc_dec"]
        /\ UNCHANGED <<cur, temp, todo, iptr>>
    BY <1>3, <1>10 DEF DiscCas, SetChan, Goto
  <2>2. /\ pc' \in [Scheds -> PcLabels] /\ pc'[s] = "disc_dec" /\ \A t \in Scheds : t # s => pc'[t] = pc[t]
    BY <1>8, <2>1 DEF PcLabels, DiscLabels, DistLabels
  <2>3. /\ chan' \in [Chans -> ChanWord] /\ chan'[h] = Empty /\ \A d \in Chans : d # h => chan'[d] = chan[d]
    BY <1>8, <2>1, WordFacts
  <2>4. Types'
    BY <1>1, <1>4, <2>1, <2>2, <2>3 DEF Types
  <2>5. Touch(s, {p})
    <3>1. Alone(s, p)
      BY <1>1, <2>1, <2>2 DEF Alone
    <3> QED BY <1>1, <3>1, AloneTouch
  <2>6. ~Off(p)' /\ \A L : Runs(p, L)' <=> pc'[s] \in L
    BY <1>1, <2>1, <2>2, <2>5, RunnerNext
  <2>7. Refs(p)' = Refs(p) - 1 /\ (TriggeredOn(p)' <=> TriggeredOn(p)) /\ Refs(p) \in Nat
    <3>1. chan'[h] # AltPtr(p)
      BY <2>3, WordFacts
    <3> QED BY <1>1, <1>10, <2>2, <2>3, <3>1, LeaveRefs, RefsFacts
  <2>8. ~Ready(h) /\ ~Ready(h)'
    <3>1. Wptr(Writer[h]) # AltPtr(p) /\ Wptr(Writer[h]) # Empty
      BY <1>6, WordFacts
    <3> QED BY <1>6, <1>10, <2>3, <3>1 DEF Ready
  <2>9. \A g : Ready(g)' <=> Ready(g)
    <3> SUFFICES ASSUME NEW g PROVE Ready(g)' <=> Ready(g)
      OBVIOUS
    <3>1. CASE g = h
      BY <2>8, <3>1
    <3>2. CASE g # h
      BY <2>3, <3>2 DEF Ready
    <3> QED BY <3>1, <3>2
  <2>10. ListAt(p)'
    BY <1>1, <1>2, <1>4, <2>1 DEF FlowAt, ListAt, InAlt
  <2>11. FirstAt(p)'
    <3>1. \A g : Position(p, g)' = Position(p, g)
      BY <1>1 DEF Position
    <3>2. Position(p, temp[p])' = Position(p, temp[p])
      BY <1>1, <2>1 DEF Position
    <3>3. FirstAt(p)
      BY <1>4 DEF FlowAt
    <3> QED BY <1>1, <1>2, <2>1, <2>9, <3>1, <3>2, <3>3 DEF FirstAt, InAlt, Chosen
  <2>12. SelectedAt(p)'
    <3>1. SelectedAt(p) /\ FirstAt(p)
      BY <1>4 DEF FlowAt
    <3>2. iptr'[p] = "disable" /\ style'[p] = style[p] /\ temp'[p] = temp[p] /\ todo'[p] = todo[p]
          /\ guards'[p] = guards[p] /\ state'[p] = state[p] /\ ready0'[p] = ready0[p]
      BY <1>1, <1>2, <2>1
    <3>3. /\ ~Runs(p, {"disc_cas"})'
          /\ Chosen(p)' <=> Chosen(p)
      BY <2>2, <2>6, <3>2 DEF Chosen
    <3>4. Chosen(p) => temp[p] \in Elems(guards[p]) /\ Ready(temp[p])
      BY <1>2, <3>1 DEF SelectedAt
    <3>5. Chosen(p)' => temp'[p] \in Elems(guards'[p]) /\ Ready(temp[p])'
      <4>1. PICK g : g = temp[p] /\ temp'[p] = g
        BY <3>2
      <4>2. Ready(temp[p])' <=> Ready(g)'
        BY <4>1 DEF Ready
      <4> QED BY <2>9, <3>2, <3>3, <3>4, <4>1, <4>2
    <3>6. ~Timed(guards[p]) => Chosen(p) \/ \E g \in Elems(todo[p]) : Ready(g)
      BY <1>2, <1>4, <3>1 DEF SelectedAt
    <3>7. ~Timed(guards[p]) => Chosen(p) \/ \E g \in Elems(Tail(todo[p])) : Ready(g)
      BY <1>5, <2>8, <3>6
    <3>8. h \notin ready0[p]
      BY <1>2, <2>8, <3>1 DEF FirstAt, InAlt
    <3>9. (Head(todo[p]))' = h /\ (Tail(todo[p]))' = Tail(todo[p])
      BY <1>3, <3>2
    <3>10. chan'[h] # AltPtr(p)
      BY <2>3, WordFacts
    <3>11. ~Timed(guards[p]) => Chosen(p)' \/ \E g \in Elems((Tail(todo[p]))') : Ready(g)'
      BY <2>9, <3>3, <3>7, <3>9
    <3>12. ~Timed(guards[p]) => Chosen(p)' \/ \E g \in Elems(todo'[p]) : Ready(g)'
      BY <2>9, <3>2, <3>3, <3>6
    <3>13. style[p] # "jump" => temp[p] # Junk
      BY <1>2, <3>1 DEF SelectedAt
    <3>14. Timed(guards[p])' <=> Timed(guards[p])
      BY <3>2 DEF Timed
    <3> QED BY <3>2, <3>3, <3>5, <3>8, <3>9, <3>10, <3>11, <3>12, <3>13, <3>14 DEF SelectedAt
  <2>13. CountAt(tm, p)'
    <3>1. CountAt(tm, p) /\ state[p].n \in Int
      BY <1>4, StateFacts DEF FlowAt
    <3>2. /\ ~Runs(p, {"disc_dec"}) /\ ~Runs(p, {"enbc_inc", "enbc_restore"})
          /\ Runs(p, {"disc_dec"})' /\ ~Runs(p, {"enbc_inc", "enbc_restore"})' /\ ~Runs(p, {"altend_dec"})'
      BY <1>1, <1>4, <2>2, <2>6
    <3>3. state[p].n = 1 + Refs(p) + tm.refs[p] /\ tm.refs[p] \in Nat
      BY <1>2, <2>7, <3>1, <3>2 DEF CountAt, InAlt
    <3>4. state'[p].n = 1 + Refs(p)' + tm.refs[p] + 1 - 0
      BY <1>1, <2>7, <3>3
    <3> QED BY <1>2, <2>1, <2>6, <3>2, <3>3, <3>4 DEF CountAt, InAlt
  <2>14. FlowAt(tm, p)'
    <3>1. ~Runs(p, {"altwt_clear"})' /\ ~Runs(p, {"altend_dec"})'
      BY <2>2, <2>6
    <3> QED BY <1>1, <1>2, <1>4, <2>1, <2>6, <2>10, <2>11, <2>12, <2>13, <3>1, DisableFlow
  <2>15. \A d \in Chans : d # h /\ chan[d] = AltPtr(p) => AltIn(p, d)'
    <3> SUFFICES ASSUME NEW d \in Chans, chan[d] = AltPtr(p) PROVE AltIn(p, d)'
      OBVIOUS
    <3>1. d \in Elems(todo[p])
      <4>1. AltIn(p, d) /\ ~Runs(p, {"enbc_restore"})
        BY <1>1, <1>4
      <4> QED BY <1>2, <4>1 DEF AltIn
    <3> QED BY <1>2, <2>1, <3>1 DEF AltIn
  <2>16. ChanAt(tm, h)' /\ HoldAt(tm, s)' /\ InAlt(p)
    BY <1>2, <2>2, <2>3, ChanEmpty DEF HoldAt, HoldLabels, InAlt
  <2>17. \A t \in Scheds : t # s => pc'[t] = pc[t] /\ word'[t] = word[t] /\ tgt'[t] = tgt[t]
    BY <1>1, <2>2
  <2> QED BY <1>1, <1>2, <1>6, <2>1, <2>2, <2>3, <2>4, <2>14, <2>15, <2>16, <2>17, AltChanStep
<1> QED BY <1>9, <1>10

(* The reference of a channel the ALT has left is dropped. *)
LEMMA DiscDecStep ==
  ASSUME NEW tm, IInv(tm), NEW s \in Scheds, NEW p \in Procs, DiscDec(s, p)
  PROVE  IInv(tm)'
<1>1. /\ pc[s] = "disc_dec" /\ cur[s] = p /\ NextGuard(p)
      /\ UNCHANGED <<queued, chan, temp, guards, style, ch, word, tgt, io, ready0, cur>>
      /\ pc' = [pc EXCEPT ![s] = "user"] /\ state' = [state EXCEPT ![p] = [state[p] EXCEPT !.n = @ - 1]]
  BY DEF DiscDec, InKernel, altVars, localVars, histVars, Goto, SetState
<1>2. iptr[p] = "disable" /\ Head(todo[p]) \in Chans
  BY <1>1 DEF IInv, RunAt, DiscLabels, DistLabels
<1>3. FlowAt(tm, p) /\ Runs(p, {"disc_dec"})
  BY <1>1, <1>2, AltFacts DEF InAlt
<1>4. SkippedOver(p) /\ chan[Head(todo[p])] # AltPtr(p)
  <2>1. temp'[p] = temp[p]
    BY <1>1
  <2>2. SelectedAt(p)
    BY <1>3 DEF FlowAt
  <2> QED BY <1>2, <1>3, <2>1, <2>2 DEF SelectedAt, SkippedOver
<1> QED BY <1>1, <1>2, <1>4, DisableStep DEF DiscLabels, DistLabels

(* A SKIP guard is always selected when it is disabled. *)
LEMMA DissStep ==
  ASSUME NEW tm, IInv(tm), NEW s \in Scheds, NEW p \in Procs, Diss(s, p)
  PROVE  IInv(tm)'
<1>1. /\ pc[s] = "user" /\ cur[s] = p /\ iptr[p] = "disable" /\ NextGuard(p) /\ Head(todo[p]) = Skip
      /\ UNCHANGED <<queued, chan, state, guards, style, ch, word, tgt, io, ready0, cur, pc>>
      /\ Select(p, Skip)
  BY DEF Diss, At, altVars, localVars, histVars, schedVars
<1>2. Types
  BY DEF IInv
<1>3. temp \in [Procs -> Chans \cup Timers \cup {Skip, None, Junk}] /\ pc \in [Scheds -> PcLabels]
  BY <1>2 DEF Types
<1>4. temp'[p] = IF style[p] = "jump" \/ temp[p] = None THEN Skip ELSE temp[p]
  BY <1>1, <1>3 DEF Select
<1>5. SelectedNow(p)
  BY <1>1, <1>4 DEF SelectedNow, Ready
<1>6. temp' = temp \/ temp' = [temp EXCEPT ![p] = Head(todo[p])]
  BY <1>1 DEF Select
<1>7. pc' = [pc EXCEPT ![s] = "user"]
  BY <1>1, <1>3
<1>8. \A d \in Chans : d # Head(todo[p])
  BY <1>1, GuardFacts
<1> QED BY <1>1, <1>5, <1>6, <1>7, <1>8, DisableStep

(* What is to be known of a process that goes on enabling. *)
LEMMA EnableFlow ==
  ASSUME NEW tm, NEW p \in Procs, iptr'[p] \in {"enable", "altwt"}, ListAt(p)', EnabledAt(p)', CountAt(tm, p)',
         state'[p].tag = "alt", ~state'[p].waiting, ~Off(p)', \E s \in Scheds : cur'[s] = p,
         iptr'[p] = "enable" /\ (style'[p] = "all" => Len(todo'[p]) = Len(guards'[p])) => state'[p].enabling,
         Runs(p, {"altwt_clear"})' => ~state'[p].notReady, ~Runs(p, {"altend_dec"})',
         iptr'[p] = "enable" /\ style'[p] # "all" => temp'[p] = Junk,
         iptr'[p] = "altwt" /\ Runs(p, AltwtLabels)' => temp'[p] = None,
         \A g \in ready0'[p] : g \in Elems(guards'[p]) /\ Ready(g)'
  PROVE  FlowAt(tm, p)'
<1>1. FlagsAt(p)' /\ XinAt(p)'
  BY DEF FlagsAt, XinAt, InAlt
<1>2. SelectedAt(p)'
  BY DEF SelectedAt
<1>3. FirstAt(p)'
  BY DEF FirstAt
<1> QED BY <1>1, <1>2, <1>3 DEF FlowAt

(* The reference count while guards are enabled. *)
LEMMA EnableCount ==
  ASSUME NEW tm, IInv(tm), NEW s \in Scheds, NEW p \in Procs, cur[s] = p, iptr[p] \in {"enable", "altwt"}
  PROVE  /\ state[p].n \in Int /\ Refs(p) \in Nat /\ tm.refs[p] \in Nat
         /\ state[p].n = 1 + Refs(p) + tm.refs[p] - (IF pc[s] \in {"enbc_inc", "enbc_restore"} THEN 1 ELSE 0)
<1>1. /\ CountAt(tm, p) /\ RunAt(s) /\ state[p] \in StateWords
      /\ \A L : Runs(p, L) <=> pc[s] \in L
  BY AltFacts DEF FlowAt, InAlt
<1>2. ~Runs(p, {"disc_dec"})
  BY <1>1 DEF RunAt, DiscLabels, DistLabels
<1>3. state[p].n \in Int /\ Refs(p) \in Nat /\ tm.refs[p] \in Nat
  BY <1>1, StateFacts, RefsFacts, RunnerFacts
<1>4. PICK n \in Int, r \in Nat, m \in Nat : n = state[p].n /\ r = Refs(p) /\ m = tm.refs[p]
  BY <1>3
<1>5. n = 1 + r + m + 0 - (IF pc[s] \in {"enbc_inc", "enbc_restore"} THEN 1 ELSE 0)
  BY <1>1, <1>2, <1>4 DEF CountAt, InAlt
<1> QED BY <1>4, <1>5

(* The kernel goes on to look at the guard, and it is found ready. *)
LEMMA EnableStay ==
  ASSUME NEW tm, IInv(tm), NEW s \in Scheds, NEW p \in Procs, cur[s] = p, iptr[p] = "enable",
         pc[s] \in {"user"} \cup EnbLabels, NEW l \in {"enbc_swap"} \cup EnbLabels,
         pc' = [pc EXCEPT ![s] = l],
         UNCHANGED <<queued, cur, chan, state, temp, iptr, guards, style, todo, ch, word, tgt, io, ready0>>,
         l = "enbc_swap" => Head(todo[p]) \in Chans /\ Head(todo[p]) \notin Passed(p) \cup ready0[p],
         l \in EnbLabels => Ready(Head(todo[p])),
         l = "enb_and" => style[p] # "jump"
  PROVE  IInv(tm)'
<1>1. /\ Types /\ FlowAt(tm, p) /\ ~Off(p) /\ \A L : Runs(p, L) <=> pc[s] \in L
      /\ \A c \in Chans : chan[c] = AltPtr(p) => Reader[c] = p /\ AltIn(p, c)
      /\ state[p].tag = "alt" /\ ~state[p].waiting
  BY AltFacts DEF InAlt
<1>2. pc' \in [Scheds -> PcLabels] /\ pc'[s] = l /\ \A t \in Scheds : t # s => pc'[t] = pc[t]
  BY <1>1 DEF Types, PcLabels, EnbcLabels
<1>3. Types'
  BY <1>1, <1>2 DEF Types
<1>4. Touch(s, {p})
  <2>1. Alone(s, p)
    BY <1>2 DEF Alone, EnbLabels
  <2> QED BY <2>1, AloneTouch
<1>5. ~Off(p)' /\ \A L : Runs(p, L)' <=> l \in L
  BY <1>2, <1>4, RunnerNext DEF EnbLabels
<1>6. Refs(p)' = Refs(p) /\ (TriggeredOn(p)' <=> TriggeredOn(p))
  BY <1>2, SameRefs DEF EnbLabels
<1>7. /\ Passed(p)' = Passed(p) /\ Enabled(p) = Passed(p) /\ Enabled(p)' = Passed(p)
      /\ (Head(todo[p]))' = Head(todo[p])
  BY <1>1, <1>5 DEF Passed, Enabled, EnbLabels
<1>8. \A g : (Ready(g)' <=> Ready(g)) /\ (Hopeful(p, g)' <=> Hopeful(p, g))
  BY DEF Ready, Hopeful
<1>9. EnabledAt(p)'
  <2>1. EnabledAt(p)
    BY <1>1 DEF FlowAt
  <2>2. /\ \A g \in Passed(p) : g \in Chans => chan[g] # Empty
        /\ ~state[p].notReady \/ TriggeredOn(p) => \E g \in Passed(p) : Hopeful(p, g)
    BY <1>7, <2>1 DEF EnabledAt
  <2>3. Runs(p, EnbcLabels)' => Head(todo[p]) \notin Passed(p) \cup ready0[p]
    BY <1>5 DEF EnbcLabels, EnbLabels
  <2>4. Runs(p, EnbLabels)' => Ready(Head(todo[p]))
    BY <1>5
  <2>5. Ready(Head(todo[p]))' <=> Ready(Head(todo[p]))
    BY DEF Ready
  <2> QED BY <1>5, <1>6, <1>7, <1>8, <2>2, <2>3, <2>4, <2>5 DEF EnabledAt
<1>10. ListAt(p)'
  BY <1>1, <1>7 DEF FlowAt, ListAt, InAlt
<1>11. CountAt(tm, p)'
  <2>1. state[p].n = 1 + Refs(p) + tm.refs[p] /\ Refs(p) \in Nat /\ tm.refs[p] \in Nat
    BY EnableCount DEF EnbLabels
  <2>2. ~Runs(p, {"disc_dec"})' /\ ~Runs(p, {"enbc_inc", "enbc_restore"})' /\ ~Runs(p, {"altend_dec"})'
    BY <1>5 DEF EnbLabels
  <2>3. state'[p].n = 1 + Refs(p)' + tm.refs[p] + 0 - 0
    BY <1>6, <2>1
  <2> QED BY <1>5, <1>6, <2>1, <2>2, <2>3 DEF CountAt, InAlt
<1>12. FlowAt(tm, p)'
  <2>1. FlagsAt(p) /\ SelectedAt(p) /\ FirstAt(p)
    BY <1>1 DEF FlowAt
  <2>2. (style[p] = "all" => Len(todo[p]) = Len(guards[p])) => state[p].enabling
    BY <2>1 DEF FlagsAt
  <2>3. style[p] # "all" => temp[p] = Junk
    BY <2>1 DEF SelectedAt
  <2>4. \A g \in ready0[p] : g \in Elems(guards[p]) /\ Ready(g)'
    BY <1>8, <2>1 DEF FirstAt, InAlt
  <2>5. ~Runs(p, {"altwt_clear"})' /\ ~Runs(p, {"altend_dec"})'
    BY <1>5 DEF EnbLabels
  <2> QED BY <1>1, <1>5, <1>9, <1>10, <1>11, <2>2, <2>3, <2>4, <2>5, EnableFlow
<1>13. ASSUME NEW d \in Chans, chan[d] = AltPtr(p) PROVE AltIn(p, d)'
  <2>1. d \in Enabled(p)
    <3>1. AltIn(p, d) /\ ~Runs(p, {"enbc_restore"})
      BY <1>1, <1>13 DEF EnbLabels
    <3> QED BY <3>1 DEF AltIn
  <2> QED BY <1>7, <2>1 DEF AltIn
<1>14. InAlt(p) /\ pc'[s] \in {"enbc_swap"} \cup EnbLabels /\ iptr'[p] = "enable"
       /\ (pc'[s] \in {"enbc_swap"} \cup DiscLabels => (Head(todo[p]) \in Chans)') /\ pc'[s] \notin DistLabels
  BY <1>2, <1>7 DEF InAlt, DiscLabels, DistLabels, EnbLabels
<1> QED BY <1>2, <1>3, <1>12, <1>13, <1>14, AltQuietStep

(* The guard has been enabled, or found ready by code that enables all. *)
LEMMA EnableGo ==
  ASSUME NEW tm, IInv(tm), NEW s \in Scheds, NEW p \in Procs, cur[s] = p, iptr[p] = "enable",
         pc[s] \in {"user", "enbc_inc"} \cup EnbLabels, pc' = [pc EXCEPT ![s] = "user"], NextGuard(p),
         UNCHANGED <<queued, cur, chan, guards, style, ch, io, ready0>>,
         NEW st \in StateWords, state' = [state EXCEPT ![p] = st], st.tag = "alt", ~st.waiting,
         st.n = IF pc[s] = "enbc_inc" THEN state[p].n + 1 ELSE state[p].n,
         style[p] # "all" => st.enabling = state[p].enabling,
         ~st.notReady => ~state[p].notReady \/ (style[p] = "all" /\ Ready(Head(todo[p]))),
         temp' = temp \/ (style[p] = "all" /\ temp' = [temp EXCEPT ![p] = Head(todo[p])]),
         style[p] = "procalt" => Len(todo[p]) = 1 \/ Head(todo[p]) \in Timers,
         Head(todo[p]) \in Chans => chan[Head(todo[p])] # Empty,
         word' \in [Scheds -> ChanWord], tgt' \in [Scheds -> Procs \cup {NotProcess}],
         \A t \in Scheds : t # s => word'[t] = word[t] /\ tgt'[t] = tgt[t]
  PROVE  IInv(tm)'
<1>1. /\ Types /\ FlowAt(tm, p) /\ ~Off(p) /\ \A L : Runs(p, L) <=> pc[s] \in L
      /\ \A c \in Chans : chan[c] = AltPtr(p) => Reader[c] = p /\ AltIn(p, c)
  BY AltFacts DEF InAlt
<1>2. PICK h \in Chans \cup Timers \cup {Skip} : h = Head(todo[p])
  BY <1>1, EnableFacts DEF FlowAt
<1>3. todo[p] # << >> /\ ListAt(p)
  BY <1>1 DEF FlowAt, ListAt
<1>4. /\ todo'[p] = Tail(todo[p]) /\ (\A r \in Procs : r # p => todo'[r] = todo[r] /\ iptr'[r] = iptr[r])
      /\ iptr'[p] = IF Len(todo[p]) = 1 THEN "altwt" ELSE "enable"
      /\ todo' \in [Procs -> Seq(Chans \cup Timers \cup {Skip})] /\ iptr' \in [Procs -> Labels \cup {"timed"}]
  BY <1>1, <1>3, NextGuardFacts
<1>5. /\ ListAt(p)' /\ Passed(p)' = Passed(p) \cup {h}
      /\ iptr'[p] \in {"enable", "altwt"} /\ Len(todo'[p]) # Len(guards[p])
  BY <1>1, <1>2, <1>3, EnableNext
<1>6. /\ state' \in [Procs -> StateWords] /\ state'[p] = st /\ \A r \in Procs : r # p => state'[r] = state[r]
  BY <1>1 DEF Types
<1>7. /\ temp' \in [Procs -> Chans \cup Timers \cup {Skip, None, Junk}] /\ \A r \in Procs : r # p => temp'[r] = temp[r]
      /\ style[p] # "all" => temp'[p] = temp[p]
  <2>1. temp \in [Procs -> Chans \cup Timers \cup {Skip, None, Junk}]
    BY <1>1 DEF Types
  <2>2. h \in Chans \cup Timers \cup {Skip, None, Junk}
    OBVIOUS
  <2>3. temp' \in [Procs -> Chans \cup Timers \cup {Skip, None, Junk}]
    BY <1>2, <2>1, <2>2
  <2> QED BY <2>1, <2>3
<1>8. pc' \in [Scheds -> PcLabels] /\ pc'[s] = "user" /\ \A t \in Scheds : t # s => pc'[t] = pc[t]
  BY <1>1 DEF Types, PcLabels
<1>9. Types'
  BY <1>1, <1>4, <1>6, <1>7, <1>8 DEF Types
<1>10. Touch(s, {p})
  <2>1. Alone(s, p)
    BY <1>4, <1>6, <1>7, <1>8 DEF Alone
  <2> QED BY <2>1, AloneTouch
<1>11. ~Off(p)' /\ \A L : Runs(p, L)' <=> pc'[s] \in L
  BY <1>8, <1>10, RunnerNext
<1>12. Refs(p)' = Refs(p) /\ (TriggeredOn(p)' <=> TriggeredOn(p))
  BY <1>8, SameRefs DEF EnbLabels
<1>13. Enabled(p)' = Passed(p) \cup {h} /\ Passed(p) \subseteq Enabled(p) /\ Enabled(p) \subseteq Passed(p) \cup {h}
  BY <1>2, <1>5, <1>8, <1>11 DEF Enabled
<1>14. \A g : (Ready(g)' <=> Ready(g)) /\ (Hopeful(p, g)' <=> Hopeful(p, g))
  BY DEF Ready, Hopeful
<1>15. EnabledAt(p)'
  <2>1. EnabledAt(p)
    BY <1>1 DEF FlowAt
  <2>2. /\ \A g \in Enabled(p) : g \in Chans => chan[g] # Empty
        /\ ~state[p].notReady \/ TriggeredOn(p) => \E g \in Enabled(p) : Hopeful(p, g)
    BY <2>1 DEF EnabledAt
  <2>3. \A g \in Passed(p) \cup {h} : g \in Chans => chan[g] # Empty
    BY <1>2, <1>13, <2>2
  <2>4. ~st.notReady \/ TriggeredOn(p) => \E g \in Passed(p) \cup {h} : Hopeful(p, g)
    <3>1. style[p] = "all" /\ Ready(h) => Hopeful(p, h)
      BY DEF Hopeful
    <3> QED BY <1>2, <1>13, <2>2, <3>1
  <2>5. ~Runs(p, EnbcLabels)' /\ ~Runs(p, EnbLabels)' /\ ~Runs(p, {"enb_and"})'
    BY <1>8, <1>11 DEF EnbcLabels, EnbLabels
  <2> QED BY <1>6, <1>12, <1>13, <1>14, <2>3, <2>4, <2>5 DEF EnabledAt
<1>16. CountAt(tm, p)'
  <2>1. PICK n \in Int, m \in Nat, k \in Nat : n = state[p].n /\ m = Refs(p) /\ k = tm.refs[p]
    BY EnableCount
  <2>2. n = 1 + m + k - (IF pc[s] \in {"enbc_inc", "enbc_restore"} THEN 1 ELSE 0)
    BY <2>1, EnableCount
  <2>3. st.n = IF pc[s] = "enbc_inc" THEN n + 1 ELSE n
    BY <2>1
  <2>4. pc[s] # "enbc_restore"
    BY DEF EnbLabels
  <2>5. st.n = 1 + m + k + 0 - 0
    BY <2>2, <2>3, <2>4
  <2>6. ~Runs(p, {"disc_dec"})' /\ ~Runs(p, {"enbc_inc", "enbc_restore"})' /\ ~Runs(p, {"altend_dec"})'
    BY <1>8, <1>11
  <2> QED BY <1>5, <1>6, <1>11, <1>12, <2>1, <2>5, <2>6 DEF CountAt, InAlt
<1>17. FlowAt(tm, p)'
  <2>1. FlagsAt(p) /\ SelectedAt(p) /\ FirstAt(p)
    BY <1>1 DEF FlowAt
  <2>2. style[p] # "all" => state[p].enabling
    BY <2>1 DEF FlagsAt
  <2>3. style[p] # "all" => temp[p] = Junk
    BY <2>1 DEF SelectedAt
  <2>4. \A g \in ready0[p] : g \in Elems(guards[p]) /\ Ready(g)'
    BY <1>14, <2>1 DEF FirstAt, InAlt
  <2>5. ~Runs(p, {"altwt_clear"})' /\ ~Runs(p, {"altend_dec"})' /\ ~Runs(p, AltwtLabels)'
    BY <1>8, <1>11 DEF AltwtLabels
  <2>6. style[p] \in {"jump", "all", "procalt"}
    BY <1>1 DEF Types, Styles
  <2>7. iptr'[p] = "enable" /\ (style[p] = "all" => Len(todo'[p]) = Len(guards[p])) => st.enabling
    BY <1>4, <1>5, <2>2, <2>6
  <2>8. iptr'[p] = "enable" /\ style[p] # "all" => temp'[p] = Junk
    BY <1>7, <2>3
  <2>9. \E t \in Scheds : cur'[t] = p
    OBVIOUS
  <2>10. UNCHANGED <<guards, style, ready0>>
    OBVIOUS
  <2> QED BY <1>5, <1>6, <1>11, <1>15, <1>16, <2>4, <2>5, <2>7, <2>8, <2>9, <2>10, EnableFlow
<1>18. ASSUME NEW d \in Chans, chan[d] = AltPtr(p) PROVE AltIn(p, d)'
  <2>1. d \in Enabled(p)
    <3>1. AltIn(p, d) /\ ~Runs(p, {"enbc_restore"})
      BY <1>1, <1>18 DEF EnbLabels
    <3> QED BY <3>1 DEF AltIn
  <2> QED BY <1>5, <1>13, <2>1 DEF AltIn
<1>19. InAlt(p) /\ pc'[s] \notin {"enbc_swap"} \cup DiscLabels \cup DistLabels /\ iptr'[p] # "selected"
       /\ iptr'[p] \in {"enable", "altwt", "disable", "altend", "selected"}
  BY <1>5, <1>8 DEF InAlt, DiscLabels, DistLabels
<1>20. /\ \A t \in Scheds : t # s => pc'[t] = pc[t] /\ word'[t] = word[t] /\ tgt'[t] = tgt[t]
       /\ \A r \in Procs : r # p =>
            /\ state'[r] = state[r] /\ temp'[r] = temp[r] /\ iptr'[r] = iptr[r] /\ guards'[r] = guards[r]
            /\ style'[r] = style[r] /\ todo'[r] = todo[r] /\ ready0'[r] = ready0[r]
       /\ UNCHANGED <<chan, queued, io, ch, cur>>
  BY <1>4, <1>6, <1>7, <1>8
<1> QED BY <1>8, <1>9, <1>17, <1>18, <1>19, <1>20, AltQuietStep

(* A channel of a ProcAlt is the last guard of its list. *)
LEMMA LastChannel ==
  ASSUME OneChannel, Types, NEW p \in Procs, ListAt(p), iptr[p] = "enable", style[p] = "procalt",
         Head(todo[p]) \in Chans
  PROVE  Len(todo[p]) = 1
<1>1. /\ Len(todo[p]) \in Nat /\ Len(guards[p]) \in Nat
      /\ Len(guards[p]) - Len(todo[p]) + 1 \in 1..Len(guards[p])
      /\ Head(todo[p]) = guards[p][Len(guards[p]) - Len(todo[p]) + 1]
  BY EnableFacts
<1>2. PICK a \in Alts[p] : a.guards = guards[p] /\ a.style = "procalt"
  BY DEF ListAt, InAlt
<1>3. DOMAIN guards[p] = 1..Len(guards[p])
  <2>1. guards[p] \in Seq(Chans \cup Timers \cup {Skip})
    BY DEF Types
  <2> QED BY <2>1, EmptyFacts
<1>4. PICK n \in Nat, m \in Nat : n = Len(guards[p]) /\ m = Len(todo[p])
  BY <1>1
<1>5. n - m + 1 = n
  BY <1>1, <1>2, <1>3, <1>4 DEF OneChannel
<1>6. m = 1
  BY ONLY <1>5, n \in Nat, m \in Nat
<1> QED BY <1>4, <1>6

(* kernel_enbc looks at the channel word. *)
LEMMA EnbcStep ==
  ASSUME NEW tm, IInv(tm), OneChannel, NEW s \in Scheds, NEW p \in Procs, Enbc(s, p)
  PROVE  IInv(tm)'
<1>1. /\ pc[s] = "user" /\ cur[s] = p /\ iptr[p] = "enable" /\ Head(todo[p]) \in Chans
      /\ UNCHANGED <<queued, chan, state, temp, guards, style, ch, word, tgt, io, ready0>>
  BY DEF Enbc, At, altVars, localVars, histVars
<1>2. PICK h \in Chans : h = Head(todo[p])
  BY <1>1
<1>3. /\ Types /\ FlowAt(tm, p) /\ \A L : Runs(p, L) <=> pc[s] \in L
      /\ \A c \in Chans : c \in Elems(guards[p]) => Reader[c] = p
      /\ state[p] \in StateWords /\ state[p].tag = "alt" /\ ~state[p].waiting
  BY <1>1, AltFacts DEF InAlt
<1>4. Reader[h] = p /\ Writer[h] \in Procs /\ h # Skip /\ h \notin Timers
  BY <1>1, <1>2, <1>3, EnableFacts, EndFacts, GuardFacts DEF FlowAt
<1>5. \/ chan[h] = Empty
      \/ chan[h] = AltPtr(p)
      \/ Ready(h)
  BY <1>1, <1>4, AltSeen DEF InAlt
<1>6. Empty # AltPtr(p) /\ Wptr(Writer[h]) # Empty /\ Wptr(Writer[h]) # AltPtr(p)
  BY <1>4, WordFacts
<1>7. pc \in [Scheds -> PcLabels] /\ state \in [Procs -> StateWords]
      /\ word \in [Scheds -> ChanWord] /\ tgt \in [Scheds -> Procs \cup {NotProcess}]
  BY <1>3 DEF Types
<1>8. CASE chan[h] = Empty
  <2>1. pc' = [pc EXCEPT ![s] = "enbc_swap"] /\ UNCHANGED <<cur, todo, iptr>>
    BY <1>2, <1>6, <1>8 DEF Enbc, Goto
  <2>2. ~Ready(h)
    BY <1>4, <1>6, <1>8 DEF Ready
  <2>3. h \notin Passed(p)
    <3>1. EnabledAt(p)
      BY <1>3 DEF FlowAt
    <3> QED BY <1>1, <1>8, <3>1 DEF EnabledAt, Enabled
  <2>4. h \notin ready0[p]
    BY <1>1, <1>3, <2>2 DEF FlowAt, FirstAt, InAlt
  <2> QED BY <1>1, <1>2, <2>1, <2>3, <2>4, EnableStay DEF EnbLabels
<1>9. CASE chan[h] = AltPtr(p)
  <2>1. NextGuard(p) /\ UNCHANGED <<pc, cur>>
    BY <1>2, <1>6, <1>9 DEF Enbc
  <2>2. pc' = [pc EXCEPT ![s] = "user"] /\ state' = [state EXCEPT ![p] = state[p]]
    BY <1>1, <1>7, <2>1
  <2>3. style[p] = "procalt" => Len(todo[p]) = 1
    BY <1>1, <1>3, LastChannel DEF FlowAt
  <2>4. PICK st \in StateWords : st = state[p]
    BY <1>3
  <2>5. /\ state' = [state EXCEPT ![p] = st] /\ st.tag = "alt" /\ ~st.waiting
        /\ st.n = IF pc[s] = "enbc_inc" THEN state[p].n + 1 ELSE state[p].n
        /\ style[p] # "all" => st.enabling = state[p].enabling
        /\ ~st.notReady => ~state[p].notReady \/ (style[p] = "all" /\ Ready(Head(todo[p])))
    BY <1>1, <1>3, <2>2, <2>4
  <2>6. /\ pc[s] \in {"user", "enbc_inc"} \cup EnbLabels
        /\ temp' = temp \/ (style[p] = "all" /\ temp' = [temp EXCEPT ![p] = Head(todo[p])])
        /\ UNCHANGED <<queued, cur, chan, guards, style, ch, io, ready0>>
        /\ word' \in [Scheds -> ChanWord] /\ tgt' \in [Scheds -> Procs \cup {NotProcess}]
        /\ \A t \in Scheds : t # s => word'[t] = word[t] /\ tgt'[t] = tgt[t]
        /\ cur[s] = p /\ iptr[p] = "enable" /\ NextGuard(p) /\ pc' = [pc EXCEPT ![s] = "user"]
        /\ (Head(todo[p]) \in Chans => chan[Head(todo[p])] # Empty)
    BY <1>1, <1>2, <1>6, <1>7, <1>9, <2>1, <2>2
  <2> QED BY <2>3, <2>5, <2>6, EnableGo
<1>10. CASE chan[h] # Empty /\ chan[h] # AltPtr(p)
  <2>1. pc' = [pc EXCEPT ![s] = "enb_ready"] /\ UNCHANGED <<cur, todo, iptr>>
    BY <1>2, <1>10 DEF Enbc, Goto
  <2> QED BY <1>1, <1>2, <1>5, <1>10, <2>1, EnableStay DEF EnbLabels
<1> QED BY <1>8, <1>9, <1>10

(* kernel_enbs finds a SKIP guard ready. *)
LEMMA EnbsStep ==
  ASSUME NEW tm, IInv(tm), NEW s \in Scheds, NEW p \in Procs, Enbs(s, p)
  PROVE  IInv(tm)'
<1>1. /\ pc[s] = "user" /\ cur[s] = p /\ iptr[p] = "enable" /\ Head(todo[p]) = Skip
      /\ pc' = [pc EXCEPT ![s] = "enb_ready"]
      /\ UNCHANGED <<queued, cur, chan, state, temp, iptr, guards, style, todo, ch, word, tgt, io, ready0>>
  BY DEF Enbs, At, procVars, altVars, localVars, histVars, Goto
<1> QED BY <1>1, EnableStay DEF EnbLabels, Ready

(* The reference of a channel is counted after the ALT is in it. *)
LEMMA EnbcIncStep ==
  ASSUME NEW tm, IInv(tm), OneChannel, NEW s \in Scheds, NEW p \in Procs, EnbcInc(s, p)
  PROVE  IInv(tm)'
<1>1. /\ pc[s] = "enbc_inc" /\ cur[s] = p /\ NextGuard(p)
      /\ UNCHANGED <<queued, cur, chan, temp, guards, style, ch, io, ready0>>
      /\ pc' = [pc EXCEPT ![s] = "user"] /\ state' = [state EXCEPT ![p] = [state[p] EXCEPT !.n = @ + 1]]
      /\ word' = [word EXCEPT ![s] = Empty] /\ tgt' = [tgt EXCEPT ![s] = NotProcess]
  BY DEF EnbcInc, InKernel, altVars, histVars, Goto, SetState, Forget
<1>2. iptr[p] = "enable" /\ Head(todo[p]) \in Chans
  BY <1>1 DEF IInv, RunAt, EnbcLabels
<1>3. /\ Types /\ FlowAt(tm, p) /\ \A L : Runs(p, L) <=> pc[s] \in L
      /\ state[p] \in StateWords /\ state[p].tag = "alt" /\ ~state[p].waiting
  BY <1>1, <1>2, AltFacts DEF InAlt
<1>4. PICK m \in Int : m = state[p].n
  BY <1>3, StateFacts
<1>5. PICK st \in StateWords : st = [state[p] EXCEPT !.n = m + 1]
  <2>1. m + 1 \in Int
    BY <1>4
  <2> QED BY <1>3, <2>1, StateUpdates
<1>6. st.tag = "alt" /\ ~st.waiting /\ st.n = m + 1 /\ st.enabling = state[p].enabling /\ st.notReady = state[p].notReady
  <2>1. m + 1 \in Int
    BY <1>4
  <2> QED BY <1>3, <1>5, <2>1, StateUpdates
<1>7. state' = [state EXCEPT ![p] = st]
  BY <1>1, <1>4, <1>5
<1>8. chan[Head(todo[p])] # Empty
  <2>1. EnabledAt(p) /\ Runs(p, {"enbc_inc"})
    BY <1>1, <1>3 DEF FlowAt
  <2> QED BY <1>2, <2>1 DEF EnabledAt, Enabled
<1>9. style[p] = "procalt" => Len(todo[p]) = 1
  BY <1>2, <1>3, LastChannel DEF FlowAt
<1>10. word' \in [Scheds -> ChanWord] /\ tgt' \in [Scheds -> Procs \cup {NotProcess}]
       /\ \A t \in Scheds : t # s => word'[t] = word[t] /\ tgt'[t] = tgt[t]
  <2>1. word \in [Scheds -> ChanWord] /\ tgt \in [Scheds -> Procs \cup {NotProcess}] /\ Empty \in ChanWord
    BY <1>3, WordFacts DEF Types
  <2> QED BY <1>1, <2>1
<1>11. st.n = IF pc[s] = "enbc_inc" THEN state[p].n + 1 ELSE state[p].n
  BY <1>1, <1>4, <1>6
<1>12. /\ pc[s] \in {"user", "enbc_inc"} \cup EnbLabels
       /\ style[p] # "all" => st.enabling = state[p].enabling
       /\ ~st.notReady => ~state[p].notReady \/ (style[p] = "all" /\ Ready(Head(todo[p])))
       /\ temp' = temp \/ (style[p] = "all" /\ temp' = [temp EXCEPT ![p] = Head(todo[p])])
       /\ UNCHANGED <<queued, cur, chan, guards, style, ch, io, ready0>>
       /\ cur[s] = p /\ NextGuard(p) /\ pc' = [pc EXCEPT ![s] = "user"]
  BY <1>1, <1>6
<1> QED BY <1>2, <1>6, <1>7, <1>8, <1>9, <1>10, <1>11, <1>12, EnableGo

(* The swap of the ALT pointer into the channel word. *)
LEMMA EnbcSwapStep ==
  ASSUME NEW tm, IInv(tm), NEW s \in Scheds, NEW p \in Procs, EnbcSwap(s, p)
  PROVE  IInv(tm)'
<1>1. /\ pc[s] = "enbc_swap" /\ cur[s] = p
      /\ UNCHANGED <<queued, cur, state, temp, iptr, guards, style, todo, ch, tgt, io, ready0>>
  BY DEF EnbcSwap, InKernel, procVars, altVars, histVars, Goto
<1>2. iptr[p] = "enable" /\ Head(todo[p]) \in Chans
  BY <1>1 DEF IInv, RunAt, EnbcLabels
<1>3. PICK c \in Chans : c = Head(todo[p])
  BY <1>2
<1>4. /\ Types /\ FlowAt(tm, p) /\ ~Off(p) /\ \A L : Runs(p, L) <=> pc[s] \in L
      /\ \A d \in Chans : d \in Elems(guards[p]) => Reader[d] = p
      /\ \A d \in Chans : chan[d] = AltPtr(p) => Reader[d] = p /\ AltIn(p, d)
      /\ state[p].tag = "alt" /\ ~state[p].waiting
  BY <1>1, <1>2, AltFacts DEF InAlt
<1>5. Reader[c] = p /\ p # Writer[c] /\ p \in Ends(c) /\ Partner(p, c) = Writer[c] /\ c # Skip
  <2>1. Reader[c] = p
    BY <1>2, <1>3, <1>4, EnableFacts DEF FlowAt
  <2> QED BY <2>1, EndFacts, GuardFacts DEF Partner
<1>6. PICK q \in Procs : q = Writer[c] /\ q # p
  BY <1>5, EndFacts
<1>7. /\ AltPtr(p) \in ChanWord /\ AltPtr(p) # Empty /\ Wptr(q) # Empty /\ Wptr(q) # AltPtr(p)
  BY WordFacts
<1>8. /\ c \notin Passed(p) /\ c \notin ready0[p] /\ Enabled(p) = Passed(p)
      /\ \A g \in Passed(p) : g \in Chans => chan[g] # Empty
      /\ ~state[p].notReady \/ TriggeredOn(p) => \E g \in Passed(p) : Hopeful(p, g)
  <2>1. EnabledAt(p) /\ Runs(p, EnbcLabels) /\ ~Runs(p, {"enbc_inc"})
    BY <1>1, <1>4 DEF FlowAt, EnbcLabels
  <2>2. Enabled(p) = Passed(p)
    BY <2>1 DEF Enabled
  <2> QED BY <1>2, <1>3, <2>1, <2>2 DEF EnabledAt
<1>9. chan[c] # AltPtr(p)
  <2>1. ~Runs(p, {"enbc_restore"})
    BY <1>1, <1>4
  <2> QED BY <1>2, <1>4, <1>8, <2>1 DEF AltIn
<1>10. \/ chan[c] = Empty
       \/ chan[c] = Wptr(q) /\ Waiting(tm, q, c) /\ Asked(q, c)
  BY <1>1, <1>2, <1>5, <1>6, <1>9, AltSeen DEF InAlt
<1>11. /\ chan' = [chan EXCEPT ![c] = AltPtr(p)] /\ word' = [word EXCEPT ![s] = chan[c]]
       /\ pc' = [pc EXCEPT ![s] = IF chan[c] = Empty THEN "enbc_inc" ELSE "enbc_restore"]
  BY <1>3 DEF EnbcSwap, SetChan, Goto
<1>12. /\ pc' \in [Scheds -> PcLabels]
       /\ pc'[s] = IF chan[c] = Empty THEN "enbc_inc" ELSE "enbc_restore"
       /\ \A t \in Scheds : t # s => pc'[t] = pc[t] /\ word'[t] = word[t]
       /\ word' \in [Scheds -> ChanWord] /\ word'[s] = chan[c]
       /\ chan' \in [Chans -> ChanWord] /\ chan'[c] = AltPtr(p)
       /\ \A d \in Chans : d # c => chan'[d] = chan[d]
  <2>1. /\ pc \in [Scheds -> PcLabels] /\ word \in [Scheds -> ChanWord]
        /\ chan \in [Chans -> ChanWord]
    BY <1>4 DEF Types
  <2>2. chan[c] \in ChanWord
    BY <2>1
  <2>3. (IF chan[c] = Empty THEN "enbc_inc" ELSE "enbc_restore") \in PcLabels
    BY DEF PcLabels, EnbcLabels
  <2>4. pc' \in [Scheds -> PcLabels] /\ pc'[s] = IF chan[c] = Empty THEN "enbc_inc" ELSE "enbc_restore"
    BY <1>11, <2>1, <2>3
  <2>5. word' \in [Scheds -> ChanWord] /\ word'[s] = chan[c]
    BY <1>11, <2>1, <2>2
  <2>6. chan' \in [Chans -> ChanWord] /\ chan'[c] = AltPtr(p) /\ \A d \in Chans : d # c => chan'[d] = chan[d]
    BY <1>7, <1>11, <2>1
  <2> QED BY <1>11, <2>1, <2>4, <2>5, <2>6
<1>13. Types'
  BY <1>1, <1>4, <1>12 DEF Types
<1>14. Touch(s, {p})
  <2>1. Alone(s, p)
    BY <1>1, <1>12 DEF Alone
  <2> QED BY <1>1, <2>1, AloneTouch
<1>15. ~Off(p)' /\ \A L : Runs(p, L)' <=> pc'[s] \in L
  BY <1>1, <1>12, <1>14, RunnerNext
<1>16. Refs(p)' = Refs(p) + 1 /\ (TriggeredOn(p)' <=> TriggeredOn(p))
  BY <1>1, <1>9, <1>12, EnterRefs
<1>17. /\ Passed(p)' = Passed(p) /\ (Head(todo[p]))' = c
       /\ Enabled(p)' = Passed(p) \cup (IF chan[c] = Empty THEN {c} ELSE {})
  <2>1. Passed(p)' = Passed(p) /\ (Head(todo[p]))' = c
    BY <1>1, <1>3 DEF Passed
  <2>2. Runs(p, {"enbc_inc"})' <=> chan[c] = Empty
    BY <1>12, <1>15
  <2> QED BY <2>1, <2>2 DEF Enabled
<1>18. \A g : g # c => (Ready(g)' <=> Ready(g)) /\ (Hopeful(p, g)' <=> Hopeful(p, g))
  BY <1>1, <1>12 DEF Ready, Hopeful
<1>19. EnabledAt(p)'
  <2>1. \A g \in Enabled(p)' : g \in Chans => chan'[g] # Empty
    BY <1>7, <1>8, <1>12, <1>17
  <2>2. ~state'[p].notReady \/ TriggeredOn(p)' => \E g \in Enabled(p)' : Hopeful(p, g)'
    <3>1. state'[p] = state[p]
      BY <1>1
    <3> QED BY <1>8, <1>16, <1>17, <1>18, <3>1
  <2>3. c \notin Passed(p)' \cup ready0'[p]
    BY <1>1, <1>8, <1>17
  <2>4. ~Runs(p, EnbLabels)' /\ ~Runs(p, {"enb_and"})'
    BY <1>12, <1>15 DEF EnbLabels
  <2> QED BY <1>17, <2>1, <2>2, <2>3, <2>4 DEF EnabledAt
<1>20. CountAt(tm, p)'
  <2>1. state[p].n = 1 + Refs(p) + tm.refs[p] /\ Refs(p) \in Nat /\ tm.refs[p] \in Nat
    BY <1>1, <1>2, EnableCount
  <2>2. /\ ~Runs(p, {"disc_dec"})' /\ Runs(p, {"enbc_inc", "enbc_restore"})' /\ ~Runs(p, {"altend_dec"})'
    BY <1>12, <1>15
  <2>3. state'[p].n = 1 + Refs(p)' + tm.refs[p] - 1
    BY <1>1, <1>16, <2>1
  <2>4. 1 + Refs(p)' + tm.refs[p] + 0 - 1 = 1 + Refs(p)' + tm.refs[p] - 1
    BY <1>16, <2>1
  <2> QED BY <1>1, <1>2, <1>15, <2>1, <2>2, <2>3, <2>4 DEF CountAt, InAlt
<1>21. ListAt(p)'
  BY <1>1, <1>2, <1>4, <1>17 DEF FlowAt, ListAt, InAlt
<1>22. FlowAt(tm, p)'
  <2>1. FlagsAt(p) /\ SelectedAt(p) /\ FirstAt(p)
    BY <1>4 DEF FlowAt
  <2>2. (style[p] = "all" => Len(todo[p]) = Len(guards[p])) => state[p].enabling
    BY <1>2, <2>1 DEF FlagsAt
  <2>3. style[p] # "all" => temp[p] = Junk
    BY <1>2, <2>1 DEF SelectedAt
  <2>4. \A g \in ready0[p] : g \in Elems(guards[p]) /\ Ready(g)'
    BY <1>2, <1>8, <1>18, <2>1 DEF FirstAt, InAlt
  <2>5. ~Runs(p, {"altwt_clear"})' /\ ~Runs(p, {"altend_dec"})'
    BY <1>12, <1>15
  <2> QED BY <1>1, <1>2, <1>4, <1>15, <1>19, <1>20, <1>21, <2>2, <2>3, <2>4, <2>5, EnableFlow
<1>23. AltIn(p, c)'
  <2>1. CASE chan[c] = Empty
    BY <1>1, <1>2, <1>17, <2>1 DEF AltIn
  <2>2. CASE chan[c] # Empty
    BY <1>12, <1>15, <1>17, <2>2 DEF AltIn
  <2> QED BY <2>1, <2>2
<1>24. ChanAt(tm, c)'
  BY <1>5, <1>12, <1>23, ChanAlt
<1>25. HoldAt(tm, s)'
  <2>1. CASE chan[c] = Empty
    BY <1>12, <2>1 DEF HoldAt, HoldLabels
  <2>2. CASE chan[c] # Empty
    <3>1. pc'[s] = "enbc_restore" /\ chan[c] = Wptr(q) /\ Waiting(tm, q, c) /\ Asked(q, c)
      BY <1>10, <1>12, <2>2
    <3>2. Waiting(tm, q, c)' /\ Asked(q, c)'
      BY <1>6, <1>14, <3>1, PlaceFrame
    <3>3. ChannelOf(s)' = c
      BY <1>17, <1>1, <3>1 DEF ChannelOf
    <3>4. HeldBy(tm, s, c, q)'
      BY <1>1, <1>5, <1>12, <3>1, <3>2 DEF HeldBy, IoLabels
    <3>5. cur'[s] = p /\ Partner(p, c) = q
      BY <1>1, <1>5, <1>6
    <3> QED BY <3>3, <3>4, <3>5 DEF HoldAt, Partner
  <2> QED BY <2>1, <2>2
<1>26. ASSUME NEW d \in Chans, d # c, chan[d] = AltPtr(p) PROVE AltIn(p, d)'
  <2>1. d \in Passed(p)
    <3>1. AltIn(p, d) /\ ~Runs(p, {"enbc_restore"})
      BY <1>1, <1>4, <1>26
    <3> QED BY <1>2, <1>8, <3>1 DEF AltIn
  <2>2. iptr'[p] = "enable" /\ d \in Enabled(p)'
    BY <1>1, <1>2, <1>17, <2>1
  <2> QED BY <2>2 DEF AltIn
<1>27. InAlt(p) /\ chan'[c] \in {Empty, AltPtr(p), Wptr(Writer[c])}
       /\ pc'[s] \in {"enbc_inc", "enbc_restore", "enb_ready"} /\ iptr[p] = "enable"
       /\ \A t \in Scheds : t # s => pc'[t] = pc[t] /\ word'[t] = word[t] /\ tgt'[t] = tgt[t]
  BY <1>1, <1>2, <1>12 DEF InAlt
<1> QED BY <1>1, <1>2, <1>5, <1>12, <1>13, <1>22, <1>24, <1>25, <1>26, <1>27, AltChanStep

(* A writer that came in between is put back, and the guard is ready. *)
LEMMA EnbcRestoreStep ==
  ASSUME NEW tm, IInv(tm), NEW s \in Scheds, NEW p \in Procs, EnbcRestore(s, p)
  PROVE  IInv(tm)'
<1>1. /\ pc[s] = "enbc_restore" /\ cur[s] = p
      /\ UNCHANGED <<queued, cur, state, temp, iptr, guards, style, todo, ch, io, ready0>>
      /\ word' = [word EXCEPT ![s] = Empty] /\ tgt' = [tgt EXCEPT ![s] = NotProcess]
      /\ pc' = [pc EXCEPT ![s] = "enb_ready"]
  BY DEF EnbcRestore, InKernel, procVars, altVars, histVars, Goto, Forget
<1>2. iptr[p] = "enable" /\ Head(todo[p]) \in Chans
  BY <1>1 DEF IInv, RunAt, EnbcLabels
<1>3. PICK c \in Chans : c = Head(todo[p])
  BY <1>2
<1>4. /\ Types /\ FlowAt(tm, p) /\ ~Off(p) /\ \A L : Runs(p, L) <=> pc[s] \in L
      /\ \A d \in Chans : chan[d] = AltPtr(p) => Reader[d] = p /\ AltIn(p, d)
      /\ state[p].tag = "alt" /\ ~state[p].waiting
  BY <1>1, <1>2, AltFacts DEF InAlt
<1>5. ChannelOf(s) = c /\ pc[s] \in HoldLabels
  BY <1>1, <1>3 DEF ChannelOf, HoldLabels
<1>6. /\ c \in Chans /\ p \in Ends(c) /\ Reader[c] = p /\ p # Writer[c] /\ Partner(p, c) = Writer[c] /\ c # Skip
  <2>1. HeldBy(tm, s, c, Partner(p, c)) /\ p \in Ends(c)
    BY <1>1, <1>5, HoldChannel
  <2>2. Reader[c] = p
    BY <1>1, <2>1 DEF HeldBy, IoLabels
  <2> QED BY <2>1, <2>2, EndFacts, GuardFacts DEF Partner
<1>7. PICK q \in Procs : q = Writer[c] /\ q # p /\ q \in Ends(c)
  BY <1>6, EndFacts
<1>8. /\ word[s] = Wptr(q) /\ Waiting(tm, q, c) /\ Asked(q, c) /\ chan[c] = AltPtr(p)
  <2>1. HeldBy(tm, s, c, q)
    BY <1>1, <1>5, <1>6, <1>7, HoldChannel
  <2> QED BY <1>1, <2>1 DEF HeldBy, IoLabels
<1>9. /\ AltPtr(p) # Empty /\ Wptr(q) # Empty /\ Wptr(q) # AltPtr(p) /\ Wptr(q) \in ChanWord /\ Empty \in ChanWord
  BY WordFacts
<1>10. chan' = [chan EXCEPT ![c] = Wptr(q)]
  BY <1>3, <1>8 DEF EnbcRestore, SetChan
<1>11. /\ pc' \in [Scheds -> PcLabels] /\ pc'[s] = "enb_ready"
       /\ \A t \in Scheds : t # s => pc'[t] = pc[t] /\ word'[t] = word[t] /\ tgt'[t] = tgt[t]
       /\ word' \in [Scheds -> ChanWord] /\ tgt' \in [Scheds -> Procs \cup {NotProcess}]
       /\ chan' \in [Chans -> ChanWord] /\ chan'[c] = Wptr(q)
       /\ \A d \in Chans : d # c => chan'[d] = chan[d]
  <2>1. /\ pc \in [Scheds -> PcLabels] /\ word \in [Scheds -> ChanWord]
        /\ chan \in [Chans -> ChanWord] /\ tgt \in [Scheds -> Procs \cup {NotProcess}]
    BY <1>4 DEF Types
  <2>2. "enb_ready" \in PcLabels
    BY DEF PcLabels, EnbLabels
  <2> QED BY <1>1, <1>9, <1>10, <2>1, <2>2
<1>12. Types'
  BY <1>1, <1>4, <1>11 DEF Types
<1>13. Touch(s, {p})
  <2>1. Alone(s, p)
    BY <1>1, <1>11 DEF Alone
  <2> QED BY <1>1, <2>1, AloneTouch
<1>14. ~Off(p)' /\ \A L : Runs(p, L)' <=> pc'[s] \in L
  BY <1>1, <1>11, <1>13, RunnerNext
<1>15. Refs(p)' = Refs(p) - 1 /\ (TriggeredOn(p)' <=> TriggeredOn(p))
  BY <1>1, <1>8, <1>9, <1>11, LeaveRefs
<1>16. /\ c \notin Passed(p) /\ c \notin ready0[p] /\ Enabled(p) = Passed(p)
       /\ \A g \in Passed(p) : g \in Chans => chan[g] # Empty
       /\ ~state[p].notReady \/ TriggeredOn(p) => \E g \in Passed(p) : Hopeful(p, g)
  <2>1. EnabledAt(p) /\ Runs(p, EnbcLabels) /\ ~Runs(p, {"enbc_inc"})
    BY <1>1, <1>4 DEF FlowAt, EnbcLabels
  <2>2. Enabled(p) = Passed(p)
    BY <2>1 DEF Enabled
  <2> QED BY <1>2, <1>3, <2>1, <2>2 DEF EnabledAt
<1>17. /\ Passed(p)' = Passed(p) /\ (Head(todo[p]))' = c /\ Enabled(p)' = Passed(p)
  <2>1. Passed(p)' = Passed(p) /\ (Head(todo[p]))' = c
    BY <1>1, <1>3 DEF Passed
  <2>2. ~Runs(p, {"enbc_inc"})'
    BY <1>11, <1>14
  <2> QED BY <2>1, <2>2 DEF Enabled
<1>18. (\A g : g # c => (Ready(g)' <=> Ready(g)) /\ (Hopeful(p, g)' <=> Hopeful(p, g))) /\ Ready(c)'
  BY <1>1, <1>7, <1>11 DEF Ready, Hopeful, Wptr
<1>19. EnabledAt(p)'
  <2>1. \A g \in Enabled(p)' : g \in Chans => chan'[g] # Empty
    BY <1>16, <1>11, <1>17
  <2>2. ~state'[p].notReady \/ TriggeredOn(p)' => \E g \in Enabled(p)' : Hopeful(p, g)'
    <3>1. state'[p] = state[p]
      BY <1>1
    <3> QED BY <1>15, <1>16, <1>17, <1>18, <3>1
  <2>3. ~Runs(p, EnbcLabels)' /\ ~Runs(p, {"enb_and"})'
    BY <1>11, <1>14 DEF EnbcLabels
  <2>4. Ready(Head(todo[p]))'
    BY <1>17, <1>18 DEF Ready
  <2> QED BY <1>17, <2>1, <2>2, <2>3, <2>4 DEF EnabledAt
<1>20. CountAt(tm, p)'
  <2>1. state[p].n = 1 + Refs(p) + tm.refs[p] - 1 /\ Refs(p) \in Nat /\ tm.refs[p] \in Nat
    BY <1>1, <1>2, EnableCount
  <2>2. ~Runs(p, {"disc_dec"})' /\ ~Runs(p, {"enbc_inc", "enbc_restore"})' /\ ~Runs(p, {"altend_dec"})'
    BY <1>11, <1>14
  <2>3. state'[p].n = 1 + Refs(p)' + tm.refs[p] /\ Refs(p)' \in Int
    BY <1>1, <1>15, <2>1
  <2>4. 1 + Refs(p)' + tm.refs[p] + 0 - 0 = 1 + Refs(p)' + tm.refs[p]
    BY <2>1, <2>3
  <2> QED BY <1>1, <1>2, <1>14, <2>1, <2>2, <2>3, <2>4 DEF CountAt, InAlt
<1>21. ListAt(p)'
  BY <1>1, <1>2, <1>4, <1>17 DEF FlowAt, ListAt, InAlt
<1>22. FlowAt(tm, p)'
  <2>1. FlagsAt(p) /\ SelectedAt(p) /\ FirstAt(p)
    BY <1>4 DEF FlowAt
  <2>2. (style[p] = "all" => Len(todo[p]) = Len(guards[p])) => state[p].enabling
    BY <1>2, <2>1 DEF FlagsAt
  <2>3. style[p] # "all" => temp[p] = Junk
    BY <1>2, <2>1 DEF SelectedAt
  <2>4. \A g \in ready0[p] : g \in Elems(guards[p]) /\ Ready(g)'
    BY <1>2, <1>16, <1>18, <2>1 DEF FirstAt, InAlt
  <2>5. ~Runs(p, {"altwt_clear"})' /\ ~Runs(p, {"altend_dec"})'
    BY <1>11, <1>14
  <2> QED BY <1>1, <1>2, <1>4, <1>14, <1>19, <1>20, <1>21, <2>2, <2>3, <2>4, <2>5, EnableFlow
<1>23. ChanAt(tm, c)'
  <2>1. Waiting(tm, q, c)' /\ Asked(q, c)'
    BY <1>7, <1>8, <1>13, PlaceFrame
  <2>2. ~Extended(c)'
    <3>1. iptr'[p] = "enable" /\ Reader[c] = p
      BY <1>1, <1>2, <1>6
    <3> QED BY <3>1 DEF Extended, Transferred
  <2> QED BY <1>7, <1>11, <2>1, <2>2, ChanWith
<1>24. HoldAt(tm, s)'
  BY <1>11 DEF HoldAt, HoldLabels
<1>25. ASSUME NEW d \in Chans, d # c, chan[d] = AltPtr(p) PROVE AltIn(p, d)'
  <2>1. d \in Passed(p)
    <3>1. AltIn(p, d)
      BY <1>4, <1>25
    <3> QED BY <1>2, <1>3, <1>16, <1>25, <3>1 DEF AltIn
  <2>2. iptr'[p] = "enable" /\ d \in Enabled(p)'
    BY <1>1, <1>2, <1>17, <2>1
  <2> QED BY <2>2 DEF AltIn
<1>26. InAlt(p) /\ chan'[c] \in {Empty, AltPtr(p), Wptr(Writer[c])}
       /\ pc'[s] \in {"enbc_inc", "enbc_restore", "enb_ready"} /\ iptr[p] = "enable"
  BY <1>2, <1>7, <1>11 DEF InAlt
<1> QED BY <1>1, <1>2, <1>3, <1>6, <1>11, <1>12, <1>22, <1>23, <1>24, <1>25, <1>26, AltChanStep

(* The first k guards, in order and in reverse order. *)
LEMMA ForwardFacts ==
  ASSUME NEW S, NEW gs \in Seq(S), NEW k \in 1..Len(gs)
  PROVE  /\ SubSeq(gs, 1, k) \in Seq(S) /\ Len(SubSeq(gs, 1, k)) = k
         /\ \A i \in 1..k : SubSeq(gs, 1, k)[i] = gs[i]
<1>1. Len(gs) \in Nat /\ DOMAIN gs = 1..Len(gs) /\ \A i \in 1..Len(gs) : gs[i] \in S
  OBVIOUS
<1>2. PICK n \in Nat : n = Len(gs)
  BY <1>1
<1>3. k \in Nat /\ k >= 1 /\ k <= n
  BY <1>2
<1>4. \A i \in 1..k : i \in 1..n
  BY <1>3
<1>5. \A i \in 1..k : gs[i] \in S
  BY <1>1, <1>2, <1>4
<1>6. \A i \in 1..k : 1 \in 1..(n + 1) /\ k \in 0..n
  BY <1>3
<1> QED BY <1>1, <1>2, <1>3, <1>5, <1>6

(* A prefix of the guard list in reverse order. *)
LEMMA ReverseFacts ==
  ASSUME NEW S, NEW gs \in Seq(S), NEW k \in 1..Len(gs)
  PROVE  /\ [i \in 1..k |-> gs[k + 1 - i]] \in Seq(S) /\ Len([i \in 1..k |-> gs[k + 1 - i]]) = k
         /\ \A i \in 1..k : [j \in 1..k |-> gs[k + 1 - j]][i] = gs[k + 1 - i]
<1>1. PICK n \in Nat : n = Len(gs) /\ \A i \in 1..n : gs[i] \in S
  OBVIOUS
<1>2. k \in Nat /\ k <= n
  BY <1>1
<1>3. \A i \in 1..k : gs[k + 1 - i] \in S
  <2> SUFFICES ASSUME NEW i \in 1..k PROVE gs[k + 1 - i] \in S
    OBVIOUS
  <2>1. k + 1 - i \in 1..n
    BY <1>2
  <2> QED BY <1>1, <2>1
<1>4. PICK q \in [1..k -> S] : q = [i \in 1..k |-> gs[k + 1 - i]]
  BY <1>3
<1>5. q \in Seq(S) /\ Len(q) = k
  BY <1>2, <1>4
<1> QED BY <1>4, <1>5

(* The guards to disable are the first k ones. *)
LEMMA DisablingFacts ==
  ASSUME Types, NEW p \in Procs, NEW k \in 1..Len(guards[p]),
         NEW q, q = DisablingList(p, k)
  PROVE  /\ q \in Seq(Chans \cup Timers \cup {Skip}) /\ q # << >> /\ Len(q) = k /\ DOMAIN q = 1..k
         /\ style[p] = "jump" => \A i \in 1..k : q[i] = guards[p][k + 1 - i]
         /\ style[p] # "jump" => \A i \in 1..k : q[i] = guards[p][i]
         /\ (\A i \in 1..k : guards[p][i] \in Elems(q)) /\ Elems(q) \subseteq Elems(guards[p])
<1>1. PICK gs \in Seq(Chans \cup Timers \cup {Skip}) : gs = guards[p]
  BY DEF Types
<1>2. PICK n \in Nat : n = Len(gs) /\ DOMAIN gs = 1..n
  BY <1>1
<1>3. k \in Nat /\ k >= 1 /\ k <= n
  BY <1>1, <1>2
<1>4. /\ q \in Seq(Chans \cup Timers \cup {Skip}) /\ Len(q) = k
      /\ style[p] = "jump" => \A i \in 1..k : q[i] = gs[k + 1 - i]
      /\ style[p] # "jump" => \A i \in 1..k : q[i] = gs[i]
  <2>1. CASE style[p] = "jump"
    BY <1>1, <2>1, ReverseFacts DEF DisablingList
  <2>2. CASE style[p] # "jump"
    BY <1>1, <2>2, ForwardFacts DEF DisablingList
  <2> QED BY <2>1, <2>2
<1>5. q # << >> /\ DOMAIN q = 1..k
  BY <1>3, <1>4, EmptyFacts
<1>6. Elems(q) = {gs[i] : i \in 1..k}
  <2>1. CASE style[p] = "jump"
    <3>1. \A i \in 1..k : k + 1 - i \in 1..k /\ k + 1 - (k + 1 - i) = i
      BY <1>3
    <3>2. ASSUME NEW i \in 1..k PROVE q[i] \in {gs[j] : j \in 1..k} /\ gs[i] \in {q[j] : j \in 1..k}
      <4>1. PICK m \in 1..k : m = k + 1 - i /\ k + 1 - m = i
        BY <3>1
      <4> QED BY <1>4, <2>1, <4>1
    <3> QED BY <1>5, <3>2 DEF Elems
  <2>2. CASE style[p] # "jump"
    BY <1>4, <1>5, <2>2 DEF Elems
  <2> QED BY <2>1, <2>2
<1>7. \A i \in 1..k : i \in 1..n
  BY <1>3
<1>8. Elems(q) \subseteq Elems(gs)
  BY <1>2, <1>6, <1>7 DEF Elems
<1>9. \A i \in 1..k : gs[i] \in Elems(q)
  BY <1>6
<1> QED BY <1>1, <1>4, <1>5, <1>8, <1>9

(* The kernel call ends, or the process sleeps in it. *)
Returns(s, waits) ==
  \/ pc' = [pc EXCEPT ![s] = "user"] /\ cur' = cur /\ ~waits
  \/ pc' = [pc EXCEPT ![s] = "sched"] /\ cur' = [cur EXCEPT ![s] = NotProcess] /\ waits

SetTemp(p, g) == temp' = [temp EXCEPT ![p] = g]

(* What is selected when the disabling begins: nothing, but one of the     *)
(* first k guards is ready, or the first guard of the list that is no      *)
(* timer.                                                                  *)
Begins(p, k, g, waits) ==
  \/ /\ g \in {None, Junk} /\ (style[p] # "jump" => g = None /\ k = Len(guards[p]))
     /\ ~waits \/ TriggeredOn(p) => \E i \in 1..k : Ready(guards[p][i])
  \/ /\ style[p] # "jump" /\ g = guards[p][k] /\ g \in Chans \cup Timers \cup {Skip} /\ Ready(g)
     /\ \A i \in 1..k : i < k => guards[p][i] \in Timers

(* The disabling begins: with the guards enabled so far (k of them), none  *)
(* of them selected, and one of them ready unless the process sleeps; or   *)
(* with one selected that only timers come before.                         *)
LEMMA TimedStartStep ==
  ASSUME NEW tm, NEW tn, IInv(tm), NEW s \in Scheds, NEW p \in Procs, cur[s] = p, iptr[p] \in {"enable", "altwt"},
         Same(tm, tn, {p}), p \notin tn.tin, tn.refs[p] \in Nat,
         pc[s] \in EnbLabels \cup AltwtLabels,
         NEW k \in 1..Len(guards[p]), Len(guards[p]) - Len(todo[p]) <= k, StartDisabling(p, k),
         UNCHANGED <<queued, chan, guards, style, ch, word, tgt, io>>,
         NEW st \in StateWords, SetState(p, st), st.tag = "alt",
         st.n = state[p].n + (tn.refs[p] - tm.refs[p]),
         Returns(s, st.waiting),
         NEW g0 \in Chans \cup Timers \cup {Skip, None, Junk}, SetTemp(p, g0),
         Begins(p, k, g0, st.waiting)
  PROVE  IInv(tn)'
<1>1. /\ Types /\ FlowAt(tm, p) /\ ~Off(p) /\ queued[p] = 0 /\ \A L : Runs(p, L) <=> pc[s] \in L
      /\ \A c \in Chans : chan[c] = AltPtr(p) => Reader[c] = p /\ AltIn(p, c)
      /\ \A c \in Chans : c \in Elems(guards[p]) => Reader[c] = p
      /\ io[p] = R!Idle
  BY AltFacts DEF InAlt
<1>2. PICK q \in Seq(Chans \cup Timers \cup {Skip}) : q = DisablingList(p, k)
  BY <1>1, DisablingFacts
<1>3. /\ q # << >> /\ Len(q) = k /\ DOMAIN q = 1..k
      /\ style[p] = "jump" => \A i \in 1..k : q[i] = guards[p][k + 1 - i]
      /\ style[p] # "jump" => \A i \in 1..k : q[i] = guards[p][i]
      /\ (\A i \in 1..k : guards[p][i] \in Elems(q)) /\ Elems(q) \subseteq Elems(guards[p])
  BY <1>1, <1>2, DisablingFacts
<1>4. PICK n \in Nat : n = Len(guards[p]) /\ k \in Nat /\ k >= 1 /\ k <= n /\ DOMAIN guards[p] = 1..n
  <2>1. guards[p] \in Seq(Chans \cup Timers \cup {Skip})
    BY <1>1 DEF Types
  <2>2. Len(guards[p]) \in Nat /\ DOMAIN guards[p] = 1..Len(guards[p])
    BY <2>1, EmptyFacts
  <2> QED BY <2>2
<1>5. /\ todo' = [todo EXCEPT ![p] = q] /\ iptr' = [iptr EXCEPT ![p] = "disable"]
      /\ ready0' = [ready0 EXCEPT ![p] = @ \cup ReadyOf(guards[p])]
  BY <1>2 DEF StartDisabling, SetIptr
<1>6. ReadyOf(guards[p]) \subseteq Chans \cup {Skip}
      /\ \A g \in ReadyOf(guards[p]) : g \in Elems(guards[p]) /\ Ready(g)
  <2> SUFFICES ASSUME NEW g \in ReadyOf(guards[p])
               PROVE  g \in Chans \cup {Skip} /\ g \in Elems(guards[p]) /\ Ready(g)
    OBVIOUS
  <2>1. g \in Elems(guards[p])
    BY DEF ReadyOf, Elems
  <2>2. CASE g = Skip
    BY <2>1, <2>2 DEF Ready
  <2>3. CASE g \in Chans /\ ~chan[g].alt /\ chan[g] # Empty
    <3>1. Reader[g] = p
      BY <1>1, <2>1, <2>3
    <3>2. chan[g] # AltPtr(p)
      BY <2>3, WordFacts
    <3> QED BY <2>1, <2>3, <3>1, <3>2, AltSeen DEF InAlt
  <2> QED BY <2>2, <2>3 DEF ReadyOf
<1>7. /\ todo' \in [Procs -> Seq(Chans \cup Timers \cup {Skip})] /\ iptr' \in [Procs -> Labels \cup {"timed"}]
      /\ ready0' \in [Procs -> SUBSET (Chans \cup {Skip})]
      /\ state' \in [Procs -> StateWords] /\ temp' \in [Procs -> Chans \cup Timers \cup {Skip, None, Junk}]
      /\ pc' \in [Scheds -> PcLabels] /\ cur' \in [Scheds -> Procs \cup {NotProcess}]
  <2>1. /\ todo \in [Procs -> Seq(Chans \cup Timers \cup {Skip})] /\ iptr \in [Procs -> Labels \cup {"timed"}]
        /\ ready0 \in [Procs -> SUBSET (Chans \cup {Skip})]
        /\ state \in [Procs -> StateWords] /\ temp \in [Procs -> Chans \cup Timers \cup {Skip, None, Junk}]
        /\ pc \in [Scheds -> PcLabels] /\ cur \in [Scheds -> Procs \cup {NotProcess}]
    BY <1>1 DEF Types
  <2>2. "disable" \in Labels /\ "user" \in PcLabels /\ "sched" \in PcLabels
    BY DEF Labels, PcLabels, IdleLabels
  <2>3. todo' \in [Procs -> Seq(Chans \cup Timers \cup {Skip})] /\ iptr' \in [Procs -> Labels \cup {"timed"}]
    BY <1>5, <2>1, <2>2
  <2>4. ready0' \in [Procs -> SUBSET (Chans \cup {Skip})]
    BY <1>5, <1>6, <2>1
  <2>5. state' \in [Procs -> StateWords] /\ temp' \in [Procs -> Chans \cup Timers \cup {Skip, None, Junk}]
    BY <2>1 DEF SetState, SetTemp
  <2>6. pc' \in [Scheds -> PcLabels] /\ cur' \in [Scheds -> Procs \cup {NotProcess}]
    BY <2>1, <2>2 DEF Returns
  <2> QED BY <2>3, <2>4, <2>5, <2>6
<1>8. /\ todo'[p] = q /\ iptr'[p] = "disable" /\ ready0'[p] = ready0[p] \cup ReadyOf(guards[p])
      /\ state'[p] = st /\ temp'[p] = g0
      /\ \A r \in Procs : r # p => /\ todo'[r] = todo[r] /\ iptr'[r] = iptr[r] /\ ready0'[r] = ready0[r]
                                   /\ state'[r] = state[r] /\ temp'[r] = temp[r]
  BY <1>1, <1>5 DEF Types, SetState, SetTemp
<1>9. /\ \A t \in Scheds : t # s => pc'[t] = pc[t] /\ cur'[t] = cur[t]
      /\ \/ pc'[s] = "user" /\ cur'[s] = p /\ ~st.waiting
         \/ pc'[s] = "sched" /\ cur'[s] = NotProcess /\ st.waiting
  BY <1>1 DEF Types, Returns
<1>10. Types'
  BY <1>1, <1>7 DEF Types
<1>11. Touch(s, {p})
  <2>1. Alone(s, p)
    BY <1>8, <1>9 DEF Alone
  <2> QED BY <2>1, AloneTouch
<1>12. /\ Off(p)' <=> st.waiting
       /\ \A L : Runs(p, L)' => "user" \in L
  <2>1. p # NotProcess /\ queued'[p] = 0
    BY <1>1, NotProcessAssumption
  <2>2. CASE cur'[s] = p
    <3>1. ~Off(p)' /\ (\A L : Runs(p, L)' <=> pc'[s] \in L)
      BY <1>9, <1>11, <2>2, RunnerNext
    <3> QED BY <1>9, <2>1, <2>2, <3>1
  <2>3. CASE cur'[s] # p
    <3>1. Off(p)' /\ (\A L : ~Runs(p, L)')
      BY <1>9, <1>11, <2>1, <2>3, RunnerNext
    <3> QED BY <1>9, <2>3, <3>1
  <2> QED BY <2>2, <2>3
<1>13. Refs(p)' = Refs(p) /\ (TriggeredOn(p)' <=> TriggeredOn(p))
  BY <1>9, SameRefs DEF EnbLabels, AltwtLabels
<1>14. \A g : (Ready(g)' <=> Ready(g)) /\ Position(p, g)' = Position(p, g)
  BY DEF Ready, Position
<1>15. \A g \in ready0'[p] : g \in Elems(guards[p]) /\ Ready(g)
  <2>1. FirstAt(p)
    BY <1>1 DEF FlowAt
  <2>2. \A g \in ready0[p] : g \in Elems(guards[p]) /\ Ready(g)
    BY <2>1 DEF FirstAt, InAlt
  <2> QED BY <1>6, <1>8, <2>2
<1>16. \A g \in Elems(guards[p]) :
         /\ Position(p, g) \in 1..n
         /\ \A i \in 1..n : guards[p][i] = g => Position(p, g) <= i
  BY <1>1, <1>4, PositionIs
<1>17. ListAt(p)'
  <2>1. \E a \in Alts[p] : a.guards = guards[p] /\ a.style = style[p]
    BY <1>1 DEF FlowAt, ListAt, InAlt
  <2>2. style[p] # "jump" /\ temp'[p] = None => \A i \in DOMAIN q : q[i] = guards[p][n - k + i]
    <3> SUFFICES ASSUME style[p] # "jump", temp'[p] = None, NEW i \in 1..k PROVE q[i] = guards[p][n - k + i]
      BY <1>3
    <3>1. g0 = None /\ g0 \notin Chans \cup Timers \cup {Skip}
      BY <1>8, GuardFacts
    <3>2. k = n
      BY <1>4, <3>1 DEF Begins
    <3>3. n - k + i = i
      BY <3>2, <1>4
    <3> QED BY <1>3, <3>3
  <2>3. /\ todo'[p] # << >> /\ Elems(todo'[p]) \subseteq Elems(guards'[p])
        /\ Len(todo'[p]) <= Len(guards'[p]) /\ Len(todo'[p]) = k
    BY <1>3, <1>4, <1>8
  <2>4. style'[p] = "jump" => \A i \in DOMAIN todo'[p] : todo'[p][i] = guards'[p][Len(todo'[p]) + 1 - i]
    BY <1>3, <1>8
  <2>5. style'[p] # "jump" /\ temp'[p] = None =>
          \A i \in DOMAIN todo'[p] : todo'[p][i] = guards'[p][Len(guards'[p]) - Len(todo'[p]) + i]
    BY <1>3, <1>4, <1>8, <2>2
  <2>6. \E a \in Alts[p] : a.guards = guards'[p] /\ a.style = style'[p]
    BY <2>1
  <2> QED BY <1>8, <2>3, <2>4, <2>5, <2>6 DEF ListAt, InAlt
<1>18. Chosen(p)' => /\ style[p] # "jump" /\ g0 = guards[p][k] /\ Ready(g0)
                     /\ \A i \in 1..k : i < k => guards[p][i] \in Timers
  BY <1>8 DEF Chosen, Begins
<1>19. SelectedAt(p)'
  <2>1. style[p] # "jump" => g0 # Junk
    BY GuardFacts DEF Begins
  <2>2. ~Runs(p, {"disc_cas"})' /\ ~Runs(p, {"disc_dec"})'
    BY <1>12
  <2>3. ~st.waiting \/ TriggeredOn(p) => Chosen(p)' \/ \E g \in Elems(q) : Ready(g)
    BY <1>3, <1>8, GuardFacts DEF Chosen, Begins
  <2>4. ~state'[p].waiting \/ TriggeredOn(p)' => Chosen(p)' \/ \E g \in Elems(todo'[p]) : Ready(g)'
    BY <1>8, <1>13, <1>14, <2>3
  <2>5. Chosen(p)' => temp'[p] \in Elems(guards'[p]) /\ Ready(temp[p])'
    <3>1. k \in 1..n
      BY <1>4
    <3>2. guards[p][k] \in Elems(guards[p])
      BY <1>4, <3>1 DEF Elems
    <3>3. Ready(temp[p])' <=> Ready(g0)
      BY <1>8 DEF Ready
    <3> QED BY <1>8, <1>18, <3>2, <3>3
  <2> QED BY <1>8, <2>1, <2>2, <2>4, <2>5 DEF SelectedAt
<1>20. FirstAt(p)'
  <2>1. \A g \in ready0'[p] : g \in Elems(guards'[p]) /\ Ready(g)'
    BY <1>14, <1>15
  <2>2. style'[p] # "jump" /\ temp'[p] = None =>
          \A g \in ready0'[p] : Position(p, g)' > Len(guards'[p]) - Len(todo'[p])
    <3> SUFFICES ASSUME style[p] # "jump", temp'[p] = None, NEW g \in ready0'[p]
                 PROVE  Position(p, g) > n - k
      BY <1>3, <1>4, <1>8, <1>14
    <3>1. g0 = None /\ g0 \notin Chans \cup Timers \cup {Skip}
      BY <1>8, GuardFacts
    <3>2. k = n
      BY <1>4, <3>1 DEF Begins
    <3>3. n - k = 0
      BY <1>4, <3>2
    <3>4. Position(p, g) \in 1..n
      BY <1>15, <1>16
    <3> QED BY <3>3, <3>4
  <2>3. Chosen(p)' => \A g \in ready0'[p] : Position(p, temp[p])' <= Position(p, g)'
    <3> SUFFICES ASSUME Chosen(p)', NEW g \in ready0'[p] PROVE Position(p, g0) <= Position(p, g)
      <4>1. Position(p, temp[p])' = Position(p, temp'[p])
        BY DEF Position
      <4>2. temp'[p] = g0
        BY <1>8
      <4> QED BY <1>14, <4>1, <4>2
    <3>1. k \in 1..n
      BY <1>4
    <3>2. g0 \in Elems(guards[p])
      BY <1>4, <1>18, <3>1 DEF Elems
    <3>3. Position(p, g0) <= k /\ Position(p, g0) \in 1..n
      BY <1>16, <1>18, <3>1, <3>2
    <3>4. Position(p, g) \in 1..n /\ guards[p][Position(p, g)] = g
      BY <1>1, <1>4, <1>15, PositionIs
    <3>5. g \notin Timers
      <4>1. g \in Chans \cup {Skip}
        BY <1>7
      <4> QED BY <4>1, GuardFacts
    <3>6. PICK i \in 1..n : i = Position(p, g) /\ guards[p][i] \notin Timers
      BY <3>4, <3>5
    <3>7. ~(i < k)
      BY <1>4, <1>18, <3>6
    <3> QED BY <1>4, <3>3, <3>6, <3>7
  <2> QED BY <1>8, <2>1, <2>2, <2>3 DEF FirstAt
<1>21. CountAt(tn, p)'
  <2>1. state[p].n = 1 + Refs(p) + tm.refs[p] /\ Refs(p) \in Nat /\ tm.refs[p] \in Nat
    BY EnableCount, SMTT(30) DEF EnbLabels, AltwtLabels
  <2>2. ~Runs(p, {"disc_dec"})' /\ ~Runs(p, {"enbc_inc", "enbc_restore"})' /\ ~Runs(p, {"altend_dec"})'
    BY <1>12
  <2>3. state'[p].n = 1 + Refs(p)' + tn.refs[p]
    BY <1>8, <1>13, <2>1
  <2>4. state'[p].n = 1 + Refs(p)' + tn.refs[p] + 0 - 0
    BY <1>13, <2>1, <2>3
  <2> QED BY <1>8, <1>13, <2>1, <2>2, <2>4 DEF CountAt, InAlt
<1>22. FlowAt(tn, p)'
  <2>1. ~Runs(p, {"altwt_clear"})' /\ ~Runs(p, {"altend_dec"})'
    BY <1>12
  <2>2. state'[p].tag = "alt" /\ (state'[p].waiting <=> Off(p)' /\ iptr'[p] = "disable")
    BY <1>8, <1>12
  <2> QED BY <1>8, <1>17, <1>19, <1>20, <1>21, <2>1, <2>2, DisableFlow
<1>23. ASSUME NEW d \in Chans, chan[d] = AltPtr(p) PROVE AltIn(p, d)'
  <2>1. d \in Enabled(p) /\ Enabled(p) = Passed(p)
    <3>1. AltIn(p, d) /\ ~Runs(p, {"enbc_restore"}) /\ ~Runs(p, {"enbc_inc"})
      BY <1>1, <1>23 DEF EnbLabels, AltwtLabels
    <3> QED BY <3>1 DEF AltIn, Enabled
  <2>2. PICK i \in 1..(Len(guards[p]) - Len(todo[p])) : d = guards[p][i]
    BY <2>1 DEF Passed
  <2>3. i \in 1..k
    <3>1. Len(todo[p]) \in Nat
      <4>1. todo[p] \in Seq(Chans \cup Timers \cup {Skip})
        BY <1>1 DEF Types
      <4> QED BY <4>1, EmptyFacts
    <3>2. PICK m \in Nat : m = Len(todo[p])
      BY <3>1
    <3>3. i \in 1..(n - m) /\ n - m <= k
      BY <1>4, <3>2
    <3> QED BY <1>4, <3>3
  <2> QED BY <1>3, <1>8, <2>2, <2>3 DEF AltIn
<1>24. RunAt(s)' /\ HoldAt(tn, s)' /\ TinAt(tn, p)'
  <2>1. p # NotProcess /\ TinAt(tn, p)'
    BY NotProcessAssumption DEF TinAt
  <2>2. /\ pc'[s] \in {"user", "sched"} /\ (pc'[s] \in IdleLabels <=> cur'[s] = NotProcess)
    BY <1>9, <2>1 DEF IdleLabels
  <2> QED BY <2>1, <2>2 DEF RunAt, HoldAt, HoldLabels, IoLabels, XableLabels, XendLabels, EnbcLabels, EnbLabels,
                            AltwtLabels, DiscLabels, DistLabels
<1>25. IoAt(p)'
  BY <1>1 DEF IoAt
<1>26. /\ pc'[s] \notin {"trigger", "trigger_enqueue", "walk_trigger", "walk_enqueue"} /\ pc[s] # "io_clear" /\ queued'[p] = 0
       /\ ~Transferred(p) /\ ~Transferred(p)' /\ (TriggeredOn(p) => Target(p)')
  BY <1>1, <1>8, <1>9 DEF Transferred, Target, InAlt, EnbLabels, AltwtLabels
<1> QED BY <1>10, <1>11, <1>22, <1>23, <1>24, <1>25, <1>26, TimedQuietStep

(* The same for a step that has nothing to do with timers. *)
LEMMA StartStep ==
  ASSUME NEW tm, IInv(tm), NEW s \in Scheds, NEW p \in Procs, cur[s] = p, iptr[p] \in {"enable", "altwt"},
         pc[s] \in EnbLabels \cup AltwtLabels,
         NEW k \in 1..Len(guards[p]), Len(guards[p]) - Len(todo[p]) <= k, StartDisabling(p, k),
         UNCHANGED <<queued, chan, guards, style, ch, word, tgt, io>>,
         NEW st \in StateWords, SetState(p, st), st.tag = "alt", st.n = state[p].n,
         Returns(s, st.waiting),
         NEW g0 \in Chans \cup Timers \cup {Skip, None, Junk}, SetTemp(p, g0),
         Begins(p, k, g0, st.waiting)
  PROVE  IInv(tm)'
<1>1. Same(tm, tm, {p})
  BY DEF Same
<1>2. p \notin tm.tin /\ tm.refs[p] \in Nat /\ state[p].n \in Int
  BY RunnerFacts, EnableCount
<1>3. st.n = state[p].n + (tm.refs[p] - tm.refs[p])
  BY <1>2
<1> QED BY <1>1, <1>2, <1>3, TimedStartStep

(* The guard that is found ready. *)
LEMMA ReadyHead ==
  ASSUME NEW tm, IInv(tm), NEW s \in Scheds, NEW p \in Procs, cur[s] = p, pc[s] \in EnbLabels
  PROVE  /\ iptr[p] = "enable" /\ Types /\ FlowAt(tm, p) /\ state[p] \in StateWords /\ state[p].tag = "alt"
         /\ ~state[p].waiting /\ state[p].n \in Int
         /\ Head(todo[p]) \in Chans \cup Timers \cup {Skip} /\ Ready(Head(todo[p]))
         /\ Head(todo[p]) \in Chans => chan[Head(todo[p])] # Empty
         /\ pc[s] = "enb_and" => style[p] # "jump"
         /\ style[p] # "all" => temp[p] = Junk
         /\ style[p] = "procalt" => state[p].notReady /\ Passed(p) \subseteq Timers
<1>1. iptr[p] = "enable"
  BY DEF IInv, RunAt
<1>2. /\ Types /\ FlowAt(tm, p) /\ state[p] \in StateWords /\ state[p].tag = "alt" /\ ~state[p].waiting
      /\ \A L : Runs(p, L) <=> pc[s] \in L
  BY <1>1, AltFacts DEF InAlt
<1>3. EnabledAt(p) /\ SelectedAt(p) /\ ListAt(p)
  BY <1>2 DEF FlowAt
<1>4. PICK h \in Chans \cup Timers \cup {Skip} : h = Head(todo[p])
  BY <1>1, <1>2, <1>3, EnableFacts
<1>5. Ready(h) /\ (pc[s] = "enb_and" => style[p] # "jump")
  BY <1>1, <1>2, <1>3, <1>4 DEF EnabledAt
<1>6. h \in Chans => chan[h] # Empty
  <2> SUFFICES ASSUME h \in Chans PROVE chan[h] # Empty
    OBVIOUS
  <2>1. Writer[h] \in Procs /\ h # Skip /\ h \notin Timers
    BY EndFacts, GuardFacts
  <2> QED BY <1>5, <2>1, WordFacts DEF Ready
<1>7. style[p] # "all" => temp[p] = Junk
  BY <1>1, <1>3 DEF SelectedAt
<1>8. ASSUME style[p] = "procalt" PROVE state[p].notReady /\ Passed(p) \subseteq Timers
  <2>1. Passed(p) \subseteq Timers
    BY <1>1, <1>3, <1>8 DEF ListAt
  <2>2. Enabled(p) = Passed(p)
    BY <1>2 DEF Enabled, EnbLabels
  <2>3. state[p].notReady
    BY <1>1, <1>3, <1>8, <2>1, <2>2 DEF EnabledAt, Hopeful
  <2> QED BY <2>1, <2>3
<1> QED BY <1>1, <1>2, <1>4, <1>5, <1>6, <1>7, <1>8, StateFacts

(* A guard that is found ready ends the enabling of an occam ALT. *)
LEMMA EnbReadyStep ==
  ASSUME NEW tm, IInv(tm), NEW s \in Scheds, NEW p \in Procs, EnbReady(s, p)
  PROVE  IInv(tm)'
<1>1. /\ pc[s] = "enb_ready" /\ cur[s] = p
      /\ UNCHANGED <<queued, cur, chan, temp, guards, style, ch, word, tgt, io>>
  BY DEF EnbReady, InKernel, altVars, localVars, Goto
<1>2. /\ iptr[p] = "enable" /\ Types /\ FlowAt(tm, p) /\ state[p] \in StateWords /\ state[p].tag = "alt"
      /\ ~state[p].waiting /\ state[p].n \in Int
      /\ Head(todo[p]) \in Chans \cup Timers \cup {Skip} /\ Ready(Head(todo[p]))
      /\ Head(todo[p]) \in Chans => chan[Head(todo[p])] # Empty
      /\ style[p] # "all" => temp[p] = Junk
      /\ style[p] = "procalt" => state[p].notReady
  BY <1>1, ReadyHead DEF EnbLabels
<1>3. /\ temp \in [Procs -> Chans \cup Timers \cup {Skip, None, Junk}] /\ state \in [Procs -> StateWords]
      /\ word \in [Scheds -> ChanWord] /\ tgt \in [Scheds -> Procs \cup {NotProcess}]
      /\ style[p] \in {"jump", "all", "procalt"}
  BY <1>2 DEF Types, Styles
<1>4. CASE style[p] # "jump" /\ state[p].notReady
  <2>1. pc' = [pc EXCEPT ![s] = "enb_and"] /\ UNCHANGED <<state, todo, iptr, ready0>>
    BY <1>4 DEF EnbReady, Goto
  <2>2. "enb_and" \in {"enbc_swap"} \cup EnbLabels
    BY DEF EnbLabels
  <2>3. /\ pc[s] \in {"user"} \cup EnbLabels
        /\ UNCHANGED <<queued, cur, chan, state, temp, iptr, guards, style, todo, ch, word, tgt, io, ready0>>
    BY <1>1, <2>1 DEF EnbLabels
  <2> QED BY <1>1, <1>2, <1>4, <2>1, <2>2, <2>3, EnableStay
<1>5. CASE style[p] = "jump"
  <2>1. /\ pc' = [pc EXCEPT ![s] = "user"] /\ state' = [state EXCEPT ![p] = ClearReadyFlags(state[p])]
        /\ StartDisabling(p, Len(guards[p]) - Len(todo[p]) + 1)
    BY <1>5 DEF EnbReady, Goto, SetState, GuardReady
  <2>2. PICK st \in StateWords : st = ClearReadyFlags(state[p])
    BY <1>2, FlagUpdates
  <2>3. st.tag = "alt" /\ ~st.waiting /\ st.n = state[p].n /\ state' = [state EXCEPT ![p] = st]
    BY <1>2, <2>1, <2>2, FlagUpdates
  <2>4. PICK k \in 1..Len(guards[p]) : /\ k = Len(guards[p]) - Len(todo[p]) + 1
                                       /\ Head(todo[p]) = guards[p][k]
    BY <1>2, EnableFacts DEF FlowAt
  <2>5. Len(guards[p]) - Len(todo[p]) <= k /\ k \in 1..k
    <3>1. Len(todo[p]) \in Nat /\ Len(guards[p]) \in Nat
      BY <1>2, EnableFacts DEF FlowAt
    <3>2. PICK n \in Nat, m \in Nat : n = Len(guards[p]) /\ m = Len(todo[p])
      BY <3>1
    <3> QED BY <2>4, <3>2
  <2>6. StartDisabling(p, k)
    BY <2>1, <2>4
  <2>7. PICK g0 \in Chans \cup Timers \cup {Skip, None, Junk} : g0 = temp[p] /\ g0 = Junk
    BY <1>2, <1>5
  <2>8. SetTemp(p, g0) /\ SetState(p, st)
    BY <1>1, <1>3, <2>3, <2>7 DEF SetState, SetTemp
  <2>9. \E i \in 1..k : Ready(guards[p][i])
    BY <1>2, <2>4, <2>5
  <2>10. /\ iptr[p] \in {"enable", "altwt"} /\ pc[s] \in EnbLabels \cup AltwtLabels
         /\ g0 \in {None, Junk} /\ cur' = cur
         /\ UNCHANGED <<queued, chan, guards, style, ch, word, tgt, io>>
    BY <1>1, <1>2, <2>7 DEF EnbLabels
  <2>11. Returns(s, st.waiting)
    BY <2>1, <2>3, <2>10 DEF Returns
  <2>12. Begins(p, k, g0, st.waiting)
    BY <1>5, <2>9, <2>10 DEF Begins
  <2> QED BY <1>1, <2>3, <2>5, <2>6, <2>8, <2>10, <2>11, <2>12, StartStep
<1>6. CASE style[p] = "all" /\ ~state[p].notReady
  <2>1. /\ pc' = [pc EXCEPT ![s] = "user"] /\ UNCHANGED <<state, ready0>> /\ NextGuard(p)
    BY <1>6 DEF EnbReady, Goto, GuardReady
  <2>2. PICK st \in StateWords : st = state[p]
    BY <1>2
  <2>3. /\ state' = [state EXCEPT ![p] = st] /\ st.tag = "alt" /\ ~st.waiting
        /\ st.n = IF pc[s] = "enbc_inc" THEN state[p].n + 1 ELSE state[p].n
        /\ style[p] # "all" => st.enabling = state[p].enabling
        /\ ~st.notReady => ~state[p].notReady \/ (style[p] = "all" /\ Ready(Head(todo[p])))
    BY <1>1, <1>2, <1>3, <2>1, <2>2
  <2>4. /\ pc[s] \in {"user", "enbc_inc"} \cup EnbLabels
        /\ temp' = temp \/ (style[p] = "all" /\ temp' = [temp EXCEPT ![p] = Head(todo[p])])
        /\ style[p] = "procalt" => Len(todo[p]) = 1
        /\ UNCHANGED <<queued, cur, chan, guards, style, ch, io, ready0>>
        /\ word' \in [Scheds -> ChanWord] /\ tgt' \in [Scheds -> Procs \cup {NotProcess}]
        /\ \A t \in Scheds : t # s => word'[t] = word[t] /\ tgt'[t] = tgt[t]
    BY <1>1, <1>3, <1>6, <2>1 DEF EnbLabels
  <2> QED BY <1>1, <1>2, <2>1, <2>3, <2>4, EnableGo
<1> QED BY <1>2, <1>3, <1>4, <1>5, <1>6

(* The first guard found ready by the plain instructions or by ProcAlt. *)
LEMMA EnbAndStep ==
  ASSUME NEW tm, IInv(tm), NEW s \in Scheds, NEW p \in Procs, EnbAnd(s, p)
  PROVE  IInv(tm)'
<1>1. /\ pc[s] = "enb_and" /\ cur[s] = p /\ GuardReady(p)
      /\ UNCHANGED <<queued, cur, chan, guards, style, ch, word, tgt, io>>
      /\ pc' = [pc EXCEPT ![s] = "user"] /\ state' = [state EXCEPT ![p] = ClearReadyFlags(state[p])]
      /\ temp' = [temp EXCEPT ![p] = Head(todo[p])]
  BY DEF EnbAnd, InKernel, altVars, localVars, Goto, SetState
<1>2. /\ iptr[p] = "enable" /\ Types /\ FlowAt(tm, p) /\ state[p] \in StateWords /\ state[p].tag = "alt"
      /\ ~state[p].waiting /\ state[p].n \in Int
      /\ Head(todo[p]) \in Chans \cup Timers \cup {Skip} /\ Ready(Head(todo[p]))
      /\ Head(todo[p]) \in Chans => chan[Head(todo[p])] # Empty
      /\ style[p] # "jump"
      /\ style[p] = "procalt" => Passed(p) \subseteq Timers
  BY <1>1, ReadyHead DEF EnbLabels
<1>3. /\ temp \in [Procs -> Chans \cup Timers \cup {Skip, None, Junk}] /\ state \in [Procs -> StateWords]
      /\ word \in [Scheds -> ChanWord] /\ tgt \in [Scheds -> Procs \cup {NotProcess}]
      /\ style[p] \in {"jump", "all", "procalt"}
  BY <1>2 DEF Types, Styles
<1>4. PICK st \in StateWords : st = ClearReadyFlags(state[p])
  BY <1>2, FlagUpdates
<1>5. st.tag = "alt" /\ ~st.waiting /\ st.n = state[p].n /\ state' = [state EXCEPT ![p] = st]
  BY <1>1, <1>2, <1>4, FlagUpdates
<1>6. CASE style[p] = "all"
  <2>1. NextGuard(p) /\ UNCHANGED ready0
    BY <1>1, <1>6 DEF GuardReady
  <2>2. /\ st.n = IF pc[s] = "enbc_inc" THEN state[p].n + 1 ELSE state[p].n
        /\ style[p] # "all" => st.enabling = state[p].enabling
        /\ ~st.notReady => ~state[p].notReady \/ (style[p] = "all" /\ Ready(Head(todo[p])))
        /\ pc[s] \in {"user", "enbc_inc"} \cup EnbLabels
        /\ temp' = temp \/ (style[p] = "all" /\ temp' = [temp EXCEPT ![p] = Head(todo[p])])
        /\ style[p] = "procalt" => Len(todo[p]) = 1
        /\ UNCHANGED <<queued, cur, chan, guards, style, ch, io, ready0>>
        /\ word' \in [Scheds -> ChanWord] /\ tgt' \in [Scheds -> Procs \cup {NotProcess}]
        /\ \A t \in Scheds : t # s => word'[t] = word[t] /\ tgt'[t] = tgt[t]
    BY <1>1, <1>2, <1>3, <1>5, <1>6, <2>1 DEF EnbLabels
  <2> QED BY <1>1, <1>2, <1>5, <2>1, <2>2, EnableGo
<1>7. CASE style[p] = "procalt"
  <2>1. StartDisabling(p, Len(guards[p]) - Len(todo[p]) + 1)
    BY <1>1, <1>7 DEF GuardReady
  <2>2. /\ Len(todo[p]) \in Nat /\ Len(guards[p]) \in Nat
        /\ Len(guards[p]) - Len(todo[p]) + 1 \in 1..Len(guards[p])
        /\ Head(todo[p]) = guards[p][Len(guards[p]) - Len(todo[p]) + 1]
    BY <1>2, EnableFacts DEF FlowAt
  <2>3. PICK k \in 1..Len(guards[p]) : k = Len(guards[p]) - Len(todo[p]) + 1 /\ StartDisabling(p, k)
    BY <2>1, <2>2
  <2>4. /\ Len(guards[p]) - Len(todo[p]) <= k
        /\ \A i \in 1..k : i < k => i \in 1..(Len(guards[p]) - Len(todo[p]))
    <3>1. PICK n \in Nat, m \in Nat, j \in Nat : n = Len(guards[p]) /\ m = Len(todo[p]) /\ j = k
      BY <2>2
    <3>2. j = n - m + 1
      BY <2>3, <3>1
    <3>3. n - m <= j
      BY <3>2
    <3>4. ASSUME NEW i \in 1..j, i < j PROVE i \in 1..(n - m)
      BY <3>2, <3>4
    <3> QED BY <3>1, <3>3, <3>4
  <2>5. PICK g0 \in Chans \cup Timers \cup {Skip, None, Junk} : g0 = Head(todo[p])
    BY <1>2
  <2>6. /\ SetTemp(p, g0) /\ SetState(p, st) /\ style[p] # "jump" /\ g0 = guards[p][k]
        /\ g0 \in Chans \cup Timers \cup {Skip} /\ Ready(g0)
        /\ \A i \in 1..k : i < k => guards[p][i] \in Timers
    <3>1. \A i \in 1..k : i < k => guards[p][i] \in Timers
      BY <1>2, <1>7, <2>4 DEF Passed
    <3> QED BY <1>1, <1>2, <1>5, <2>2, <2>3, <2>5, <3>1 DEF SetState, SetTemp
  <2>7. /\ iptr[p] \in {"enable", "altwt"} /\ pc[s] \in EnbLabels \cup AltwtLabels
        /\ UNCHANGED <<queued, chan, guards, style, ch, word, tgt, io>>
        /\ pc' = [pc EXCEPT ![s] = "user"] /\ cur' = cur
    BY <1>1, <1>2 DEF EnbLabels
  <2>8. Returns(s, st.waiting)
    BY <1>5, <2>7 DEF Returns
  <2>9. Begins(p, k, g0, st.waiting)
    BY <2>6 DEF Begins
  <2> QED BY <1>1, <1>5, <2>3, <2>4, <2>6, <2>7, <2>8, <2>9, StartStep
<1> QED BY <1>2, <1>3, <1>6, <1>7

(* All guards have been enabled. *)
LEMMA AltwtFacts ==
  ASSUME NEW tm, IInv(tm), NEW s \in Scheds, NEW p \in Procs, cur[s] = p, iptr[p] = "altwt"
  PROVE  /\ Types /\ FlowAt(tm, p) /\ \A L : Runs(p, L) <=> pc[s] \in L
         /\ pc[s] \in {"user"} \cup AltwtLabels /\ (pc[s] \in AltwtLabels => temp[p] = None)
         /\ pc[s] = "altwt_clear" => ~state[p].notReady
         /\ state[p] \in StateWords /\ state[p].n \in Int /\ state[p].tag = "alt" /\ ~state[p].waiting
         /\ Enabled(p) = Passed(p) /\ Len(todo[p]) = 0 /\ Len(guards[p]) \in 1..Len(guards[p])
         /\ Len(guards[p]) - Len(todo[p]) <= Len(guards[p])
         /\ ~state[p].notReady \/ TriggeredOn(p) => \E i \in 1..Len(guards[p]) : Ready(guards[p][i])
<1>1. /\ Types /\ FlowAt(tm, p) /\ RunAt(s) /\ \A L : Runs(p, L) <=> pc[s] \in L
      /\ pc[s] \in {"user"} \cup EnbcLabels \cup EnbLabels \cup AltwtLabels \cup DiscLabels \cup DistLabels
      /\ state[p] \in StateWords /\ state[p].tag = "alt" /\ ~state[p].waiting
  BY AltFacts DEF InAlt
<1>2. ListAt(p) /\ FlagsAt(p) /\ EnabledAt(p) /\ SelectedAt(p)
  BY <1>1 DEF FlowAt
<1>3. pc[s] \in {"user"} \cup AltwtLabels
  BY <1>1 DEF RunAt
<1>4. pc[s] \in AltwtLabels => temp[p] = None
  BY <1>1, <1>2 DEF SelectedAt
<1>5. pc[s] = "altwt_clear" => ~state[p].notReady
  BY <1>1, <1>2 DEF FlagsAt
<1>6. Enabled(p) = Passed(p)
  BY <1>1, <1>3 DEF Enabled, AltwtLabels
<1>7. guards[p] \in Seq(Chans \cup Timers \cup {Skip}) /\ todo[p] \in Seq(Chans \cup Timers \cup {Skip}) /\ todo[p] = << >>
      /\ guards[p] # << >>
  BY <1>1, <1>2, AltAssumption DEF Types, ListAt, InAlt
<1>8. Len(todo[p]) = 0 /\ Len(guards[p]) \in Nat /\ Len(guards[p]) # 0
  BY <1>7, EmptyFacts
<1>9. PICK n \in Nat : n = Len(guards[p]) /\ n \in 1..n /\ n - 0 = n /\ n <= n
  BY <1>8
<1>10. ~state[p].notReady \/ TriggeredOn(p) => \E i \in 1..n : Ready(guards[p][i])
  <2> SUFFICES ASSUME ~state[p].notReady \/ TriggeredOn(p) PROVE \E i \in 1..n : Ready(guards[p][i])
    OBVIOUS
  <2>1. PICK g \in Passed(p) : Ready(g)
    BY <1>2, <1>6 DEF EnabledAt, Hopeful
  <2>2. PICK i \in 1..n : g = guards[p][i]
    BY <1>8, <1>9, <2>1 DEF Passed
  <2> QED BY <2>1, <2>2
<1> QED BY <1>1, <1>3, <1>4, <1>5, <1>6, <1>8, <1>9, <1>10, StateFacts

(* ALTWT reads the state word. *)
LEMMA AltWtStay ==
  ASSUME NEW tm, IInv(tm), NEW s \in Scheds, NEW p \in Procs, cur[s] = p, iptr[p] = "altwt", NEW l \in AltwtLabels,
         pc' = [pc EXCEPT ![s] = l], temp' = [temp EXCEPT ![p] = None],
         l = "altwt_clear" => ~state[p].notReady,
         UNCHANGED <<queued, cur, chan, state, iptr, guards, style, todo, ch, word, tgt, io, ready0>>
  PROVE  IInv(tm)'
<1>1. /\ Types /\ FlowAt(tm, p) /\ pc[s] \in {"user"} \cup AltwtLabels
      /\ state[p].tag = "alt" /\ ~state[p].waiting /\ Enabled(p) = Passed(p)
  BY AltwtFacts
<1>2. /\ \A c \in Chans : chan[c] = AltPtr(p) => Reader[c] = p /\ AltIn(p, c)
      /\ \A L : Runs(p, L) <=> pc[s] \in L
  BY AltFacts DEF InAlt
<1>3. pc' \in [Scheds -> PcLabels] /\ pc'[s] = l /\ \A t \in Scheds : t # s => pc'[t] = pc[t]
  BY <1>1 DEF Types, PcLabels
<1>4. temp' \in [Procs -> Chans \cup Timers \cup {Skip, None, Junk}] /\ temp'[p] = None
      /\ \A r \in Procs : r # p => temp'[r] = temp[r]
  BY <1>1 DEF Types
<1>5. Types'
  BY <1>1, <1>3, <1>4 DEF Types
<1>6. Touch(s, {p})
  <2>1. Alone(s, p)
    BY <1>3, <1>4 DEF Alone, AltwtLabels
  <2> QED BY <2>1, AloneTouch
<1>7. ~Off(p)' /\ \A L : Runs(p, L)' <=> l \in L
  BY <1>3, <1>6, RunnerNext DEF AltwtLabels
<1>8. Refs(p)' = Refs(p) /\ (TriggeredOn(p)' <=> TriggeredOn(p))
  BY <1>1, <1>3, SameRefs DEF AltwtLabels
<1>9. Passed(p)' = Passed(p) /\ Enabled(p)' = Passed(p)
  <2>1. ~Runs(p, {"enbc_inc"})'
    BY <1>7 DEF AltwtLabels
  <2> QED BY <2>1 DEF Passed, Enabled
<1>10. \A g : (Ready(g)' <=> Ready(g)) /\ (Hopeful(p, g)' <=> Hopeful(p, g))
  BY DEF Ready, Hopeful
<1>11. EnabledAt(p)'
  <2>1. EnabledAt(p)
    BY <1>1 DEF FlowAt
  <2>2. /\ \A g \in Passed(p) : g \in Chans => chan[g] # Empty
        /\ ~state[p].notReady \/ TriggeredOn(p) => \E g \in Passed(p) : Hopeful(p, g)
    BY <1>1, <2>1 DEF EnabledAt
  <2>3. ~Runs(p, EnbcLabels)' /\ ~Runs(p, EnbLabels)' /\ ~Runs(p, {"enb_and"})'
    BY <1>7 DEF EnbcLabels, EnbLabels, AltwtLabels
  <2> QED BY <1>8, <1>9, <1>10, <2>2, <2>3 DEF EnabledAt
<1>12. ListAt(p)'
  BY <1>1 DEF FlowAt, ListAt, InAlt
<1>13. CountAt(tm, p)'
  <2>1. state[p].n = 1 + Refs(p) + tm.refs[p] /\ Refs(p) \in Nat /\ tm.refs[p] \in Nat
    BY <1>1, EnableCount DEF AltwtLabels
  <2>2. ~Runs(p, {"disc_dec"})' /\ ~Runs(p, {"enbc_inc", "enbc_restore"})' /\ ~Runs(p, {"altend_dec"})'
    BY <1>7 DEF AltwtLabels
  <2>3. state'[p].n = 1 + Refs(p)' + tm.refs[p] + 0 - 0
    BY <1>8, <2>1
  <2> QED BY <1>7, <1>8, <2>1, <2>2, <2>3 DEF CountAt, InAlt
<1>14. FlowAt(tm, p)'
  <2>1. FirstAt(p)
    BY <1>1 DEF FlowAt
  <2>2. \A g \in ready0[p] : g \in Elems(guards[p]) /\ Ready(g)'
    BY <1>10, <2>1 DEF FirstAt, InAlt
  <2>3. (Runs(p, {"altwt_clear"})' => ~state'[p].notReady) /\ ~Runs(p, {"altend_dec"})'
    BY <1>7 DEF AltwtLabels
  <2>4. /\ iptr'[p] = "altwt" /\ state'[p].tag = "alt" /\ ~state'[p].waiting /\ \E t \in Scheds : cur'[t] = p
    BY <1>1
  <2> QED BY <1>4, <1>7, <1>11, <1>12, <1>13, <2>2, <2>3, <2>4, EnableFlow
<1>15. ASSUME NEW d \in Chans, chan[d] = AltPtr(p) PROVE AltIn(p, d)'
  <2>1. d \in Enabled(p)
    <3>1. AltIn(p, d) /\ ~Runs(p, {"enbc_restore"})
      BY <1>1, <1>2, <1>15 DEF AltwtLabels
    <3> QED BY <3>1 DEF AltIn
  <2> QED BY <1>1, <1>9, <2>1 DEF AltIn
<1>16. InAlt(p) /\ pc'[s] \in AltwtLabels /\ iptr'[p] = "altwt"
       /\ (pc'[s] \notin {"enbc_swap"} \cup DiscLabels \cup DistLabels)
  BY <1>3 DEF InAlt, DiscLabels, DistLabels, AltwtLabels
<1> QED BY <1>3, <1>4, <1>5, <1>14, <1>15, <1>16, AltQuietStep

(* Y_altwt looks at the state word. *)
LEMMA AltWtStep ==
  ASSUME NEW tm, IInv(tm), NEW s \in Scheds, NEW p \in Procs, AltWt(s, p)
  PROVE  IInv(tm)'
<1>1. /\ cur[s] = p /\ iptr[p] = "altwt" /\ temp' = [temp EXCEPT ![p] = None]
      /\ pc' = [pc EXCEPT ![s] = IF state[p].notReady THEN "altwt_cas" ELSE "altwt_clear"]
      /\ UNCHANGED <<queued, cur, chan, state, iptr, guards, style, todo, ch, word, tgt, io, ready0>>
  BY DEF AltWt, At, altVars, localVars, histVars, Goto
<1>2. PICK l \in AltwtLabels : l = IF state[p].notReady THEN "altwt_cas" ELSE "altwt_clear"
  BY DEF AltwtLabels
<1> QED BY <1>1, <1>2, AltWtStay

(* The compare-and-swap of Y_altwt: the process sleeps unless a guard has  *)
(* become ready.                                                           *)
LEMMA AltWtCasStep ==
  ASSUME NEW tm, IInv(tm), NEW s \in Scheds, NEW p \in Procs, AltWtCas(s, p)
  PROVE  IInv(tm)'
<1>1. /\ pc[s] = "altwt_cas" /\ cur[s] = p
      /\ UNCHANGED <<queued, chan, temp, guards, style, ch, word, tgt, io>>
  BY DEF AltWtCas, InKernel, altVars, localVars
<1>2. iptr[p] = "altwt"
  BY <1>1 DEF IInv, RunAt, AltwtLabels
<1>3. /\ Types /\ temp[p] = None /\ state[p].n \in Int
      /\ Len(guards[p]) \in 1..Len(guards[p]) /\ Len(guards[p]) - Len(todo[p]) <= Len(guards[p])
      /\ TriggeredOn(p) => \E i \in 1..Len(guards[p]) : Ready(guards[p][i])
  BY <1>1, <1>2, AltwtFacts DEF AltwtLabels
<1>4. temp' = [temp EXCEPT ![p] = None]
  BY <1>1, <1>3 DEF Types
<1>5. CASE state[p].notReady
  <2>1. /\ state' = [state EXCEPT ![p] = AltState(FALSE, TRUE, FALSE, state[p].n)]
        /\ StartDisabling(p, Len(guards[p]))
        /\ pc' = [pc EXCEPT ![s] = "sched"] /\ cur' = [cur EXCEPT ![s] = NotProcess]
    BY <1>5 DEF AltWtCas, SetState, KernelScheduler
  <2>2. PICK st \in StateWords : /\ st = AltState(FALSE, TRUE, FALSE, state[p].n)
                                 /\ st.tag = "alt" /\ st.waiting /\ st.n = state[p].n
    <3>1. PICK m \in Int : m = state[p].n
      BY <1>3
    <3>2. PICK st \in StateWords : st = AltState(FALSE, TRUE, FALSE, m)
      BY StateFacts
    <3>3. st.tag = "alt" /\ st.waiting /\ st.n = m
      BY <3>2, StateFacts
    <3> QED BY <3>1, <3>2, <3>3
  <2>3. PICK k \in 1..Len(guards[p]) : k = Len(guards[p])
    BY <1>3
  <2>4. PICK g0 \in Chans \cup Timers \cup {Skip, None, Junk} : g0 = None
    OBVIOUS
  <2>5. Returns(s, st.waiting) /\ SetState(p, st) /\ SetTemp(p, g0)
    BY <1>4, <2>1, <2>2, <2>4 DEF Returns, SetState, SetTemp
  <2>6. Begins(p, k, g0, st.waiting)
    BY <1>3, <2>2, <2>3, <2>4 DEF Begins
  <2>7. /\ iptr[p] \in {"enable", "altwt"} /\ pc[s] \in EnbLabels \cup AltwtLabels
        /\ StartDisabling(p, k) /\ Len(guards[p]) - Len(todo[p]) <= k
    BY <1>1, <1>2, <1>3, <2>1, <2>3 DEF AltwtLabels
  <2> QED BY <1>1, <2>2, <2>5, <2>6, <2>7, StartStep
<1>6. CASE ~state[p].notReady
  <2>1. /\ pc' = [pc EXCEPT ![s] = "altwt_clear"] /\ UNCHANGED <<cur, state, todo, iptr, ready0>>
    BY <1>6 DEF AltWtCas, Goto
  <2>2. PICK l \in AltwtLabels : l = "altwt_clear"
    BY DEF AltwtLabels
  <2> QED BY <1>1, <1>2, <1>4, <1>6, <2>1, <2>2, AltWtStay
<1> QED BY <1>5, <1>6

(* A guard is ready: Y_altwt goes on to the disabling. *)
LEMMA AltWtClearStep ==
  ASSUME NEW tm, IInv(tm), NEW s \in Scheds, NEW p \in Procs, AltWtClear(s, p)
  PROVE  IInv(tm)'
<1>1. /\ pc[s] = "altwt_clear" /\ cur[s] = p
      /\ UNCHANGED <<queued, chan, temp, guards, style, ch, word, tgt, io, cur>>
      /\ state' = [state EXCEPT ![p] = [state[p] EXCEPT !.enabling = FALSE]]
      /\ pc' = [pc EXCEPT ![s] = "user"] /\ StartDisabling(p, Len(guards[p]))
  BY DEF AltWtClear, InKernel, altVars, localVars, SetState, Goto
<1>2. iptr[p] = "altwt"
  BY <1>1 DEF IInv, RunAt, AltwtLabels
<1>3. /\ Types /\ temp[p] = None /\ state[p] \in StateWords /\ state[p].tag = "alt" /\ ~state[p].waiting
      /\ Len(guards[p]) \in 1..Len(guards[p]) /\ Len(guards[p]) - Len(todo[p]) <= Len(guards[p])
      /\ \E i \in 1..Len(guards[p]) : Ready(guards[p][i])
  BY <1>1, <1>2, AltwtFacts DEF AltwtLabels
<1>4. PICK st \in StateWords : st = [state[p] EXCEPT !.enabling = FALSE] /\ st.tag = "alt"
                               /\ ~st.waiting /\ st.n = state[p].n
  <2>1. PICK w \in StateWords : w = state[p] /\ w.tag = "alt" /\ ~w.waiting
    BY <1>3
  <2>2. PICK st \in StateWords : st = [w EXCEPT !.enabling = FALSE]
    BY StateUpdates
  <2>3. st.tag = "alt" /\ ~st.waiting /\ st.n = w.n
    BY <2>1, <2>2, StateUpdates
  <2> QED BY <2>1, <2>2, <2>3
<1>5. PICK k \in 1..Len(guards[p]) : k = Len(guards[p])
  BY <1>3
<1>6. PICK g0 \in Chans \cup Timers \cup {Skip, None, Junk} : g0 = None
  OBVIOUS
<1>7. SetTemp(p, g0)
  BY <1>1, <1>3, <1>6 DEF SetTemp, Types
<1>8. Returns(s, st.waiting) /\ SetState(p, st)
  BY <1>1, <1>4 DEF Returns, SetState
<1>9. Begins(p, k, g0, st.waiting)
  BY <1>3, <1>4, <1>5, <1>6 DEF Begins
<1>10. /\ iptr[p] \in {"enable", "altwt"} /\ pc[s] \in EnbLabels \cup AltwtLabels
       /\ StartDisabling(p, k) /\ Len(guards[p]) - Len(todo[p]) <= k
  BY <1>1, <1>2, <1>3, <1>5 DEF AltwtLabels
<1> QED BY <1>1, <1>4, <1>7, <1>8, <1>9, <1>10, StartStep

(* What an ALT is over. *)
LEMMA AltGuards ==
  ASSUME NEW p \in Procs, NEW a \in Alts[p]
  PROVE  /\ a.guards \in Seq(Chans \cup Timers \cup {Skip}) /\ a.guards # << >> /\ a.style \in Styles
         /\ Len(a.guards) \in Nat /\ DOMAIN a.guards = 1..Len(a.guards)
         /\ \A i \in DOMAIN a.guards : a.guards[i] \in Chans => Reader[a.guards[i]] = p
<1>1. /\ a.guards \in Seq(Chans \cup Timers \cup {Skip}) /\ a.guards # << >> /\ a.style \in Styles
      /\ \A i \in DOMAIN a.guards : a.guards[i] \in Chans => Reader[a.guards[i]] = p
  BY AltAssumption
<1>2. PICK q \in Seq(Chans \cup Timers \cup {Skip}) : q = a.guards
  BY <1>1
<1>3. Len(q) \in Nat /\ DOMAIN q = 1..Len(q)
  BY <1>2
<1> QED BY <1>1, <1>2, <1>3

(* X_alt and X_talt: the state word becomes an ALT state. *)
LEMMA StartAltStep ==
  ASSUME NEW tm, IInv(tm), NEW s \in Scheds, NEW p \in Procs, NEW a \in Alts[p],
         At(s, p, {"main", "timed"}), StartAlt(p, a)
  PROVE  IInv(tm)'
<1>1. /\ pc[s] = "user" /\ cur[s] = p /\ iptr[p] \in {"main", "timed"}
      /\ UNCHANGED <<pc, cur, queued, chan, temp, ch, word, tgt, io>>
      /\ state' = [state EXCEPT ![p] = AltState(TRUE, FALSE, TRUE, 1)]
      /\ guards' = [guards EXCEPT ![p] = a.guards] /\ style' = [style EXCEPT ![p] = a.style]
      /\ todo' = [todo EXCEPT ![p] = a.guards] /\ iptr' = [iptr EXCEPT ![p] = "enable"]
      /\ ready0' = [ready0 EXCEPT ![p] = ReadyOf(a.guards)]
  BY DEF StartAlt, At, SetState, SetIptr, schedVars, localVars
<1>2. PICK gs \in Seq(Chans \cup Timers \cup {Skip}) :
        /\ gs = a.guards /\ gs # << >> /\ DOMAIN gs = 1..Len(gs) /\ Len(gs) \in Nat
        /\ a.style \in Styles /\ \A i \in DOMAIN gs : gs[i] \in Chans => Reader[gs[i]] = p
  BY AltGuards
<1>3. /\ Types /\ FlowAt(tm, p) /\ ~Off(p) /\ queued[p] = 0 /\ (\A L : Runs(p, L) <=> pc[s] \in L)
      /\ tm.refs[p] = 0
  <2>1. tm.refs[p] = 0
    BY <1>1, RunnerFacts DEF InAlt
  <2> QED BY <1>1, <2>1, RunnerFacts DEF IInv
<1>4. /\ ~TriggeredOn(p) /\ io[p] = R!Idle /\ \A c \in Chans : chan[c] # AltPtr(p)
  BY <1>1, QuietUser
<1>5. temp[p] = Junk
  BY <1>1, <1>3 DEF FlowAt, SelectedAt
<1>6. PICK st \in StateWords : /\ st = AltState(TRUE, FALSE, TRUE, 1) /\ st.tag = "alt" /\ st.enabling
                               /\ ~st.waiting /\ st.notReady /\ st.n = 1
  <2>1. PICK m \in Int : m = 1
    OBVIOUS
  <2>2. PICK x \in StateWords : x = AltState(TRUE, FALSE, TRUE, m)
    BY StateFacts
  <2>3. x.tag = "alt" /\ x.enabling /\ ~x.waiting /\ x.notReady /\ x.n = m
    BY <2>2, StateFacts
  <2> QED BY <2>1, <2>2, <2>3
<1>7. ReadyOf(gs) \subseteq Chans \cup {Skip} /\ \A g \in ReadyOf(gs) : g \in Elems(gs) /\ Ready(g)
  <2> SUFFICES ASSUME NEW g \in ReadyOf(gs) PROVE g \in Chans \cup {Skip} /\ g \in Elems(gs) /\ Ready(g)
    OBVIOUS
  <2>1. g \in Elems(gs)
    BY DEF ReadyOf, Elems
  <2>2. CASE g = Skip
    BY <2>1, <2>2 DEF Ready
  <2>3. CASE g \in Chans /\ ~chan[g].alt /\ chan[g] # Empty
    <3>1. Reader[g] = p
      BY <1>2, <2>1, <2>3 DEF Elems
    <3>2. p \in Ends(g) /\ p # Writer[g] /\ Partner(p, g) = Writer[g]
      BY <2>3, <3>1, EndFacts DEF Partner
    <3>3. chan[g] = Wptr(Writer[g])
      BY <1>1, <2>3, <3>2, ChanSeen
    <3> QED BY <2>1, <2>3, <3>3 DEF Ready
  <2> QED BY <2>2, <2>3 DEF ReadyOf
<1>8. /\ state' \in [Procs -> StateWords] /\ guards' \in [Procs -> Seq(Chans \cup Timers \cup {Skip})]
      /\ style' \in [Procs -> Styles] /\ todo' \in [Procs -> Seq(Chans \cup Timers \cup {Skip})]
      /\ iptr' \in [Procs -> Labels \cup {"timed"}] /\ ready0' \in [Procs -> SUBSET (Chans \cup {Skip})]
  <2>1. /\ state \in [Procs -> StateWords] /\ guards \in [Procs -> Seq(Chans \cup Timers \cup {Skip})]
        /\ style \in [Procs -> Styles] /\ todo \in [Procs -> Seq(Chans \cup Timers \cup {Skip})]
        /\ iptr \in [Procs -> Labels \cup {"timed"}] /\ ready0 \in [Procs -> SUBSET (Chans \cup {Skip})]
    BY <1>3 DEF Types
  <2>2. "enable" \in Labels
    BY DEF Labels
  <2>3. state' \in [Procs -> StateWords]
    BY <1>1, <1>6, <2>1
  <2>4. guards' \in [Procs -> Seq(Chans \cup Timers \cup {Skip})] /\ todo' \in [Procs -> Seq(Chans \cup Timers \cup {Skip})]
    BY <1>1, <1>2, <2>1
  <2>5. style' \in [Procs -> Styles] /\ iptr' \in [Procs -> Labels \cup {"timed"}]
    BY <1>1, <1>2, <2>1, <2>2
  <2>6. ready0' \in [Procs -> SUBSET (Chans \cup {Skip})]
    BY <1>1, <1>2, <1>7, <2>1
  <2> QED BY <2>3, <2>4, <2>5, <2>6
<1>9. /\ state'[p] = st /\ guards'[p] = gs /\ style'[p] = a.style /\ todo'[p] = gs
      /\ iptr'[p] = "enable" /\ ready0'[p] = ReadyOf(gs)
      /\ \A r \in Procs : r # p =>
           /\ state'[r] = state[r] /\ guards'[r] = guards[r] /\ style'[r] = style[r]
           /\ todo'[r] = todo[r] /\ iptr'[r] = iptr[r] /\ ready0'[r] = ready0[r]
  BY <1>1, <1>2, <1>3, <1>6 DEF Types
<1>10. Types'
  BY <1>1, <1>3, <1>8 DEF Types
<1>11. Touch(s, {p})
  <2>1. Alone(s, p)
    BY <1>1, <1>9 DEF Alone
  <2> QED BY <1>1, <2>1, AloneTouch
<1>12. ~Off(p)' /\ \A L : Runs(p, L)' <=> pc'[s] \in L
  BY <1>1, <1>11, RunnerNext
<1>13. Refs(p)' = 0 /\ ~TriggeredOn(p)'
  <2>1. ~TriggeredOn(p)'
    BY <1>1, <1>4 DEF TriggeredOn
  <2>2. InChans(p)' = {} /\ Triggers(p)' = {}
    BY <1>1, <1>4 DEF InChans, Triggers, TriggeredOn
  <2>3. Cardinality({}) = 0
    BY FS_EmptySet
  <2> QED BY <2>1, <2>2, <2>3 DEF Refs
<1>14. PICK n \in Nat : n = Len(gs)
  BY <1>2
<1>15. ListAt(p)'
  <2>1. \A i \in 1..n : n - n + i = i
    BY <1>14
  <2>2. \A i \in DOMAIN gs : gs[i] = gs[Len(gs) - Len(gs) + i]
    BY <1>2, <1>14, <2>1
  <2>3. \E b \in Alts[p] : b.guards = gs /\ b.style = style'[p]
    BY <1>2, <1>9
  <2>4. Len(gs) <= Len(gs)
    BY <1>14
  <2>5. Passed(p)' = {}
    <3>1. n - n = 0 /\ 1..0 = {}
      BY <1>14
    <3> QED BY <1>9, <1>14, <3>1 DEF Passed
  <2> QED BY <1>2, <1>9, <2>2, <2>3, <2>4, <2>5 DEF ListAt, InAlt
<1>16. EnabledAt(p)'
  <2>1. n - n = 0 /\ 1..0 = {}
    BY <1>14
  <2>2. Passed(p)' = {}
    BY <1>9, <1>14, <2>1 DEF Passed
  <2>3. ~Runs(p, {"enbc_inc"})' /\ ~Runs(p, EnbcLabels)' /\ ~Runs(p, EnbLabels)' /\ ~Runs(p, {"enb_and"})'
    BY <1>1, <1>12 DEF EnbcLabels, EnbLabels
  <2>4. Enabled(p)' = {}
    BY <2>2, <2>3 DEF Enabled
  <2> QED BY <1>6, <1>9, <1>13, <2>3, <2>4 DEF EnabledAt
<1>17. CountAt(tm, p)'
  <2>1. ~Runs(p, {"disc_dec"})' /\ ~Runs(p, {"enbc_inc", "enbc_restore"})' /\ ~Runs(p, {"altend_dec"})'
    BY <1>1, <1>12
  <2>2. 1 = 1 + 0 + 0 + 0 - 0
    OBVIOUS
  <2>3. tm.refs[p] = 0 /\ state'[p].n = 1 /\ iptr'[p] = "enable" /\ Refs(p)' = 0
    BY <1>3, <1>6, <1>9, <1>13
  <2> QED BY <2>1, <2>2, <2>3 DEF CountAt, InAlt
<1>18. FlowAt(tm, p)'
  <2>1. \A g \in ready0'[p] : g \in Elems(guards'[p]) /\ Ready(g)'
    <3>1. \A g : Ready(g)' <=> Ready(g)
      BY <1>1 DEF Ready
    <3> QED BY <1>7, <1>9, <3>1
  <2>2. ~Runs(p, {"altwt_clear"})' /\ ~Runs(p, {"altend_dec"})'
    BY <1>1, <1>12
  <2>3. /\ state'[p].tag = "alt" /\ ~state'[p].waiting /\ state'[p].enabling /\ temp'[p] = Junk
        /\ \E t \in Scheds : cur'[t] = p
    BY <1>1, <1>5, <1>6, <1>9
  <2> QED BY <1>9, <1>12, <1>15, <1>16, <1>17, <2>1, <2>2, <2>3, EnableFlow
<1>19. RunAt(s)' /\ HoldAt(tm, s)'
  <2>1. pc'[s] = "user" /\ cur'[s] # NotProcess
    BY <1>1, NotProcessAssumption
  <2> QED BY <2>1 DEF RunAt, HoldAt, HoldLabels, IdleLabels, IoLabels, XableLabels, XendLabels, EnbcLabels,
                      EnbLabels, AltwtLabels, DiscLabels, DistLabels
<1>20. IoAt(p)'
  BY <1>1, <1>4 DEF IoAt
<1>21. /\ pc'[s] \notin {"trigger", "trigger_enqueue", "walk_trigger", "walk_enqueue"} /\ pc[s] # "io_clear" /\ queued'[p] = 0
       /\ ~Transferred(p) /\ ~Transferred(p)' /\ UNCHANGED chan
       /\ (TriggeredOn(p) => Target(p)') /\ \A d \in Chans : chan[d] = AltPtr(p) => AltIn(p, d)'
  BY <1>1, <1>3, <1>4, <1>9 DEF Transferred
<1> QED BY <1>1, <1>10, <1>11, <1>18, <1>19, <1>20, <1>21, QuietStep

(* X_alt. *)
LEMMA AltStartStep ==
  ASSUME NEW tm, IInv(tm), NEW s \in Scheds, NEW p \in Procs, NEW a \in Alts[p], Alt(s, p, a)
  PROVE  IInv(tm)'
<1>1. At(s, p, {"main", "timed"}) /\ StartAlt(p, a)
  BY DEF Alt, At
<1> QED BY <1>1, StartAltStep

(* A guard stays selected. *)
LEMMA SelectedFlow ==
  ASSUME NEW tm, NEW p \in Procs, iptr[p] \in {"altend", "selected"}, FlowAt(tm, p), UNCHANGED <<chan, temp, guards, style, ready0>>,
         iptr'[p] = "selected", state'[p].tag = "alt", ~state'[p].waiting, ~Runs(p, {"altwt_clear"})',
         CountAt(tm, p)'
  PROVE  FlowAt(tm, p)'
<1>1. ListAt(p) /\ SelectedAt(p) /\ FirstAt(p)
  BY DEF FlowAt
<1>2. ListAt(p)'
  BY <1>1 DEF ListAt, InAlt
<1>3. FlagsAt(p)' /\ XinAt(p)' /\ EnabledAt(p)'
  BY DEF FlagsAt, XinAt, EnabledAt, InAlt
<1>4. SelectedAt(p)'
  <2>1. (~Timed(guards[p]) => Chosen(p)) /\ (Chosen(p) => temp[p] \in Elems(guards[p]) /\ Ready(temp[p]))
    BY <1>1 DEF SelectedAt
  <2>2. (Chosen(p)' <=> Chosen(p)) /\ (Ready(temp[p])' <=> Ready(temp[p]))
    BY DEF Chosen, Ready
  <2> QED BY <2>1, <2>2 DEF SelectedAt
<1>5. FirstAt(p)'
  <2>1. \A g : Position(p, g)' = Position(p, g)
    BY DEF Position
  <2>2. Position(p, temp[p])' = Position(p, temp[p])
    BY DEF Position
  <2>3. Chosen(p) => \A g \in ready0[p] : Position(p, temp[p]) <= Position(p, g)
    BY <1>1 DEF FirstAt
  <2>4. Chosen(p)' => \A g \in ready0'[p] : Position(p, temp[p])' <= Position(p, g)'
    BY <2>1, <2>2, <2>3 DEF Chosen
  <2> QED BY <2>4 DEF FirstAt, InAlt
<1> QED BY <1>2, <1>3, <1>4, <1>5 DEF FlowAt

(* ALTEND: partners on their way into trigger_alt_guard still count. *)
LEMMA AltEndStep ==
  ASSUME NEW tm, IInv(tm), NEW s \in Scheds, NEW p \in Procs, AltEnd(s, p)
  PROVE  IInv(tm)'
<1>1. /\ pc[s] = "user" /\ cur[s] = p /\ iptr[p] = "altend" /\ iptr' = [iptr EXCEPT ![p] = "selected"]
      /\ UNCHANGED <<queued, cur, chan, state, temp, guards, style, todo, ch, word, tgt, io, ready0>>
  BY DEF AltEnd, At, SetIptr, Goto, altVars, localVars, histVars
<1>2. PICK l \in {"user", "altend_dec"} :
        /\ pc' = [pc EXCEPT ![s] = l]
        /\ l = "user" => state[p] = AltState(FALSE, FALSE, FALSE, 1)
  <2>1. pc = [pc EXCEPT ![s] = "user"]
    BY <1>1 DEF IInv, Types
  <2>2. CASE state[p] = AltState(FALSE, FALSE, FALSE, 1)
    BY <2>1, <2>2 DEF AltEnd
  <2>3. CASE state[p] # AltState(FALSE, FALSE, FALSE, 1)
    BY <2>3 DEF AltEnd, Goto
  <2> QED BY <2>2, <2>3
<1>3. /\ Types /\ FlowAt(tm, p) /\ (\A L : Runs(p, L) <=> pc[s] \in L)
      /\ state[p] \in StateWords /\ state[p].tag = "alt" /\ ~state[p].waiting
      /\ \A c \in Chans : chan[c] = AltPtr(p) => Reader[c] = p /\ AltIn(p, c)
  BY <1>1, AltFacts DEF InAlt
<1>4. pc' \in [Scheds -> PcLabels] /\ pc'[s] = l /\ \A t \in Scheds : t # s => pc'[t] = pc[t]
  BY <1>2, <1>3 DEF Types, PcLabels
<1>5. iptr' \in [Procs -> Labels \cup {"timed"}] /\ iptr'[p] = "selected" /\ \A r \in Procs : r # p => iptr'[r] = iptr[r]
  BY <1>1, <1>3 DEF Types, Labels
<1>6. Types'
  BY <1>1, <1>3, <1>4, <1>5 DEF Types
<1>7. Touch(s, {p})
  <2>1. Alone(s, p)
    BY <1>1, <1>4, <1>5 DEF Alone
  <2> QED BY <1>1, <2>1, AloneTouch
<1>8. ~Off(p)' /\ \A L : Runs(p, L)' <=> l \in L
  BY <1>1, <1>4, <1>7, RunnerNext
<1>9. Refs(p)' = Refs(p) /\ Refs(p) \in Nat /\ (TriggeredOn(p) => Refs(p) >= 1)
  BY <1>1, <1>4, SameRefs, RefsFacts
<1>10. state[p].n = 1 + Refs(p) + tm.refs[p] /\ tm.refs[p] \in Nat
  <2>1. CountAt(tm, p) /\ InAlt(p)
    BY <1>1, <1>3 DEF FlowAt, InAlt
  <2>2. ~Runs(p, {"disc_dec"}) /\ ~Runs(p, {"enbc_inc", "enbc_restore"})
    BY <1>1, <1>3
  <2>3. PICK m \in Nat, k \in Nat : m = Refs(p) /\ k = tm.refs[p]
    BY <1>9, <2>1 DEF CountAt
  <2>4. state[p].n = 1 + m + k + 0 - 0
    BY <2>1, <2>2, <2>3 DEF CountAt
  <2> QED BY <2>3, <2>4
<1>11. CountAt(tm, p)'
  <2>1. l = "user" => tm.refs[p] = 0
    <3>1. l = "user" => state[p].n = 1
      BY <1>2 DEF AltState
    <3> QED BY <1>9, <1>10, <3>1
  <2>2. Runs(p, {"altend_dec"})' <=> l = "altend_dec"
    BY <1>8
  <2> QED BY <1>1, <1>2, <1>5, <1>8, <1>9, <1>10, <2>1, <2>2 DEF CountAt, InAlt
<1>12. FlowAt(tm, p)'
  <2>1. ~Runs(p, {"altwt_clear"})'
    BY <1>8
  <2> QED BY <1>1, <1>3, <1>5, <1>11, <2>1, SelectedFlow
<1>13. l = "user" => ~TriggeredOn(p)
  <2>1. l = "user" => state[p].n = 1
    BY <1>2 DEF AltState
  <2> QED BY <1>9, <1>10, <2>1
<1>14. \A d \in Chans : chan[d] # AltPtr(p)
  BY <1>1, <1>3 DEF AltIn
<1>15. InAlt(p) /\ pc'[s] \notin {"enbc_swap"} \cup DiscLabels \cup DistLabels
  BY <1>1, <1>2, <1>4 DEF InAlt, DiscLabels, DistLabels
<1> QED BY <1>1, <1>2, <1>4, <1>5, <1>6, <1>12, <1>13, <1>14, <1>15, AltQuietStep

(* The process gives up its own reference, and sleeps until the last one   *)
(* has gone.                                                               *)
LEMMA AltEndDecStep ==
  ASSUME NEW tm, IInv(tm), NEW s \in Scheds, NEW p \in Procs, AltEndDec(s, p)
  PROVE  IInv(tm)'
<1>1. /\ pc[s] = "altend_dec" /\ cur[s] = p
      /\ UNCHANGED <<queued, chan, temp, iptr, guards, style, todo, ch, word, tgt, io, ready0>>
      /\ state' = [state EXCEPT ![p] = [state[p] EXCEPT !.n = @ - 1]]
  BY DEF AltEndDec, InKernel, SetState, procVars, altVars, localVars, histVars
<1>2. /\ Types /\ FlowAt(tm, p) /\ iptr[p] = "selected" /\ IoAt(p)
  BY <1>1 DEF IInv, RunAt
<1>3. ~Off(p) /\ queued[p] = 0 /\ \A L : Runs(p, L) <=> pc[s] \in L
  BY <1>1, RunnerFacts
<1>4. PICK w \in StateWords : w = state[p]
  BY <1>2 DEF Types
<1>5. w.tag = "alt" /\ ~w.waiting /\ w.n = 1 + Refs(p) + tm.refs[p] /\ w.n \in Int
  <2>1. FlagsAt(p) /\ CountAt(tm, p) /\ Runs(p, {"altend_dec"})
    BY <1>1, <1>2, <1>3 DEF FlowAt
  <2>2. w.n \in Int
    BY StateFacts
  <2> QED BY <1>2, <1>4, <2>1, <2>2 DEF FlagsAt, CountAt
<1>6. PICK m \in Int : m = w.n - 1
  BY <1>5
<1>7. PICK st \in StateWords : /\ st = [w EXCEPT !.n = m] /\ st.tag = "alt" /\ ~st.waiting /\ st.n = m
  <2>1. PICK x \in StateWords : x = [w EXCEPT !.n = m]
    BY StateUpdates
  <2>2. x.tag = w.tag /\ x.waiting = w.waiting /\ x.n = m
    BY <2>1, StateUpdates
  <2> QED BY <1>5, <2>1, <2>2
<1>8. state' = [state EXCEPT ![p] = st]
  BY <1>1, <1>4, <1>6, <1>7
<1>9. state' \in [Procs -> StateWords] /\ state'[p] = st /\ \A r \in Procs : r # p => state'[r] = state[r]
  <2>1. state \in [Procs -> StateWords]
    BY <1>2 DEF Types
  <2> QED BY <1>8, <2>1
<1>10. /\ m = Refs(p) + tm.refs[p] /\ Refs(p) \in Nat /\ tm.refs[p] \in Nat
       /\ TriggeredOn(p) => Refs(p) >= 1
  BY <1>1, <1>5, <1>6, RefsFacts, RunnerFacts
<1>11. \/ st = AltState(FALSE, FALSE, FALSE, 0) /\ pc' = [pc EXCEPT ![s] = "user"] /\ cur' = cur
       \/ pc' = [pc EXCEPT ![s] = "sched"] /\ cur' = [cur EXCEPT ![s] = NotProcess]
  <2>1. st = [state[p] EXCEPT !.n = @ - 1]
    BY <1>4, <1>6, <1>7
  <2> QED BY <2>1 DEF AltEndDec, Goto, KernelScheduler
<1>12. /\ pc' \in [Scheds -> PcLabels] /\ cur' \in [Scheds -> Procs \cup {NotProcess}]
       /\ \A t \in Scheds : t # s => pc'[t] = pc[t] /\ cur'[t] = cur[t]
       /\ \/ st.n = 0 /\ pc'[s] = "user" /\ cur'[s] = p
          \/ pc'[s] = "sched" /\ cur'[s] = NotProcess
  <2>1. pc \in [Scheds -> PcLabels] /\ cur \in [Scheds -> Procs \cup {NotProcess}]
    BY <1>2 DEF Types
  <2>2. "user" \in PcLabels /\ "sched" \in PcLabels
    BY DEF PcLabels, IdleLabels
  <2>3. CASE st = AltState(FALSE, FALSE, FALSE, 0) /\ pc' = [pc EXCEPT ![s] = "user"] /\ cur' = cur
    BY <1>1, <2>1, <2>2, <2>3 DEF AltState
  <2>4. CASE pc' = [pc EXCEPT ![s] = "sched"] /\ cur' = [cur EXCEPT ![s] = NotProcess]
    BY <2>1, <2>2, <2>4
  <2> QED BY <1>11, <2>3, <2>4
<1>13. Types'
  BY <1>1, <1>2, <1>9, <1>12 DEF Types
<1>14. Touch(s, {p})
  <2>1. Alone(s, p)
    BY <1>1, <1>9, <1>12 DEF Alone
  <2> QED BY <1>1, <2>1, AloneTouch
<1>15. /\ cur'[s] = p => ~Off(p)' /\ \A L : Runs(p, L)' <=> pc'[s] \in L
       /\ cur'[s] # p => Off(p)' /\ \A L : ~Runs(p, L)'
  BY <1>1, <1>3, <1>12, <1>14, RunnerNext
<1>16. ~Runs(p, {"altwt_clear"})' /\ ~Runs(p, {"altend_dec"})'
  BY <1>12, <1>15
<1>17. Refs(p)' = Refs(p)
  BY <1>1, <1>12, SameRefs
<1>18. CountAt(tm, p)'
  <2>1. ~Off(p)' => tm.refs[p] = 0
    <3>1. ~Off(p)' => m = 0
      BY <1>7, <1>12, <1>15, NotProcessAssumption
    <3> QED BY <1>10, <3>1
  <2> QED BY <1>1, <1>2, <1>7, <1>9, <1>10, <1>16, <1>17, <2>1 DEF CountAt, InAlt
<1>19. FlowAt(tm, p)'
  BY <1>1, <1>2, <1>7, <1>9, <1>16, <1>18, SelectedFlow
<1>20. \A d \in Chans : chan[d] # AltPtr(p)
  <2>1. \A d \in Chans : chan[d] = AltPtr(p) => AltIn(p, d)
    BY AltingFacts
  <2>2. ~Runs(p, {"enbc_restore"})
    BY <1>1, <1>3
  <2> QED BY <1>2, <2>1, <2>2 DEF AltIn
<1>21. RunAt(s)' /\ HoldAt(tm, s)'
  <2>1. p # NotProcess
    BY NotProcessAssumption
  <2>2. /\ pc'[s] \in {"user", "sched"}
        /\ pc'[s] = "sched" <=> cur'[s] = NotProcess
    BY <1>12, <2>1
  <2>3. pc'[s] \in IdleLabels <=> cur'[s] = NotProcess
    BY <2>2 DEF IdleLabels
  <2> QED BY <2>2, <2>3 DEF RunAt, HoldAt, HoldLabels, IoLabels, XableLabels, XendLabels, EnbcLabels,
                      EnbLabels, AltwtLabels, DiscLabels, DistLabels
<1>22. IoAt(p)'
  <2>1. io[p] = R!Idle
    BY <1>1, <1>2, <1>3 DEF IoAt, IoLabels
  <2> QED BY <1>1, <2>1 DEF IoAt
<1>23. TriggeredOn(p) => Target(p)'
  <2>1. TriggeredOn(p) => cur'[s] # p
    <3>1. TriggeredOn(p) => m # 0
      BY <1>10
    <3> QED BY <1>7, <1>12, <3>1, NotProcessAssumption
  <2> QED BY <1>1, <1>2, <1>15, <2>1 DEF Target
<1>24. /\ pc'[s] \notin {"trigger", "trigger_enqueue", "walk_trigger", "walk_enqueue"} /\ queued'[p] = 0 /\ pc[s] # "io_clear"
       /\ ~Transferred(p) /\ ~Transferred(p)'
  BY <1>1, <1>2, <1>3, <1>12 DEF Transferred
<1> QED BY <1>1, <1>13, <1>14, <1>19, <1>20, <1>21, <1>22, <1>23, <1>24, QuietStep

(* The body of a SKIP guard. *)
LEMMA SkipBodyStep ==
  ASSUME NEW tm, IInv(tm), NEW s \in Scheds, NEW p \in Procs, SkipBody(s, p)
  PROVE  IInv(tm)'
<1>1. /\ pc[s] = "user" /\ cur[s] = p /\ iptr[p] = "selected"
      /\ UNCHANGED <<pc, cur, queued, chan, state, todo, ch, word, tgt, io>>
      /\ iptr' = [iptr EXCEPT ![p] = "main"] /\ temp' = [temp EXCEPT ![p] = Junk]
      /\ guards' = [guards EXCEPT ![p] = << >>] /\ style' = [style EXCEPT ![p] = "jump"]
      /\ ready0' = [ready0 EXCEPT ![p] = {}]
  BY DEF SkipBody, At, SetIptr, ForgetAlt, schedVars, localVars
<1>2. Types /\ queued[p] = 0 /\ ~Off(p)
  BY <1>1, RunnerFacts DEF IInv
<1>3. ~TriggeredOn(p) /\ io[p] = R!Idle /\ \A c \in Chans : chan[c] # AltPtr(p)
  BY <1>1, QuietUser
<1>4. /\ iptr'[p] = "main" /\ temp'[p] = Junk
      /\ \A r \in Procs : r # p => /\ iptr'[r] = iptr[r] /\ temp'[r] = temp[r] /\ guards'[r] = guards[r]
                                   /\ style'[r] = style[r] /\ ready0'[r] = ready0[r]
  BY <1>1, <1>2 DEF Types
<1>5. Types'
  <2>1. iptr' \in [Procs -> Labels \cup {"timed"}]
    BY <1>1, <1>2 DEF Types, Labels
  <2>2. temp' \in [Procs -> Chans \cup Timers \cup {Skip, None, Junk}]
    BY <1>1, <1>2 DEF Types
  <2>3. guards' \in [Procs -> Seq(Chans \cup Timers \cup {Skip})]
    <3>1. guards \in [Procs -> Seq(Chans \cup Timers \cup {Skip})] /\ << >> \in Seq(Chans \cup Timers \cup {Skip})
      BY <1>2 DEF Types
    <3> QED BY <1>1, <3>1
  <2>4. style' \in [Procs -> Styles]
    BY <1>1, <1>2 DEF Types, Styles
  <2>5. ready0' \in [Procs -> SUBSET (Chans \cup {Skip})]
    BY <1>1, <1>2 DEF Types
  <2> QED BY <1>1, <1>2, <2>1, <2>2, <2>3, <2>4, <2>5 DEF Types
<1>6. Touch(s, {p})
  <2>1. Alone(s, p)
    BY <1>1, <1>4 DEF Alone
  <2> QED BY <1>1, <2>1, AloneTouch
<1>7. \A L : Runs(p, L)' <=> pc'[s] \in L
  BY <1>1, <1>6, RunnerNext
<1>8. FlowAt(tm, p)'
  <2>1. tm.refs[p] = 0
    BY <1>1, RunnerFacts DEF InAlt
  <2>2. iptr'[p] \in {"main", "timed"} /\ ~Runs(p, {"altwt_clear"})' /\ ~Runs(p, {"altend_dec"})'
    BY <1>1, <1>4, <1>7
  <2> QED BY <1>4, <2>1, <2>2, MainFlow
<1>9. RunAt(s)' /\ HoldAt(tm, s)'
  <2>1. pc'[s] = "user" /\ cur'[s] # NotProcess
    BY <1>1, NotProcessAssumption
  <2> QED BY <2>1 DEF RunAt, HoldAt, HoldLabels, IdleLabels, IoLabels, XableLabels, XendLabels, EnbcLabels,
                      EnbLabels, AltwtLabels, DiscLabels, DistLabels
<1>10. IoAt(p)'
  BY <1>1, <1>3 DEF IoAt
<1>11. /\ pc'[s] \notin {"trigger", "trigger_enqueue", "walk_trigger", "walk_enqueue"} /\ pc[s] # "io_clear" /\ queued'[p] = 0
       /\ ~Transferred(p) /\ ~Transferred(p)' /\ UNCHANGED chan
       /\ (TriggeredOn(p) => Target(p)') /\ \A d \in Chans : chan[d] = AltPtr(p) => AltIn(p, d)'
  BY <1>1, <1>2, <1>3, <1>4 DEF Transferred
<1> QED BY <1>1, <1>5, <1>6, <1>8, <1>9, <1>10, <1>11, QuietStep

-----------------------------------------------------------------------------
(***************************************************************************)
(* The invariant holds, and what follows from it.                          *)
(***************************************************************************)
(* At first every process is on a run queue and every channel is empty.    *)
LEMMA InitIInv ==
  ASSUME NEW tm, Init, \A p \in Procs : tm.refs[p] = 0 /\ p \notin tm.tin
  PROVE  IInv(tm)
<1>1. /\ pc = [s \in Scheds |-> "sched"] /\ cur = [s \in Scheds |-> NotProcess]
      /\ queued = [p \in Procs |-> 1] /\ chan = [c \in Chans |-> Empty]
      /\ state = [p \in Procs |-> Pointer] /\ temp = [p \in Procs |-> Junk]
      /\ iptr = [p \in Procs |-> "main"] /\ guards = [p \in Procs |-> << >>]
      /\ style = [p \in Procs |-> "jump"] /\ todo = [p \in Procs |-> << >>]
      /\ ch = [p \in Procs |-> None] /\ word = [s \in Scheds |-> Empty]
      /\ tgt = [s \in Scheds |-> NotProcess] /\ io = [p \in Procs |-> R!Idle]
      /\ ready0 = [p \in Procs |-> {}]
  BY DEF Init, SchedInit
<1>2. Types
  <2>1. pc \in [Scheds -> PcLabels] /\ cur \in [Scheds -> Procs \cup {NotProcess}] /\ queued \in [Procs -> {0, 1}]
    BY <1>1 DEF PcLabels, IdleLabels
  <2>2. chan \in [Chans -> ChanWord] /\ word \in [Scheds -> ChanWord] /\ state \in [Procs -> StateWords]
    BY <1>1, WordFacts, StateFacts
  <2>3. /\ temp \in [Procs -> Chans \cup Timers \cup {Skip, None, Junk}] /\ iptr \in [Procs -> Labels \cup {"timed"}]
        /\ style \in [Procs -> Styles] /\ ch \in [Procs -> Chans \cup {None}]
        /\ tgt \in [Scheds -> Procs \cup {NotProcess}] /\ ready0 \in [Procs -> SUBSET (Chans \cup {Skip})]
    BY <1>1 DEF Labels, Styles
  <2>4. guards \in [Procs -> Seq(Chans \cup Timers \cup {Skip})] /\ todo \in [Procs -> Seq(Chans \cup Timers \cup {Skip})]
    <3>1. << >> \in Seq(Chans \cup Timers \cup {Skip})
      OBVIOUS
    <3> QED BY <1>1, <3>1
  <2>5. io \in [Procs -> Requests]
    BY <1>1 DEF Requests
  <2> QED BY <2>1, <2>2, <2>3, <2>4, <2>5 DEF Types
<1>3. ASSUME NEW s \in Scheds PROVE RunAt(s) /\ HoldAt(tm, s) /\ TriggerAt(s)
  <2>1. pc[s] = "sched" /\ cur[s] = NotProcess
    BY <1>1
  <2> QED BY <2>1 DEF RunAt, HoldAt, TriggerAt, HoldLabels, IdleLabels, IoLabels, XableLabels, XendLabels,
                      EnbcLabels, EnbLabels, AltwtLabels, DiscLabels, DistLabels
<1>4. ASSUME NEW c \in Chans PROVE ChanAt(tm, c)
  <2>1. chan[c] = Empty /\ Reader[c] \in Procs /\ \A p \in Ends(c) : p \in Procs
    BY <1>1, EndFacts
  <2> QED BY <2>1, WordFacts DEF ChanAt
<1>5. ASSUME NEW p \in Procs PROVE OnceAt(p) /\ IoAt(p) /\ TinAt(tm, p) /\ FlowAt(tm, p)
  <2>1. /\ \A s \in Scheds : ~On(s, p)
        /\ \A L : ~Runs(p, L)
    BY <1>1, NotProcessAssumption DEF On, Runs
  <2>2. iptr[p] = "main" /\ temp[p] = Junk /\ io[p] = R!Idle
    BY <1>1
  <2>3. OnceAt(p) /\ IoAt(p) /\ TinAt(tm, p)
    BY <2>1, <2>2 DEF OnceAt, IoAt, TinAt
  <2>4. ListAt(p) /\ FlagsAt(p) /\ XinAt(p) /\ EnabledAt(p)
    BY <2>1, <2>2 DEF ListAt, FlagsAt, XinAt, EnabledAt, InAlt
  <2>5. SelectedAt(p) /\ FirstAt(p) /\ CountAt(tm, p)
    BY <2>1, <2>2 DEF SelectedAt, FirstAt, CountAt, InAlt, Chosen
  <2> QED BY <2>3, <2>4, <2>5 DEF FlowAt
<1> QED BY <1>2, <1>3, <1>4, <1>5 DEF IInv

(* A step that changes nothing. *)
LEMMA StutterStep ==
  ASSUME NEW tm, IInv(tm), UNCHANGED vars
  PROVE  IInv(tm)'
<1>1. UNCHANGED <<pc, cur, queued, chan, state, temp, iptr, guards, style, todo, ch, word, tgt, io, ready0>>
  BY DEF vars, schedVars, procVars, altVars, localVars, histVars
<1>2. Types'
  BY <1>1 DEF IInv, Types
<1>3. ASSUME NEW p \in Procs
      PROVE  /\ Off(p)' <=> Off(p)
             /\ \A s \in Scheds : On(s, p)' <=> On(s, p)
             /\ \A L : Runs(p, L)' <=> Runs(p, L)
             /\ \A c : Waiting(tm, p, c)' <=> Waiting(tm, p, c)
             /\ \A c : Asked(p, c)' <=> Asked(p, c)
             /\ InAlt(p)' <=> InAlt(p)
             /\ Transferred(p)' <=> Transferred(p)
             /\ Passed(p)' = Passed(p) /\ Enabled(p)' = Enabled(p)
             /\ TriggeredOn(p)' <=> TriggeredOn(p)
             /\ Refs(p)' = Refs(p)
             /\ \A g : Position(p, g)' = Position(p, g)
  <2>1. /\ \A s \in Scheds : On(s, p)' <=> On(s, p)
        /\ \A L : Runs(p, L)' <=> Runs(p, L)
        /\ \A c : Asked(p, c)' <=> Asked(p, c)
        /\ InAlt(p)' <=> InAlt(p)
    BY <1>1 DEF On, Runs, Asked, InAlt
  <2>2. /\ Off(p)' <=> Off(p)
        /\ Transferred(p)' <=> Transferred(p)
    BY <1>1, <2>1 DEF Off, Transferred
  <2>3. \A c : Waiting(tm, p, c)' <=> Waiting(tm, p, c)
    BY <1>1, <2>2 DEF Waiting
  <2>4. Passed(p)' = Passed(p) /\ Enabled(p)' = Enabled(p)
    BY <1>1, <2>1 DEF Passed, Enabled
  <2>5. (TriggeredOn(p)' <=> TriggeredOn(p)) /\ Refs(p)' = Refs(p)
    BY <1>1 DEF TriggeredOn, Refs, InChans, Triggers
  <2>6. \A g : Position(p, g)' = Position(p, g)
    BY <1>1 DEF Position
  <2> QED BY <2>1, <2>2, <2>3, <2>4, <2>5, <2>6
<1>4. \A g : (Ready(g)' <=> Ready(g)) /\ \A p : Hopeful(p, g)' <=> Hopeful(p, g)
  BY <1>1 DEF Ready, Hopeful
<1>5. ASSUME NEW p \in Procs PROVE \A c \in Chans : AltIn(p, c)' <=> AltIn(p, c)
  BY <1>1, <1>3 DEF AltIn
<1>6. ASSUME NEW p \in Procs PROVE FlowAt(tm, p)'
  <2>1. FlowAt(tm, p)
    BY DEF IInv
  <2>2. ListAt(p)' /\ FlagsAt(p)'
    BY <1>1, <1>3, <2>1 DEF FlowAt, ListAt, FlagsAt, Chosen
  <2>3. XinAt(p)'
    <3>1. XinAt(p) /\ (Ready(ch[p])' <=> Ready(ch[p]))
      BY <1>1, <2>1 DEF FlowAt, Ready
    <3> QED BY <1>1, <1>3, <3>1 DEF XinAt
  <2>4. EnabledAt(p)'
    <3>1. EnabledAt(p) /\ (Ready(Head(todo[p]))' <=> Ready(Head(todo[p])))
      BY <1>1, <2>1 DEF FlowAt, Ready
    <3> QED BY <1>1, <1>3, <1>4, <3>1 DEF EnabledAt
  <2>5. SelectedAt(p)'
    <3>1. SelectedAt(p) /\ (Ready(temp[p])' <=> Ready(temp[p])) /\ (Chosen(p)' <=> Chosen(p))
      BY <1>1, <2>1 DEF FlowAt, Ready, Chosen
    <3> QED BY <1>1, <1>3, <1>4, <3>1 DEF SelectedAt
  <2>6. FirstAt(p)'
    <3>1. FirstAt(p) /\ Position(p, temp[p])' = Position(p, temp[p]) /\ (Chosen(p)' <=> Chosen(p))
      BY <1>1, <2>1 DEF FlowAt, Position, Chosen
    <3> QED BY <1>1, <1>3, <1>4, <3>1 DEF FirstAt
  <2>7. CountAt(tm, p)'
    BY <1>1, <1>3, <2>1 DEF FlowAt, CountAt
  <2> QED BY <2>2, <2>3, <2>4, <2>5, <2>6, <2>7 DEF FlowAt
<1>7. ASSUME NEW p \in Procs PROVE OnceAt(p)' /\ IoAt(p)' /\ TinAt(tm, p)'
  <2>1. OnceAt(p) /\ IoAt(p) /\ TinAt(tm, p)
    BY DEF IInv
  <2> QED BY <1>1, <1>3, <2>1 DEF OnceAt, IoAt, TinAt
<1>8. ASSUME NEW c \in Chans PROVE ChanAt(tm, c)'
  <2>1. ChanAt(tm, c) /\ Reader[c] \in Procs /\ \A x \in Ends(c) : x \in Procs
    BY EndFacts DEF IInv
  <2>2. Extended(c)' <=> Extended(c)
    BY <1>1, <1>3, <2>1 DEF Extended
  <2> QED BY <1>1, <1>3, <1>5, <2>1, <2>2 DEF ChanAt
<1>9. ASSUME NEW s \in Scheds PROVE RunAt(s)' /\ HoldAt(tm, s)' /\ TriggerAt(s)'
  <2>1. Types /\ RunAt(s) /\ HoldAt(tm, s) /\ TriggerAt(s)
    BY DEF IInv
  <2>2. RunAt(s)'
    BY <1>1, <2>1 DEF RunAt, Asked
  <2>3. HoldAt(tm, s)'
    <3>1. ChannelOf(s)' = ChannelOf(s) /\ Partner(cur[s], ChannelOf(s))' = Partner(cur[s], ChannelOf(s))
      BY <1>1 DEF ChannelOf, Partner
    <3> SUFFICES ASSUME pc[s] \in HoldLabels PROVE HoldAt(tm, s)'
      BY <1>1 DEF HoldAt
    <3>2. PICK c \in Chans, q \in Procs : /\ c = ChannelOf(s) /\ q = Partner(cur[s], c)
                                          /\ HeldBy(tm, s, c, q)
      BY HoldChannel, EndFacts
    <3>3. HeldBy(tm, s, c, q)'
      BY <1>1, <1>3, <3>2 DEF HeldBy
    <3> QED BY <1>1, <3>1, <3>2, <3>3 DEF HoldAt
  <2>4. TriggerAt(s)'
    <3>1. pc[s] \in {"trigger", "walk_trigger"} => tgt[s] \in Procs
      BY <2>1 DEF RunAt
    <3> QED BY <1>1, <1>3, <2>1, <3>1 DEF TriggerAt, Target
  <2> QED BY <2>2, <2>3, <2>4
<1> QED BY <1>2, <1>6, <1>7, <1>8, <1>9 DEF IInv

(* Every step keeps the invariant. *)
LEMMA NextStep ==
  ASSUME NEW tm, IInv(tm), OneChannel, Next
  PROVE  IInv(tm)'
<1>1. PICK s \in Scheds : Step(s) \/ \E p \in Procs : Resume(s, p)
  BY DEF Next
<1>2. ASSUME TriggerAltGuard(s) \/ TriggerEnqueue(s) PROVE IInv(tm)'
  BY <1>2, TriggerAltGuardStep, TriggerEnqueueStep
<1>3. ASSUME NEW p \in Procs, Resume(s, p) PROVE IInv(tm)'
  BY <1>3, ResumeStep
<1>4. ASSUME NEW p \in Procs, NEW c \in Chans, Output(s, p, c) \/ Input(s, p, c) \/ Xable(s, p, c)
      PROVE  IInv(tm)'
  BY <1>4, CommunicationStep, XableStep
<1>5. ASSUME NEW p \in Procs, NEW a \in Alts[p], Alt(s, p, a) PROVE IInv(tm)'
  BY <1>5, AltStartStep
<1>6. ASSUME NEW p \in Procs, IoSwap(s, p) \/ IoClear(s, p) \/ IoCopy(s, p) PROVE IInv(tm)'
  BY <1>6, IoSwapStep, IoClearStep, IoCopyStep
<1>7. ASSUME NEW p \in Procs,
             \/ XableSwap(s, p) \/ XableRestore(s, p)
             \/ Xin(s, p) \/ XinCopy(s, p) \/ Xend(s, p) \/ XendEnqueue(s, p)
      PROVE  IInv(tm)'
  BY <1>7, XableSwapStep, XableRestoreStep, CommunicationStep, XinCopyStep, XendStep, XendEnqueueStep
<1>8. ASSUME NEW p \in Procs,
             \/ Enbc(s, p) \/ EnbcSwap(s, p) \/ EnbcRestore(s, p) \/ EnbcInc(s, p)
             \/ Enbs(s, p) \/ EnbReady(s, p) \/ EnbAnd(s, p)
      PROVE  IInv(tm)'
  BY <1>8, EnbcStep, EnbcSwapStep, EnbcRestoreStep, EnbcIncStep, EnbsStep, EnbReadyStep, EnbAndStep
<1>9. ASSUME NEW p \in Procs,
             \/ AltWt(s, p) \/ AltWtCas(s, p) \/ AltWtClear(s, p)
             \/ Disc(s, p) \/ DiscCas(s, p) \/ DiscDec(s, p) \/ Diss(s, p)
             \/ AltEnd(s, p) \/ AltEndDec(s, p) \/ SkipBody(s, p)
      PROVE  IInv(tm)'
  BY <1>9, AltWtStep, AltWtCasStep, AltWtClearStep, DiscStep, DiscCasStep, DiscDecStep, DissStep,
     AltEndStep, AltEndDecStep, SkipBodyStep
<1> QED BY <1>1, <1>2, <1>3, <1>4, <1>5, <1>6, <1>7, <1>8, <1>9 DEF Step

(* Without the actions of CcspTimer there are no timers.                   *)
TimerLabels == {"walk", "walk_swap", "walk_trigger", "walk_enqueue", "walk_clean",
                "taltwt_cas", "taltwt_clear", "dist_swap", "dist_sync", "dist_dec"}
Plain ==
  /\ \A s \in Scheds : pc[s] \notin TimerLabels
  /\ \A p \in Procs : ~Timed(guards[p])

(* A scheduler goes to no code of the timers.                              *)
Apart(s) == UNCHANGED pc \/ \E l : pc' = [pc EXCEPT ![s] = l] /\ l \notin TimerLabels

(* A step of the channels and of ALTs without timer guards is no step of   *)
(* the timers, and enables no timer guard.                                 *)
LEMMA PlainStep ==
  ASSUME Types, Plain, Next
  PROVE  Plain'
<1>1. PICK s \in Scheds : Step(s) \/ \E p \in Procs : Resume(s, p)
  BY DEF Next
<1>2. ASSUME Apart(s), \A p \in Procs : guards'[p] = guards[p] \/ ~Timed(guards'[p]) PROVE Plain'
  <2>1. pc \in [Scheds -> PcLabels]
    BY DEF Types
  <2>2. \A t \in Scheds : pc'[t] \notin TimerLabels
    BY <1>2, <2>1 DEF Apart, Plain
  <2>3. \A p \in Procs : ~Timed(guards[p])
    BY DEF Plain
  <2>4. \A p \in Procs : ~Timed(guards[p])'
    BY <1>2, <2>3
  <2> QED BY <2>2, <2>4 DEF Plain
<1>3. ASSUME NEW p \in Procs, ForgetAlt(p) PROVE \A q \in Procs : guards'[q] = guards[q] \/ ~Timed(guards'[q])
  <2>1. ~Timed(<< >>)
    BY DEF Timed
  <2> QED BY <1>3, <2>1 DEF ForgetAlt, Types
<1>4. ASSUME TriggerAltGuard(s) \/ TriggerEnqueue(s) PROVE Plain'
  <2>1. Apart(s) /\ UNCHANGED guards
    BY <1>4 DEF TriggerAltGuard, TriggerEnqueue, Goto, KernelScheduler, procVars, altVars, Apart, TimerLabels
  <2> QED BY <1>2, <2>1
<1>5. ASSUME NEW p \in Procs, Resume(s, p) PROVE Plain'
  <2>1. pc' = [pc EXCEPT ![s] = "user"] /\ "user" \notin TimerLabels /\ UNCHANGED guards
    BY <1>5 DEF Resume, Dispatch, procVars, altVars, TimerLabels
  <2>2. Apart(s)
    BY <2>1 DEF Apart
  <2> QED BY <1>2, <2>1, <2>2
<1>6. ASSUME NEW p \in Procs, NEW c, NEW dir, NEW back, ChanIo(s, p, c, dir, back) PROVE Plain'
  <2>1. Apart(s) /\ ForgetAlt(p)
    BY <1>6 DEF ChanIo, Goto, WithPartner, Apart, TimerLabels
  <2> QED BY <1>2, <1>3, <2>1
<1>7. ASSUME NEW p \in Procs, Xin(s, p) \/ \E c \in Chans : Output(s, p, c) \/ Input(s, p, c) PROVE Plain'
  BY <1>6, <1>7 DEF Output, Input, Xin
<1>8. ASSUME NEW p \in Procs, NEW c \in Chans, Xable(s, p, c) PROVE Plain'
  <2>1. Apart(s) /\ ForgetAlt(p)
    BY <1>8 DEF Xable, Goto, Apart, TimerLabels
  <2> QED BY <1>2, <1>3, <2>1
<1>9. ASSUME NEW p \in Procs, NEW a \in Alts[p], Alt(s, p, a) PROVE Plain'
  <2>1. Apart(s) /\ guards' = [guards EXCEPT ![p] = a.guards] /\ ~Timed(a.guards)
    BY <1>9 DEF Alt, StartAlt, schedVars, Apart
  <2>2. guards \in [Procs -> Seq(Chans \cup Timers \cup {Skip})]
    BY DEF Types
  <2>3. \A q \in Procs : guards'[q] = guards[q] \/ ~Timed(guards'[q])
    BY <2>1, <2>2
  <2> QED BY <1>2, <2>1, <2>3
<1>10. ASSUME NEW p \in Procs, SkipBody(s, p) PROVE Plain'
  <2>1. Apart(s) /\ ForgetAlt(p)
    BY <1>10 DEF SkipBody, schedVars, Apart
  <2> QED BY <1>2, <1>3, <2>1
<1>11. ASSUME NEW p \in Procs,
              \/ IoSwap(s, p) \/ IoClear(s, p) \/ IoCopy(s, p) \/ XableSwap(s, p) \/ XableRestore(s, p)
              \/ XinCopy(s, p) \/ Xend(s, p) \/ XendEnqueue(s, p)
       PROVE  Plain'
  <2>1. UNCHANGED guards
    BY <1>11 DEF IoSwap, IoClear, IoCopy, XableSwap, XableRestore, XinCopy, Xend, XendEnqueue, procVars, altVars
  <2>2. Apart(s)
    BY <1>11 DEF IoSwap, IoClear, IoCopy, XableSwap, XableRestore, XinCopy, Xend, XendEnqueue, SleepInChannel,
                 WithPartner, Goto, KernelScheduler, Apart, TimerLabels
  <2> QED BY <1>2, <2>1, <2>2
<1>12. ASSUME NEW p \in Procs,
              \/ Enbc(s, p) \/ EnbcSwap(s, p) \/ EnbcRestore(s, p) \/ EnbcInc(s, p)
              \/ Enbs(s, p) \/ EnbReady(s, p) \/ EnbAnd(s, p)
       PROVE  Plain'
  <2>1. UNCHANGED guards
    BY <1>12 DEF Enbc, EnbcSwap, EnbcRestore, EnbcInc, Enbs, EnbReady, EnbAnd, procVars, altVars
  <2>2. Apart(s)
    BY <1>12 DEF Enbc, EnbcSwap, EnbcRestore, EnbcInc, Enbs, EnbReady, EnbAnd, Goto, Apart, TimerLabels
  <2> QED BY <1>2, <2>1, <2>2
<1>13. ASSUME NEW p \in Procs,
              \/ AltWt(s, p) \/ AltWtCas(s, p) \/ AltWtClear(s, p)
              \/ Disc(s, p) \/ DiscCas(s, p) \/ DiscDec(s, p) \/ Diss(s, p)
              \/ AltEnd(s, p) \/ AltEndDec(s, p)
       PROVE  Plain'
  <2>1. UNCHANGED guards
    BY <1>13 DEF AltWt, AltWtCas, AltWtClear, Disc, DiscCas, DiscDec, Diss, AltEnd, AltEndDec, procVars, altVars
  <2>2. ASSUME AltWt(s, p) \/ AltWtCas(s, p) \/ AltWtClear(s, p) PROVE Apart(s)
    BY <2>2 DEF AltWt, AltWtCas, AltWtClear, Goto, KernelScheduler, Apart, TimerLabels
  <2>3. ASSUME Disc(s, p) \/ DiscCas(s, p) \/ DiscDec(s, p) \/ Diss(s, p) PROVE Apart(s)
    BY <2>3 DEF Disc, DiscCas, DiscDec, Diss, schedVars, Goto, Apart, TimerLabels
  <2>4. ASSUME AltEnd(s, p) \/ AltEndDec(s, p) PROVE Apart(s)
    BY <2>4 DEF AltEnd, AltEndDec, Goto, KernelScheduler, Apart, TimerLabels
  <2> QED BY <1>2, <1>13, <2>1, <2>2, <2>3, <2>4
<1> QED BY <1>1, <1>4, <1>5, <1>7, <1>8, <1>9, <1>10, <1>11, <1>12, <1>13 DEF Step

(* What holds in every state of the channels and ALTs.                     *)
THEOREM Invariance ==
  ASSUME OneChannel
  PROVE  Spec => []IInv(NoTimers)
<1>1. Init => IInv(NoTimers)
  <2>1. \A p \in Procs : NoTimers.refs[p] = 0 /\ p \notin NoTimers.tin
    BY DEF NoTimers
  <2> QED BY <2>1, InitIInv
<1>2. IInv(NoTimers) /\ [Next]_vars => IInv(NoTimers)'
  BY NextStep, StutterStep
<1> QED BY <1>1, <1>2, PTL DEF Spec

(* CcspAlt alone: no ALT has a timer guard and nobody walks a timer queue. *)
LEMMA NoTimersYet ==
  ASSUME OneChannel
  PROVE  Spec => []Plain
<1>1. Init => Plain
  BY DEF Init, SchedInit, Plain, Timed, TimerLabels
<1>2. ASSUME Plain, UNCHANGED vars PROVE Plain'
  BY <1>2 DEF vars, schedVars, procVars, altVars, Plain, Timed
<1>3. IInv(NoTimers) /\ Plain /\ [Next]_vars => Plain'
  BY <1>2, PlainStep DEF IInv
<1> QED BY <1>1, <1>3, Invariance, PTL DEF Spec

(* A process that runs is on no run queue, and runs once.                  *)
LEMMA OnceUse == ASSUME NEW tm, IInv(tm) PROVE NeverScheduledTwice
<1>1. ASSUME NEW p \in Procs PROVE Scheduled(p) <= 1
  <2> DEFINE S == {s \in Scheds : cur[s] = p}
  <2>1. OnceAt(p) /\ queued[p] \in {0, 1}
    BY DEF IInv, Types
  <2>2. CASE S = {}
    <3>1. Cardinality(S) = 0
      BY <2>2, FS_EmptySet
    <3> QED BY <2>1, <3>1 DEF Scheduled
  <2>3. CASE S # {}
    <3>1. PICK s \in Scheds : cur[s] = p
      BY <2>3
    <3>2. \A t \in Scheds : cur[t] = p => t = s
      BY <2>1, <3>1 DEF OnceAt, On
    <3>3. S = {s}
      BY <3>1, <3>2
    <3>4. Cardinality(S) = 1
      BY <3>3, FS_Singleton
    <3>5. queued[p] = 0
      BY <2>1, <3>1 DEF OnceAt, On
    <3> QED BY <3>4, <3>5 DEF Scheduled
  <2> QED BY <2>2, <2>3
<1> QED BY <1>1 DEF NeverScheduledTwice

(* A process is never on two run queues, or running and on a run queue:    *)
(* enqueue_process is only called for a process that has been descheduled  *)
(* (trigger_alt_guard, reschedule_point, X_xend).                          *)
THEOREM ScheduledOnce ==
  ASSUME OneChannel
  PROVE  Spec => []NeverScheduledTwice
<1>1. IInv(NoTimers) => NeverScheduledTwice
  BY OnceUse
<1> QED BY <1>1, Invariance, PTL

(* The state word of a process that is being triggered or copied to.       *)
LEMMA WordUse == ASSUME NEW tm, IInv(tm) PROVE StateWordNotReused
<1>1. ASSUME NEW s \in Scheds, NEW r \in Procs, pc[s] = "trigger", tgt[s] = r
      PROVE  /\ state[r].tag = "alt"
             /\ \/ iptr[r] \in {"enable", "altwt", "disable", "altend"}
                \/ iptr[r] = "selected" /\ \E t \in Scheds : InKernel(t, r, "altend_dec")
                \/ iptr[r] \in {"selected", "xin"} /\ Scheduled(r) = 0
  <2>1. Target(r) /\ FlagsAt(r)
    BY <1>1 DEF IInv, TriggerAt, FlowAt
  <2>2. Off(r) => Scheduled(r) = 0
    <3> SUFFICES ASSUME Off(r) PROVE Scheduled(r) = 0
      OBVIOUS
    <3>1. {t \in Scheds : cur[t] = r} = {} /\ queued[r] = 0
      BY DEF Off, On
    <3>2. Cardinality({t \in Scheds : cur[t] = r}) = 0
      BY <3>1, FS_EmptySet
    <3> QED BY <3>1, <3>2 DEF Scheduled
  <2>3. state[r].tag = "alt"
    BY <2>1 DEF Target, FlagsAt
  <2>4. Runs(r, {"altend_dec"}) => \E t \in Scheds : InKernel(t, r, "altend_dec")
    BY DEF Runs, InKernel
  <2> QED BY <2>1, <2>2, <2>3, <2>4 DEF Target, InAlt
<1>2. ASSUME NEW s \in Scheds, pc[s] \in {"io_copy", "xin_copy"}
      PROVE  state[word[s].p].tag = "pointer"
  <2>1. PICK c \in Chans, q \in Procs : HeldBy(tm, s, c, q)
    BY <1>2, HoldChannel, EndFacts DEF HoldLabels
  <2>2. word[s].p = q /\ Waiting(tm, q, c)
    BY <2>1, WordFacts DEF HeldBy
  <2> QED BY <2>2 DEF Waiting
<1> SUFFICES ASSUME NEW s \in Scheds
             PROVE  /\ pc[s] = "trigger" =>
                         /\ state[tgt[s]].tag = "alt"
                         /\ \/ iptr[tgt[s]] \in {"enable", "altwt", "disable", "altend"}
                            \/ iptr[tgt[s]] = "selected" /\ \E t \in Scheds : InKernel(t, tgt[s], "altend_dec")
                            \/ iptr[tgt[s]] \in {"selected", "xin"} /\ Scheduled(tgt[s]) = 0
                    /\ pc[s] \in {"io_copy", "xin_copy"} => state[word[s].p].tag = "pointer"
  BY DEF StateWordNotReused
<1>3. pc[s] = "trigger" => tgt[s] \in Procs
  BY DEF IInv, RunAt
<1> QED BY <1>1, <1>2, <1>3

(* The word at Wptr[-4] is an ALT state for as long as a partner is going  *)
(* to trigger it, so kernel_chan_io never overwrites it with a pointer     *)
(* under trigger_alt_guard, and it is a pointer while a partner copies.    *)
THEOREM StateWordKept ==
  ASSUME OneChannel
  PROVE  Spec => []StateWordNotReused
<1>1. IInv(NoTimers) => StateWordNotReused
  BY WordUse
<1> QED BY <1>1, Invariance, PTL

(* A process is run by at most one scheduler, so it is at most once at     *)
(* some instructions of the kernel.                                        *)
LEMMA ByIs ==
  ASSUME NEW tm, IInv(tm), NEW p \in Procs, NEW L
  PROVE  By(p, L) = IF Runs(p, L) THEN 1 ELSE 0
<1> DEFINE S == {s \in Scheds : cur[s] = p /\ pc[s] \in L}
<1>1. CASE Runs(p, L)
  <2>1. PICK s \in Scheds : cur[s] = p /\ pc[s] \in L
    BY <1>1 DEF Runs
  <2>2. \A t \in Scheds : cur[t] = p => t = s
    BY <2>1, RunnerFacts DEF On
  <2>3. S = {s}
    BY <2>1, <2>2
  <2>4. Cardinality(S) = 1
    BY <2>3, FS_Singleton
  <2> QED BY <1>1, <2>4 DEF By
<1>2. CASE ~Runs(p, L)
  <2>1. S = {}
    BY <1>2 DEF Runs
  <2>2. Cardinality(S) = 0
    BY <2>1, FS_EmptySet
  <2> QED BY <1>2, <2>2 DEF By
<1> QED BY <1>1, <1>2

(* The reference count of an ALT is exact: one for the ALTing process, one *)
(* for each channel it is in and one for each partner on its way into      *)
(* trigger_alt_guard, where kernel_enbc counts late and kernel_disc        *)
(* uncounts late.                                                          *)
THEOREM ReferencesExact ==
  ASSUME OneChannel
  PROVE  Spec => []ReferencesCounted
<1>1. ASSUME IInv(NoTimers), Plain, NEW p \in Procs, InAlt(p) PROVE state[p].n = AltReferences(p)
  <2>1. CountAt(NoTimers, p) /\ NoTimers.refs[p] = 0
    BY <1>1 DEF IInv, FlowAt, NoTimers
  <2>2. PICK a \in Nat, b \in Nat : a = Cardinality(InChans(p)) /\ b = Cardinality(Triggers(p))
    BY <1>1, RefsFacts
  <2>3. PICK x \in {0, 1} : x = IF Runs(p, {"disc_dec"}) THEN 1 ELSE 0
    OBVIOUS
  <2>4. PICK y \in {0, 1} : y = IF Runs(p, {"enbc_inc", "enbc_restore"}) THEN 1 ELSE 0
    OBVIOUS
  <2>5. state[p].n = 1 + (a + b) + 0 + x - y
    BY <1>1, <2>1, <2>2, <2>3, <2>4 DEF CountAt, Refs
  <2>6. By(p, {"disc_dec"}) = x /\ By(p, {"enbc_inc", "enbc_restore"}) = y
    BY <1>1, <2>3, <2>4, ByIs
  <2>7. {s \in Scheds : pc[s] = "trigger" /\ tgt[s] = p} = Triggers(p)
    BY <1>1 DEF Triggers, Plain, TimerLabels
  <2>8. AltReferences(p) = 1 + a + b + x - y
    BY <2>2, <2>6, <2>7 DEF AltReferences, InChans
  <2> QED BY <2>5, <2>8
<1>2. IInv(NoTimers) /\ Plain => ReferencesCounted
  BY <1>1 DEF ReferencesCounted
<1> QED BY <1>2, Invariance, NoTimersYet, PTL

(* After ALTEND the process is in no channel any more, the guard it has    *)
(* selected is ready, and no guard that was ready when the enabling or the *)
(* disabling began was passed over for one further down the list.          *)
THEOREM SelectionByPriority ==
  ASSUME OneChannel
  PROVE  Spec => []SelectedByPriority
<1>1. ASSUME IInv(NoTimers), Plain, NEW p \in Procs, iptr[p] = "selected"
      PROVE  /\ \A c \in Chans : chan[c] # AltPtr(p)
             /\ temp[p] \in Chans \cup {Skip} /\ InList(p, temp[p])
             /\ temp[p] \in Chans => chan[temp[p]] = Wptr(Writer[temp[p]])
             /\ \A g \in ready0[p] : Position(p, temp[p]) <= Position(p, g)
  <2>1. Types /\ SelectedAt(p) /\ FirstAt(p)
    BY <1>1 DEF IInv, FlowAt
  <2>2. \A c \in Chans : chan[c] # AltPtr(p)
    <3>1. ~Runs(p, {"enbc_restore"})
      <4>1. \A s \in Scheds : RunAt(s)
        BY <1>1 DEF IInv
      <4> QED BY <1>1, <4>1 DEF Runs, RunAt, EnbcLabels
    <3> QED BY <1>1, <3>1, AltingFacts DEF AltIn
  <2>3. Chosen(p) /\ temp[p] \in Elems(guards[p]) /\ Ready(temp[p])
    BY <1>1, <2>1 DEF SelectedAt, Plain
  <2>4. temp[p] \in Chans \cup {Skip}
    BY <1>1, <2>1, <2>3 DEF Types, Chosen, Plain, Timed, Elems
  <2>5. InList(p, temp[p])
    BY <2>3 DEF InList, Elems
  <2>6. temp[p] \in Chans => chan[temp[p]] = Wptr(Writer[temp[p]])
    BY <2>3, GuardFacts DEF Ready
  <2>7. \A g \in ready0[p] : Position(p, temp[p]) <= Position(p, g)
    BY <1>1, <2>1, <2>3 DEF FirstAt
  <2> QED BY <2>2, <2>4, <2>5, <2>6, <2>7
<1>2. IInv(NoTimers) /\ Plain => SelectedByPriority
  BY <1>1 DEF SelectedByPriority, SelectedIsReady, PriorityRespected
<1> QED BY <1>2, Invariance, NoTimersYet, PTL

-----------------------------------------------------------------------------
(***************************************************************************)
(* Channels implement Rendezvous.                                          *)
(***************************************************************************)
(* The request with which a communication begins.                          *)
LEMMA OfferStep ==
  ASSUME IInv(NoTimers), NEW s \in Scheds, NEW p \in Procs, NEW c \in Chans, p \in Ends(c),
         NEW dir \in {"in", "out"}, dir = Dir(p, c),
         pc[s] = "user", cur[s] = p, iptr[p] \in {"main", "selected", "xin", "xend"},
         NEW back, ChanIo(s, p, c, dir, back)
  PROVE  R!Next
<1>1. io[p].st = "done"
  BY QuietUser DEF R!Idle
<1>2. io' = [io EXCEPT ![p] = R!Pending(dir, c)]
  BY DEF ChanIo
<1>3. \/ Writer[c] = p /\ dir = "out"
      \/ Reader[c] = p /\ dir = "in"
  BY EndFacts DEF Dir, Ends
<1>4. R!Offer(p)
  BY <1>1, <1>2, <1>3 DEF R!Offer
<1> QED BY <1>4 DEF R!Next

(* The step that copies the message ends the communication of both.        *)
LEMMA TransferStep ==
  ASSUME IInv(NoTimers), NEW s \in Scheds, NEW p \in Procs, IoCopy(s, p) \/ XinCopy(s, p)
  PROVE  R!Next
<1>1. /\ pc[s] \in {"io_copy", "xin_copy"} /\ cur[s] = p
      /\ io' = [io EXCEPT ![p] = R!Idle, ![word[s].p] = R!Idle]
  BY DEF IoCopy, XinCopy, InKernel, Copied
<1>2. PICK c \in Chans : c = ChannelOf(s) /\ c = ch[p] /\ p \in Ends(c) /\ HeldBy(NoTimers, s, c, Partner(p, c))
  BY <1>1, HoldChannel DEF HoldLabels, ChannelOf
<1>3. PICK q \in Procs : q = Partner(p, c) /\ q \in Ends(c)
  BY <1>2, EndFacts
<1>4. Asked(p, c)
  <2>1. RunAt(s)
    BY DEF IInv
  <2> QED BY <1>1, <1>2, <2>1 DEF RunAt, IoLabels
<1>5. Asked(q, c) /\ word[s].p = q
  BY <1>1, <1>2, <1>3, WordFacts DEF HeldBy
<1>6. io' = [io EXCEPT ![p] = R!Idle, ![q] = R!Idle]
  BY <1>1, <1>5
<1>7. io \in [Procs -> Requests] /\ Writer[c] # Reader[c] /\ Writer[c] \in Procs /\ Reader[c] \in Procs
  BY EndFacts DEF IInv, Types
<1>8. \/ p = Writer[c] /\ q = Reader[c]
      \/ p = Reader[c] /\ q = Writer[c]
  BY <1>2, <1>3, <1>7 DEF Ends, Partner
<1>9. io[Writer[c]] = R!Pending("out", c) /\ io[Reader[c]] = R!Pending("in", c)
  BY <1>4, <1>5, <1>7, <1>8 DEF Asked, Dir
<1>10. io' = [io EXCEPT ![Writer[c]] = R!Idle, ![Reader[c]] = R!Idle]
  BY <1>6, <1>7, <1>8
<1>11. R!Transfer(c)
  BY <1>9, <1>10 DEF R!Transfer
<1> QED BY <1>11 DEF R!Next

(* Every step of the kernel is a step of Rendezvous or leaves its          *)
(* variable alone.                                                         *)
LEMMA RendezvousStep ==
  ASSUME IInv(NoTimers), [Next]_vars
  PROVE  [R!Next]_io
<1>1. ASSUME UNCHANGED vars PROVE UNCHANGED io
  BY <1>1 DEF vars, histVars
<1>2. ASSUME Next PROVE R!Next \/ UNCHANGED io
  <2>1. PICK s \in Scheds : Step(s) \/ \E p \in Procs : Resume(s, p)
    BY <1>2 DEF Next
  <2>2. ASSUME NEW p \in Procs, NEW c \in Chans, Output(s, p, c) PROVE R!Next
    <3>1. /\ pc[s] = "user" /\ cur[s] = p /\ iptr[p] = "main" /\ p \in Ends(c) /\ "out" = Dir(p, c)
          /\ ChanIo(s, p, c, "out", "main")
      BY <2>2 DEF Output, At, Ends, Dir
    <3> QED BY <3>1, OfferStep
  <2>3. ASSUME NEW p \in Procs, NEW c \in Chans, Input(s, p, c) PROVE R!Next
    <3>1. /\ pc[s] = "user" /\ cur[s] = p /\ iptr[p] \in {"main", "selected"} /\ p \in Ends(c)
          /\ "in" = Dir(p, c) /\ ChanIo(s, p, c, "in", "main")
      BY <2>3, EndFacts DEF Input, At, Ends, Dir
    <3> QED BY <3>1, OfferStep
  <2>4. ASSUME NEW p \in Procs, Xin(s, p) PROVE R!Next
    <3>1. pc[s] = "user" /\ cur[s] = p /\ iptr[p] = "xin"
      BY <2>4 DEF Xin, At
    <3>2. PICK c \in Chans : c = ch[p] /\ Reader[c] = p
      BY <3>1, QuietUser
    <3>3. p \in Ends(c) /\ "in" = Dir(p, c) /\ ChanIo(s, p, c, "in", "xend")
      BY <2>4, <3>2, EndFacts DEF Xin, Ends, Dir
    <3> QED BY <3>1, <3>3, OfferStep
  <2>5. ASSUME NEW p \in Procs, IoCopy(s, p) \/ XinCopy(s, p) PROVE R!Next
    BY <2>5, TransferStep
  <2>6. ASSUME TriggerAltGuard(s) \/ TriggerEnqueue(s) PROVE UNCHANGED io
    BY <2>6 DEF TriggerAltGuard, TriggerEnqueue, histVars
  <2>7. ASSUME NEW p \in Procs, (\E c \in Chans : Xable(s, p, c)) \/ (\E a \in Alts[p] : Alt(s, p, a)) \/ Resume(s, p)
        PROVE  UNCHANGED io
    BY <2>7 DEF Xable, Alt, StartAlt, Resume, histVars
  <2>8. ASSUME NEW p \in Procs,
               \/ IoSwap(s, p) \/ IoClear(s, p) \/ XableSwap(s, p) \/ XableRestore(s, p)
               \/ Xend(s, p) \/ XendEnqueue(s, p)
        PROVE  UNCHANGED io
    BY <2>8 DEF IoSwap, IoClear, XableSwap, XableRestore, Xend, XendEnqueue, histVars
  <2>9. ASSUME NEW p \in Procs,
               \/ Enbc(s, p) \/ EnbcSwap(s, p) \/ EnbcRestore(s, p) \/ EnbcInc(s, p)
               \/ Enbs(s, p) \/ EnbReady(s, p) \/ EnbAnd(s, p)
        PROVE  UNCHANGED io
    BY <2>9 DEF Enbc, EnbcSwap, EnbcRestore, EnbcInc, Enbs, EnbReady, EnbAnd, histVars
  <2>10. ASSUME NEW p \in Procs,
                \/ AltWt(s, p) \/ AltWtCas(s, p) \/ AltWtClear(s, p)
                \/ Disc(s, p) \/ DiscCas(s, p) \/ DiscDec(s, p) \/ Diss(s, p)
                \/ AltEnd(s, p) \/ AltEndDec(s, p) \/ SkipBody(s, p)
         PROVE  UNCHANGED io
    BY <2>10 DEF AltWt, AltWtCas, AltWtClear, Disc, DiscCas, DiscDec, Diss, AltEnd, AltEndDec, SkipBody, histVars
  <2> QED BY <2>1, <2>2, <2>3, <2>4, <2>5, <2>6, <2>7, <2>8, <2>9, <2>10 DEF Step
<1> QED BY <1>1, <1>2

(* Channels implement the rendezvous: no kernel call lets a process go on  *)
(* before its communication, and each communication pairs one output with  *)
(* one input of the same channel.                                          *)
THEOREM ChannelsAreRendezvous ==
  ASSUME OneChannel
  PROVE  Spec => ImplementsRendezvous
<1>1. Init => R!Init
  BY DEF Init, R!Init
<1>2. IInv(NoTimers) /\ [Next]_vars => [R!Next]_io
  BY RendezvousStep
<1> QED BY <1>1, <1>2, Invariance, PTL DEF Spec, ImplementsRendezvous, R!Spec
=============================================================================
