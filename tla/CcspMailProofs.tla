--------------------------- MODULE CcspMailProofs ----------------------------
(***************************************************************************)
(* Mail between CCSP schedulers, for any number of schedulers, blocking    *)
(* call threads and processes: no process is lost or run twice on its way  *)
(* through the mail boxes, no scheduler sleeps over its mail, and CcspMail *)
(* implements Scheduling.                                                  *)
(*                                                                         *)
(* None of these is inductive.  The inductive invariant says that a        *)
(* process is in one place only (Placed), what is still unlinked in a mail *)
(* box and who is going to link it (Chained, Linked, Linkers), what the    *)
(* owner of a box is doing to it (Taking), and who is going to wake a      *)
(* scheduler that has announced to sleep (Awaited, Roused, Noticed).       *)
(***************************************************************************)
EXTENDS CcspMail, TLAPS

Labels == SchedLabels \cup MailLabels \cup {"bsc", "bsc_dec"}
BscLabels == MailLabels \cup {"bsc", "bsc_dec"}
Bits == Boxes \cup {"work"}
Posting == {"mail_swap", "mail_link"}
Sending == {"mail_swap", "mail_link", "mail_sync", "mail_look"}
Coming == {"mail_link", "mail_sync", "mail_look", "wake_clear", "wake_sync", "wake_write"}
TakeLabels == {"deq_cas", "deq_clear", "deq_link"}
Drowsy == {"check", "set_idle", "pending", "read_idle", "read_sleeping", "pause", "read"}

(* The types of all variables, those TypeOK leaves out too. *)
Types ==
  /\ pc \in [Threads -> Labels]
  /\ affinity \in [Procs -> SUBSET Scheds]
  /\ cur \in [Scheds -> Words] /\ local \in [Scheds -> SUBSET Procs]
  /\ fptr \in [Scheds -> [Boxes -> Words]] /\ bptr \in [Scheds -> [Boxes -> Words]]
  /\ link \in [Procs -> Words]
  /\ sync \in [Scheds -> SUBSET Bits] /\ got \in [Scheds -> SUBSET Bits]
  /\ sleeping \subseteq Scheds /\ idle \subseteq Scheds
  /\ pipe \in [Scheds -> 0..PipeSize]
  /\ pending \in Int /\ calls \subseteq Procs
  /\ seen \in [Scheds -> SUBSET Scheds] /\ ptr \in [Scheds -> Words]
  /\ item \in [Threads -> Words] /\ to \in [Threads -> Scheds]
  /\ box \in [Threads -> Bits] /\ back \in [Threads -> Words]
  /\ mailq \in [Scheds -> [Boxes -> Seq(Procs)]]

(* What a thread is doing fits where it is. *)
SchedAt(s) ==
  /\ pc[s] \in SchedLabels \cup MailLabels
  /\ pc[s] \in SchedLabels => (cur[s] # NotProcess <=> pc[s] = "user")
  /\ ptr[s] # Null <=> pc[s] \in TakeLabels
  /\ pc[s] \in TakeLabels => got[s] \cap Boxes # {}
  /\ got[s] # {} => pc[s] \in TakeLabels \cup {"drain", "restore"}
PostAt(t) ==
  /\ item[t] # Null <=> pc[t] \in Posting
  /\ pc[t] \in Sending => box[t] \in Boxes
Control ==
  /\ \A b \in Bscs : pc[b] \in BscLabels
  /\ \A s \in Scheds : SchedAt(s)
  /\ \A t \in Threads : PostAt(t)

(* A process is running, or in one local queue, or in a blocking call, or  *)
(* in the hands of one thread, or at one place of one mail box.            *)
Travels(p) == Mailed(p) \/ Posted(p)
PlacedAt(p) ==
  /\ \A s, u \in Scheds : cur[s] = p /\ cur[u] = p => s = u
  /\ \A s, u \in Scheds : p \in local[s] /\ p \in local[u] => s = u
  /\ \A s, u \in Scheds : cur[s] = p => p \notin local[u]
  /\ \A s \in Scheds : cur[s] = p \/ p \in local[s] => p \notin calls
  /\ \A s \in Scheds : cur[s] = p \/ p \in local[s] => ~Travels(p)
  /\ p \in calls => ~Travels(p)
  /\ \A t, v \in Threads : item[t] = p /\ item[v] = p => t = v
  /\ \A t \in Threads : pc[t] = "mail_swap" /\ item[t] = p => ~Mailed(p)
  /\ \A s, u \in Scheds, b, c \in Boxes :
       \A i \in 1..Len(mailq[s][b]), j \in 1..Len(mailq[u][c]) :
         mailq[s][b][i] = p /\ mailq[u][c][j] = p => s = u /\ b = c /\ i = j
Placed == \A p \in Procs : PlacedAt(p)

(* The owner of box b is between its compare-and-swap on bptr and that on  *)
(* fptr: the first item no longer belongs to the chain.                    *)
Clearing(s, b) == pc[s] = "deq_clear" /\ Box(s) = b
Taken(s, b) == IF Clearing(s, b) THEN 1 ELSE 0
Unset(s, b) == IF Clearing(s, b) THEN ptr[s] ELSE Null

(* What fptr, bptr and the links say, once written, agrees with mailq. *)
ChainedAt(s, b, q, n) ==
  /\ Len(q) >= n /\ (n = 1 => ptr[s] = q[1])
  /\ Len(q) = n => bptr[s][b] = Null
  /\ Len(q) > n => bptr[s][b] = q[Len(q)]
  /\ fptr[s][b] # Unset(s, b) => Len(q) > n /\ fptr[s][b] = q[n + 1]
  /\ \A i \in 1..Len(q) :
       link[q[i]] # Null => i > n /\ i < Len(q) /\ link[q[i]] = q[i + 1]
Chained == \A s \in Scheds, b \in Boxes : ChainedAt(s, b, mailq[s][b], Taken(s, b))

(* The word that leads to place i of a box is still to be written. *)
Unlinked(s, b, i) ==
  IF i = Taken(s, b) + 1 THEN fptr[s][b] = Unset(s, b) ELSE link[mailq[s][b][i - 1]] = Null

(* Thread t is about to write it. *)
Linking(t, s, b, i) ==
  /\ pc[t] = "mail_link" /\ to[t] = s /\ box[t] = b /\ item[t] = mailq[s][b][i]
  /\ back[t] = IF i = Taken(s, b) + 1 THEN Null ELSE mailq[s][b][i - 1]

Places(s, b) == (Taken(s, b) + 1)..Len(mailq[s][b])

LinkerAt(t, s, b) == \E i \in Places(s, b) : Linking(t, s, b, i) /\ Unlinked(s, b, i)
Linkers == \A t \in Threads : pc[t] = "mail_link" => LinkerAt(t, to[t], box[t])

LinkedAt(s, b) ==
  \A i \in Places(s, b) : Unlinked(s, b, i) => \E t \in Threads : Linking(t, s, b, i)
Linked == \A s \in Scheds, b \in Boxes : LinkedAt(s, b)

(* The owner has read the front of a box; with other mail behind it. *)
TakingAt(s) ==
  /\ pc[s] \in {"deq_cas", "deq_link"} => ptr[s] = fptr[s][Box(s)]
  /\ pc[s] = "deq_link" => Len(mailq[s][Box(s)]) > 1
Taking == \A s \in Scheds : TakingAt(s)

(* A scheduler whose announcement to sleep has been taken back will find   *)
(* a bit in its sync word.                                                 *)
Waking(t, s, labels) == to[t] = s /\ pc[t] \in labels
AwaitedAt(s) ==
  pc[s] \in Drowsy /\ s \notin sleeping =>
    sync[s] # {} \/ \E t \in Threads : Waking(t, s, {"wake_sync"})
Awaited == \A s \in Scheds : AwaitedAt(s)

(* If its sync word is not empty a scheduler that reads its empty pipe is  *)
(* going to be sent a byte.                                                *)
RousedAt(s) ==
  pc[s] = "read" /\ pipe[s] = 0 /\ sync[s] # {} =>
    \/ \E t \in Threads : Waking(t, s, {"wake_sync", "wake_write"})
    \/ s \in sleeping /\ \E t \in Threads : Waking(t, s, {"mail_look", "wake_clear"})
Roused == \A s \in Scheds : RousedAt(s)

(* The owner of a box that is not empty has been told, or will be. *)
Noticed ==
  \A s \in Scheds, b \in Boxes : fptr[s][b] # Null =>
    \/ b \in sync[s] \cup got[s]
    \/ \E t \in Threads : Waking(t, s, {"mail_link", "mail_sync"}) /\ box[t] = b

Boxed == Chained /\ Linkers /\ Linked /\ Taking
Told == Awaited /\ Roused /\ Noticed
IInv == Types /\ Control /\ Placed /\ Boxed /\ Told

-----------------------------------------------------------------------------
(* The places of a mail box are its positions. *)
LEMMA MailedAt ==
  ASSUME Types, NEW p
  PROVE  Mailed(p) <=>
           \E s \in Scheds, b \in Boxes : \E i \in 1..Len(mailq[s][b]) : mailq[s][b][i] = p
BY DEF Types, Mailed

(* A step of one thread moves that thread only. *)
LEMMA GotoPc ==
  ASSUME Types, NEW t \in Threads, NEW l \in Labels, pc' = [pc EXCEPT ![t] = l]
  PROVE  /\ pc' \in [Threads -> Labels] /\ pc'[t] = l
         /\ \A u \in Threads : u # t => pc'[u] = pc[u]
BY DEF Types

(* Schedulers are threads, and no blocking call thread is a scheduler. *)
LEMMA ThreadKinds ==
  /\ \A s \in Scheds : s \in Threads /\ s \notin Bscs
  /\ \A b \in Bscs : b \in Threads /\ b \notin Scheds
  /\ \A t \in Threads : t \in Scheds \/ t \in Bscs
BY MailAssumption DEF Threads

(* A step changes what one thread does. *)
LEMMA ControlStep ==
  ASSUME Control, NEW t \in Threads,
         \A u \in Threads : u # t =>
           pc'[u] = pc[u] /\ item'[u] = item[u] /\ box'[u] = box[u],
         \A s \in Scheds : s # t => cur'[s] = cur[s] /\ ptr'[s] = ptr[s] /\ got'[s] = got[s],
         t \in Bscs => pc'[t] \in BscLabels,
         t \in Scheds => SchedAt(t)',
         PostAt(t)'
  PROVE  Control'
<1>1. \A b \in Bscs : pc'[b] \in BscLabels
  BY ThreadKinds DEF Control
<1>2. ASSUME NEW s \in Scheds PROVE SchedAt(s)'
  <2>1. CASE s = t
    BY <2>1
  <2>2. CASE s # t
    BY <2>2, ThreadKinds DEF Control, SchedAt
  <2> QED BY <2>1, <2>2
<1>3. ASSUME NEW u \in Threads PROVE PostAt(u)'
  <2>1. CASE u = t
    BY <2>1
  <2>2. CASE u # t
    BY <2>2 DEF Control, PostAt
  <2> QED BY <2>1, <2>2
<1> QED BY <1>1, <1>2, <1>3 DEF Control

(* No process moves. *)
LEMMA PlacedKept ==
  ASSUME Types, Placed, UNCHANGED <<cur, local, calls, item, mailq>>,
         \A t \in Threads : pc'[t] = "mail_swap" => pc[t] = "mail_swap"
  PROVE  Placed' /\ Runnable' = Runnable
<1>1. \A p : Mailed(p)' <=> Mailed(p)
  BY DEF Mailed
<1>2. \A p : Posted(p)' <=> Posted(p)
  BY DEF Posted
<1>3. Placed'
  <2> SUFFICES ASSUME NEW p \in Procs PROVE PlacedAt(p)'
    BY DEF Placed
  <2>1. PlacedAt(p)
    BY DEF Placed
  <2> QED BY <1>1, <1>2, <2>1 DEF PlacedAt, Travels
<1> QED BY <1>1, <1>2, <1>3 DEF Runnable

(* Nothing happens to the mail box b of s. *)
LEMMA BoxKept ==
  ASSUME Types, NEW s \in Scheds, NEW b \in Boxes,
         fptr'[s][b] = fptr[s][b], bptr'[s][b] = bptr[s][b], mailq'[s][b] = mailq[s][b],
         Clearing(s, b)' <=> Clearing(s, b), Clearing(s, b) => ptr'[s] = ptr[s],
         \A i \in 1..Len(mailq[s][b]) : link'[mailq[s][b][i]] = link[mailq[s][b][i]]
  PROVE  /\ ChainedAt(s, b, mailq[s][b], Taken(s, b))
              => ChainedAt(s, b, mailq[s][b], Taken(s, b))'
         /\ Places(s, b)' = Places(s, b) /\ Taken(s, b)' = Taken(s, b)
         /\ \A i \in Places(s, b) : Unlinked(s, b, i)' <=> Unlinked(s, b, i)
<1>1. Taken(s, b)' = Taken(s, b) /\ (Taken(s, b) = 1 => ptr'[s] = ptr[s])
  BY DEF Taken
<1>2. Unset(s, b)' = Unset(s, b)
  BY DEF Unset
<1>3. Places(s, b)' = Places(s, b)
  BY <1>1 DEF Places
<1>4. ASSUME NEW i \in Places(s, b) PROVE Unlinked(s, b, i)' <=> Unlinked(s, b, i)
  <2>1. CASE i = Taken(s, b) + 1
    BY <1>1, <1>2, <2>1 DEF Unlinked
  <2>2. CASE i # Taken(s, b) + 1
    <3>1. i - 1 \in 1..Len(mailq[s][b])
      BY <2>2 DEF Places, Taken, Types
    <3> QED BY <1>1, <2>2, <3>1 DEF Unlinked
  <2> QED BY <2>1, <2>2
<1>5. ChainedAt(s, b, mailq[s][b], Taken(s, b)) => ChainedAt(s, b, mailq[s][b], Taken(s, b))'
  BY <1>1, <1>2 DEF ChainedAt
<1> QED BY <1>1, <1>3, <1>4, <1>5

(* Nothing happens to the mail boxes. *)
LEMMA ChainsKept ==
  ASSUME Types, Control, Chained, Linkers, Linked, UNCHANGED <<fptr, bptr, link, mailq>>,
         \A t \in Threads : /\ pc'[t] = "mail_link" <=> pc[t] = "mail_link"
                            /\ pc[t] = "mail_link" =>
                                 /\ to'[t] = to[t] /\ box'[t] = box[t]
                                 /\ item'[t] = item[t] /\ back'[t] = back[t],
         \A s \in Scheds, b \in Boxes :
           (Clearing(s, b)' <=> Clearing(s, b)) /\ (Clearing(s, b) => ptr'[s] = ptr[s])
  PROVE  Chained' /\ Linkers' /\ Linked'
<1>2. ASSUME NEW s \in Scheds, NEW b \in Boxes
      PROVE  /\ ChainedAt(s, b, mailq[s][b], Taken(s, b))
                  => ChainedAt(s, b, mailq[s][b], Taken(s, b))'
             /\ Places(s, b)' = Places(s, b) /\ Taken(s, b)' = Taken(s, b)
             /\ \A i \in Places(s, b) : Unlinked(s, b, i)' <=> Unlinked(s, b, i)
  BY BoxKept
<1>3. \A t \in Threads, s \in Scheds, b \in Boxes : \A i \in Places(s, b) :
        Linking(t, s, b, i) <=> Linking(t, s, b, i)'
  BY <1>2 DEF Linking
<1>4. Chained'
  BY <1>2 DEF Chained
<1>5. ASSUME NEW t \in Threads, pc'[t] = "mail_link"
      PROVE  LinkerAt(t, to[t], box[t])'
  <2>1. /\ to'[t] = to[t] /\ box'[t] = box[t] /\ to[t] \in Scheds /\ box[t] \in Boxes
        /\ LinkerAt(t, to[t], box[t])
    BY <1>5 DEF Types, Control, PostAt, Sending, Linkers
  <2>2. PICK s \in Scheds, b \in Boxes : s = to[t] /\ b = box[t]
    BY <2>1
  <2>3. PICK i \in Places(s, b) : Linking(t, s, b, i) /\ Unlinked(s, b, i)
    BY <2>1, <2>2 DEF LinkerAt
  <2>4. LinkerAt(t, s, b)'
    BY <1>2, <1>3, <2>3 DEF LinkerAt
  <2> QED BY <2>1, <2>2, <2>4
<1>6. Linked'
  BY <1>2, <1>3 DEF Linked, LinkedAt
<1> QED BY <1>4, <1>5, <1>6 DEF Linkers

(* Nothing happens to the mail boxes, nor to who takes mail from them. *)
LEMMA BoxedKept ==
  ASSUME Types, Control, Boxed, UNCHANGED <<fptr, bptr, link, mailq>>,
         \A t \in Threads : /\ pc'[t] = "mail_link" <=> pc[t] = "mail_link"
                            /\ pc[t] = "mail_link" =>
                                 /\ to'[t] = to[t] /\ box'[t] = box[t]
                                 /\ item'[t] = item[t] /\ back'[t] = back[t],
         \A s \in Scheds : pc[s] \in TakeLabels \/ pc'[s] \in TakeLabels =>
           pc'[s] = pc[s] /\ ptr'[s] = ptr[s] /\ got'[s] = got[s]
  PROVE  Boxed'
<1>1. \A s \in Scheds, b \in Boxes :
        (Clearing(s, b)' <=> Clearing(s, b)) /\ (Clearing(s, b) => ptr'[s] = ptr[s])
  BY DEF Clearing, TakeLabels, Box
<1>2. Chained' /\ Linkers' /\ Linked'
  BY <1>1, ChainsKept DEF Boxed
<1>3. Taking'
  BY DEF Boxed, Taking, TakingAt, TakeLabels, Box
<1> QED BY <1>2, <1>3 DEF Boxed

(* A step of t that leaves processes and mail boxes alone. *)
LEMMA Quiet ==
  ASSUME IInv, NEW t \in Threads, NEW l \in Labels \ (Posting \cup TakeLabels),
         pc[t] \notin Posting \cup TakeLabels, pc' = [pc EXCEPT ![t] = l],
         UNCHANGED <<cur, local, calls, fptr, bptr, link, mailq, item, back, ptr>>,
         \A u \in Threads : u # t => to'[u] = to[u] /\ box'[u] = box[u],
         \A s \in Scheds : s # t => got'[s] = got[s]
  PROVE  Placed' /\ Boxed' /\ Runnable' = Runnable
<1>1. pc'[t] = l /\ \A u \in Threads : u # t => pc'[u] = pc[u]
  BY GotoPc DEF IInv
<1>2. Placed' /\ Runnable' = Runnable
  <2>1. \A u \in Threads : pc'[u] = "mail_swap" => pc[u] = "mail_swap"
    BY <1>1 DEF Posting
  <2> QED BY <2>1, PlacedKept DEF IInv
<1>3. Boxed'
  <2>1. \A u \in Threads : /\ pc'[u] = "mail_link" <=> pc[u] = "mail_link"
                           /\ pc[u] = "mail_link" => to'[u] = to[u] /\ box'[u] = box[u]
    BY <1>1 DEF Posting
  <2>2. \A s \in Scheds : pc[s] \in TakeLabels \/ pc'[s] \in TakeLabels =>
           pc'[s] = pc[s] /\ ptr'[s] = ptr[s] /\ got'[s] = got[s]
    BY <1>1, ThreadKinds
  <2> QED BY <2>1, <2>2, BoxedKept DEF IInv
<1> QED BY <1>2, <1>3

(* No scheduler falls asleep, and nobody stops on the way to wake one. *)
LEMMA AwaitedKept ==
  ASSUME Awaited,
         \A s \in Scheds : pc'[s] \in Drowsy /\ s \notin sleeping' =>
           pc[s] \in Drowsy /\ s \notin sleeping /\ (sync[s] # {} => sync'[s] # {}),
         \A u \in Threads : pc[u] = "wake_sync" =>
           pc'[u] = "wake_sync" /\ to'[u] = to[u]
  PROVE  Awaited'
BY DEF Awaited, AwaitedAt, Waking

(* Nobody gets a bit while it reads its pipe, and its waker stays. *)
LEMMA RousedKept ==
  ASSUME Roused,
         \A s \in Scheds : pc'[s] = "read" /\ pipe'[s] = 0 /\ sync'[s] # {} =>
           /\ pc[s] = "read" /\ pipe[s] = 0 /\ sync[s] # {}
           /\ s \in sleeping => s \in sleeping',
         \A u \in Threads : pc[u] \in {"mail_look", "wake_clear", "wake_sync", "wake_write"} =>
           pc'[u] = pc[u] /\ to'[u] = to[u]
  PROVE  Roused'
<1> SUFFICES ASSUME NEW s \in Scheds, pc'[s] = "read", pipe'[s] = 0, sync'[s] # {}
             PROVE  \/ \E u \in Threads : Waking(u, s, {"wake_sync", "wake_write"})'
                    \/ s \in sleeping' /\ \E u \in Threads : Waking(u, s, {"mail_look", "wake_clear"})'
  BY DEF Roused, RousedAt
<1>1. pc[s] = "read" /\ pipe[s] = 0 /\ sync[s] # {} /\ (s \in sleeping => s \in sleeping')
  OBVIOUS
<1>2. \/ \E u \in Threads : Waking(u, s, {"wake_sync", "wake_write"})
      \/ s \in sleeping /\ \E u \in Threads : Waking(u, s, {"mail_look", "wake_clear"})
  BY <1>1 DEF Roused, RousedAt
<1>3. \A u \in Threads :
        /\ Waking(u, s, {"wake_sync", "wake_write"}) => Waking(u, s, {"wake_sync", "wake_write"})'
        /\ Waking(u, s, {"mail_look", "wake_clear"}) => Waking(u, s, {"mail_look", "wake_clear"})'
  BY DEF Waking
<1> QED BY <1>1, <1>2, <1>3

(* No box gets its first mail, and no owner of one forgets it. *)
LEMMA NoticedKept ==
  ASSUME Noticed,
         \A s \in Scheds, b \in Boxes : fptr'[s][b] # Null =>
           /\ fptr[s][b] # Null
           /\ b \in sync[s] \cup got[s] => b \in sync'[s] \cup got'[s],
         \A u \in Threads : pc[u] \in {"mail_link", "mail_sync"} =>
           pc'[u] = pc[u] /\ to'[u] = to[u] /\ box'[u] = box[u]
  PROVE  Noticed'
<1> SUFFICES ASSUME NEW s \in Scheds, NEW b \in Boxes, fptr'[s][b] # Null
             PROVE  \/ b \in sync'[s] \cup got'[s]
                    \/ \E u \in Threads : Waking(u, s, {"mail_link", "mail_sync"})' /\ box'[u] = b
  BY DEF Noticed
<1>1. \A u \in Threads : Waking(u, s, {"mail_link", "mail_sync"}) /\ box[u] = b =>
        Waking(u, s, {"mail_link", "mail_sync"})' /\ box'[u] = b
  BY DEF Waking
<1> QED BY <1>1 DEF Noticed

-----------------------------------------------------------------------------
Resting == SchedLabels \ (TakeLabels \cup {"user"})

(* A scheduler without a process stays without one. *)
LEMMA RestingStep ==
  ASSUME IInv, NEW s \in Scheds, NEW l \in Resting, pc[s] \in Resting,
         pc' = [pc EXCEPT ![s] = l], UNCHANGED <<cur, ptr, item, box>>,
         \A u \in Scheds : u # s => got'[u] = got[u],
         got'[s] # {} => l \in {"drain", "restore"}
  PROVE  Control' /\ pc' \in [Threads -> Labels] /\ pc'[s] = l
         /\ \A u \in Threads : u # s => pc'[u] = pc[u]
<1>1. s \in Threads /\ s \notin Bscs /\ l \in Labels
  BY ThreadKinds DEF Resting, Labels
<1>2. pc' \in [Threads -> Labels] /\ pc'[s] = l /\ \A u \in Threads : u # s => pc'[u] = pc[u]
  BY <1>1, GotoPc DEF IInv
<1>3. l \notin Posting /\ l \notin Sending /\ pc[s] \notin Posting
  BY DEF Resting, SchedLabels, Posting, Sending
<1>4. SchedAt(s)'
  <2>1. SchedAt(s)
    BY DEF IInv, Control
  <2> QED BY <1>2, <2>1 DEF SchedAt, Resting
<1>5. PostAt(s)'
  <2>1. PostAt(s)
    BY <1>1 DEF IInv, Control
  <2> QED BY <1>2, <1>3, <2>1 DEF PostAt
<1> QED BY <1>1, <1>2, <1>4, <1>5, ControlStep DEF IInv

(* The looks of a scheduler before it pauses, and its return to work. *)
LEMMA CalmStep ==
  ASSUME IInv, NEW s \in Scheds, NEW l \in Resting \ {"read"},
         pc[s] \in Resting \ {"drain", "restore"}, pc' = [pc EXCEPT ![s] = l],
         l \in Drowsy => pc[s] \in Drowsy,
         UNCHANGED <<procVars, mailVars, sync, sleeping, pipe, callVars, got, ptr, postVars>>,
         idle' \subseteq Scheds, seen' \in [Scheds -> SUBSET Scheds]
  PROVE  IInv' /\ UNCHANGED <<cur, Runnable>>
<1> USE DEF procVars, mailVars, callVars, postVars
<1>1. got[s] = {}
  BY DEF IInv, Control, SchedAt, Resting
<1>2. Control' /\ pc' \in [Threads -> Labels] /\ pc'[s] = l
      /\ \A u \in Threads : u # s => pc'[u] = pc[u]
  BY <1>1, RestingStep
<1>3. Types'
  BY <1>2 DEF IInv, Types
<1>4. Placed' /\ Boxed' /\ Runnable' = Runnable
  <2>1. s \in Threads /\ l \in Labels \ (Posting \cup TakeLabels) /\ pc[s] \notin Posting \cup TakeLabels
    BY ThreadKinds DEF Resting, SchedLabels, Labels, Posting
  <2> QED BY <2>1, Quiet
<1>5. Told'
  <2>1. \A u \in Threads : pc[u] \in Coming => pc'[u] = pc[u]
    BY <1>2 DEF Coming, Resting, SchedLabels
  <2>2. \A u \in Scheds : /\ pc'[u] \in Drowsy => pc[u] \in Drowsy
                          /\ pc'[u] = "read" => pc[u] = "read"
    BY <1>2, ThreadKinds
  <2>3. Awaited'
    BY <2>1, <2>2, AwaitedKept DEF Coming, IInv, Told
  <2>4. Roused'
    BY <2>1, <2>2, RousedKept DEF Coming, IInv, Told
  <2>5. Noticed'
    BY <2>1, NoticedKept DEF Coming, IInv, Told
  <2> QED BY <2>3, <2>4, <2>5 DEF Told
<1> QED BY <1>2, <1>3, <1>4, <1>5 DEF IInv

(* The single looks of kernel_scheduler before it pauses are such steps. *)
LEMMA LookStep ==
  ASSUME IInv, NEW s \in Scheds,
         \/ Check(s) \/ SetIdle(s) \/ CheckPending(s) \/ ReadIdle(s) \/ ReadSleeping(s)
         \/ ClearIdle(s)
  PROVE  IInv' /\ UNCHANGED <<cur, Runnable>>
<1> USE DEF Goto, localVars, sleepVars
<1>1. CASE Check(s)
  <2>1. PICK l \in {"set_idle", "unsleep"} : pc' = [pc EXCEPT ![s] = l]
    BY <1>1 DEF Check
  <2>2. l \in Resting \ {"read"} /\ pc[s] \in Resting \ {"drain", "restore"} /\ pc[s] \in Drowsy
    BY <1>1 DEF Check, Resting, SchedLabels, TakeLabels, Drowsy
  <2> QED BY <1>1, <2>1, <2>2, CalmStep DEF Check, IInv, Types
<1>2. CASE SetIdle(s)
  <2>1. pc' = [pc EXCEPT ![s] = "pending"]
    BY <1>2 DEF SetIdle
  <2>2. "pending" \in Resting \ {"read"} /\ pc[s] \in Resting \ {"drain", "restore"} /\ pc[s] \in Drowsy
    BY <1>2 DEF SetIdle, Resting, SchedLabels, TakeLabels, Drowsy
  <2>3. idle' \subseteq Scheds
    BY <1>2 DEF SetIdle, IInv, Types
  <2> QED BY <1>2, <2>1, <2>2, <2>3, CalmStep DEF SetIdle, IInv, Types
<1>3. CASE CheckPending(s)
  <2>1. PICK l \in {"pause", "read_idle"} : pc' = [pc EXCEPT ![s] = l]
    BY <1>3 DEF CheckPending
  <2>2. l \in Resting \ {"read"} /\ pc[s] \in Resting \ {"drain", "restore"} /\ pc[s] \in Drowsy
    BY <1>3 DEF CheckPending, Resting, SchedLabels, TakeLabels, Drowsy
  <2> QED BY <1>3, <2>1, <2>2, CalmStep DEF CheckPending, IInv, Types
<1>4. CASE ReadIdle(s)
  <2>1. pc' = [pc EXCEPT ![s] = "read_sleeping"]
    BY <1>4 DEF ReadIdle
  <2>2. "read_sleeping" \in Resting \ {"read"} /\ pc[s] \in Resting \ {"drain", "restore"} /\ pc[s] \in Drowsy
    BY <1>4 DEF ReadIdle, Resting, SchedLabels, TakeLabels, Drowsy
  <2>3. seen' \in [Scheds -> SUBSET Scheds]
    BY <1>4 DEF ReadIdle, IInv, Types
  <2>4. /\ UNCHANGED <<procVars, mailVars, sync, sleeping, pipe, callVars, got, ptr, postVars>>
        /\ idle' \subseteq Scheds
    BY <1>4 DEF ReadIdle, IInv, Types
  <2> QED BY <2>1, <2>2, <2>3, <2>4, CalmStep
<1>5. CASE ReadSleeping(s)
  <2>1. PICK l \in {"deadlock", "pause"} : pc' = [pc EXCEPT ![s] = l]
    BY <1>5 DEF ReadSleeping
  <2>2. l \in Resting \ {"read"} /\ pc[s] \in Resting \ {"drain", "restore"} /\ pc[s] \in Drowsy
    BY <1>5 DEF ReadSleeping, Resting, SchedLabels, TakeLabels, Drowsy
  <2>3. seen' \in [Scheds -> SUBSET Scheds]
    BY <1>5 DEF ReadSleeping, IInv, Types
  <2>4. /\ UNCHANGED <<procVars, mailVars, sync, sleeping, pipe, callVars, got, ptr, postVars>>
        /\ idle' \subseteq Scheds
    BY <1>5 DEF ReadSleeping, IInv, Types
  <2> QED BY <2>1, <2>2, <2>3, <2>4, CalmStep
<1>6. CASE ClearIdle(s)
  <2>1. pc' = [pc EXCEPT ![s] = "sched"]
    BY <1>6 DEF ClearIdle
  <2>2. "sched" \in Resting \ {"read"} /\ pc[s] \in Resting \ {"drain", "restore"} /\ "sched" \notin Drowsy
    BY <1>6 DEF ClearIdle, Resting, SchedLabels, TakeLabels, Drowsy
  <2>3. idle' \subseteq Scheds
    BY <1>6 DEF ClearIdle, IInv, Types
  <2> QED BY <1>6, <2>1, <2>2, <2>3, CalmStep DEF ClearIdle, IInv, Types
<1> QED BY <1>1, <1>2, <1>3, <1>4, <1>5, <1>6

(* What a step of a scheduler without a process keeps. *)
LEMMA RestQuiet ==
  ASSUME IInv, NEW s \in Scheds, NEW l \in Resting, pc[s] \in Resting,
         pc' = [pc EXCEPT ![s] = l],
         UNCHANGED <<procVars, mailVars, callVars, seen, ptr, idle, postVars>>,
         got' \in [Scheds -> SUBSET Bits], \A u \in Scheds : u # s => got'[u] = got[u],
         got'[s] # {} => l \in {"drain", "restore"},
         sync' \in [Scheds -> SUBSET Bits], sleeping' \subseteq Scheds,
         pipe' \in [Scheds -> 0..PipeSize]
  PROVE  /\ Types' /\ Control' /\ Placed' /\ Boxed' /\ UNCHANGED <<cur, Runnable>>
         /\ pc'[s] = l /\ \A u \in Threads : u # s => pc'[u] = pc[u]
         /\ \A u \in Threads : pc[u] \in Coming => u # s /\ pc'[u] = pc[u]
<1> USE DEF procVars, mailVars, callVars, postVars
<1>1. Control' /\ pc' \in [Threads -> Labels] /\ pc'[s] = l
      /\ \A u \in Threads : u # s => pc'[u] = pc[u]
  BY RestingStep
<1>2. Types'
  BY <1>1 DEF IInv, Types
<1>3. Placed' /\ Boxed' /\ Runnable' = Runnable
  <2>1. s \in Threads /\ l \in Labels \ (Posting \cup TakeLabels) /\ pc[s] \notin Posting \cup TakeLabels
    BY ThreadKinds DEF Resting, SchedLabels, Labels, Posting
  <2> QED BY <2>1, Quiet
<1>4. \A u \in Threads : pc[u] \in Coming => u # s /\ pc'[u] = pc[u]
  BY <1>1 DEF Coming, Resting, SchedLabels
<1> QED BY <1>1, <1>2, <1>3, <1>4

(* The scheduler takes its sync word. *)
LEMMA SchedulerStep ==
  ASSUME IInv, NEW s \in Scheds, Scheduler(s)
  PROVE  IInv' /\ UNCHANGED <<cur, Runnable>>
<1>1. PICK l \in {"pick", "drain"} :
        /\ pc[s] = "sched" /\ pc' = [pc EXCEPT ![s] = l]
        /\ sync[s] # {} => l = "drain"
        /\ got' = [got EXCEPT ![s] = sync[s]] /\ sync' = [sync EXCEPT ![s] = {}]
        /\ UNCHANGED <<procVars, mailVars, sleeping, idle, pipe, callVars, seen, ptr, postVars>>
  BY DEF Scheduler, Goto
<1>2. /\ got' \in [Scheds -> SUBSET Bits] /\ sync' \in [Scheds -> SUBSET Bits]
      /\ got'[s] = sync[s] /\ sync'[s] = {}
      /\ \A u \in Scheds : u # s => got'[u] = got[u] /\ sync'[u] = sync[u]
  BY <1>1 DEF IInv, Types
<1>3. l \in Resting /\ pc[s] \in Resting /\ l \notin Drowsy
  BY <1>1 DEF Resting, SchedLabels, TakeLabels, Drowsy
<1>4. /\ Types' /\ Control' /\ Placed' /\ Boxed' /\ UNCHANGED <<cur, Runnable>>
      /\ pc'[s] = l /\ (\A u \in Threads : u # s => pc'[u] = pc[u])
      /\ \A u \in Threads : pc[u] \in Coming => u # s /\ pc'[u] = pc[u]
  <2>1. sleeping' \subseteq Scheds /\ pipe' \in [Scheds -> 0..PipeSize]
    BY <1>1 DEF IInv, Types
  <2> QED BY <1>1, <1>2, <1>3, <2>1, RestQuiet
<1>5. UNCHANGED <<to, box, fptr>> /\ got[s] = {}
  BY <1>1 DEF postVars, mailVars, IInv, Control, SchedAt, TakeLabels
<1>6. \A u \in Scheds : pc'[u] \in Drowsy => u # s /\ pc'[u] = pc[u]
  BY <1>3, <1>4, ThreadKinds
<1>7. Awaited'
  BY <1>1, <1>2, <1>4, <1>5, <1>6, AwaitedKept DEF Coming, IInv, Told
<1>8. Roused'
  <2>1. "read" \in Drowsy
    BY DEF Drowsy
  <2> QED BY <1>1, <1>2, <1>4, <1>5, <1>6, <2>1, RousedKept DEF Coming, IInv, Told
<1>9. Noticed'
  BY <1>1, <1>2, <1>4, <1>5, NoticedKept DEF Coming, IInv, Told
<1> QED BY <1>4, <1>7, <1>8, <1>9 DEF IInv, Told

(* The boxes named in the sync word have been emptied, or one of them has. *)
LEMMA EmptiedStep ==
  ASSUME IInv, NEW s \in Scheds,
         \/ Drained(s)
         \/ Dequeue(s) /\ fptr[s][Box(s)] = Null
  PROVE  IInv' /\ UNCHANGED <<cur, Runnable>>
<1>1. PICK l \in {"pick", "drain"} :
        /\ pc[s] = "drain" /\ pc' = [pc EXCEPT ![s] = l]
        /\ got'[s] # {} => l = "drain"
        /\ got' = [got EXCEPT ![s] = got'[s]] /\ got'[s] \subseteq got[s]
        /\ \A b \in Boxes : b \in got[s] => b \in got'[s] \/ fptr[s][b] = Null
        /\ UNCHANGED <<procVars, mailVars, sleepVars, callVars, seen, ptr, postVars>>
  <2>1. CASE Drained(s)
    <3>1. got' = [got EXCEPT ![s] = {}] /\ got[s] \cap Boxes = {}
      BY <2>1 DEF Drained
    <3>2. got'[s] = {}
      BY <3>1 DEF IInv, Types
    <3> QED BY <2>1, <3>1, <3>2 DEF Drained, Goto
  <2>2. CASE Dequeue(s) /\ fptr[s][Box(s)] = Null
    <3>1. got' = [got EXCEPT ![s] = @ \ {Box(s)}] /\ pc[s] = "drain" /\ UNCHANGED <<pc, ptr>>
      BY <2>2 DEF Dequeue, Emptied
    <3>2. got'[s] = got[s] \ {Box(s)}
      BY <3>1 DEF IInv, Types
    <3>3. pc' = [pc EXCEPT ![s] = "drain"]
      BY <3>1, ThreadKinds DEF IInv, Types
    <3> QED BY <2>2, <3>1, <3>2, <3>3 DEF Dequeue
  <2> QED BY <2>1, <2>2
<1>2. /\ got' \in [Scheds -> SUBSET Bits]
      /\ \A u \in Scheds : u # s => got'[u] = got[u]
  BY <1>1 DEF IInv, Types
<1>3. l \in Resting /\ pc[s] \in Resting /\ l \notin Drowsy
  BY <1>1 DEF Resting, SchedLabels, TakeLabels, Drowsy
<1>4. /\ Types' /\ Control' /\ Placed' /\ Boxed' /\ UNCHANGED <<cur, Runnable>>
      /\ pc'[s] = l /\ (\A u \in Threads : u # s => pc'[u] = pc[u])
      /\ \A u \in Threads : pc[u] \in Coming => u # s /\ pc'[u] = pc[u]
  <2>1. /\ sleeping' \subseteq Scheds /\ pipe' \in [Scheds -> 0..PipeSize]
        /\ sync' \in [Scheds -> SUBSET Bits] /\ UNCHANGED idle
    BY <1>1 DEF IInv, Types, sleepVars
  <2> QED BY <1>1, <1>2, <1>3, <2>1, RestQuiet
<1>5. UNCHANGED <<to, box, fptr, sync, sleeping, pipe>>
  BY <1>1 DEF postVars, mailVars, sleepVars
<1>6. \A u \in Scheds : pc'[u] \in Drowsy => u # s /\ pc'[u] = pc[u]
  BY <1>3, <1>4, ThreadKinds
<1>7. Awaited'
  BY <1>4, <1>5, <1>6, AwaitedKept DEF Coming, IInv, Told
<1>8. Roused'
  <2>1. "read" \in Drowsy
    BY DEF Drowsy
  <2> QED BY <1>4, <1>5, <1>6, <2>1, RousedKept DEF Coming, IInv, Told
<1>9. Noticed'
  BY <1>1, <1>2, <1>4, <1>5, NoticedKept DEF Coming, IInv, Told
<1> QED BY <1>4, <1>7, <1>8, <1>9 DEF IInv, Told

(* The announcement to sleep, and its withdrawal by the sleeper itself. *)
LEMMA SleepStep ==
  ASSUME IInv, NEW s \in Scheds, Sleep(s) \/ Unsleep(s)
  PROVE  IInv' /\ UNCHANGED <<cur, Runnable>>
<1>1. PICK l \in {"check", "sched"} :
        /\ pc[s] \in {"pick", "unsleep"} /\ pc' = [pc EXCEPT ![s] = l]
        /\ l = "check" => s \in sleeping'
        /\ sleeping' \subseteq Scheds
        /\ \A u \in Scheds : u # s => (u \in sleeping' <=> u \in sleeping)
        /\ UNCHANGED <<procVars, mailVars, sync, idle, pipe, callVars, localVars, postVars>>
  BY DEF Sleep, Unsleep, Goto, IInv, Types
<1>2. l \in Resting /\ pc[s] \in Resting /\ (l = "sched" => l \notin Drowsy) /\ l # "read"
  BY <1>1 DEF Resting, SchedLabels, TakeLabels, Drowsy
<1>3. UNCHANGED <<to, box, fptr, sync, pipe, got>> /\ got[s] = {}
  BY <1>1 DEF postVars, mailVars, localVars, IInv, Control, SchedAt, TakeLabels
<1>4. /\ Types' /\ Control' /\ Placed' /\ Boxed' /\ UNCHANGED <<cur, Runnable>>
      /\ pc'[s] = l /\ (\A u \in Threads : u # s => pc'[u] = pc[u])
      /\ \A u \in Threads : pc[u] \in Coming => u # s /\ pc'[u] = pc[u]
  <2>1. /\ got' \in [Scheds -> SUBSET Bits] /\ got'[s] = {}
        /\ \A u \in Scheds : u # s => got'[u] = got[u]
        /\ sync' \in [Scheds -> SUBSET Bits] /\ pipe' \in [Scheds -> 0..PipeSize]
    BY <1>3 DEF IInv, Types
  <2>2. UNCHANGED <<procVars, mailVars, callVars, seen, ptr, idle, postVars>>
    BY <1>1 DEF localVars
  <2> QED BY <1>1, <1>2, <2>1, <2>2, RestQuiet
<1>5. \A u \in Scheds : pc'[u] \in Drowsy /\ u \notin sleeping' =>
         u # s /\ pc'[u] = pc[u] /\ u \notin sleeping
  BY <1>1, <1>2, <1>4, ThreadKinds
<1>6. Awaited'
  BY <1>3, <1>4, <1>5, AwaitedKept DEF Coming, IInv, Told
<1>7. Roused'
  <2>1. \A u \in Scheds : pc'[u] = "read" => pc[u] = "read" /\ (u \in sleeping => u \in sleeping')
    BY <1>1, <1>2, <1>4, ThreadKinds
  <2> QED BY <1>3, <1>4, <2>1, RousedKept DEF Coming, IInv, Told
<1>8. Noticed'
  BY <1>3, <1>4, NoticedKept DEF Coming, IInv, Told
<1> QED BY <1>4, <1>6, <1>7, <1>8 DEF IInv, Told

(* ccsp_safe_pause takes the sync word; with nothing in it, it blocks. *)
LEMMA PauseStep ==
  ASSUME IInv, NEW s \in Scheds, Pause(s)
  PROVE  IInv' /\ UNCHANGED <<cur, Runnable>>
<1>1. PICK l \in {"read", "restore"} :
        /\ pc[s] = "pause" /\ pc' = [pc EXCEPT ![s] = l]
        /\ IF sync[s] = {} THEN l = "read" ELSE l = "restore"
        /\ got' = [got EXCEPT ![s] = sync[s]] /\ sync' = [sync EXCEPT ![s] = {}]
        /\ UNCHANGED <<procVars, mailVars, sleeping, idle, pipe, callVars, seen, ptr, postVars>>
  BY DEF Pause, Goto
<1>2. /\ got' \in [Scheds -> SUBSET Bits] /\ sync' \in [Scheds -> SUBSET Bits]
      /\ got'[s] = sync[s] /\ sync'[s] = {}
      /\ \A u \in Scheds : u # s => got'[u] = got[u] /\ sync'[u] = sync[u]
  BY <1>1 DEF IInv, Types
<1>3. l \in Resting /\ pc[s] \in Resting /\ "restore" \notin Drowsy /\ pc[s] \in Drowsy
  BY <1>1 DEF Resting, SchedLabels, TakeLabels, Drowsy
<1>4. /\ Types' /\ Control' /\ Placed' /\ Boxed' /\ UNCHANGED <<cur, Runnable>>
      /\ pc'[s] = l /\ (\A u \in Threads : u # s => pc'[u] = pc[u])
      /\ \A u \in Threads : pc[u] \in Coming => u # s /\ pc'[u] = pc[u]
  <2>1. sleeping' \subseteq Scheds /\ pipe' \in [Scheds -> 0..PipeSize]
    BY <1>1 DEF IInv, Types
  <2> QED BY <1>1, <1>2, <1>3, <2>1, RestQuiet
<1>5. UNCHANGED <<to, box, fptr>> /\ got[s] = {}
  BY <1>1 DEF postVars, mailVars, IInv, Control, SchedAt, TakeLabels
<1>6. Awaited'
  <2>1. \A u \in Scheds : pc'[u] \in Drowsy =>
          pc[u] \in Drowsy /\ (sync[u] # {} => sync'[u] # {})
    BY <1>1, <1>2, <1>3, <1>4, ThreadKinds
  <2> QED BY <1>1, <1>4, <1>5, <2>1, AwaitedKept DEF Coming, IInv, Told
<1>7. Roused'
  <2>1. \A u \in Scheds : pc'[u] = "read" /\ sync'[u] # {} => pc[u] = "read" /\ sync[u] # {}
    BY <1>2, <1>4, ThreadKinds
  <2> QED BY <1>1, <1>4, <1>5, <2>1, RousedKept DEF Coming, IInv, Told
<1>8. Noticed'
  BY <1>1, <1>2, <1>4, <1>5, NoticedKept DEF Coming, IInv, Told
<1> QED BY <1>4, <1>6, <1>7, <1>8 DEF IInv, Told

(* It reads a byte, or puts the bits that ended the pause back. *)
LEMMA ReadStep ==
  ASSUME IInv, NEW s \in Scheds, Read(s) \/ Restore(s)
  PROVE  IInv' /\ UNCHANGED <<cur, Runnable>>
<1>1. /\ \/ pc[s] = "read" /\ pc' = [pc EXCEPT ![s] = "pause"]
         \/ pc[s] = "restore" /\ pc' = [pc EXCEPT ![s] = "clear_idle"]
      /\ UNCHANGED <<procVars, mailVars, sleeping, idle, callVars, seen, ptr, postVars>>
  BY DEF Read, Restore, Goto, localVars
<1>2. /\ got' \in [Scheds -> SUBSET Bits] /\ sync' \in [Scheds -> SUBSET Bits]
      /\ got'[s] = {} /\ sync'[s] = sync[s] \cup got[s]
      /\ \A u \in Scheds : u # s => got'[u] = got[u] /\ sync'[u] = sync[u]
  <2>1. CASE Read(s)
    <3>1. got[s] = {}
      BY <2>1 DEF Read, IInv, Control, SchedAt, TakeLabels
    <3> QED BY <2>1, <3>1 DEF Read, localVars, IInv, Types
  <2>2. CASE Restore(s)
    BY <2>2 DEF Restore, SetBits, IInv, Types
  <2> QED BY <2>1, <2>2
<1>3. /\ pipe' \in [Scheds -> 0..PipeSize]
      /\ \A u \in Scheds : u # s => pipe'[u] = pipe[u]
  <2>1. CASE Read(s)
    <3>1. pipe[s] - 1 \in 0..PipeSize /\ pipe' = [pipe EXCEPT ![s] = pipe[s] - 1]
      BY <2>1, MailAssumption DEF Read, IInv, Types
    <3> QED BY <3>1 DEF IInv, Types
  <2>2. CASE Restore(s)
    BY <2>2 DEF Restore, IInv, Types
  <2> QED BY <2>1, <2>2
<1>4. PICK l \in {"pause", "clear_idle"} :
        pc' = [pc EXCEPT ![s] = l] /\ (l = "pause" => pc[s] \in Drowsy)
  BY <1>1 DEF Drowsy
<1>5. l \in Resting /\ pc[s] \in Resting /\ "clear_idle" \notin Drowsy /\ l # "read"
  BY <1>1 DEF Resting, SchedLabels, TakeLabels, Drowsy
<1>6. /\ Types' /\ Control' /\ Placed' /\ Boxed' /\ UNCHANGED <<cur, Runnable>>
      /\ pc'[s] = l /\ (\A u \in Threads : u # s => pc'[u] = pc[u])
      /\ \A u \in Threads : pc[u] \in Coming => u # s /\ pc'[u] = pc[u]
  <2>1. sleeping' \subseteq Scheds
    BY <1>1 DEF IInv, Types
  <2> QED BY <1>1, <1>2, <1>3, <1>4, <1>5, <2>1, RestQuiet
<1>7. UNCHANGED <<to, box, fptr>>
  BY <1>1 DEF postVars, mailVars
<1>8. Awaited'
  <2>1. \A u \in Scheds : pc'[u] \in Drowsy =>
          pc[u] \in Drowsy /\ (sync[u] # {} => sync'[u] # {})
    BY <1>2, <1>4, <1>5, <1>6, ThreadKinds
  <2> QED BY <1>1, <1>6, <1>7, <2>1, AwaitedKept DEF Coming, IInv, Told
<1>9. Roused'
  <2>1. \A u \in Scheds : pc'[u] = "read" => u # s /\ pc[u] = "read"
    BY <1>5, <1>6, ThreadKinds
  <2>2. \A u \in Scheds : u # s => pipe'[u] = pipe[u] /\ sync'[u] = sync[u]
    BY <1>2, <1>3
  <2> QED BY <1>1, <1>6, <1>7, <2>1, <2>2, RousedKept DEF Coming, IInv, Told
<1>10. Noticed'
  BY <1>1, <1>2, <1>6, <1>7, NoticedKept DEF Coming, IInv, Told
<1> QED BY <1>6, <1>8, <1>9, <1>10 DEF IInv, Told

-----------------------------------------------------------------------------
(* Where a thread goes once its mail is sent. *)
Home(t) == CASE t \in Bscs -> "bsc_dec"
             [] t \in Scheds -> IF cur[t] = NotProcess THEN "sched" ELSE "user"

(* A thread that has sent its mail is neither sending nor asleep. *)
LEMMA HomeLabel ==
  ASSUME NEW t \in Threads
  PROVE  /\ t \in Bscs => Home(t) = "bsc_dec"
         /\ t \in Scheds => Home(t) = IF cur[t] = NotProcess THEN "sched" ELSE "user"
         /\ Home(t) \in {"bsc_dec", "sched", "user"}
<1>1. CASE t \in Bscs
  BY <1>1, ThreadKinds DEF Home
<1>2. CASE t \in Scheds
  BY <1>2, ThreadKinds DEF Home
<1> QED BY <1>1, <1>2, ThreadKinds

(* What a step keeps by which a thread tells or wakes a scheduler. *)
LEMMA SendQuiet ==
  ASSUME IInv, NEW t \in Threads, pc[t] \in (MailLabels \ Posting) \cup {"bsc_dec"},
         NEW l, pc' = [pc EXCEPT ![t] = l],
         \/ l \in MailLabels \ Posting
         \/ l = Home(t)
         \/ l = "bsc" /\ t \in Bscs,
         UNCHANGED <<procVars, mailVars, calls, localVars, idle, item, back>>,
         to' \in [Threads -> Scheds], box' \in [Threads -> Bits],
         \A u \in Threads : u # t => to'[u] = to[u] /\ box'[u] = box[u],
         l \in Sending => box'[t] \in Boxes,
         sync' \in [Scheds -> SUBSET Bits], sleeping' \subseteq Scheds,
         pipe' \in [Scheds -> 0..PipeSize], pending' \in Int
  PROVE  /\ Types' /\ Control' /\ Placed' /\ Boxed' /\ UNCHANGED <<cur, Runnable>>
         /\ pc'[t] = l /\ \A u \in Threads : u # t => pc'[u] = pc[u]
<1> USE DEF procVars, mailVars, localVars
<1>1. l \in Labels \ (Posting \cup TakeLabels) /\ pc[t] \notin Posting \cup TakeLabels
  <2>1. l \in (MailLabels \ Posting) \cup {"bsc", "bsc_dec", "sched", "user"}
    BY HomeLabel
  <2> QED BY <2>1 DEF Labels, MailLabels, SchedLabels, Posting, TakeLabels
<1>2. pc' \in [Threads -> Labels] /\ pc'[t] = l /\ \A u \in Threads : u # t => pc'[u] = pc[u]
  BY <1>1, GotoPc DEF IInv
<1>3. Types'
  BY <1>2 DEF IInv, Types
<1>4. Placed' /\ Boxed' /\ Runnable' = Runnable
  BY <1>1, Quiet
<1>5. Control'
  <2>1. t \in Bscs => l \in BscLabels
    BY HomeLabel DEF BscLabels
  <2>2. ASSUME t \in Scheds PROVE SchedAt(t)'
    <3>1. SchedAt(t)
      BY <2>2 DEF IInv, Control
    <3>2. pc[t] \notin TakeLabels \cup {"drain", "restore"}
      BY DEF MailLabels, TakeLabels
    <3>3. ptr'[t] = Null /\ got'[t] = {} /\ cur'[t] = cur[t]
      BY <3>1, <3>2 DEF SchedAt
    <3>4. \/ l \in MailLabels \ Posting
          \/ l = "sched" /\ cur[t] = NotProcess
          \/ l = "user" /\ cur[t] # NotProcess
      BY <2>2, HomeLabel, ThreadKinds
    <3>5. /\ l \in MailLabels => l \notin SchedLabels /\ l \notin TakeLabels
          /\ {"sched", "user"} \subseteq SchedLabels \ TakeLabels
      BY DEF MailLabels, SchedLabels, TakeLabels
    <3> QED BY <1>2, <3>3, <3>4, <3>5 DEF SchedAt
  <2>3. PostAt(t)'
    <3>1. PostAt(t)
      BY DEF IInv, Control
    <3> QED BY <1>1, <1>2, <3>1 DEF PostAt
  <2> QED BY <1>2, <2>1, <2>2, <2>3, ControlStep DEF IInv
<1> QED BY <1>2, <1>3, <1>4, <1>5

(* The sync bit of a mail box is set. *)
LEMMA MailSyncStep ==
  ASSUME IInv, NEW t \in Threads, MailSync(t)
  PROVE  IInv' /\ UNCHANGED <<cur, Runnable>>
<1>1. /\ pc[t] = "mail_sync" /\ pc' = [pc EXCEPT ![t] = "mail_look"]
      /\ sync' = [sync EXCEPT ![to[t]] = @ \cup {box[t]}]
      /\ UNCHANGED <<procVars, mailVars, sleeping, idle, pipe, callVars, localVars, postVars>>
  BY DEF MailSync, Goto, SetBits
<1>2. PICK s \in Scheds, b \in Boxes : s = to[t] /\ b = box[t]
  BY <1>1 DEF IInv, Types, Control, PostAt, Sending
<1>3. /\ sync' \in [Scheds -> SUBSET Bits] /\ sync'[s] = sync[s] \cup {b}
      /\ \A u \in Scheds : u # s => sync'[u] = sync[u]
  BY <1>1, <1>2 DEF IInv, Types, Bits
<1>4. /\ Types' /\ Control' /\ Placed' /\ Boxed' /\ UNCHANGED <<cur, Runnable>>
      /\ pc'[t] = "mail_look" /\ \A u \in Threads : u # t => pc'[u] = pc[u]
  <2>1. pc[t] \in MailLabels \ Posting /\ "mail_look" \in MailLabels \ Posting
    BY <1>1 DEF MailLabels, Posting
  <2>2. /\ to' \in [Threads -> Scheds] /\ box' \in [Threads -> Bits] /\ box'[t] \in Boxes
        /\ (\A u \in Threads : u # t => to'[u] = to[u] /\ box'[u] = box[u])
        /\ sleeping' \subseteq Scheds /\ pipe' \in [Scheds -> 0..PipeSize] /\ pending' \in Int
        /\ UNCHANGED <<calls, item, back>>
    BY <1>1, <1>2 DEF IInv, Types, postVars, callVars
  <2> QED BY <1>1, <1>3, <2>1, <2>2, SendQuiet
<1>5. UNCHANGED <<to, box, fptr, got, pipe, sleeping>>
  BY <1>1 DEF postVars, mailVars, localVars
<1>6. \A u \in Threads : pc'[u] # "mail_look" => pc'[u] = pc[u]
  BY <1>4
<1>7. \A u \in Scheds : pc'[u] \in Drowsy => pc'[u] = pc[u]
  BY <1>6, ThreadKinds DEF Drowsy
<1>8. Awaited'
  <2>1. \A u \in Scheds : sync[u] # {} => sync'[u] # {}
    BY <1>3
  <2>2. \A u \in Threads : pc[u] = "wake_sync" => pc'[u] = "wake_sync"
    BY <1>1, <1>4
  <2> QED BY <1>5, <1>7, <2>1, <2>2, AwaitedKept DEF IInv, Told
<1>9. Roused'
  <2> SUFFICES ASSUME NEW v \in Scheds, pc'[v] = "read", pipe'[v] = 0, sync'[v] # {}
               PROVE  \/ \E u \in Threads : Waking(u, v, {"wake_sync", "wake_write"})'
                      \/ v \in sleeping' /\ \E u \in Threads : Waking(u, v, {"mail_look", "wake_clear"})'
    BY DEF Roused, RousedAt
  <2>1. pc[v] = "read" /\ pc[v] \in Drowsy /\ pipe[v] = 0
    BY <1>5, <1>7 DEF Drowsy
  <2>2. \A u \in Threads : /\ Waking(u, v, {"wake_sync", "wake_write"}) =>
                                Waking(u, v, {"wake_sync", "wake_write"})'
                           /\ Waking(u, v, {"wake_sync"}) => Waking(u, v, {"wake_sync", "wake_write"})'
                           /\ Waking(u, v, {"mail_look", "wake_clear"}) =>
                                Waking(u, v, {"mail_look", "wake_clear"})'
    BY <1>1, <1>4, <1>5 DEF Waking
  <2>3. CASE sync[v] # {}
    BY <1>5, <2>1, <2>2, <2>3 DEF IInv, Told, Roused, RousedAt
  <2>4. CASE sync[v] = {} /\ v \notin sleeping
    BY <2>1, <2>2, <2>4 DEF IInv, Told, Awaited, AwaitedAt
  <2>5. CASE sync[v] = {} /\ v \in sleeping
    <3>1. v = s
      BY <1>3, <2>5
    <3>2. Waking(t, v, {"mail_look", "wake_clear"})'
      BY <1>2, <1>4, <1>5, <3>1 DEF Waking
    <3> QED BY <1>5, <2>5, <3>2
  <2> QED BY <2>3, <2>4, <2>5
<1>10. Noticed'
  <2> SUFFICES ASSUME NEW v \in Scheds, NEW c \in Boxes, fptr'[v][c] # Null
               PROVE  \/ c \in sync'[v] \cup got'[v]
                      \/ \E u \in Threads : Waking(u, v, {"mail_link", "mail_sync"})' /\ box'[u] = c
    BY DEF Noticed
  <2>1. CASE c \in sync[v] \cup got[v]
    BY <1>3, <1>5, <2>1
  <2>2. ASSUME NEW u \in Threads, Waking(u, v, {"mail_link", "mail_sync"}), box[u] = c
        PROVE  \/ c \in sync'[v] \cup got'[v]
               \/ Waking(u, v, {"mail_link", "mail_sync"})' /\ box'[u] = c
    <3>1. CASE u = t
      BY <1>2, <1>3, <2>2, <3>1 DEF Waking
    <3>2. CASE u # t
      BY <1>4, <1>5, <2>2, <3>2 DEF Waking
    <3> QED BY <3>1, <3>2
  <2>3. fptr[v][c] # Null
    BY <1>5
  <2> QED BY <2>1, <2>2, <2>3 DEF IInv, Told, Noticed
<1> QED BY <1>4, <1>8, <1>9, <1>10 DEF IInv, Told

(* A step that only concerns the scheduler s does not let the others down. *)
LEMMA OthersTold ==
  ASSUME Told, NEW t \in Threads, NEW s \in Scheds, to[t] = s,
         pc[t] \notin {"mail_link", "mail_sync"}, pc'[t] \notin Drowsy,
         \A u \in Threads : u # t => pc'[u] = pc[u] /\ to'[u] = to[u] /\ box'[u] = box[u],
         \A v \in Scheds : v # s =>
           sync'[v] = sync[v] /\ pipe'[v] = pipe[v] /\ (v \in sleeping <=> v \in sleeping'),
         sync[s] \subseteq sync'[s], UNCHANGED <<got, fptr>>,
         AwaitedAt(s)', RousedAt(s)'
  PROVE  Told'
<1>0. "read" \in Drowsy
  BY DEF Drowsy
<1>1. ASSUME NEW v \in Scheds, v # s PROVE AwaitedAt(v)' /\ RousedAt(v)'
  <2>1. AwaitedAt(v) /\ RousedAt(v)
    BY DEF Told, Awaited, Roused
  <2>2. pc'[v] \in Drowsy => pc'[v] = pc[v]
    BY ThreadKinds
  <2>3. /\ \A u \in Threads : Waking(u, v, {"wake_sync"}) => Waking(u, v, {"wake_sync"})'
        /\ \A u \in Threads : Waking(u, v, {"wake_sync", "wake_write"}) =>
                                Waking(u, v, {"wake_sync", "wake_write"})'
        /\ \A u \in Threads : Waking(u, v, {"mail_look", "wake_clear"}) =>
                                Waking(u, v, {"mail_look", "wake_clear"})'
    BY <1>1 DEF Waking
  <2>4. sync'[v] = sync[v] /\ pipe'[v] = pipe[v] /\ (v \in sleeping <=> v \in sleeping')
    BY <1>1
  <2>5. AwaitedAt(v)'
    BY <2>1, <2>2, <2>3, <2>4 DEF AwaitedAt
  <2>6. RousedAt(v)'
    BY <1>0, <2>1, <2>2, <2>3, <2>4 DEF RousedAt
  <2> QED BY <2>5, <2>6
<1>2. Noticed'
  <2>1. \A v \in Scheds : sync[v] \subseteq sync'[v]
    OBVIOUS
  <2> QED BY <2>1, NoticedKept DEF Told
<1> QED BY <1>1, <1>2 DEF Told, Awaited, Roused

(* The sender looks whether the scheduler has announced to sleep. *)
LEMMA MailLookStep ==
  ASSUME IInv, NEW t \in Threads, MailLook(t)
  PROVE  IInv' /\ UNCHANGED <<cur, Runnable>>
<1> USE DEF postVars, callVars, sleepVars
<1>1. PICK s \in Scheds : s = to[t]
  BY DEF IInv, Types
<1>2. PICK l : /\ pc[t] = "mail_look" /\ pc' = [pc EXCEPT ![t] = l]
               /\ \/ s \in sleeping /\ l = "wake_clear" /\ UNCHANGED <<to, box>>
                  \/ /\ s \notin sleeping /\ l = Home(t)
                     /\ to' = [to EXCEPT ![t] = First] /\ box' = [box EXCEPT ![t] = "pmail"]
               /\ UNCHANGED <<procVars, mailVars, sleepVars, callVars, localVars, item, back>>
  <2>1. CASE s \in sleeping
    BY <1>1, <2>1 DEF MailLook, Goto
  <2>2. CASE s \notin sleeping
    <3>1. /\ pc[t] = "mail_look" /\ pc' = [pc EXCEPT ![t] = Home(t)]
          /\ to' = [to EXCEPT ![t] = First] /\ box' = [box EXCEPT ![t] = "pmail"]
          /\ UNCHANGED <<procVars, mailVars, sleepVars, callVars, localVars, item, back>>
      BY <1>1, <2>2 DEF MailLook, Return, Goto, Home
    <3> QED BY <2>2, <3>1
  <2> QED BY <2>1, <2>2
<1>3. /\ to' \in [Threads -> Scheds] /\ box' \in [Threads -> Bits]
      /\ \A u \in Threads : u # t => to'[u] = to[u] /\ box'[u] = box[u]
  <2>1. "pmail" \in Bits /\ First \in Scheds
    BY MailAssumption DEF Bits, Boxes
  <2>2. to \in [Threads -> Scheds] /\ box \in [Threads -> Bits]
    BY DEF IInv, Types
  <2> QED BY <1>2, <2>1, <2>2
<1>4. /\ Types' /\ Control' /\ Placed' /\ Boxed' /\ UNCHANGED <<cur, Runnable>>
      /\ pc'[t] = l /\ \A u \in Threads : u # t => pc'[u] = pc[u]
  <2>1. pc[t] \in MailLabels \ Posting /\ "wake_clear" \in MailLabels \ Posting
    BY <1>2 DEF MailLabels, Posting
  <2>2. l \notin Sending
    BY <1>2, HomeLabel DEF Sending
  <2>3. /\ sleeping' \subseteq Scheds /\ pipe' \in [Scheds -> 0..PipeSize] /\ pending' \in Int
        /\ sync' \in [Scheds -> SUBSET Bits] /\ UNCHANGED <<calls, idle>>
    BY <1>2 DEF IInv, Types
  <2>4. /\ pc' = [pc EXCEPT ![t] = l] /\ (l \in MailLabels \ Posting \/ l = Home(t))
        /\ UNCHANGED <<procVars, mailVars, localVars, item, back>>
    BY <1>2, <2>1
  <2> QED BY <1>3, <2>1, <2>2, <2>3, <2>4, SendQuiet
<1>5. UNCHANGED <<fptr, got, pipe, sleeping, sync>>
  BY <1>2 DEF mailVars, localVars
<1>6. l \notin Drowsy
  BY <1>2, HomeLabel DEF Drowsy
<1>7. pc'[s] \in Drowsy => pc'[s] = pc[s]
  BY <1>4, <1>6, ThreadKinds
<1>8. AwaitedAt(s)'
  <2>1. AwaitedAt(s)
    BY DEF IInv, Told, Awaited
  <2>2. \A u \in Threads : Waking(u, s, {"wake_sync"}) => Waking(u, s, {"wake_sync"})'
    BY <1>2, <1>3, <1>4 DEF Waking
  <2> QED BY <1>5, <1>7, <2>1, <2>2 DEF AwaitedAt
<1>9. RousedAt(s)'
  <2>0. RousedAt(s)
    BY DEF IInv, Told, Roused
  <2>1. "read" \in Drowsy
    BY DEF Drowsy
  <2>2. \A u \in Threads : Waking(u, s, {"wake_sync", "wake_write"}) =>
                             Waking(u, s, {"wake_sync", "wake_write"})'
    BY <1>2, <1>3, <1>4 DEF Waking
  <2>3. s \in sleeping => Waking(t, s, {"mail_look", "wake_clear"})'
    BY <1>1, <1>2, <1>4 DEF Waking
  <2> QED BY <1>5, <1>7, <2>0, <2>1, <2>2, <2>3 DEF RousedAt
<1>10. Told'
  BY <1>1, <1>2, <1>3, <1>4, <1>5, <1>6, <1>8, <1>9, OthersTold DEF IInv
<1> QED BY <1>4, <1>10 DEF IInv

(* The announcement to sleep is taken back. *)
LEMMA WakeClearStep ==
  ASSUME IInv, NEW t \in Threads, WakeClear(t)
  PROVE  IInv' /\ UNCHANGED <<cur, Runnable>>
<1>1. PICK s \in Scheds : s = to[t]
  BY DEF IInv, Types
<1>2. /\ pc[t] = "wake_clear" /\ pc' = [pc EXCEPT ![t] = "wake_sync"]
      /\ sleeping' = sleeping \ {s}
      /\ UNCHANGED <<procVars, mailVars, sync, idle, pipe, callVars, localVars, postVars>>
  BY <1>1 DEF WakeClear, Goto
<1>3. UNCHANGED <<to, box, item, back, fptr, got, calls, pending>>
  BY <1>2 DEF postVars, mailVars, localVars, callVars
<1>4. /\ Types' /\ Control' /\ Placed' /\ Boxed' /\ UNCHANGED <<cur, Runnable>>
      /\ pc'[t] = "wake_sync" /\ \A u \in Threads : u # t => pc'[u] = pc[u]
  <2>1. /\ pc[t] \in MailLabels \ Posting /\ "wake_sync" \in MailLabels \ Posting
        /\ "wake_sync" \notin Sending
    BY <1>2 DEF MailLabels, Posting, Sending
  <2>2. /\ sleeping' \subseteq Scheds /\ pipe' \in [Scheds -> 0..PipeSize] /\ pending' \in Int
        /\ sync' \in [Scheds -> SUBSET Bits]
        /\ to' \in [Threads -> Scheds] /\ box' \in [Threads -> Bits]
    BY <1>2, <1>3 DEF IInv, Types
  <2> QED BY <1>2, <1>3, <2>1, <2>2, SendQuiet
<1>5. Waking(t, s, {"wake_sync"})' /\ Waking(t, s, {"wake_sync", "wake_write"})'
  BY <1>1, <1>3, <1>4 DEF Waking
<1>6. AwaitedAt(s)' /\ RousedAt(s)'
  BY <1>5 DEF AwaitedAt, RousedAt
<1>7. "wake_sync" \notin Drowsy
  BY DEF Drowsy
<1>8. Told'
  BY <1>1, <1>2, <1>3, <1>4, <1>6, <1>7, OthersTold DEF IInv
<1> QED BY <1>4, <1>8 DEF IInv

(* The bit is set again for the scheduler that is being woken. *)
LEMMA WakeSyncStep ==
  ASSUME IInv, NEW t \in Threads, WakeSync(t)
  PROVE  IInv' /\ UNCHANGED <<cur, Runnable>>
<1>1. PICK s \in Scheds, b \in Bits : s = to[t] /\ b = box[t]
  BY DEF IInv, Types
<1>2. /\ pc[t] = "wake_sync" /\ pc' = [pc EXCEPT ![t] = "wake_write"]
      /\ sync' = [sync EXCEPT ![s] = @ \cup {b}]
      /\ UNCHANGED <<procVars, mailVars, sleeping, idle, pipe, callVars, localVars, postVars>>
  BY <1>1 DEF WakeSync, SetBits, Goto
<1>3. UNCHANGED <<to, box, item, back, fptr, got, calls, pending>>
  BY <1>2 DEF postVars, mailVars, localVars, callVars
<1>4. /\ sync' \in [Scheds -> SUBSET Bits] /\ sync'[s] = sync[s] \cup {b}
      /\ \A v \in Scheds : v # s => sync'[v] = sync[v]
  BY <1>2 DEF IInv, Types
<1>5. /\ Types' /\ Control' /\ Placed' /\ Boxed' /\ UNCHANGED <<cur, Runnable>>
      /\ pc'[t] = "wake_write" /\ \A u \in Threads : u # t => pc'[u] = pc[u]
  <2>1. /\ pc[t] \in MailLabels \ Posting /\ "wake_write" \in MailLabels \ Posting
        /\ "wake_write" \notin Sending
    BY <1>2 DEF MailLabels, Posting, Sending
  <2>2. /\ sleeping' \subseteq Scheds /\ pipe' \in [Scheds -> 0..PipeSize] /\ pending' \in Int
        /\ to' \in [Threads -> Scheds] /\ box' \in [Threads -> Bits]
    BY <1>2, <1>3 DEF IInv, Types
  <2> QED BY <1>2, <1>3, <1>4, <2>1, <2>2, SendQuiet
<1>6. Waking(t, s, {"wake_sync", "wake_write"})'
  BY <1>1, <1>3, <1>5 DEF Waking
<1>7. AwaitedAt(s)' /\ RousedAt(s)'
  BY <1>4, <1>6 DEF AwaitedAt, RousedAt
<1>8. "wake_write" \notin Drowsy
  BY DEF Drowsy
<1>9. Told'
  BY <1>1, <1>2, <1>3, <1>4, <1>5, <1>7, <1>8, OthersTold DEF IInv
<1> QED BY <1>5, <1>9 DEF IInv

(* A byte is written to its pipe, if there is room. *)
LEMMA WakeWriteStep ==
  ASSUME IInv, NEW t \in Threads, WakeWrite(t)
  PROVE  IInv' /\ UNCHANGED <<cur, Runnable>>
<1>1. PICK s \in Scheds : s = to[t]
  BY DEF IInv, Types
<1>2. /\ pc[t] = "wake_write" /\ pc' = [pc EXCEPT ![t] = Home(t)]
      /\ to' = [to EXCEPT ![t] = First] /\ box' = [box EXCEPT ![t] = "pmail"]
      /\ UNCHANGED <<procVars, mailVars, sync, sleeping, idle, callVars, localVars, item, back>>
  BY <1>1 DEF WakeWrite, Return, Goto, Home
<1>3. /\ pipe' \in [Scheds -> 0..PipeSize] /\ pipe'[s] # 0
      /\ \A v \in Scheds : v # s => pipe'[v] = pipe[v]
  <2>1. PICK n \in 1..PipeSize : pipe' = [pipe EXCEPT ![s] = n]
    <3>1. pipe[s] \in 0..PipeSize /\ PipeSize \in Nat /\ PipeSize # 0
      BY MailAssumption DEF IInv, Types
    <3>2. CASE pipe[s] < PipeSize
      <4>1. pipe' = [pipe EXCEPT ![s] = pipe[s] + 1] /\ pipe[s] + 1 \in 1..PipeSize
        BY <1>1, <3>1, <3>2 DEF WakeWrite
      <4> QED BY <4>1
    <3>3. CASE ~(pipe[s] < PipeSize)
      <4>1. pipe' = [pipe EXCEPT ![s] = pipe[s]] /\ pipe[s] \in 1..PipeSize
        BY <1>1, <3>1, <3>3 DEF WakeWrite
      <4> QED BY <4>1
    <3> QED BY <3>2, <3>3
  <2>2. n \in 0..PipeSize /\ n # 0
    BY MailAssumption
  <2> QED BY <2>1, <2>2 DEF IInv, Types
<1>4. /\ to' \in [Threads -> Scheds] /\ box' \in [Threads -> Bits]
      /\ \A u \in Threads : u # t => to'[u] = to[u] /\ box'[u] = box[u]
  <2>1. "pmail" \in Bits /\ First \in Scheds
    BY MailAssumption DEF Bits, Boxes
  <2>2. to \in [Threads -> Scheds] /\ box \in [Threads -> Bits]
    BY DEF IInv, Types
  <2> QED BY <1>2, <2>1, <2>2
<1>5. Home(t) \notin Sending /\ Home(t) \notin Drowsy
  BY HomeLabel DEF Sending, Drowsy
<1>6. UNCHANGED <<fptr, got, calls, pending>>
  BY <1>2 DEF mailVars, localVars, callVars
<1>7. /\ Types' /\ Control' /\ Placed' /\ Boxed' /\ UNCHANGED <<cur, Runnable>>
      /\ pc'[t] = Home(t) /\ \A u \in Threads : u # t => pc'[u] = pc[u]
  <2>1. pc[t] \in MailLabels \ Posting
    BY <1>2 DEF MailLabels, Posting
  <2>2. sleeping' \subseteq Scheds /\ pending' \in Int /\ sync' \in [Scheds -> SUBSET Bits]
    BY <1>2, <1>6 DEF IInv, Types
  <2> QED BY <1>2, <1>3, <1>4, <1>5, <1>6, <2>1, <2>2, SendQuiet
<1>8. AwaitedAt(s)'
  <2>1. AwaitedAt(s)
    BY DEF IInv, Told, Awaited
  <2>2. \A u \in Threads : Waking(u, s, {"wake_sync"}) => Waking(u, s, {"wake_sync"})'
    BY <1>2, <1>4, <1>7 DEF Waking
  <2>3. pc'[s] \in Drowsy => pc'[s] = pc[s]
    BY <1>5, <1>7, ThreadKinds
  <2> QED BY <1>2, <2>1, <2>2, <2>3 DEF AwaitedAt
<1>9. RousedAt(s)'
  BY <1>3 DEF RousedAt
<1>10. Told'
  BY <1>1, <1>2, <1>3, <1>4, <1>5, <1>6, <1>7, <1>8, <1>9, OthersTold DEF IInv
<1> QED BY <1>7, <1>10 DEF IInv

(* A blocking call is counted off. *)
LEMMA BscDecStep ==
  ASSUME IInv, NEW t \in Bscs, BscDec(t)
  PROVE  IInv' /\ UNCHANGED <<cur, Runnable>>
<1>1. /\ pc[t] = "bsc_dec" /\ pc' = [pc EXCEPT ![t] = "bsc"] /\ pending' = pending - 1
      /\ UNCHANGED <<procVars, mailVars, sync, sleeping, idle, pipe, calls, localVars,
                     item, to, box, back>>
  BY DEF BscDec, Goto, sleepVars, postVars
<1>2. t \in Threads /\ "bsc" \notin Sending /\ "bsc" \notin Drowsy
  BY ThreadKinds DEF Sending, Drowsy
<1>3. /\ Types' /\ Control' /\ Placed' /\ Boxed' /\ UNCHANGED <<cur, Runnable>>
      /\ pc'[t] = "bsc" /\ \A u \in Threads : u # t => pc'[u] = pc[u]
  <2>1. /\ sleeping' \subseteq Scheds /\ pipe' \in [Scheds -> 0..PipeSize] /\ pending' \in Int
        /\ sync' \in [Scheds -> SUBSET Bits]
        /\ to' \in [Threads -> Scheds] /\ box' \in [Threads -> Bits]
    BY <1>1 DEF IInv, Types
  <2> QED BY <1>1, <1>2, <2>1, SendQuiet
<1>4. UNCHANGED <<fptr, got>>
  BY <1>1 DEF mailVars, localVars
<1>5. /\ \A u \in Threads : pc[u] \in Coming => pc'[u] = pc[u]
      /\ \A v \in Scheds : pc'[v] = pc[v]
  BY <1>1, <1>3, ThreadKinds DEF Coming
<1>6. Awaited'
  BY <1>1, <1>5, AwaitedKept DEF IInv, Told, Coming
<1>7. Roused'
  BY <1>1, <1>5, RousedKept DEF IInv, Told, Coming
<1>8. Noticed'
  BY <1>1, <1>4, <1>5, NoticedKept DEF IInv, Told, Coming
<1> QED BY <1>3, <1>6, <1>7, <1>8 DEF IInv, Told

-----------------------------------------------------------------------------
(* A step that moves the process p, and it alone. *)
LEMMA PlacedMove ==
  ASSUME Types, Placed, NEW p \in Procs, PlacedAt(p)', UNCHANGED mailq,
         \A q \in Procs \ {p} :
           /\ \A s \in Scheds : /\ cur'[s] = q <=> cur[s] = q
                                /\ q \in local'[s] <=> q \in local[s]
           /\ q \in calls' <=> q \in calls
           /\ \A t \in Threads : /\ item'[t] = q <=> item[t] = q
                                 /\ item'[t] = q /\ pc'[t] = "mail_swap" => pc[t] = "mail_swap"
  PROVE  /\ Placed'
         /\ \A q \in Procs \ {p} : q \in Runnable' <=> q \in Runnable
<1>1. \A q : Mailed(q)' <=> Mailed(q)
  BY DEF Mailed
<1>2. \A q \in Procs \ {p} : Posted(q)' <=> Posted(q)
  BY DEF Posted
<1>3. ASSUME NEW q \in Procs, q # p PROVE PlacedAt(q)'
  <2>1. PlacedAt(q) /\ q \in Procs \ {p}
    BY <1>3 DEF Placed
  <2>2. Travels(q)' <=> Travels(q)
    BY <1>1, <1>2, <2>1 DEF Travels
  <2> QED BY <1>1, <2>1, <2>2 DEF PlacedAt
<1> QED BY <1>1, <1>2, <1>3 DEF Placed, Runnable

(* A process in at most one place. *)
LEMMA OnePlace ==
  ASSUME Types, NEW p \in Procs, ~Mailed(p), UNCHANGED mailq,
         \/ /\ \A s \in Scheds : cur'[s] # p /\ p \notin local'[s]
            /\ ~Posted(p)'
         \/ \E u \in Scheds :
              /\ \A s \in Scheds : (cur'[s] = p => s = u) /\ p \notin local'[s]
              /\ p \notin calls' /\ ~Posted(p)'
         \/ \E u \in Scheds :
              /\ \A s \in Scheds : cur'[s] # p /\ (p \in local'[s] => s = u)
              /\ p \notin calls' /\ ~Posted(p)'
         \/ \E u \in Threads :
              /\ \A s \in Scheds : cur'[s] # p /\ p \notin local'[s]
              /\ p \notin calls' /\ \A t \in Threads : item'[t] = p => t = u
  PROVE  PlacedAt(p)' /\ ~Mailed(p)'
<1>1. ~Mailed(p)'
  BY DEF Mailed
<1>2. \A s \in Scheds, b \in Boxes : \A i \in 1..Len(mailq'[s][b]) : mailq'[s][b][i] # p
  BY MailedAt
<1>3. CASE /\ \A s \in Scheds : cur'[s] # p /\ p \notin local'[s]
           /\ ~Posted(p)'
  BY <1>1, <1>2, <1>3 DEF PlacedAt, Travels, Posted
<1>4. ASSUME NEW u \in Scheds,
             \A s \in Scheds : (cur'[s] = p => s = u) /\ p \notin local'[s],
             p \notin calls', ~Posted(p)'
      PROVE  PlacedAt(p)'
  BY <1>1, <1>2, <1>4 DEF PlacedAt, Travels, Posted
<1>5. ASSUME NEW u \in Scheds,
             \A s \in Scheds : cur'[s] # p /\ (p \in local'[s] => s = u),
             p \notin calls', ~Posted(p)'
      PROVE  PlacedAt(p)'
  BY <1>1, <1>2, <1>5 DEF PlacedAt, Travels, Posted
<1>6. ASSUME NEW u \in Threads,
             \A s \in Scheds : cur'[s] # p /\ p \notin local'[s],
             p \notin calls', \A t \in Threads : item'[t] = p => t = u
      PROVE  PlacedAt(p)'
  BY <1>1, <1>2, <1>6 DEF PlacedAt, Travels, Posted
<1> QED BY <1>1, <1>3, <1>4, <1>5, <1>6

(* What a step keeps that lets a process run, stop or become runnable. *)
LEMMA ProcStep ==
  ASSUME IInv, NEW t \in Threads, pc[t] \in {"user", "pick", "bsc"},
         NEW l \in {"user", "sched", "mail_swap", "wake_clear"}, pc' = [pc EXCEPT ![t] = l],
         UNCHANGED <<mailVars, sleepVars, localVars, back>>,
         affinity' \in [Procs -> SUBSET Scheds], local' \in [Scheds -> SUBSET Procs],
         cur' \in [Scheds -> Words], pending' \in Int, calls' \subseteq Procs,
         item' \in [Threads -> Words], to' \in [Threads -> Scheds], box' \in [Threads -> Bits],
         \A s \in Scheds : s # t => cur'[s] = cur[s],
         \A u \in Threads : u # t => item'[u] = item[u] /\ to'[u] = to[u] /\ box'[u] = box[u],
         t \in Bscs => l = "mail_swap",
         t \in Scheds => /\ l = "sched" => cur'[t] = NotProcess
                         /\ l = "user" => cur'[t] # NotProcess,
         IF l = "mail_swap" THEN item'[t] # Null /\ box'[t] \in Boxes ELSE item'[t] = Null
  PROVE  /\ Types' /\ Control' /\ Boxed' /\ Told'
         /\ pc'[t] = l /\ \A u \in Threads : u # t => pc'[u] = pc[u]
<1> USE DEF mailVars, sleepVars, localVars
<1>1. /\ l \in Labels /\ l \in SchedLabels \cup MailLabels /\ l \notin TakeLabels
      /\ pc[t] \notin TakeLabels /\ l \notin Drowsy
      /\ l \in SchedLabels => l \in {"user", "sched"}
      /\ l \in Posting \cup Sending => l = "mail_swap"
      /\ "mail_swap" \in BscLabels /\ "mail_swap" \in Posting
  BY DEF Labels, SchedLabels, MailLabels, TakeLabels, Posting, Sending, Drowsy, BscLabels
<1>2. pc' \in [Threads -> Labels] /\ pc'[t] = l /\ \A u \in Threads : u # t => pc'[u] = pc[u]
  BY <1>1, GotoPc DEF IInv
<1>3. Types'
  BY <1>2 DEF IInv, Types
<1>4. Control'
  <2>1. ASSUME t \in Scheds PROVE SchedAt(t)'
    <3>1. SchedAt(t)
      BY <2>1 DEF IInv, Control
    <3>2. pc[t] \notin TakeLabels \cup {"drain", "restore"}
      BY <1>1
    <3>3. ptr'[t] = Null /\ got'[t] = {}
      BY <3>1, <3>2 DEF SchedAt
    <3> QED BY <1>1, <1>2, <2>1, <3>3 DEF SchedAt
  <2>2. PostAt(t)'
    BY <1>1, <1>2 DEF PostAt
  <2> QED BY <1>1, <1>2, <2>1, <2>2, ControlStep DEF IInv
<1>5. Boxed'
  <2>1. \A u \in Threads : /\ pc'[u] = "mail_link" <=> pc[u] = "mail_link"
                           /\ pc[u] = "mail_link" =>
                                /\ to'[u] = to[u] /\ box'[u] = box[u]
                                /\ item'[u] = item[u] /\ back'[u] = back[u]
    BY <1>2
  <2>2. \A s \in Scheds : pc[s] \in TakeLabels \/ pc'[s] \in TakeLabels =>
           pc'[s] = pc[s] /\ ptr'[s] = ptr[s] /\ got'[s] = got[s]
    BY <1>1, <1>2, ThreadKinds
  <2> QED BY <2>1, <2>2, BoxedKept DEF IInv
<1>6. Told'
  <2>1. \A u \in Threads : pc[u] \in Coming =>
          pc'[u] = pc[u] /\ to'[u] = to[u] /\ box'[u] = box[u]
    BY <1>2 DEF Coming
  <2>2. \A s \in Scheds : pc'[s] \in Drowsy => pc[s] = pc'[s]
    BY <1>1, <1>2, ThreadKinds
  <2>3. Awaited'
    BY <2>1, <2>2, AwaitedKept DEF IInv, Told, Coming
  <2>4. Roused'
    <3>1. "read" \in Drowsy
      BY DEF Drowsy
    <3> QED BY <2>1, <2>2, <3>1, RousedKept DEF IInv, Told, Coming
  <2>5. Noticed'
    BY <2>1, NoticedKept DEF IInv, Told, Coming
  <2> QED BY <2>3, <2>4, <2>5 DEF Told
<1> QED BY <1>2, <1>3, <1>4, <1>5, <1>6

(* The place of a running process. *)
LEMMA RunningPlace ==
  ASSUME IInv, NEW s \in Scheds, pc[s] = "user"
  PROVE  /\ cur[s] \in Procs /\ cur[s] # NotProcess /\ cur[s] \notin calls
         /\ ~Mailed(cur[s]) /\ ~Posted(cur[s]) /\ cur[s] \notin Runnable
         /\ \A u \in Scheds : cur[s] \notin local[u] /\ (cur[u] = cur[s] => u = s)
         /\ item[s] = Null
<1>1. cur[s] \in Procs /\ cur[s] # NotProcess
  BY DEF IInv, Control, SchedAt, SchedLabels, Types, Words, Null
<1>2. PlacedAt(cur[s])
  BY <1>1 DEF IInv, Placed
<1>3. item[s] = Null
  BY ThreadKinds DEF IInv, Control, PostAt, Posting
<1>4. /\ cur[s] \notin calls /\ ~Travels(cur[s])
      /\ \A u \in Scheds : cur[s] \notin local[u] /\ (cur[u] = cur[s] => u = s)
  BY <1>2 DEF PlacedAt
<1> QED BY <1>1, <1>3, <1>4 DEF Travels, Runnable

(* The running process stops, perhaps for a blocking call. *)
LEMMA StopStep ==
  ASSUME IInv, NEW s \in Scheds, Deschedule(s) \/ BscDispatch(s)
  PROVE  IInv' /\ Abs!Next
<1>1. /\ pc[s] = "user" /\ pc' = [pc EXCEPT ![s] = "sched"]
      /\ cur' = [cur EXCEPT ![s] = NotProcess]
      /\ calls' \in {calls, calls \cup {cur[s]}} /\ pending' \in {pending, pending + 1}
      /\ UNCHANGED <<affinity, local, mailVars, sleepVars, localVars, postVars>>
  BY DEF Deschedule, BscDispatch, Goto, callVars
<1>2. PICK p \in Procs : p = cur[s]
  BY <1>1, RunningPlace
<1>3. /\ p # NotProcess /\ p \notin calls /\ ~Mailed(p) /\ ~Posted(p) /\ p \notin Runnable
      /\ \A u \in Scheds : p \notin local[u] /\ (cur[u] = p => u = s)
      /\ item[s] = Null /\ s \in Threads /\ s \notin Bscs
  BY <1>1, <1>2, RunningPlace, ThreadKinds
<1>4. UNCHANGED <<mailq, item, to, box, back>>
  BY <1>1 DEF mailVars, postVars
<1>5. /\ cur' \in [Scheds -> Words] /\ cur'[s] = NotProcess
      /\ \A u \in Scheds : u # s => cur'[u] = cur[u]
  BY <1>1 DEF IInv, Types, Words, Null
<1>6. /\ Types' /\ Control' /\ Boxed' /\ Told'
      /\ pc'[s] = "sched" /\ \A u \in Threads : u # s => pc'[u] = pc[u]
  <2>1. /\ affinity' \in [Procs -> SUBSET Scheds] /\ local' \in [Scheds -> SUBSET Procs]
        /\ pending' \in Int /\ calls' \subseteq Procs
        /\ item' \in [Threads -> Words] /\ to' \in [Threads -> Scheds] /\ box' \in [Threads -> Bits]
    BY <1>1, <1>2, <1>4 DEF IInv, Types
  <2> QED BY <1>1, <1>3, <1>4, <1>5, <2>1, ProcStep
<1>7. PlacedAt(p)' /\ ~Mailed(p)'
  <2>1. ~Posted(p)'
    BY <1>3, <1>4 DEF Posted
  <2>2. \A u \in Scheds : cur'[u] # p /\ p \notin local'[u]
    BY <1>1, <1>3, <1>5
  <2> QED BY <1>3, <1>4, <2>1, <2>2, OnePlace DEF IInv
<1>8. Placed' /\ \A q \in Procs \ {p} : q \in Runnable' <=> q \in Runnable
  <2>1. \A q \in Procs \ {p} :
           /\ \A u \in Scheds : /\ cur'[u] = q <=> cur[u] = q
                                /\ q \in local'[u] <=> q \in local[u]
           /\ q \in calls' <=> q \in calls
           /\ \A t \in Threads : /\ item'[t] = q <=> item[t] = q
                                 /\ item'[t] = q /\ pc'[t] = "mail_swap" => pc[t] = "mail_swap"
    BY <1>1, <1>2, <1>4, <1>5, <1>6, MailAssumption
  <2> QED BY <1>4, <1>7, <2>1, PlacedMove DEF IInv
<1>9. Runnable' = Runnable
  <2>1. p \notin Runnable'
    BY <1>1, <1>3, <1>4, <1>7 DEF Runnable, Posted
  <2>2. Runnable \subseteq Procs /\ Runnable' \subseteq Procs
    BY DEF Runnable
  <2> QED BY <1>3, <1>8, <2>1, <2>2
<1>10. Abs!Deschedule(s)
  BY <1>1, <1>2, <1>3, <1>9 DEF Abs!Deschedule
<1> QED BY <1>6, <1>8, <1>10 DEF IInv, Abs!Next

(* A process becomes runnable: here, or in the hands of t on its way to a  *)
(* mail box.  It was asleep, in a blocking call, or running on t.          *)
Local(t, p, l) ==
  /\ t \in Scheds /\ local' = [local EXCEPT ![t] = @ \cup {p}]
  /\ pc' = [pc EXCEPT ![t] = l] /\ UNCHANGED postVars
ByMail(t, p) ==
  /\ UNCHANGED local
  /\ \E u \in Scheds, b \in Boxes : Post(t, p, u, b)

(* A process becomes runnable: the kernel calls see Enqueue or Requeue. *)
LEMMA EnqueueStep ==
  ASSUME IInv, NEW t \in Threads, NEW p \in Procs, pc[t] \in {"user", "bsc"},
         t \in Bscs => ByMail(t, p),
         ~Mailed(p), ~Posted(p), \A u \in Scheds : p \notin local[u],
         UNCHANGED <<mailVars, sleepVars, localVars, pending>>,
         affinity' \in [Procs -> SUBSET Scheds], calls' = calls \ {p},
         \/ /\ \A u \in Scheds : cur[u] # p
            /\ UNCHANGED cur /\ (Local(t, p, "user") \/ ByMail(t, p))
         \/ /\ t \in Scheds /\ cur[t] = p /\ cur' = [cur EXCEPT ![t] = NotProcess]
            /\ Local(t, p, "sched") \/ ByMail(t, p)
  PROVE  IInv' /\ Abs!Next
<1>1. /\ cur' \in [Scheds -> Words] /\ (\A u \in Scheds : cur'[u] # p)
      /\ \A u \in Scheds, q \in Procs \ {p} : cur'[u] = q <=> cur[u] = q
      /\ \A u \in Scheds : u # t => cur'[u] = cur[u]
  <2>1. CASE (\A u \in Scheds : cur[u] # p) /\ UNCHANGED cur
    BY <2>1 DEF IInv, Types
  <2>2. CASE t \in Scheds /\ cur[t] = p /\ cur' = [cur EXCEPT ![t] = NotProcess]
    <3>1. PlacedAt(p)
      BY DEF IInv, Placed
    <3>2. \A u \in Scheds : cur[u] = p => u = t
      BY <2>2, <3>1 DEF PlacedAt
    <3> QED BY <2>2, <3>2, MailAssumption DEF IInv, Types, Words, Null
  <2> QED BY <2>1, <2>2
<1>2. item[t] = Null /\ p # Null /\ p # NotProcess
  BY MailAssumption DEF IInv, Control, PostAt, Posting, Null
<1>3. UNCHANGED <<mailq, back>>
  BY DEF mailVars, postVars, Local, ByMail, Post
<1>4. ASSUME NEW l \in {"user", "sched"}, Local(t, p, l),
             l = "sched" => cur'[t] = NotProcess, l = "user" => cur'[t] # NotProcess
      PROVE  IInv' /\ Runnable' = Runnable \cup {p}
  <2>1. /\ local' \in [Scheds -> SUBSET Procs] /\ p \in local'[t] /\ t \in Scheds
        /\ \A u \in Scheds : p \in local'[u] => u = t
        /\ \A u \in Scheds, q \in Procs \ {p} : q \in local'[u] <=> q \in local[u]
    BY <1>4 DEF Local, IInv, Types
  <2>2. UNCHANGED <<item, to, box>> /\ pc' = [pc EXCEPT ![t] = l]
    BY <1>4 DEF Local, postVars
  <2>3. /\ Types' /\ Control' /\ Boxed' /\ Told'
        /\ pc'[t] = l /\ \A u \in Threads : u # t => pc'[u] = pc[u]
    <3>1. /\ item' \in [Threads -> Words] /\ to' \in [Threads -> Scheds]
          /\ box' \in [Threads -> Bits] /\ pending' \in Int /\ calls' \subseteq Procs
      BY <2>2 DEF IInv, Types
    <3>2. item'[t] = Null /\ (\A u \in Threads : u # t => item'[u] = item[u] /\ to'[u] = to[u] /\ box'[u] = box[u])
      BY <1>2, <2>2
    <3>3. l \in {"user", "sched", "mail_swap", "wake_clear"} /\ l # "mail_swap" /\ t \notin Bscs
      BY <2>1, ThreadKinds
    <3> QED BY ZenonT(40), <1>1, <1>3, <1>4, <2>1, <2>2, <3>1, <3>2, <3>3, ProcStep
  <2>4. ~Posted(p)' /\ p \notin calls'
    BY <2>2 DEF Posted
  <2>5. PlacedAt(p)' /\ ~Mailed(p)'
    BY <1>1, <1>3, <2>1, <2>4, OnePlace DEF IInv
  <2>6. Placed' /\ \A q \in Procs \ {p} : q \in Runnable' <=> q \in Runnable
    <3>1. \A q \in Procs \ {p} :
             /\ \A u \in Scheds : /\ cur'[u] = q <=> cur[u] = q
                                  /\ q \in local'[u] <=> q \in local[u]
             /\ q \in calls' <=> q \in calls
             /\ \A v \in Threads : /\ item'[v] = q <=> item[v] = q
                                   /\ item'[v] = q /\ pc'[v] = "mail_swap" => pc[v] = "mail_swap"
      BY <1>1, <2>1, <2>2, <2>3
    <3> QED BY <1>3, <2>5, <3>1, PlacedMove DEF IInv
  <2>7. p \in Runnable'
    BY <2>1 DEF Runnable
  <2>8. Runnable \subseteq Procs /\ Runnable' \subseteq Procs
    BY DEF Runnable
  <2> QED BY <2>3, <2>6, <2>7, <2>8 DEF IInv
<1>5. ASSUME ByMail(t, p) PROVE IInv' /\ Runnable' = Runnable \cup {p}
  <2>1. PICK u \in Scheds, b \in Boxes : Post(t, p, u, b)
    BY <1>5 DEF ByMail
  <2>2. /\ item' = [item EXCEPT ![t] = p] /\ to' = [to EXCEPT ![t] = u]
        /\ box' = [box EXCEPT ![t] = b] /\ pc' = [pc EXCEPT ![t] = "mail_swap"]
        /\ UNCHANGED local
    BY <1>5, <2>1 DEF Post, Goto, ByMail
  <2>3. /\ item' \in [Threads -> Words] /\ to' \in [Threads -> Scheds] /\ box' \in [Threads -> Bits]
        /\ item'[t] = p /\ box'[t] = b
        /\ \A v \in Threads : v # t => item'[v] = item[v] /\ to'[v] = to[v] /\ box'[v] = box[v]
    BY <2>2 DEF IInv, Types, Words, Bits
  <2>4. /\ Types' /\ Control' /\ Boxed' /\ Told'
        /\ pc'[t] = "mail_swap" /\ \A v \in Threads : v # t => pc'[v] = pc[v]
    <3>1. pending' \in Int /\ calls' \subseteq Procs /\ local' \in [Scheds -> SUBSET Procs]
      BY <2>2 DEF IInv, Types
    <3> QED BY ZenonT(40), <1>1, <1>2, <1>3, <2>2, <2>3, <3>1, ProcStep
  <2>5. \A v \in Threads : item'[v] = p => v = t
    BY <2>3 DEF Posted
  <2>6. PlacedAt(p)' /\ ~Mailed(p)'
    BY <1>1, <1>3, <2>2, <2>5, OnePlace DEF IInv
  <2>7. Placed' /\ \A q \in Procs \ {p} : q \in Runnable' <=> q \in Runnable
    <3>1. \A q \in Procs \ {p}, v \in Threads :
             /\ item'[v] = q <=> item[v] = q
             /\ item'[v] = q /\ pc'[v] = "mail_swap" => pc[v] = "mail_swap"
      BY <1>2, <2>3, <2>4, MailAssumption DEF Null
    <3>2. \A q \in Procs \ {p} :
             /\ \A v \in Scheds : /\ cur'[v] = q <=> cur[v] = q
                                  /\ q \in local'[v] <=> q \in local[v]
             /\ q \in calls' <=> q \in calls
      BY <1>1, <2>2
    <3> QED BY <1>3, <2>6, <3>1, <3>2, PlacedMove DEF IInv
  <2>8. p \in Runnable'
    BY <2>3 DEF Runnable, Posted
  <2>9. Runnable \subseteq Procs /\ Runnable' \subseteq Procs
    BY DEF Runnable
  <2> QED BY <2>4, <2>7, <2>8, <2>9 DEF IInv
<1>6. p \notin Runnable
  BY DEF Runnable
<1>7. CASE /\ \A u \in Scheds : cur[u] # p
           /\ UNCHANGED cur /\ (Local(t, p, "user") \/ ByMail(t, p))
  <2>1. IInv' /\ Runnable' = Runnable \cup {p}
    <3>1. CASE ByMail(t, p)
      BY <1>5, <3>1
    <3>2. CASE Local(t, p, "user")
      <4>1. t \in Scheds /\ pc[t] = "user"
        BY <3>2, ThreadKinds DEF Local, IInv, Control, SchedAt, SchedLabels, MailLabels
      <4>2. cur'[t] # NotProcess
        BY <1>7, <4>1, RunningPlace
      <4> QED BY <1>4, <3>2, <4>2
    <3> QED BY <1>7, <3>1, <3>2
  <2>2. Abs!Enqueue(p)
    BY <1>6, <1>7, <2>1 DEF Abs!Enqueue, Abs!Idle
  <2> QED BY <2>1, <2>2 DEF Abs!Next
<1>8. CASE /\ t \in Scheds /\ cur[t] = p /\ cur' = [cur EXCEPT ![t] = NotProcess]
           /\ Local(t, p, "sched") \/ ByMail(t, p)
  <2>1. IInv' /\ Runnable' = Runnable \cup {p}
    <3>1. cur'[t] = NotProcess
      BY <1>8 DEF IInv, Types
    <3> QED BY <1>4, <1>5, <1>8, <3>1
  <2>2. Abs!Requeue(t)
    BY <1>2, <1>8, <2>1 DEF Abs!Requeue
  <2> QED BY <1>8, <2>1, <2>2 DEF Abs!Next
<1> QED BY <1>7, <1>8

(* The mail goes to a scheduler the process may run on. *)
LEMMA TargetsAreScheds ==
  ASSUME NEW a \in SUBSET Scheds
  PROVE  Targets(a) \subseteq Scheds
BY DEF Targets

(* The running process makes another one runnable. *)
LEMMA EnqueueProcessStep ==
  ASSUME IInv, NEW s \in Scheds, NEW p \in Procs, EnqueueProcess(s, p)
  PROVE  IInv' /\ Abs!Next
<1>1. /\ pc[s] = "user" /\ s \in Threads /\ s \notin Bscs
      /\ p \notin calls /\ ~Mailed(p) /\ ~Posted(p)
      /\ \A u \in Scheds : cur[u] # p /\ p \notin local[u]
      /\ UNCHANGED <<cur, affinity, mailVars, sleepVars, localVars, pending, calls>>
  BY ThreadKinds DEF EnqueueProcess, Asleep, callVars
<1>2. Local(s, p, "user") \/ ByMail(s, p)
  <2>1. CASE MayRun(s, affinity[p])
    <3>1. local' = [local EXCEPT ![s] = @ \cup {p}] /\ UNCHANGED <<pc, postVars>>
      BY <2>1 DEF EnqueueProcess
    <3>2. pc' = [pc EXCEPT ![s] = "user"]
      BY <1>1, <3>1 DEF IInv, Types
    <3> QED BY <3>1, <3>2 DEF Local
  <2>2. CASE ~MayRun(s, affinity[p])
    <3>1. PICK u \in Targets(affinity[p]) : Post(s, p, u, "pmail")
      BY <2>2 DEF EnqueueProcess
    <3>2. u \in Scheds /\ "pmail" \in Boxes
      BY TargetsAreScheds DEF IInv, Types, Boxes
    <3> QED BY <2>2, <3>1, <3>2 DEF EnqueueProcess, ByMail
  <2> QED BY <2>1, <2>2
<1>3. calls' = calls \ {p} /\ affinity' \in [Procs -> SUBSET Scheds]
  BY <1>1 DEF IInv, Types
<1> QED BY <1>1, <1>2, <1>3, EnqueueStep

(* The running process leaves with a new affinity. *)
LEMMA SetAffStep ==
  ASSUME IInv, NEW s \in Scheds, NEW a \in SUBSET Scheds, SetAff(s, a)
  PROVE  IInv' /\ Abs!Next
<1>1. /\ pc[s] = "user" /\ s \in Threads /\ s \notin Bscs
      /\ affinity' = [affinity EXCEPT ![cur[s]] = a]
      /\ cur' = [cur EXCEPT ![s] = NotProcess]
      /\ UNCHANGED <<mailVars, sleepVars, localVars, pending, calls>>
  BY ThreadKinds DEF SetAff, callVars
<1>2. PICK p \in Procs : p = cur[s]
  BY <1>1, RunningPlace
<1>3. /\ p \notin calls /\ ~Mailed(p) /\ ~Posted(p) /\ \A u \in Scheds : p \notin local[u]
  BY <1>1, <1>2, RunningPlace
<1>4. Local(s, p, "sched") \/ ByMail(s, p)
  <2>1. CASE MayRun(s, a)
    BY <1>2, <2>1 DEF SetAff, Local, Goto
  <2>2. CASE ~MayRun(s, a)
    <3>1. PICK u \in Targets(a) : Post(s, p, u, "pmail")
      BY <1>2, <2>2 DEF SetAff
    <3>2. u \in Scheds /\ "pmail" \in Boxes
      BY TargetsAreScheds DEF Boxes
    <3> QED BY <2>2, <3>1, <3>2 DEF SetAff, ByMail
  <2> QED BY <2>1, <2>2
<1>5. calls' = calls \ {p} /\ affinity' \in [Procs -> SUBSET Scheds]
  BY <1>1, <1>2, <1>3 DEF IInv, Types
<1> QED BY <1>1, <1>2, <1>3, <1>4, <1>5, EnqueueStep

(* A blocking call is over. *)
LEMMA BscCleanupJobStep ==
  ASSUME IInv, NEW b \in Bscs, NEW p \in Procs, BscCleanupJob(b, p)
  PROVE  IInv' /\ Abs!Next
<1>1. /\ pc[b] = "bsc" /\ b \in Threads /\ p \in calls /\ calls' = calls \ {p}
      /\ UNCHANGED <<cur, affinity, local, mailVars, sleepVars, localVars, pending>>
  BY ThreadKinds DEF BscCleanupJob, procVars
<1>2. PlacedAt(p)
  BY DEF IInv, Placed
<1>3. ~Mailed(p) /\ ~Posted(p) /\ \A u \in Scheds : cur[u] # p /\ p \notin local[u]
  BY <1>1, <1>2 DEF PlacedAt, Travels
<1>4. ByMail(b, p)
  <2>1. PICK u \in Targets(affinity[p]) : Post(b, p, u, "bmail")
    BY DEF BscCleanupJob
  <2>2. u \in Scheds /\ "bmail" \in Boxes
    BY TargetsAreScheds DEF IInv, Types, Boxes
  <2> QED BY <1>1, <2>1, <2>2 DEF ByMail
<1>5. affinity' \in [Procs -> SUBSET Scheds]
  BY <1>1 DEF IInv, Types
<1> QED BY <1>1, <1>3, <1>4, <1>5, EnqueueStep

(* A scheduler runs one of its processes, or one it takes from another. *)
LEMMA RunStep ==
  ASSUME IInv, NEW s \in Scheds, NEW u \in Scheds, NEW p \in Procs, pc[s] = "pick", p \in local[u],
         NEW l \in {"user", "wake_clear"}, pc' = [pc EXCEPT ![s] = l],
         cur' = [cur EXCEPT ![s] = p], local' = [local EXCEPT ![u] = @ \ {p}],
         to' \in [Threads -> Scheds], box' \in [Threads -> Bits],
         \A t \in Threads : t # s => to'[t] = to[t] /\ box'[t] = box[t],
         UNCHANGED <<affinity, mailVars, sleepVars, callVars, localVars, item, back>>
  PROVE  IInv' /\ Abs!Next
<1>1. s \in Threads /\ s \notin Bscs /\ cur[s] = NotProcess /\ item[s] = Null
  BY ThreadKinds DEF IInv, Control, SchedAt, SchedLabels, PostAt, Posting
<1>2. PlacedAt(p)
  BY DEF IInv, Placed
<1>3. /\ p \notin calls /\ ~Mailed(p) /\ ~Posted(p)
      /\ \A v \in Scheds : cur[v] # p /\ (p \in local[v] => v = u)
  BY <1>2 DEF PlacedAt, Travels
<1>4. /\ cur' \in [Scheds -> Words] /\ cur'[s] = p /\ (\A v \in Scheds : v # s => cur'[v] = cur[v])
      /\ local' \in [Scheds -> SUBSET Procs]
      /\ \A v \in Scheds : p \notin local'[v]
      /\ \A v \in Scheds, q \in Procs \ {p} : q \in local'[v] <=> q \in local[v]
  BY <1>3 DEF IInv, Types, Words
<1>5. UNCHANGED <<mailq, calls, pending>> /\ p # NotProcess
  BY MailAssumption DEF mailVars, callVars
<1>6. /\ Types' /\ Control' /\ Boxed' /\ Told'
      /\ pc'[s] = l /\ \A t \in Threads : t # s => pc'[t] = pc[t]
  <2>1. /\ affinity' \in [Procs -> SUBSET Scheds] /\ pending' \in Int /\ calls' \subseteq Procs
        /\ item' \in [Threads -> Words] /\ (\A t \in Threads : t # s => item'[t] = item[t])
        /\ item'[s] = Null
    BY <1>1, <1>5 DEF IInv, Types
  <2>2. l \in {"user", "sched", "mail_swap", "wake_clear"} /\ l # "mail_swap" /\ l # "sched"
    OBVIOUS
  <2> QED BY <1>1, <1>4, <1>5, <2>1, <2>2, ProcStep
<1>7. ~Posted(p)'
  BY <1>3 DEF Posted
<1>8. PlacedAt(p)' /\ ~Mailed(p)'
  <2>1. \A v \in Scheds : (cur'[v] = p => v = s) /\ p \notin local'[v]
    BY <1>3, <1>4
  <2> QED BY <1>3, <1>5, <1>7, <2>1, OnePlace DEF IInv
<1>9. Placed' /\ \A q \in Procs \ {p} : q \in Runnable' <=> q \in Runnable
  <2>1. \A q \in Procs \ {p} :
           /\ \A v \in Scheds : /\ cur'[v] = q <=> cur[v] = q
                                /\ q \in local'[v] <=> q \in local[v]
           /\ q \in calls' <=> q \in calls
           /\ \A t \in Threads : /\ item'[t] = q <=> item[t] = q
                                 /\ item'[t] = q /\ pc'[t] = "mail_swap" => pc[t] = "mail_swap"
    BY <1>1, <1>4, <1>5, <1>6, MailAssumption
  <2> QED BY <1>5, <1>8, <2>1, PlacedMove DEF IInv
<1>10. Runnable' = Runnable \ {p} /\ p \in Runnable
  <2>1. p \notin Runnable' /\ p \in Runnable
    BY <1>4, <1>7, <1>8 DEF Runnable
  <2>2. Runnable \subseteq Procs /\ Runnable' \subseteq Procs
    BY DEF Runnable
  <2> QED BY <1>9, <2>1, <2>2
<1>11. Abs!Dispatch(s, p)
  BY <1>1, <1>10 DEF Abs!Dispatch
<1> QED BY <1>6, <1>9, <1>11 DEF IInv, Abs!Next

(* A scheduler runs one of its own processes. *)
LEMMA DispatchStep ==
  ASSUME IInv, NEW s \in Scheds, NEW p \in Procs, Dispatch(s, p)
  PROVE  IInv' /\ Abs!Next
<1>1. /\ pc[s] = "pick" /\ p \in local[s]
      /\ cur' = [cur EXCEPT ![s] = p] /\ local' = [local EXCEPT ![s] = @ \ {p}]
      /\ UNCHANGED <<affinity, mailVars, sleepVars, callVars, localVars, item, back>>
  BY DEF Dispatch, Run, postVars
<1>2. to \in [Threads -> Scheds] /\ box \in [Threads -> Bits] /\ sleeping \subseteq Scheds
  BY DEF IInv, Types
<1>3. CASE Migratable(s) \ {p} # {} /\ sleeping # {}
  <2>1. PICK u \in sleeping : to' = [to EXCEPT ![s] = u]
    BY <1>3 DEF Dispatch
  <2>2. box' = [box EXCEPT ![s] = "work"] /\ pc' = [pc EXCEPT ![s] = "wake_clear"]
    BY <1>3 DEF Dispatch, Goto
  <2>3. /\ to' \in [Threads -> Scheds] /\ box' \in [Threads -> Bits]
        /\ \A t \in Threads : t # s => to'[t] = to[t] /\ box'[t] = box[t]
    BY <1>2, <2>1, <2>2 DEF Bits
  <2> QED BY <1>1, <2>2, <2>3, RunStep
<1>4. CASE ~(Migratable(s) \ {p} # {} /\ sleeping # {})
  <2>1. pc' = [pc EXCEPT ![s] = "user"] /\ UNCHANGED <<to, box>>
    BY <1>4 DEF Dispatch, Goto, postVars
  <2> QED BY <1>1, <1>2, <2>1, RunStep
<1> QED BY <1>3, <1>4

(* A scheduler runs a process it takes from another. *)
LEMMA MigrateStep ==
  ASSUME IInv, NEW s \in Scheds, NEW u \in Scheds, NEW p \in Procs, Migrate(s, u, p)
  PROVE  IInv' /\ Abs!Next
<1>1. /\ pc[s] = "pick" /\ p \in local[u]
      /\ cur' = [cur EXCEPT ![s] = p] /\ local' = [local EXCEPT ![u] = @ \ {p}]
      /\ pc' = [pc EXCEPT ![s] = "user"]
      /\ UNCHANGED <<affinity, mailVars, sleepVars, callVars, localVars, item, to, box, back>>
  BY DEF Migrate, Migratable, postVars, Goto
<1>2. to' \in [Threads -> Scheds] /\ box' \in [Threads -> Bits]
  BY <1>1 DEF IInv, Types
<1> QED BY <1>1, <1>2, RunStep

-----------------------------------------------------------------------------
(* The contents of the mail boxes. *)
LEMMA BoxFacts ==
  ASSUME IInv, NEW s \in Scheds, NEW b \in Boxes
  PROVE  /\ mailq[s][b] \in Seq(Procs) /\ Len(mailq[s][b]) \in Nat
         /\ Taken(s, b) \in {0, 1} /\ Unset(s, b) \in Words
         /\ ChainedAt(s, b, mailq[s][b], Taken(s, b)) /\ LinkedAt(s, b)
         /\ \A i \in 1..Len(mailq[s][b]) :
              mailq[s][b][i] \in Procs /\ mailq[s][b][i] # Null /\ Mailed(mailq[s][b][i])
<1>1. mailq[s][b] \in Seq(Procs)
  BY DEF IInv, Types
<1>2. Len(mailq[s][b]) \in Nat /\ \A i \in 1..Len(mailq[s][b]) : mailq[s][b][i] \in Procs
  BY <1>1
<1>3. Taken(s, b) \in {0, 1} /\ Unset(s, b) \in Words
  BY DEF Taken, Unset, IInv, Types, Words
<1>4. ChainedAt(s, b, mailq[s][b], Taken(s, b)) /\ LinkedAt(s, b)
  BY DEF IInv, Boxed, Chained, Linked
<1>5. \A i \in 1..Len(mailq[s][b]) : Mailed(mailq[s][b][i])
  BY MailedAt DEF IInv
<1> QED BY <1>1, <1>2, <1>3, <1>4, <1>5, MailAssumption DEF Null

(* A process is in one place of one box. *)
LEMMA BoxUnique ==
  ASSUME IInv, NEW s \in Scheds, NEW b \in Boxes, NEW i \in 1..Len(mailq[s][b]),
         NEW u \in Scheds, NEW c \in Boxes, NEW j \in 1..Len(mailq[u][c]),
         mailq[s][b][i] = mailq[u][c][j]
  PROVE  s = u /\ b = c /\ i = j
<1>1. mailq[s][b][i] \in Procs
  BY BoxFacts
<1>2. PICK p \in Procs : p = mailq[s][b][i] /\ p = mailq[u][c][j]
  BY <1>1
<1>3. PlacedAt(p)
  BY DEF IInv, Placed
<1> QED BY <1>2, <1>3 DEF PlacedAt

(* Where a half-done enqueue is. *)
LEMMA LinkerFacts ==
  ASSUME IInv, NEW t \in Threads, pc[t] = "mail_link"
  PROVE  \E s \in Scheds, b \in Boxes : \E i \in Places(s, b) :
           s = to[t] /\ b = box[t] /\ Linking(t, s, b, i) /\ Unlinked(s, b, i)
<1>1. /\ to[t] \in Scheds /\ box[t] \in Boxes /\ LinkerAt(t, to[t], box[t])
  BY DEF IInv, Types, Control, PostAt, Sending, Boxed, Linkers
<1> QED BY <1>1 DEF LinkerAt

(* The owner reads the front of a box. *)
LEMMA FrontStep ==
  ASSUME IInv, NEW s \in Scheds, Dequeue(s), fptr[s][Box(s)] # Null
  PROVE  IInv' /\ UNCHANGED <<cur, Runnable>>
<1>1. PICK f \in Words : f = fptr[s][Box(s)] /\ f # Null
  BY DEF IInv, Types, Box, Boxes
<1>2. /\ pc[s] = "drain" /\ got[s] \cap Boxes # {} /\ pc' = [pc EXCEPT ![s] = "deq_cas"]
      /\ ptr' = [ptr EXCEPT ![s] = f]
      /\ UNCHANGED <<cur, affinity, local, fptr, bptr, link, mailq, sync, sleeping, idle, pipe,
                     pending, calls, got, seen, item, to, box, back>>
  BY <1>1 DEF Dequeue, Goto, procVars, mailVars, sleepVars, callVars, postVars
<1>3. /\ s \in Threads /\ s \notin Bscs /\ "deq_cas" \in Labels /\ "deq_cas" \in SchedLabels
      /\ "deq_cas" \in TakeLabels /\ "deq_cas" \notin Posting /\ "deq_cas" \notin Sending
      /\ "drain" \notin Posting /\ "drain" \in SchedLabels /\ "deq_cas" \notin Drowsy
  BY ThreadKinds DEF Labels, SchedLabels, TakeLabels, Posting, Sending, Drowsy
<1>4. pc' \in [Threads -> Labels] /\ pc'[s] = "deq_cas" /\ \A u \in Threads : u # s => pc'[u] = pc[u]
  BY <1>2, <1>3, GotoPc DEF IInv
<1>5. /\ ptr' \in [Scheds -> Words] /\ ptr'[s] = f
      /\ \A u \in Scheds : u # s => ptr'[u] = ptr[u] /\ pc'[u] = pc[u]
  BY <1>2, <1>4, ThreadKinds DEF IInv, Types
<1>6. Types'
  BY <1>2, <1>4, <1>5 DEF IInv, Types
<1>7. Control'
  <2>1. SchedAt(s) /\ PostAt(s)
    BY <1>3 DEF IInv, Control
  <2>2. SchedAt(s)'
    BY <1>1, <1>2, <1>3, <1>4, <1>5, <2>1 DEF SchedAt
  <2>3. PostAt(s)'
    BY <1>2, <1>3, <1>4, <2>1 DEF PostAt
  <2> QED BY <1>2, <1>3, <1>4, <1>5, <2>2, <2>3, ControlStep DEF IInv
<1>8. Placed' /\ Runnable' = Runnable
  <2>1. \A t \in Threads : pc'[t] = "mail_swap" => pc[t] = "mail_swap"
    BY <1>4
  <2> QED BY <1>2, <2>1, PlacedKept DEF IInv
<1>9. Chained' /\ Linkers' /\ Linked'
  <2>1. \A t \in Threads : pc'[t] = "mail_link" <=> pc[t] = "mail_link"
    BY <1>2, <1>4
  <2>2. \A u \in Scheds, b \in Boxes :
          (Clearing(u, b)' <=> Clearing(u, b)) /\ (Clearing(u, b) => ptr'[u] = ptr[u])
    BY <1>2, <1>4, <1>5 DEF Clearing, Box
  <2> QED BY <1>2, <2>1, <2>2, ChainsKept DEF IInv, Boxed
<1>10. Taking'
  <2>1. TakingAt(s)'
    BY <1>1, <1>2, <1>4, <1>5 DEF TakingAt, Box
  <2>2. \A u \in Scheds : u # s => TakingAt(u)'
    BY <1>2, <1>5 DEF IInv, Boxed, Taking, TakingAt, Box
  <2> QED BY <2>1, <2>2 DEF Taking
<1>11. Told'
  <2>1. \A u \in Threads : pc[u] \in Coming => pc'[u] = pc[u]
    BY <1>2, <1>4 DEF Coming
  <2>2. \A u \in Scheds : pc'[u] \in Drowsy => pc'[u] = pc[u]
    BY <1>3, <1>4, <1>5
  <2>3. Awaited'
    BY <1>2, <2>1, <2>2, AwaitedKept DEF IInv, Told, Coming
  <2>4. Roused'
    <3>1. "read" \in Drowsy
      BY DEF Drowsy
    <3> QED BY <1>2, <2>1, <2>2, <3>1, RousedKept DEF IInv, Told, Coming
  <2>5. Noticed'
    BY <1>2, <2>1, NoticedKept DEF IInv, Told, Coming
  <2> QED BY <2>3, <2>4, <2>5 DEF Told
<1> QED BY <1>2, <1>6, <1>7, <1>8, <1>9, <1>10, <1>11 DEF IInv, Boxed

(* Words that the step of one sender leaves to the others. *)
LEMMA SenderControl ==
  ASSUME IInv, NEW t \in Threads, NEW l, pc[t] \in Posting, l \in {"mail_link", "mail_sync"},
         pc' = [pc EXCEPT ![t] = l], UNCHANGED <<cur, ptr, got, box>>,
         \A u \in Threads : u # t => item'[u] = item[u],
         item'[t] # Null <=> l = "mail_link"
  PROVE  /\ Control' /\ pc' \in [Threads -> Labels] /\ pc'[t] = l
         /\ \A u \in Threads : u # t => pc'[u] = pc[u]
<1>1. /\ l \in Labels /\ l \in MailLabels /\ l \notin SchedLabels /\ l \notin TakeLabels
      /\ l \in BscLabels /\ l \in Sending /\ (l \in Posting <=> l = "mail_link")
      /\ pc[t] \in Sending /\ pc[t] \notin TakeLabels \cup {"drain", "restore"}
  BY DEF Labels, SchedLabels, MailLabels, BscLabels, TakeLabels, Posting, Sending
<1>2. pc' \in [Threads -> Labels] /\ pc'[t] = l /\ \A u \in Threads : u # t => pc'[u] = pc[u]
  BY <1>1, GotoPc DEF IInv
<1>3. ASSUME t \in Scheds PROVE SchedAt(t)'
  <2>1. SchedAt(t)
    BY <1>3 DEF IInv, Control
  <2> QED BY <1>1, <1>2, <2>1 DEF SchedAt
<1>4. PostAt(t)'
  <2>1. PostAt(t)
    BY DEF IInv, Control
  <2> QED BY <1>1, <1>2, <2>1 DEF PostAt
<1> QED BY <1>1, <1>2, <1>3, <1>4, ControlStep DEF IInv

(* A step that does something to the mail box b of u only. *)
LEMMA OneBox ==
  ASSUME IInv, NEW u \in Scheds, NEW b \in Boxes, NEW p \in Procs,
         \A s \in Scheds, c \in Boxes : ~(s = u /\ c = b) =>
           /\ fptr'[s][c] = fptr[s][c] /\ bptr'[s][c] = bptr[s][c] /\ mailq'[s][c] = mailq[s][c]
           /\ Clearing(s, c)' <=> Clearing(s, c)
           /\ Clearing(s, c) => ptr'[s] = ptr[s]
           /\ \A i \in 1..Len(mailq[s][c]) : mailq[s][c][i] # p,
         \A r \in Procs : r # p => link'[r] = link[r],
         \A t \in Threads : ~(to[t] = u /\ box[t] = b) =>
           /\ pc'[t] = "mail_link" <=> pc[t] = "mail_link"
           /\ pc[t] = "mail_link" => /\ to'[t] = to[t] /\ box'[t] = box[t]
                                     /\ item'[t] = item[t] /\ back'[t] = back[t],
         \A t \in Threads : to[t] = u /\ box[t] = b /\ pc'[t] = "mail_link" =>
           to'[t] = u /\ box'[t] = b /\ LinkerAt(t, u, b)',
         ChainedAt(u, b, mailq[u][b], Taken(u, b))', LinkedAt(u, b)'
  PROVE  Chained' /\ Linkers' /\ Linked'
<1>1. ASSUME NEW s \in Scheds, NEW c \in Boxes, ~(s = u /\ c = b)
      PROVE  /\ ChainedAt(s, c, mailq[s][c], Taken(s, c))'
             /\ Places(s, c)' = Places(s, c) /\ Taken(s, c)' = Taken(s, c)
             /\ \A i \in Places(s, c) : Unlinked(s, c, i)' <=> Unlinked(s, c, i)
             /\ mailq'[s][c] = mailq[s][c]
  <2>1. \A i \in 1..Len(mailq[s][c]) : link'[mailq[s][c][i]] = link[mailq[s][c][i]]
    BY <1>1, BoxFacts
  <2>2. Types /\ ChainedAt(s, c, mailq[s][c], Taken(s, c))
    BY BoxFacts DEF IInv
  <2> QED BY <1>1, <2>1, <2>2, BoxKept
<1>2. ASSUME NEW t \in Threads, pc[t] = "mail_link", ~(to[t] = u /\ box[t] = b),
             NEW s \in Scheds, NEW c \in Boxes, ~(s = u /\ c = b), NEW i \in Places(s, c)
      PROVE  Linking(t, s, c, i) => Linking(t, s, c, i)'
  BY <1>1, <1>2 DEF Linking
<1>3. Chained'
  BY <1>1 DEF Chained
<1>4. ASSUME NEW t \in Threads, pc'[t] = "mail_link"
      PROVE  LinkerAt(t, to[t], box[t])'
  <2>1. CASE to[t] = u /\ box[t] = b
    <3>1. to'[t] = u /\ box'[t] = b /\ LinkerAt(t, u, b)'
      BY <1>4, <2>1
    <3> QED BY <3>1
  <2>2. CASE ~(to[t] = u /\ box[t] = b)
    <3>1. pc[t] = "mail_link" /\ to'[t] = to[t] /\ box'[t] = box[t]
      BY <1>4, <2>2
    <3>2. PICK s \in Scheds, c \in Boxes : \E i \in Places(s, c) :
            s = to[t] /\ c = box[t] /\ Linking(t, s, c, i) /\ Unlinked(s, c, i)
      BY <3>1, LinkerFacts
    <3>3. PICK i \in Places(s, c) :
            s = to[t] /\ c = box[t] /\ Linking(t, s, c, i) /\ Unlinked(s, c, i)
      BY <3>2
    <3>4. ~(s = u /\ c = b)
      BY <2>2, <3>3
    <3>5. Linking(t, s, c, i)' /\ Unlinked(s, c, i)' /\ i \in Places(s, c)'
      BY <1>1, <1>2, <2>2, <3>1, <3>3, <3>4
    <3>6. LinkerAt(t, s, c)'
      BY <3>5 DEF LinkerAt
    <3> QED BY <3>1, <3>3, <3>6
  <2> QED BY <2>1, <2>2
<1>5. ASSUME NEW s \in Scheds, NEW c \in Boxes
      PROVE  LinkedAt(s, c)'
  <2>1. CASE s = u /\ c = b
    BY <2>1
  <2>2. CASE ~(s = u /\ c = b)
    <3>1. ASSUME NEW i \in Places(s, c), Unlinked(s, c, i)
          PROVE  \E t \in Threads : Linking(t, s, c, i)'
      <4>1. LinkedAt(s, c)
        BY BoxFacts
      <4>2. PICK t \in Threads : Linking(t, s, c, i)
        BY <3>1, <4>1 DEF LinkedAt
      <4>3. pc[t] = "mail_link" /\ ~(to[t] = u /\ box[t] = b)
        BY <2>2, <4>2 DEF Linking
      <4> QED BY <1>2, <2>2, <4>2, <4>3
    <3> QED BY <1>1, <2>2, <3>1 DEF LinkedAt
  <2> QED BY <2>1, <2>2
<1> QED BY <1>3, <1>4, <1>5 DEF Linkers, Linked

(* The swap of bptr: the item is in the box, and unlinked. *)
LEMMA MailSwapStep ==
  ASSUME IInv, NEW t \in Threads, MailSwap(t)
  PROVE  IInv' /\ UNCHANGED <<cur, Runnable>>
<1>0. pc[t] = "mail_swap" /\ pc[t] \in Posting /\ pc[t] \in Sending
  BY DEF MailSwap, Posting, Sending
<1>1. PICK u \in Scheds, b \in Boxes, p \in Procs : u = to[t] /\ b = box[t] /\ p = item[t]
  BY <1>0 DEF IInv, Types, Control, PostAt, Words
<1>2. /\ pc' = [pc EXCEPT ![t] = "mail_link"] /\ link' = [link EXCEPT ![p] = Null]
      /\ back' = [back EXCEPT ![t] = bptr[u][b]] /\ bptr' = [bptr EXCEPT ![u][b] = p]
      /\ mailq' = [mailq EXCEPT ![u][b] = Append(@, p)]
      /\ UNCHANGED <<cur, affinity, local, fptr, sync, sleeping, idle, pipe, pending, calls,
                     got, seen, ptr, item, to, box>>
  BY <1>1 DEF MailSwap, Goto, procVars, sleepVars, callVars, localVars
<1>3. PlacedAt(p) /\ ~Mailed(p) /\ Posted(p) /\ p # Null
  BY <1>0, <1>1, MailAssumption DEF IInv, Placed, PlacedAt, Posted, Null
<1>4. /\ Control' /\ pc' \in [Threads -> Labels] /\ pc'[t] = "mail_link"
      /\ \A v \in Threads : v # t => pc'[v] = pc[v]
  <2>1. item'[t] # Null
    BY <1>1, <1>2, <1>3
  <2> QED BY <1>0, <1>2, <2>1, SenderControl
<1>5. PICK q \in Seq(Procs) : q = mailq[u][b]
  BY DEF IInv, Types
<1>6. /\ mailq' \in [Scheds -> [Boxes -> Seq(Procs)]] /\ mailq'[u][b] = Append(q, p)
      /\ \A s \in Scheds, c \in Boxes : <<s, c>> # <<u, b>> => mailq'[s][c] = mailq[s][c]
  BY <1>2, <1>5 DEF IInv, Types
<1>7. /\ Len(q) \in Nat /\ Len(mailq'[u][b]) = Len(q) + 1 /\ mailq'[u][b][Len(q) + 1] = p
      /\ \A i \in 1..Len(q) : mailq'[u][b][i] = q[i]
  BY <1>6
<1>8. /\ bptr' \in [Scheds -> [Boxes -> Words]] /\ bptr'[u][b] = p
      /\ \A s \in Scheds, c \in Boxes : <<s, c>> # <<u, b>> => bptr'[s][c] = bptr[s][c]
  BY <1>2 DEF IInv, Types, Words
<1>9. /\ link' \in [Procs -> Words] /\ link'[p] = Null
      /\ \A r \in Procs : r # p => link'[r] = link[r]
  BY <1>2 DEF IInv, Types, Words
<1>10. /\ back' \in [Threads -> Words] /\ back'[t] = bptr[u][b]
       /\ \A v \in Threads : v # t => back'[v] = back[v]
  BY <1>2 DEF IInv, Types
<1>11. Types'
  BY <1>2, <1>4, <1>6, <1>8, <1>9, <1>10 DEF IInv, Types
<1>12. Placed' /\ Runnable' = Runnable
  <2>1. \A r : Posted(r)' <=> Posted(r)
    BY <1>2 DEF Posted
  <2>2. ASSUME NEW s \in Scheds, NEW c \in Boxes, NEW i \in 1..Len(mailq'[s][c]),
               mailq'[s][c][i] # p
        PROVE  i \in 1..Len(mailq[s][c]) /\ mailq[s][c][i] = mailq'[s][c][i]
    <3>1. CASE s = u /\ c = b
      BY <1>5, <1>7, <2>2, <3>1
    <3>2. CASE ~(s = u /\ c = b)
      BY <1>6, <3>2
    <3> QED BY <3>1, <3>2
  <2>3. ASSUME NEW s \in Scheds, NEW c \in Boxes, NEW i \in 1..Len(mailq[s][c])
        PROVE  i \in 1..Len(mailq'[s][c]) /\ mailq'[s][c][i] = mailq[s][c][i]
    <3>1. CASE s = u /\ c = b
      BY <1>5, <1>7, <3>1
    <3>2. CASE ~(s = u /\ c = b)
      BY <1>6, <3>2
    <3> QED BY <3>1, <3>2
  <2>4. ASSUME NEW s \in Scheds, NEW c \in Boxes, NEW i \in 1..Len(mailq'[s][c]),
               mailq'[s][c][i] = p
        PROVE  s = u /\ c = b /\ i = Len(q) + 1
    <3>1. \A j \in 1..Len(mailq[s][c]) : mailq[s][c][j] # p
      BY <1>3, MailedAt DEF IInv
    <3>2. CASE s = u /\ c = b
      <4>1. i \in 1..(Len(q) + 1) /\ mailq'[u][b][i] = p
        BY <1>7, <2>4, <3>2
      <4>2. \A j \in 1..Len(q) : q[j] # p
        BY <1>5, <3>1, <3>2
      <4>3. i \notin 1..Len(q)
        BY <1>7, <4>1, <4>2
      <4> QED BY <1>7, <3>2, <4>1, <4>3
    <3>3. CASE ~(s = u /\ c = b)
      BY <1>6, <2>4, <3>1, <3>3
    <3> QED BY <3>2, <3>3
  <2>5. \A r : Mailed(r)' <=>
          \E s \in Scheds, c \in Boxes : \E i \in 1..Len(mailq'[s][c]) : mailq'[s][c][i] = r
    <3>1. \A s \in Scheds, c \in Boxes : DOMAIN mailq'[s][c] = 1..Len(mailq'[s][c])
      BY <1>11 DEF Types
    <3> QED BY <3>1 DEF Mailed
  <2>6. \A r \in Procs : r # p => (Mailed(r)' <=> Mailed(r))
    BY <2>2, <2>3, <2>5, MailedAt DEF IInv
  <2>7. PlacedAt(p)'
    <3>1. \A s \in Scheds : cur[s] # p /\ p \notin local[s]
      BY <1>3 DEF PlacedAt, Travels
    <3>2. p \notin calls
      BY <1>3 DEF PlacedAt, Travels
    <3>3. \A v, w \in Threads : item[v] = p /\ item[w] = p => v = w
      BY <1>3 DEF PlacedAt
    <3>4. \A v \in Threads : ~(pc'[v] = "mail_swap" /\ item[v] = p)
      BY <1>1, <1>4, <3>3
    <3> QED BY <1>2, <2>4, <3>1, <3>2, <3>3, <3>4 DEF PlacedAt
  <2>8. ASSUME NEW r \in Procs, r # p PROVE PlacedAt(r)'
    <3>1. PlacedAt(r)
      BY DEF IInv, Placed
    <3>2. Travels(r)' <=> Travels(r)
      BY <2>1, <2>6, <2>8 DEF Travels
    <3>3. ASSUME NEW s \in Scheds, NEW v \in Scheds, NEW c \in Boxes, NEW d \in Boxes,
                 NEW i \in 1..Len(mailq'[s][c]), NEW j \in 1..Len(mailq'[v][d]),
                 mailq'[s][c][i] = r, mailq'[v][d][j] = r
          PROVE  s = v /\ c = d /\ i = j
      <4>1. i \in 1..Len(mailq[s][c]) /\ mailq[s][c][i] = r
        BY <2>2, <2>8, <3>3
      <4>2. j \in 1..Len(mailq[v][d]) /\ mailq[v][d][j] = r
        BY <2>2, <2>8, <3>3
      <4> QED BY <4>1, <4>2, BoxUnique
    <3>4. \A v \in Threads : pc'[v] = "mail_swap" /\ item[v] = r => ~Mailed(r)'
      BY <1>4, <2>6, <2>8, <3>1 DEF PlacedAt
    <3> QED BY <1>2, <3>1, <3>2, <3>3, <3>4 DEF PlacedAt
  <2>9. \A r \in Procs : Travels(r)' <=> Travels(r)
    BY <1>3, <2>1, <2>6 DEF Travels
  <2> QED BY <1>2, <2>7, <2>8, <2>9 DEF Placed, Runnable, Travels
<1>13. Boxed'
  <2>0. PICK n \in {0, 1} : n = Taken(u, b)
    BY BoxFacts
  <2>1. \A s \in Scheds, c \in Boxes : Clearing(s, c)' <=> Clearing(s, c)
    <3>1. \A s \in Scheds : pc'[s] = "deq_clear" <=> pc[s] = "deq_clear"
      BY <1>0, <1>4, ThreadKinds
    <3> QED BY <1>2, <3>1 DEF Clearing, Box
  <2>2. Taken(u, b)' = n /\ Unset(u, b)' = Unset(u, b)
    BY <1>2, <2>0, <2>1 DEF Taken, Unset
  <2>3. /\ Len(q) >= n /\ (n = 1 => ptr[u] = q[1])
        /\ Len(q) = n => bptr[u][b] = Null
        /\ Len(q) > n => bptr[u][b] = q[Len(q)]
        /\ fptr[u][b] # Unset(u, b) => Len(q) > n /\ fptr[u][b] = q[n + 1]
        /\ \A i \in 1..Len(q) :
             link[q[i]] # Null => i > n /\ i < Len(q) /\ link[q[i]] = q[i + 1]
    BY <1>5, <2>0, BoxFacts DEF ChainedAt
  <2>4. \A i \in 1..Len(q) : q[i] \in Procs /\ q[i] # p /\ q[i] # Null
    <3>1. \A i \in 1..Len(q) : Mailed(q[i])
      BY <1>5, BoxFacts
    <3> QED BY <1>3, <3>1, MailAssumption DEF Null
  <2>5. ChainedAt(u, b, mailq[u][b], Taken(u, b))'
    <3>1. ASSUME NEW i \in 1..(Len(q) + 1), link'[mailq'[u][b][i]] # Null
          PROVE  i > n /\ i < Len(q) + 1 /\ link'[mailq'[u][b][i]] = mailq'[u][b][i + 1]
      <4>1. i \in 1..Len(q)
        BY <1>7, <1>9, <3>1
      <4>2. link'[q[i]] = link[q[i]] /\ mailq'[u][b][i] = q[i]
        BY <1>7, <1>9, <2>4, <4>1
      <4>3. i > n /\ i < Len(q) /\ link[q[i]] = q[i + 1]
        BY <2>3, <3>1, <4>1, <4>2
      <4>4. mailq'[u][b][i + 1] = q[i + 1]
        BY <1>7, <4>1, <4>3
      <4> QED BY <1>7, <4>1, <4>2, <4>3, <4>4
    <3>2. n = 1 => ptr'[u] = mailq'[u][b][1]
      BY <1>2, <1>7, <2>3
    <3>3. fptr'[u][b] # Unset(u, b)' => Len(mailq'[u][b]) > n /\ fptr'[u][b] = mailq'[u][b][n + 1]
      BY <1>2, <1>7, <2>2, <2>3
    <3>4. bptr'[u][b] = mailq'[u][b][Len(mailq'[u][b])] /\ Len(mailq'[u][b]) > n
      BY <1>7, <1>8, <2>3
    <3> QED BY <1>7, <2>2, <3>1, <3>2, <3>3, <3>4 DEF ChainedAt
  <2>6. /\ \A i \in (n + 1)..(Len(q) + 1) : i \in Places(u, b)'
        /\ \A i \in Places(u, b)' : i \in (n + 1)..(Len(q) + 1)
        /\ \A i \in (n + 1)..Len(q) : i \in Places(u, b)
        /\ \A i \in Places(u, b) : i \in (n + 1)..Len(q)
    BY <1>5, <1>7, <2>0, <2>2 DEF Places
  <2>7. ASSUME NEW i \in (n + 1)..Len(q)
        PROVE  Unlinked(u, b, i)' <=> Unlinked(u, b, i)
    <3>1. CASE i = n + 1
      BY <1>2, <2>0, <2>2, <3>1 DEF Unlinked
    <3>2. CASE i # n + 1
      <4>1. i - 1 \in 1..Len(q)
        BY <1>7, <3>2
      <4>2. mailq'[u][b][i - 1] = q[i - 1] /\ link'[q[i - 1]] = link[q[i - 1]]
        BY <1>7, <1>9, <2>4, <4>1
      <4> QED BY <1>5, <2>0, <2>2, <3>2, <4>2 DEF Unlinked
    <3> QED BY <3>1, <3>2
  <2>8. ASSUME NEW v \in Threads, v # t, NEW i \in (n + 1)..Len(q)
        PROVE  Linking(v, u, b, i) => Linking(v, u, b, i)'
    <3>1. mailq'[u][b][i] = q[i] /\ (i # n + 1 => mailq'[u][b][i - 1] = q[i - 1])
      BY <1>7
    <3>2. pc'[v] = pc[v] /\ back'[v] = back[v]
      BY <1>4, <1>10, <2>8
    <3> QED BY <1>2, <1>5, <2>0, <2>2, <3>1, <3>2 DEF Linking
  <2>9. Unlinked(u, b, Len(q) + 1)' /\ Linking(t, u, b, Len(q) + 1)'
    <3>1. CASE Len(q) = n
      <4>1. fptr[u][b] = Unset(u, b) /\ back'[t] = Null
        BY <1>7, <1>10, <2>3, <3>1
      <4> QED BY <1>1, <1>2, <1>4, <1>7, <2>2, <3>1, <4>1 DEF Unlinked, Linking
    <3>2. CASE Len(q) # n
      <4>1. Len(q) > n /\ Len(q) \in 1..Len(q) /\ Len(q) + 1 # n + 1
        BY <1>7, <2>3, <3>2
      <4>2. back'[t] = q[Len(q)] /\ link[q[Len(q)]] = Null
        BY <1>7, <1>10, <2>3, <4>1
      <4>3. mailq'[u][b][Len(q) + 1 - 1] = q[Len(q)] /\ link'[q[Len(q)]] = Null
        BY <1>7, <1>9, <4>1, <4>2
      <4> QED BY <1>1, <1>2, <1>4, <1>7, <2>2, <4>1, <4>2, <4>3 DEF Unlinked, Linking
    <3> QED BY <3>1, <3>2
  <2>10. LinkedAt(u, b)'
    <3> SUFFICES ASSUME NEW i \in Places(u, b)', Unlinked(u, b, i)'
                 PROVE  \E v \in Threads : Linking(v, u, b, i)'
      BY DEF LinkedAt
    <3>1. CASE i = Len(q) + 1
      BY <2>9, <3>1
    <3>2. CASE i # Len(q) + 1
      <4>1. i \in (n + 1)..Len(q) /\ i \in Places(u, b)
        BY <1>7, <2>6, <3>2
      <4>2. LinkedAt(u, b) /\ Unlinked(u, b, i)
        BY <2>7, <4>1, BoxFacts
      <4>3. PICK v \in Threads : Linking(v, u, b, i)
        BY <4>1, <4>2 DEF LinkedAt
      <4>4. v # t
        BY <1>0, <4>3 DEF Linking
      <4> QED BY <2>8, <4>1, <4>3, <4>4
    <3> QED BY <3>1, <3>2
  <2>11. ASSUME NEW v \in Threads, to[v] = u, box[v] = b, pc'[v] = "mail_link"
         PROVE  to'[v] = u /\ box'[v] = b /\ LinkerAt(v, u, b)'
    <3>1. CASE v = t
      <4>1. Len(q) + 1 \in (n + 1)..(Len(q) + 1)
        BY <1>7, <2>3
      <4> QED BY <1>2, <2>6, <2>9, <2>11, <3>1, <4>1 DEF LinkerAt
    <3>2. CASE v # t
      <4>1. pc[v] = "mail_link"
        BY <1>4, <2>11, <3>2
      <4>2. PICK i \in Places(u, b) : Linking(v, u, b, i) /\ Unlinked(u, b, i)
        BY <2>11, <4>1, LinkerFacts
      <4>3. i \in (n + 1)..Len(q) /\ i \in Places(u, b)'
        BY <1>7, <2>6, <4>2
      <4>4. Linking(v, u, b, i)' /\ Unlinked(u, b, i)'
        BY <2>7, <2>8, <3>2, <4>2, <4>3
      <4> QED BY <1>2, <2>11, <4>3, <4>4 DEF LinkerAt
    <3> QED BY <3>1, <3>2
  <2>12. Chained' /\ Linkers' /\ Linked'
    <3>1. ASSUME NEW s \in Scheds, NEW c \in Boxes, ~(s = u /\ c = b)
          PROVE  /\ fptr'[s][c] = fptr[s][c] /\ bptr'[s][c] = bptr[s][c]
                 /\ mailq'[s][c] = mailq[s][c]
                 /\ Clearing(s, c)' <=> Clearing(s, c)
                 /\ Clearing(s, c) => ptr'[s] = ptr[s]
                 /\ \A i \in 1..Len(mailq[s][c]) : mailq[s][c][i] # p
      <4>1. \A i \in 1..Len(mailq[s][c]) : mailq[s][c][i] # p
        BY <1>3, MailedAt DEF IInv
      <4>2. fptr'[s][c] = fptr[s][c] /\ bptr'[s][c] = bptr[s][c] /\ mailq'[s][c] = mailq[s][c]
        BY <1>2, <1>6, <1>8, <3>1
      <4> QED BY <1>2, <2>1, <4>1, <4>2
    <3>2. ASSUME NEW v \in Threads, ~(to[v] = u /\ box[v] = b)
          PROVE  /\ pc'[v] = "mail_link" <=> pc[v] = "mail_link"
                 /\ pc[v] = "mail_link" => /\ to'[v] = to[v] /\ box'[v] = box[v]
                                           /\ item'[v] = item[v] /\ back'[v] = back[v]
      <4>1. v # t
        BY <1>1, <3>2
      <4> QED BY <1>2, <1>4, <1>10, <4>1
    <3> QED BY <1>9, <2>5, <2>10, <2>11, <3>1, <3>2, OneBox
  <2>13. Taking'
    <3>1. ASSUME NEW s \in Scheds PROVE TakingAt(s)'
      <4>1. pc'[s] \in {"deq_cas", "deq_link"} => pc'[s] = pc[s]
        BY <1>4, ThreadKinds
      <4>2. Box(s)' = Box(s) /\ Box(s) \in Boxes
        BY <1>2 DEF Box, Boxes
      <4>3. TakingAt(s) /\ Len(mailq[s][Box(s)]) \in Nat
        BY <4>2, BoxFacts DEF IInv, Boxed, Taking
      <4>4. Len(mailq'[s][Box(s)]) = Len(mailq[s][Box(s)]) \/
              Len(mailq'[s][Box(s)]) = Len(mailq[s][Box(s)]) + 1
        BY <1>5, <1>6, <1>7, <4>2
      <4>5. Len(mailq[s][Box(s)]) > 1 => Len(mailq'[s][Box(s)]) > 1
        BY <4>3, <4>4
      <4> QED BY <1>2, <4>1, <4>2, <4>3, <4>5 DEF TakingAt
    <3> QED BY <3>1 DEF Taking
  <2> QED BY <2>12, <2>13 DEF Boxed
<1>14. Told'
  <2>1. \A v \in Threads : pc[v] \in Coming => pc'[v] = pc[v]
    BY <1>0, <1>4 DEF Coming
  <2>2. "mail_link" \notin Drowsy /\ "read" \in Drowsy
    BY DEF Drowsy
  <2>3. \A s \in Scheds : pc'[s] \in Drowsy => pc'[s] = pc[s]
    BY <1>4, <2>2, ThreadKinds
  <2>4. Awaited'
    BY <1>2, <2>1, <2>3, AwaitedKept DEF IInv, Told, Coming
  <2>5. Roused'
    BY <1>2, <2>1, <2>2, <2>3, RousedKept DEF IInv, Told, Coming
  <2>6. Noticed'
    BY <1>2, <2>1, NoticedKept DEF IInv, Told, Coming
  <2> QED BY <2>4, <2>5, <2>6 DEF Told
<1> QED BY <1>2, <1>4, <1>11, <1>12, <1>13, <1>14 DEF IInv

(* The item is connected: the box has one unlinked place less. *)
LEMMA MailLinkStep ==
  ASSUME IInv, NEW t \in Threads, MailLink(t)
  PROVE  IInv' /\ UNCHANGED <<cur, Runnable>>
<1>0. pc[t] = "mail_link" /\ pc[t] \in Posting
  BY DEF MailLink, Posting
<1>1. PICK u \in Scheds, b \in Boxes : \E i \in Places(u, b) :
        u = to[t] /\ b = box[t] /\ Linking(t, u, b, i) /\ Unlinked(u, b, i)
  BY <1>0, LinkerFacts
<1>2. PICK i \in Places(u, b) :
        u = to[t] /\ b = box[t] /\ Linking(t, u, b, i) /\ Unlinked(u, b, i)
  BY <1>1
<1>3. PICK q \in Seq(Procs), n \in {0, 1} : q = mailq[u][b] /\ n = Taken(u, b)
  BY BoxFacts
<1>4. /\ Len(q) \in Nat /\ Len(q) >= n /\ (n = 1 => ptr[u] = q[1])
      /\ Len(q) = n => bptr[u][b] = Null
      /\ Len(q) > n => bptr[u][b] = q[Len(q)]
      /\ fptr[u][b] # Unset(u, b) => Len(q) > n /\ fptr[u][b] = q[n + 1]
      /\ \A j \in 1..Len(q) :
           link[q[j]] # Null => j > n /\ j < Len(q) /\ link[q[j]] = q[j + 1]
  BY <1>3, BoxFacts DEF ChainedAt
<1>5. \A j, k \in 1..Len(q) : q[j] \in Procs /\ q[j] # Null /\ (q[j] = q[k] => j = k)
  BY <1>3, BoxFacts, BoxUnique
<1>6. i \in (n + 1)..Len(q) /\ i \in 1..Len(q) /\ item[t] = q[i]
  BY <1>2, <1>3, <1>4 DEF Places, Linking
<1>7. PICK k \in 1..Len(q) : k = IF i = n + 1 THEN i ELSE i - 1
  <2>1. i = n + 1 \/ i - 1 \in 1..Len(q)
    BY <1>4, <1>6
  <2> QED BY <1>6, <2>1
<1>8. back[t] = IF i = n + 1 THEN Null ELSE q[k]
  BY <1>2, <1>3, <1>7 DEF Linking
<1>9. /\ pc' = [pc EXCEPT ![t] = "mail_sync"]
      /\ item' = [item EXCEPT ![t] = Null] /\ back' = [back EXCEPT ![t] = Null]
      /\ UNCHANGED <<cur, affinity, local, bptr, mailq, sync, sleeping, idle, pipe, pending,
                     calls, got, seen, ptr, to, box>>
  BY DEF MailLink, Goto, procVars, sleepVars, callVars, localVars
<1>10. /\ fptr' \in [Scheds -> [Boxes -> Words]]
       /\ fptr'[u][b] = IF i = n + 1 THEN q[i] ELSE fptr[u][b]
       /\ \A s \in Scheds, c \in Boxes : ~(s = u /\ c = b) => fptr'[s][c] = fptr[s][c]
  <2>1. fptr \in [Scheds -> [Boxes -> Words]] /\ q[i] \in Words
    BY <1>5, <1>6 DEF IInv, Types, Words
  <2>2. CASE i = n + 1
    <3>1. fptr' = [fptr EXCEPT ![u][b] = q[i]]
      BY <1>2, <1>6, <1>8, <2>2 DEF MailLink
    <3> QED BY <2>1, <2>2, <3>1
  <2>3. CASE i # n + 1
    <3>1. fptr' = fptr
      BY <1>5, <1>8, <2>3 DEF MailLink
    <3> QED BY <2>1, <2>3, <3>1
  <2> QED BY <2>2, <2>3
<1>11. /\ link' \in [Procs -> Words]
       /\ link'[q[k]] = IF i = n + 1 THEN link[q[k]] ELSE q[i]
       /\ \A r \in Procs : r # q[k] => link'[r] = link[r]
  <2>1. link \in [Procs -> Words] /\ q[i] \in Words /\ q[k] \in Procs
    BY <1>5, <1>6 DEF IInv, Types, Words
  <2>2. CASE i = n + 1
    <3>1. link' = link
      BY <1>8, <2>2 DEF MailLink
    <3> QED BY <2>1, <2>2, <3>1
  <2>3. CASE i # n + 1
    <3>1. link' = [link EXCEPT ![q[k]] = q[i]]
      BY <1>5, <1>6, <1>8, <2>3 DEF MailLink
    <3> QED BY <2>1, <2>3, <3>1
  <2> QED BY <2>2, <2>3
<1>12. /\ item' \in [Threads -> Words] /\ back' \in [Threads -> Words] /\ item'[t] = Null
       /\ \A v \in Threads : v # t => item'[v] = item[v] /\ back'[v] = back[v]
  BY <1>9 DEF IInv, Types, Words
<1>13. /\ Control' /\ pc' \in [Threads -> Labels] /\ pc'[t] = "mail_sync"
       /\ \A v \in Threads : v # t => pc'[v] = pc[v]
  BY <1>0, <1>9, <1>12, SenderControl
<1>14. Types'
  BY <1>9, <1>10, <1>11, <1>12, <1>13 DEF IInv, Types
<1>15. Placed' /\ Runnable' = Runnable
  <2>1. \A r : Mailed(r)' <=> Mailed(r)
    BY <1>9 DEF Mailed
  <2>2. \A r \in Procs, v \in Threads : item'[v] = r => v # t /\ item[v] = r
    BY <1>12, MailAssumption DEF Null
  <2>3. \A r \in Procs : r # q[i] => (Posted(r)' <=> Posted(r))
    BY <1>6, <1>12, <2>2 DEF Posted
  <2>4. Mailed(q[i]) /\ Posted(q[i])
    BY <1>3, <1>6, BoxFacts DEF Posted
  <2>5. \A r \in Procs : Travels(r)' <=> Travels(r)
    BY <2>1, <2>3, <2>4 DEF Travels
  <2>6. ASSUME NEW r \in Procs PROVE PlacedAt(r)'
    <3>1. PlacedAt(r)
      BY DEF IInv, Placed
    <3>2. \A v \in Threads : pc'[v] = "mail_swap" /\ item'[v] = r => ~Mailed(r)'
      BY <1>13, <2>1, <2>2, <3>1 DEF PlacedAt
    <3>3. \A v, w \in Threads : item'[v] = r /\ item'[w] = r => v = w
      BY <2>2, <3>1 DEF PlacedAt
    <3> QED BY <1>9, <2>5, <3>1, <3>2, <3>3 DEF PlacedAt
  <2> QED BY <1>9, <2>5, <2>6 DEF Placed, Runnable, Travels
<1>16. Boxed'
  <2>1. \A s \in Scheds, c \in Boxes : Clearing(s, c)' <=> Clearing(s, c)
    <3>1. \A s \in Scheds : pc'[s] = "deq_clear" <=> pc[s] = "deq_clear"
      BY <1>0, <1>13, ThreadKinds
    <3> QED BY <1>9, <3>1 DEF Clearing, Box
  <2>2. Taken(u, b)' = n /\ Unset(u, b)' = Unset(u, b) /\ mailq'[u][b] = q
    BY <1>3, <1>9, <2>1 DEF Taken, Unset
  <2>3. Unset(u, b) # q[i]
    <3>1. CASE Clearing(u, b)
      <4>1. n = 1 /\ Unset(u, b) = q[1] /\ 1 \in 1..Len(q) /\ i # 1
        BY <1>3, <1>4, <1>6, <3>1 DEF Taken, Unset
      <4> QED BY <1>5, <1>6, <4>1
    <3>2. CASE ~Clearing(u, b)
      BY <1>5, <1>6, <3>2 DEF Unset
    <3> QED BY <3>1, <3>2
  <2>4. ChainedAt(u, b, mailq[u][b], Taken(u, b))'
    <3>1. ASSUME NEW j \in 1..Len(q), link'[q[j]] # Null
          PROVE  j > n /\ j < Len(q) /\ link'[q[j]] = q[j + 1]
      <4>1. CASE j = k /\ i # n + 1
        BY <1>4, <1>6, <1>7, <1>11, <4>1
      <4>2. CASE ~(j = k /\ i # n + 1)
        <5>1. link'[q[j]] = link[q[j]]
          BY <1>5, <1>11, <4>2
        <5> QED BY <1>4, <3>1, <5>1
      <4> QED BY <4>1, <4>2
    <3>2. fptr'[u][b] # Unset(u, b) => Len(q) > n /\ fptr'[u][b] = q[n + 1]
      BY <1>4, <1>6, <1>10
    <3> QED BY <1>4, <1>9, <2>2, <3>1, <3>2 DEF ChainedAt
  <2>5. /\ \A j \in (n + 1)..Len(q) : j \in Places(u, b)' /\ j \in Places(u, b)
        /\ \A j \in Places(u, b)' : j \in (n + 1)..Len(q)
        /\ \A j \in Places(u, b) : j \in (n + 1)..Len(q)
    BY <1>3, <2>2 DEF Places
  <2>6. ASSUME NEW j \in (n + 1)..Len(q)
        PROVE  Unlinked(u, b, j)' <=> Unlinked(u, b, j) /\ j # i
    <3>1. CASE j = n + 1
      <4>1. Unlinked(u, b, j) <=> fptr[u][b] = Unset(u, b)
        BY <1>3, <3>1 DEF Unlinked
      <4>2. Unlinked(u, b, j)' <=> fptr'[u][b] = Unset(u, b)
        BY <2>2, <3>1 DEF Unlinked
      <4> QED BY <1>10, <2>3, <3>1, <4>1, <4>2
    <3>2. CASE j # n + 1
      <4>1. j - 1 \in 1..Len(q) /\ (j - 1 = k => i = n + 1 \/ i = j)
        BY <1>4, <1>6, <1>7, <3>2
      <4>2. Unlinked(u, b, j) <=> link[q[j - 1]] = Null
        BY <1>3, <3>2 DEF Unlinked
      <4>3. Unlinked(u, b, j)' <=> link'[q[j - 1]] = Null
        BY <2>2, <3>2 DEF Unlinked
      <4>4. CASE j = i
        <5>1. link'[q[j - 1]] = q[i] /\ q[i] # Null
          BY <1>5, <1>6, <1>7, <1>11, <3>2, <4>4
        <5> QED BY <4>3, <4>4, <5>1
      <4>5. CASE j # i
        <5>1. link'[q[j - 1]] = link[q[j - 1]]
          BY <1>5, <1>11, <4>1, <4>5
        <5> QED BY <4>2, <4>3, <4>5, <5>1
      <4> QED BY <4>4, <4>5
    <3> QED BY <3>1, <3>2
  <2>7. ASSUME NEW v \in Threads, v # t, NEW j \in (n + 1)..Len(q)
        PROVE  Linking(v, u, b, j) => Linking(v, u, b, j)'
    <3>1. pc'[v] = pc[v] /\ back'[v] = back[v] /\ item'[v] = item[v]
      BY <1>12, <1>13, <2>7
    <3> QED BY <1>3, <1>9, <2>2, <3>1 DEF Linking
  <2>8. LinkedAt(u, b)'
    <3> SUFFICES ASSUME NEW j \in Places(u, b)', Unlinked(u, b, j)'
                 PROVE  \E v \in Threads : Linking(v, u, b, j)'
      BY DEF LinkedAt
    <3>1. j \in (n + 1)..Len(q) /\ j \in Places(u, b) /\ j \in 1..Len(q)
      BY <1>4, <2>5
    <3>2. LinkedAt(u, b) /\ Unlinked(u, b, j) /\ j # i
      BY <2>6, <3>1, BoxFacts
    <3>3. PICK v \in Threads : Linking(v, u, b, j)
      BY <3>1, <3>2 DEF LinkedAt
    <3>4. item[v] = q[j] /\ q[j] # q[i]
      BY <1>3, <1>5, <1>6, <3>1, <3>2, <3>3 DEF Linking
    <3>5. v # t
      BY <1>6, <3>4
    <3> QED BY <2>7, <3>1, <3>3, <3>5
  <2>9. ASSUME NEW v \in Threads, to[v] = u, box[v] = b, pc'[v] = "mail_link"
        PROVE  to'[v] = u /\ box'[v] = b /\ LinkerAt(v, u, b)'
    <3>1. v # t /\ pc[v] = "mail_link"
      BY <1>13, <2>9
    <3>2. PICK j \in Places(u, b) : Linking(v, u, b, j) /\ Unlinked(u, b, j)
      BY <2>9, <3>1, LinkerFacts
    <3>3. j \in (n + 1)..Len(q) /\ item[v] = q[j]
      BY <1>3, <2>5, <3>2 DEF Linking
    <3>4. j # i
      <4>1. PlacedAt(q[i])
        BY <1>5, <1>6 DEF IInv, Placed
      <4>2. \A w, x \in Threads : item[w] = q[i] /\ item[x] = q[i] => w = x
        BY <4>1 DEF PlacedAt
      <4> QED BY <1>6, <3>1, <3>3, <4>2
    <3>5. Linking(v, u, b, j)' /\ Unlinked(u, b, j)' /\ j \in Places(u, b)'
      BY <2>5, <2>6, <2>7, <3>1, <3>2, <3>3, <3>4
    <3> QED BY <1>9, <2>9, <3>5 DEF LinkerAt
  <2>10. Chained' /\ Linkers' /\ Linked'
    <3>1. ASSUME NEW s \in Scheds, NEW c \in Boxes, ~(s = u /\ c = b)
          PROVE  /\ fptr'[s][c] = fptr[s][c] /\ bptr'[s][c] = bptr[s][c]
                 /\ mailq'[s][c] = mailq[s][c]
                 /\ Clearing(s, c)' <=> Clearing(s, c)
                 /\ Clearing(s, c) => ptr'[s] = ptr[s]
                 /\ \A j \in 1..Len(mailq[s][c]) : mailq[s][c][j] # q[k]
      <4>1. \A j \in 1..Len(mailq[s][c]) : mailq[s][c][j] # q[k]
        BY <1>3, <3>1, BoxUnique
      <4> QED BY <1>9, <1>10, <2>1, <3>1, <4>1
    <3>2. ASSUME NEW v \in Threads, ~(to[v] = u /\ box[v] = b)
          PROVE  /\ pc'[v] = "mail_link" <=> pc[v] = "mail_link"
                 /\ pc[v] = "mail_link" => /\ to'[v] = to[v] /\ box'[v] = box[v]
                                           /\ item'[v] = item[v] /\ back'[v] = back[v]
      <4>1. v # t
        BY <1>2, <3>2
      <4> QED BY <1>9, <1>12, <1>13, <4>1
    <3>3. PICK r \in Procs : r = q[k]
      BY <1>5
    <3> QED BY <1>11, <2>4, <2>8, <2>9, <3>1, <3>2, <3>3, OneBox
  <2>11. Taking'
    <3>1. ASSUME NEW s \in Scheds PROVE TakingAt(s)'
      <4>1. pc'[s] \in {"deq_cas", "deq_link"} => pc'[s] = pc[s]
        BY <1>13, ThreadKinds
      <4>2. Box(s)' = Box(s) /\ Box(s) \in Boxes /\ TakingAt(s) /\ SchedAt(s)
        BY <1>9 DEF Box, Boxes, IInv, Boxed, Taking, Control
      <4>3. ASSUME pc[s] \in {"deq_cas", "deq_link"}
            PROVE  fptr'[s][Box(s)] = fptr[s][Box(s)]
        <5>1. CASE ~(s = u /\ Box(s) = b)
          BY <1>10, <4>2, <5>1
        <5>2. CASE s = u /\ Box(s) = b
          <6>1. fptr[u][b] # Null
            BY <4>2, <4>3, <5>2 DEF TakingAt, SchedAt, TakeLabels
          <6>2. ~Clearing(u, b)
            BY <4>3, <5>2 DEF Clearing
          <6>3. n = 0 /\ Unset(u, b) = Null
            BY <1>3, <6>2 DEF Taken, Unset
          <6>4. i # n + 1
            BY <1>2, <1>3, <6>1, <6>3 DEF Unlinked
          <6> QED BY <1>10, <5>2, <6>4
        <5> QED BY <5>1, <5>2
      <4> QED BY <1>9, <4>1, <4>2, <4>3 DEF TakingAt
    <3> QED BY <3>1 DEF Taking
  <2> QED BY <2>10, <2>11 DEF Boxed
<1>17. Told'
  <2>1. "mail_sync" \notin Drowsy /\ "read" \in Drowsy
    BY DEF Drowsy
  <2>2. \A s \in Scheds : pc'[s] \in Drowsy => pc'[s] = pc[s]
    BY <1>13, <2>1, ThreadKinds
  <2>3. \A v \in Threads : pc[v] \in {"mail_look", "wake_clear", "wake_sync", "wake_write"} =>
          pc'[v] = pc[v]
    BY <1>0, <1>13
  <2>4. Awaited'
    BY <1>9, <2>2, <2>3, AwaitedKept DEF IInv, Told
  <2>5. Roused'
    BY <1>9, <2>1, <2>2, <2>3, RousedKept DEF IInv, Told
  <2>6. Noticed'
    <3>1. ASSUME NEW v \in Threads, NEW s \in Scheds, Waking(v, s, {"mail_link", "mail_sync"})
          PROVE  Waking(v, s, {"mail_link", "mail_sync"})' /\ box'[v] = box[v]
      BY <1>9, <1>13, <3>1 DEF Waking
    <3>2. Waking(t, u, {"mail_link", "mail_sync"})' /\ box'[t] = b
      BY <1>2, <1>9, <1>13 DEF Waking
    <3>3. ASSUME NEW s \in Scheds, NEW c \in Boxes, fptr'[s][c] # Null, ~(s = u /\ c = b)
          PROVE  \/ c \in sync'[s] \cup got'[s]
                 \/ \E v \in Threads : Waking(v, s, {"mail_link", "mail_sync"})' /\ box'[v] = c
      <4>1. \/ c \in sync[s] \cup got[s]
            \/ \E v \in Threads : Waking(v, s, {"mail_link", "mail_sync"}) /\ box[v] = c
        BY <1>10, <3>3 DEF IInv, Told, Noticed
      <4> QED BY <1>9, <3>1, <4>1
    <3> QED BY <3>2, <3>3 DEF Noticed
  <2> QED BY <2>4, <2>5, <2>6 DEF Told
<1> QED BY <1>9, <1>13, <1>14, <1>15, <1>16, <1>17 DEF IInv

(* A step of a scheduler that takes mail: it alone moves, and nobody who   *)
(* is on the way to wake a scheduler.                                      *)
LEMMA OwnerStep ==
  ASSUME IInv, NEW s \in Scheds, pc[s] \in TakeLabels,
         NEW l, l \in TakeLabels \cup {"drain"}, pc' = [pc EXCEPT ![s] = l],
         UNCHANGED <<cur, item, to, box, back, sync, sleeping, pipe>>,
         \A u \in Scheds : u # s => ptr'[u] = ptr[u] /\ got'[u] = got[u],
         ptr'[s] # Null <=> l \in TakeLabels,
         l \in TakeLabels => got'[s] = got[s]
  PROVE  /\ Control' /\ Awaited' /\ Roused' /\ pc' \in [Threads -> Labels] /\ pc'[s] = l
         /\ \A u \in Threads : u # s => pc'[u] = pc[u]
         /\ \A u \in Threads : pc[u] \in Coming \cup {"mail_swap"} <=> pc'[u] \in Coming \cup {"mail_swap"}
         /\ \A u \in Threads : pc[u] \in Coming \cup {"mail_swap"} => pc'[u] = pc[u]
<1>1. /\ s \in Threads /\ s \notin Bscs /\ l \in Labels /\ l \in SchedLabels /\ l # "user"
      /\ l \notin Posting /\ l \notin Sending /\ l \notin Drowsy /\ l \notin Coming \cup {"mail_swap"}
  BY ThreadKinds DEF TakeLabels, Labels, SchedLabels, Posting, Sending, Drowsy, Coming
<1>2. /\ pc[s] \in SchedLabels /\ pc[s] # "user" /\ pc[s] \notin Posting
      /\ pc[s] \notin Coming \cup {"mail_swap"} /\ "read" \in Drowsy
  BY DEF TakeLabels, SchedLabels, Posting, Coming, Drowsy
<1>3. pc' \in [Threads -> Labels] /\ pc'[s] = l /\ \A u \in Threads : u # s => pc'[u] = pc[u]
  BY <1>1, GotoPc DEF IInv
<1>4. SchedAt(s)'
  <2>1. SchedAt(s)
    BY DEF IInv, Control
  <2>2. CASE l \in TakeLabels
    BY <1>1, <1>2, <1>3, <2>1, <2>2 DEF SchedAt
  <2>3. CASE l \notin TakeLabels
    <3>1. l = "drain"
      BY <2>3
    <3> QED BY <1>1, <1>2, <1>3, <2>1, <2>3, <3>1 DEF SchedAt
  <2> QED BY <2>2, <2>3
<1>5. PostAt(s)'
  <2>1. PostAt(s)
    BY <1>1 DEF IInv, Control
  <2> QED BY <1>1, <1>2, <1>3, <2>1 DEF PostAt
<1>6. Control'
  BY <1>1, <1>3, <1>4, <1>5, ControlStep DEF IInv
<1>7. \A u \in Threads : pc[u] \in Coming \cup {"mail_swap"} \/ pc'[u] \in Coming \cup {"mail_swap"} =>
        pc'[u] = pc[u]
  BY <1>1, <1>2, <1>3
<1>8. \A u \in Scheds : pc'[u] \in Drowsy => pc'[u] = pc[u]
  BY <1>1, <1>3, ThreadKinds
<1>9. Awaited'
  BY <1>7, <1>8, AwaitedKept DEF IInv, Told, Coming
<1>10. Roused'
  BY <1>2, <1>7, <1>8, RousedKept DEF IInv, Told, Coming
<1> QED BY <1>3, <1>6, <1>7, <1>9, <1>10

(* Scheduler s takes mail from its box b, which holds q, n items of which  *)
(* have left the chain.                                                    *)
TakesFrom(s, b, q, n) ==
  /\ b = Box(s) /\ q = mailq[s][b] /\ n = Taken(s, b) /\ b \in got[s]
  /\ n = 1 <=> pc[s] = "deq_clear"
  /\ Unset(s, b) = (IF n = 1 THEN ptr[s] ELSE Null)
  /\ Len(q) \in Nat /\ Len(q) >= 1 /\ ptr[s] = q[1] /\ ptr[s] \in Procs /\ ptr[s] # Null
  /\ n = 0 => fptr[s][b] = q[1]
  /\ Len(q) = n => bptr[s][b] = Null
  /\ Len(q) > n => bptr[s][b] = q[Len(q)]
  /\ fptr[s][b] # Unset(s, b) => Len(q) > n /\ fptr[s][b] = q[n + 1]
  /\ \A j \in 1..Len(q) : link[q[j]] # Null => j > n /\ j < Len(q) /\ link[q[j]] = q[j + 1]
  /\ \A j, k \in 1..Len(q) : q[j] \in Procs /\ q[j] # Null /\ (q[j] = q[k] => j = k)

(* The box that a scheduler takes mail from has mail in front. *)
LEMMA TakeFacts ==
  ASSUME IInv, NEW s \in Scheds, pc[s] \in TakeLabels
  PROVE  \E b \in Boxes, q \in Seq(Procs), n \in {0, 1} :
           TakesFrom(s, b, q, n)
<1>1. SchedAt(s) /\ TakingAt(s) /\ got[s] \subseteq Bits
  BY DEF IInv, Control, Boxed, Taking, Types
<1>2. PICK b \in Boxes : b = Box(s)
  BY DEF Box, Boxes
<1>3. b \in got[s]
  BY <1>1, <1>2 DEF SchedAt, Box, Boxes
<1>4. PICK q \in Seq(Procs), n \in {0, 1} : q = mailq[s][b] /\ n = Taken(s, b)
  BY BoxFacts
<1>5. (n = 1 <=> pc[s] = "deq_clear") /\ Unset(s, b) = (IF n = 1 THEN ptr[s] ELSE Null)
  BY <1>2, <1>4 DEF Taken, Unset, Clearing
<1>6. /\ Len(q) \in Nat /\ Len(q) >= n /\ (n = 1 => ptr[s] = q[1])
      /\ Len(q) = n => bptr[s][b] = Null
      /\ Len(q) > n => bptr[s][b] = q[Len(q)]
      /\ fptr[s][b] # Unset(s, b) => Len(q) > n /\ fptr[s][b] = q[n + 1]
      /\ \A j \in 1..Len(q) :
           link[q[j]] # Null => j > n /\ j < Len(q) /\ link[q[j]] = q[j + 1]
  BY <1>4, BoxFacts DEF ChainedAt
<1>7. \A j, k \in 1..Len(q) : q[j] \in Procs /\ q[j] # Null /\ (q[j] = q[k] => j = k)
  BY <1>4, BoxFacts, BoxUnique
<1>8. ptr[s] # Null
  BY <1>1 DEF SchedAt
<1>9. CASE n = 0
  <2>1. pc[s] \in {"deq_cas", "deq_link"}
    BY <1>5, <1>9 DEF TakeLabels
  <2>2. ptr[s] = fptr[s][b] /\ Unset(s, b) = Null
    BY <1>1, <1>2, <1>5, <1>9, <2>1 DEF TakingAt
  <2>3. Len(q) > 0 /\ ptr[s] = q[1]
    BY <1>6, <1>8, <1>9, <2>2
  <2>4. Len(q) >= 1 /\ q[1] \in Procs
    BY <1>6, <1>7, <2>3
  <2>5. TakesFrom(s, b, q, n)
    BY <1>2, <1>3, <1>4, <1>5, <1>6, <1>7, <1>8, <1>9, <2>2, <2>3, <2>4 DEF TakesFrom
  <2> QED BY <2>5
<1>10. CASE n = 1
  <2>1. Len(q) >= 1 /\ ptr[s] = q[1]
    BY <1>6, <1>10
  <2>2. q[1] \in Procs
    BY <1>6, <1>7, <2>1
  <2>3. TakesFrom(s, b, q, n)
    BY <1>2, <1>3, <1>4, <1>5, <1>6, <1>7, <1>8, <1>10, <2>1, <2>2 DEF TakesFrom
  <2> QED BY <2>3
<1> QED BY <1>9, <1>10

(* The owner takes the only item off the back, or finds more behind it. *)
LEMMA DequeueCasStep ==
  ASSUME IInv, NEW s \in Scheds, DequeueCas(s)
  PROVE  IInv' /\ UNCHANGED <<cur, Runnable>>
<1>1. /\ pc[s] = "deq_cas" /\ pc[s] \in TakeLabels
      /\ UNCHANGED <<cur, affinity, local, fptr, link, mailq, sync, sleeping, idle, pipe, pending,
                     calls, got, seen, ptr, item, to, box, back>>
  BY DEF DequeueCas, TakeLabels, procVars, sleepVars, callVars, localVars, postVars
<1>0. PICK b \in Boxes, q \in Seq(Procs), n \in {0, 1} : TakesFrom(s, b, q, n)
  BY <1>1, TakeFacts
<1>2. /\ b = Box(s) /\ q = mailq[s][b] /\ 0 = Taken(s, b) /\ b \in got[s]
      /\ Unset(s, b) = Null
      /\ Len(q) \in Nat /\ Len(q) >= 1 /\ ptr[s] = q[1] /\ ptr[s] \in Procs /\ ptr[s] # Null
      /\ fptr[s][b] = q[1] /\ bptr[s][b] = q[Len(q)]
      /\ \A j \in 1..Len(q) :
           link[q[j]] # Null => j > 0 /\ j < Len(q) /\ link[q[j]] = q[j + 1]
      /\ \A j, k \in 1..Len(q) : q[j] \in Procs /\ q[j] # Null /\ (q[j] = q[k] => j = k)
  <2>1. n = 0
    BY <1>1, <1>0 DEF TakesFrom
  <2>2. Len(q) > n
    BY <1>0, <2>1 DEF TakesFrom
  <2> QED BY <1>0, <2>1, <2>2 DEF TakesFrom
<1>3. PICK l \in {"deq_clear", "deq_link"} : pc' = [pc EXCEPT ![s] = l]
  BY DEF DequeueCas, Goto
<1>4. /\ Control' /\ Awaited' /\ Roused' /\ pc' \in [Threads -> Labels] /\ pc'[s] = l
      /\ \A u \in Threads : u # s => pc'[u] = pc[u]
      /\ \A u \in Threads : pc[u] \in Coming \cup {"mail_swap"} <=> pc'[u] \in Coming \cup {"mail_swap"}
      /\ \A u \in Threads : pc[u] \in Coming \cup {"mail_swap"} => pc'[u] = pc[u]
  <2>1. l \in TakeLabels
    BY DEF TakeLabels
  <2> QED BY <1>1, <1>2, <1>3, <2>1, OwnerStep
<1>5. /\ \A u \in Threads : pc'[u] = "mail_swap" <=> pc[u] = "mail_swap"
      /\ \A u \in Threads : pc'[u] = "mail_link" <=> pc[u] = "mail_link"
      /\ \A u \in Scheds : u # s => pc'[u] = pc[u]
  BY <1>4, ThreadKinds DEF Coming
<1>6. Placed' /\ Runnable' = Runnable
  BY <1>1, <1>5, PlacedKept DEF IInv
<1>7. Noticed'
  BY <1>1, <1>4, NoticedKept DEF IInv, Told, Coming
<1>8. Box(s)' = b /\ \A u \in Scheds : Box(u)' = Box(u)
  BY <1>1, <1>2 DEF Box
<1>9. Types' /\ Chained' /\ Linkers' /\ Linked' /\ TakingAt(s)'
  <2>1. CASE bptr[s][b] # ptr[s]
    <3>1. l = "deq_link" /\ bptr' = bptr
      BY <1>2, <1>3, <1>4, <2>1 DEF DequeueCas, Goto, IInv, Types
    <3>2. \A u \in Scheds, c \in Boxes : Clearing(u, c)' <=> Clearing(u, c)
      BY <1>1, <1>4, <1>5, <1>8, <3>1 DEF Clearing
    <3>3. Chained' /\ Linkers' /\ Linked'
      BY <1>1, <1>5, <3>1, <3>2, ChainsKept DEF IInv, Boxed
    <3>4. TakingAt(s)'
      <4>1. Len(q) > 1
        BY <1>2, <2>1
      <4> QED BY <1>1, <1>2, <1>4, <1>8, <3>1, <4>1 DEF TakingAt
    <3> QED BY <1>1, <1>4, <3>1, <3>3, <3>4 DEF IInv, Types
  <2>2. CASE bptr[s][b] = ptr[s]
    <3>1. l = "deq_clear" /\ bptr' = [bptr EXCEPT ![s][b] = Null]
      BY <1>2, <1>3, <1>4, <2>2 DEF DequeueCas, Goto, IInv, Types
    <3>2. /\ bptr' \in [Scheds -> [Boxes -> Words]] /\ bptr'[s][b] = Null
          /\ \A u \in Scheds, c \in Boxes : ~(u = s /\ c = b) => bptr'[u][c] = bptr[u][c]
      BY <3>1 DEF IInv, Types, Words
    <3>3. /\ Clearing(s, b)'
          /\ \A u \in Scheds, c \in Boxes : ~(u = s /\ c = b) => (Clearing(u, c)' <=> Clearing(u, c))
      BY <1>1, <1>4, <1>5, <1>8, <3>1 DEF Clearing
    <3>4. Taken(s, b)' = 1 /\ Unset(s, b)' = ptr[s] /\ mailq'[s][b] = q /\ ptr'[s] = q[1]
      BY <1>1, <1>2, <3>3 DEF Taken, Unset
    <3>5. Len(q) = 1
      <4>1. 1 \in 1..Len(q) /\ Len(q) \in 1..Len(q) /\ q[Len(q)] = q[1]
        BY <1>2, <2>2
      <4>2. \A j, k \in 1..Len(q) : q[j] = q[k] => j = k
        BY <1>2
      <4> QED BY ZenonT(40), <4>1, <4>2
    <3>6. ChainedAt(s, b, mailq[s][b], Taken(s, b))'
      <4>1. \A j \in 1..Len(q) : link'[q[j]] = Null
        BY <1>1, <1>2, <3>5
      <4> QED BY <1>1, <1>2, <3>2, <3>4, <3>5, <4>1 DEF ChainedAt
    <3>7. Places(s, b)' = {}
      BY <3>4, <3>5 DEF Places
    <3>8. LinkedAt(s, b)'
      BY <3>7 DEF LinkedAt
    <3>9. ASSUME NEW v \in Threads, to[v] = s, box[v] = b, pc'[v] = "mail_link"
          PROVE  FALSE
      <4>1. pc[v] = "mail_link"
        BY <1>5, <3>9
      <4>2. PICK j \in Places(s, b) : Unlinked(s, b, j)
        BY <3>9, <4>1, LinkerFacts
      <4>3. j = 1
        BY <1>2, <3>5, <4>2 DEF Places
      <4> QED BY <1>2, <4>2, <4>3 DEF Unlinked
    <3>10. PICK r \in Procs : r = q[1]
      BY <1>2
    <3>11. ASSUME NEW u \in Scheds, NEW c \in Boxes, ~(u = s /\ c = b)
           PROVE  /\ fptr'[u][c] = fptr[u][c] /\ bptr'[u][c] = bptr[u][c]
                  /\ mailq'[u][c] = mailq[u][c]
                  /\ Clearing(u, c)' <=> Clearing(u, c)
                  /\ Clearing(u, c) => ptr'[u] = ptr[u]
                  /\ \A j \in 1..Len(mailq[u][c]) : mailq[u][c][j] # r
      <4>1. \A j \in 1..Len(mailq[u][c]) : mailq[u][c][j] # r
        <5>1. 1 \in 1..Len(mailq[s][b]) /\ mailq[s][b][1] = r
          BY <1>2, <3>5, <3>10
        <5> QED BY <3>11, <5>1, BoxUnique
      <4> QED BY <1>1, <3>2, <3>3, <3>11, <4>1
    <3>12. Chained' /\ Linkers' /\ Linked'
      BY <1>1, <1>5, <3>6, <3>8, <3>9, <3>11, OneBox
    <3>13. TakingAt(s)'
      BY <1>4, <3>1 DEF TakingAt
    <3> QED BY <1>1, <1>4, <3>2, <3>12, <3>13 DEF IInv, Types
  <2> QED BY <2>1, <2>2
<1>10. Taking'
  <2>1. \A u \in Scheds : u # s => TakingAt(u)'
    BY <1>1, <1>5, <1>8 DEF IInv, Boxed, Taking, TakingAt
  <2> QED BY <1>9, <2>1 DEF Taking
<1> QED BY <1>1, <1>4, <1>6, <1>7, <1>9, <1>10 DEF IInv, Boxed, Told

(* The next item is not linked yet: the owner leaves the box alone, as the *)
(* sender that is going to link it will tell it again.                     *)
LEMMA GiveUpStep ==
  ASSUME IInv, NEW s \in Scheds, DequeueLink(s), link[ptr[s]] = Null
  PROVE  IInv' /\ UNCHANGED <<cur, Runnable>>
<1>1. /\ pc[s] = "deq_link" /\ pc[s] \in TakeLabels /\ pc' = [pc EXCEPT ![s] = "drain"]
      /\ got' = [got EXCEPT ![s] = @ \ {Box(s)}] /\ ptr' = [ptr EXCEPT ![s] = Null]
      /\ UNCHANGED <<cur, affinity, local, fptr, bptr, link, mailq, sync, sleeping, idle, pipe,
                     pending, calls, seen, item, to, box, back>>
  BY DEF DequeueLink, Goto, Emptied, TakeLabels, sleepVars, callVars, postVars
<1>2. PICK b \in Boxes, q \in Seq(Procs), n \in {0, 1} : TakesFrom(s, b, q, n)
  BY <1>1, TakeFacts
<1>3. n = 0 /\ b = Box(s) /\ q = mailq[s][b] /\ Taken(s, b) = 0 /\ ptr[s] = q[1] /\ Len(q) \in Nat
  BY <1>1, <1>2 DEF TakesFrom
<1>4. Len(q) > 1
  BY <1>1, <1>3 DEF IInv, Boxed, Taking, TakingAt
<1>5. /\ ptr' \in [Scheds -> Words] /\ ptr'[s] = Null
      /\ got' \in [Scheds -> SUBSET Bits] /\ got'[s] = got[s] \ {b}
      /\ \A u \in Scheds : u # s => ptr'[u] = ptr[u] /\ got'[u] = got[u]
  BY <1>1, <1>3 DEF IInv, Types, Words
<1>6. /\ Control' /\ Awaited' /\ Roused' /\ pc' \in [Threads -> Labels] /\ pc'[s] = "drain"
      /\ \A u \in Threads : u # s => pc'[u] = pc[u]
      /\ \A u \in Threads : pc[u] \in Coming \cup {"mail_swap"} <=> pc'[u] \in Coming \cup {"mail_swap"}
      /\ \A u \in Threads : pc[u] \in Coming \cup {"mail_swap"} => pc'[u] = pc[u]
  <2>1. "drain" \notin TakeLabels
    BY DEF TakeLabels
  <2> QED BY <1>1, <1>5, <2>1, OwnerStep
<1>7. /\ \A u \in Threads : pc'[u] = "mail_swap" <=> pc[u] = "mail_swap"
      /\ \A u \in Threads : pc'[u] = "mail_link" <=> pc[u] = "mail_link"
      /\ \A u \in Scheds : u # s => pc'[u] = pc[u]
  BY <1>6, ThreadKinds DEF Coming
<1>8. Types'
  BY <1>1, <1>5, <1>6 DEF IInv, Types
<1>9. Placed' /\ Runnable' = Runnable
  BY <1>1, <1>7, PlacedKept DEF IInv
<1>10. Boxed'
  <2>1. \A u \in Scheds, c \in Boxes :
          (Clearing(u, c)' <=> Clearing(u, c)) /\ (Clearing(u, c) => ptr'[u] = ptr[u])
    BY <1>1, <1>5, <1>6, <1>7 DEF Clearing, Box
  <2>2. Chained' /\ Linkers' /\ Linked'
    BY <1>1, <1>7, <2>1, ChainsKept DEF IInv, Boxed
  <2>3. TakingAt(s)'
    BY <1>6 DEF TakingAt
  <2>4. \A u \in Scheds : u # s => TakingAt(u)'
    BY <1>1, <1>5, <1>7 DEF IInv, Boxed, Taking, TakingAt, Box
  <2> QED BY <2>2, <2>3, <2>4 DEF Boxed, Taking
<1>11. Noticed'
  <2>1. \A v \in Threads, u \in Scheds : Waking(v, u, {"mail_link", "mail_sync"}) =>
          Waking(v, u, {"mail_link", "mail_sync"})' /\ box'[v] = box[v]
    BY <1>1, <1>6 DEF Waking, Coming
  <2>2. PICK t \in Threads : Linking(t, s, b, 2)
    <3>1. 2 \in Places(s, b)
      BY <1>3, <1>4 DEF Places
    <3>2. Unlinked(s, b, 2)
      BY <1>3 DEF Unlinked
    <3>3. LinkedAt(s, b)
      BY BoxFacts
    <3> QED BY <3>1, <3>2, <3>3 DEF LinkedAt
  <2>3. Waking(t, s, {"mail_link", "mail_sync"})' /\ box'[t] = b
    BY <2>1, <2>2 DEF Linking, Waking
  <2>4. ASSUME NEW u \in Scheds, NEW c \in Boxes, fptr'[u][c] # Null, ~(u = s /\ c = b)
        PROVE  \/ c \in sync'[u] \cup got'[u]
               \/ \E v \in Threads : Waking(v, u, {"mail_link", "mail_sync"})' /\ box'[v] = c
    <3>1. \/ c \in sync[u] \cup got[u]
          \/ \E v \in Threads : Waking(v, u, {"mail_link", "mail_sync"}) /\ box[v] = c
      BY <1>1, <2>4 DEF IInv, Told, Noticed
    <3>2. c \in got[u] => c \in got'[u]
      BY <1>5, <2>4
    <3> QED BY <1>1, <2>1, <3>1, <3>2
  <2> QED BY <2>3, <2>4 DEF Noticed
<1> QED BY <1>1, <1>6, <1>8, <1>9, <1>10, <1>11 DEF IInv, Told

(* What a step that takes the front item out of a box knows and does. *)
Receives(s, b, q, n, p, w) ==
  /\ TakesFrom(s, b, q, n) /\ p = q[1]
  /\ pc[s] \in {"deq_clear", "deq_link"} /\ pc' = [pc EXCEPT ![s] = "drain"]
  /\ n = 1 => w = IF fptr[s][b] = p THEN Null ELSE fptr[s][b]
  /\ n = 0 => Len(q) > 1 /\ link[p] # Null /\ w = link[p]
  /\ fptr' = [fptr EXCEPT ![s][b] = w]
  /\ link' = [link EXCEPT ![p] = Null]
  /\ local' = [local EXCEPT ![s] = @ \cup {p}]
  /\ mailq' = [mailq EXCEPT ![s][b] = Tail(@)]
  /\ ptr' = [ptr EXCEPT ![s] = Null]
  /\ UNCHANGED <<cur, affinity, bptr, sync, sleeping, idle, pipe, pending, calls, got, seen,
                 item, to, box, back>>

(* Both ways to take an item are such steps. *)
LEMMA ReceivesIt ==
  ASSUME IInv, NEW s \in Scheds,
         DequeueClear(s) \/ (DequeueLink(s) /\ link[ptr[s]] # Null)
  PROVE  \E b \in Boxes, q \in Seq(Procs), n \in {0, 1}, p \in Procs, w \in Words :
           Receives(s, b, q, n, p, w)
<1>1. pc[s] \in {"deq_clear", "deq_link"} /\ pc[s] \in TakeLabels
  BY DEF DequeueClear, DequeueLink, TakeLabels
<1>2. PICK b \in Boxes, q \in Seq(Procs), n \in {0, 1} : TakesFrom(s, b, q, n)
  BY <1>1, TakeFacts
<1>3. PICK p \in Procs : p = q[1] /\ p = ptr[s]
  BY <1>2 DEF TakesFrom
<1>4. b = Box(s) /\ (n = 1 <=> pc[s] = "deq_clear") /\ q = mailq[s][b] /\ Len(q) \in Nat
  BY <1>2 DEF TakesFrom
<1>5. fptr[s][b] \in Words /\ link[p] \in Words /\ Null \in Words
  BY DEF IInv, Types, Words
<1>6. CASE DequeueClear(s)
  <2>1. PICK w \in Words : w = IF fptr[s][b] = p THEN Null ELSE fptr[s][b]
    BY <1>5
  <2>2. fptr' = [fptr EXCEPT ![s][b] = w]
    BY <1>3, <1>4, <1>6, <2>1 DEF DequeueClear
  <2>3. n # 0
    BY <1>4, <1>6 DEF DequeueClear
  <2>4. Receives(s, b, q, n, p, w)
    BY <1>1, <1>2, <1>3, <1>4, <1>6, <2>1, <2>2, <2>3
       DEF Receives, DequeueClear, Received, Goto, sleepVars, callVars, postVars
  <2> QED BY <2>4
<1>7. CASE DequeueLink(s) /\ link[ptr[s]] # Null
  <2>1. PICK w \in Words : w = link[p]
    BY <1>5
  <2>2. fptr' = [fptr EXCEPT ![s][b] = w]
    BY <1>3, <1>4, <1>7, <2>1 DEF DequeueLink
  <2>3. n # 1 /\ pc[s] = "deq_link"
    BY <1>4, <1>7 DEF DequeueLink
  <2>4. Len(q) > 1
    BY <1>4, <2>3 DEF IInv, Boxed, Taking, TakingAt
  <2>5. Receives(s, b, q, n, p, w)
    BY <1>1, <1>2, <1>3, <1>4, <1>7, <2>1, <2>2, <2>3, <2>4
       DEF Receives, DequeueLink, Received, Goto, sleepVars, callVars, postVars
  <2> QED BY <2>5
<1> QED BY <1>6, <1>7

(* What the words of the box and its contents become. *)
LEMMA ReceivedWords ==
  ASSUME IInv, NEW s \in Scheds, NEW b \in Boxes, NEW q \in Seq(Procs), NEW n \in {0, 1},
         NEW p \in Procs, NEW w \in Words, Receives(s, b, q, n, p, w)
  PROVE  /\ fptr' \in [Scheds -> [Boxes -> Words]] /\ fptr'[s][b] = w
         /\ link' \in [Procs -> Words] /\ link'[p] = Null
         /\ \A r \in Procs : r # p => link'[r] = link[r]
         /\ local' \in [Scheds -> SUBSET Procs] /\ local'[s] = local[s] \cup {p}
         /\ ptr' \in [Scheds -> Words] /\ ptr'[s] = Null
         /\ \A u \in Scheds : u # s => ptr'[u] = ptr[u] /\ local'[u] = local[u]
         /\ mailq' \in [Scheds -> [Boxes -> Seq(Procs)]] /\ mailq'[s][b] = Tail(q)
         /\ Len(Tail(q)) = Len(q) - 1 /\ Len(q) \in Nat /\ Len(q) >= 1
         /\ \A i \in 1..(Len(q) - 1) : mailq'[s][b][i] = q[i + 1]
         /\ \A u \in Scheds, c \in Boxes : ~(u = s /\ c = b) =>
              fptr'[u][c] = fptr[u][c] /\ mailq'[u][c] = mailq[u][c]
<1>1. /\ fptr' = [fptr EXCEPT ![s][b] = w] /\ link' = [link EXCEPT ![p] = Null]
      /\ local' = [local EXCEPT ![s] = @ \cup {p}] /\ ptr' = [ptr EXCEPT ![s] = Null]
      /\ mailq' = [mailq EXCEPT ![s][b] = Tail(@)]
  BY DEF Receives
<1>2. q = mailq[s][b] /\ Len(q) \in Nat /\ Len(q) >= 1
  BY DEF Receives, TakesFrom
<1>3. /\ fptr' \in [Scheds -> [Boxes -> Words]] /\ fptr'[s][b] = w
      /\ \A u \in Scheds, c \in Boxes : ~(u = s /\ c = b) => fptr'[u][c] = fptr[u][c]
  BY <1>1 DEF IInv, Types
<1>4. /\ link' \in [Procs -> Words] /\ link'[p] = Null
      /\ \A r \in Procs : r # p => link'[r] = link[r]
  BY <1>1 DEF IInv, Types, Words
<1>5. /\ local' \in [Scheds -> SUBSET Procs] /\ local'[s] = local[s] \cup {p}
      /\ ptr' \in [Scheds -> Words] /\ ptr'[s] = Null
      /\ \A u \in Scheds : u # s => ptr'[u] = ptr[u] /\ local'[u] = local[u]
  BY <1>1 DEF IInv, Types, Words
<1>6. /\ q # << >> /\ Tail(q) \in Seq(Procs) /\ Len(Tail(q)) = Len(q) - 1
      /\ \A i \in 1..(Len(q) - 1) : Tail(q)[i] = q[i + 1]
  BY <1>2
<1>7. /\ mailq' \in [Scheds -> [Boxes -> Seq(Procs)]] /\ mailq'[s][b] = Tail(q)
      /\ \A u \in Scheds, c \in Boxes : ~(u = s /\ c = b) => mailq'[u][c] = mailq[u][c]
  BY <1>1, <1>2, <1>6 DEF IInv, Types
<1> QED BY <1>2, <1>3, <1>4, <1>5, <1>6, <1>7

(* Nobody is still linking the item in front of the box, nor the next one  *)
(* when the link to it has been followed.                                  *)
LEMMA FrontIsLinked ==
  ASSUME IInv, NEW s \in Scheds, NEW b \in Boxes, NEW q \in Seq(Procs), NEW n \in {0, 1},
         NEW p \in Procs, NEW w \in Words, Receives(s, b, q, n, p, w)
  PROVE  /\ \A i \in Places(s, b) : Unlinked(s, b, i) => i >= 2 /\ (n = 0 => i >= 3)
         /\ ~Posted(p)
<1>1. /\ TakesFrom(s, b, q, n) /\ p = q[1]
      /\ n = 0 => Len(q) > 1 /\ link[p] # Null
  BY DEF Receives
<1>2. /\ q = mailq[s][b] /\ n = Taken(s, b) /\ Len(q) \in Nat /\ Len(q) >= 1
      /\ n = 0 => Unset(s, b) = Null /\ fptr[s][b] = q[1] /\ q[1] # Null
  BY <1>1 DEF TakesFrom
<1>3. ASSUME NEW i \in Places(s, b), Unlinked(s, b, i)
      PROVE  i >= 2 /\ (n = 0 => i >= 3)
  <2>1. i \in (n + 1)..Len(q)
    BY <1>2 DEF Places
  <2>2. CASE n = 1
    BY <2>1, <2>2
  <2>3. CASE n = 0
    <3>1. i # 1
      BY <1>2, <1>3, <2>3 DEF Unlinked
    <3>2. i # 2
      BY <1>1, <1>2, <1>3, <2>3 DEF Unlinked
    <3> QED BY <2>1, <2>3, <3>1, <3>2
  <2> QED BY <2>2, <2>3
<1>4. ASSUME NEW t \in Threads, item[t] = p PROVE FALSE
  <2>1. PlacedAt(p) /\ PostAt(t) /\ p # Null
    BY MailAssumption DEF IInv, Placed, Control, Null
  <2>2. Mailed(p) /\ 1 \in 1..Len(mailq[s][b]) /\ mailq[s][b][1] = p
    BY <1>1, <1>2, BoxFacts
  <2>3. pc[t] = "mail_link"
    BY <1>4, <2>1, <2>2 DEF PlacedAt, PostAt, Posting
  <2>4. PICK u \in Scheds, c \in Boxes : \E i \in Places(u, c) :
          u = to[t] /\ c = box[t] /\ Linking(t, u, c, i) /\ Unlinked(u, c, i)
    BY <2>3, LinkerFacts
  <2>5. PICK i \in Places(u, c) : Linking(t, u, c, i) /\ Unlinked(u, c, i)
    BY <2>4
  <2>6. i \in 1..Len(mailq[u][c]) /\ mailq[u][c][i] = p
    <3>1. Taken(u, c) \in {0, 1} /\ Len(mailq[u][c]) \in Nat
      BY BoxFacts
    <3> QED BY <1>4, <2>5, <3>1 DEF Places, Linking
  <2>7. u = s /\ c = b /\ i = 1
    BY <2>2, <2>6, BoxUnique
  <2> QED BY <1>3, <2>5, <2>7
<1> QED BY <1>3, <1>4 DEF Posted

(* The item moves from the box to the run queues of its owner. *)
LEMMA ReceivedPlaced ==
  ASSUME IInv, NEW s \in Scheds, NEW b \in Boxes, NEW q \in Seq(Procs), NEW n \in {0, 1},
         NEW p \in Procs, NEW w \in Words, Receives(s, b, q, n, p, w),
         \A t \in Threads : pc'[t] = "mail_swap" => pc[t] = "mail_swap"
  PROVE  Placed' /\ Runnable' = Runnable
<1>1. UNCHANGED <<cur, calls, item>> /\ q = mailq[s][b] /\ p = q[1] /\ Len(q) \in Nat /\ Len(q) >= 1
  BY DEF Receives, TakesFrom
<1>2. /\ local'[s] = local[s] \cup {p}
      /\ \A u \in Scheds : u # s => local'[u] = local[u]
      /\ mailq' \in [Scheds -> [Boxes -> Seq(Procs)]] /\ Len(mailq'[s][b]) = Len(q) - 1
      /\ \A i \in 1..(Len(q) - 1) : mailq'[s][b][i] = q[i + 1]
      /\ \A u \in Scheds, c \in Boxes : ~(u = s /\ c = b) => mailq'[u][c] = mailq[u][c]
  <2>1. /\ mailq'[s][b] = Tail(q) /\ Len(Tail(q)) = Len(q) - 1
        /\ mailq' \in [Scheds -> [Boxes -> Seq(Procs)]]
    BY ReceivedWords
  <2>2. /\ local'[s] = local[s] \cup {p}
        /\ \A u \in Scheds : u # s => local'[u] = local[u]
        /\ \A i \in 1..(Len(q) - 1) : mailq'[s][b][i] = q[i + 1]
        /\ \A u \in Scheds, c \in Boxes : ~(u = s /\ c = b) => mailq'[u][c] = mailq[u][c]
    BY ReceivedWords
  <2> QED BY <2>1, <2>2
<1>3. 1 \in 1..Len(mailq[s][b]) /\ mailq[s][b][1] = p /\ Mailed(p)
  BY <1>1, BoxFacts
<1>4. \A r : Posted(r)' <=> Posted(r)
  BY <1>1 DEF Posted
<1>5. \A r : Mailed(r)' <=>
        \E u \in Scheds, c \in Boxes : \E i \in 1..Len(mailq'[u][c]) : mailq'[u][c][i] = r
  <2>1. \A u \in Scheds, c \in Boxes : DOMAIN mailq'[u][c] = 1..Len(mailq'[u][c])
    BY <1>2
  <2> QED BY <2>1 DEF Mailed
<1>6. ASSUME NEW u \in Scheds, NEW c \in Boxes, NEW i \in 1..Len(mailq'[u][c])
      PROVE  \E j \in 1..Len(mailq[u][c]) :
               /\ j = (IF u = s /\ c = b THEN i + 1 ELSE i)
               /\ mailq'[u][c][i] = mailq[u][c][j] /\ mailq'[u][c][i] # p
  <2>1. CASE u = s /\ c = b
    <3>1. i \in 1..(Len(q) - 1) /\ i + 1 \in 1..Len(q) /\ i + 1 # 1
      BY <1>1, <1>2, <2>1
    <3>2. mailq'[u][c][i] = mailq[u][c][i + 1] /\ i + 1 \in 1..Len(mailq[u][c])
      BY <1>1, <1>2, <2>1, <3>1
    <3>3. mailq[s][b][i + 1] # p
      BY <1>1, <1>3, <3>1, BoxUnique
    <3> QED BY <2>1, <3>1, <3>2, <3>3
  <2>2. CASE ~(u = s /\ c = b)
    <3>1. mailq'[u][c] = mailq[u][c]
      BY <1>2, <2>2
    <3>2. i \in 1..Len(mailq[u][c]) /\ mailq[u][c][i] # p
      BY <1>3, <2>2, <3>1, BoxUnique
    <3> QED BY <2>2, <3>1, <3>2
  <2> QED BY <2>1, <2>2
<1>7. ~Mailed(p)'
  BY <1>5, <1>6
<1>8. ASSUME NEW r \in Procs, r # p PROVE Mailed(r)' <=> Mailed(r)
  <2>1. ASSUME NEW u \in Scheds, NEW c \in Boxes, NEW i \in 1..Len(mailq[u][c]), mailq[u][c][i] = r
        PROVE  \E j \in 1..Len(mailq'[u][c]) : mailq'[u][c][j] = r
    <3>1. CASE u = s /\ c = b
      <4>1. i # 1 /\ i \in 1..Len(q)
        BY <1>1, <1>3, <1>8, <2>1, <3>1
      <4>2. i - 1 \in 1..(Len(q) - 1) /\ (i - 1) + 1 = i
        BY <1>1, <4>1
      <4>3. mailq'[s][b][i - 1] = q[i]
        BY <1>2, <4>2
      <4> QED BY <1>1, <1>2, <2>1, <3>1, <4>2, <4>3
    <3>2. CASE ~(u = s /\ c = b)
      BY <1>2, <2>1, <3>2
    <3> QED BY <3>1, <3>2
  <2>2. Mailed(r) => Mailed(r)'
    BY <1>5, <2>1, MailedAt DEF IInv
  <2>3. Mailed(r)' => Mailed(r)
    BY SMTT(30), <1>5, <1>6, MailedAt DEF IInv
  <2> QED BY <2>2, <2>3
<1>9. ~Posted(p)
  BY FrontIsLinked
<1>10. PlacedAt(p)'
  <2>1. PlacedAt(p)
    BY DEF IInv, Placed
  <2>2. /\ \A u \in Scheds : cur[u] # p /\ p \notin local[u]
        /\ p \notin calls
    BY <1>3, <2>1 DEF PlacedAt, Travels
  <2>3. \A u \in Scheds : p \in local'[u] => u = s
    BY <1>2, <2>2
  <2>4. \A t \in Threads : item'[t] # p
    BY <1>1, <1>9 DEF Posted
  <2>5. ~Travels(p)'
    BY <1>4, <1>7, <1>9 DEF Travels
  <2>6. \A u \in Scheds, c \in Boxes : \A i \in 1..Len(mailq'[u][c]) : mailq'[u][c][i] # p
    BY <1>6
  <2> QED BY <1>1, <2>2, <2>3, <2>4, <2>5, <2>6 DEF PlacedAt
<1>11. ASSUME NEW r \in Procs, r # p PROVE PlacedAt(r)'
  <2>1. PlacedAt(r)
    BY DEF IInv, Placed
  <2>2. /\ Travels(r)' <=> Travels(r)
        /\ Mailed(r)' <=> Mailed(r)
    BY <1>4, <1>8, <1>11 DEF Travels
  <2>3. \A u \in Scheds : r \in local'[u] <=> r \in local[u]
    BY <1>2, <1>11
  <2>4. ASSUME NEW u \in Scheds, NEW v \in Scheds, NEW c \in Boxes, NEW d \in Boxes,
               NEW i \in 1..Len(mailq'[u][c]), NEW j \in 1..Len(mailq'[v][d]),
               mailq'[u][c][i] = r, mailq'[v][d][j] = r
        PROVE  u = v /\ c = d /\ i = j
    <3>1. PICK k \in 1..Len(mailq[u][c]) :
            k = (IF u = s /\ c = b THEN i + 1 ELSE i) /\ mailq[u][c][k] = r
      BY SMTT(30), <1>6, <2>4
    <3>2. PICK m \in 1..Len(mailq[v][d]) :
            m = (IF v = s /\ d = b THEN j + 1 ELSE j) /\ mailq[v][d][m] = r
      BY <1>6, <2>4
    <3>3. u = v /\ c = d /\ k = m
      BY SMTT(30), <3>1, <3>2, BoxUnique
    <3>4. i \in Int /\ j \in Int
      OBVIOUS
    <3> QED BY <3>1, <3>2, <3>3, <3>4
  <2> QED BY <1>1, <2>1, <2>2, <2>3, <2>4 DEF PlacedAt
<1>12. Runnable' = Runnable
  <2>1. p \in Runnable /\ p \in Runnable'
    BY <1>2, <1>3 DEF Runnable
  <2>2. \A r \in Procs : r # p => (r \in Runnable <=> r \in Runnable')
    BY <1>2, <1>4, <1>8 DEF Runnable
  <2>3. Runnable \subseteq Procs /\ Runnable' \subseteq Procs
    BY DEF Runnable
  <2>4. \A r : r \in Runnable' <=> r \in Runnable
    BY <2>1, <2>2, <2>3
  <2> QED BY <2>4
<1> QED BY <1>10, <1>11, <1>12 DEF Placed

(* The box without its first item: every place moves up by one. *)
LEMMA ReceivedBoxed ==
  ASSUME IInv, NEW s \in Scheds, NEW b \in Boxes, NEW q \in Seq(Procs), NEW n \in {0, 1},
         NEW p \in Procs, NEW w \in Words, Receives(s, b, q, n, p, w),
         pc'[s] = "drain", \A u \in Scheds : u # s => pc'[u] = pc[u],
         \A t \in Threads : pc'[t] = "mail_link" <=> pc[t] = "mail_link"
  PROVE  Boxed'
<1>1. /\ TakesFrom(s, b, q, n) /\ p = q[1]
      /\ n = 1 => w = IF fptr[s][b] = p THEN Null ELSE fptr[s][b]
      /\ n = 0 => Len(q) > 1 /\ link[p] # Null /\ w = link[p]
      /\ UNCHANGED <<bptr, got, item, to, box, back>>
  BY DEF Receives
<1>2. /\ b = Box(s) /\ q = mailq[s][b] /\ n = Taken(s, b) /\ Len(q) \in Nat /\ Len(q) >= 1
      /\ Unset(s, b) = (IF n = 1 THEN p ELSE Null)
      /\ Len(q) = n => bptr[s][b] = Null
      /\ Len(q) > n => bptr[s][b] = q[Len(q)]
      /\ fptr[s][b] # Unset(s, b) => Len(q) > n /\ fptr[s][b] = q[n + 1]
      /\ \A j \in 1..Len(q) : link[q[j]] # Null => j > n /\ j < Len(q) /\ link[q[j]] = q[j + 1]
      /\ \A j, k \in 1..Len(q) : q[j] \in Procs /\ q[j] # Null /\ (q[j] = q[k] => j = k)
  BY <1>1 DEF TakesFrom
<1>3. /\ fptr'[s][b] = w /\ link'[p] = Null
      /\ \A r \in Procs : r # p => link'[r] = link[r]
      /\ Len(mailq'[s][b]) = Len(q) - 1
      /\ \A i \in 1..(Len(q) - 1) : mailq'[s][b][i] = q[i + 1]
      /\ \A u \in Scheds : u # s => ptr'[u] = ptr[u]
      /\ \A u \in Scheds, c \in Boxes : ~(u = s /\ c = b) =>
           fptr'[u][c] = fptr[u][c] /\ mailq'[u][c] = mailq[u][c]
  BY ReceivedWords
<1>4. /\ \A u \in Scheds, c \in Boxes : ~(u = s /\ c = b) =>
           (Clearing(u, c)' <=> Clearing(u, c)) /\ (Clearing(u, c) => ptr'[u] = ptr[u])
      /\ ~Clearing(s, b)'
  BY <1>1, <1>2, <1>3 DEF Clearing, Box
<1>5. Taken(s, b)' = 0 /\ Unset(s, b)' = Null
  BY <1>4 DEF Taken, Unset
<1>6. w # Null <=> (fptr[s][b] # Unset(s, b) /\ n = 1) \/ n = 0
  <2>1. CASE n = 0
    BY <1>1, <2>1
  <2>2. CASE n = 1
    <3>1. fptr[s][b] # p => fptr[s][b] # Null
      BY <1>2, <2>2
    <3> QED BY <1>1, <1>2, <2>2, <3>1
  <2> QED BY <2>1, <2>2
<1>7. w # Null => Len(q) > 1 /\ w = q[2]
  <2>1. CASE n = 0
    <3>1. 1 \in 1..Len(q)
      BY <1>2
    <3>2. link[q[1]] = q[1 + 1]
      BY <1>1, <1>2, <2>1, <3>1
    <3> QED BY <1>1, <2>1, <3>2
  <2>2. CASE n = 1
    BY <1>1, <1>2, <1>6, <2>2
  <2> QED BY <2>1, <2>2
<1>8. ASSUME NEW j \in 1..(Len(q) - 1)
      PROVE  /\ j + 1 \in 1..Len(q) /\ mailq'[s][b][j] = q[j + 1]
             /\ link'[q[j + 1]] = link[q[j + 1]]
  <2>1. j + 1 \in 1..Len(q) /\ 1 \in 1..Len(q) /\ j + 1 # 1
    BY <1>2
  <2>2. q[j + 1] # p /\ q[j + 1] \in Procs
    BY <1>1, <1>2, <2>1
  <2> QED BY <1>3, <2>1, <2>2
<1>9. ChainedAt(s, b, mailq[s][b], Taken(s, b))'
  <2>1. Len(q) - 1 = 0 => bptr'[s][b] = Null
    BY <1>1, <1>2
  <2>2. Len(q) - 1 > 0 => bptr'[s][b] = mailq'[s][b][Len(q) - 1]
    <3> SUFFICES ASSUME Len(q) - 1 > 0 PROVE bptr'[s][b] = mailq'[s][b][Len(q) - 1]
      OBVIOUS
    <3>1. Len(q) - 1 \in 1..(Len(q) - 1) /\ (Len(q) - 1) + 1 = Len(q) /\ Len(q) > n
      BY <1>2
    <3>2. mailq'[s][b][Len(q) - 1] = q[Len(q)]
      BY <1>8, <3>1
    <3> QED BY <1>1, <1>2, <3>1, <3>2
  <2>3. fptr'[s][b] # Null => Len(q) - 1 > 0 /\ fptr'[s][b] = mailq'[s][b][0 + 1]
    <3> SUFFICES ASSUME fptr'[s][b] # Null
                 PROVE  Len(q) - 1 > 0 /\ fptr'[s][b] = mailq'[s][b][0 + 1]
      OBVIOUS
    <3>1. Len(q) > 1 /\ fptr'[s][b] = q[2]
      BY <1>3, <1>7
    <3>2. 1 \in 1..(Len(q) - 1)
      BY <1>2, <3>1
    <3>3. mailq'[s][b][1] = q[1 + 1]
      BY <1>8, <3>2
    <3> QED BY <1>2, <3>1, <3>3
  <2>4. ASSUME NEW j \in 1..(Len(q) - 1), link'[mailq'[s][b][j]] # Null
        PROVE  j > 0 /\ j < Len(q) - 1 /\ link'[mailq'[s][b][j]] = mailq'[s][b][j + 1]
    <3>1. link'[mailq'[s][b][j]] = link[q[j + 1]] /\ j + 1 \in 1..Len(q)
      BY <1>8
    <3>2. j + 1 < Len(q) /\ link[q[j + 1]] = q[(j + 1) + 1]
      BY <1>2, <2>4, <3>1
    <3>3. j + 1 \in 1..(Len(q) - 1) /\ j > 0 /\ j < Len(q) - 1
      BY <1>2, <3>2
    <3>4. mailq'[s][b][j + 1] = q[(j + 1) + 1]
      BY <1>8, <3>3
    <3> QED BY <3>1, <3>2, <3>3, <3>4
  <2>5. Len(mailq'[s][b]) >= 0
    BY <1>2, <1>3
  <2> QED BY <1>3, <1>5, <2>1, <2>2, <2>3, <2>4, <2>5 DEF ChainedAt
<1>10. /\ \A i \in Places(s, b) : i \in (n + 1)..Len(q)
       /\ \A i \in (n + 1)..Len(q) : i \in Places(s, b)
       /\ \A j \in Places(s, b)' : j \in 1..(Len(q) - 1)
       /\ \A j \in 1..(Len(q) - 1) : j \in Places(s, b)'
  BY <1>2, <1>3, <1>5 DEF Places
<1>11. ASSUME NEW j \in 1..(Len(q) - 1)
       PROVE  j + 1 \in Places(s, b) /\ (Unlinked(s, b, j)' <=> Unlinked(s, b, j + 1))
  <2>0. j + 1 \in (n + 1)..Len(q)
    BY <1>2
  <2>1. CASE j = 1
    <3>1. Unlinked(s, b, j)' <=> w = Null
      BY <1>3, <1>5, <2>1 DEF Unlinked
    <3>2. CASE n = 1
      <4>1. Unlinked(s, b, j + 1) <=> fptr[s][b] = Unset(s, b)
        BY <1>2, <2>1, <3>2 DEF Unlinked
      <4> QED BY <1>6, <1>10, <2>0, <3>1, <3>2, <4>1
    <3>3. CASE n = 0
      <4>1. j + 1 # n + 1 /\ (j + 1) - 1 = 1
        BY <2>1, <3>3
      <4>2. Unlinked(s, b, j + 1) <=> link[p] = Null
        BY <1>1, <1>2, <4>1 DEF Unlinked
      <4> QED BY <1>1, <1>6, <1>10, <2>0, <3>1, <3>3, <4>2
    <3> QED BY <3>2, <3>3
  <2>2. CASE j # 1
    <3>1. j - 1 \in 1..(Len(q) - 1) /\ (j - 1) + 1 = j /\ j # 0 + 1 /\ j + 1 # n + 1 /\ (j + 1) - 1 = j
      BY <1>2, <2>2
    <3>2. Unlinked(s, b, j)' <=> link'[mailq'[s][b][j - 1]] = Null
      BY <1>5, <3>1 DEF Unlinked
    <3>3. link'[mailq'[s][b][j - 1]] = link[q[j]]
      BY <1>8, <3>1
    <3>4. Unlinked(s, b, j + 1) <=> link[q[j]] = Null
      BY <1>2, <3>1 DEF Unlinked
    <3> QED BY <1>10, <2>0, <3>2, <3>3, <3>4
  <2> QED BY <2>1, <2>2
<1>12. ASSUME NEW t \in Threads, NEW j \in 1..(Len(q) - 1), n = 1 \/ j >= 2,
              Linking(t, s, b, j + 1)
       PROVE  Linking(t, s, b, j)'
  <2>1. /\ pc[t] = "mail_link" /\ to[t] = s /\ box[t] = b /\ item[t] = q[j + 1]
        /\ back[t] = IF j + 1 = n + 1 THEN Null ELSE q[(j + 1) - 1]
    BY <1>2, <1>12 DEF Linking
  <2>2. mailq'[s][b][j] = q[j + 1]
    BY <1>8
  <2>3. CASE j = 1
    <3>1. n = 1
      BY <1>12, <2>3
    <3>2. back[t] = Null
      BY <2>1, <2>3, <3>1
    <3> QED BY <1>1, <1>5, <2>1, <2>2, <2>3, <3>2 DEF Linking
  <2>4. CASE j # 1
    <3>1. j - 1 \in 1..(Len(q) - 1) /\ (j - 1) + 1 = j /\ j # 0 + 1 /\ j + 1 # n + 1 /\ (j + 1) - 1 = j
      BY <1>2, <2>4
    <3>2. back[t] = q[j] /\ mailq'[s][b][j - 1] = q[j]
      BY <1>8, <2>1, <3>1
    <3> QED BY <1>1, <1>5, <2>1, <2>2, <3>1, <3>2 DEF Linking
  <2> QED BY <2>3, <2>4
<1>13. \A i \in Places(s, b) : Unlinked(s, b, i) => i >= 2 /\ (n = 0 => i >= 3)
  BY FrontIsLinked
<1>14. LinkedAt(s, b)'
  <2> SUFFICES ASSUME NEW j \in Places(s, b)', Unlinked(s, b, j)'
               PROVE  \E t \in Threads : Linking(t, s, b, j)'
    BY DEF LinkedAt
  <2>1. j \in 1..(Len(q) - 1)
    BY <1>10
  <2>2. j + 1 \in Places(s, b) /\ Unlinked(s, b, j + 1)
    BY <1>11, <2>1
  <2>3. LinkedAt(s, b)
    BY BoxFacts
  <2>4. PICK t \in Threads : Linking(t, s, b, j + 1)
    BY <2>2, <2>3 DEF LinkedAt
  <2>5. n = 1 \/ j + 1 >= 3
    BY <1>13, <2>2
  <2>6. n = 1 \/ j >= 2
    BY <2>1, <2>5
  <2> QED BY <1>12, <2>1, <2>4, <2>6
<1>15. ASSUME NEW t \in Threads, to[t] = s, box[t] = b, pc'[t] = "mail_link"
       PROVE  to'[t] = s /\ box'[t] = b /\ LinkerAt(t, s, b)'
  <2>1. pc[t] = "mail_link"
    BY <1>15
  <2>2. PICK i \in Places(s, b) : Linking(t, s, b, i) /\ Unlinked(s, b, i)
    BY <1>15, <2>1, LinkerFacts
  <2>3. i \in (n + 1)..Len(q) /\ i >= 2 /\ (n = 0 => i >= 3)
    BY <1>10, <1>13, <2>2
  <2>4. PICK j \in 1..(Len(q) - 1) : i = j + 1
    <3>1. i - 1 \in 1..(Len(q) - 1) /\ i = (i - 1) + 1
      BY <1>2, <2>3
    <3> QED BY <3>1
  <2>5. n = 1 \/ j >= 2
    BY <2>3, <2>4
  <2>6. Linking(t, s, b, j)' /\ Unlinked(s, b, j)' /\ j \in Places(s, b)'
    BY <1>10, <1>11, <1>12, <2>2, <2>4, <2>5
  <2> QED BY <1>1, <1>15, <2>6 DEF LinkerAt
<1>16. Chained' /\ Linkers' /\ Linked'
  <2>1. ASSUME NEW u \in Scheds, NEW c \in Boxes, ~(u = s /\ c = b)
        PROVE  /\ fptr'[u][c] = fptr[u][c] /\ bptr'[u][c] = bptr[u][c]
               /\ mailq'[u][c] = mailq[u][c]
               /\ Clearing(u, c)' <=> Clearing(u, c)
               /\ Clearing(u, c) => ptr'[u] = ptr[u]
               /\ \A j \in 1..Len(mailq[u][c]) : mailq[u][c][j] # p
    <3>1. 1 \in 1..Len(mailq[s][b]) /\ mailq[s][b][1] = p
      BY <1>1, <1>2
    <3>2. \A j \in 1..Len(mailq[u][c]) : mailq[u][c][j] # p
      BY <2>1, <3>1, BoxUnique
    <3> QED BY <1>1, <1>3, <1>4, <2>1, <3>2
  <2> QED BY <1>1, <1>3, <1>9, <1>14, <1>15, <2>1, OneBox
<1>17. Taking'
  <2>1. TakingAt(s)'
    BY DEF TakingAt
  <2>2. ASSUME NEW u \in Scheds, u # s PROVE TakingAt(u)'
    <3>1. Box(u)' = Box(u) /\ Box(u) \in Boxes /\ TakingAt(u)
      BY <1>1 DEF Box, Boxes, IInv, Boxed, Taking
    <3> QED BY <1>3, <2>2, <3>1 DEF TakingAt
  <2> QED BY <2>1, <2>2 DEF Taking
<1> QED BY <1>16, <1>17 DEF Boxed

(* The owner takes the front item: it is runnable on its scheduler now. *)
LEMMA ReceiveStep ==
  ASSUME IInv, NEW s \in Scheds,
         DequeueClear(s) \/ (DequeueLink(s) /\ link[ptr[s]] # Null)
  PROVE  IInv' /\ UNCHANGED <<cur, Runnable>>
<1>1. PICK b \in Boxes, q \in Seq(Procs), n \in {0, 1}, p \in Procs, w \in Words :
        Receives(s, b, q, n, p, w)
  BY ReceivesIt
<1>2. /\ pc[s] \in TakeLabels /\ pc' = [pc EXCEPT ![s] = "drain"] /\ b \in got[s]
      /\ UNCHANGED <<cur, affinity, bptr, sync, sleeping, idle, pipe, pending, calls, got, seen,
                     item, to, box, back>>
  BY <1>1 DEF Receives, TakesFrom, TakeLabels
<1>3. /\ fptr' \in [Scheds -> [Boxes -> Words]] /\ link' \in [Procs -> Words]
      /\ local' \in [Scheds -> SUBSET Procs] /\ mailq' \in [Scheds -> [Boxes -> Seq(Procs)]]
      /\ ptr' \in [Scheds -> Words] /\ ptr'[s] = Null
      /\ \A u \in Scheds : u # s => ptr'[u] = ptr[u]
      /\ \A u \in Scheds, c \in Boxes : ~(u = s /\ c = b) => fptr'[u][c] = fptr[u][c]
  BY <1>1, ReceivedWords
<1>4. /\ Control' /\ Awaited' /\ Roused' /\ pc' \in [Threads -> Labels] /\ pc'[s] = "drain"
      /\ \A u \in Threads : u # s => pc'[u] = pc[u]
      /\ \A u \in Threads : pc[u] \in Coming \cup {"mail_swap"} <=> pc'[u] \in Coming \cup {"mail_swap"}
      /\ \A u \in Threads : pc[u] \in Coming \cup {"mail_swap"} => pc'[u] = pc[u]
  <2>1. "drain" \notin TakeLabels
    BY DEF TakeLabels
  <2> QED BY <1>2, <1>3, <2>1, OwnerStep
<1>5. /\ \A u \in Threads : pc'[u] = "mail_swap" <=> pc[u] = "mail_swap"
      /\ \A u \in Threads : pc'[u] = "mail_link" <=> pc[u] = "mail_link"
      /\ \A u \in Scheds : u # s => pc'[u] = pc[u]
  BY <1>4, ThreadKinds DEF Coming
<1>6. Types'
  BY <1>2, <1>3, <1>4 DEF IInv, Types
<1>7. Placed' /\ Runnable' = Runnable
  BY <1>1, <1>5, ReceivedPlaced
<1>8. Boxed'
  BY <1>1, <1>4, <1>5, ReceivedBoxed
<1>9. Noticed'
  <2>1. \A v \in Threads, u \in Scheds : Waking(v, u, {"mail_link", "mail_sync"}) =>
          Waking(v, u, {"mail_link", "mail_sync"})' /\ box'[v] = box[v]
    BY <1>2, <1>4 DEF Waking, Coming
  <2>2. ASSUME NEW u \in Scheds, NEW c \in Boxes, fptr'[u][c] # Null, ~(u = s /\ c = b)
        PROVE  \/ c \in sync'[u] \cup got'[u]
               \/ \E v \in Threads : Waking(v, u, {"mail_link", "mail_sync"})' /\ box'[v] = c
    <3>1. fptr[u][c] # Null
      BY <1>3, <2>2
    <3>2. \/ c \in sync[u] \cup got[u]
          \/ \E v \in Threads : Waking(v, u, {"mail_link", "mail_sync"}) /\ box[v] = c
      BY <3>1 DEF IInv, Told, Noticed
    <3> QED BY <1>2, <2>1, <3>2
  <2> QED BY <1>2, <2>2 DEF Noticed
<1> QED BY <1>2, <1>4, <1>6, <1>7, <1>8, <1>9 DEF IInv, Told

-----------------------------------------------------------------------------
(* The first process waits on the first scheduler, and there is no mail. *)
LEMMA InitIInv == Init => IInv
<1> SUFFICES ASSUME Init PROVE IInv
  OBVIOUS
<1> USE MailAssumption
<1>1. /\ \A s \in Scheds : /\ pc[s] = "sched" /\ cur[s] = NotProcess /\ ptr[s] = Null
                           /\ got[s] = {} /\ sync[s] = {}
                           /\ local[s] = IF s = First THEN {Main} ELSE {}
      /\ \A b \in Bscs : pc[b] = "bsc"
      /\ \A t \in Threads : item[t] = Null /\ pc[t] \in {"sched", "bsc"}
      /\ \A s \in Scheds, b \in Boxes : fptr[s][b] = Null /\ bptr[s][b] = Null /\ mailq[s][b] = << >>
      /\ calls = {}
  BY ThreadKinds DEF Init, Threads
<1>2. Types
  <2>1. /\ "sched" \in Labels /\ "bsc" \in Labels /\ Null \in Words /\ "pmail" \in Bits
        /\ 0 \in 0..PipeSize /\ << >> \in Seq(Procs)
    BY DEF Labels, SchedLabels, Words, Bits, Boxes
  <2>2. /\ pc \in [Threads -> Labels] /\ item \in [Threads -> Words] /\ to \in [Threads -> Scheds]
        /\ box \in [Threads -> Bits] /\ back \in [Threads -> Words]
    BY <2>1 DEF Init
  <2>3. /\ cur \in [Scheds -> Words] /\ local \in [Scheds -> SUBSET Procs]
        /\ sync \in [Scheds -> SUBSET Bits] /\ got \in [Scheds -> SUBSET Bits]
        /\ pipe \in [Scheds -> 0..PipeSize] /\ seen \in [Scheds -> SUBSET Scheds]
        /\ ptr \in [Scheds -> Words] /\ link \in [Procs -> Words]
    BY <2>1 DEF Init, Null
  <2>4. /\ fptr \in [Scheds -> [Boxes -> Words]] /\ bptr \in [Scheds -> [Boxes -> Words]]
        /\ mailq \in [Scheds -> [Boxes -> Seq(Procs)]]
    BY <2>1 DEF Init
  <2>5. /\ affinity \in [Procs -> SUBSET Scheds] /\ sleeping \subseteq Scheds /\ idle \subseteq Scheds
        /\ pending \in Int /\ calls \subseteq Procs
    BY DEF Init
  <2> QED BY <2>2, <2>3, <2>4, <2>5 DEF Types
<1>3. Control
  <2>1. /\ "sched" \in SchedLabels /\ "sched" \notin TakeLabels /\ "bsc" \in BscLabels
        /\ {"sched", "bsc"} \cap Posting = {} /\ {"sched", "bsc"} \cap Sending = {}
    BY DEF SchedLabels, TakeLabels, BscLabels, Posting, Sending
  <2>2. \A b \in Bscs : pc[b] \in BscLabels
    BY <1>1, <2>1
  <2>3. \A s \in Scheds : SchedAt(s)
    BY <1>1, <2>1 DEF SchedAt
  <2>4. \A t \in Threads : PostAt(t)
    BY <1>1, <2>1 DEF PostAt
  <2> QED BY <2>2, <2>3, <2>4 DEF Control
<1>4. Placed
  <2> SUFFICES ASSUME NEW p \in Procs PROVE PlacedAt(p)
    BY DEF Placed
  <2>1. /\ \A s \in Scheds, b \in Boxes : 1..Len(mailq[s][b]) = {}
    BY <1>1
  <2>2. ~Mailed(p) /\ ~Posted(p) /\ \A t \in Threads : item[t] # p
    BY <1>1, <1>2, <2>1, MailedAt DEF Posted, Null
  <2>3. \A s \in Scheds : cur[s] # p /\ (p \in local[s] => s = First)
    BY <1>1
  <2> QED BY <1>1, <2>1, <2>2, <2>3 DEF PlacedAt, Travels
<1>5. Boxed
  <2>1. \A s \in Scheds, b \in Boxes :
          Taken(s, b) = 0 /\ Unset(s, b) = Null /\ Len(mailq[s][b]) = 0 /\ Places(s, b) = {}
    BY <1>1 DEF Taken, Unset, Clearing, Places
  <2>2. Chained
    BY <1>1, <2>1 DEF Chained, ChainedAt
  <2>3. Linkers /\ Linked
    BY <1>1, <2>1 DEF Linkers, Linked, LinkedAt
  <2>4. Taking
    BY <1>1 DEF Taking, TakingAt
  <2> QED BY <2>2, <2>3, <2>4 DEF Boxed
<1>6. Told
  <2>1. "sched" \notin Drowsy
    BY DEF Drowsy
  <2> QED BY <1>1, <2>1 DEF Told, Awaited, AwaitedAt, Roused, RousedAt, Noticed
<1> QED BY <1>2, <1>3, <1>4, <1>5, <1>6 DEF IInv

(* Any step of any thread: the kernel calls see nothing, or what Scheduling *)
(* allows.                                                                  *)
LEMMA NextStep ==
  ASSUME IInv, Next
  PROVE  IInv' /\ (Abs!Next \/ UNCHANGED <<cur, Runnable>>)
<1>1. ASSUME NEW t \in Threads, Mail(t)
      PROVE  IInv' /\ UNCHANGED <<cur, Runnable>>
  <2>1. CASE MailSwap(t)
    BY <2>1, MailSwapStep
  <2>2. CASE MailLink(t)
    BY <2>2, MailLinkStep
  <2>3. CASE MailSync(t)
    BY <2>3, MailSyncStep
  <2>4. CASE MailLook(t)
    BY <2>4, MailLookStep
  <2>5. CASE WakeClear(t)
    BY <2>5, WakeClearStep
  <2>6. CASE WakeSync(t)
    BY <2>6, WakeSyncStep
  <2>7. CASE WakeWrite(t)
    BY <2>7, WakeWriteStep
  <2> QED BY <1>1, <2>1, <2>2, <2>3, <2>4, <2>5, <2>6, <2>7 DEF Mail
<1>2. ASSUME NEW b \in Bscs, BscThread(b)
      PROVE  IInv' /\ (Abs!Next \/ UNCHANGED <<cur, Runnable>>)
  <2>1. CASE Mail(b)
    BY <1>1, <2>1, ThreadKinds
  <2>2. CASE BscDec(b)
    BY <2>2, BscDecStep
  <2>3. CASE \E p \in Procs : BscCleanupJob(b, p)
    BY <2>3, BscCleanupJobStep
  <2> QED BY <1>2, <2>1, <2>2, <2>3 DEF BscThread
<1>3. ASSUME NEW s \in Scheds, Kernel(s)
      PROVE  IInv' /\ UNCHANGED <<cur, Runnable>>
  <2>1. CASE Mail(s)
    BY <1>1, <2>1, ThreadKinds
  <2>2. CASE Scheduler(s)
    BY <2>2, SchedulerStep
  <2>3. CASE Drained(s)
    BY <2>3, EmptiedStep
  <2>4. CASE Dequeue(s)
    BY <2>4, EmptiedStep, FrontStep
  <2>5. CASE DequeueCas(s)
    BY <2>5, DequeueCasStep
  <2>6. CASE DequeueClear(s)
    BY <2>6, ReceiveStep
  <2>7. CASE DequeueLink(s)
    BY <2>7, ReceiveStep, GiveUpStep
  <2>8. CASE Sleep(s) \/ Unsleep(s)
    BY <2>8, SleepStep
  <2>9. CASE \/ Check(s) \/ SetIdle(s) \/ CheckPending(s) \/ ReadIdle(s) \/ ReadSleeping(s)
             \/ ClearIdle(s)
    BY <2>9, LookStep
  <2>10. CASE Pause(s)
    BY <2>10, PauseStep
  <2>11. CASE Read(s) \/ Restore(s)
    BY <2>11, ReadStep
  <2> QED BY <1>3, <2>1, <2>2, <2>3, <2>4, <2>5, <2>6, <2>7, <2>8, <2>9, <2>10, <2>11 DEF Kernel
<1>4. ASSUME NEW s \in Scheds, User(s)
      PROVE  IInv' /\ Abs!Next
  <2>1. CASE Deschedule(s) \/ BscDispatch(s)
    BY <2>1, StopStep
  <2>2. CASE \E a \in SUBSET Scheds : SetAff(s, a)
    BY <2>2, SetAffStep
  <2>3. CASE \E p \in Procs : EnqueueProcess(s, p)
    BY <2>3, EnqueueProcessStep
  <2> QED BY <1>4, <2>1, <2>2, <2>3 DEF User
<1>5. ASSUME NEW s \in Scheds, NEW p \in Procs,
             Dispatch(s, p) \/ \E u \in Scheds : Migrate(s, u, p)
      PROVE  IInv' /\ Abs!Next
  BY <1>5, DispatchStep, MigrateStep
<1> QED BY <1>2, <1>3, <1>4, <1>5 DEF Next

(* IInv is a function of the variables. *)
LEMMA StutterIInv ==
  ASSUME IInv, UNCHANGED vars
  PROVE  IInv' /\ UNCHANGED <<cur, Runnable>>
<1>1. UNCHANGED <<pc, cur, affinity, local, fptr, bptr, link, mailq, sync, sleeping, idle, pipe,
                  pending, calls, got, seen, ptr, item, to, box, back>>
  BY DEF vars, procVars, mailVars, sleepVars, callVars, localVars, postVars
<1>2. Types' /\ Control'
  BY <1>1 DEF IInv, Types, Control, SchedAt, PostAt
<1>3. Placed' /\ Runnable' = Runnable
  BY <1>1, PlacedKept DEF IInv
<1>4. Boxed'
  BY <1>1, BoxedKept DEF IInv
<1>5. Told'
  BY <1>1, AwaitedKept, RousedKept, NoticedKept DEF IInv, Told
<1> QED BY <1>1, <1>2, <1>3, <1>4, <1>5 DEF IInv

(* The inductive invariant holds in every state. *)
THEOREM Invariance == Spec => []IInv
<1>1. Init => IInv
  BY InitIInv
<1>2. IInv /\ [Next]_vars => IInv'
  BY NextStep, StutterIInv
<1> QED BY <1>1, <1>2, PTL DEF Spec

(* No scheduler sleeps over its mail: one that blocks on its empty pipe    *)
(* with a bit in its sync word or mail in a box is being woken, whatever   *)
(* the other threads, the half-done enqueues and the dropped bytes of its  *)
(* pipe (mail_process, ccsp_wake_thread, ccsp_safe_pause).                 *)
THEOREM SleepersAreWoken == Spec => []NobodySleepsOverMail
<1>1. IInv => NobodySleepsOverMail
  <2> SUFFICES ASSUME IInv, NEW s \in Scheds, pc[s] = "read", pipe[s] = 0,
                      sync[s] # {} \/ \E b \in Boxes : fptr[s][b] # Null
               PROVE  OnItsWayTo(s)
    BY DEF NobodySleepsOverMail
  <2>1. CASE sync[s] # {}
    <3>1. PICK t \in Threads : \/ Waking(t, s, {"wake_sync", "wake_write"})
                               \/ Waking(t, s, {"mail_look", "wake_clear"})
      BY <2>1 DEF IInv, Told, Roused, RousedAt
    <3> QED BY <3>1 DEF Waking, OnItsWayTo
  <2>2. CASE sync[s] = {}
    <3>1. PICK b \in Boxes : fptr[s][b] # Null
      BY <2>2
    <3>2. got[s] = {}
      BY DEF IInv, Control, SchedAt, TakeLabels
    <3>3. PICK t \in Threads : Waking(t, s, {"mail_link", "mail_sync"})
      BY <2>2, <3>1, <3>2 DEF IInv, Told, Noticed
    <3> QED BY <3>3 DEF Waking, OnItsWayTo
  <2> QED BY <2>1, <2>2
<1> QED BY <1>1, Invariance, PTL

(* Mail loses no process and delivers none twice: with the mail boxes, the *)
(* senders and the queues of all schedulers seen as one set of runnable    *)
(* processes, CcspMail implements Scheduling.                              *)
THEOREM MailIsScheduling == Spec => ImplementsScheduling
<1>1. Init => Abs!Init
  <2> SUFFICES ASSUME Init PROVE Abs!Init
    OBVIOUS
  <2>1. Runnable \in SUBSET Procs
    BY DEF Runnable
  <2>2. cur = [s \in Scheds |-> NotProcess]
    BY DEF Init
  <2> QED BY <2>1, <2>2 DEF Abs!Init
<1>2. IInv /\ [Next]_vars => [Abs!Next]_(Abs!vars)
  <2> SUFFICES ASSUME IInv, [Next]_vars PROVE [Abs!Next]_(Abs!vars)
    OBVIOUS
  <2>1. CASE Next
    BY <2>1, NextStep DEF Abs!vars
  <2>2. CASE UNCHANGED vars
    BY <2>2, StutterIInv DEF Abs!vars
  <2> QED BY <2>1, <2>2
<1> QED BY <1>1, <1>2, Invariance, PTL DEF Spec, ImplementsScheduling, Abs!Spec
=============================================================================
