------------------------- MODULE DispatchOnce_proofs -------------------------
(***************************************************************************)
(* A task is in one place at a time: in the pool, in a section that will    *)
(* dispatch it or put it back, with a worker, or in an event about its end. *)
(* That is so until a Redis call around a publication raises (what went out *)
(* is repeated then) or a worker announces its end (what it may still       *)
(* finish is handed out again).  Calls of the pool that raise lose work,    *)
(* and never double it.                                                    *)
(***************************************************************************)
EXTENDS DispatchPlaces_proofs, FiniteSetTheorems

-----------------------------------------------------------------------------
(* Where a task is.  The orchestrator holds it in the pool, in a frame, or  *)
(* in an event that waits; the workers hold its copies.                    *)
Supplied(fs, t) == \E f \in fs : Supplies(f, t)
Committed(fs, t) == \E f \in fs : Commits(f, t)

InFrames(t) == \E th \in Threads : Supplied(Elements(stack[th]), t)
Committing(t) == \E th \in Threads : Committed(Elements(stack[th]), t)
InEvents(t) == \E i \in DOMAIN taskEvents : taskEvents[i].task = t
Running(t) == \E w \in Workers : current[w] = t /\ phase[w] # "reported"

OneEntry(es, t) == \A e, f \in es : e.task = t /\ f.task = t => e = f
OnceIn(s, t) == \A i, j \in DOMAIN s : Supplies(s[i], t) /\ Supplies(s[j], t) => i = j

(* Within each of these places a task is at most once.                     *)
OncePerPlace(t) ==
    /\ OneEntry(pool, t)
    /\ \A th \in Threads : /\ OnceIn(stack[th], t)
                           /\ \A f \in Elements(stack[th]) :
                                  f.op \in BatchOps => OneEntry(f.entries, t)
    /\ \A u, v \in Threads :
         Supplied(Elements(stack[u]), t) /\ Supplied(Elements(stack[v]), t) => u = v
    /\ \A i, j \in DOMAIN taskEvents :
         taskEvents[i].task = t /\ taskEvents[j].task = t => i = j
    /\ \A p, q \in Copies(t) : p = q

(* It is in at most one of them, and in none before it is submitted.       *)
OnePlace(t) ==
    /\ t \in TasksOf(pool) => ~InFrames(t) /\ ~InEvents(t) /\ Copies(t) = {}
    /\ InFrames(t) => ~InEvents(t) /\ Copies(t) = {}
    /\ InEvents(t) => Copies(t) = {}
    /\ status[t] = "NEW" =>
         t \notin TasksOf(pool) /\ ~InFrames(t) /\ ~InEvents(t) /\ Copies(t) = {}

Alone == \A t \in Tasks : OncePerPlace(t) /\ OnePlace(t)

(* No worker announces its end, so nothing is rescheduled.                 *)
NobodyLeaves ==
    /\ workerEvents = <<>>
    /\ \A th \in Threads : \A f \in Elements(stack[th]) : f.op # "lost"

-----------------------------------------------------------------------------
(* At most once in a sequence. *)

LEMMA OnceInTail ==
    ASSUME NEW S, NEW s \in Seq(S), s # <<>>, NEW t, OnceIn(s, t)
    PROVE  /\ OnceIn(Tail(s), t)
           /\ Supplies(Head(s), t) => ~Supplied(Elements(Tail(s)), t)
  <1>1. /\ Len(s) \in Nat /\ Len(s) > 0 /\ DOMAIN s = 1..Len(s)
        /\ Tail(s) \in Seq(S) /\ DOMAIN Tail(s) = 1..Len(s) - 1
        /\ \A i \in 1..Len(s) - 1 : Tail(s)[i] = s[i + 1] /\ i + 1 \in 1..Len(s) /\ i + 1 # 1
        /\ Head(s) = s[1] /\ 1 \in 1..Len(s)
    OBVIOUS
  <1>2. OnceIn(Tail(s), t)
    <2> SUFFICES ASSUME NEW i \in 1..Len(s) - 1, NEW j \in 1..Len(s) - 1,
                        Supplies(Tail(s)[i], t), Supplies(Tail(s)[j], t)
                 PROVE  i = j
      BY <1>1 DEF OnceIn
    <2>1. i + 1 = j + 1
      BY <1>1 DEF OnceIn
    <2> QED
      BY <2>1
  <1>3. ASSUME Supplies(Head(s), t), NEW i \in 1..Len(s) - 1, Supplies(Tail(s)[i], t)
        PROVE  FALSE
    BY <1>1, <1>3 DEF OnceIn
  <1>4. Supplies(Head(s), t) => ~Supplied(Elements(Tail(s)), t)
    BY <1>1, <1>3 DEF Supplied, Elements
  <1> QED
    BY <1>2, <1>4

LEMMA OnceInConcat ==
    ASSUME NEW S, NEW s \in Seq(S), NEW u \in Seq(S), NEW t, OnceIn(s, t), OnceIn(u, t),
           ~(Supplied(Elements(s), t) /\ Supplied(Elements(u), t))
    PROVE  OnceIn(s \o u, t)
  <1>1. /\ Len(s) \in Nat /\ Len(u) \in Nat
        /\ DOMAIN s = 1..Len(s) /\ DOMAIN u = 1..Len(u)
        /\ DOMAIN (s \o u) = 1..Len(s) + Len(u)
        /\ \A i \in 1..Len(s) : (s \o u)[i] = s[i]
        /\ \A i \in 1..Len(u) : (s \o u)[Len(s) + i] = u[i]
    OBVIOUS
  <1>2. ASSUME NEW i \in 1..Len(s) + Len(u), i \notin 1..Len(s)
        PROVE  i - Len(s) \in 1..Len(u) /\ (s \o u)[i] = u[i - Len(s)]
    BY <1>1, <1>2
  <1> SUFFICES ASSUME NEW i \in 1..Len(s) + Len(u), NEW j \in 1..Len(s) + Len(u),
                      Supplies((s \o u)[i], t), Supplies((s \o u)[j], t)
               PROVE  i = j
    BY <1>1 DEF OnceIn
  <1>3. CASE i \in 1..Len(s) /\ j \in 1..Len(s)
    BY <1>1, <1>3 DEF OnceIn
  <1>4. CASE i \notin 1..Len(s) /\ j \notin 1..Len(s)
    <2>1. i - Len(s) = j - Len(s)
      BY <1>1, <1>2, <1>4 DEF OnceIn
    <2> QED
      BY <1>1, <2>1
  <1>5. ASSUME NEW k \in 1..Len(s), NEW l \in 1..Len(s) + Len(u), l \notin 1..Len(s),
               Supplies((s \o u)[k], t), Supplies((s \o u)[l], t)
        PROVE  FALSE
    <2>1. Supplied(Elements(s), t)
      BY <1>1, <1>5 DEF Supplied, Elements
    <2>2. Supplied(Elements(u), t)
      BY <1>1, <1>2, <1>5 DEF Supplied, Elements
    <2> QED
      BY <2>1, <2>2
  <1> QED
    BY <1>3, <1>4, <1>5

LEMMA OnceInShort ==
    ASSUME NEW f, NEW t
    PROVE  OnceIn(<<f>>, t) /\ OnceIn(<<>>, t)
  BY DEF OnceIn

(* Frames that do not supply a task do not matter for it.                  *)
LEMMA OnceIfNone ==
    ASSUME NEW s, NEW t, ~Supplied(Elements(s), t)
    PROVE  OnceIn(s, t)
  BY DEF OnceIn, Supplied, Elements

-----------------------------------------------------------------------------
(* What one section of a thread does to one task.  f is the section that   *)
(* ran, fs the sections that it left in its place.                         *)
Ending(fs, t) == \E f \in fs : f.op \in Ends /\ f.task = t

SameRecord(t) ==
    /\ status'[t] = status[t]
    /\ assigned'[t] = assigned[t]
    /\ t \in deadLetters' <=> t \in deadLetters
SamePool(t) == t \in TasksOf(pool') <=> t \in TasksOf(pool)
SameCopies(t) == Copies(t)' = Copies(t)

Aside(f, fs, t) ==
    ~Owes(f, t) /\ ~Owed(fs, t) /\ SamePool(t) /\ SameRecord(t) /\ SameCopies(t)

TakenOut(f, fs, t) ==
    /\ ~Owes(f, t) /\ ~Committed(fs, t) /\ ~Ending(fs, t)
    /\ t \in TasksOf(pool) /\ t \notin TasksOf(pool')
    /\ SameRecord(t) /\ SameCopies(t)

HandedOn(f, fs, t) ==
    /\ Supplies(f, t) /\ f.op \notin Ends
    /\ ~Committed(fs, t) /\ ~Ending(fs, t)
    /\ ~(Supplied(fs, t) /\ t \in TasksOf(pool'))
    /\ SameCopies(t)
    /\ t \in deadLetters' <=> t \in deadLetters
    /\ SameRecord(t) \/ status'[t] = "PENDING"

Published(f, fs, t) ==
    /\ f.op = "publish" /\ f.task = t
    /\ fs = {TaskOf("markRunning", t, f.worker)}
    /\ SamePool(t) /\ SameRecord(t)
    /\ f.worker \notin up => SameCopies(t)
    /\ f.worker \in up =>
         \E n \in Nat \ {0} : Copies(t)' = Copies(t) \cup {<<f.worker, n>>}

Marked(f, fs, t) ==
    /\ f.op = "markRunning" /\ f.task = t
    /\ fs = {TaskOf("commit", t, f.worker)}
    /\ SamePool(t) /\ SameRecord(t) /\ SameCopies(t)

Booked(f, fs, t) ==
    /\ f.op = "commit" /\ f.task = t /\ fs = {}
    /\ status'[t] = "DISPATCHED" /\ assigned'[t] = f.worker
    /\ t \in deadLetters' <=> t \in deadLetters
    /\ SamePool(t) /\ SameCopies(t)

Closed(f, fs, t) ==
    /\ f.op \in Ends /\ f.task = t
    /\ ~Committed(fs, t) /\ ~Ending(fs, t)
    /\ SamePool(t) /\ SameCopies(t)
    /\ \/ /\ f.op = "succeeded" /\ ~Supplied(fs, t) /\ status'[t] = "DONE"
          /\ t \in deadLetters' <=> t \in deadLetters
       \/ /\ f.op = "failed" /\ status'[t] = "FAILED"
          /\ \/ t \in deadLetters' <=> t \in deadLetters
             \/ t \in deadLetters' /\ ~Supplied(fs, t)

Move(f, fs, t) ==
    \/ Aside(f, fs, t) \/ TakenOut(f, fs, t) \/ HandedOn(f, fs, t) \/ Published(f, fs, t)
    \/ Marked(f, fs, t) \/ Booked(f, fs, t) \/ Closed(f, fs, t)

(* The whole effect of a section of th.                                    *)
Ran(th, frames) ==
    /\ ~Idle(th) /\ frames \in Seq(SoundFrame) /\ Continue(th, frames)
    /\ \A g \in Elements(frames) : g.op # "lost" /\ (g.op = "publish" => g.worker \in Workers)
    /\ UNCHANGED <<taskEvents, workerEvents, posts, current, phase, up>>
    /\ \A t \in Tasks :
         /\ OneEntry(pool', t) /\ OnceIn(frames, t)
         /\ \A g \in Elements(frames) : g.op \in BatchOps => OneEntry(g.entries, t)
         /\ Move(Top(th), Elements(frames), t)

-----------------------------------------------------------------------------
LEMMA CopyIs ==
    ASSUME NEW t
    PROVE  \A p : p \in Copies(t) <=> \E w \in Workers :
             \/ \E i \in DOMAIN inbox[w] : p = <<w, i>> /\ inbox[w][i] = t
             \/ p = <<w, 0>> /\ current[w] = t /\ phase[w] # "reported"
  BY DEF Copies

LEMMA CopyIsNext ==
    ASSUME NEW t
    PROVE  \A p : p \in Copies(t)' <=> \E w \in Workers :
             \/ \E i \in DOMAIN inbox'[w] : p = <<w, i>> /\ inbox'[w][i] = t
             \/ p = <<w, 0>> /\ current'[w] = t /\ phase'[w] # "reported"
  BY DEF Copies

LEMMA CopiesSame ==
    ASSUME UNCHANGED <<inbox, current, phase>>
    PROVE  \A t : SameCopies(t)
  BY DEF SameCopies, Copies

LEMMA NotSuppliedByPool ==
    ASSUME NEW op \in {"flushDue", "flushAll", "ensureTimer", "cancelTimer", "endBatch"}, NEW t
    PROVE  /\ ~Supplied({[op |-> op]}, t) /\ ~Owed({[op |-> op]}, t) /\ ~Owed({}, t)
           /\ ~Committed({[op |-> op]}, t) /\ ~Ending({[op |-> op]}, t)
  BY DEF Supplied, Owed, Owes, Supplies, Commits, Committed, Ending, PoolOps, BatchOps,
     CommitOps, Ends

(* Frames of one batch and one pool step, as AddToPool and the flushes leave. *)
LEMMA ScanMoves ==
    ASSUME NEW es \in SUBSET Entry, NEW t, OneEntry(es, t),
           NEW fs, fs \subseteq Single(es, "batch") \cup {[op |-> "ensureTimer"]}
    PROVE  /\ ~Committed(fs, t) /\ ~Ending(fs, t)
           /\ Supplied(fs, t) => t \in TasksOf(es)
           /\ Owed(fs, t) => t \in TasksOf(es)
           /\ \A g \in fs : /\ g.op \in BatchOps => OneEntry(g.entries, t)
                            /\ g.op # "lost" /\ g.op # "publish"
  <1>1. \A g \in fs : g = [op |-> "batch", entries |-> es] \/ g = [op |-> "ensureTimer"]
    BY DEF Single
  <1> QED
    BY <1>1 DEF Supplied, Owed, Owes, Supplies, Commits, Committed, Ending, PoolOps,
       BatchOps, CommitOps, Ends

LEMMA OnceInScan ==
    ASSUME NEW es \in SUBSET Entry, NEW t
    PROVE  OnceIn(Scan(es), t) /\ OnceIn(DoBatch("batch", es), t)
  <1>1. /\ DoBatch("batch", es) \in Seq(SoundFrame) /\ Do("ensureTimer") \in Seq(SoundFrame)
    BY DoBatchSound, DoSound
  <1>2. OnceIn(DoBatch("batch", es), t) /\ OnceIn(Do("ensureTimer"), t)
    BY OnceInShort DEF DoBatch, Do
  <1>3. ~Supplied(Elements(Do("ensureTimer")), t)
    BY PoolFrames, NotSuppliedByPool
  <1> QED
    BY <1>1, <1>2, <1>3, OnceInConcat DEF Scan

LEMMA OneEntryMoves ==
    ASSUME NEW p, NEW t, OneEntry(p, t)
    PROVE  /\ \A q \in SUBSET p : OneEntry(q, t)
           /\ \A es : OneEntry(es, t) => OneEntry(Put(p, es), t)
  <1>1. \A q \in SUBSET p : OneEntry(q, t)
    BY DEF OneEntry
  <1>2. ASSUME NEW es, OneEntry(es, t)
        PROVE  OneEntry(Put(p, es), t)
    BY <1>2 DEF OneEntry, Put, TasksOf
  <1> QED
    BY <1>1, <1>2

LEMMA PoolStepMoves ==
    ASSUME IInv, Order, Alone, NEW th \in Threads, PoolStep(th)
    PROVE  \E frames : Ran(th, frames)
  <1>0. /\ UNCHANGED <<taskEvents, workerEvents, posts, current, phase, up, inbox>>
        /\ UNCHANGED <<status, assigned, deadLetters>>
        /\ \A t \in Tasks : SameRecord(t) /\ SameCopies(t)
    <2>1. UNCHANGED <<records, channels, processes>>
      BY DEF PoolStep, AddToPool, FlushDue, FlushAll, ClearFromPool, EnsureTimer, CancelTimer
    <2> QED
      BY <2>1, CopiesSame DEF records, channels, processes, SameRecord
  <1>p. pool \subseteq Entry /\ \A t \in Tasks : OneEntry(pool, t)
    BY DEF IInv, PoolingTyped, Alone, OncePerPlace
  <1>1. CASE AddToPool(th)
    <2> DEFINE t0 == Top(th).task
               new == {[task |-> t0, worker |-> Top(th).worker]}
               all == Put(pool, new)
               due == DueBatch(all)
    <2>1. t0 \in Tasks /\ Top(th).worker \in Workers \cup {NoWorker} /\ ~Idle(th)
      BY <1>1, TopTask DEF AddToPool, IInv
    <2>2. all \subseteq Entry /\ due \subseteq all /\ due \subseteq Entry
      BY <1>p, <2>1, PutTyped, DueBatchInPool DEF Entry
    <2>3. Continue(th, Scan(due)) /\ pool' = all \ due /\ Top(th).op = "add"
      BY <1>1 DEF AddToPool, Scan, At
    <2>4. TasksOf(all) = TasksOf(pool) \cup {t0}
      BY <2>1 DEF Put, TasksOf
    <2>5. \A t \in Tasks : OneEntry(all, t)
      <3>1. \A t \in Tasks : OneEntry(new, t)
        BY DEF OneEntry
      <3> QED
        BY <1>p, <3>1, OneEntryMoves
    <2>6. /\ Scan(due) \in Seq(SoundFrame)
          /\ Elements(Scan(due)) = Single(due, "batch") \cup {[op |-> "ensureTimer"]}
      BY <2>2, ScanFrames
    <2> HIDE DEF new, all, due
    <2>7. ASSUME NEW t \in Tasks
          PROVE  /\ OneEntry(pool', t) /\ OnceIn(Scan(due), t)
                 /\ \A g \in Elements(Scan(due)) : /\ g.op \in BatchOps => OneEntry(g.entries, t)
                                                   /\ g.op # "lost" /\ g.op # "publish"
                 /\ Move(Top(th), Elements(Scan(due)), t)
      <3>1. OneEntry(due, t) /\ OneEntry(pool', t)
        BY <2>2, <2>3, <2>5 DEF OneEntry
      <3>2. /\ ~Committed(Elements(Scan(due)), t) /\ ~Ending(Elements(Scan(due)), t)
            /\ Supplied(Elements(Scan(due)), t) => t \in TasksOf(due)
            /\ Owed(Elements(Scan(due)), t) => t \in TasksOf(due)
            /\ \A g \in Elements(Scan(due)) : /\ g.op \in BatchOps => OneEntry(g.entries, t)
                                              /\ g.op # "lost" /\ g.op # "publish"
        BY <2>2, <2>6, <3>1, ScanMoves
      <3>3. t \in TasksOf(due) => t \in TasksOf(all) /\ t \notin TasksOf(pool')
        BY <2>2, <2>3, <2>5 DEF TasksOf, OneEntry
      <3>4. t \in TasksOf(pool') <=> t \in TasksOf(all) /\ t \notin TasksOf(due)
        BY <2>2, <2>3, <3>3 DEF TasksOf
      <3>5. CASE t = t0
        <4>1. Supplies(Top(th), t) /\ Top(th).op \notin Ends
          BY <2>3, <3>5 DEF Supplies, PoolOps, Ends
        <4> QED
          BY <1>0, <2>2, <3>1, <3>2, <3>3, <4>1, OnceInScan DEF Move, HandedOn, SameRecord
      <3>6. CASE t # t0
        <4>1. ~Owes(Top(th), t)
          BY <2>3, <3>6 DEF Owes, Supplies, Commits, CommitOps, BatchOps
        <4>2. CASE t \in TasksOf(due)
          BY <1>0, <2>2, <2>4, <3>1, <3>2, <3>3, <3>6, <4>1, <4>2, OnceInScan DEF Move, TakenOut
        <4>3. CASE t \notin TasksOf(due)
          <5>1. SamePool(t)
            BY <2>4, <3>4, <3>6, <4>3 DEF SamePool
          <5> QED
            BY <1>0, <2>2, <3>1, <3>2, <4>1, <4>3, <5>1, OnceInScan DEF Move, Aside
        <4> QED
          BY <4>2, <4>3
      <3> QED
        BY <3>5, <3>6
    <2>8. Ran(th, Scan(due))
      BY <1>0, <2>1, <2>3, <2>6, <2>7, ConstantsAssumption DEF Ran, Tasks
    <2> QED
      BY <2>8
  <1>2. CASE FlushDue(th) \/ FlushAll(th)
    <2>1. PICK due \in SUBSET pool :
            /\ pool' = pool \ due
            /\ \/ Continue(th, Scan(due))
               \/ Continue(th, Do("ensureTimer"))
               \/ Continue(th, DoBatch("batch", due))
      <3>1. CASE FlushDue(th)
        <4>1. DueBatch(pool) \in SUBSET pool
          BY <1>p, DueBatchInPool
        <4>2. /\ pool' = pool \ DueBatch(pool)
              /\ \/ Continue(th, Do("ensureTimer"))
                 \/ Continue(th, DoBatch("batch", DueBatch(pool)))
          BY <3>1 DEF FlushDue
        <4> QED
          BY <4>1, <4>2
      <3>2. CASE FlushAll(th)
        <4>1. Continue(th, Scan(pool)) /\ pool' = pool \ pool
          BY <3>2 DEF FlushAll, Scan
        <4> QED
          BY <4>1
      <3> QED
        BY <1>2, <3>1, <3>2
    <2>1f. PICK frames \in {Scan(due), Do("ensureTimer"), DoBatch("batch", due)} :
             Continue(th, frames)
      BY <2>1
    <2>2. ~Idle(th) /\ Top(th).op \in {"flushDue", "flushAll"} /\ due \subseteq Entry
      BY <1>2, <1>p DEF FlushDue, FlushAll, At
    <2>3. /\ frames \in Seq(SoundFrame)
          /\ Elements(frames) \subseteq Single(due, "batch") \cup {[op |-> "ensureTimer"]}
      <3>1. CASE frames = Scan(due)
        BY <2>2, <3>1, ScanFrames
      <3>2. CASE frames = Do("ensureTimer")
        BY <3>2, PoolFrames
      <3>3. CASE frames = DoBatch("batch", due)
        BY <2>2, <3>3, DoBatchSound, ElementsOfBatch DEF Single
      <3> QED
        BY <2>1f, <3>1, <3>2, <3>3
    <2>4. ASSUME NEW t \in Tasks
          PROVE  /\ OneEntry(pool', t) /\ OnceIn(frames, t)
                 /\ \A g \in Elements(frames) : /\ g.op \in BatchOps => OneEntry(g.entries, t)
                                                /\ g.op # "lost" /\ g.op # "publish"
                 /\ Move(Top(th), Elements(frames), t)
      <3>1. OneEntry(due, t) /\ OneEntry(pool', t)
        BY <1>p, <2>1 DEF OneEntry
      <3>2. /\ ~Committed(Elements(frames), t) /\ ~Ending(Elements(frames), t)
            /\ Owed(Elements(frames), t) => t \in TasksOf(due)
            /\ \A g \in Elements(frames) : /\ g.op \in BatchOps => OneEntry(g.entries, t)
                                           /\ g.op # "lost" /\ g.op # "publish"
        BY <2>2, <2>3, <3>1, ScanMoves
      <3>3. OnceIn(frames, t)
        BY <2>1f, <2>2, OnceInScan, OnceInShort DEF Do
      <3>4. t \in TasksOf(due) => t \in TasksOf(pool) /\ t \notin TasksOf(pool')
        BY <1>p, <2>1 DEF TasksOf, OneEntry
      <3>5. t \notin TasksOf(due) => SamePool(t)
        BY <2>1 DEF TasksOf, SamePool
      <3>6. ~Owes(Top(th), t)
        BY <2>2 DEF Owes, Supplies, Commits, CommitOps, BatchOps, PoolOps
      <3> QED
        BY <1>0, <3>1, <3>2, <3>3, <3>4, <3>5, <3>6 DEF Move, TakenOut, Aside
    <2>5. \A g \in Elements(frames) : g.op # "lost" /\ g.op # "publish"
      <3>1. 1 \in Tasks
        BY ConstantsAssumption DEF Tasks
      <3> QED
        BY <2>4, <3>1
    <2>6. Ran(th, frames)
      BY <1>0, <2>1f, <2>2, <2>3, <2>4, <2>5 DEF Ran
    <2> QED
      BY <2>6
  <1>3. CASE ClearFromPool(th) \/ EnsureTimer(th) \/ CancelTimer(th)
    <2>1. /\ ~Idle(th) /\ Top(th).op \in {"clear", "ensureTimer", "endBatch", "cancelTimer"}
          /\ \/ pool' = pool
             \/ /\ Top(th).op = "clear"
                /\ pool' = {e \in pool : e.task # Top(th).task}
          /\ Continue(th, <<>>) \/ Continue(th, Do("cancelTimer"))
      <3>1. CASE ClearFromPool(th)
        BY <3>1 DEF ClearFromPool, At
      <3>2. CASE EnsureTimer(th)
        <4>1. (At(th, "ensureTimer") \/ At(th, "endBatch")) /\ pool' = pool
          BY <3>2 DEF EnsureTimer
        <4>2. Continue(th, <<>>) \/ Continue(th, Do("cancelTimer"))
          BY <3>2 DEF EnsureTimer
        <4> QED
          BY <4>1, <4>2 DEF At
      <3>3. CASE CancelTimer(th)
        <4>1. At(th, "cancelTimer") /\ pool' = pool /\ Continue(th, <<>>)
          BY <3>3 DEF CancelTimer
        <4> QED
          BY <4>1 DEF At
      <3> QED
        BY <1>3, <3>1, <3>2, <3>3
    <2>2. PICK frames \in {<<>>, Do("cancelTimer")} : Continue(th, frames)
      BY <2>1
    <2>3. frames \in Seq(SoundFrame) /\ Elements(frames) \in {{}, {[op |-> "cancelTimer"]}}
      <3>1. CASE frames = <<>>
        BY <3>1, EmptySeq, ElementsOfEmpty
      <3>2. CASE frames = Do("cancelTimer")
        BY <3>2, PoolFrames
      <3> QED
        BY <2>2, <3>1, <3>2
    <2>4. /\ \A t : OnceIn(frames, t) /\ ~Owed(Elements(frames), t)
          /\ \A g \in Elements(frames) : g.op = "cancelTimer"
      <3>1. \A t : OnceIn(frames, t)
        BY <2>2, OnceInShort DEF Do
      <3>2. \A t : ~Owed({[op |-> "cancelTimer"]}, t) /\ ~Owed({}, t)
        BY NotSuppliedByPool
      <3> QED
        <4>1. CASE frames = <<>>
          BY <3>1, <3>2, <4>1, ElementsOfEmpty
        <4>2. CASE frames = Do("cancelTimer")
          <5>1. Elements(frames) = {[op |-> "cancelTimer"]}
            BY <4>2, PoolFrames
          <5> QED
            BY <3>1, <3>2, <5>1
        <4> QED
          BY <2>2, <4>1, <4>2
    <2>5. \A t \in Tasks : SamePool(t) /\ OneEntry(pool', t)
      <3>1. \A t \in Tasks : OneEntry(pool', t)
        BY <1>p, <2>1 DEF OneEntry
      <3>2. ASSUME Top(th).op = "clear", pool' = {e \in pool : e.task # Top(th).task}
            PROVE  Top(th).task \notin TasksOf(pool)
        <4>1. stack[th] \in Seq(SoundFrame) /\ stack[th] # <<>> /\ Orderly(stack[th])
          BY <2>1 DEF IInv, Sound, Idle, Order
        <4>2. PICK g \in Elements(Tail(stack[th])) : g.op \in Ends /\ g.task = Top(th).task
          BY <3>2, <4>1 DEF Orderly, Fits, Top
        <4>3. g \in Elements(stack[th])
          BY <4>1, <4>2, ElementsOfTail
        <4>4. g \in SoundFrame /\ g.task \in Tasks
          BY <4>1, <4>2, <4>3 DEF Elements, SoundFrame, TaskFrame, BatchFrame, PoolFrame, Ends
        <4>5. InFrames(g.task)
          BY <4>2, <4>3 DEF InFrames, Supplied, Supplies, PoolOps, Ends
        <4> QED
          BY <4>2, <4>4, <4>5 DEF Alone, OnePlace
      <3> QED
        BY <2>1, <3>1, <3>2 DEF SamePool, TasksOf
    <2>6. \A t \in Tasks : ~Owes(Top(th), t)
      BY <2>1 DEF Owes, Supplies, Commits, CommitOps, BatchOps, PoolOps
    <2>7. Ran(th, frames)
      BY <1>0, <2>1, <2>2, <2>3, <2>4, <2>5, <2>6 DEF Ran, Move, Aside, BatchOps
    <2> QED
      BY <2>7
  <1> QED
    BY <1>1, <1>2, <1>3 DEF PoolStep

(* A single frame for t, whatever follows it: t is not in the rest.        *)
LEMMA OnceInOneOf ==
    ASSUME NEW op \in {"requeue", "publish"}, NEW t \in Runnable, NEW w \in Workers \cup {NoWorker},
           NEW rest \in SUBSET Entry, TasksOf(rest) \subseteq Runnable, t \notin TasksOf(rest)
    PROVE  \A u : OnceIn(OneOf(op, t, w, rest), u)
  <1>1. /\ DoTask(op, t, w) \in Seq(SoundFrame) /\ DoBatch("plans", rest) \in Seq(SoundFrame)
    BY DoTaskSound, DoBatchSound DEF Runnable
  <1>2. /\ Elements(DoTask(op, t, w)) = {TaskOf(op, t, w)}
        /\ Elements(DoBatch("plans", rest)) = Single(rest, "plans")
    BY ElementsOfTask, ElementsOfBatch DEF Single, TaskOf
  <1> SUFFICES ASSUME NEW u
               PROVE  OnceIn(OneOf(op, t, w, rest), u)
    OBVIOUS
  <1>3. OnceIn(DoTask(op, t, w), u) /\ OnceIn(DoBatch("plans", rest), u)
    BY OnceInShort DEF DoTask, DoBatch
  <1>4. Supplied({TaskOf(op, t, w)}, u) => u = t
    BY DEF Supplied, Supplies, TaskOf, BatchOps
  <1>5. Supplied(Single(rest, "plans"), u) => u \in TasksOf(rest)
    BY DEF Supplied, Supplies, Single, PoolOps
  <1> QED
    BY <1>1, <1>2, <1>3, <1>4, <1>5, OnceInConcat DEF OneOf

LEMMA OnceInSorted ==
    ASSUME NEW late \in SUBSET Entry, NEW ready \in SUBSET Entry, TasksOf(ready) \subseteq Runnable,
           NEW t, ~(t \in TasksOf(late) /\ t \in TasksOf(ready))
    PROVE  OnceIn(Sorted(late, ready), t)
  <1>1. /\ DoBatch("defer", late) \in Seq(SoundFrame) /\ DoBatch("plans", ready) \in Seq(SoundFrame)
        /\ Do("endBatch") \in Seq(SoundFrame)
    BY DoSound, DoBatchSound
  <1>2. /\ Elements(DoBatch("defer", late)) = Single(late, "defer")
        /\ Elements(DoBatch("plans", ready)) = Single(ready, "plans")
    BY ElementsOfBatch DEF Single
  <1>3. /\ OnceIn(DoBatch("defer", late), t) /\ OnceIn(DoBatch("plans", ready), t)
        /\ OnceIn(Do("endBatch"), t)
    BY OnceInShort DEF Do, DoBatch
  <1>4. /\ Supplied(Single(late, "defer"), t) => t \in TasksOf(late)
        /\ Supplied(Single(ready, "plans"), t) => t \in TasksOf(ready)
    BY DEF Supplied, Supplies, Single, PoolOps
  <1>5. /\ DoBatch("defer", late) \o DoBatch("plans", ready) \in Seq(SoundFrame)
        /\ OnceIn(DoBatch("defer", late) \o DoBatch("plans", ready), t)
    BY <1>1, <1>2, <1>3, <1>4, ConcatInSeq, OnceInConcat
  <1>6. ~Supplied(Elements(Do("endBatch")), t)
    BY PoolFrames, NotSuppliedByPool
  <1> QED
    BY <1>1, <1>3, <1>5, <1>6, OnceInConcat DEF Sorted

LEMMA OnceInBackIn ==
    ASSUME NEW t \in Tasks, NEW w \in Workers \cup {NoWorker}
    PROVE  \A u : OnceIn(BackIn(t, w), u)
  <1>1. DoTask("add", t, w) \in Seq(SoundFrame) /\ Do("flushDue") \in Seq(SoundFrame)
    BY DoTaskSound, DoSound
  <1>2. \A u : OnceIn(DoTask("add", t, w), u) /\ OnceIn(Do("flushDue"), u)
    BY OnceInShort DEF DoTask, Do
  <1>3. \A u : ~Supplied(Elements(Do("flushDue")), u)
    BY PoolFrames, NotSuppliedByPool
  <1> QED
    BY <1>1, <1>2, <1>3, OnceInConcat DEF BackIn

(* What frames of a task and of a batch are to some task.                  *)
LEMMA TaskFrameIs ==
    ASSUME NEW op \in {"add", "publish", "requeue", "markRunning", "commit"},
           NEW t0, NEW w, NEW t
    PROVE  LET fs == {TaskOf(op, t0, w)} IN
           /\ ~Ending(fs, t)
           /\ Owed(fs, t) => t = t0
           /\ op \notin CommitOps => ~Committed(fs, t)
           /\ Supplied(fs, t) => op \notin CommitOps
           /\ Committed(fs, t) => t = t0
  BY DEF Ending, Ends, Owed, Owes, Supplied, Supplies, Committed, Commits, TaskOf, CommitOps,
     BatchOps, PoolOps

LEMMA BatchFrameIs ==
    ASSUME NEW op \in BatchOps, NEW es, NEW t
    PROVE  LET fs == Single(es, op) IN
           /\ ~Ending(fs, t) /\ ~Committed(fs, t)
           /\ Owed(fs, t) => t \in TasksOf(es)
           /\ Supplied(fs, t) => t \in TasksOf(es)
  BY DEF Ending, Ends, Owed, Owes, Supplied, Supplies, Committed, Commits, Single, CommitOps,
     BatchOps, PoolOps

LEMMA FramesTogether ==
    ASSUME NEW fs, NEW gs, NEW t
    PROVE  /\ Ending(fs \cup gs, t) <=> Ending(fs, t) \/ Ending(gs, t)
           /\ Owed(fs \cup gs, t) <=> Owed(fs, t) \/ Owed(gs, t)
           /\ Supplied(fs \cup gs, t) <=> Supplied(fs, t) \/ Supplied(gs, t)
           /\ Committed(fs \cup gs, t) <=> Committed(fs, t) \/ Committed(gs, t)
  BY DEF Ending, Owed, Supplied, Committed

(* What the dispatcher never touches, whatever the step.                   *)
LEMMA QuietRecords ==
    ASSUME UNCHANGED <<records, channels, current, phase, inbox>>
    PROVE  /\ \A t : SameRecord(t) /\ SameCopies(t)
           /\ UNCHANGED <<taskEvents, workerEvents, posts, current, phase>>
  BY CopiesSame DEF records, channels, SameRecord

LEMMA FilterBatchMoves ==
    ASSUME IInv, Alone, NEW th \in Threads, FilterBatch(th)
    PROVE  \E frames : Ran(th, frames)
  <1> DEFINE es == Top(th).entries
             ready == {e \in es : Ready(e.task)}
  <1>1. es \subseteq Entry /\ ~Idle(th) /\ Top(th).op = "batch"
    BY TopBatch DEF FilterBatch, At, IInv
  <1>2. TasksOf(ready) \subseteq Runnable
    BY <1>1, ReadyIsRunnable DEF TasksOf, Entry, IInv
  <1>3. /\ Continue(th, Sorted(es \ ready, ready)) /\ pool' = pool
        /\ \A t : SameRecord(t) /\ SameCopies(t)
        /\ UNCHANGED <<taskEvents, workerEvents, posts, current, phase, up>>
    BY QuietRecords DEF FilterBatch, Sorted, pooling, processes
  <1>4. \A t \in Tasks : OneEntry(es, t) /\ OneEntry(pool, t)
    <2>1. stack[th] \in Seq(SoundFrame) /\ stack[th] # <<>>
      BY <1>1 DEF IInv, Sound, Idle
    <2>2. Top(th) \in Elements(stack[th])
      BY <2>1, ElementsOfTail DEF Top
    <2> QED
      BY <1>1, <2>2 DEF Alone, OncePerPlace, BatchOps
  <1>5. ready \subseteq es
    OBVIOUS
  <1> HIDE DEF ready
  <1> DEFINE late == es \ ready
             frames == Sorted(late, ready)
             fs == Elements(frames)
  <1>6. /\ frames \in Seq(SoundFrame)
        /\ fs = Single(late, "defer") \cup Single(ready, "plans") \cup {[op |-> "endBatch"]}
    BY <1>1, <1>2, <1>5, SortedFrames
  <1>6s. \A g \in fs : \/ g = [op |-> "defer", entries |-> late]
                      \/ g = [op |-> "plans", entries |-> ready]
                      \/ g = [op |-> "endBatch"]
    BY <1>6 DEF Single
  <1>7. ASSUME NEW t \in Tasks
        PROVE  /\ OneEntry(pool', t) /\ OnceIn(frames, t)
               /\ \A g \in fs : g.op \in BatchOps => OneEntry(g.entries, t)
               /\ Move(Top(th), fs, t)
    <2>1. OneEntry(late, t) /\ OneEntry(ready, t) /\ OneEntry(pool', t)
      BY <1>3, <1>4, <1>5 DEF OneEntry
    <2>2. ~(t \in TasksOf(late) /\ t \in TasksOf(ready))
      BY <1>4, <1>5 DEF OneEntry, TasksOf
    <2>3. OnceIn(frames, t)
      BY <1>1, <1>2, <1>5, <2>2, OnceInSorted
    <2>4. \A g \in fs : g.op \in BatchOps => OneEntry(g.entries, t)
      BY <1>6s, <2>1 DEF BatchOps
    <2>5. /\ ~Ending(fs, t) /\ ~Committed(fs, t)
          /\ Owed(fs, t) => t \in TasksOf(es)
      <3>1. /\ ~Ending(Single(late, "defer"), t) /\ ~Committed(Single(late, "defer"), t)
            /\ Owed(Single(late, "defer"), t) => t \in TasksOf(late)
        BY BatchFrameIs DEF BatchOps
      <3>2. /\ ~Ending(Single(ready, "plans"), t) /\ ~Committed(Single(ready, "plans"), t)
            /\ Owed(Single(ready, "plans"), t) => t \in TasksOf(ready)
        BY BatchFrameIs DEF BatchOps
      <3>3. TasksOf(late) \subseteq TasksOf(es) /\ TasksOf(ready) \subseteq TasksOf(es)
        BY <1>5 DEF TasksOf
      <3> DEFINE both == Single(late, "defer") \cup Single(ready, "plans")
                 last == {[op |-> "endBatch"]}
      <3>4. /\ ~Ending(both, t) /\ ~Committed(both, t)
            /\ Owed(both, t) => t \in TasksOf(es)
        BY <3>1, <3>2, <3>3, FramesTogether
      <3>5. ~Ending(last, t) /\ ~Committed(last, t) /\ ~Owed(last, t)
        BY NotSuppliedByPool
      <3>6. fs = both \cup last
        BY <1>6
      <3> HIDE DEF both, last, fs
      <3> QED
        BY <3>4, <3>5, <3>6, FramesTogether
    <2>6. Supplies(Top(th), t) <=> t \in TasksOf(es)
      BY <1>1 DEF Supplies, PoolOps, BatchOps
    <2>7. Owes(Top(th), t) <=> t \in TasksOf(es)
      BY <1>1, <2>6 DEF Owes, Commits, CommitOps
    <2>8. CASE t \in TasksOf(es)
      <3>1. t \notin TasksOf(pool')
        <4>1. InFrames(t)
          <5>1. stack[th] \in Seq(SoundFrame) /\ stack[th] # <<>>
            BY <1>1 DEF IInv, Sound, Idle
          <5>2. Top(th) \in Elements(stack[th])
            BY <5>1, ElementsOfTail DEF Top
          <5> QED
            BY <2>6, <2>8, <5>2 DEF InFrames, Supplied
        <4> QED
          BY <1>3, <4>1 DEF Alone, OnePlace
      <3>2. HandedOn(Top(th), fs, t)
        BY <1>1, <1>3, <2>5, <2>6, <2>8, <3>1 DEF HandedOn, Ends, SameRecord
      <3> QED
        BY <2>1, <2>3, <2>4, <3>2 DEF Move
    <2>9. CASE t \notin TasksOf(es)
      <3>1. Aside(Top(th), fs, t)
        BY <1>3, <2>5, <2>7, <2>9 DEF Aside, SamePool
      <3> QED
        BY <2>1, <2>3, <2>4, <3>1 DEF Move
    <2> QED
      BY <2>8, <2>9
  <1>8. \A g \in fs : g.op # "lost" /\ g.op # "publish"
    BY <1>6s
  <1> QED
    BY <1>1, <1>3, <1>6, <1>7, <1>8 DEF Ran

LEMMA PutBackMoves ==
    ASSUME IInv, Alone, NEW th \in Threads, PutBackDeferred(th)
    PROVE  \E frames : Ran(th, frames)
  <1> DEFINE es == Top(th).entries
  <1>1. es \subseteq Entry /\ ~Idle(th) /\ Top(th).op = "defer"
    BY TopBatch DEF PutBackDeferred, At, IInv
  <1>2. /\ Continue(th, <<>>) /\ pool' = Put(pool, es)
        /\ \A t : SameRecord(t) /\ SameCopies(t)
        /\ UNCHANGED <<taskEvents, workerEvents, posts, current, phase, up>>
    BY QuietRecords DEF PutBackDeferred, processes
  <1>3. \A t \in Tasks : OneEntry(es, t) /\ OneEntry(pool, t)
    <2>1. stack[th] \in Seq(SoundFrame) /\ stack[th] # <<>>
      BY <1>1 DEF IInv, Sound, Idle
    <2>2. Top(th) \in Elements(stack[th])
      BY <2>1, ElementsOfTail DEF Top
    <2> QED
      BY <1>1, <2>2 DEF Alone, OncePerPlace, BatchOps
  <1>4. ASSUME NEW t \in Tasks
        PROVE  OneEntry(pool', t) /\ Move(Top(th), {}, t)
    <2>1. OneEntry(pool', t)
      BY <1>2, <1>3, OneEntryMoves
    <2>2. ~Supplied({}, t) /\ ~Committed({}, t) /\ ~Ending({}, t) /\ ~Owed({}, t)
      BY DEF Supplied, Committed, Ending, Owed
    <2>3. CASE t \in TasksOf(es)
      <3>1. Supplies(Top(th), t)
        BY <1>1, <2>3 DEF Supplies, BatchOps
      <3> QED
        BY <1>1, <1>2, <2>1, <2>2, <3>1 DEF Move, HandedOn, Ends, SameRecord
    <2>4. CASE t \notin TasksOf(es)
      <3>1. ~Owes(Top(th), t)
        BY <1>1, <2>4 DEF Owes, Supplies, Commits, CommitOps, PoolOps
      <3>2. SamePool(t)
        BY <1>2, <2>4 DEF SamePool, Put, TasksOf
      <3> QED
        BY <1>2, <2>1, <2>2, <3>1, <3>2 DEF Move, Aside
    <2> QED
      BY <2>3, <2>4
  <1> QED
    BY <1>1, <1>2, <1>4, EmptySeq, ElementsOfEmpty, OnceInShort DEF Ran

LEMMA PlanNextMoves ==
    ASSUME IInv, Alone, NEW th \in Threads, PlanNext(th)
    PROVE  \E frames : Ran(th, frames)
  <1> DEFINE es == Top(th).entries
  <1>1. /\ es \subseteq Entry /\ ~Idle(th) /\ TasksOf(es) \subseteq Runnable
        /\ Top(th).op = "plans"
    BY TopBatch DEF PlanNext, At, IInv
  <1>2. /\ pool' = pool
        /\ \A t : SameRecord(t) /\ SameCopies(t)
        /\ UNCHANGED <<taskEvents, workerEvents, posts, current, phase, up>>
    BY QuietRecords DEF PlanNext, pooling, processes
  <1>3. Top(th) \in Elements(stack[th])
    <2>1. stack[th] \in Seq(SoundFrame) /\ stack[th] # <<>>
      BY <1>1 DEF IInv, Sound, Idle
    <2> QED
      BY <2>1, ElementsOfTail DEF Top
  <1>4. \A t \in Tasks : OneEntry(es, t) /\ OneEntry(pool, t)
    BY <1>1, <1>3 DEF Alone, OncePerPlace, BatchOps
  <1>5. \A t \in Tasks : Supplies(Top(th), t) <=> t \in TasksOf(es)
    BY <1>1 DEF Supplies, PoolOps, BatchOps
  <1>6. \A t \in Tasks : Owes(Top(th), t) <=> t \in TasksOf(es)
    BY <1>1, <1>5 DEF Owes, Commits, CommitOps
  <1>7. \A t \in Tasks : t \in TasksOf(es) => t \notin TasksOf(pool')
    BY <1>2, <1>3, <1>5 DEF Alone, OnePlace, InFrames, Supplied
  <1>8. ASSUME NEW rest \in SUBSET es, NEW frames \in Seq(SoundFrame), Continue(th, frames),
               NEW fs, fs = Elements(frames), \A t \in Tasks : OnceIn(frames, t),
               \A t \in Tasks : /\ ~Ending(fs, t) /\ ~Committed(fs, t)
                                /\ Owed(fs, t) => t \in TasksOf(es),
               \A g \in fs : /\ g.op # "lost"
                             /\ g.op \in BatchOps => g.entries \subseteq es
                             /\ g.op = "publish" => g.worker \in Workers
        PROVE  Ran(th, frames)
    <2>1. ASSUME NEW t \in Tasks
          PROVE  /\ OneEntry(pool', t)
                 /\ \A g \in fs : g.op \in BatchOps => OneEntry(g.entries, t)
                 /\ Move(Top(th), fs, t)
      <3>1. OneEntry(pool', t) /\ \A g \in fs : g.op \in BatchOps => OneEntry(g.entries, t)
        BY <1>2, <1>4, <1>8 DEF OneEntry
      <3>2. CASE t \in TasksOf(es)
        BY <1>1, <1>2, <1>5, <1>7, <1>8, <3>1, <3>2 DEF Move, HandedOn, Ends, SameRecord
      <3>3. CASE t \notin TasksOf(es)
        BY <1>2, <1>6, <1>8, <3>1, <3>3 DEF Move, Aside, SamePool
      <3> QED
        BY <3>2, <3>3
    <2> QED
      BY <1>1, <1>2, <1>8, <2>1 DEF Ran
  <1>9. PICK e \in es, rest \in SUBSET Entry :
          /\ rest = es \ {e}
          /\ \/ Continue(th, DoBatch("plans", rest))
             \/ \E w \in Workers \cup {NoWorker} : Continue(th, OneOf("requeue", e.task, w, rest))
             \/ \E w \in Workers : Continue(th, OneOf("publish", e.task, w, rest))
    <2>1. \A w \in IdleWorkers : w \in Workers
      BY DEF IdleWorkers, IInv, FleetTyped
    <2>2. \A e \in es : e.worker \in Workers \cup {NoWorker}
      BY <1>1 DEF Entry
    <2> QED
      BY <1>1, <2>1, <2>2 DEF PlanNext, Earliest, OneOf
  <1>10. /\ rest \subseteq es /\ TasksOf(rest) \subseteq Runnable /\ TasksOf(rest) \subseteq TasksOf(es)
         /\ e.task \in Runnable /\ e.task \in Tasks /\ e.task \in TasksOf(es)
         /\ e.task \notin TasksOf(rest)
    BY <1>1, <1>4, <1>9 DEF TasksOf, Runnable, OneEntry
  <1>11. \A t \in Tasks : /\ ~Ending(Single(rest, "plans"), t) /\ ~Committed(Single(rest, "plans"), t)
                          /\ Owed(Single(rest, "plans"), t) => t \in TasksOf(es)
    BY <1>10, BatchFrameIs DEF BatchOps
  <1>12. CASE Continue(th, DoBatch("plans", rest))
    <2> DEFINE frames == DoBatch("plans", rest)
    <2>1. /\ frames \in Seq(SoundFrame) /\ Elements(frames) = Single(rest, "plans")
          /\ \A t \in Tasks : OnceIn(frames, t)
      BY <1>10, DoBatchSound, ElementsOfBatch, OnceInShort DEF Single, DoBatch
    <2>2. Continue(th, frames)
      BY <1>12
    <2>3. \A g \in Single(rest, "plans") : g.op = "plans" /\ g.entries = rest
      BY DEF Single
    <2> HIDE DEF frames
    <2> QED
      BY <1>8, <1>10, <1>11, <2>1, <2>2, <2>3
  <1>13. ASSUME NEW op \in {"requeue", "publish"}, NEW w \in Workers \cup {NoWorker},
                Continue(th, OneOf(op, e.task, w, rest)), op = "publish" => w \in Workers
         PROVE  \E frames : Ran(th, frames)
    <2> DEFINE frames == OneOf(op, e.task, w, rest)
               fs == {TaskOf(op, e.task, w)} \cup Single(rest, "plans")
    <2>0. PICK t0 \in Runnable : t0 = e.task
      BY <1>10
    <2>1. /\ frames \in Seq(SoundFrame) /\ Elements(frames) = fs
          /\ \A t \in Tasks : OnceIn(frames, t)
      <3>1. frames \in Seq(SoundFrame) /\ Elements(frames) = fs
        <4>1. /\ OneOf(op, t0, w, rest) \in Seq(SoundFrame)
              /\ Elements(OneOf(op, t0, w, rest)) = {TaskOf(op, t0, w)} \cup Single(rest, "plans")
          BY <1>10, OneOfFrames
        <4> QED
          BY <2>0, <4>1
      <3>2. \A t \in Tasks : OnceIn(frames, t)
        BY <1>10, <2>0, OnceInOneOf
      <3> QED
        BY <3>1, <3>2
    <2>2. Continue(th, frames)
      BY <1>13
    <2>3. ASSUME NEW t \in Tasks
          PROVE  /\ ~Ending(fs, t) /\ ~Committed(fs, t)
                 /\ Owed(fs, t) => t \in TasksOf(es)
      <3>1. /\ ~Ending({TaskOf(op, e.task, w)}, t) /\ ~Committed({TaskOf(op, e.task, w)}, t)
            /\ Owed({TaskOf(op, e.task, w)}, t) => t = e.task
        BY TaskFrameIs DEF CommitOps
      <3> QED
        BY <1>10, <1>11, <3>1, FramesTogether
    <2>4. \A g \in fs : /\ g.op # "lost"
                        /\ g.op \in BatchOps => g.entries \subseteq es
                        /\ g.op = "publish" => g.worker \in Workers
      BY <1>10, <1>13 DEF TaskOf, Single, BatchOps
    <2> HIDE DEF frames, fs
    <2> QED
      BY <1>8, <1>10, <2>1, <2>2, <2>3, <2>4
  <1> QED
    BY <1>9, <1>12, <1>13

(* A section about the task t0 alone: to show is what it does to t0.       *)
LEMMA AloneMoves ==
    ASSUME IInv, Alone, NEW th \in Threads, NEW t0 \in Tasks, ~Idle(th),
           Top(th).op \in PoolOps \cup {"publish"} \cup CommitOps, Top(th).task = t0,
           pool' = pool, UNCHANGED <<taskEvents, workerEvents, posts, current, phase, up>>,
           NEW frames \in Seq(SoundFrame), Continue(th, frames), \A t \in Tasks : OnceIn(frames, t),
           \A t \in Tasks \ {t0} : ~Owed(Elements(frames), t) /\ SameRecord(t) /\ SameCopies(t),
           \A g \in Elements(frames) : g.op \notin BatchOps \cup {"lost", "publish"},
           Move(Top(th), Elements(frames), t0)
    PROVE  Ran(th, frames)
  <1>1. ASSUME NEW t \in Tasks
        PROVE  OneEntry(pool', t) /\ Move(Top(th), Elements(frames), t)
    <2>1. CASE t = t0
      BY <2>1 DEF Alone, OncePerPlace
    <2>2. CASE t # t0
      <3>1. ~Owes(Top(th), t)
        BY <2>2 DEF Owes, Supplies, Commits, BatchOps, PoolOps, CommitOps
      <3> QED
        BY <2>2, <3>1 DEF Alone, OncePerPlace, Move, Aside, SamePool
    <2> QED
      BY <2>1, <2>2
  <1> QED
    BY <1>1 DEF Ran

LEMMA TopIsElsewhere ==
    ASSUME IInv, Alone, NEW th \in Threads, ~Idle(th), NEW t \in Tasks, Supplies(Top(th), t)
    PROVE  t \notin TasksOf(pool)
  <1>1. stack[th] \in Seq(SoundFrame) /\ stack[th] # <<>>
    BY DEF IInv, Sound, Idle
  <1>2. Top(th) \in Elements(stack[th])
    BY <1>1, ElementsOfTail DEF Top
  <1> QED
    BY <1>2 DEF Alone, OnePlace, InFrames, Supplied

LEMMA OneTaskFrame ==
    ASSUME NEW op \in {"requeue", "markRunning", "commit"},
           NEW t0 \in Tasks, NEW w \in Workers \cup {NoWorker}
    PROVE  /\ DoTask(op, t0, w) \in Seq(SoundFrame)
           /\ Elements(DoTask(op, t0, w)) = {TaskOf(op, t0, w)}
           /\ \A t \in Tasks : OnceIn(DoTask(op, t0, w), t)
           /\ \A t \in Tasks \ {t0} : ~Owed(Elements(DoTask(op, t0, w)), t)
           /\ \A g \in Elements(DoTask(op, t0, w)) : g.op \notin BatchOps \cup {"lost", "publish"}
  <1>1. DoTask(op, t0, w) \in Seq(SoundFrame) /\ Elements(DoTask(op, t0, w)) = {TaskOf(op, t0, w)}
    BY TaskFrames
  <1>2. \A t \in Tasks : OnceIn(DoTask(op, t0, w), t)
    BY OnceInShort DEF DoTask
  <1>3. \A t \in Tasks \ {t0} : ~Owed({TaskOf(op, t0, w)}, t)
    BY TaskFrameIs
  <1>4. TaskOf(op, t0, w).op \notin BatchOps \cup {"lost", "publish"}
    BY DEF TaskOf, BatchOps
  <1> QED
    BY <1>1, <1>2, <1>3, <1>4

LEMMA PublishMoves ==
    ASSUME IInv, Alone, NEW th \in Threads, Publish(th)
    PROVE  \E frames : Ran(th, frames)
  <1>0. Top(th).task \in Tasks
    BY TopTask DEF Publish, At, IInv
  <1> PICK t0 \in Tasks : t0 = Top(th).task
    BY <1>0
  <1> DEFINE w0 == Top(th).worker
  <1>1. /\ t0 \in Tasks /\ w0 \in Workers \cup {NoWorker} /\ ~Idle(th)
        /\ Top(th).op = "publish"
    BY TopTask DEF Publish, At, IInv
  <1>2. /\ pool' = pool /\ \A t : SameRecord(t)
        /\ UNCHANGED <<taskEvents, workerEvents, posts, current, phase, up>>
    BY DEF Publish, pooling, records, channels, SameRecord
  <1>3. Supplies(Top(th), t0) /\ t0 \notin TasksOf(pool)
    <2>1. Supplies(Top(th), t0)
      BY <1>1 DEF Supplies
    <2> QED
      BY <1>1, <2>1, TopIsElsewhere
  <1>4. CASE up = {}
    <2> DEFINE frames == DoTask("requeue", t0, w0)
    <2>1. Continue(th, frames) /\ inbox' = inbox
      BY <1>4 DEF Publish
    <2>2. /\ frames \in Seq(SoundFrame) /\ Elements(frames) = {TaskOf("requeue", t0, w0)}
          /\ \A t \in Tasks : OnceIn(frames, t)
          /\ \A t \in Tasks \ {t0} : ~Owed(Elements(frames), t)
          /\ \A g \in Elements(frames) : g.op \notin BatchOps \cup {"lost", "publish"}
      BY <1>1, OneTaskFrame
    <2>3. \A t : SameCopies(t)
      BY <1>2, <2>1, CopiesSame
    <2>4. ~Ending({TaskOf("requeue", t0, w0)}, t0) /\ ~Committed({TaskOf("requeue", t0, w0)}, t0)
      BY TaskFrameIs DEF CommitOps
    <2> HIDE DEF frames
    <2>5. HandedOn(Top(th), Elements(frames), t0)
      BY <1>1, <1>2, <1>3, <2>2, <2>3, <2>4 DEF HandedOn, Ends, SameRecord
    <2>6. Ran(th, frames)
      BY <1>1, <1>2, <2>1, <2>2, <2>3, <2>5, AloneMoves DEF Move
    <2> QED
      BY <2>6
  <1>5. CASE up # {}
    <2> DEFINE frames == DoTask("markRunning", t0, w0)
    <2>1. /\ Continue(th, frames)
          /\ inbox' = IF w0 \in up THEN [inbox EXCEPT ![w0] = Append(@, t0)] ELSE inbox
      BY <1>5 DEF Publish
    <2>2. /\ frames \in Seq(SoundFrame) /\ Elements(frames) = {TaskOf("markRunning", t0, w0)}
          /\ \A t \in Tasks : OnceIn(frames, t)
          /\ \A t \in Tasks \ {t0} : ~Owed(Elements(frames), t)
          /\ \A g \in Elements(frames) : g.op \notin BatchOps \cup {"lost", "publish"}
      BY <1>1, OneTaskFrame
    <2>3. w0 \notin up => \A t : SameCopies(t)
      BY <1>2, <2>1, CopiesSame
    <2>4. ASSUME w0 \in up
          PROVE  /\ \A t \in Tasks \ {t0} : SameCopies(t)
                 /\ \E n \in Nat \ {0} : Copies(t0)' = Copies(t0) \cup {<<w0, n>>}
      <3>1. w0 \in Workers /\ inbox \in [Workers -> Seq(Runnable)] /\ t0 \in Runnable
        BY <2>4, TopTask DEF IInv, Sound, FleetTyped, Publish
      <3> DEFINE n == Len(inbox[w0]) + 1
      <3>2. /\ n \in Nat \ {0} /\ DOMAIN inbox[w0] = 1..n - 1
            /\ DOMAIN inbox'[w0] = 1..n
            /\ \A i \in 1..n - 1 : inbox'[w0][i] = inbox[w0][i]
            /\ inbox'[w0][n] = t0
            /\ \A v \in Workers : v # w0 => inbox'[v] = inbox[v]
        <4>1. inbox'[w0] = Append(inbox[w0], t0) /\ inbox[w0] \in Seq(Runnable)
          BY <2>1, <2>4, <3>1
        <4>2. \A v \in Workers : v # w0 => inbox'[v] = inbox[v]
          BY <2>1, <2>4, <3>1
        <4> QED
          BY <3>1, <4>1, <4>2
      <3> HIDE DEF n
      <3>3. 1..n = (1..n - 1) \cup {n} /\ n \notin 1..n - 1
        BY <3>2
      <3>4. /\ \A i \in DOMAIN inbox'[w0] : i \in DOMAIN inbox[w0] \/ i = n
            /\ \A i \in DOMAIN inbox[w0] : i \in DOMAIN inbox'[w0]
            /\ n \in DOMAIN inbox'[w0]
        BY <3>2, <3>3
      <3>5. ASSUME NEW t \in Tasks \ {t0}
            PROVE  \A v \in Workers : {j \in DOMAIN inbox'[v] : inbox'[v][j] = t}
                                        = {j \in DOMAIN inbox[v] : inbox[v][j] = t}
        BY <3>2, <3>4
      <3>6. \A t \in Tasks \ {t0} : SameCopies(t)
        BY <1>2, <3>5 DEF SameCopies, Copies
      <3>7. Copies(t0)' = Copies(t0) \cup {<<w0, n>>}
        <4>1. ASSUME NEW p
              PROVE  p \in Copies(t0)' <=> p \in Copies(t0) \/ p = <<w0, n>>
          <5>1. ASSUME NEW v \in Workers, NEW i
                PROVE  i \in DOMAIN inbox'[v] /\ inbox'[v][i] = t0
                  <=> \/ i \in DOMAIN inbox[v] /\ inbox[v][i] = t0
                      \/ v = w0 /\ i = n
            <6>1. CASE v = w0
              BY <3>2, <3>4, <6>1
            <6>2. CASE v # w0
              BY <3>2, <6>2
            <6> QED
              BY <6>1, <6>2
          <5>2. p \in Copies(t0)' <=> \E v \in Workers :
                  \/ \E i : i \in DOMAIN inbox'[v] /\ p = <<v, i>> /\ inbox'[v][i] = t0
                  \/ p = <<v, 0>> /\ current[v] = t0 /\ phase[v] # "reported"
            <6>1. p \in Copies(t0)' <=> \E v \in Workers :
                    \/ \E i \in DOMAIN inbox'[v] : p = <<v, i>> /\ inbox'[v][i] = t0
                    \/ p = <<v, 0>> /\ current'[v] = t0 /\ phase'[v] # "reported"
              BY CopyIsNext
            <6> QED
              BY <1>2, <6>1
          <5>3. p \in Copies(t0) <=> \E v \in Workers :
                  \/ \E i : i \in DOMAIN inbox[v] /\ p = <<v, i>> /\ inbox[v][i] = t0
                  \/ p = <<v, 0>> /\ current[v] = t0 /\ phase[v] # "reported"
            BY CopyIs
          <5> QED
            BY <3>1, <5>1, <5>2, <5>3
        <4> QED
          BY <4>1
      <3> QED
        BY <3>2, <3>6, <3>7
    <2> HIDE DEF frames
    <2>5. Published(Top(th), Elements(frames), t0)
      BY <1>1, <1>2, <2>2, <2>3, <2>4 DEF Published, SamePool
    <2>6. \A t \in Tasks \ {t0} : SameCopies(t)
      BY <2>3, <2>4
    <2>7. Ran(th, frames)
      BY <1>1, <1>2, <2>1, <2>2, <2>5, <2>6, AloneMoves DEF Move
    <2> QED
      BY <2>7
  <1> QED
    BY <1>4, <1>5

LEMMA CommitMoves ==
    ASSUME IInv, Alone, NEW th \in Threads, MarkWorkerRunning(th) \/ CommitDispatch(th)
    PROVE  \E frames : Ran(th, frames)
  <1> DEFINE t0 == Top(th).task
             w0 == Top(th).worker
  <1>1. /\ t0 \in Tasks /\ w0 \in Workers \cup {NoWorker} /\ ~Idle(th)
        /\ Top(th).op \in CommitOps
    BY TopTask DEF MarkWorkerRunning, CommitDispatch, At, IInv, CommitOps
  <1>2. /\ pool' = pool /\ \A t : SameCopies(t)
        /\ UNCHANGED <<taskEvents, workerEvents, posts, current, phase, up>>
    BY CopiesSame DEF MarkWorkerRunning, CommitDispatch, pooling, channels, processes
  <1>3. CASE MarkWorkerRunning(th)
    <2> DEFINE frames == DoTask("commit", t0, w0)
    <2>1. /\ Continue(th, frames) /\ Top(th).op = "markRunning"
          /\ \A t : SameRecord(t)
      BY <1>3 DEF MarkWorkerRunning, At, records, SameRecord
    <2>2. /\ frames \in Seq(SoundFrame) /\ Elements(frames) = {TaskOf("commit", t0, w0)}
          /\ \A t \in Tasks : OnceIn(frames, t)
          /\ \A t \in Tasks \ {t0} : ~Owed(Elements(frames), t)
          /\ \A g \in Elements(frames) : g.op \notin BatchOps \cup {"lost", "publish"}
      BY <1>1, OneTaskFrame
    <2> HIDE DEF frames
    <2>3. Marked(Top(th), Elements(frames), t0)
      BY <1>1, <1>2, <2>1, <2>2 DEF Marked, SamePool
    <2>4. Ran(th, frames)
      BY <1>1, <1>2, <2>1, <2>2, <2>3, AloneMoves DEF Move
    <2> QED
      BY <2>4
  <1>4. CASE CommitDispatch(th)
    <2>1. /\ Continue(th, <<>>) /\ Top(th).op = "commit" /\ deadLetters' = deadLetters
          /\ status' = [status EXCEPT ![t0] = "DISPATCHED"]
          /\ assigned' = [assigned EXCEPT ![t0] = w0]
      BY <1>4 DEF CommitDispatch, At
    <2>2. /\ status'[t0] = "DISPATCHED" /\ assigned'[t0] = w0
          /\ \A t \in Tasks \ {t0} : SameRecord(t)
      BY <1>1, <2>1 DEF IInv, RecordsTyped, SameRecord
    <2>3. /\ <<>> \in Seq(SoundFrame) /\ Elements(<<>>) = {}
          /\ \A t \in Tasks : OnceIn(<<>>, t) /\ ~Owed({}, t)
      BY EmptySeq, ElementsOfEmpty, OnceInShort DEF Owed
    <2>4. Booked(Top(th), {}, t0)
      BY <1>1, <1>2, <2>1, <2>2 DEF Booked, SamePool
    <2>5. Ran(th, <<>>)
      BY <1>1, <1>2, <2>1, <2>2, <2>3, <2>4, AloneMoves DEF Move
    <2> QED
      BY <2>5
  <1> QED
    BY <1>3, <1>4

LEMMA RequeueMoves ==
    ASSUME IInv, Alone, NEW th \in Threads, RequeueTask(th)
    PROVE  \E frames : Ran(th, frames)
  <1> DEFINE t0 == Top(th).task
             w0 == Top(th).worker
             frames == BackIn(t0, w0)
             add == {TaskOf("add", t0, w0)}
             flush == {[op |-> "flushDue"]}
  <1>1. /\ t0 \in Tasks /\ w0 \in Workers \cup {NoWorker} /\ ~Idle(th)
        /\ Top(th).op = "requeue"
    BY TopTask DEF RequeueTask, At, IInv
  <1>2. /\ pool' = pool /\ \A t : SameCopies(t)
        /\ UNCHANGED <<taskEvents, workerEvents, posts, current, phase, up>>
    BY CopiesSame DEF RequeueTask, pooling, channels, processes
  <1>3. /\ Continue(th, frames) /\ status'[t0] = "PENDING" /\ deadLetters' = deadLetters
        /\ \A t \in Tasks \ {t0} : SameRecord(t)
    BY <1>1 DEF RequeueTask, BackIn, IInv, RecordsTyped, SameRecord
  <1>4. frames \in Seq(SoundFrame) /\ Elements(frames) = add \cup flush
    BY <1>1, BackInFrames
  <1>5. \A t \in Tasks : OnceIn(frames, t)
    BY <1>1, OnceInBackIn
  <1>6. \A g \in add \cup flush : g.op \notin BatchOps \cup {"lost", "publish"}
    BY DEF TaskOf, BatchOps
  <1>7. ASSUME NEW t \in Tasks
        PROVE  /\ ~Ending(add \cup flush, t) /\ ~Committed(add \cup flush, t)
               /\ Owed(add \cup flush, t) => t = t0
    <2>1. ~Ending(add, t) /\ ~Committed(add, t) /\ (Owed(add, t) => t = t0)
      BY TaskFrameIs DEF CommitOps
    <2>2. ~Ending(flush, t) /\ ~Committed(flush, t) /\ ~Owed(flush, t)
      BY NotSuppliedByPool
    <2> HIDE DEF add, flush
    <2> QED
      BY <2>1, <2>2, FramesTogether
  <1> HIDE DEF add, flush, frames
  <1>8. HandedOn(Top(th), Elements(frames), t0)
    <2>1. Supplies(Top(th), t0) /\ Top(th).op \notin Ends
      BY <1>1 DEF Supplies, PoolOps, Ends
    <2>2. t0 \notin TasksOf(pool)
      BY <1>1, <2>1, TopIsElsewhere
    <2> QED
      BY <1>1, <1>2, <1>3, <1>4, <1>7, <2>1, <2>2 DEF HandedOn
  <1>9. Ran(th, frames)
    BY <1>1, <1>2, <1>3, <1>4, <1>5, <1>6, <1>7, <1>8, AloneMoves DEF Move, PoolOps
  <1> QED
    BY <1>9

LEMMA CloseMoves ==
    ASSUME IInv, Alone, NEW th \in Threads, TaskSucceeded(th) \/ TaskFailed(th)
    PROVE  \E frames : Ran(th, frames)
  <1> DEFINE t0 == Top(th).task
             w0 == Top(th).worker
  <1>1. /\ t0 \in Tasks /\ w0 \in Workers \cup {NoWorker} /\ ~Idle(th)
        /\ Top(th).op \in Ends
    BY TopTask DEF TaskSucceeded, TaskFailed, At, IInv, Ends
  <1>2. /\ pool' = pool /\ \A t : SameCopies(t)
        /\ UNCHANGED <<taskEvents, workerEvents, posts, current, phase, up>>
    BY CopiesSame DEF TaskSucceeded, TaskFailed, pooling, channels, processes
  <1>3. \A t \in Tasks \ {t0} : SameRecord(t)
    BY <1>1 DEF TaskSucceeded, TaskFailed, IInv, RecordsTyped, SameRecord
  <1>4. /\ Do("flushAll") \in Seq(SoundFrame) /\ Elements(Do("flushAll")) = {[op |-> "flushAll"]}
        /\ \A t \in Tasks : OnceIn(Do("flushAll"), t)
        /\ \A t \in Tasks : ~Owed({[op |-> "flushAll"]}, t) /\ ~Supplied({[op |-> "flushAll"]}, t)
        /\ \A t \in Tasks : ~Ending({[op |-> "flushAll"]}, t) /\ ~Committed({[op |-> "flushAll"]}, t)
    <2>1. \A t : OnceIn(Do("flushAll"), t)
      BY OnceInShort DEF Do
    <2>2. \A t : /\ ~Owed({[op |-> "flushAll"]}, t) /\ ~Supplied({[op |-> "flushAll"]}, t)
                 /\ ~Ending({[op |-> "flushAll"]}, t) /\ ~Committed({[op |-> "flushAll"]}, t)
      BY NotSuppliedByPool
    <2> QED
      BY <2>1, <2>2, PoolFrames
  <1>5. \/ /\ Continue(th, Do("flushAll"))
           /\ \/ /\ Top(th).op = "succeeded" /\ status'[t0] = "DONE" /\ deadLetters' = deadLetters
              \/ Top(th).op = "failed" /\ status'[t0] = "FAILED" /\ t0 \in deadLetters'
        \/ /\ Continue(th, DoTask("requeue", t0, w0))
           /\ Top(th).op = "failed" /\ status'[t0] = "FAILED" /\ deadLetters' = deadLetters
    <2>1. CASE TaskSucceeded(th)
      <3>1. At(th, "succeeded") /\ deadLetters' = deadLetters /\ Continue(th, Do("flushAll"))
        BY <2>1 DEF TaskSucceeded
      <3>2. status'[t0] = "DONE"
        BY <1>1, <2>1 DEF TaskSucceeded, IInv, RecordsTyped
      <3> QED
        BY <3>1, <3>2 DEF At
    <2>2. CASE TaskFailed(th)
      <3>1. /\ At(th, "failed")
            /\ \/ Continue(th, Do("flushAll")) /\ t0 \in deadLetters'
               \/ Continue(th, DoTask("requeue", t0, w0)) /\ deadLetters' = deadLetters
        BY <2>2 DEF TaskFailed
      <3>2. status'[t0] = "FAILED"
        BY <1>1, <2>2 DEF TaskFailed, IInv, RecordsTyped
      <3> QED
        BY <3>1, <3>2 DEF At
    <2> QED
      BY <2>1, <2>2
  <1>6. CASE Continue(th, Do("flushAll"))
    <2> DEFINE frames == Do("flushAll")
    <2>1. Closed(Top(th), Elements(frames), t0)
      <3>1. \/ Top(th).op = "succeeded" /\ status'[t0] = "DONE" /\ deadLetters' = deadLetters
            \/ Top(th).op = "failed" /\ status'[t0] = "FAILED" /\ t0 \in deadLetters'
            \/ Top(th).op = "failed" /\ status'[t0] = "FAILED" /\ deadLetters' = deadLetters
        BY <1>5
      <3> QED
        BY <1>1, <1>2, <1>4, <3>1 DEF Closed, SamePool
    <2>2. \A g \in Elements(frames) : g.op \notin BatchOps \cup {"lost", "publish"}
      BY <1>4 DEF BatchOps
    <2>3. /\ frames \in Seq(SoundFrame) /\ Continue(th, frames)
          /\ \A t \in Tasks : OnceIn(frames, t) /\ ~Owed(Elements(frames), t)
      BY <1>4, <1>6
    <2> HIDE DEF frames
    <2>4. Ran(th, frames)
      BY <1>1, <1>2, <1>3, <2>1, <2>2, <2>3, AloneMoves DEF Move, Ends, PoolOps
    <2> QED
      BY <2>4
  <1>7. CASE /\ Continue(th, DoTask("requeue", t0, w0))
             /\ Top(th).op = "failed" /\ status'[t0] = "FAILED" /\ deadLetters' = deadLetters
    <2> DEFINE frames == DoTask("requeue", t0, w0)
    <2>1. /\ frames \in Seq(SoundFrame) /\ Elements(frames) = {TaskOf("requeue", t0, w0)}
          /\ \A t \in Tasks : OnceIn(frames, t)
          /\ \A t \in Tasks \ {t0} : ~Owed(Elements(frames), t)
          /\ \A g \in Elements(frames) : g.op \notin BatchOps \cup {"lost", "publish"}
      BY <1>1, OneTaskFrame
    <2>2. ~Ending({TaskOf("requeue", t0, w0)}, t0) /\ ~Committed({TaskOf("requeue", t0, w0)}, t0)
      BY TaskFrameIs DEF CommitOps
    <2>3. Continue(th, frames)
      BY <1>7
    <2> HIDE DEF frames
    <2>4. Closed(Top(th), Elements(frames), t0)
      BY <1>1, <1>2, <1>7, <2>1, <2>2 DEF Closed, SamePool
    <2>5. Ran(th, frames)
      BY <1>1, <1>2, <1>3, <2>1, <2>3, <2>4, AloneMoves DEF Move, Ends, PoolOps
    <2> QED
      BY <2>5
  <1> QED
    BY <1>5, <1>6, <1>7
-----------------------------------------------------------------------------
(* What a section does to the places of one task, whatever its name is.    *)
Still(f, fs, t) == ~Supplied(fs, t) /\ SamePool(t) /\ SameCopies(t)
LeftPool(f, fs, t) == t \in TasksOf(pool) /\ t \notin TasksOf(pool') /\ SameCopies(t)
Passed(f, fs, t) ==
    /\ Supplies(f, t) /\ SameCopies(t)
    /\ Supplied(fs, t) /\ t \in TasksOf(pool') => t \in TasksOf(pool)
GivenOut(f, fs, t) ==
    /\ Supplies(f, t) /\ ~Supplied(fs, t) /\ SamePool(t)
    /\ SameCopies(t) \/ \E p : Copies(t)' = Copies(t) \cup {p}

LEMMA MovesOnce ==
    ASSUME IInv, NEW f, NEW fs, NEW t \in Tasks, Move(f, fs, t)
    PROVE  /\ Still(f, fs, t) \/ LeftPool(f, fs, t) \/ Passed(f, fs, t) \/ GivenOut(f, fs, t)
           /\ status'[t] = "NEW" => status[t] = "NEW"
  <1>1. CASE Aside(f, fs, t)
    BY <1>1 DEF Aside, Still, SameRecord, Supplied, Owed, Owes
  <1>2. CASE TakenOut(f, fs, t)
    BY <1>2 DEF TakenOut, LeftPool, SameRecord
  <1>3. CASE HandedOn(f, fs, t)
    BY <1>3 DEF HandedOn, Passed, SameRecord
  <1>4. CASE Published(f, fs, t)
    <2>1. ~Supplied(fs, t)
      BY <1>4 DEF Published, Supplied, Supplies, TaskOf, PoolOps, BatchOps
    <2>2. Supplies(f, t)
      BY <1>4 DEF Published, Supplies
    <2>3. SameCopies(t) \/ \E p : Copies(t)' = Copies(t) \cup {p}
      BY <1>4, Zenon DEF Published
    <2>4. SamePool(t) /\ SameRecord(t)
      BY <1>4 DEF Published
    <2> QED
      BY <2>1, <2>2, <2>3, <2>4 DEF GivenOut, SameRecord
  <1>5. CASE Marked(f, fs, t)
    BY <1>5 DEF Marked, Still, Supplied, Supplies, TaskOf, PoolOps, BatchOps, SameRecord
  <1>6. CASE Booked(f, fs, t)
    BY <1>6 DEF Booked, Still, Supplied
  <1>7. CASE Closed(f, fs, t)
    <2>1. Supplies(f, t)
      BY <1>7 DEF Closed, Supplies, Ends, PoolOps
    <2>2. SamePool(t) /\ SameCopies(t) /\ status'[t] # "NEW"
      BY <1>7 DEF Closed
    <2> QED
      BY <2>1, <2>2 DEF Passed, SamePool
  <1> QED
    BY <1>1, <1>2, <1>3, <1>4, <1>5, <1>6, <1>7 DEF Move

LEMMA RanKeepsAlone ==
    ASSUME IInv, Alone, NEW th \in Threads, NEW frames, Ran(th, frames)
    PROVE  Alone'
  <1> DEFINE below == Tail(stack[th])
             fs == Elements(frames)
             b == Elements(below)
             f == Top(th)
  <1>1. /\ stack \in [Threads -> Seq(SoundFrame)] /\ frames \in Seq(SoundFrame)
        /\ ~Idle(th) /\ Continue(th, frames) /\ taskEvents' = taskEvents
    BY DEF IInv, Sound, Ran
  <1>2. /\ \A u \in Threads : u # th => stack'[u] = stack[u]
        /\ stack'[th] = frames \o below
        /\ below \in Seq(SoundFrame)
        /\ Elements(stack[th]) = {f} \cup b
        /\ Elements(stack'[th]) = fs \cup b
    BY <1>1, AfterContinue
  <1>3. stack[th] \in Seq(SoundFrame) /\ stack[th] # <<>> /\ f = Head(stack[th])
    BY <1>1 DEF Idle, Top
  <1> SUFFICES ASSUME NEW t \in Tasks
               PROVE  OncePerPlace(t)' /\ OnePlace(t)'
    BY DEF Alone
  <1>4. OncePerPlace(t) /\ OnePlace(t)
    BY DEF Alone
  <1>5. OnceIn(below, t) /\ (Supplies(f, t) => ~Supplied(b, t))
    BY <1>3, <1>4, OnceInTail DEF OncePerPlace
  <1>6. /\ OneEntry(pool', t) /\ OnceIn(frames, t)
        /\ \A g \in fs : g.op \in BatchOps => OneEntry(g.entries, t)
        /\ \/ Still(f, fs, t) \/ LeftPool(f, fs, t) \/ Passed(f, fs, t) \/ GivenOut(f, fs, t)
        /\ status'[t] = "NEW" => status[t] = "NEW"
    BY MovesOnce DEF Ran
  <1> HIDE DEF below, fs, b, f
  <1>7. /\ Supplied(Elements(stack[th]), t) <=> Supplies(f, t) \/ Supplied(b, t)
        /\ Supplied(Elements(stack'[th]), t) <=> Supplied(fs, t) \/ Supplied(b, t)
    BY <1>2 DEF Supplied
  (* Before: a task that f supplies, or that was in the pool, is nowhere else. *)
  <1>8. \A u \in Threads : Supplied(Elements(stack[u]), t) =>
          t \notin TasksOf(pool) /\ ~InEvents(t) /\ Copies(t) = {} /\ status[t] # "NEW"
    BY <1>4 DEF OnePlace, InFrames
  <1>9. Supplies(f, t) => \A u \in Threads : u # th => ~Supplied(Elements(stack[u]), t)
    BY <1>4, <1>7 DEF OncePerPlace
  <1>10. t \in TasksOf(pool) =>
           /\ \A u \in Threads : ~Supplied(Elements(stack[u]), t)
           /\ ~InEvents(t) /\ Copies(t) = {} /\ status[t] # "NEW"
    BY <1>4 DEF OnePlace, InFrames
  (* So what the new sections supply, nobody else does.                    *)
  <1>11. Supplied(fs, t) =>
           /\ \A u \in Threads : u # th => ~Supplied(Elements(stack[u]), t)
           /\ ~Supplied(b, t) /\ t \notin TasksOf(pool') /\ ~InEvents(t)
           /\ Copies(t)' = {} /\ status[t] # "NEW"
    <2> SUFFICES ASSUME Supplied(fs, t)
                 PROVE  /\ \A u \in Threads : u # th => ~Supplied(Elements(stack[u]), t)
                        /\ ~Supplied(b, t) /\ t \notin TasksOf(pool') /\ ~InEvents(t)
                        /\ Copies(t)' = {} /\ status[t] # "NEW"
      OBVIOUS
    <2>1. CASE LeftPool(f, fs, t)
      BY <1>7, <1>10, <2>1 DEF LeftPool, SameCopies
    <2>2. CASE Passed(f, fs, t)
      BY <1>5, <1>7, <1>8, <1>9, <2>2 DEF Passed, SameCopies
    <2> QED
      BY <1>6, <2>1, <2>2 DEF Still, GivenOut
  <1>12. OnceIn(stack'[th], t)
    BY <1>1, <1>2, <1>5, <1>6, <1>11, OnceInConcat DEF fs, b
  <1>13. t \in TasksOf(pool') => t \in TasksOf(pool) \/ Supplies(f, t)
    BY <1>6 DEF Still, SamePool, LeftPool, Passed, GivenOut
  <1>14. Copies(t)' # {} =>
           /\ t \notin TasksOf(pool') /\ ~InEvents(t) /\ status[t] # "NEW"
           /\ \A u \in Threads : ~Supplied(Elements(stack'[u]), t)
    <2> SUFFICES ASSUME Copies(t)' # {}
                 PROVE  /\ t \notin TasksOf(pool') /\ ~InEvents(t) /\ status[t] # "NEW"
                        /\ \A u \in Threads : ~Supplied(Elements(stack'[u]), t)
      OBVIOUS
    <2>1. CASE Copies(t) # {}
      <3>1. /\ t \notin TasksOf(pool) /\ ~InEvents(t) /\ status[t] # "NEW"
            /\ \A u \in Threads : ~Supplied(Elements(stack[u]), t)
        BY <1>4, <2>1 DEF OnePlace, InFrames
      <3>2. Still(f, fs, t)
        BY <1>6, <1>7, <3>1 DEF LeftPool, Passed, GivenOut
      <3> QED
        BY <1>2, <1>7, <3>1, <3>2 DEF Still, SamePool
    <2>2. CASE Copies(t) = {}
      <3>1. GivenOut(f, fs, t)
        BY <1>6, <2>2 DEF Still, LeftPool, Passed, SameCopies
      <3> QED
        BY <1>2, <1>5, <1>7, <1>8, <1>9, <3>1 DEF GivenOut, SamePool
    <2> QED
      BY <2>1, <2>2
  <1>15. \A p, q \in Copies(t)' : p = q
    BY <1>4, <1>6, <1>7, <1>8 DEF OncePerPlace, Still, SameCopies, LeftPool, Passed, GivenOut
  <1>16. \A u \in Threads : Supplied(Elements(stack'[u]), t) =>
           \/ Supplied(Elements(stack[u]), t)
           \/ u = th /\ Supplied(fs, t)
    BY <1>2, <1>7
  <1>17. (\E u \in Threads : Supplied(Elements(stack'[u]), t)) =>
           /\ t \notin TasksOf(pool') /\ ~InEvents(t) /\ Copies(t)' = {} /\ status[t] # "NEW"
    <2> SUFFICES ASSUME NEW u \in Threads, Supplied(Elements(stack'[u]), t)
                 PROVE  /\ t \notin TasksOf(pool') /\ ~InEvents(t) /\ Copies(t)' = {}
                        /\ status[t] # "NEW"
      OBVIOUS
    <2>1. CASE Supplied(fs, t)
      BY <1>11, <2>1
    <2>2. CASE ~Supplied(fs, t)
      <3>1. u # th \/ Supplied(b, t)
        BY <1>2, <1>7, <2>2
      <3>2. Supplied(Elements(stack[u]), t) /\ ~Supplies(f, t)
        BY <1>5, <1>9, <1>16, <2>2, <3>1
      <3> QED
        BY <1>8, <1>13, <1>14, <3>2
    <2> QED
      BY <2>1, <2>2
  <1>18. \A u, v \in Threads :
           Supplied(Elements(stack'[u]), t) /\ Supplied(Elements(stack'[v]), t) => u = v
    BY <1>4, <1>11, <1>16 DEF OncePerPlace
  <1>19. InEvents(t) => t \notin TasksOf(pool')
    BY <1>4, <1>7, <1>8, <1>13 DEF OnePlace
  <1>20. \A u \in Threads : /\ OnceIn(stack'[u], t)
                            /\ \A g \in Elements(stack'[u]) : g.op \in BatchOps => OneEntry(g.entries, t)
    BY <1>2, <1>4, <1>6, <1>12 DEF OncePerPlace
  <1>21. OncePerPlace(t)'
    <2>1. \A i, j \in DOMAIN taskEvents' :
            taskEvents'[i].task = t /\ taskEvents'[j].task = t => i = j
      BY <1>1, <1>4 DEF OncePerPlace
    <2> QED
      BY <1>6, <1>15, <1>18, <1>20, <2>1 DEF OncePerPlace, OneEntry
  <1>22. OnePlace(t)'
    <2>1. InEvents(t)' <=> InEvents(t)
      BY <1>1 DEF InEvents
    <2>2. InFrames(t)' <=> \E u \in Threads : Supplied(Elements(stack'[u]), t)
      BY DEF InFrames, Supplied
    <2>3. status'[t] = "NEW" => t \notin TasksOf(pool) /\ ~InEvents(t) /\ ~InFrames(t)
      BY <1>4, <1>6 DEF OnePlace
    <2>4. status'[t] = "NEW" => t \notin TasksOf(pool')
      BY <1>2, <1>7, <1>13, <2>3 DEF InFrames
    <2> QED
      BY <1>6, <1>14, <1>17, <1>19, <2>1, <2>2, <2>3, <2>4 DEF OnePlace, TasksOf
  <1> QED
    BY <1>21, <1>22

(* Every section of a thread, when the dispatcher's Redis calls succeed and *)
(* no worker leaves.                                                       *)
LEMMA ThreadsKeepAlone ==
    ASSUME IInv, Order, Alone, NobodyLeaves, NEW th \in Threads, ThreadStep(th)
    PROVE  Alone' /\ NobodyLeaves'
  <1>1. ~Reschedule(th)
    <2>1. ~Idle(th) => Top(th) \in Elements(stack[th])
      <3>1. ~Idle(th) => stack[th] \in Seq(SoundFrame) /\ stack[th] # <<>>
        BY DEF IInv, Sound, Idle
      <3> QED
        BY <3>1, ElementsOfTail DEF Top
    <2> QED
      BY <2>1 DEF Reschedule, At, NobodyLeaves
  <1>2. PICK frames : Ran(th, frames)
    BY <1>1, PoolStepMoves, FilterBatchMoves, PutBackMoves, PlanNextMoves, PublishMoves,
       CommitMoves, RequeueMoves, CloseMoves DEF ThreadStep, DispatchStep, HandlerStep
  <1>3. Alone'
    BY <1>2, RanKeepsAlone
  <1>4. NobodyLeaves'
    <2>1. stack \in [Threads -> Seq(SoundFrame)]
      BY DEF IInv, Sound
    <2>2. /\ \A u \in Threads : u # th => stack'[u] = stack[u]
          /\ Elements(stack[th]) = {Top(th)} \cup Elements(Tail(stack[th]))
          /\ Elements(stack'[th]) = Elements(frames) \cup Elements(Tail(stack[th]))
      BY <1>2, <2>1, AfterContinue DEF Ran
    <2>3. \A u \in Threads : \A f \in Elements(stack'[u]) : f.op # "lost"
      BY <1>2, <2>2 DEF NobodyLeaves, Ran
    <2> QED
      BY <1>2, <2>3 DEF NobodyLeaves, Ran, Elements
  <1> QED
    BY <1>3, <1>4

-----------------------------------------------------------------------------
(* The failing calls: the work of a thread and the pool only get fewer.    *)

(* Only the front is new: of what the section that failed held, or took     *)
(* from the pool.                                                          *)
Unwound(th, front, rest) ==
    /\ ~Idle(th) /\ Top(th).op \in {"add", "batch", "defer", "plans"}
    /\ front \in Seq(SoundFrame) /\ rest \in Seq(SoundFrame)
    /\ stack' = [stack EXCEPT ![th] = front \o rest]
    /\ Elements(rest) \subseteq Elements(Tail(stack[th]))
    /\ UNCHANGED <<taskEvents, inbox, current, phase, status, deadLetters, ran>>
    /\ workerEvents' = workerEvents \/ workerEvents' = <<>>
    /\ \A g \in Elements(front) : g.op # "lost"
    /\ \A t \in Tasks :
         /\ OneEntry(pool', t) /\ OnceIn(rest, t) /\ OnceIn(front, t)
         /\ \A g \in Elements(front) : g.op \in BatchOps => OneEntry(g.entries, t)
         /\ Supplied(Elements(front), t) =>
              t \notin TasksOf(pool') /\ (Supplies(Top(th), t) \/ t \in TasksOf(pool))
         /\ t \in TasksOf(pool') => t \in TasksOf(pool) \/ Supplies(Top(th), t)

LEMMA FaultKeepsAlone ==
    ASSUME IInv, Alone, NobodyLeaves, NEW th \in Threads,
           NEW front, NEW rest, Unwound(th, front, rest)
    PROVE  Alone' /\ NobodyLeaves'
  <1> DEFINE below == Elements(Tail(stack[th]))
             fs == Elements(front)
             f == Top(th)
  <1>1. /\ stack \in [Threads -> Seq(SoundFrame)]
        /\ stack[th] \in Seq(SoundFrame) /\ stack[th] # <<>> /\ f = Head(stack[th])
    BY DEF IInv, Sound, Idle, Top, Unwound
  <1>2. /\ \A u \in Threads : u # th => stack'[u] = stack[u]
        /\ stack'[th] = front \o rest
        /\ Elements(stack[th]) = {f} \cup below
        /\ Elements(stack'[th]) = fs \cup Elements(rest)
    BY <1>1, ElementsOfTail, ConcatFrames DEF Unwound
  <1>3. NobodyLeaves'
    <2>1. \A u \in Threads : \A g \in Elements(stack'[u]) : g.op # "lost"
      BY <1>2 DEF NobodyLeaves, Unwound
    <2> QED
      BY <2>1 DEF NobodyLeaves, Unwound, Elements
  <1>0. UNCHANGED <<taskEvents, inbox, current, phase, status>>
    BY DEF Unwound
  <1> SUFFICES ASSUME NEW t \in Tasks
               PROVE  OncePerPlace(t)' /\ OnePlace(t)'
    BY <1>3 DEF Alone
  <1>4. OncePerPlace(t) /\ OnePlace(t)
    BY DEF Alone
  <1>5. Supplies(f, t) => ~Supplied(below, t)
    BY <1>1, <1>4, OnceInTail DEF OncePerPlace
  <1>17. front \in Seq(SoundFrame) /\ rest \in Seq(SoundFrame) /\ Elements(rest) \subseteq below
    BY DEF Unwound
  <1> HIDE DEF below, fs, f
  <1>6. /\ Supplied(Elements(stack[th]), t) <=> Supplies(f, t) \/ Supplied(below, t)
        /\ Supplied(Elements(stack'[th]), t) <=> Supplied(fs, t) \/ Supplied(Elements(rest), t)
        /\ Supplied(Elements(rest), t) => Supplied(below, t)
    BY <1>2, <1>17 DEF Supplied
  <1>7. /\ Supplied(fs, t) => t \notin TasksOf(pool') /\ (Supplies(f, t) \/ t \in TasksOf(pool))
        /\ t \in TasksOf(pool') => t \in TasksOf(pool) \/ Supplies(f, t)
        /\ OneEntry(pool', t) /\ OnceIn(rest, t) /\ OnceIn(front, t)
        /\ \A g \in fs : g.op \in BatchOps => OneEntry(g.entries, t)
    BY DEF fs, f, Unwound
  <1>8. /\ \A u \in Threads : Supplied(Elements(stack[u]), t) =>
             t \notin TasksOf(pool) /\ ~InEvents(t) /\ Copies(t) = {} /\ status[t] # "NEW"
        /\ t \in TasksOf(pool) => ~InEvents(t) /\ Copies(t) = {} /\ status[t] # "NEW"
        /\ \A u, v \in Threads :
             Supplied(Elements(stack[u]), t) /\ Supplied(Elements(stack[v]), t) => u = v
    BY <1>4 DEF OnePlace, OncePerPlace, InFrames
  <1>9. ~(Supplied(fs, t) /\ Supplied(Elements(rest), t))
    BY <1>5, <1>6, <1>7, <1>8
  <1>10. OnceIn(stack'[th], t)
    BY <1>2, <1>7, <1>9, <1>17, OnceInConcat DEF fs
  <1>11. \A u \in Threads : Supplied(Elements(stack'[u]), t) =>
            /\ t \notin TasksOf(pool') /\ ~InEvents(t) /\ Copies(t) = {} /\ status[t] # "NEW"
            /\ \A v \in Threads : Supplied(Elements(stack'[v]), t) => u = v
    <2> SUFFICES ASSUME NEW u \in Threads, Supplied(Elements(stack'[u]), t)
                 PROVE  /\ t \notin TasksOf(pool') /\ ~InEvents(t) /\ Copies(t) = {}
                        /\ status[t] # "NEW"
                        /\ \A v \in Threads : Supplied(Elements(stack'[v]), t) => u = v
      OBVIOUS
    <2>1. CASE u # th
      <3>1. Supplied(Elements(stack[u]), t) /\ ~Supplied(Elements(stack[th]), t)
        BY <1>2, <1>8, <2>1
      <3>2. ~Supplied(Elements(stack'[th]), t)
        BY <1>6, <1>7, <1>8, <3>1
      <3> QED
        BY <1>2, <1>6, <1>7, <1>8, <3>1, <3>2
    <2>2. CASE u = th
      <3>1. Supplied(fs, t) \/ Supplied(below, t)
        BY <1>6, <2>2
      <3>2. Supplied(Elements(stack[th]), t) \/ t \in TasksOf(pool)
        BY <1>6, <1>7, <3>1
      <3>3. \A v \in Threads : v # th => ~Supplied(Elements(stack[v]), t)
        BY <1>8, <3>2
      <3>4. ~InEvents(t) /\ Copies(t) = {} /\ status[t] # "NEW"
        BY <1>8, <3>2
      <3>5. t \notin TasksOf(pool')
        BY <1>5, <1>6, <1>7, <1>8, <3>1
      <3> QED
        BY <1>2, <2>2, <3>3, <3>4, <3>5
    <2> QED
      BY <2>1, <2>2
  <1>12. t \in TasksOf(pool') => ~InEvents(t) /\ Copies(t) = {} /\ status[t] # "NEW"
    BY <1>6, <1>7, <1>8
  <1>13. Copies(t)' = Copies(t)
    BY <1>0, CopiesSame DEF SameCopies
  <1>14. \A u \in Threads : /\ OnceIn(stack'[u], t)
                            /\ \A g \in Elements(stack'[u]) : g.op \in BatchOps => OneEntry(g.entries, t)
    BY <1>2, <1>4, <1>7, <1>10, <1>17 DEF OncePerPlace
  <1>15. OncePerPlace(t)'
    <2>1. \A i, j \in DOMAIN taskEvents' :
            taskEvents'[i].task = t /\ taskEvents'[j].task = t => i = j
      BY <1>0, <1>4 DEF OncePerPlace
    <2>2. OneEntry(pool', t) /\ \A p, q \in Copies(t)' : p = q
      BY <1>4, <1>7, <1>13 DEF OncePerPlace
    <2> QED
      BY <1>11, <1>14, <2>1, <2>2 DEF OncePerPlace, OneEntry
  <1>16. OnePlace(t)'
    <2>1. /\ InEvents(t)' <=> InEvents(t)
          /\ InFrames(t)' <=> \E u \in Threads : Supplied(Elements(stack'[u]), t)
      BY <1>0 DEF InEvents, InFrames, Supplied
    <2>2. status[t] = "NEW" => ~InEvents(t) /\ Copies(t) = {}
      BY <1>4 DEF OnePlace
    <2>3. InEvents(t) => Copies(t) = {}
      BY <1>4 DEF OnePlace
    <2> QED
      BY <1>0, <1>11, <1>12, <1>13, <2>1, <2>2, <2>3 DEF OnePlace, TasksOf
  <1> QED
    BY <1>15, <1>16

(* A failing call that leaves the calls below it as they are.              *)
LEMMA ContinueUnwinds ==
    ASSUME IInv, Alone, NEW th \in Threads,
           ~Idle(th), Top(th).op \in {"add", "batch", "defer", "plans"},
           NEW front \in Seq(SoundFrame), Continue(th, front),
           UNCHANGED <<taskEvents, workerEvents, inbox, current, phase, status, deadLetters, ran>>,
           \A g \in Elements(front) : g.op # "lost",
           \A t \in Tasks :
             /\ OneEntry(pool', t) /\ OnceIn(front, t)
             /\ \A g \in Elements(front) : g.op \in BatchOps => OneEntry(g.entries, t)
             /\ Supplied(Elements(front), t) =>
                  t \notin TasksOf(pool') /\ (Supplies(Top(th), t) \/ t \in TasksOf(pool))
             /\ t \in TasksOf(pool') => t \in TasksOf(pool) \/ Supplies(Top(th), t)
    PROVE  \E rest : Unwound(th, front, rest)
  <1>1. stack[th] \in Seq(SoundFrame) /\ stack[th] # <<>>
    BY DEF IInv, Sound, Idle
  <1>2. PICK rest : rest = Tail(stack[th])
    OBVIOUS
  <1>3. rest \in Seq(SoundFrame) /\ \A t \in Tasks : OnceIn(rest, t)
    BY <1>1, <1>2, OnceInTail DEF Alone, OncePerPlace
  <1>4. stack' = [stack EXCEPT ![th] = front \o rest]
    BY <1>2 DEF Continue
  <1>5. Elements(rest) \subseteq Elements(Tail(stack[th]))
    BY <1>2
  <1>6. Unwound(th, front, rest)
    BY <1>3, <1>4, <1>5 DEF Unwound
  <1> QED
    BY <1>6

LEMMA AddFailsUnwinds ==
    ASSUME IInv, Alone, NEW th \in Threads, AddFails(th)
    PROVE  \E front, rest : Unwound(th, front, rest)
  <1>1. PICK due \in SUBSET Entry : due = DueBatch(pool) /\ due \subseteq pool
    BY DueBatchInPool DEF IInv, PoolingTyped
  <1>2. /\ ~Idle(th) /\ Top(th).op = "add" /\ Continue(th, Scan(due)) /\ pool' = pool \ due
        /\ UNCHANGED <<taskEvents, workerEvents, inbox, current, phase, status, deadLetters, ran>>
    BY <1>1 DEF AddFails, At, Scan, records, channels, processes
  <1>3. /\ Scan(due) \in Seq(SoundFrame)
        /\ Elements(Scan(due)) = Single(due, "batch") \cup {[op |-> "ensureTimer"]}
    BY ScanFrames
  <1>4. ASSUME NEW t \in Tasks
        PROVE  /\ OneEntry(pool', t) /\ OnceIn(Scan(due), t)
               /\ \A g \in Elements(Scan(due)) : g.op \in BatchOps => OneEntry(g.entries, t)
               /\ Supplied(Elements(Scan(due)), t) => t \notin TasksOf(pool') /\ t \in TasksOf(pool)
               /\ t \in TasksOf(pool') => t \in TasksOf(pool)
               /\ \A g \in Elements(Scan(due)) : g.op # "lost"
    <2>1. OneEntry(pool, t) /\ OneEntry(due, t) /\ OneEntry(pool', t)
      BY <1>1, <1>2 DEF Alone, OncePerPlace, OneEntry
    <2>2. /\ Supplied(Elements(Scan(due)), t) => t \in TasksOf(due)
          /\ \A g \in Elements(Scan(due)) : /\ g.op \in BatchOps => OneEntry(g.entries, t)
                                            /\ g.op # "lost"
      BY <1>3, <2>1, ScanMoves
    <2>3. t \in TasksOf(due) => t \in TasksOf(pool) /\ t \notin TasksOf(pool')
      BY <1>1, <1>2, <2>1 DEF TasksOf, OneEntry
    <2>4. t \in TasksOf(pool') => t \in TasksOf(pool)
      BY <1>2 DEF TasksOf
    <2> QED
      BY <2>1, <2>2, <2>3, <2>4, OnceInScan
  <1>5. \A g \in Elements(Scan(due)) : g.op # "lost"
    BY <1>4, ConstantsAssumption DEF Tasks
  <1> QED
    BY <1>2, <1>3, <1>4, <1>5, ContinueUnwinds

LEMMA PutBackFailsUnwinds ==
    ASSUME IInv, Alone, NEW th \in Threads, PutBackFails(th)
    PROVE  \E front, rest : Unwound(th, front, rest)
  <1> DEFINE es == Top(th).entries
  <1>1. es \subseteq Entry /\ ~Idle(th) /\ Top(th).op = "defer"
    BY TopBatch DEF PutBackFails, At, IInv
  <1>2. PICK stored \in SUBSET es : pool' = Put(pool, stored)
    BY DEF PutBackFails, Earliest
  <1>3. /\ Continue(th, <<>>)
        /\ UNCHANGED <<taskEvents, workerEvents, inbox, current, phase, status, deadLetters, ran>>
    BY DEF PutBackFails, records, channels, processes
  <1>4. Top(th) \in Elements(stack[th])
    <2>1. stack[th] \in Seq(SoundFrame) /\ stack[th] # <<>>
      BY <1>1 DEF IInv, Sound, Idle
    <2> QED
      BY <2>1, ElementsOfTail DEF Top
  <1>5. ASSUME NEW t \in Tasks
        PROVE  /\ OneEntry(pool', t) /\ OnceIn(<<>>, t)
               /\ ~Supplied({}, t)
               /\ t \in TasksOf(pool') => t \in TasksOf(pool) \/ Supplies(Top(th), t)
    <2>1. OneEntry(pool, t) /\ OneEntry(es, t)
      BY <1>1, <1>4 DEF Alone, OncePerPlace, BatchOps
    <2>2. OneEntry(stored, t)
      BY <2>1 DEF OneEntry
    <2>3. OneEntry(pool', t)
      BY <1>2, <2>1, <2>2, OneEntryMoves
    <2>4. t \in TasksOf(pool') => t \in TasksOf(pool) \/ t \in TasksOf(es)
      BY <1>2 DEF TasksOf, Put
    <2> QED
      BY <1>1, <2>3, <2>4, OnceInShort DEF Supplied, Supplies, BatchOps
  <1>6. <<>> \in Seq(SoundFrame) /\ Elements(<<>>) = {}
    BY EmptySeq, ElementsOfEmpty
  <1> QED
    BY <1>1, <1>3, <1>5, <1>6, ContinueUnwinds

LEMMA LookupFailsUnwinds ==
    ASSUME IInv, Alone, NEW th \in Threads, LookupFails(th)
    PROVE  \E front, rest : Unwound(th, front, rest)
  <1> DEFINE es == Top(th).entries
  <1>1. /\ es \subseteq Entry /\ ~Idle(th) /\ TasksOf(es) \subseteq Runnable
        /\ Top(th).op = "plans"
    BY TopBatch DEF LookupFails, At, IInv
  <1>2. PICK rest \in SUBSET Entry : rest \subseteq es /\ Continue(th, DoBatch("plans", rest))
    BY <1>1 DEF LookupFails, Earliest
  <1>3. UNCHANGED <<pool, taskEvents, workerEvents, inbox, current, phase, status, deadLetters, ran>>
    BY DEF LookupFails, records, pooling, channels, processes
  <1>4. Top(th) \in Elements(stack[th])
    <2>1. stack[th] \in Seq(SoundFrame) /\ stack[th] # <<>>
      BY <1>1 DEF IInv, Sound, Idle
    <2> QED
      BY <2>1, ElementsOfTail DEF Top
  <1> DEFINE front == DoBatch("plans", rest)
  <1>5. /\ front \in Seq(SoundFrame) /\ Elements(front) = Single(rest, "plans")
        /\ \A t \in Tasks : OnceIn(front, t)
        /\ \A g \in Elements(front) : g.op = "plans" /\ g.entries = rest
    <2>1. TasksOf(rest) \subseteq Runnable
      BY <1>1, <1>2 DEF TasksOf
    <2>2. front \in Seq(SoundFrame) /\ Elements(front) = Single(rest, "plans")
      BY <2>1, DoBatchSound, ElementsOfBatch DEF Single
    <2>3. \A g \in Single(rest, "plans") : g.op = "plans" /\ g.entries = rest
      BY DEF Single
    <2>4. \A t \in Tasks : OnceIn(front, t)
      BY OnceInShort DEF DoBatch
    <2> HIDE DEF front
    <2> QED
      BY <2>2, <2>3, <2>4
  <1> HIDE DEF front
  <1>6. ASSUME NEW t \in Tasks
        PROVE  /\ OneEntry(pool', t)
               /\ \A g \in Elements(front) : g.op \in BatchOps => OneEntry(g.entries, t)
               /\ Supplied(Elements(front), t) => t \notin TasksOf(pool') /\ Supplies(Top(th), t)
               /\ t \in TasksOf(pool') => t \in TasksOf(pool)
    <2>1. OneEntry(pool, t) /\ OneEntry(es, t)
      BY <1>1, <1>4 DEF Alone, OncePerPlace, BatchOps
    <2>2. OneEntry(rest, t)
      BY <1>2, <2>1 DEF OneEntry
    <2>3. Supplied(Elements(front), t) => t \in TasksOf(rest)
      BY <1>5, BatchFrameIs DEF BatchOps
    <2>4. t \in TasksOf(rest) => Supplies(Top(th), t)
      BY <1>1, <1>2 DEF Supplies, BatchOps, TasksOf
    <2>5. Supplies(Top(th), t) => t \notin TasksOf(pool)
      BY <1>1, TopIsElsewhere
    <2> QED
      BY <1>3, <1>5, <2>1, <2>2, <2>3, <2>4, <2>5
  <1> QED
    BY <1>1, <1>2, <1>3, <1>5, <1>6, ContinueUnwinds DEF front

(* The exception that ends calls below the one that failed.                *)
LEMMA PlanningFailsUnwinds ==
    ASSUME IInv, Alone, NEW th \in Threads, PlanningFails(th)
    PROVE  \E front, rest : Unwound(th, front, rest)
  <1> DEFINE es == Top(th).entries
             calls == Tail(stack[th])
  <1>1. es \subseteq Entry /\ ~Idle(th) /\ Top(th).op = "batch"
    BY TopBatch DEF PlanningFails, At, IInv
  <1>2. /\ UNCHANGED <<pool, taskEvents, inbox, current, phase, status, deadLetters, ran>>
        /\ workerEvents' = workerEvents \/ workerEvents' = <<>>
    BY DEF PlanningFails, records, pooling, processes
  <1>3. PICK late \in SUBSET es, n \in 1..Len(stack[th]) :
          stack' = [stack EXCEPT ![th] = DoBatch("defer", late) \o SubSeq(calls, n, Len(calls))]
    BY DEF PlanningFails
  <1>4. stack[th] \in Seq(SoundFrame) /\ stack[th] # <<>> /\ Top(th) \in Elements(stack[th])
    <2>1. stack[th] \in Seq(SoundFrame) /\ stack[th] # <<>>
      BY <1>1 DEF IInv, Sound, Idle
    <2> QED
      BY <2>1, ElementsOfTail DEF Top
  <1>5. calls \in Seq(SoundFrame) /\ n \in 1..Len(calls) + 1 /\ \A t \in Tasks : OnceIn(calls, t)
    <2>1. calls \in Seq(SoundFrame) /\ Len(stack[th]) = Len(calls) + 1
      BY <1>4
    <2>2. \A t \in Tasks : OnceIn(calls, t)
      BY <1>4, OnceInTail DEF Alone, OncePerPlace
    <2> QED
      BY <2>1, <2>2
  <1> HIDE DEF calls
  <1>6. PICK rest : rest = SubSeq(calls, n, Len(calls))
    OBVIOUS
  <1>7. /\ rest \in Seq(SoundFrame) /\ DOMAIN rest = 1..Len(calls) + 1 - n
        /\ \A i \in 1..Len(calls) + 1 - n : rest[i] = calls[i + n - 1]
    BY <1>5, <1>6, CaughtIs
  <1>8. \A i \in DOMAIN rest : i + n - 1 \in DOMAIN calls /\ rest[i] = calls[i + n - 1]
    <2>1. Len(calls) \in Nat /\ DOMAIN calls = 1..Len(calls)
      BY <1>5
    <2>2. \A i \in 1..Len(calls) + 1 - n : i + n - 1 \in 1..Len(calls)
      BY <1>5, <2>1
    <2> QED
      BY <1>7, <2>1, <2>2
  <1>9. Elements(rest) \subseteq Elements(Tail(stack[th]))
    BY <1>8 DEF Elements, calls
  <1>10. \A t \in Tasks : OnceIn(rest, t)
    <2> SUFFICES ASSUME NEW t \in Tasks, NEW i \in DOMAIN rest, NEW j \in DOMAIN rest,
                        Supplies(rest[i], t), Supplies(rest[j], t)
                 PROVE  i = j
      BY DEF OnceIn
    <2>1. i + n - 1 = j + n - 1
      BY <1>5, <1>8 DEF OnceIn
    <2> QED
      BY <1>5, <1>7, <2>1
  <1>11. PICK front : front = DoBatch("defer", late)
    OBVIOUS
  <1>12. /\ front \in Seq(SoundFrame) /\ Elements(front) = Single(late, "defer")
         /\ \A t \in Tasks : OnceIn(front, t)
         /\ \A g \in Elements(front) : g.op = "defer" /\ g.entries = late
    <2>1. front \in Seq(SoundFrame) /\ Elements(front) = Single(late, "defer")
      BY <1>1, <1>11, DoBatchSound, ElementsOfBatch DEF Single
    <2>2. \A g \in Single(late, "defer") : g.op = "defer" /\ g.entries = late
      BY DEF Single
    <2>3. \A t \in Tasks : OnceIn(front, t)
      BY <1>11, OnceInShort DEF DoBatch
    <2> QED
      BY <2>1, <2>2, <2>3
  <1>13. ASSUME NEW t \in Tasks
         PROVE  /\ OneEntry(pool', t)
                /\ \A g \in Elements(front) : g.op \in BatchOps => OneEntry(g.entries, t)
                /\ Supplied(Elements(front), t) => t \notin TasksOf(pool') /\ Supplies(Top(th), t)
                /\ t \in TasksOf(pool') => t \in TasksOf(pool)
    <2>1. OneEntry(pool, t) /\ OneEntry(es, t)
      BY <1>1, <1>4 DEF Alone, OncePerPlace, BatchOps
    <2>2. OneEntry(late, t)
      BY <1>3, <2>1 DEF OneEntry
    <2>3. Supplied(Elements(front), t) => t \in TasksOf(late)
      BY <1>12, BatchFrameIs DEF BatchOps
    <2>4. t \in TasksOf(late) => Supplies(Top(th), t)
      BY <1>1, <1>3 DEF Supplies, BatchOps, TasksOf
    <2>5. Supplies(Top(th), t) => t \notin TasksOf(pool)
      BY <1>1, TopIsElsewhere
    <2> QED
      BY <1>2, <1>12, <2>1, <2>2, <2>3, <2>4, <2>5
  <1>14. stack' = [stack EXCEPT ![th] = front \o rest]
    BY <1>3, <1>6, <1>11
  <1>15. Unwound(th, front, rest)
    BY <1>1, <1>2, <1>7, <1>9, <1>10, <1>12, <1>13, <1>14 DEF Unwound
  <1> QED
    BY <1>15

LEMMA PoolFaultUnwinds ==
    ASSUME IInv, Alone, NEW th \in Threads, PoolFault(th)
    PROVE  \E front, rest : Unwound(th, front, rest)
  BY AddFailsUnwinds, PutBackFailsUnwinds, PlanningFailsUnwinds, LookupFailsUnwinds DEF PoolFault

-----------------------------------------------------------------------------
(* The other steps. *)

EventOnce(t) == \A i, j \in DOMAIN taskEvents :
    taskEvents[i].task = t /\ taskEvents[j].task = t => i = j

(* An idle thread starts on something: a new task, or one taken from the    *)
(* events.                                                                 *)
LEMMA CallsKeepAlone ==
    ASSUME IInv, Alone, NEW th \in Threads, NEW frames \in Seq(SoundFrame), Call(th, frames),
           UNCHANGED <<pool, inbox, current, phase>>,
           \A f \in Elements(frames) : f.op \notin BatchOps,
           \A t \in Tasks : /\ OnceIn(frames, t) /\ EventOnce(t)'
                            /\ InEvents(t)' => InEvents(t)
                            /\ status'[t] = "NEW" => status[t] = "NEW"
                            /\ Supplied(Elements(frames), t) =>
                                 /\ ~InEvents(t)' /\ status'[t] # "NEW"
                                 /\ InEvents(t) \/ status[t] = "NEW"
    PROVE  Alone'
  <1>1. /\ \A u \in Threads : u # th => stack'[u] = stack[u]
        /\ stack[th] = <<>> /\ stack'[th] = frames /\ Elements(stack[th]) = {}
    BY AfterCall, ElementsOfEmpty DEF IInv, Sound
  <1> SUFFICES ASSUME NEW t \in Tasks
               PROVE  OncePerPlace(t)' /\ OnePlace(t)'
    BY DEF Alone
  <1>2. OncePerPlace(t) /\ OnePlace(t)
    BY DEF Alone
  <1>3. Copies(t)' = Copies(t)
    BY CopiesSame DEF SameCopies
  <1>4. Supplied(Elements(frames), t) => t \notin TasksOf(pool) /\ Copies(t) = {} /\ ~InFrames(t)
    BY <1>2 DEF OnePlace
  <1>5. /\ InFrames(t)' <=> \E u \in Threads : Supplied(Elements(stack'[u]), t)
        /\ InFrames(t) <=> \E u \in Threads : Supplied(Elements(stack[u]), t)
    BY DEF InFrames, Supplied
  <1>6. InFrames(t)' <=> InFrames(t) \/ Supplied(Elements(frames), t)
    BY <1>1, <1>5 DEF Supplied
  <1>7. \A u, v \in Threads :
          Supplied(Elements(stack'[u]), t) /\ Supplied(Elements(stack'[v]), t) => u = v
    BY <1>1, <1>2, <1>4, <1>5 DEF OncePerPlace
  <1>8. \A u \in Threads : /\ OnceIn(stack'[u], t)
                           /\ \A g \in Elements(stack'[u]) : g.op \in BatchOps => OneEntry(g.entries, t)
    BY <1>1, <1>2 DEF OncePerPlace
  <1>9. OncePerPlace(t)'
    <2>1. \A i, j \in DOMAIN taskEvents' :
            taskEvents'[i].task = t /\ taskEvents'[j].task = t => i = j
      BY DEF EventOnce
    <2>2. OneEntry(pool', t) /\ \A p, q \in Copies(t)' : p = q
      BY <1>2, <1>3 DEF OncePerPlace
    <2> QED
      BY <1>7, <1>8, <2>1, <2>2 DEF OncePerPlace, OneEntry
  <1>10. OnePlace(t)'
    <2>1. TasksOf(pool') = TasksOf(pool)
      OBVIOUS
    <2> QED
      BY <1>2, <1>3, <1>4, <1>6, <2>1 DEF OnePlace, TasksOf
  <1> QED
    BY <1>9, <1>10

(* The workers pass a task on among themselves, or to the events.          *)
LEMMA WorkersKeepAlone ==
    ASSUME IInv, Alone, UNCHANGED <<pool, stack>>,
           \A t \in Tasks : /\ EventOnce(t)' /\ \A p, q \in Copies(t)' : p = q
                            /\ InEvents(t)' => InEvents(t) \/ Copies(t) # {}
                            /\ Copies(t)' # {} => ~InEvents(t)' /\ Copies(t) # {}
                            /\ status'[t] = "NEW" => status[t] = "NEW"
    PROVE  Alone'
  <1> SUFFICES ASSUME NEW t \in Tasks
               PROVE  OncePerPlace(t)' /\ OnePlace(t)'
    BY DEF Alone
  <1>1. OncePerPlace(t) /\ OnePlace(t)
    BY DEF Alone
  <1>2. /\ InFrames(t)' <=> InFrames(t)
        /\ TasksOf(pool') = TasksOf(pool)
    BY DEF InFrames, Supplied, Supplies, Elements
  <1>3. OncePerPlace(t)'
    <2>1. \A i, j \in DOMAIN taskEvents' :
            taskEvents'[i].task = t /\ taskEvents'[j].task = t => i = j
      BY DEF EventOnce
    <2>2. \A p, q \in Copies(t)' : p = q
      OBVIOUS
    <2> QED
      BY <1>1, <2>1, <2>2 DEF OncePerPlace, OneEntry, OnceIn, Supplied, Elements
  <1>4. OnePlace(t)'
    BY <1>1, <1>2 DEF OnePlace, TasksOf
  <1> QED
    BY <1>3, <1>4

LEMMA SubmitKeepsAlone ==
    ASSUME IInv, Alone, NEW t0 \in Tasks, Submit(t0)
    PROVE  Alone'
  <1> DEFINE last == IF t0 = NTasks THEN Do("flushDue") ELSE <<>>
             frames == BackIn(t0, NoWorker) \o last
  <1>1. /\ last \in Seq(SoundFrame) /\ \A t : OnceIn(last, t) /\ ~Supplied(Elements(last), t)
        /\ \A f \in Elements(last) : f.op \notin BatchOps
    <2>1. /\ last \in Seq(SoundFrame)
          /\ Elements(last) \subseteq {[op |-> "flushDue"]}
      BY PoolFrames, EmptySeq, ElementsOfEmpty
    <2>2. \A t : ~Supplied({[op |-> "flushDue"]}, t)
      BY NotSuppliedByPool
    <2>3. \A t : ~Supplied(Elements(last), t)
      BY <2>1, <2>2 DEF Supplied
    <2>4. \A f \in Elements(last) : f.op \notin BatchOps
      BY <2>1 DEF BatchOps
    <2> HIDE DEF last
    <2> QED
      BY <2>1, <2>3, <2>4, OnceIfNone
  <1>2. /\ BackIn(t0, NoWorker) \in Seq(SoundFrame)
        /\ Elements(BackIn(t0, NoWorker)) = {TaskOf("add", t0, NoWorker)} \cup {[op |-> "flushDue"]}
        /\ \A t \in Tasks : OnceIn(BackIn(t0, NoWorker), t)
    BY BackInFrames, OnceInBackIn
  <1>3. Call("api", frames) /\ UNCHANGED <<pool, inbox, current, phase, taskEvents>>
          /\ status' = [status EXCEPT ![t0] = "PENDING"] /\ status[t0] = "NEW"
    BY DEF Submit, BackIn, pooling, processes, channels
  <1> HIDE DEF last
  <1>4. frames \in Seq(SoundFrame)
          /\ Elements(frames) = Elements(BackIn(t0, NoWorker)) \cup Elements(last)
    BY <1>1, <1>2, ConcatFrames
  <1>5. ASSUME NEW t \in Tasks
        PROVE  /\ OnceIn(frames, t)
               /\ Supplied(Elements(frames), t) => t = t0
    <2>1. OnceIn(frames, t)
      BY <1>1, <1>2, OnceInConcat
    <2>2. Supplied(Elements(BackIn(t0, NoWorker)), t) => t = t0
      <3>1. ~Supplied({[op |-> "flushDue"]}, t)
        BY NotSuppliedByPool
      <3>2. Supplied({TaskOf("add", t0, NoWorker)}, t) => t = t0
        BY DEF Supplied, Supplies, TaskOf, BatchOps
      <3> QED
        BY <1>2, <3>1, <3>2 DEF Supplied
    <2> QED
      BY <1>1, <1>4, <2>1, <2>2 DEF Supplied
  <1>6. \A f \in Elements(frames) : f.op \notin BatchOps
    BY <1>1, <1>2, <1>4 DEF TaskOf, BatchOps
  <1> HIDE DEF frames
  <1>7. ASSUME NEW t \in Tasks
        PROVE  /\ EventOnce(t)' /\ (InEvents(t)' => InEvents(t))
               /\ status'[t] = "NEW" => status[t] = "NEW" /\ t # t0
               /\ t = t0 => ~InEvents(t)' /\ status[t] = "NEW"
    <2>1. EventOnce(t) /\ (status[t] = "NEW" => ~InEvents(t))
      BY DEF Alone, OncePerPlace, OnePlace, EventOnce
    <2>2. status'[t] = IF t = t0 THEN "PENDING" ELSE status[t]
      BY <1>3 DEF IInv, RecordsTyped
    <2> QED
      BY <1>3, <2>1, <2>2 DEF EventOnce, InEvents
  <1>8. \A t \in Tasks : Supplied(Elements(frames), t) =>
           ~InEvents(t)' /\ status'[t] # "NEW" /\ status[t] = "NEW"
    BY <1>5, <1>7
  <1> QED
    BY <1>3, <1>4, <1>5, <1>6, <1>7, <1>8, CallsKeepAlone DEF Threads

LEMMA TimerKeepsAlone ==
    ASSUME IInv, Alone, NEW tm \in Timers, TimerExpires(tm)
    PROVE  Alone'
  <1> DEFINE frames == Do("flushDue")
  <1>1. /\ tm \in Threads /\ frames \in Seq(SoundFrame) /\ Elements(frames) = {[op |-> "flushDue"]}
        /\ \A t : ~Supplied(Elements(frames), t) /\ OnceIn(frames, t)
        /\ \A f \in Elements(frames) : f.op \notin BatchOps
    <2>1. tm \in Threads /\ frames \in Seq(SoundFrame) /\ Elements(frames) = {[op |-> "flushDue"]}
      BY PoolFrames DEF Threads
    <2>2. \A t : ~Supplied({[op |-> "flushDue"]}, t)
      BY NotSuppliedByPool
    <2>3. \A f \in {[op |-> "flushDue"]} : f.op \notin BatchOps
      BY DEF BatchOps
    <2> HIDE DEF frames
    <2>4. \A t : ~Supplied(Elements(frames), t)
      BY <2>1, <2>2, Zenon
    <2> QED
      BY <2>1, <2>3, <2>4, OnceIfNone
  <1>2. Call(tm, frames) /\ UNCHANGED <<pool, inbox, current, phase, taskEvents, status>>
    BY DEF TimerExpires, records, channels, processes
  <1> HIDE DEF frames
  <1>3. ASSUME NEW t \in Tasks
        PROVE  EventOnce(t)' /\ (InEvents(t)' => InEvents(t))
    <2>1. EventOnce(t)
      BY DEF Alone, OncePerPlace, EventOnce
    <2> QED
      BY <1>2, <2>1 DEF EventOnce, InEvents
  <1> QED
    BY <1>1, <1>2, <1>3, CallsKeepAlone

LEMMA EventKeepsAlone ==
    ASSUME IInv, Alone, HandleTaskEvent
    PROVE  Alone'
  <1>1. taskEvents \in Seq(SoundEvent) /\ taskEvents # <<>> /\ taskEvents' = Tail(taskEvents)
    BY DEF HandleTaskEvent, IInv, Sound
  <1> PICK ev \in SoundEvent : ev = Head(taskEvents)
    BY <1>1, HeadTailInSeq
  <1>2. /\ ev.type \in Ends /\ ev.task \in Tasks /\ ev.worker \in Workers
        /\ ev.type = "succeeded" => ev.task \in ran
    BY DEF SoundEvent, TaskEvent, Ends
  <1> DEFINE clear == DoTask("clear", ev.task, NoWorker)
             u == DoTask(ev.type, ev.task, ev.worker)
             frames == clear \o u
  <1>3. /\ clear \in Seq(SoundFrame) /\ Elements(clear) = {TaskOf("clear", ev.task, NoWorker)}
        /\ u \in Seq(SoundFrame) /\ Elements(u) = {TaskOf(ev.type, ev.task, ev.worker)}
    BY <1>2, DoTaskSound, ElementsOfTask DEF Ends, TaskOf
  <1>4. \A t : OnceIn(clear, t) /\ OnceIn(u, t)
    BY OnceInShort DEF DoTask
  <1>5. Call("tasks", frames) /\ UNCHANGED <<pool, inbox, current, phase, status>>
    BY DEF HandleTaskEvent, pooling, processes, records
  <1> HIDE DEF clear, u
  <1>6. \A t : ~Supplied(Elements(clear), t) /\ (Supplied(Elements(u), t) => t = ev.task)
    BY <1>2, <1>3 DEF Supplied, Supplies, TaskOf, PoolOps, BatchOps, Ends
  <1>7. frames \in Seq(SoundFrame) /\ Elements(frames) = Elements(clear) \cup Elements(u)
    BY <1>3, ConcatFrames
  <1>8. \A t : OnceIn(frames, t) /\ (Supplied(Elements(frames), t) => t = ev.task)
    <2>1. \A t : OnceIn(frames, t)
      BY <1>3, <1>4, <1>6, OnceInConcat
    <2> QED
      BY <1>6, <1>7, <2>1 DEF Supplied
  <1>9. \A f \in Elements(frames) : f.op \notin BatchOps
    BY <1>2, <1>3, <1>7 DEF TaskOf, Ends, BatchOps
  <1> HIDE DEF frames
  <1>10. /\ Len(taskEvents) \in Nat /\ Len(taskEvents) > 0 /\ DOMAIN taskEvents = 1..Len(taskEvents)
         /\ DOMAIN taskEvents' = 1..Len(taskEvents) - 1 /\ taskEvents[1] = ev
         /\ \A i \in 1..Len(taskEvents) - 1 : taskEvents'[i] = taskEvents[i + 1]
    BY <1>1
  <1>11. \A i \in DOMAIN taskEvents' : i + 1 \in DOMAIN taskEvents /\ taskEvents'[i] = taskEvents[i + 1]
                                      /\ i + 1 # 1
    BY <1>10
  <1>12. ASSUME NEW t \in Tasks
         PROVE  /\ EventOnce(t)' /\ (InEvents(t)' => InEvents(t))
                /\ t = ev.task => InEvents(t) /\ ~InEvents(t)'
                /\ InEvents(t) => status[t] # "NEW"
    <2>1. EventOnce(t) /\ (InEvents(t) => status[t] # "NEW")
      BY DEF Alone, OncePerPlace, OnePlace, EventOnce
    <2>2. EventOnce(t)'
      <3> SUFFICES ASSUME NEW i \in DOMAIN taskEvents', NEW j \in DOMAIN taskEvents',
                          taskEvents'[i].task = t, taskEvents'[j].task = t
                   PROVE  i = j
        BY DEF EventOnce
      <3>1. i + 1 = j + 1
        BY <1>11, <2>1 DEF EventOnce
      <3> QED
        BY <1>10, <3>1
    <2>3. InEvents(t)' => InEvents(t)
      BY <1>11 DEF InEvents
    <2>4. t = ev.task => InEvents(t)
      BY <1>10 DEF InEvents
    <2>5. t = ev.task => ~InEvents(t)'
      <3>1. 1 \in DOMAIN taskEvents
        BY <1>10
      <3> QED
        BY <1>10, <1>11, <2>1, <3>1 DEF InEvents, EventOnce
    <2> QED
      BY <2>1, <2>2, <2>3, <2>4, <2>5
  <1>13. \A t \in Tasks : Supplied(Elements(frames), t) =>
            ~InEvents(t)' /\ status'[t] # "NEW" /\ InEvents(t)
    BY <1>5, <1>8, <1>12
  <1> QED
    BY <1>5, <1>7, <1>8, <1>9, <1>12, <1>13, CallsKeepAlone DEF Threads

-----------------------------------------------------------------------------
(* The workers.  A copy is <<w, n>> in the inbox, or <<w, 0>> in execution. *)
LEMMA CopyAt ==
    ASSUME NEW t
    PROVE  /\ \A v \in Workers : \A i : <<v, i>> \in Copies(t) <=>
                 \/ i \in DOMAIN inbox[v] /\ inbox[v][i] = t
                 \/ i = 0 /\ current[v] = t /\ phase[v] # "reported"
           /\ \A p \in Copies(t) : \E v \in Workers : \E i : p = <<v, i>>
  BY CopyIs

LEMMA CopyAtNext ==
    ASSUME NEW t
    PROVE  /\ \A v \in Workers : \A i : <<v, i>> \in Copies(t)' <=>
                 \/ i \in DOMAIN inbox'[v] /\ inbox'[v][i] = t
                 \/ i = 0 /\ current'[v] = t /\ phase'[v] # "reported"
           /\ \A p \in Copies(t)' : \E v \in Workers : \E i : p = <<v, i>>
  BY CopyIsNext

(* The workers lose copies at most, and tell nobody.                       *)
LEMMA FewerKeepAlone ==
    ASSUME IInv, Alone, UNCHANGED <<pool, stack, taskEvents>>,
           \A t \in Tasks : /\ Copies(t)' \subseteq Copies(t)
                            /\ status'[t] = "NEW" => status[t] = "NEW"
    PROVE  Alone'
  <1>1. ASSUME NEW t \in Tasks
        PROVE  /\ EventOnce(t)' /\ \A p, q \in Copies(t)' : p = q
               /\ InEvents(t)' => InEvents(t) \/ Copies(t) # {}
               /\ Copies(t)' # {} => ~InEvents(t)' /\ Copies(t) # {}
    <2>1. EventOnce(t) /\ \A p, q \in Copies(t) : p = q
      BY DEF Alone, OncePerPlace, EventOnce
    <2>2. InEvents(t) => Copies(t) = {}
      BY DEF Alone, OnePlace
    <2>3. EventOnce(t)' /\ (InEvents(t)' <=> InEvents(t))
      BY <2>1 DEF EventOnce, InEvents
    <2> QED
      BY <2>1, <2>2, <2>3
  <1> QED
    BY <1>1, WorkersKeepAlone

(* A worker takes the oldest task of its inbox.                            *)
LEMMA ReceiveKeepsAlone ==
    ASSUME IInv, Alone, NEW w \in Workers, Receive(w)
    PROVE  Alone'
  <1>1. /\ inbox[w] \in Seq(Runnable) /\ inbox[w] # <<>> /\ current[w] = 0
        /\ inbox'[w] = Tail(inbox[w]) /\ current'[w] = Head(inbox[w]) /\ phase'[w] = "running"
        /\ \A v \in Workers : v # w => /\ inbox'[v] = inbox[v] /\ current'[v] = current[v]
                                      /\ phase'[v] = phase[v]
        /\ UNCHANGED <<pool, stack, taskEvents, status>>
    BY DEF Receive, IInv, Sound, FleetTyped, records, pooling, channels
  <1>2. /\ Len(inbox[w]) \in Nat /\ Len(inbox[w]) > 0 /\ DOMAIN inbox[w] = 1..Len(inbox[w])
        /\ DOMAIN inbox'[w] = 1..Len(inbox[w]) - 1 /\ current'[w] = inbox[w][1]
        /\ \A i \in 1..Len(inbox[w]) - 1 : inbox'[w][i] = inbox[w][i + 1]
    BY <1>1
  <1>3. /\ 1 \in DOMAIN inbox[w] /\ 0 \notin DOMAIN inbox'[w]
        /\ \A i \in DOMAIN inbox'[w] : /\ i + 1 \in DOMAIN inbox[w] /\ i + 1 # 1
                                       /\ inbox'[w][i] = inbox[w][i + 1] /\ i \in Int
    BY <1>2
  <1>4. ASSUME NEW t \in Tasks
        PROVE  /\ \A p, q \in Copies(t)' : p = q
               /\ Copies(t)' # {} => Copies(t) # {}
    <2>1. \A p, q \in Copies(t) : p = q
      BY DEF Alone, OncePerPlace
    <2>2. /\ \A i \in DOMAIN inbox'[w] : inbox'[w][i] = t => <<w, i + 1>> \in Copies(t)
          /\ current'[w] = t => <<w, 1>> \in Copies(t)
      BY <1>2, <1>3, CopyAt
    <2>3. \A v \in Workers : \A i : v # w => (<<v, i>> \in Copies(t)' <=> <<v, i>> \in Copies(t))
      BY <1>1, CopyAt, CopyAtNext
    <2>9. /\ \A v \in Workers : \A i : <<v, i>> \in Copies(t)' <=>
                \/ i \in DOMAIN inbox'[v] /\ inbox'[v][i] = t
                \/ i = 0 /\ current'[v] = t /\ phase'[v] # "reported"
          /\ \A p \in Copies(t)' : \E v \in Workers : \E i : p = <<v, i>>
      BY CopyAtNext
    <2>4. \A i : <<w, i>> \in Copies(t)' <=>
            \/ i \in DOMAIN inbox'[w] /\ inbox'[w][i] = t
            \/ i = 0 /\ current'[w] = t
      BY <1>1, <2>9
    (* Each copy has one it comes from, and two never have the same.       *)
    <2> DEFINE before(v, i) == IF v = w THEN <<v, i + 1>> ELSE <<v, i>>
    <2>5. ASSUME NEW v \in Workers, NEW i, <<v, i>> \in Copies(t)'
          PROVE  before(v, i) \in Copies(t) /\ (v = w => i \in Int)
      BY <1>3, <2>2, <2>3, <2>4, <2>5
    <2>6. ASSUME NEW u \in Workers, NEW i, <<u, i>> \in Copies(t)',
                 NEW v \in Workers, NEW j, <<v, j>> \in Copies(t)'
          PROVE  u = v /\ i = j
      <3>1. before(u, i) = before(v, j)
        BY <2>1, <2>5, <2>6
      <3>2. u = v
        BY <3>1
      <3> QED
        BY <2>5, <2>6, <3>1, <3>2
    <2>7. \A p, q \in Copies(t)' : p = q
      <3> SUFFICES ASSUME NEW p \in Copies(t)', NEW q \in Copies(t)'
                   PROVE  p = q
        OBVIOUS
      <3>1. PICK u \in Workers : \E i : p = <<u, i>>
        BY <2>9
      <3>2. PICK i : p = <<u, i>>
        BY <3>1
      <3>3. PICK v \in Workers : \E j : q = <<v, j>>
        BY <2>9
      <3>4. PICK j : q = <<v, j>>
        BY <3>3
      <3> QED
        BY <2>6, <3>2, <3>4
    <2>8. Copies(t)' # {} => Copies(t) # {}
      <3> SUFFICES ASSUME NEW p \in Copies(t)'
                   PROVE  Copies(t) # {}
        OBVIOUS
      <3>1. PICK u \in Workers : \E i : p = <<u, i>>
        BY <2>9
      <3>2. PICK i : p = <<u, i>>
        BY <3>1
      <3>3. before(u, i) \in Copies(t)
        BY <2>5, <3>2
      <3> QED
        BY <3>3
    <2> QED
      BY <2>7, <2>8
  <1>5. ASSUME NEW t \in Tasks
        PROVE  EventOnce(t)' /\ (InEvents(t)' <=> InEvents(t)) /\ (InEvents(t) => Copies(t) = {})
    <2>1. EventOnce(t) /\ (InEvents(t) => Copies(t) = {})
      BY DEF Alone, OncePerPlace, OnePlace, EventOnce
    <2> QED
      BY <1>1, <2>1 DEF EventOnce, InEvents
  <1>6. \A t \in Tasks : status'[t] = "NEW" => status[t] = "NEW"
    BY <1>1
  <1> QED
    BY <1>1, <1>4, <1>5, <1>6, WorkersKeepAlone

(* An execution that ends leaves its worker and becomes an event.          *)
LEMMA ReportKeepsAlone ==
    ASSUME IInv, Alone, NEW w \in Workers, NEW type \in {"succeeded", "failed"}, Report(w, type),
           phase[w] \notin {"ready", "reported"},
           UNCHANGED <<pool, stack, status, inbox, current>>
    PROVE  Alone'
  <1>1. current[w] \in Tasks
    BY BusyHasTask
  <1> PICK t0 \in Tasks : t0 = current[w]
    BY <1>1
  <1> DEFINE ev == [type |-> type, task |-> current[w], worker |-> w]
             n == Len(taskEvents) + 1
  <1>2. /\ taskEvents \in Seq(SoundEvent) /\ taskEvents' = Append(taskEvents, ev)
        /\ phase'[w] = "reported" /\ \A v \in Workers : v # w => phase'[v] = phase[v]
    BY DEF Report, IInv, Sound, FleetTyped
  <1>3. /\ n \in Nat /\ DOMAIN taskEvents = 1..n - 1 /\ DOMAIN taskEvents' = 1..n
        /\ \A i \in 1..n - 1 : taskEvents'[i] = taskEvents[i]
        /\ taskEvents'[n] = ev /\ ev.task = t0
    BY <1>2
  <1>4. /\ \A i \in DOMAIN taskEvents' :
             \/ i = n
             \/ i \in DOMAIN taskEvents /\ taskEvents'[i] = taskEvents[i]
        /\ \A i \in DOMAIN taskEvents : i \in DOMAIN taskEvents' /\ taskEvents'[i] = taskEvents[i]
        /\ n \in DOMAIN taskEvents'
    BY <1>3
  <1> HIDE DEF n, ev
  <1>5. ASSUME NEW t \in Tasks
        PROVE  /\ \A v \in Workers : \A i : <<v, i>> \in Copies(t) <=>
                     \/ i \in DOMAIN inbox[v] /\ inbox[v][i] = t
                     \/ i = 0 /\ current[v] = t /\ phase[v] # "reported"
               /\ \A v \in Workers : \A i : <<v, i>> \in Copies(t)' <=>
                     \/ i \in DOMAIN inbox[v] /\ inbox[v][i] = t
                     \/ i = 0 /\ current[v] = t /\ phase'[v] # "reported"
               /\ \A p \in Copies(t)' : \E v \in Workers : \E i : p = <<v, i>>
    <2>1. /\ \A v \in Workers : \A i : <<v, i>> \in Copies(t)' <=>
                \/ i \in DOMAIN inbox'[v] /\ inbox'[v][i] = t
                \/ i = 0 /\ current'[v] = t /\ phase'[v] # "reported"
          /\ \A p \in Copies(t)' : \E v \in Workers : \E i : p = <<v, i>>
      BY CopyAtNext
    <2> QED
      BY <2>1, CopyAt
  <1>6. ASSUME NEW t \in Tasks
        PROVE  Copies(t)' \subseteq Copies(t)
    <2> SUFFICES ASSUME NEW p \in Copies(t)'
                 PROVE  p \in Copies(t)
      OBVIOUS
    <2>1. PICK v \in Workers : \E i : p = <<v, i>>
      BY <1>5
    <2>2. PICK i : p = <<v, i>>
      BY <2>1
    <2>3. phase'[v] # "reported" => phase[v] # "reported"
      BY <1>2
    <2> QED
      BY <1>5, <2>2, <2>3
  <1>7. <<w, 0>> \in Copies(t0) /\ <<w, 0>> \notin Copies(t0)'
    <2>1. 0 \notin DOMAIN inbox[w]
      BY DEF IInv, Sound
    <2> QED
      BY <1>2, <1>5, <2>1
  <1>8. ASSUME NEW t \in Tasks
        PROVE  /\ EventOnce(t)' /\ \A p, q \in Copies(t)' : p = q
               /\ InEvents(t)' => InEvents(t) \/ Copies(t) # {}
               /\ Copies(t)' # {} => ~InEvents(t)' /\ Copies(t) # {}
               /\ status'[t] = "NEW" => status[t] = "NEW"
    <2>1. EventOnce(t) /\ (\A p, q \in Copies(t) : p = q) /\ (InEvents(t) => Copies(t) = {})
      BY DEF Alone, OncePerPlace, OnePlace, EventOnce
    <2>2. CASE t = t0
      <3>1. ~InEvents(t) /\ Copies(t)' = {}
        BY <1>6, <1>7, <2>1, <2>2
      <3>2. EventOnce(t)'
        BY <1>4, <3>1 DEF EventOnce, InEvents
      <3> QED
        BY <1>7, <2>2, <3>1, <3>2
    <2>3. CASE t # t0
      <3>1. InEvents(t)' <=> InEvents(t)
        BY <1>3, <1>4, <2>3 DEF InEvents
      <3>2. EventOnce(t)'
        BY <1>3, <1>4, <2>1, <2>3 DEF EventOnce
      <3> QED
        BY <1>6, <2>1, <3>1, <3>2
    <2> QED
      BY <2>2, <2>3
  <1> QED
    BY <1>8, WorkersKeepAlone

(* What a worker that changes its place or its phase holds.                *)
LEMMA FewerCopies ==
    ASSUME \A v \in Workers :
             /\ inbox'[v] = inbox[v] \/ inbox'[v] = <<>>
             /\ \A t \in Tasks : current'[v] = t /\ phase'[v] # "reported" =>
                    current[v] = t /\ phase[v] # "reported"
    PROVE  \A t \in Tasks : Copies(t)' \subseteq Copies(t)
  <1> SUFFICES ASSUME NEW t \in Tasks, NEW p \in Copies(t)'
               PROVE  p \in Copies(t)
    OBVIOUS
  <1>1. PICK v \in Workers :
          \/ \E i \in DOMAIN inbox'[v] : p = <<v, i>> /\ inbox'[v][i] = t
          \/ p = <<v, 0>> /\ current'[v] = t /\ phase'[v] # "reported"
    <2>1. \A q : q \in Copies(t)' => \E v \in Workers :
            \/ \E i \in DOMAIN inbox'[v] : q = <<v, i>> /\ inbox'[v][i] = t
            \/ q = <<v, 0>> /\ current'[v] = t /\ phase'[v] # "reported"
      BY CopyIsNext
    <2> QED
      BY <2>1
  <1>2. CASE p = <<v, 0>> /\ current'[v] = t /\ phase'[v] # "reported"
    BY <1>2, CopyAt
  <1>3. CASE \E i \in DOMAIN inbox'[v] : p = <<v, i>> /\ inbox'[v][i] = t
    <2>1. PICK i \in DOMAIN inbox'[v] : p = <<v, i>> /\ inbox'[v][i] = t
      BY <1>3
    <2>2. inbox'[v] = inbox[v]
      BY <2>1
    <2> QED
      BY <2>1, <2>2, CopyAt
  <1> QED
    BY <1>1, <1>2, <1>3

LEMMA WorkerStepsKeepAlone ==
    ASSUME IInv, Alone, NEW w \in Workers, WorkerStep(w) \/ WorkerTrouble(w), ~Shutdown(w)
    PROVE  Alone'
  <1> USE DEF records, pooling, channels, processes
  <1>1. CASE Receive(w)
    BY <1>1, ReceiveKeepsAlone
  <1>2. CASE \E type \in {"succeeded", "failed"} : Report(w, type)
    <2>1. phase[w] \notin {"ready", "reported"} /\ UNCHANGED <<pool, stack, status, inbox, current>>
      BY <1>2 DEF WorkerStep, WorkerTrouble, Receive, ExecutorRaises, ExecutorReturns, ResultAccepted,
         ReportIdle, ResultTimesOut, Crash, Stops, HeartbeatExpires, Join, Report, IInv, Sound, FleetTyped
    <2> QED
      BY <1>2, <2>1, ReportKeepsAlone
  <1>3. CASE ~Receive(w) /\ ~\E type \in {"succeeded", "failed"} : Report(w, type)
    <2>1. UNCHANGED <<pool, stack, taskEvents, status>>
      BY <1>3 DEF WorkerStep, WorkerTrouble, ExecutorRaises, ExecutorReturns, ResultAccepted,
         ReportIdle, ResultTimesOut, Crash, HeartbeatExpires, Join
    <2>2. ASSUME NEW v \in Workers
          PROVE  /\ inbox'[v] = inbox[v] \/ inbox'[v] = <<>>
                 /\ \A t \in Tasks : current'[v] = t /\ phase'[v] # "reported" =>
                        current[v] = t /\ phase[v] # "reported"
      <3>1. CASE ExecutorReturns(w) /\ HttpResults
        BY <3>1 DEF ExecutorReturns, IInv, Sound, FleetTyped
      <3>2. CASE ReportIdle(w) \/ Crash(w)
        <4>1. 0 \notin Tasks
          BY ConstantsAssumption DEF Tasks
        <4> QED
          BY <3>2, <4>1 DEF ReportIdle, Crash, Stops, IInv, Sound, FleetTyped
      <3>3. CASE HeartbeatExpires(w) \/ Join(w)
        BY <3>3 DEF HeartbeatExpires, Join
      <3> QED
        BY <1>3, <3>1, <3>2, <3>3 DEF WorkerStep, WorkerTrouble, ExecutorRaises, ExecutorReturns,
           ResultAccepted, ResultTimesOut
    <2>3. \A t \in Tasks : Copies(t)' \subseteq Copies(t)
      BY <2>2, FewerCopies
    <2> QED
      BY <2>1, <2>3, FewerKeepAlone
  <1> QED
    BY <1>1, <1>2, <1>3

(* Steps that touch neither the workers' copies nor the work.              *)
LEMMA RecordsKeepAlone ==
    ASSUME IInv, Alone, (\E t \in Tasks : RetryDue(t)) \/ (\E e \in posts : IngestResult(e))
                          \/ UNCHANGED vars
    PROVE  Alone' /\ workerEvents' = workerEvents /\ stack' = stack
  <1> USE DEF records, pooling, channels, processes
  <1>1. /\ UNCHANGED <<pool, stack, taskEvents, workerEvents, inbox, current>>
        /\ \A t \in Tasks : status'[t] = "NEW" => status[t] = "NEW"
        /\ \A v \in Workers : phase'[v] # "reported" => phase[v] # "reported"
    <2>1. CASE \E t \in Tasks : RetryDue(t)
      BY <2>1 DEF RetryDue
    <2>2. CASE \E e \in posts : IngestResult(e)
      <3>1. PICK e \in posts : IngestResult(e)
        BY <2>2
      <3>2. \A t \in Tasks : status'[t] = "NEW" => status[t] = "NEW"
        BY <3>1 DEF IngestResult, IInv, RecordsTyped
      <3>3. \A v \in Workers : phase'[v] # "reported" => phase[v] # "reported"
        BY <3>1 DEF IngestResult, IInv, FleetTyped
      <3> QED
        BY <3>1, <3>2, <3>3 DEF IngestResult
    <2>3. CASE UNCHANGED vars
      BY <2>3 DEF vars
    <2> QED
      BY <2>1, <2>2, <2>3
  <1>2. \A t \in Tasks : Copies(t)' \subseteq Copies(t)
    BY <1>1, FewerCopies
  <1> QED
    BY <1>1, <1>2, FewerKeepAlone

(* So far no publication has raised and no worker has announced its end.   *)
Calm == spent.faults = 0 /\ spent.shutdowns = 0

(* A step counts at most one failure, within its bound.                    *)
Within(what, bound) == /\ Spend(what, bound)
                       /\ what = "faults" => bound = MaxFaults
                       /\ what = "shutdowns" => bound = MaxShutdowns

LEMMA SpentWithin ==
    ASSUME [Next]_vars
    PROVE  UNCHANGED spent \/ \E what \in Counted : \E bound : Within(what, bound)
  <1>1. CASE UNCHANGED vars
    BY <1>1 DEF vars
  <1>2. CASE \E th \in Threads : ThreadStep(th)
    BY <1>2 DEF ThreadStep, PoolStep, DispatchStep, HandlerStep, AddToPool, FlushDue, FlushAll,
       ClearFromPool, EnsureTimer, CancelTimer, FilterBatch, PutBackDeferred, PlanNext, Publish,
       MarkWorkerRunning, CommitDispatch, RequeueTask, TaskSucceeded, TaskFailed, Reschedule
  <1>3. CASE \E th \in Threads : DispatchFault(th)
    BY <1>3 DEF DispatchFault, Within, Counted
  <1>4. CASE \E th \in Threads : PoolFault(th)
    BY <1>4 DEF PoolFault, AddFails, PutBackFails, PlanningFails, LookupFails, Within, Counted
  <1>5. CASE \E w \in Workers : WorkerStep(w)
    BY <1>5 DEF WorkerStep, Receive, ExecutorRaises, ExecutorReturns, ResultAccepted, ReportIdle
  <1>6. CASE \E w \in Workers : WorkerTrouble(w)
    BY <1>6 DEF WorkerTrouble, ResultTimesOut, Shutdown, Crash, HeartbeatExpires, Join, Within, Counted
  <1>7. CASE \/ \E tm \in Timers : TimerExpires(tm)
             \/ \E t \in Tasks : Submit(t) \/ RetryDue(t)
             \/ \E e \in posts : IngestResult(e)
             \/ HandleTaskEvent
             \/ HandleUnregister
    BY <1>7 DEF TimerExpires, Submit, RetryDue, IngestResult, HandleTaskEvent, HandleUnregister
  <1> QED
    BY <1>1, <1>2, <1>3, <1>4, <1>5, <1>6, <1>7 DEF Next

(* The counters only grow, so that all was calm before a step after which it *)
(* still is.                                                               *)
LEMMA CalmBefore ==
    ASSUME IInv, [Next]_vars, Calm'
    PROVE  /\ Calm
           /\ \A th \in Threads : ~DispatchFault(th)
           /\ \A w \in Workers : ~Shutdown(w)
           /\ spent'.timeouts = 0 => spent.timeouts = 0 /\ \A w \in Workers : ~ResultTimesOut(w)
  <1>1. spent \in [Counted -> Nat]
    BY DEF IInv, HistoryTyped
  <1>2. \A what \in Counted : \A bound : Spend(what, bound) =>
          spent'[what] # 0 /\ \A other \in Counted : spent'[other] = 0 => spent[other] = 0
    BY <1>1 DEF Spend
  <1>3. UNCHANGED spent \/ \E what \in Counted : \E bound : Spend(what, bound)
    BY SpentWithin DEF Within
  <1>4. \A other \in Counted : spent'[other] = 0 => spent[other] = 0
    BY <1>2, <1>3
  <1>5. /\ \A th \in Threads : DispatchFault(th) => spent'["faults"] # 0
        /\ \A w \in Workers : Shutdown(w) => spent'["shutdowns"] # 0
        /\ \A w \in Workers : ResultTimesOut(w) => spent'["timeouts"] # 0
    BY <1>2 DEF DispatchFault, Shutdown, ResultTimesOut, Counted
  <1>6. {"faults", "shutdowns", "timeouts"} \subseteq Counted
    BY DEF Counted
  <1> QED
    BY <1>4, <1>5, <1>6 DEF Calm

LEMMA StepKeepsAlone ==
    ASSUME Calm', IInv, Order, Alone, NobodyLeaves, [Next]_vars
    PROVE  Alone' /\ NobodyLeaves'
  <1>1. /\ \A th \in Threads : ~DispatchFault(th)
        /\ \A w \in Workers : ~Shutdown(w)
        /\ ~HandleUnregister
    BY CalmBefore DEF HandleUnregister, NobodyLeaves
  <1>2. CASE \E th \in Threads : ThreadStep(th)
    BY <1>2, ThreadsKeepAlone
  <1>3. ASSUME NEW th \in Threads, NEW frames, Call(th, frames), workerEvents' = workerEvents,
               \A f \in Elements(frames) : f.op # "lost"
        PROVE  NobodyLeaves'
    <2>1. /\ \A u \in Threads : u # th => stack'[u] = stack[u]
          /\ stack'[th] = frames
      BY <1>3, AfterCall DEF IInv, Sound
    <2>2. \A u \in Threads : \A f \in Elements(stack'[u]) : f.op # "lost"
      BY <1>3, <2>1 DEF NobodyLeaves
    <2> QED
      BY <1>3, <2>2 DEF NobodyLeaves, Elements
  <1>4. CASE \E tm \in Timers : TimerExpires(tm)
    <2>1. PICK tm \in Timers : TimerExpires(tm)
      BY <1>4
    <2>2. \A f \in Elements(Do("flushDue")) : f.op # "lost"
      BY PoolFrames
    <2>3. Call(tm, Do("flushDue")) /\ workerEvents' = workerEvents /\ tm \in Threads
      BY <2>1 DEF TimerExpires, channels, Threads
    <2> QED
      BY <1>3, <2>1, <2>2, <2>3, TimerKeepsAlone
  <1>5. CASE \E t \in Tasks : Submit(t)
    <2>1. PICK t \in Tasks : Submit(t)
      BY <1>5
    <2> DEFINE last == IF t = NTasks THEN Do("flushDue") ELSE <<>>
               frames == BackIn(t, NoWorker) \o last
    <2>2. last \in Seq(SoundFrame) /\ Elements(last) \subseteq {[op |-> "flushDue"]}
      BY PoolFrames, EmptySeq, ElementsOfEmpty
    <2>3. /\ BackIn(t, NoWorker) \in Seq(SoundFrame)
          /\ Elements(BackIn(t, NoWorker)) = {TaskOf("add", t, NoWorker), [op |-> "flushDue"]}
      BY BackInFrames
    <2>4. Call("api", frames) /\ workerEvents' = workerEvents /\ "api" \in Threads
      BY <2>1 DEF Submit, BackIn, channels, Threads
    <2> HIDE DEF last
    <2>5. Elements(frames) = Elements(BackIn(t, NoWorker)) \cup Elements(last)
      BY <2>2, <2>3, ConcatFrames
    <2>6. \A f \in Elements(frames) : f.op # "lost"
      BY <2>2, <2>3, <2>5 DEF TaskOf
    <2> HIDE DEF frames
    <2> QED
      BY <1>3, <2>1, <2>4, <2>6, SubmitKeepsAlone
  <1>6. CASE HandleTaskEvent
    <2>1. taskEvents \in Seq(SoundEvent) /\ taskEvents # <<>>
      BY <1>6 DEF HandleTaskEvent, IInv, Sound
    <2> PICK ev \in SoundEvent : ev = Head(taskEvents)
      BY <2>1, HeadTailInSeq
    <2>2. /\ ev.type \in Ends /\ ev.task \in Tasks /\ ev.worker \in Workers
          /\ ev.type = "succeeded" => ev.task \in ran
      BY DEF SoundEvent, TaskEvent, Ends
    <2> DEFINE clear == DoTask("clear", ev.task, NoWorker)
               u == DoTask(ev.type, ev.task, ev.worker)
               frames == clear \o u
    <2>3. /\ clear \in Seq(SoundFrame) /\ Elements(clear) = {TaskOf("clear", ev.task, NoWorker)}
          /\ u \in Seq(SoundFrame) /\ Elements(u) = {TaskOf(ev.type, ev.task, ev.worker)}
      BY <2>2, DoTaskSound, ElementsOfTask DEF Ends, TaskOf
    <2>4. Call("tasks", frames) /\ workerEvents' = workerEvents /\ "tasks" \in Threads
      BY <1>6 DEF HandleTaskEvent, Threads
    <2> HIDE DEF clear, u
    <2>5. Elements(frames) = Elements(clear) \cup Elements(u)
      BY <2>3, ConcatFrames
    <2>6. \A f \in Elements(frames) : f.op # "lost"
      BY <2>2, <2>3, <2>5 DEF TaskOf, Ends
    <2> HIDE DEF frames
    <2> QED
      BY <1>3, <1>6, <2>4, <2>6, EventKeepsAlone
  <1>7. CASE (\E t \in Tasks : RetryDue(t)) \/ (\E e \in posts : IngestResult(e)) \/ UNCHANGED vars
    BY <1>7, RecordsKeepAlone DEF NobodyLeaves, Elements
  <1>8. CASE \E w \in Workers : WorkerStep(w) \/ WorkerTrouble(w)
    <2>1. PICK w \in Workers : WorkerStep(w) \/ WorkerTrouble(w)
      BY <1>8
    <2>2. UNCHANGED <<stack, workerEvents>>
      BY <1>1, <2>1 DEF WorkerStep, WorkerTrouble, Receive, ExecutorRaises, ExecutorReturns,
         ResultAccepted, ReportIdle, ResultTimesOut, Crash, HeartbeatExpires, Join, channels
    <2>3. NobodyLeaves'
      BY <2>2 DEF NobodyLeaves, Elements
    <2> QED
      BY <1>1, <2>1, <2>3, WorkerStepsKeepAlone
  <1>9. CASE \E th \in Threads : PoolFault(th)
    BY <1>9, PoolFaultUnwinds, FaultKeepsAlone
  <1> QED
    BY <1>1, <1>2, <1>4, <1>5, <1>6, <1>7, <1>8, <1>9 DEF Next

LEMMA InitAlone ==
    ASSUME Init
    PROVE  Alone /\ NobodyLeaves
  <1>1. \A t \in Tasks : Copies(t) = {}
    <2> SUFFICES ASSUME NEW t \in Tasks, NEW p \in Copies(t)
                 PROVE  FALSE
      OBVIOUS
    <2>1. 0 \notin Tasks
      BY ConstantsAssumption DEF Tasks
    <2> QED
      BY <2>1, CopyIs DEF Init
  <1>2. /\ \A th \in Threads : stack[th] = <<>> /\ Elements(stack[th]) = {}
        /\ taskEvents = <<>> /\ workerEvents = <<>> /\ pool = {}
    BY ElementsOfEmpty DEF Init
  <1>3. \A t \in Tasks : ~InFrames(t) /\ ~InEvents(t) /\ t \notin TasksOf(pool)
    BY <1>2 DEF InFrames, InEvents, Supplied, TasksOf
  <1>4. \A t \in Tasks : OnePlace(t)
    BY <1>1, <1>3 DEF OnePlace
  <1>5. ASSUME NEW t \in Tasks
        PROVE  OncePerPlace(t)
    <2>1. OneEntry(pool, t) /\ \A p, q \in Copies(t) : p = q
      BY <1>1, <1>2 DEF OneEntry
    <2>2. \A th \in Threads : OnceIn(stack[th], t) /\ ~Supplied(Elements(stack[th]), t)
      BY <1>2 DEF OnceIn, Supplied
    <2>3. DOMAIN taskEvents = {}
      BY <1>2
    <2> QED
      BY <1>2, <2>1, <2>2, <2>3 DEF OncePerPlace
  <1> QED
    BY <1>2, <1>4, <1>5 DEF Alone, NobodyLeaves

LEMMA AloneAlways == Spec => [](Calm => Alone /\ NobodyLeaves)
  <1>1. Init => (Calm => Alone /\ NobodyLeaves)
    BY InitAlone
  <1>2. IInv /\ Order /\ (Calm => Alone /\ NobodyLeaves) /\ [Next]_vars =>
          (Calm => Alone /\ NobodyLeaves)'
    BY CalmBefore, StepKeepsAlone
  <1> QED
    BY <1>1, <1>2, Invariance, WorkIsKept, PTL DEF Spec

LEMMA CalmAlways ==
    ASSUME MaxFaults = 0, MaxShutdowns = 0
    PROVE  Spec => []Calm
  <1>1. Init => Calm
    BY DEF Init, Calm
  <1>2. ASSUME IInv, Calm, [Next]_vars
        PROVE  Calm'
    <2>1. spent \in [Counted -> Nat] /\ {"faults", "shutdowns"} \subseteq Counted
      BY <1>2 DEF IInv, HistoryTyped, Counted
    <2>2. CASE UNCHANGED spent
      BY <1>2, <2>2 DEF Calm
    <2>3. ASSUME NEW what \in Counted, NEW bound, Within(what, bound)
          PROVE  Calm'
      <3>1. what # "faults" /\ what # "shutdowns"
        BY <1>2, <2>1, <2>3 DEF Within, Spend, Calm
      <3> QED
        BY <1>2, <2>1, <2>3, <3>1 DEF Within, Spend, Calm
    <2> QED
      BY <1>2, <2>2, <2>3, SpentWithin
  <1> QED
    BY <1>1, <1>2, Invariance, PTL DEF Spec

(* No two copies of a task are with the workers at a time, when no Redis    *)
(* call around a publication raises and no worker announces its end: each  *)
(* of these two makes the orchestrator hand out a task that a worker may   *)
(* still have.  Crashes, restarts, result POSTs that time out and failing  *)
(* calls of the pool do not break it.                                      *)
THEOREM OneAttemptAtATime ==
    ASSUME MaxFaults = 0, MaxShutdowns = 0
    PROVE  Spec => []AtMostOneAttempt
  <1>1. Alone => AtMostOneAttempt
    <2> SUFFICES ASSUME Alone, NEW t \in Tasks
                 PROVE  Cardinality(Copies(t)) <= 1
      BY DEF AtMostOneAttempt
    <2>1. \A p, q \in Copies(t) : p = q
      BY DEF Alone, OncePerPlace
    <2>2. CASE Copies(t) = {}
      BY <2>2, FS_EmptySet
    <2>3. CASE Copies(t) # {}
      <3>1. PICK p : Copies(t) = {p}
        BY <2>1, <2>3
      <3> QED
        BY <3>1, FS_Singleton
    <2> QED
      BY <2>2, <2>3
  <1> QED
    BY <1>1, AloneAlways, CalmAlways, PTL
=============================================================================
