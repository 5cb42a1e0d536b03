------------------------ MODULE DispatchPlaces_proofs ------------------------
(***************************************************************************)
(* Nothing pending is forgotten, and a pool with tasks has a timer: for any *)
(* number of tasks, workers and threads, whatever stops or is killed.  The  *)
(* work that a pending task still needs is in the pool or in a section that *)
(* some thread has yet to run, or a failing call of the pool has dropped it *)
(* and nothing has put it back (Kept); a pool that no timer will scan       *)
(* has a section that will arm one (Guarded).  Both need that the sections  *)
(* which take work away without putting it back only ever run on top of     *)
(* the one that makes up for it (Order).                                   *)
(***************************************************************************)
EXTENDS TaskDispatch_proofs

-----------------------------------------------------------------------------
(* What the threads still have to do, as sets of frames.                   *)
Elements(s) == {s[i] : i \in DOMAIN s}

LEMMA ElementsOfConcat ==
    ASSUME NEW S, NEW s \in Seq(S), NEW u \in Seq(S)
    PROVE  Elements(s \o u) = Elements(s) \cup Elements(u)
  <1>1. /\ Len(s) \in Nat /\ Len(u) \in Nat
        /\ DOMAIN s = 1..Len(s) /\ DOMAIN u = 1..Len(u)
        /\ DOMAIN (s \o u) = 1..Len(s) + Len(u)
        /\ \A i \in 1..Len(s) : (s \o u)[i] = s[i]
        /\ \A i \in 1..Len(u) : (s \o u)[Len(s) + i] = u[i]
    OBVIOUS
  <1>2. ASSUME NEW i \in 1..Len(s) + Len(u), i \notin 1..Len(s)
        PROVE  i - Len(s) \in 1..Len(u) /\ i = Len(s) + (i - Len(s))
    BY <1>1, <1>2
  <1>3. \A i \in 1..Len(s) + Len(u) : (s \o u)[i] \in Elements(s) \cup Elements(u)
    BY <1>1, <1>2 DEF Elements
  <1>4. \A i \in 1..Len(s) : i \in 1..Len(s) + Len(u)
    BY <1>1
  <1>5. \A i \in 1..Len(u) : Len(s) + i \in 1..Len(s) + Len(u)
    BY <1>1
  <1>6. Elements(s \o u) \subseteq Elements(s) \cup Elements(u)
    BY <1>1, <1>3 DEF Elements
  <1>7. \A i \in 1..Len(s) : s[i] \in Elements(s \o u)
    BY <1>1, <1>4 DEF Elements
  <1>8. \A i \in 1..Len(u) : u[i] \in Elements(s \o u)
    BY <1>1, <1>5 DEF Elements
  <1>9. Elements(s) \subseteq Elements(s \o u) /\ Elements(u) \subseteq Elements(s \o u)
    BY <1>1, <1>7, <1>8 DEF Elements
  <1> QED
    BY <1>6, <1>9

LEMMA ElementsOfTail ==
    ASSUME NEW S, NEW s \in Seq(S), s # <<>>
    PROVE  /\ Elements(s) = {Head(s)} \cup Elements(Tail(s))
           /\ Tail(s) \in Seq(S)
  <1>1. /\ Len(s) \in Nat /\ Len(s) > 0 /\ DOMAIN s = 1..Len(s)
        /\ Tail(s) \in Seq(S) /\ DOMAIN Tail(s) = 1..Len(s) - 1
        /\ \A i \in 1..Len(s) - 1 : Tail(s)[i] = s[i + 1]
        /\ Head(s) = s[1]
    OBVIOUS
  <1>2. ASSUME NEW i \in 1..Len(s), i # 1
        PROVE  i - 1 \in 1..Len(s) - 1 /\ s[i] = Tail(s)[i - 1]
    BY <1>1, <1>2
  <1>3. \A i \in 1..Len(s) - 1 : i + 1 \in 1..Len(s)
    BY <1>1
  <1>4. \A i \in 1..Len(s) : s[i] \in {Head(s)} \cup Elements(Tail(s))
    BY <1>1, <1>2 DEF Elements
  <1>5. Elements(s) \subseteq {Head(s)} \cup Elements(Tail(s))
    BY <1>1, <1>4 DEF Elements
  <1>6. \A i \in 1..Len(s) - 1 : Tail(s)[i] \in Elements(s)
    BY <1>1, <1>3 DEF Elements
  <1>7. Head(s) \in Elements(s) /\ Elements(Tail(s)) \subseteq Elements(s)
    BY <1>1, <1>6 DEF Elements
  <1> QED
    BY <1>1, <1>5, <1>7

LEMMA ElementsOfEmpty == Elements(<<>>) = {}
  BY DEF Elements

LEMMA ElementsOfPool ==
    ASSUME NEW op
    PROVE  Elements(Do(op)) = {[op |-> op]}
  BY DEF Elements, Do

LEMMA ElementsOfTask ==
    ASSUME NEW op, NEW t, NEW w
    PROVE  Elements(DoTask(op, t, w)) = {[op |-> op, task |-> t, worker |-> w]}
  BY DEF Elements, DoTask

LEMMA ElementsOfBatch ==
    ASSUME NEW op, NEW es
    PROVE  Elements(DoBatch(op, es)) = IF es = {} THEN {} ELSE {[op |-> op, entries |-> es]}
  BY DEF Elements, DoBatch

(* The frames of a thread that has run its top frame.                      *)
LEMMA AfterContinue ==
    ASSUME NEW S, stack \in [Threads -> Seq(S)], NEW th \in Threads, ~Idle(th),
           NEW frames \in Seq(S), Continue(th, frames)
    PROVE  /\ \A u \in Threads : u # th => stack'[u] = stack[u]
           /\ stack'[th] = frames \o Tail(stack[th])
           /\ Tail(stack[th]) \in Seq(S)
           /\ Elements(stack[th]) = {Top(th)} \cup Elements(Tail(stack[th]))
           /\ Elements(stack'[th]) = Elements(frames) \cup Elements(Tail(stack[th]))
  <1>1. stack[th] \in Seq(S) /\ stack[th] # <<>>
    BY DEF Idle
  <1>2. stack'[th] = frames \o Tail(stack[th]) /\ \A u \in Threads : u # th => stack'[u] = stack[u]
    BY DEF Continue
  <1>3. Elements(stack[th]) = {Top(th)} \cup Elements(Tail(stack[th])) /\ Tail(stack[th]) \in Seq(S)
    BY <1>1, ElementsOfTail DEF Top
  <1>4. \A u \in Seq(S) : Elements(frames \o u) = Elements(frames) \cup Elements(u)
    BY ElementsOfConcat
  <1> QED
    BY <1>2, <1>3, <1>4

LEMMA AfterCall ==
    ASSUME stack \in [Threads -> Seq(SoundFrame)], NEW th \in Threads, NEW frames, Call(th, frames)
    PROVE  /\ \A u \in Threads : u # th => stack'[u] = stack[u]
           /\ stack[th] = <<>> /\ stack'[th] = frames
  BY DEF Call, Idle

-----------------------------------------------------------------------------
(* The order of a stack.  Some sections only ever run directly after the   *)
(* one that left them, so they are on top; and those that take work away   *)
(* from the pool or the timer have the section below them that makes up.   *)
TopOps == {"clear", "cancelTimer", "defer", "publish", "markRunning", "commit"}
Ends == {"succeeded", "failed"}

Fits(f, below) ==
    /\ f.op = "clear" => \E g \in below : g.op \in Ends /\ g.task = f.task
    /\ f.op = "cancelTimer" /\ PromptCancel => \E g \in below : g.op \in Ends
    /\ f.op = "defer" /\ MaxPoolFaults = 0 => \E g \in below : g.op = "endBatch"

Orderly(s) == s # <<>> =>
    /\ \A f \in Elements(Tail(s)) : f.op \notin TopOps
    /\ Fits(Head(s), Elements(Tail(s)))

Order == \A th \in Threads : Orderly(stack[th])

LEMMA PushSteady ==
    ASSUME NEW S, NEW s \in Seq(S), s # <<>>, Orderly(s), NEW frames \in Seq(S),
           \A f \in Elements(frames) : f.op \notin TopOps
    PROVE  Orderly(frames \o Tail(s))
  <1> DEFINE u == frames \o Tail(s)
  <1>1. Tail(s) \in Seq(S) /\ \A f \in Elements(Tail(s)) : f.op \notin TopOps
    BY ElementsOfTail DEF Orderly
  <1>2. u \in Seq(S)
    BY <1>1, ConcatInSeq
  <1>3. Elements(u) = Elements(frames) \cup Elements(Tail(s))
    <2>1. \A v \in Seq(S) : Elements(frames \o v) = Elements(frames) \cup Elements(v)
      BY ElementsOfConcat
    <2> QED
      BY <1>1, <2>1
  <1>6. \A f \in Elements(u) : f.op \notin TopOps
    BY <1>1, <1>3
  <1> HIDE DEF u
  <1>4. u # <<>> => Elements(u) = {Head(u)} \cup Elements(Tail(u))
    BY <1>2, ElementsOfTail
  <1>5. Orderly(u)
    BY <1>4, <1>6 DEF Orderly, Fits, TopOps
  <1> QED
    BY <1>5 DEF u

LEMMA PushTop ==
    ASSUME NEW S, NEW s \in Seq(S), s # <<>>, Orderly(s), NEW frames \in Seq(S), frames # <<>>,
           \A f \in Elements(Tail(frames)) : f.op \notin TopOps,
           Fits(Head(frames), Elements(Tail(frames)) \cup Elements(Tail(s)))
    PROVE  Orderly(frames \o Tail(s))
  <1> DEFINE u == frames \o Tail(s)
  <1>1. Tail(s) \in Seq(S) /\ \A f \in Elements(Tail(s)) : f.op \notin TopOps
    BY ElementsOfTail DEF Orderly
  <1>2. Tail(frames) \in Seq(S)
    BY ElementsOfTail
  <1>3. Head(u) = Head(frames) /\ Tail(u) = Tail(frames) \o Tail(s)
    BY <1>1, <1>2
  <1>4. Elements(Tail(u)) = Elements(Tail(frames)) \cup Elements(Tail(s))
    <2>1. \A a, b \in Seq(S) : Elements(a \o b) = Elements(a) \cup Elements(b)
      BY ElementsOfConcat
    <2> QED
      BY <1>1, <1>2, <1>3, <2>1
  <1> QED
    BY <1>1, <1>3, <1>4 DEF Orderly

(* A single section and what is left of the batch it was taken from.       *)
LEMMA HeadAndRest ==
    ASSUME NEW S, NEW f \in S, NEW u \in Seq(S)
    PROVE  /\ <<f>> \o u \in Seq(S) /\ <<f>> \o u # <<>>
           /\ Head(<<f>> \o u) = f /\ Tail(<<f>> \o u) = u
  OBVIOUS

LEMMA OrderlySingle ==
    ASSUME NEW f, f.op \notin TopOps
    PROVE  Orderly(<<f>>)
  BY DEF Orderly, Elements, Fits, TopOps

-----------------------------------------------------------------------------
(* Pending tasks. *)

PoolOps == {"add", "requeue", "succeeded", "failed"}
CommitOps == {"markRunning", "commit"}
BatchOps == {"batch", "defer", "plans"}

(* f will dispatch t, put it back, or write its status.                    *)
Supplies(f, t) ==
    \/ f.op \in PoolOps \cup {"publish"} /\ f.task = t
    \/ f.op \in BatchOps /\ t \in TasksOf(f.entries)
Commits(f, t) == f.op \in CommitOps /\ f.task = t
Owes(f, t) == Supplies(f, t) \/ Commits(f, t)
Owed(fs, t) == \E f \in fs : Owes(f, t)

Kept == \A t \in Tasks : status[t] = "PENDING" =>
    \/ t \in TasksOf(pool)
    \/ \E th \in Threads : Owed(Elements(stack[th]), t)
    \/ t \in dropped

LEMMA OwedInBatch ==
    ASSUME NEW fs, NEW op \in BatchOps, NEW es, [op |-> op, entries |-> es] \in fs,
           NEW t, t \in TasksOf(es)
    PROVE  Owed(fs, t)
  BY DEF Owed, Owes, Supplies

LEMMA OwedAlone ==
    ASSUME NEW fs, NEW op \in PoolOps \cup {"publish"} \cup CommitOps, NEW t, NEW w,
           [op |-> op, task |-> t, worker |-> w] \in fs
    PROVE  Owed(fs, t)
  BY DEF Owed, Owes, Supplies, Commits

(* The top section of th has left the sections of frames: what it owed,    *)
(* and what it took from the pool, is in the pool or owed by them.         *)
LEMMA KeptByContinue ==
    ASSUME IInv, Kept, NEW th \in Threads, ~Idle(th),
           NEW frames \in Seq(SoundFrame), Continue(th, frames),
           \A t \in Tasks : /\ status'[t] = "PENDING"
                            /\ \/ status[t] # "PENDING"
                               \/ t \in TasksOf(pool)
                               \/ Owes(Top(th), t)
                               \/ t \in dropped
                            => \/ t \in TasksOf(pool')
                               \/ Owed(Elements(frames), t)
                               \/ t \in dropped'
    PROVE  Kept'
  <1>1. stack \in [Threads -> Seq(SoundFrame)]
    BY DEF IInv, Sound
  <1>2. /\ \A u \in Threads : u # th => stack'[u] = stack[u]
        /\ Elements(stack[th]) = {Top(th)} \cup Elements(Tail(stack[th]))
        /\ Elements(stack'[th]) = Elements(frames) \cup Elements(Tail(stack[th]))
    BY <1>1, AfterContinue
  <1> SUFFICES ASSUME NEW t \in Tasks, status'[t] = "PENDING", t \notin TasksOf(pool'),
                      t \notin dropped'
               PROVE  \E u \in Threads : Owed(Elements(stack'[u]), t)
    BY DEF Kept, TasksOf, Owed, Owes, Supplies, Commits
  <1>3. CASE Owed(Elements(frames), t)
    BY <1>2, <1>3 DEF Owed
  <1>4. CASE ~Owed(Elements(frames), t)
    <2>1. /\ status[t] = "PENDING" /\ t \notin TasksOf(pool) /\ ~Owes(Top(th), t)
          /\ t \notin dropped
      BY <1>4
    <2>2. PICK u \in Threads : Owed(Elements(stack[u]), t)
      BY <2>1 DEF Kept
    <2> QED
      BY <1>2, <2>1, <2>2 DEF Owed
  <1> QED
    BY <1>3, <1>4

(* Whoever may leave the pool without a timer still has to look after it. *)
Timely == PromptCancel /\ MaxPoolFaults = 0
Ensures == {"ensureTimer", "endBatch", "flushDue", "flushAll", "batch", "add", "requeue", "succeeded",
            "failed", "clear"}
Guarding(fs) == \E f \in fs : f.op \in Ensures

LEMMA TimerLooksAfter ==
    ASSUME NEW fs, NEW op \in {"ensureTimer", "endBatch"}, [op |-> op] \in fs
    PROVE  Guarding(fs)
  <1>1. [op |-> op].op \in Ensures
    BY DEF Ensures
  <1> QED
    BY <1>1 DEF Guarding

LEMMA BatchLooksAfter ==
    ASSUME NEW fs, NEW es, [op |-> "batch", entries |-> es] \in fs
    PROVE  Guarding(fs)
  <1>1. [op |-> "batch", entries |-> es].op \in Ensures
    BY DEF Ensures
  <1> QED
    BY <1>1 DEF Guarding

Guarded == Timely =>
    /\ pool # {} => armed # {} \/ \E th \in Threads : Guarding(Elements(stack[th]))
    /\ flushTimer # NoTimer =>
         flushTimer \in armed \/ \E f \in Elements(stack[flushTimer]) : f.op = "flushDue"

LEMMA GuardedByContinue ==
    ASSUME IInv, Guarded, NEW th \in Threads, ~Idle(th),
           NEW frames \in Seq(SoundFrame), Continue(th, frames),
           Timely /\ pool' # {} =>
             \/ armed' # {}
             \/ Guarding(Elements(frames) \cup Elements(Tail(stack[th])))
             \/ pool # {} /\ armed' = armed /\ Top(th).op \notin Ensures,
           Timely /\ flushTimer' # NoTimer =>
             \/ flushTimer' \in armed'
             \/ flushTimer' = flushTimer /\ armed' = armed /\ Top(th).op # "flushDue"
    PROVE  Guarded'
  <1>1. stack \in [Threads -> Seq(SoundFrame)]
    BY DEF IInv, Sound
  <1>2. /\ \A u \in Threads : u # th => stack'[u] = stack[u]
        /\ Elements(stack[th]) = {Top(th)} \cup Elements(Tail(stack[th]))
        /\ Elements(stack'[th]) = Elements(frames) \cup Elements(Tail(stack[th]))
    BY <1>1, AfterContinue
  <1>3. flushTimer # NoTimer => flushTimer \in Threads
    BY DEF IInv, PoolingTyped, Threads
  <1>4. ASSUME Timely, pool' # {}, armed' = {}
        PROVE  \E u \in Threads : Guarding(Elements(stack'[u]))
    <2>1. CASE Guarding(Elements(frames) \cup Elements(Tail(stack[th])))
      BY <1>2, <2>1
    <2>2. CASE pool # {} /\ armed = {} /\ Top(th).op \notin Ensures
      <3>1. PICK u \in Threads : Guarding(Elements(stack[u]))
        BY <1>4, <2>2 DEF Guarded
      <3> QED
        BY <1>2, <2>2, <3>1 DEF Guarding
    <2> QED
      BY <1>4, <2>1, <2>2
  <1>5. ASSUME Timely, flushTimer' # NoTimer, flushTimer' \notin armed'
        PROVE  \E f \in Elements(stack'[flushTimer']) : f.op = "flushDue"
    <2>1. flushTimer' = flushTimer /\ armed' = armed /\ Top(th).op # "flushDue"
      BY <1>5
    <2>2. PICK f \in Elements(stack[flushTimer]) : f.op = "flushDue"
      BY <1>5, <2>1 DEF Guarded
    <2>3. f \in Elements(stack'[flushTimer])
      BY <1>2, <1>3, <1>5, <2>1, <2>2
    <2> QED
      BY <2>1, <2>2, <2>3
  <1> QED
    BY <1>4, <1>5 DEF Guarded, Guarding, Elements, NoTimer

LEMMA OrderByContinue ==
    ASSUME IInv, Order, NEW th \in Threads, ~Idle(th), NEW frames \in Seq(SoundFrame),
           Continue(th, frames), Orderly(frames \o Tail(stack[th]))
    PROVE  Order'
  <1>1. stack \in [Threads -> Seq(SoundFrame)]
    BY DEF IInv, Sound
  <1>2. /\ \A u \in Threads : u # th => stack'[u] = stack[u]
        /\ stack'[th] = frames \o Tail(stack[th])
    BY <1>1, AfterContinue
  <1>3. \A u \in Threads : Orderly(stack'[u])
    BY <1>2 DEF Order
  <1> QED
    BY <1>3 DEF Order, Orderly, Elements, Fits

LEMMA OrderBySteady ==
    ASSUME IInv, Order, NEW th \in Threads, ~Idle(th), NEW frames \in Seq(SoundFrame),
           Continue(th, frames), \A f \in Elements(frames) : f.op \notin TopOps
    PROVE  Order'
  <1>1. stack[th] \in Seq(SoundFrame) /\ stack[th] # <<>> /\ Orderly(stack[th])
    BY DEF IInv, Sound, Idle, Order
  <1>2. Orderly(frames \o Tail(stack[th]))
    BY <1>1, PushSteady
  <1> QED
    BY <1>2, OrderByContinue

LEMMA OrderByTop ==
    ASSUME IInv, Order, NEW th \in Threads, ~Idle(th), NEW frames \in Seq(SoundFrame),
           Continue(th, frames), frames # <<>>,
           \A f \in Elements(Tail(frames)) : f.op \notin TopOps,
           Fits(Head(frames), Elements(Tail(frames)) \cup Elements(Tail(stack[th])))
    PROVE  Order'
  <1>1. stack[th] \in Seq(SoundFrame) /\ stack[th] # <<>> /\ Orderly(stack[th])
    BY DEF IInv, Sound, Idle, Order
  <1>2. Orderly(frames \o Tail(stack[th]))
    BY <1>1, PushTop
  <1> QED
    BY <1>2, OrderByContinue

-----------------------------------------------------------------------------
(* What each section leaves to do. *)

Scan(es) == DoBatch("batch", es) \o Do("ensureTimer")
Sorted(late, ready) == DoBatch("defer", late) \o DoBatch("plans", ready) \o Do("endBatch")
OneOf(op, t, w, rest) == DoTask(op, t, w) \o DoBatch("plans", rest)
BackIn(t, w) == DoTask("add", t, w) \o Do("flushDue")
TaskOf(op, t, w) == [op |-> op, task |-> t, worker |-> w]
Single(es, op) == IF es = {} THEN {} ELSE {[op |-> op, entries |-> es]}

LEMMA ConcatFrames ==
    ASSUME NEW s \in Seq(SoundFrame), NEW u \in Seq(SoundFrame)
    PROVE  s \o u \in Seq(SoundFrame) /\ Elements(s \o u) = Elements(s) \cup Elements(u)
  BY ConcatInSeq, ElementsOfConcat

LEMMA ScanFrames ==
    ASSUME NEW es \in SUBSET Entry
    PROVE  /\ Scan(es) \in Seq(SoundFrame)
           /\ Elements(Scan(es)) = Single(es, "batch") \cup {[op |-> "ensureTimer"]}
  <1>1. DoBatch("batch", es) \in Seq(SoundFrame) /\ Do("ensureTimer") \in Seq(SoundFrame)
    BY DoBatchSound, DoSound
  <1>2. /\ Elements(DoBatch("batch", es)) = Single(es, "batch")
        /\ Elements(Do("ensureTimer")) = {[op |-> "ensureTimer"]}
    BY ElementsOfPool, ElementsOfBatch DEF Single
  <1> QED
    BY <1>1, <1>2, ConcatFrames DEF Scan

LEMMA SortedFrames ==
    ASSUME NEW late \in SUBSET Entry, NEW ready \in SUBSET Entry, TasksOf(ready) \subseteq Runnable
    PROVE  /\ Sorted(late, ready) \in Seq(SoundFrame)
           /\ Elements(Sorted(late, ready)) =
                Single(late, "defer") \cup Single(ready, "plans") \cup {[op |-> "endBatch"]}
           /\ late # {} =>
                /\ Sorted(late, ready) # <<>>
                /\ Head(Sorted(late, ready)) = [op |-> "defer", entries |-> late]
                /\ Elements(Tail(Sorted(late, ready))) =
                     Single(ready, "plans") \cup {[op |-> "endBatch"]}
  <1>1. /\ DoBatch("defer", late) \in Seq(SoundFrame)
        /\ DoBatch("plans", ready) \in Seq(SoundFrame)
        /\ Do("endBatch") \in Seq(SoundFrame)
    BY DoBatchSound, DoSound
  <1>2. /\ Elements(DoBatch("defer", late)) = Single(late, "defer")
        /\ Elements(DoBatch("plans", ready)) = Single(ready, "plans")
        /\ Elements(Do("endBatch")) = {[op |-> "endBatch"]}
    BY ElementsOfPool, ElementsOfBatch DEF Single
  <1>3. /\ DoBatch("defer", late) \o DoBatch("plans", ready) \in Seq(SoundFrame)
        /\ Elements(DoBatch("defer", late) \o DoBatch("plans", ready)) =
             Single(late, "defer") \cup Single(ready, "plans")
    BY <1>1, <1>2, ConcatFrames
  <1>4. /\ Sorted(late, ready) \in Seq(SoundFrame)
        /\ Elements(Sorted(late, ready)) =
             Single(late, "defer") \cup Single(ready, "plans") \cup {[op |-> "endBatch"]}
    BY <1>1, <1>2, <1>3, ConcatFrames DEF Sorted
  <1>5. ASSUME late # {}
        PROVE  /\ Sorted(late, ready) # <<>>
               /\ Head(Sorted(late, ready)) = [op |-> "defer", entries |-> late]
               /\ Elements(Tail(Sorted(late, ready))) =
                    Single(ready, "plans") \cup {[op |-> "endBatch"]}
    <2> DEFINE f == [op |-> "defer", entries |-> late]
               u == DoBatch("plans", ready) \o Do("endBatch")
    <2>1. f \in SoundFrame
      BY DEF SoundFrame, BatchFrame
    <2>2. /\ u \in Seq(SoundFrame)
          /\ Elements(u) = Single(ready, "plans") \cup {[op |-> "endBatch"]}
      BY <1>1, <1>2, ConcatFrames
    <2>3. Sorted(late, ready) = <<f>> \o u
      <3>1. DoBatch("defer", late) = <<f>>
        BY <1>5 DEF DoBatch
      <3>2. /\ <<f>> \in Seq(SoundFrame)
            /\ \A a, b, c \in Seq(SoundFrame) : (a \o b) \o c = a \o (b \o c)
        BY <2>1
      <3> HIDE DEF f
      <3>3. (<<f>> \o DoBatch("plans", ready)) \o Do("endBatch") = <<f>> \o u
        BY <1>1, <3>2
      <3> QED
        BY <3>1, <3>3 DEF Sorted
    <2> HIDE DEF f, u
    <2>4. <<f>> \o u # <<>> /\ Head(<<f>> \o u) = f /\ Tail(<<f>> \o u) = u
      BY <2>1, <2>2, HeadAndRest
    <2> QED
      BY <2>2, <2>3, <2>4 DEF f
  <1> QED
    BY <1>4, <1>5

LEMMA OneOfFrames ==
    ASSUME NEW op \in {"requeue", "publish"}, NEW t \in Runnable, NEW w \in Workers \cup {NoWorker},
           NEW rest \in SUBSET Entry, TasksOf(rest) \subseteq Runnable
    PROVE  /\ OneOf(op, t, w, rest) \in Seq(SoundFrame)
           /\ Elements(OneOf(op, t, w, rest)) = {TaskOf(op, t, w)} \cup Single(rest, "plans")
           /\ OneOf(op, t, w, rest) # <<>>
           /\ Head(OneOf(op, t, w, rest)) = TaskOf(op, t, w)
           /\ Elements(Tail(OneOf(op, t, w, rest))) = Single(rest, "plans")
  <1> DEFINE u == DoBatch("plans", rest)
  <1>1. /\ DoTask(op, t, w) \in Seq(SoundFrame) /\ u \in Seq(SoundFrame)
        /\ TaskOf(op, t, w) \in SoundFrame
    BY DoTaskSound, DoBatchSound DEF Runnable, TaskOf, SoundFrame, TaskFrame
  <1>2. /\ Elements(DoTask(op, t, w)) = {TaskOf(op, t, w)}
        /\ Elements(u) = Single(rest, "plans")
    BY ElementsOfTask, ElementsOfBatch DEF Single, TaskOf
  <1> HIDE DEF u
  <1>3. OneOf(op, t, w, rest) = <<TaskOf(op, t, w)>> \o u
    BY DEF OneOf, DoTask, TaskOf, u
  <1>4. /\ <<TaskOf(op, t, w)>> \o u # <<>>
        /\ Head(<<TaskOf(op, t, w)>> \o u) = TaskOf(op, t, w)
        /\ Tail(<<TaskOf(op, t, w)>> \o u) = u
    BY <1>1, HeadAndRest
  <1>5. /\ DoTask(op, t, w) \o u \in Seq(SoundFrame)
        /\ Elements(DoTask(op, t, w) \o u) = {TaskOf(op, t, w)} \cup Single(rest, "plans")
    BY <1>1, <1>2, ConcatFrames
  <1> QED
    BY <1>2, <1>3, <1>4, <1>5 DEF OneOf, u

LEMMA BackInFrames ==
    ASSUME NEW t \in Tasks, NEW w \in Workers \cup {NoWorker}
    PROVE  /\ BackIn(t, w) \in Seq(SoundFrame)
           /\ Elements(BackIn(t, w)) = {TaskOf("add", t, w), [op |-> "flushDue"]}
  <1>1. DoTask("add", t, w) \in Seq(SoundFrame) /\ Do("flushDue") \in Seq(SoundFrame)
    BY DoTaskSound, DoSound
  <1>2. /\ Elements(DoTask("add", t, w)) = {TaskOf("add", t, w)}
        /\ Elements(Do("flushDue")) = {[op |-> "flushDue"]}
    BY ElementsOfPool, ElementsOfTask DEF TaskOf
  <1> QED
    BY <1>1, <1>2, ConcatFrames DEF BackIn

LEMMA TaskFrames ==
    ASSUME NEW op \in {"add", "markRunning", "commit", "requeue", "clear", "failed"},
           NEW t \in Tasks, NEW w \in Workers \cup {NoWorker}
    PROVE  /\ DoTask(op, t, w) \in Seq(SoundFrame)
           /\ Elements(DoTask(op, t, w)) = {TaskOf(op, t, w)}
           /\ DoTask(op, t, w) # <<>> /\ Head(DoTask(op, t, w)) = TaskOf(op, t, w)
           /\ Elements(Tail(DoTask(op, t, w))) = {}
  <1>1. DoTask(op, t, w) \in Seq(SoundFrame) /\ Elements(DoTask(op, t, w)) = {TaskOf(op, t, w)}
    BY DoTaskSound, ElementsOfPool, ElementsOfTask DEF TaskOf
  <1>2. DoTask(op, t, w) = <<TaskOf(op, t, w)>>
    BY DEF DoTask, TaskOf
  <1> QED
    BY <1>1, <1>2, ElementsOfEmpty

LEMMA PoolFrames ==
    ASSUME NEW op \in {"flushDue", "flushAll", "ensureTimer", "cancelTimer", "endBatch"}
    PROVE  /\ Do(op) \in Seq(SoundFrame) /\ Elements(Do(op)) = {[op |-> op]}
           /\ Do(op) # <<>> /\ Head(Do(op)) = [op |-> op] /\ Elements(Tail(Do(op))) = {}
  <1>1. Do(op) \in Seq(SoundFrame) /\ Elements(Do(op)) = {[op |-> op]}
    BY DoSound, ElementsOfPool
  <1>2. Do(op) = <<[op |-> op]>>
    BY DEF Do
  <1> QED
    BY <1>1, <1>2, ElementsOfEmpty

-----------------------------------------------------------------------------
(* Each section of a thread's work keeps the order and the pending tasks.  *)

LEMMA PoolStepKeeps ==
    ASSUME IInv, Order, Kept, Guarded, NEW th \in Threads, PoolStep(th)
    PROVE  Order' /\ Kept' /\ Guarded'
  <1>1. CASE AddToPool(th)
    <2> DEFINE all == Put(pool, {[task |-> Top(th).task, worker |-> Top(th).worker]})
               due == DueBatch(all)
    <2>1. Top(th).task \in Tasks /\ Top(th).worker \in Workers \cup {NoWorker} /\ ~Idle(th)
      BY <1>1, TopTask DEF AddToPool, IInv
    <2>2. all \subseteq Entry /\ due \subseteq all
      BY <2>1, PutTyped, DueBatchInPool DEF IInv, PoolingTyped, Entry
    <2>3. TasksOf(pool) \cup {Top(th).task} = TasksOf(all)
      BY <2>1 DEF Put, TasksOf
    <2>4. /\ Scan(due) \in Seq(SoundFrame)
          /\ Elements(Scan(due)) = Single(due, "batch") \cup {[op |-> "ensureTimer"]}
      BY <2>2, ScanFrames
    <2>5. /\ Continue(th, Scan(due)) /\ pool' = all \ due /\ Top(th).op = "add"
          /\ UNCHANGED <<status, armed, flushTimer>> /\ dropped' = dropped \ {Top(th).task}
      BY <1>1 DEF AddToPool, Scan, At, records
    <2> HIDE DEF all, due
    <2>6. Order'
      <3>1. \A f \in Elements(Scan(due)) : f.op \notin TopOps
        BY <2>4 DEF Single, TopOps
      <3> QED
        BY <2>1, <2>4, <2>5, <3>1, OrderBySteady
    <2>7. ASSUME NEW t \in Tasks, t \in TasksOf(pool) \/ Owes(Top(th), t)
          PROVE  t \in TasksOf(pool') \/ Owed(Elements(Scan(due)), t)
      <3>1. t \in TasksOf(all)
        BY <2>3, <2>5, <2>7 DEF Owes, Supplies, Commits, CommitOps, BatchOps
      <3>2. t \in TasksOf(pool') \/ t \in TasksOf(due)
        BY <2>2, <2>5, <3>1 DEF TasksOf
      <3>3. t \in TasksOf(due) => Owed(Elements(Scan(due)), t)
        BY <2>4 DEF Single, Owed, Owes, Supplies, BatchOps, TasksOf
      <3> QED
        BY <3>2, <3>3
    <2>8. Kept'
      <3>1. ASSUME NEW t \in Tasks, t \in dropped
            PROVE  t \in dropped' \/ Owes(Top(th), t)
        BY <2>5, <3>1 DEF Owes, Supplies, PoolOps
      <3> QED
        BY <2>1, <2>4, <2>5, <2>7, <3>1, KeptByContinue
    <2>9. Guarded'
      <3>1. Guarding(Elements(Scan(due)))
        BY <2>4, TimerLooksAfter
      <3> QED
        BY <2>1, <2>4, <2>5, <3>1, GuardedByContinue DEF Guarded, Guarding
    <2> QED
      BY <2>6, <2>8, <2>9
  <1>2. CASE FlushDue(th)
    <2> DEFINE due == DueBatch(pool)
               frames == IF due = {} THEN Do("ensureTimer") ELSE DoBatch("batch", due)
    <2>1. /\ ~Idle(th) /\ Top(th).op = "flushDue" /\ Continue(th, frames)
          /\ pool' = pool \ due /\ flushTimer' = NoTimer /\ UNCHANGED <<status, dropped>>
      BY <1>2 DEF FlushDue, At, records
    <2>2. due \subseteq pool /\ due \subseteq Entry
      BY DueBatchInPool DEF IInv, PoolingTyped
    <2>3. /\ frames \in Seq(SoundFrame)
          /\ Elements(frames) = IF due = {} THEN {[op |-> "ensureTimer"]} ELSE Single(due, "batch")
      <3>1. CASE due = {}
        BY <3>1, PoolFrames
      <3>2. CASE due # {}
        <4>1. DoBatch("batch", due) \in Seq(SoundFrame)
          BY <2>2, DoBatchSound
        <4>2. Elements(DoBatch("batch", due)) = Single(due, "batch")
          BY ElementsOfBatch DEF Single
        <4> QED
          BY <3>2, <4>1, <4>2
      <3> QED
        BY <3>1, <3>2
    <2> HIDE DEF due, frames
    <2>4. Order'
      <3>1. \A f \in Elements(frames) : f.op \notin TopOps
        BY <2>3 DEF Single, TopOps
      <3> QED
        BY <2>1, <2>3, <3>1, OrderBySteady
    <2>5. ASSUME NEW t \in Tasks, t \in TasksOf(pool) \/ Owes(Top(th), t)
          PROVE  t \in TasksOf(pool') \/ Owed(Elements(frames), t)
      <3>1. t \in TasksOf(pool)
        BY <2>1, <2>5 DEF Owes, Supplies, Commits, CommitOps, BatchOps, PoolOps
      <3>2. t \in TasksOf(pool') \/ t \in TasksOf(due)
        BY <2>1, <2>2, <3>1 DEF TasksOf
      <3>3. t \in TasksOf(due) => Owed(Elements(frames), t)
        <4>1. t \in TasksOf(due) => due # {}
          BY DEF TasksOf
        <4>2. due # {} => Elements(frames) = {[op |-> "batch", entries |-> due]}
          BY <2>3 DEF Single
        <4> QED
          BY <4>1, <4>2, OwedInBatch DEF BatchOps
      <3> QED
        BY <3>2, <3>3
    <2>6. Kept'
      BY <2>1, <2>3, <2>5, KeptByContinue
    <2>7. Guarded'
      <3>1. Guarding(Elements(frames))
        BY <2>3, TimerLooksAfter, BatchLooksAfter DEF Single
      <3> QED
        BY <2>1, <2>3, <3>1, GuardedByContinue DEF Guarding
    <2> QED
      BY <2>4, <2>6, <2>7
  <1>3. CASE FlushAll(th)
    <2>1. /\ ~Idle(th) /\ Top(th).op = "flushAll" /\ Continue(th, Scan(pool))
          /\ UNCHANGED <<status, dropped>> /\ flushTimer' = NoTimer
      BY <1>3 DEF FlushAll, At, Scan, records
    <2>2. /\ Scan(pool) \in Seq(SoundFrame)
          /\ Elements(Scan(pool)) = Single(pool, "batch") \cup {[op |-> "ensureTimer"]}
      BY ScanFrames DEF IInv, PoolingTyped
    <2>3. Order'
      <3>1. \A f \in Elements(Scan(pool)) : f.op \notin TopOps
        BY <2>2 DEF Single, TopOps
      <3> QED
        BY <2>1, <2>2, <3>1, OrderBySteady
    <2>4. ASSUME NEW t \in Tasks, t \in TasksOf(pool) \/ Owes(Top(th), t)
          PROVE  Owed(Elements(Scan(pool)), t)
      <3>1. t \in TasksOf(pool)
        BY <2>1, <2>4 DEF Owes, Supplies, Commits, CommitOps, BatchOps, PoolOps
      <3> QED
        BY <2>2, <3>1 DEF Single, Owed, Owes, Supplies, BatchOps, TasksOf
    <2>5. Kept'
      BY <2>1, <2>2, <2>4, KeptByContinue
    <2>6. Guarded'
      <3>1. Guarding(Elements(Scan(pool)))
        BY <2>2, TimerLooksAfter
      <3> QED
        BY <2>1, <2>2, <3>1, GuardedByContinue DEF Guarding
    <2> QED
      BY <2>3, <2>5, <2>6
  <1>4. CASE ClearFromPool(th)
    <2> DEFINE frames == IF pool' = {} THEN Do("cancelTimer") ELSE <<>>
    <2>1. /\ ~Idle(th) /\ Top(th).op = "clear" /\ Continue(th, frames)
          /\ pool' = {e \in pool : e.task # Top(th).task}
          /\ UNCHANGED <<status, armed, flushTimer, dropped>>
      BY <1>4 DEF ClearFromPool, At, records
    <2>2. stack[th] \in Seq(SoundFrame) /\ stack[th] # <<>> /\ Orderly(stack[th])
      BY <2>1 DEF IInv, Sound, Idle, Order
    <2>3. PICK g \in Elements(Tail(stack[th])) : g.op \in Ends /\ g.task = Top(th).task
      BY <2>1, <2>2 DEF Orderly, Fits, Top
    <2>4. ASSUME pool' = {}
          PROVE  Order'
      <3>1. frames = Do("cancelTimer")
        BY <2>4
      <3>2. /\ frames \in Seq(SoundFrame) /\ Elements(frames) = {[op |-> "cancelTimer"]}
            /\ frames # <<>> /\ Head(frames) = [op |-> "cancelTimer"] /\ Elements(Tail(frames)) = {}
        BY <3>1, PoolFrames
      <3> HIDE DEF frames
      <3>3. Fits(Head(frames), Elements(Tail(frames)) \cup Elements(Tail(stack[th])))
        BY <2>3, <3>2 DEF Fits
      <3> QED
        BY <2>1, <3>2, <3>3, OrderByTop
    <2>5. ASSUME pool' # {}
          PROVE  Order'
      BY <2>1, <2>5, EmptySeq, ElementsOfEmpty, OrderBySteady
    <2>6. ASSUME NEW t \in Tasks, status'[t] = "PENDING"
          PROVE  \/ t \in TasksOf(pool') \/ \E u \in Threads : Owed(Elements(stack'[u]), t)
                 \/ t \in dropped'
      <3>1. /\ frames \in Seq(SoundFrame)
            /\ stack \in [Threads -> Seq(SoundFrame)]
        BY EmptySeq, PoolFrames DEF IInv, Sound
      <3> HIDE DEF frames
      <3>2. /\ \A u \in Threads : u # th => stack'[u] = stack[u]
            /\ Elements(stack[th]) = {Top(th)} \cup Elements(Tail(stack[th]))
            /\ Elements(stack'[th]) = Elements(frames) \cup Elements(Tail(stack[th]))
        BY <2>1, <3>1, AfterContinue
      <3>3. CASE t = Top(th).task
        BY <2>3, <3>2, <3>3 DEF Owed, Owes, Supplies, Ends, PoolOps
      <3>4. CASE t # Top(th).task
        <4>1. t \in TasksOf(pool) => t \in TasksOf(pool')
          BY <2>1, <3>4 DEF TasksOf
        <4>2. ~Owes(Top(th), t)
          BY <2>1 DEF Owes, Supplies, Commits, PoolOps, CommitOps, BatchOps
        <4>3. \/ t \in TasksOf(pool) \/ \E u \in Threads : Owed(Elements(stack[u]), t)
              \/ t \in dropped
          BY <2>1, <2>6 DEF Kept
        <4> QED
          BY <2>1, <3>2, <4>1, <4>2, <4>3 DEF Owed
      <3> QED
        BY <3>3, <3>4
    <2>7. Kept'
      BY <2>6 DEF Kept, TasksOf, Owed, Owes, Supplies, Commits, Elements
    <2>8. Guarded'
      <3>1. Guarding(Elements(Tail(stack[th])))
        BY <2>3 DEF Guarding, Ensures, Ends
      <3>2. frames \in Seq(SoundFrame)
        BY EmptySeq, PoolFrames
      <3> HIDE DEF frames
      <3> QED
        BY <2>1, <3>1, <3>2, GuardedByContinue DEF Guarded, Guarding
    <2> QED
      BY <2>4, <2>5, <2>7, <2>8
  <1>5. CASE EnsureTimer(th) \/ CancelTimer(th)
    <2>1. /\ ~Idle(th) /\ Top(th).op \in {"ensureTimer", "endBatch", "cancelTimer"}
          /\ UNCHANGED <<pool, status, dropped>>
          /\ \/ Continue(th, <<>>)
             \/ ~PromptCancel /\ Continue(th, Do("cancelTimer"))
      BY <1>5 DEF EnsureTimer, CancelTimer, At, records
    <2>2. \A t \in Tasks : ~Owes(Top(th), t)
      BY <2>1 DEF Owes, Supplies, Commits, PoolOps, CommitOps, BatchOps
    <2>3. ASSUME Continue(th, <<>>)
          PROVE  Order' /\ Kept'
      BY <2>1, <2>2, <2>3, EmptySeq, ElementsOfEmpty, OrderBySteady, KeptByContinue
    <2>4. ASSUME ~PromptCancel, Continue(th, Do("cancelTimer"))
          PROVE  Order' /\ Kept'
      <3> DEFINE frames == Do("cancelTimer")
      <3>1. /\ frames \in Seq(SoundFrame) /\ Elements(frames) = {[op |-> "cancelTimer"]}
            /\ frames # <<>> /\ Head(frames) = [op |-> "cancelTimer"] /\ Elements(Tail(frames)) = {}
        BY PoolFrames
      <3> HIDE DEF frames
      <3>2. Fits(Head(frames), Elements(Tail(frames)) \cup Elements(Tail(stack[th])))
        BY <2>4, <3>1 DEF Fits
      <3>3. Continue(th, frames)
        BY <2>4 DEF frames
      <3> QED
        BY <2>1, <2>2, <3>1, <3>2, <3>3, OrderByTop, KeptByContinue
    <2>5. ASSUME Timely
          PROVE  Guarded'
      <3>1. stack[th] \in Seq(SoundFrame) /\ stack[th] # <<>> /\ Orderly(stack[th])
        BY <2>1 DEF IInv, Sound, Idle, Order
      <3>2. /\ Elements(stack[th]) = {Top(th)} \cup Elements(Tail(stack[th]))
            /\ \A u \in Threads : u # th => stack'[u] = stack[u]
            /\ Elements(stack'[th]) = Elements(<<>>) \cup Elements(Tail(stack[th]))
        BY <2>1, <2>5, EmptySeq, AfterContinue DEF IInv, Sound, Timely
      <3>3. CASE CancelTimer(th)
        <4>1. Guarding(Elements(Tail(stack[th])))
          BY <2>5, <3>1, <3>3 DEF CancelTimer, At, Orderly, Fits, Top, Guarding, Ensures, Ends, Timely
        <4> QED
          BY <2>1, <2>5, <3>3, <4>1, EmptySeq, GuardedByContinue DEF CancelTimer, Cancel, Guarding
      <3>4. CASE EnsureTimer(th) /\ pool = {}
        BY <2>1, <2>5, <3>4, EmptySeq, GuardedByContinue DEF EnsureTimer, Cancel, Timely
      <3>5. CASE EnsureTimer(th) /\ pool # {} /\ flushTimer = NoTimer
        <4>1. flushTimer' \in armed'
          BY <3>5 DEF EnsureTimer
        <4> QED
          BY <2>1, <2>5, <4>1, EmptySeq, GuardedByContinue DEF Timely
      <3>6. CASE EnsureTimer(th) /\ pool # {} /\ flushTimer # NoTimer
        <4>1. UNCHANGED <<armed, flushTimer>> /\ Top(th).op \in {"ensureTimer", "endBatch"}
          BY <3>6 DEF EnsureTimer, At
        <4>2. CASE armed # {}
          BY <2>1, <2>5, <4>1, <4>2, EmptySeq, GuardedByContinue DEF Timely
        <4>3. CASE armed = {}
          <5>1. flushTimer \in Threads
            BY <3>6 DEF IInv, PoolingTyped, Threads
          <5>2. PICK f \in Elements(stack[flushTimer]) : f.op = "flushDue"
            BY <2>5, <3>6, <4>3 DEF Guarded
          <5>3. f \in Elements(stack'[flushTimer])
            BY <3>2, <4>1, <5>1, <5>2
          <5> QED
            BY <4>1, <5>1, <5>2, <5>3 DEF Guarded, Guarding, Ensures, Elements
        <4> QED
          BY <4>2, <4>3
      <3> QED
        BY <1>5, <3>3, <3>4, <3>5, <3>6
    <2>6. ASSUME ~Timely
          PROVE  Guarded'
      BY <2>6 DEF Guarded
    <2> QED
      BY <2>1, <2>3, <2>4, <2>5, <2>6
  <1> QED
    BY <1>1, <1>2, <1>3, <1>4, <1>5 DEF PoolStep

LEMMA DispatchStepKeeps ==
    ASSUME IInv, Order, Kept, Guarded, NEW th \in Threads, DispatchStep(th) \/ DispatchFault(th)
    PROVE  Order' /\ Kept' /\ Guarded'
  <1> DEFINE t0 == Top(th).task
             w0 == Top(th).worker
             es == Top(th).entries
  <1>1. CASE FilterBatch(th)
    <2> DEFINE ready == {e \in es : Ready(e.task)}
    <2>1. es \subseteq Entry /\ ~Idle(th) /\ Top(th).op = "batch"
      BY <1>1, TopBatch DEF FilterBatch, At, IInv
    <2>2. TasksOf(ready) \subseteq Runnable
      BY <2>1, ReadyIsRunnable DEF TasksOf, Entry, IInv
    <2>3. /\ Continue(th, Sorted(es \ ready, ready))
          /\ UNCHANGED <<pool, status, armed, flushTimer, dropped>>
      BY <1>1 DEF FilterBatch, Sorted, records, pooling
    <2>4. ready \subseteq es
      OBVIOUS
    <2> HIDE DEF ready
    <2> DEFINE frames == Sorted(es \ ready, ready)
    <2>5. /\ frames \in Seq(SoundFrame)
          /\ Elements(frames) = Single(es \ ready, "defer") \cup Single(ready, "plans")
                                  \cup {[op |-> "endBatch"]}
          /\ es \ ready # {} =>
               /\ frames # <<>> /\ Head(frames) = [op |-> "defer", entries |-> es \ ready]
               /\ Elements(Tail(frames)) = Single(ready, "plans") \cup {[op |-> "endBatch"]}
      BY <2>1, <2>2, <2>4, SortedFrames
    <2>6. Continue(th, frames)
      BY <2>3
    <2> HIDE DEF frames
    <2>7. Order'
      <3>1. CASE es \ ready = {}
        <4>1. \A f \in Elements(frames) : f.op \notin TopOps
          BY <2>5, <3>1 DEF Single, TopOps
        <4> QED
          BY <2>1, <2>5, <2>6, <4>1, OrderBySteady
      <3>2. CASE es \ ready # {}
        <4>1. \A f \in Elements(Tail(frames)) : f.op \notin TopOps
          BY <2>5, <3>2 DEF Single, TopOps
        <4>2. [op |-> "endBatch"] \in Elements(Tail(frames))
          BY <2>5, <3>2
        <4>3. Fits(Head(frames), Elements(Tail(frames)) \cup Elements(Tail(stack[th])))
          BY <2>5, <3>2, <4>2 DEF Fits
        <4> QED
          BY <2>1, <2>5, <2>6, <3>2, <4>1, <4>3, OrderByTop
      <3> QED
        BY <3>1, <3>2
    <2>8. ASSUME NEW t \in Tasks, Owes(Top(th), t)
          PROVE  Owed(Elements(frames), t)
      <3>1. t \in TasksOf(es)
        BY <2>1, <2>8 DEF Owes, Supplies, Commits, CommitOps, PoolOps
      <3>2. CASE t \in TasksOf(ready)
        <4>1. [op |-> "plans", entries |-> ready] \in Elements(frames)
          BY <2>5, <3>2 DEF Single, TasksOf
        <4> QED
          BY <3>2, <4>1 DEF Owed, Owes, Supplies, BatchOps
      <3>3. CASE t \in TasksOf(es \ ready)
        <4>1. [op |-> "defer", entries |-> es \ ready] \in Elements(frames)
          BY <2>5, <3>3 DEF Single, TasksOf
        <4> QED
          BY <3>3, <4>1 DEF Owed, Owes, Supplies, BatchOps
      <3> QED
        BY <3>1, <3>2, <3>3 DEF TasksOf
    <2>9. Kept'
      BY <2>1, <2>3, <2>5, <2>6, <2>8, KeptByContinue DEF TasksOf
    <2>10. Guarded'
      <3>1. Guarding(Elements(frames))
        BY <2>5, TimerLooksAfter
      <3> QED
        BY <2>1, <2>3, <2>5, <2>6, <3>1, GuardedByContinue DEF Guarded, Guarding
    <2> QED
      BY <2>7, <2>9, <2>10
  <1>2. CASE PutBackDeferred(th)
    <2>1. es \subseteq Entry /\ ~Idle(th) /\ Top(th).op = "defer"
      BY <1>2, TopBatch DEF PutBackDeferred, At, IInv
    <2>2. /\ Continue(th, <<>>) /\ pool' = Put(pool, es)
          /\ UNCHANGED <<status, armed, flushTimer>> /\ dropped' = dropped \ TasksOf(es)
      BY <1>2 DEF PutBackDeferred, records
    <2>3. Order'
      BY <2>1, <2>2, EmptySeq, ElementsOfEmpty, OrderBySteady
    <2>4. ASSUME NEW t \in Tasks, t \in TasksOf(pool) \/ Owes(Top(th), t)
          PROVE  t \in TasksOf(pool')
      <3>1. t \in TasksOf(pool) \/ t \in TasksOf(es)
        BY <2>1, <2>4 DEF Owes, Supplies, Commits, CommitOps, PoolOps
      <3> QED
        BY <2>2, <3>1 DEF Put, TasksOf
    <2>5. Kept'
      <3>1. ASSUME NEW t \in Tasks, t \in dropped
            PROVE  t \in dropped' \/ Owes(Top(th), t)
        BY <2>1, <2>2, <3>1 DEF Owes, Supplies, BatchOps
      <3> QED
        BY <2>1, <2>2, <2>4, <3>1, EmptySeq, KeptByContinue
    <2>6. Guarded'
      <3>1. stack[th] \in Seq(SoundFrame) /\ stack[th] # <<>> /\ Orderly(stack[th])
        BY <2>1 DEF IInv, Sound, Idle, Order
      <3>2. Timely => Guarding(Elements(Tail(stack[th])))
        BY <2>1, <3>1 DEF Orderly, Fits, Top, Guarding, Ensures, Timely
      <3> QED
        BY <2>1, <2>2, <3>2, EmptySeq, GuardedByContinue DEF Guarded, Guarding
    <2> QED
      BY <2>3, <2>5, <2>6
  <1>3. CASE PlanNext(th)
    <2>1. /\ es \subseteq Entry /\ ~Idle(th) /\ TasksOf(es) \subseteq Runnable
          /\ Top(th).op = "plans" /\ UNCHANGED <<pool, status, armed, flushTimer, dropped>>
      BY <1>3, TopBatch DEF PlanNext, At, IInv, records, pooling
    <2>2. PICK e \in es, rest \in SUBSET Entry :
            /\ rest = es \ {e}
            /\ \/ status[e.task] = "DISPATCHED" /\ Continue(th, DoBatch("plans", rest))
               \/ \E op \in {"requeue", "publish"}, w \in Workers \cup {NoWorker} :
                    Continue(th, OneOf(op, e.task, w, rest))
      <3>1. \A w \in IdleWorkers : w \in Workers
        BY DEF IdleWorkers, IInv, FleetTyped
      <3>2. \A e \in es : e.worker \in Workers \cup {NoWorker}
        BY <2>1 DEF Entry
      <3> QED
        BY <1>3, <2>1, <3>1, <3>2 DEF PlanNext, Earliest, OneOf
    <2>3. e.task \in Runnable /\ TasksOf(rest) \subseteq Runnable
      BY <2>1, <2>2 DEF TasksOf
    <2>4. \A t \in Tasks : Owes(Top(th), t) => t = e.task \/ t \in TasksOf(rest)
      BY <2>1, <2>2 DEF Owes, Supplies, Commits, CommitOps, PoolOps, TasksOf
    <2>5. CASE status[e.task] = "DISPATCHED" /\ Continue(th, DoBatch("plans", rest))
      <3> DEFINE frames == DoBatch("plans", rest)
      <3>1. frames \in Seq(SoundFrame) /\ Elements(frames) = Single(rest, "plans")
        BY <2>3, DoBatchSound, ElementsOfBatch DEF Single
      <3>2. Continue(th, frames)
        BY <2>5
      <3> HIDE DEF frames
      <3>3. Order'
        <4>1. \A f \in Elements(frames) : f.op \notin TopOps
          BY <3>1 DEF Single, TopOps
        <4> QED
          BY <2>1, <3>1, <3>2, <4>1, OrderBySteady
      <3>4. ASSUME NEW t \in Tasks, status[t] = "PENDING", Owes(Top(th), t)
            PROVE  Owed(Elements(frames), t)
        <4>1. t \in TasksOf(rest)
          BY <2>4, <2>5, <3>4
        <4>2. [op |-> "plans", entries |-> rest] \in Elements(frames)
          BY <3>1, <4>1 DEF Single, TasksOf
        <4> QED
          BY <4>1, <4>2 DEF Owed, Owes, Supplies, BatchOps
      <3>5. Kept'
        BY <2>1, <3>1, <3>2, <3>4, KeptByContinue
      <3>6. Guarded'
        BY <2>1, <3>1, <3>2, GuardedByContinue DEF Guarded, Ensures
      <3> QED
        BY <3>3, <3>5, <3>6
    <2>6. ASSUME NEW op \in {"requeue", "publish"}, NEW w \in Workers \cup {NoWorker},
                 Continue(th, OneOf(op, e.task, w, rest))
          PROVE  Order' /\ Kept' /\ Guarded'
      <3> DEFINE frames == OneOf(op, e.task, w, rest)
      <3>1. /\ frames \in Seq(SoundFrame)
            /\ Elements(frames) = {TaskOf(op, e.task, w)} \cup Single(rest, "plans")
            /\ frames # <<>> /\ Head(frames) = TaskOf(op, e.task, w)
            /\ Elements(Tail(frames)) = Single(rest, "plans")
        <4>1. TasksOf(rest) \subseteq Runnable /\ e.task \in Runnable
          BY <2>3
        <4>2. PICK t \in Runnable : t = e.task
          BY <4>1
        <4>3. /\ OneOf(op, t, w, rest) \in Seq(SoundFrame)
              /\ Elements(OneOf(op, t, w, rest)) = {TaskOf(op, t, w)} \cup Single(rest, "plans")
              /\ OneOf(op, t, w, rest) # <<>>
              /\ Head(OneOf(op, t, w, rest)) = TaskOf(op, t, w)
              /\ Elements(Tail(OneOf(op, t, w, rest))) = Single(rest, "plans")
          BY <4>1, OneOfFrames
        <4> QED
          BY <4>2, <4>3
      <3>2. Continue(th, frames)
        BY <2>6
      <3> HIDE DEF frames
      <3>3. Order'
        <4>1. \A f \in Elements(Tail(frames)) : f.op \notin TopOps
          BY <3>1 DEF Single, TopOps
        <4>2. Fits(Head(frames), Elements(Tail(frames)) \cup Elements(Tail(stack[th])))
          BY <3>1 DEF Fits, TaskOf
        <4> QED
          BY <2>1, <3>1, <3>2, <4>1, <4>2, OrderByTop
      <3>4. ASSUME NEW t \in Tasks, Owes(Top(th), t)
            PROVE  Owed(Elements(frames), t)
        <4>1. CASE t = e.task
          BY <3>1, <4>1, OwedAlone DEF TaskOf, PoolOps
        <4>2. CASE t \in TasksOf(rest)
          <5>1. [op |-> "plans", entries |-> rest] \in Elements(frames)
            BY <3>1, <4>2 DEF Single, TasksOf
          <5> QED
            BY <4>2, <5>1 DEF Owed, Owes, Supplies, BatchOps
        <4> QED
          BY <2>4, <3>4, <4>1, <4>2
      <3>5. Kept'
        BY <2>1, <3>1, <3>2, <3>4, KeptByContinue
      <3>6. Guarded'
        BY <2>1, <3>1, <3>2, GuardedByContinue DEF Guarded, Ensures
      <3> QED
        BY <3>3, <3>5, <3>6
    <2> QED
      BY <2>2, <2>5, <2>6
  <1>4. CASE Publish(th) \/ MarkWorkerRunning(th) \/ DispatchFault(th)
    <2>1. /\ t0 \in Tasks /\ w0 \in Workers \cup {NoWorker} /\ ~Idle(th)
          /\ Top(th).op \in {"publish", "markRunning"}
      BY <1>4, TopTask DEF Publish, MarkWorkerRunning, DispatchFault, At, IInv
    <2>2. /\ UNCHANGED <<pool, status, armed, flushTimer, dropped>>
          /\ \E op \in {"requeue", "markRunning", "commit"} : Continue(th, DoTask(op, t0, w0))
      BY <1>4 DEF Publish, MarkWorkerRunning, DispatchFault, records, pooling
    <2>3. PICK op \in {"requeue", "markRunning", "commit"} : Continue(th, DoTask(op, t0, w0))
      BY <2>2
    <2> DEFINE frames == DoTask(op, t0, w0)
    <2>4. /\ frames \in Seq(SoundFrame) /\ Elements(frames) = {TaskOf(op, t0, w0)}
          /\ frames # <<>> /\ Head(frames) = TaskOf(op, t0, w0) /\ Elements(Tail(frames)) = {}
      <3> PICK t1 \in Tasks : t1 = t0
        BY <2>1
      <3> PICK w1 \in Workers \cup {NoWorker} : w1 = w0
        BY <2>1
      <3>1. /\ DoTask(op, t1, w1) \in Seq(SoundFrame)
            /\ Elements(DoTask(op, t1, w1)) = {TaskOf(op, t1, w1)}
            /\ DoTask(op, t1, w1) # <<>> /\ Head(DoTask(op, t1, w1)) = TaskOf(op, t1, w1)
            /\ Elements(Tail(DoTask(op, t1, w1))) = {}
        <4>1. op \in {"add", "markRunning", "commit", "requeue", "clear", "failed"}
          OBVIOUS
        <4> QED
          BY <4>1, TaskFrames, SMTT(20)
      <3> QED
        BY <3>1
    <2>5. Continue(th, frames)
      BY <2>3
    <2> HIDE DEF frames
    <2>6. Order'
      <3>1. Fits(Head(frames), Elements(Tail(frames)) \cup Elements(Tail(stack[th])))
        BY <2>4 DEF Fits, TaskOf
      <3> QED
        BY <2>1, <2>4, <2>5, <3>1, OrderByTop
    <2>7. ASSUME NEW t \in Tasks, Owes(Top(th), t)
          PROVE  Owed(Elements(frames), t)
      <3>1. t = t0
        BY <2>1, <2>7 DEF Owes, Supplies, Commits, BatchOps
      <3> QED
        BY <2>4, <3>1 DEF Owed, Owes, Supplies, Commits, PoolOps, CommitOps, TaskOf
    <2>8. Kept'
      BY <2>1, <2>2, <2>4, <2>5, <2>7, KeptByContinue
    <2>9. Guarded'
      BY <2>1, <2>2, <2>4, <2>5, GuardedByContinue DEF Guarded, Ensures
    <2> QED
      BY <2>6, <2>8, <2>9
  <1>5. CASE CommitDispatch(th)
    <2>1. /\ t0 \in Tasks /\ w0 \in Workers \cup {NoWorker} /\ ~Idle(th) /\ Top(th).op = "commit"
      BY <1>5, TopTask DEF CommitDispatch, At, IInv
    <2>2. /\ Continue(th, <<>>) /\ UNCHANGED <<pool, armed, flushTimer, dropped>>
          /\ status' = [status EXCEPT ![t0] = "DISPATCHED"]
      BY <1>5 DEF CommitDispatch, pooling
    <2>3. Order'
      BY <2>1, <2>2, EmptySeq, ElementsOfEmpty, OrderBySteady
    <2>4. ASSUME NEW t \in Tasks, status'[t] = "PENDING"
          PROVE  status[t] = "PENDING" /\ ~Owes(Top(th), t)
      <3>1. t # t0
        BY <2>1, <2>2, <2>4 DEF IInv, RecordsTyped
      <3> QED
        BY <2>1, <2>2, <2>4, <3>1 DEF Owes, Supplies, Commits, BatchOps, PoolOps, IInv, RecordsTyped
    <2>5. Kept'
      BY <2>1, <2>2, <2>4, EmptySeq, KeptByContinue
    <2>6. Guarded'
      BY <2>1, <2>2, EmptySeq, GuardedByContinue DEF Guarded, Ensures
    <2> QED
      BY <2>3, <2>5, <2>6
  <1>6. CASE RequeueTask(th)
    <2>1. /\ t0 \in Tasks /\ w0 \in Workers \cup {NoWorker} /\ ~Idle(th) /\ Top(th).op = "requeue"
      BY <1>6, TopTask DEF RequeueTask, At, IInv
    <2>2. /\ Continue(th, BackIn(t0, w0)) /\ UNCHANGED <<pool, armed, flushTimer, dropped>>
          /\ status' = [status EXCEPT ![t0] = "PENDING"]
      BY <1>6 DEF RequeueTask, pooling, BackIn
    <2>3. /\ BackIn(t0, w0) \in Seq(SoundFrame)
          /\ Elements(BackIn(t0, w0)) = {TaskOf("add", t0, w0), [op |-> "flushDue"]}
      BY <2>1, BackInFrames
    <2>4. Order'
      <3>1. \A f \in Elements(BackIn(t0, w0)) : f.op \notin TopOps
        BY <2>3 DEF TaskOf, TopOps
      <3> QED
        BY <2>1, <2>2, <2>3, <3>1, OrderBySteady
    <2>5. ASSUME NEW t \in Tasks, status'[t] = "PENDING"
          PROVE  \/ status[t] = "PENDING" /\ ~Owes(Top(th), t)
                 \/ Owed(Elements(BackIn(t0, w0)), t)
      <3>1. CASE t = t0
        BY <2>3, <3>1 DEF Owed, Owes, Supplies, PoolOps, TaskOf
      <3>2. CASE t # t0
        BY <2>1, <2>2, <2>5, <3>2 DEF Owes, Supplies, Commits, BatchOps, IInv, RecordsTyped
      <3> QED
        BY <3>1, <3>2
    <2>6. Kept'
      BY <2>1, <2>2, <2>3, <2>5, KeptByContinue
    <2>7. Guarded'
      <3>1. Guarding(Elements(BackIn(t0, w0)))
        BY <2>3 DEF Guarding, Ensures, TaskOf
      <3> QED
        BY <2>1, <2>2, <2>3, <3>1, GuardedByContinue DEF Guarded, Guarding
    <2> QED
      BY <2>4, <2>6, <2>7
  <1> QED
    BY <1>1, <1>2, <1>3, <1>4, <1>5, <1>6 DEF DispatchStep

LEMMA HandlerStepKeeps ==
    ASSUME IInv, Order, Kept, Guarded, NEW th \in Threads, HandlerStep(th)
    PROVE  Order' /\ Kept' /\ Guarded'
  <1> DEFINE t0 == Top(th).task
             w0 == Top(th).worker
  <1>1. CASE TaskSucceeded(th) \/ TaskFailed(th)
    <2>1. /\ t0 \in Tasks /\ w0 \in Workers \cup {NoWorker} /\ ~Idle(th)
          /\ Top(th).op \in Ends
      BY <1>1, TopTask DEF TaskSucceeded, TaskFailed, At, IInv, Ends
    <2>2. /\ UNCHANGED <<pool, armed, flushTimer, dropped>>
          /\ Continue(th, DoTask("requeue", t0, w0)) \/ Continue(th, Do("flushAll"))
          /\ \E st \in {"DONE", "FAILED"} : status' = [status EXCEPT ![t0] = st]
      BY <1>1 DEF TaskSucceeded, TaskFailed, pooling
    <2>3. PICK frames \in {DoTask("requeue", t0, w0), Do("flushAll")} : Continue(th, frames)
      BY <2>2
    <2>4. /\ frames \in Seq(SoundFrame)
          /\ \E f \in SoundFrame : f.op \in {"requeue", "flushAll"} /\ Elements(frames) = {f}
      <3>1. CASE frames = Do("flushAll")
        <4>1. [op |-> "flushAll"] \in SoundFrame
          BY DEF SoundFrame, PoolFrame
        <4> QED
          BY <3>1, <4>1, PoolFrames
      <3>2. CASE frames = DoTask("requeue", t0, w0)
        <4>1. TaskOf("requeue", t0, w0) \in SoundFrame /\ TaskOf("requeue", t0, w0).op = "requeue"
          BY <2>1 DEF SoundFrame, TaskFrame, TaskOf
        <4>2. /\ DoTask("requeue", t0, w0) \in Seq(SoundFrame)
              /\ Elements(DoTask("requeue", t0, w0)) = {TaskOf("requeue", t0, w0)}
          BY <2>1, TaskFrames
        <4> QED
          BY <3>2, <4>1, <4>2
      <3> QED
        BY <3>1, <3>2
    <2>5. PICK f : f.op \in {"requeue", "flushAll"} /\ Elements(frames) = {f}
      BY <2>4
    <2>6. Order'
      BY <2>1, <2>3, <2>4, <2>5, OrderBySteady DEF TopOps
    <2>7. ASSUME NEW t \in Tasks, status'[t] = "PENDING"
          PROVE  status[t] = "PENDING" /\ ~Owes(Top(th), t)
      <3>1. t # t0
        BY <2>1, <2>2, <2>7 DEF IInv, RecordsTyped
      <3> QED
        BY <2>1, <2>2, <2>7, <3>1 DEF Owes, Supplies, Commits, BatchOps, CommitOps, Ends, IInv,
           RecordsTyped
    <2>8. Kept'
      BY <2>1, <2>2, <2>3, <2>4, <2>7, KeptByContinue
    <2>9. Guarded'
      <3>1. Guarding(Elements(frames))
        BY <2>5 DEF Guarding, Ensures
      <3> QED
        BY <2>1, <2>2, <2>3, <2>4, <3>1, GuardedByContinue DEF Guarded, Guarding, Ends
    <2> QED
      BY <2>6, <2>8, <2>9
  <1>2. CASE Reschedule(th)
    <2>1. /\ Top(th).entries \subseteq Entry /\ ~Idle(th) /\ Top(th).op = "lost"
          /\ UNCHANGED <<pool, status, armed, flushTimer, dropped>>
      BY <1>2, TopBatch DEF Reschedule, At, IInv, records, pooling
    <2>2a. PICK e \in Top(th).entries :
            \/ Continue(th, DoTask("requeue", e.task, e.worker) \o DoBatch("lost", Top(th).entries \ {e}))
            \/ Continue(th, <<>> \o DoBatch("lost", Top(th).entries \ {e}))
      BY <1>2 DEF Reschedule, Earliest
    <2>2. PICK first \in {DoTask("requeue", e.task, e.worker), <<>>} :
            Continue(th, first \o DoBatch("lost", Top(th).entries \ {e}))
      BY <2>2a
    <2> DEFINE rest == DoBatch("lost", Top(th).entries \ {e})
               frames == first \o rest
    <2>3. /\ first \in Seq(SoundFrame)
          /\ \A f \in Elements(first) : f.op = "requeue"
      <3>1. e.task \in Tasks /\ e.worker \in Workers \cup {NoWorker}
        BY <2>1 DEF Entry
      <3>2. CASE first = <<>>
        BY <3>2, EmptySeq, ElementsOfEmpty
      <3>3. CASE first = DoTask("requeue", e.task, e.worker)
        <4>1. first \in Seq(SoundFrame) /\ Elements(first) = {TaskOf("requeue", e.task, e.worker)}
          BY <3>1, <3>3, TaskFrames
        <4> QED
          BY <4>1 DEF TaskOf
      <3> QED
        BY <2>2, <3>2, <3>3
    <2>4. rest \in Seq(SoundFrame) /\ \A f \in Elements(rest) : f.op = "lost"
      BY <2>1, DoBatchSound, ElementsOfBatch
    <2>5. /\ frames \in Seq(SoundFrame)
          /\ \A f \in Elements(frames) : f.op \in {"requeue", "lost"}
      <3> HIDE DEF rest
      <3>1. frames \in Seq(SoundFrame) /\ Elements(frames) = Elements(first) \cup Elements(rest)
        BY <2>3, <2>4, ConcatFrames
      <3> QED
        BY <2>3, <2>4, <3>1
    <2>6. Continue(th, frames)
      BY <2>2
    <2> HIDE DEF frames
    <2>7. Order'
      BY <2>1, <2>5, <2>6, OrderBySteady DEF TopOps
    <2>8. \A t \in Tasks : ~Owes(Top(th), t)
      BY <2>1 DEF Owes, Supplies, Commits, BatchOps, CommitOps, PoolOps
    <2>9. Kept'
      BY <2>1, <2>5, <2>6, <2>8, KeptByContinue
    <2>10. Guarded'
      BY <2>1, <2>5, <2>6, GuardedByContinue DEF Guarded, Ensures
    <2> QED
      BY <2>7, <2>9, <2>10
  <1> QED
    BY <1>1, <1>2 DEF HandlerStep

(* A call that raises: what was in hand is dropped, and so is the work of   *)
(* the calls that the exception ends.                                      *)
LEMMA OwedFrame ==
    ASSUME NEW f \in SoundFrame, NEW t, Owes(f, t)
    PROVE  t \in FrameTasks(f)
  <1>1. CASE f.op \in BatchOps
    <2>1. f \in BatchFrame /\ f \notin TaskFrame
      BY <1>1 DEF SoundFrame, BatchFrame, TaskFrame, PoolFrame, BatchOps
    <2> QED
      BY <1>1, <2>1 DEF FrameTasks, Owes, Supplies, Commits, BatchOps, PoolOps, CommitOps
  <1>2. CASE f.op \notin BatchOps
    <2>1. f.op \in PoolOps \cup {"publish"} \cup CommitOps /\ f.task = t
      BY <1>2 DEF Owes, Supplies, Commits
    <2>2. f \in TaskFrame
      BY <2>1 DEF SoundFrame, BatchFrame, TaskFrame, PoolFrame, PoolOps, CommitOps
    <2> QED
      BY <2>1, <2>2 DEF FrameTasks
  <1> QED
    BY <1>1, <1>2

LEMMA PlanningFailsKeeps ==
    ASSUME IInv, Order, Kept, NEW th \in Threads, PlanningFails(th)
    PROVE  Order' /\ Kept'
  <1> DEFINE es == Top(th).entries
             ready == {e \in es : Ready(e.task)}
             late == es \ ready
             calls == Tail(stack[th])
  <1>1. es \subseteq Entry /\ ~Idle(th) /\ Top(th).op = "batch"
    BY TopBatch DEF PlanningFails, At, IInv
  <1>2. UNCHANGED <<pool, status>>
    BY DEF PlanningFails, records, pooling
  <1>3. PICK n \in 1..Len(stack[th]) :
          /\ stack' = [stack EXCEPT ![th] = DoBatch("defer", late) \o SubSeq(calls, n, Len(calls))]
          /\ dropped \cup TasksOf(ready) \cup UNION {FrameTasks(calls[i]) : i \in 1..n - 1}
               \subseteq dropped'
    BY DEF PlanningFails
  <1>4. /\ stack \in [Threads -> Seq(SoundFrame)]
        /\ stack[th] \in Seq(SoundFrame) /\ stack[th] # <<>> /\ Orderly(stack[th])
    BY <1>1 DEF IInv, Sound, Idle, Order
  <1>5. /\ calls \in Seq(SoundFrame) /\ n \in 1..Len(calls) + 1
        /\ Elements(stack[th]) = {Top(th)} \cup Elements(calls)
        /\ \A f \in Elements(calls) : f.op \notin TopOps
    <2>1. Elements(stack[th]) = {Top(th)} \cup Elements(calls) /\ calls \in Seq(SoundFrame)
      BY <1>4, ElementsOfTail DEF Top
    <2>2. Len(stack[th]) = Len(calls) + 1
      BY <1>4
    <2> QED
      BY <1>4, <2>1, <2>2 DEF Orderly
  <1> HIDE DEF calls
  <1> DEFINE caught == SubSeq(calls, n, Len(calls))
  <1>6. /\ caught \in Seq(SoundFrame)
        /\ DOMAIN caught = 1..Len(calls) + 1 - n
        /\ \A i \in 1..Len(calls) + 1 - n : caught[i] = calls[i + n - 1]
    BY <1>5, CaughtIs
  <1> HIDE DEF caught
  <1>7. Elements(caught) \subseteq Elements(calls)
    <2>1. \A i \in 1..Len(calls) + 1 - n : i + n - 1 \in DOMAIN calls
      BY <1>5
    <2> QED
      BY <1>6, <2>1 DEF Elements
  <1>8. \A f \in Elements(calls) : \/ f \in Elements(caught)
                                   \/ \E i \in 1..n - 1 : f = calls[i]
    <2> TAKE f \in Elements(calls)
    <2>1. PICK j \in 1..Len(calls) : f = calls[j]
      BY <1>5 DEF Elements
    <2>2. CASE j >= n
      <3>1. j - n + 1 \in 1..Len(calls) + 1 - n /\ (j - n + 1) + n - 1 = j
        BY <1>5, <2>2
      <3>2. caught[j - n + 1] = calls[j] /\ j - n + 1 \in DOMAIN caught
        BY <1>6, <3>1
      <3> QED
        BY <2>1, <3>2 DEF Elements
    <2>3. CASE ~(j >= n)
      BY <1>5, <2>1, <2>3
    <2> QED
      BY <2>2, <2>3
  <1>9. /\ stack'[th] = DoBatch("defer", late) \o caught
        /\ \A u \in Threads : u # th => stack'[u] = stack[u]
    BY <1>3, <1>4 DEF caught
  <1>10. /\ DoBatch("defer", late) \in Seq(SoundFrame)
         /\ Elements(DoBatch("defer", late)) = Single(late, "defer")
    BY <1>1, DoBatchSound, ElementsOfBatch DEF Single
  <1>11. Elements(stack'[th]) = Single(late, "defer") \cup Elements(caught)
    BY <1>6, <1>9, <1>10, ConcatFrames
  <1>12. MaxPoolFaults # 0
    BY DEF PlanningFails, Spend, IInv, HistoryTyped, Counted
  <1> HIDE DEF late, ready
  <1>13. Orderly(DoBatch("defer", late) \o caught)
    <2>1. \A f \in Elements(caught) : f.op \notin TopOps
      BY <1>5, <1>7
    <2>2. CASE late = {}
      <3>1. DoBatch("defer", late) \o caught = caught
        BY <1>6, <2>2 DEF DoBatch
      <3>2. caught # <<>> => Elements(caught) = {Head(caught)} \cup Elements(Tail(caught))
        BY <1>6, ElementsOfTail
      <3> QED
        BY <2>1, <3>1, <3>2 DEF Orderly, Fits, TopOps
    <2>3. CASE late # {}
      <3> DEFINE f == [op |-> "defer", entries |-> late]
      <3>1. DoBatch("defer", late) = <<f>>
        BY <2>3 DEF DoBatch
      <3>2. f \in SoundFrame /\ f.op = "defer"
        BY <1>1 DEF SoundFrame, BatchFrame, late
      <3> HIDE DEF f
      <3>3. Head(<<f>> \o caught) = f /\ Tail(<<f>> \o caught) = caught
        BY <1>6, <3>2, HeadAndRest
      <3>4. Fits(f, Elements(caught))
        BY <1>12, <3>2 DEF Fits
      <3> QED
        BY <2>1, <3>1, <3>3, <3>4 DEF Orderly
    <2> QED
      BY <2>2, <2>3
  <1>14. Order'
    <2>1. \A u \in Threads : Orderly(stack'[u])
      BY <1>9, <1>13 DEF Order
    <2> QED
      BY <2>1 DEF Order, Orderly, Elements, Fits
  <1>15. Kept'
    <2> SUFFICES ASSUME NEW t \in Tasks, status'[t] = "PENDING", t \notin TasksOf(pool'),
                        t \notin dropped'
                 PROVE  \E u \in Threads : Owed(Elements(stack'[u]), t)
      BY DEF Kept, TasksOf, Owed, Owes, Supplies, Commits
    <2>1. status[t] = "PENDING" /\ t \notin TasksOf(pool) /\ t \notin dropped
      BY <1>2, <1>3
    <2>2a. PICK u \in Threads : Owed(Elements(stack[u]), t)
      BY <2>1 DEF Kept
    <2>2. PICK f \in Elements(stack[u]) : Owes(f, t)
      BY <2>2a DEF Owed
    <2>3. CASE u # th
      BY <1>9, <2>2, <2>3 DEF Owed
    <2>4. CASE u = th /\ f = Top(th)
      <3>1. t \in TasksOf(es)
        BY <1>1, <2>2, <2>4 DEF Owes, Supplies, Commits, CommitOps, PoolOps
      <3>2. t \notin TasksOf(ready)
        BY <1>3
      <3>3. t \in TasksOf(late)
        BY <3>1, <3>2 DEF TasksOf, late
      <3>4. [op |-> "defer", entries |-> late] \in Elements(stack'[th])
        BY <1>11, <3>3 DEF Single, TasksOf
      <3> QED
        BY <3>3, <3>4, OwedInBatch DEF BatchOps
    <2>5. CASE u = th /\ f \in Elements(calls)
      <3>1. f \in SoundFrame
        BY <1>5, <2>5 DEF Elements
      <3>2. t \in FrameTasks(f)
        BY <2>2, <3>1, OwedFrame
      <3>3. \A i \in 1..n - 1 : f # calls[i]
        BY <1>3, <3>2
      <3>4. f \in Elements(stack'[th])
        BY <1>8, <1>11, <2>5, <3>3
      <3> QED
        BY <2>2, <3>4 DEF Owed
    <2> QED
      BY <1>5, <2>2, <2>3, <2>4, <2>5
  <1> QED
    BY <1>14, <1>15

LEMMA PoolFaultKeeps ==
    ASSUME IInv, Order, Kept, Guarded, NEW th \in Threads, PoolFault(th)
    PROVE  Order' /\ Kept' /\ Guarded'
  <1>1. MaxPoolFaults # 0
    BY DEF PoolFault, AddFails, PutBackFails, PlanningFails, LookupFails, Spend, IInv,
       HistoryTyped, Counted
  <1>2. Guarded'
    BY <1>1 DEF Guarded, Timely
  <1>3. CASE AddFails(th)
    <2> DEFINE due == DueBatch(pool)
    <2>1. Top(th).task \in Tasks /\ ~Idle(th)
      BY <1>3, TopTask DEF AddFails, IInv
    <2>2. due \subseteq pool /\ due \subseteq Entry
      BY DueBatchInPool DEF IInv, PoolingTyped
    <2>3. /\ Continue(th, Scan(due)) /\ pool' = pool \ due /\ Top(th).op = "add"
          /\ status' = status /\ dropped' = dropped \cup ({Top(th).task} \ TasksOf(pool))
      BY <1>3 DEF AddFails, Scan, At, records
    <2>4. /\ Scan(due) \in Seq(SoundFrame)
          /\ Elements(Scan(due)) = Single(due, "batch") \cup {[op |-> "ensureTimer"]}
      BY <2>2, ScanFrames
    <2> HIDE DEF due
    <2>5. Order'
      <3>1. \A f \in Elements(Scan(due)) : f.op \notin TopOps
        BY <2>4 DEF Single, TopOps
      <3> QED
        BY <2>1, <2>3, <2>4, <3>1, OrderBySteady
    <2>6. ASSUME NEW t \in Tasks, t \in TasksOf(pool) \/ Owes(Top(th), t) \/ t \in dropped
          PROVE  t \in TasksOf(pool') \/ Owed(Elements(Scan(due)), t) \/ t \in dropped'
      <3>1. t \in TasksOf(pool) \/ t \in dropped'
        BY <2>3, <2>6 DEF Owes, Supplies, Commits, CommitOps, BatchOps
      <3>2. t \in TasksOf(pool) => t \in TasksOf(pool') \/ t \in TasksOf(due)
        BY <2>2, <2>3 DEF TasksOf
      <3>3. t \in TasksOf(due) => Owed(Elements(Scan(due)), t)
        BY <2>4 DEF Single, Owed, Owes, Supplies, BatchOps, TasksOf
      <3> QED
        BY <3>1, <3>2, <3>3
    <2>7. Kept'
      BY <2>1, <2>3, <2>4, <2>6, KeptByContinue
    <2> QED
      BY <1>2, <2>5, <2>7
  <1>4. CASE PutBackFails(th)
    <2>1. Top(th).entries \subseteq Entry /\ ~Idle(th) /\ Top(th).op = "defer"
      BY <1>4, TopBatch DEF PutBackFails, At, IInv
    <2>2. PICK stored \in SUBSET Top(th).entries :
            /\ Continue(th, <<>>) /\ pool' = Put(pool, stored) /\ status' = status
            /\ dropped' = (dropped \cup TasksOf(Top(th).entries)) \ TasksOf(pool')
      BY <1>4 DEF PutBackFails, Earliest, records
    <2>3. Order'
      BY <2>1, <2>2, EmptySeq, ElementsOfEmpty, OrderBySteady
    <2>4. ASSUME NEW t \in Tasks, t \in TasksOf(pool) \/ Owes(Top(th), t) \/ t \in dropped
          PROVE  t \in TasksOf(pool') \/ t \in dropped'
      <3>1. t \in TasksOf(pool) \/ t \in TasksOf(Top(th).entries) \/ t \in dropped
        BY <2>1, <2>4 DEF Owes, Supplies, Commits, CommitOps, PoolOps
      <3>2. t \in TasksOf(pool) => t \in TasksOf(pool')
        BY <2>2 DEF Put, TasksOf
      <3> QED
        BY <2>2, <3>1, <3>2
    <2>5. Kept'
      BY <2>1, <2>2, <2>4, EmptySeq, KeptByContinue
    <2> QED
      BY <1>2, <2>3, <2>5
  <1>5. CASE PlanningFails(th)
    BY <1>2, <1>5, PlanningFailsKeeps
  <1>6. CASE LookupFails(th)
    <2>1. Top(th).entries \subseteq Entry /\ ~Idle(th) /\ Top(th).op = "plans"
      BY <1>6, TopBatch DEF LookupFails, At, IInv
    <2>2. PICK e \in Top(th).entries :
            /\ Continue(th, DoBatch("plans", Top(th).entries \ {e}))
            /\ dropped' = dropped \cup {e.task} /\ UNCHANGED <<pool, status>>
      BY <1>6 DEF LookupFails, Earliest, records, pooling
    <2> DEFINE rest == Top(th).entries \ {e}
               frames == DoBatch("plans", rest)
    <2>3. TasksOf(rest) \subseteq Runnable /\ rest \subseteq Entry
      BY <1>6, TopBatch DEF LookupFails, IInv, TasksOf
    <2>4. frames \in Seq(SoundFrame) /\ Elements(frames) = Single(rest, "plans")
      BY <2>3, DoBatchSound, ElementsOfBatch DEF Single
    <2>5. Continue(th, frames)
      BY <2>2
    <2> HIDE DEF frames
    <2>6. Order'
      <3>1. \A f \in Elements(frames) : f.op \notin TopOps
        BY <2>4 DEF Single, TopOps
      <3> QED
        BY <2>1, <2>4, <2>5, <3>1, OrderBySteady
    <2>7. ASSUME NEW t \in Tasks, Owes(Top(th), t)
          PROVE  Owed(Elements(frames), t) \/ t \in dropped'
      <3>1. t = e.task \/ t \in TasksOf(rest)
        BY <2>1, <2>7 DEF Owes, Supplies, Commits, CommitOps, PoolOps, TasksOf
      <3>2. CASE t \in TasksOf(rest)
        <4>1. [op |-> "plans", entries |-> rest] \in Elements(frames)
          BY <2>4, <3>2 DEF Single, TasksOf
        <4> QED
          BY <3>2, <4>1, OwedInBatch DEF BatchOps
      <3> QED
        BY <2>2, <3>1, <3>2
    <2>8. Kept'
      BY <2>1, <2>2, <2>4, <2>5, <2>7, KeptByContinue
    <2> QED
      BY <1>2, <2>6, <2>8
  <1> QED
    BY <1>3, <1>4, <1>5, <1>6 DEF PoolFault

(* A thread that was idle starts, and nothing is taken from the pool.      *)
LEMMA CallKeeps ==
    ASSUME IInv, Order, Kept, Guarded, NEW th \in Threads, NEW frames \in Seq(SoundFrame),
           Call(th, frames), Orderly(frames), pool' = pool, dropped' = dropped,
           \A t \in Tasks : status'[t] = "PENDING" =>
               status[t] = "PENDING" \/ Owed(Elements(frames), t),
           /\ armed' = armed
           /\ flushTimer' = flushTimer
    PROVE  Order' /\ Kept' /\ Guarded'
  <1>1. /\ \A u \in Threads : u # th => stack'[u] = stack[u]
        /\ stack[th] = <<>> /\ stack'[th] = frames /\ Elements(stack[th]) = {}
    BY AfterCall, ElementsOfEmpty DEF IInv, Sound
  <1>2. Order'
    <2>1. \A u \in Threads : Orderly(stack'[u])
      BY <1>1 DEF Order
    <2> QED
      BY <2>1 DEF Order, Orderly, Elements, Fits
  <1>3. Kept'
    <2>1. ASSUME NEW t \in Tasks, status'[t] = "PENDING", t \notin TasksOf(pool), t \notin dropped
          PROVE  \E u \in Threads : Owed(Elements(stack'[u]), t)
      <3>1. CASE Owed(Elements(frames), t)
        BY <1>1, <3>1
      <3>2. CASE status[t] = "PENDING"
        <4>1. PICK u \in Threads : Owed(Elements(stack[u]), t)
          BY <2>1, <3>2 DEF Kept
        <4>2. u # th
          BY <1>1, <4>1 DEF Owed
        <4> QED
          BY <1>1, <4>1, <4>2
      <3> QED
        BY <2>1, <3>1, <3>2
    <2> QED
      BY <2>1 DEF Kept, TasksOf, Owed, Owes, Supplies, Commits, Elements
  <1>4. Guarded'
    <2>1. ASSUME Timely, pool # {}, armed = {}
          PROVE  \E u \in Threads : Guarding(Elements(stack'[u]))
      <3>1. PICK u \in Threads : Guarding(Elements(stack[u]))
        BY <2>1 DEF Guarded
      <3>2. u # th
        BY <1>1, <3>1 DEF Guarding
      <3> QED
        BY <1>1, <3>1, <3>2
    <2>2. ASSUME Timely, flushTimer # NoTimer, flushTimer \notin armed
          PROVE  \E f \in Elements(stack'[flushTimer]) : f.op = "flushDue"
      <3>1. flushTimer \in Threads /\ \E f \in Elements(stack[flushTimer]) : f.op = "flushDue"
        BY <2>2 DEF Guarded, IInv, PoolingTyped, Threads
      <3>2. flushTimer # th
        BY <1>1, <3>1
      <3> QED
        BY <1>1, <3>1, <3>2
    <2> QED
      BY <2>1, <2>2 DEF Guarded, Guarding, Elements, NoTimer
  <1> QED
    BY <1>2, <1>3, <1>4

LEMMA TimerExpiresKeeps ==
    ASSUME IInv, Order, Kept, Guarded, NEW tm \in Timers, TimerExpires(tm)
    PROVE  Order' /\ Kept' /\ Guarded'
  <1> DEFINE frames == Do("flushDue")
  <1>1. tm \in Threads /\ frames \in Seq(SoundFrame) /\ Elements(frames) = {[op |-> "flushDue"]}
    BY PoolFrames DEF Threads
  <1>2. /\ \A u \in Threads : u # tm => stack'[u] = stack[u]
        /\ stack[tm] = <<>> /\ stack'[tm] = frames /\ Elements(stack[tm]) = {}
        /\ Elements(stack'[tm]) = {[op |-> "flushDue"]}
        /\ armed' = armed \ {tm} /\ UNCHANGED <<pool, flushTimer, status, dropped>>
    BY <1>1, AfterCall, ElementsOfEmpty DEF IInv, Sound, TimerExpires, records
  <1>3. Orderly(frames)
    BY OrderlySingle DEF TopOps, Do
  <1> HIDE DEF frames
  <1>4. Order'
    <2>1. \A u \in Threads : Orderly(stack'[u])
      BY <1>2, <1>3 DEF Order
    <2> QED
      BY <2>1 DEF Order, Orderly, Elements, Fits
  <1>5. Kept'
    <2>1. ASSUME NEW t \in Tasks, NEW u \in Threads, Owed(Elements(stack[u]), t)
          PROVE  Owed(Elements(stack'[u]), t)
      BY <1>2, <2>1 DEF Owed
    <2> QED
      BY <1>2, <2>1 DEF Kept, TasksOf, Owed, Owes, Supplies, Commits, Elements
  <1>6. Guarded'
    <2>1. Guarding(Elements(stack'[tm])) /\ \E f \in Elements(stack'[tm]) : f.op = "flushDue"
      BY <1>2 DEF Guarding, Ensures
    <2>2. ASSUME Timely, flushTimer # NoTimer, flushTimer \notin armed, flushTimer # tm
          PROVE  \E f \in Elements(stack'[flushTimer]) : f.op = "flushDue"
      BY <1>2, <2>2 DEF Guarded, IInv, PoolingTyped, Threads
    <2> QED
      BY <1>1, <1>2, <2>1, <2>2 DEF Guarded, Guarding, Elements, NoTimer
  <1> QED
    BY <1>4, <1>5, <1>6

(* Steps that leave the threads and the pool alone and make nothing pending. *)
LEMMA OthersKeep ==
    ASSUME IInv, Order, Kept, Guarded, UNCHANGED <<stack, pool, armed, flushTimer, dropped>>,
           \A t \in Tasks : status'[t] = "PENDING" => status[t] = "PENDING"
    PROVE  Order' /\ Kept' /\ Guarded'
  <1>1. Order'
    BY DEF Order, Orderly, Fits, Elements
  <1>2. Guarded'
    BY DEF Guarded, Guarding, Elements, NoTimer
  <1>3. Kept'
    BY DEF Kept, TasksOf, Owed, Owes, Supplies, Commits, Elements
  <1> QED
    BY <1>1, <1>2, <1>3

LEMMA SubmitKeeps ==
    ASSUME IInv, Order, Kept, Guarded, NEW t0 \in Tasks, Submit(t0)
    PROVE  Order' /\ Kept' /\ Guarded'
  <1> DEFINE last == IF t0 = NTasks THEN Do("flushDue") ELSE <<>>
             frames == BackIn(t0, NoWorker) \o last
  <1>1. /\ last \in Seq(SoundFrame)
        /\ Elements(last) \subseteq {[op |-> "flushDue"]}
    BY PoolFrames, EmptySeq, ElementsOfEmpty
  <1>2. /\ BackIn(t0, NoWorker) \in Seq(SoundFrame)
        /\ Elements(BackIn(t0, NoWorker)) = {TaskOf("add", t0, NoWorker), [op |-> "flushDue"]}
    BY BackInFrames
  <1>3. frames \in Seq(SoundFrame)
          /\ Elements(frames) = {TaskOf("add", t0, NoWorker), [op |-> "flushDue"]}
    <2> HIDE DEF last
    <2>1. frames \in Seq(SoundFrame)
            /\ Elements(frames) = Elements(BackIn(t0, NoWorker)) \cup Elements(last)
      BY <1>1, <1>2, ConcatFrames
    <2> QED
      BY <1>1, <1>2, <2>1
  <1>4. Call("api", frames) /\ UNCHANGED <<pool, armed, flushTimer, dropped>>
          /\ status' = [status EXCEPT ![t0] = "PENDING"]
    BY DEF Submit, BackIn, pooling
  <1> HIDE DEF frames
  <1>5. Orderly(frames)
    <2>1. \A f \in Elements(frames) : f.op \notin TopOps
      BY <1>3 DEF TaskOf, TopOps
    <2>2. frames # <<>> => Elements(frames) = {Head(frames)} \cup Elements(Tail(frames))
      BY <1>3, ElementsOfTail
    <2> QED
      BY <2>1, <2>2 DEF Orderly, Fits, TopOps
  <1>6. Owed(Elements(frames), t0)
    BY <1>3, OwedAlone DEF PoolOps, TaskOf
  <1>7. \A t \in Tasks : status'[t] = "PENDING" =>
            status[t] = "PENDING" \/ Owed(Elements(frames), t)
    BY <1>4, <1>6 DEF IInv, RecordsTyped
  <1> QED
    BY <1>3, <1>4, <1>5, <1>7, CallKeeps DEF Threads

LEMMA HandleEventKeeps ==
    ASSUME IInv, Order, Kept, Guarded, HandleTaskEvent \/ HandleUnregister
    PROVE  Order' /\ Kept' /\ Guarded'
  <1>1. CASE HandleTaskEvent
    <2> DEFINE ev == Head(taskEvents)
               u == DoTask(ev.type, ev.task, ev.worker)
               frames == DoTask("clear", ev.task, NoWorker) \o u
    <2>1. /\ ev.type \in Ends /\ ev.task \in Tasks /\ ev.worker \in Workers
          /\ ev.type = "succeeded" => ev.task \in ran
      BY <1>1, HeadTailInSeq DEF HandleTaskEvent, IInv, Sound, SoundEvent, TaskEvent, Ends
    <2>2. /\ u \in Seq(SoundFrame) /\ Elements(u) = {TaskOf(ev.type, ev.task, ev.worker)}
          /\ DoTask("clear", ev.task, NoWorker) \in Seq(SoundFrame)
          /\ TaskOf("clear", ev.task, NoWorker) \in SoundFrame
      BY <2>1, DoTaskSound, ElementsOfTask DEF Ends, TaskOf, SoundFrame, TaskFrame
    <2> HIDE DEF u
    <2>3. /\ frames \in Seq(SoundFrame) /\ frames # <<>>
          /\ Head(frames) = TaskOf("clear", ev.task, NoWorker) /\ Tail(frames) = u
      <3>1. frames = <<TaskOf("clear", ev.task, NoWorker)>> \o u
        BY DEF DoTask, TaskOf
      <3> QED
        BY <2>2, <3>1, HeadAndRest
    <2>4. Call("tasks", frames) /\ UNCHANGED <<pool, status, armed, flushTimer, dropped>>
      BY <1>1 DEF HandleTaskEvent, pooling, records, u
    <2> HIDE DEF frames
    <2>5. Orderly(frames)
      <3> DEFINE g == TaskOf(ev.type, ev.task, ev.worker)
      <3>1. g.op = ev.type /\ g.task = ev.task /\ Elements(Tail(frames)) = {g}
        BY <2>2, <2>3 DEF TaskOf
      <3>2. Head(frames).op = "clear" /\ Head(frames).task = ev.task
        BY <2>3 DEF TaskOf
      <3> HIDE DEF g
      <3>3. Fits(Head(frames), Elements(Tail(frames)))
        BY <2>1, <3>1, <3>2 DEF Fits
      <3> QED
        BY <2>1, <3>1, <3>3 DEF Orderly, Ends, TopOps
    <2> QED
      BY <2>3, <2>4, <2>5, CallKeeps DEF Threads
  <1>2. CASE HandleUnregister
    <2> DEFINE w == Head(workerEvents)
               lost == {t \in Tasks : status[t] = "DISPATCHED" /\ assigned[t] = w}
               entries == {[task |-> t, worker |-> w] : t \in lost}
               frames == DoBatch("lost", entries)
    <2>1. w \in Workers
      BY <1>2, HeadTailInSeq DEF HandleUnregister, IInv, FleetTyped
    <2>2. entries \subseteq Entry
      BY <2>1 DEF Entry
    <2>3. Call("workers", frames) /\ UNCHANGED <<pool, status, armed, flushTimer, dropped>>
      BY <1>2 DEF HandleUnregister, pooling, records
    <2> HIDE DEF entries
    <2>4. frames \in Seq(SoundFrame) /\ \A f \in Elements(frames) : f.op = "lost"
      BY <2>2, DoBatchSound, ElementsOfBatch
    <2>5. Orderly(frames)
      BY OrderlySingle DEF DoBatch, Orderly, TopOps
    <2> HIDE DEF frames
    <2> QED
      BY <2>3, <2>4, <2>5, CallKeeps DEF Threads
  <1> QED
    BY <1>1, <1>2

LEMMA StepKeeps ==
    ASSUME IInv, Order, Kept, Guarded, [Next]_vars
    PROVE  Order' /\ Kept' /\ Guarded'
  <1>9. CASE \E th \in Threads : PoolFault(th)
    BY <1>9, PoolFaultKeeps
  <1>1. CASE \E th \in Threads : ThreadStep(th) \/ DispatchFault(th)
    BY <1>1, PoolStepKeeps, DispatchStepKeeps, HandlerStepKeeps DEF ThreadStep
  <1>2. CASE \E tm \in Timers : TimerExpires(tm)
    BY <1>2, TimerExpiresKeeps
  <1>3. CASE \E t \in Tasks : Submit(t)
    BY <1>3, SubmitKeeps
  <1>4. CASE \E t \in Tasks : RetryDue(t)
    BY <1>4, OthersKeep DEF RetryDue, pooling
  <1>5. CASE \E e \in posts : IngestResult(e)
    <2>1. PICK e \in posts : IngestResult(e)
      BY <1>5
    <2>2. e.task \in Tasks
      BY DEF IInv, Sound, HistoryTyped
    <2> QED
      BY <2>1, <2>2, OthersKeep DEF IngestResult, pooling, IInv, RecordsTyped
  <1>6. CASE HandleTaskEvent \/ HandleUnregister
    BY <1>6, HandleEventKeeps
  <1>7. CASE \E w \in Workers : WorkerStep(w) \/ WorkerTrouble(w)
    <2>1. UNCHANGED <<records, pooling, stack, dropped>>
      BY <1>7 DEF WorkerStep, WorkerTrouble, Receive, ExecutorRaises, ExecutorReturns,
         ResultAccepted, ReportIdle, ResultTimesOut, Shutdown, Crash, HeartbeatExpires, Join
    <2> QED
      BY <2>1, OthersKeep DEF records, pooling
  <1>8. CASE UNCHANGED vars
    BY <1>8, OthersKeep DEF vars, records, pooling
  <1> QED
    BY <1>1, <1>2, <1>3, <1>4, <1>5, <1>6, <1>7, <1>8, <1>9 DEF Next

-----------------------------------------------------------------------------
LEMMA InitKeeps ==
    ASSUME Init
    PROVE  Order /\ Kept /\ Guarded
  BY DEF Init, Order, Orderly, Kept, Guarded, NoTimer

LEMMA WorkIsKept == Spec => [](Order /\ Kept /\ Guarded)
  <1>1. Init => Order /\ Kept /\ Guarded
    BY InitKeeps
  <1>2. IInv /\ Order /\ Kept /\ Guarded /\ [Next]_vars => (Order /\ Kept /\ Guarded)'
    BY StepKeeps
  <1> QED
    BY <1>1, <1>2, Invariance, PTL DEF Spec

LEMMA OwedIsHeld ==
    ASSUME IInv, NEW t \in Tasks, NEW th \in Threads, Owed(Elements(stack[th]), t)
    PROVE  Held(t)
  <1>1. PICK f \in Elements(stack[th]) : Owes(f, t)
    BY DEF Owed
  <1>2. f \in SoundFrame /\ f \in Frames(th)
    BY DEF IInv, Sound, Elements, Frames
  <1> QED
    BY <1>1, <1>2, OwedFrame DEF Held

(* A pending task is in the pool, or some thread still has to dispatch it   *)
(* or put it back, or a Redis call that raised with its entry in hand has  *)
(* dropped it: nothing else loses one, neither a publication that raises,  *)
(* nor a worker that stops, is killed or starts again, nor a late result.  *)
THEOREM PendingIsKept == Spec => []PendingNotLost
  <1>1. IInv /\ Kept => PendingNotLost
    BY OwedIsHeld DEF Kept, PendingNotLost
  <1> QED
    BY <1>1, WorkIsKept, Invariance, PTL

(* When no thread is between two steps, a pool with tasks has a timer that  *)
(* will scan it - if _ensure_flush_timer is not preempted between finding  *)
(* the pool empty and cancelling the timer, and no Redis call of the pool   *)
(* raises (an exception skips the end of _dispatch_batch).                 *)
THEOREM TimerIsArmed ==
    ASSUME PromptCancel, MaxPoolFaults = 0
    PROVE  Spec => []TimerGuardsPool
  <1>1. Guarded => TimerGuardsPool
    BY ElementsOfEmpty DEF Guarded, Timely, Guarding, TimerGuardsPool, Quiet, Idle
  <1> QED
    BY <1>1, WorkIsKept, PTL
=============================================================================
