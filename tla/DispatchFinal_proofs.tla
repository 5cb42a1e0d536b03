------------------------ MODULE DispatchFinal_proofs ------------------------
(***************************************************************************)
(* A task that has run, or has been given up, is not handed out again while *)
(* no result POST has timed out, no publication has raised and no worker    *)
(* has announced its end.  Nothing is assumed of the timing: a report may   *)
(* overtake the commit of its dispatch, which then calls the task           *)
(* DISPATCHED once more; what a finished task leaves in the orchestrator is *)
(* a success, and a dead letter leaves nothing that could hand it out.      *)
(***************************************************************************)
EXTENDS DispatchOnce_proofs

-----------------------------------------------------------------------------
(* What is left of a task that an executor has finished: its worker's       *)
(* report, still to be sent, waiting or being handled.                     *)
Finished(t) ==
    /\ t \notin TasksOf(pool)
    /\ \A th \in Threads : \A f \in Elements(stack[th]) : Supplies(f, t) => f.op = "succeeded"
    /\ \A i \in DOMAIN taskEvents : taskEvents[i].task = t => taskEvents[i].type = "succeeded"
    /\ \A w \in Workers : \A i : <<w, i>> \in Copies(t) =>
         i = 0 /\ phase[w] \in {"posting", "answered"}

(* Of a dead letter nothing is left. *)
Over(t) == t \notin TasksOf(pool) /\ ~InFrames(t) /\ ~InEvents(t) /\ Copies(t) = {}

Settled(t) ==
    /\ t \in ran => Finished(t)
    /\ t \in deadLetters => Over(t)
    /\ status[t] = "NEW" => t \notin ran \cup deadLetters

Final == \A t \in Tasks : Settled(t)

-----------------------------------------------------------------------------
(* A step that gives a task no new place.  What the frames supply and the   *)
(* events say was there before, as a frame or as an event.                 *)
Traced(type, t) ==
    \/ \E u \in Threads : \E f \in Elements(stack[u]) : Supplies(f, t) /\ f.op = type
    \/ \E j \in DOMAIN taskEvents : taskEvents[j].task = t /\ taskEvents[j].type = type

NothingNew(t) ==
    /\ t \in TasksOf(pool') => t \in TasksOf(pool)
    /\ \A u \in Threads : \A f \in Elements(stack'[u]) : Supplies(f, t) => Traced(f.op, t)
    /\ \A i \in DOMAIN taskEvents' : taskEvents'[i].task = t =>
         \/ Traced(taskEvents'[i].type, t)
         \/ Copies(t) # {} /\ (Finished(t) => taskEvents'[i].type = "succeeded")
    /\ \A w \in Workers : \A i : <<w, i>> \in Copies(t)' =>
         \E j : /\ <<w, j>> \in Copies(t)
                /\ j = 0 => i = 0 /\ (phase'[w] = phase[w] \/ phase'[w] = "answered")

LEMMA NothingNewKeeps ==
    ASSUME NEW t, NothingNew(t)
    PROVE  (Finished(t) => Finished(t)') /\ (Over(t) => Over(t)')
  <1>1. ASSUME Finished(t)
        PROVE  Finished(t)'
    <2>1. \A type : Traced(type, t) => type = "succeeded"
      BY <1>1 DEF Traced, Finished
    <2>2. ASSUME NEW w \in Workers, NEW i, <<w, i>> \in Copies(t)'
          PROVE  i = 0 /\ phase'[w] \in {"posting", "answered"}
      <3>1. PICK j : /\ <<w, j>> \in Copies(t)
                     /\ j = 0 => i = 0 /\ (phase'[w] = phase[w] \/ phase'[w] = "answered")
        BY <2>2 DEF NothingNew
      <3>2. j = 0 /\ phase[w] \in {"posting", "answered"}
        BY <1>1, <3>1 DEF Finished
      <3> QED
        BY <3>1, <3>2
    <2>3. \A u \in Threads : \A f \in Elements(stack'[u]) : Supplies(f, t) => f.op = "succeeded"
      BY <2>1 DEF NothingNew
    <2>4. \A i \in DOMAIN taskEvents' : taskEvents'[i].task = t => taskEvents'[i].type = "succeeded"
      BY <1>1, <2>1 DEF NothingNew
    <2>5. t \notin TasksOf(pool')
      BY <1>1 DEF NothingNew, Finished
    <2> QED
      BY <2>2, <2>3, <2>4, <2>5 DEF Finished, TasksOf, Supplies, Elements
  <1>2. ASSUME Over(t)
        PROVE  Over(t)'
    <2>1. \A type : ~Traced(type, t)
      BY <1>2 DEF Traced, Over, InFrames, InEvents, Supplied
    <2>2. \A u \in Threads : ~Supplied(Elements(stack'[u]), t)
      BY <2>1 DEF NothingNew, Supplied
    <2>3. ~InEvents(t)'
      BY <1>2, <2>1 DEF NothingNew, Over, InEvents
    <2>4. \A p \in Copies(t)' : \E v \in Workers : \E i : p = <<v, i>>
      BY CopyAtNext
    <2>5. Copies(t)' = {}
      BY <1>2, <2>4 DEF NothingNew, Over
    <2>6. t \notin TasksOf(pool')
      BY <1>2 DEF NothingNew, Over
    <2> QED
      BY <2>2, <2>3, <2>5, <2>6 DEF Over, InFrames, Supplied, TasksOf, Supplies, Elements
  <1> QED
    BY <1>1, <1>2

LEMMA NothingNewSettles ==
    ASSUME NEW t, Settled(t), NothingNew(t), t \in ran' => t \in ran,
           t \in deadLetters' => t \in deadLetters,
           status'[t] = "NEW" => status[t] = "NEW"
    PROVE  Settled(t)'
  BY NothingNewKeeps DEF Settled

(* When nothing but the copies of t may change.                            *)
LEMMA NothingMoved ==
    ASSUME NEW t, UNCHANGED <<pool, stack, taskEvents>>,
           \A w \in Workers : \A i : <<w, i>> \in Copies(t)' =>
             \E j : /\ <<w, j>> \in Copies(t)
                    /\ j = 0 => i = 0 /\ (phase'[w] = phase[w] \/ phase'[w] = "answered")
    PROVE  NothingNew(t)
  BY DEF NothingNew, Traced

-----------------------------------------------------------------------------
(* The sections of the threads. *)

(* The frames of th before and after one of its sections.                  *)
LEMMA ThreadFrames ==
    ASSUME IInv, Order, NEW th \in Threads, NEW frames, Ran(th, frames)
    PROVE  /\ \A u \in Threads : u # th => stack'[u] = stack[u]
           /\ Elements(stack[th]) = {Top(th)} \cup Elements(Tail(stack[th]))
           /\ Elements(stack'[th]) = Elements(frames) \cup Elements(Tail(stack[th]))
           /\ \A f \in Elements(Tail(stack[th])) : f.op \notin TopOps
  <1>1. stack \in [Threads -> Seq(SoundFrame)]
    BY DEF IInv, Sound
  <1>2. stack[th] # <<>> /\ Orderly(stack[th])
    BY DEF Ran, Idle, Order
  <1> QED
    BY <1>1, <1>2, AfterContinue DEF Ran, Orderly

(* A task that the top section supplies is nowhere else.                   *)
LEMMA SuppliedByTop ==
    ASSUME IInv, Alone, NEW th \in Threads, ~Idle(th), NEW t \in Tasks, Supplies(Top(th), t)
    PROVE  /\ t \notin TasksOf(pool) /\ ~InEvents(t) /\ Copies(t) = {} /\ status[t] # "NEW"
           /\ ~Supplied(Elements(Tail(stack[th])), t) /\ InFrames(t)
           /\ \A u \in Threads : u # th => ~Supplied(Elements(stack[u]), t)
  <1>1. stack[th] \in Seq(SoundFrame) /\ stack[th] # <<>>
    BY DEF IInv, Sound, Idle
  <1>2. Top(th) \in Elements(stack[th]) /\ Top(th) = Head(stack[th])
    BY <1>1, ElementsOfTail DEF Top
  <1>3. OncePerPlace(t) /\ OnePlace(t)
    BY DEF Alone
  <1>4. Supplied(Elements(stack[th]), t) /\ InFrames(t)
    BY <1>2 DEF Supplied, InFrames
  <1>5. ~Supplied(Elements(Tail(stack[th])), t)
    BY <1>1, <1>2, <1>3, OnceInTail DEF OncePerPlace
  <1> QED
    BY <1>3, <1>4, <1>5 DEF OncePerPlace, OnePlace

LEMMA RanKeepsFinal ==
    ASSUME IInv, Order, Alone, Final, NEW th \in Threads, NEW frames, Ran(th, frames), ran' = ran
    PROVE  Final'
  <1> DEFINE fs == Elements(frames)
             b == Elements(Tail(stack[th]))
             f == Top(th)
  <1>1. /\ \A u \in Threads : u # th => stack'[u] = stack[u]
        /\ Elements(stack[th]) = {f} \cup b
        /\ Elements(stack'[th]) = fs \cup b
    BY ThreadFrames
  <1> SUFFICES ASSUME NEW t \in Tasks
               PROVE  Settled(t)'
    BY DEF Final
  <1>2. Move(f, fs, t) /\ UNCHANGED <<taskEvents, phase>> /\ ~Idle(th)
    BY DEF Ran
  <1>3. Settled(t)
    BY DEF Final
  <1>4. Supplies(f, t) =>
          /\ t \notin TasksOf(pool) /\ ~InEvents(t) /\ Copies(t) = {} /\ status[t] # "NEW"
          /\ ~Supplied(b, t) /\ InFrames(t)
          /\ \A u \in Threads : u # th => ~Supplied(Elements(stack[u]), t)
    BY <1>2, SuppliedByTop
  <1>5. /\ Finished(t) => (Supplies(f, t) => f.op = "succeeded")
        /\ Over(t) => ~Supplies(f, t)
    BY <1>1, <1>4 DEF Finished, Over
  <1> HIDE DEF fs, b, f
  <1>6. ASSUME SamePool(t), Copies(t)' = Copies(t), ~Supplied(fs, t),
               t \in deadLetters' => t \in deadLetters, status'[t] = "NEW" => status[t] = "NEW"
        PROVE  Settled(t)'
    <2>1. \A u \in Threads : \A g \in Elements(stack'[u]) :
            Supplies(g, t) => g \in Elements(stack[u])
      BY <1>1, <1>6 DEF Supplied
    <2>2. NothingNew(t)
      BY <1>2, <1>6, <2>1 DEF NothingNew, Traced, SamePool
    <2> QED
      BY <1>3, <1>6, <2>2, NothingNewSettles
  <1>7. CASE Aside(f, fs, t) \/ Marked(f, fs, t) \/ Booked(f, fs, t)
    <2>1. /\ SamePool(t) /\ Copies(t)' = Copies(t)
          /\ t \in deadLetters' => t \in deadLetters
          /\ status'[t] = "NEW" => status[t] = "NEW"
      BY <1>7 DEF Aside, Marked, Booked, SameCopies, SameRecord
    <2>2. ~Supplied(fs, t)
      BY <1>7 DEF Aside, Marked, Booked, Owed, Owes, Supplied, Supplies, TaskOf, PoolOps, BatchOps
    <2> QED
      BY <1>6, <2>1, <2>2
  (* A task that is taken out of the pool, handed on or published has not    *)
  (* run and is no dead letter.                                            *)
  <1>8. CASE TakenOut(f, fs, t) \/ HandedOn(f, fs, t) \/ Published(f, fs, t)
    <2>1. t \in TasksOf(pool) \/ (Supplies(f, t) /\ f.op # "succeeded")
      BY <1>8 DEF TakenOut, HandedOn, Published, Supplies, Ends
    <2>2. t \notin ran /\ t \notin deadLetters
      BY <1>3, <1>5, <2>1 DEF Settled, Finished, Over
    <2>3. t \notin ran' /\ t \notin deadLetters'
      BY <1>8, <2>2 DEF TakenOut, HandedOn, Published, SameRecord
    <2> QED
      BY <2>3 DEF Settled
  <1>9. CASE Closed(f, fs, t)
    <2>1. Supplies(f, t) /\ SamePool(t) /\ Copies(t)' = Copies(t) /\ status'[t] # "NEW"
      BY <1>9 DEF Closed, Supplies, PoolOps, Ends, SameCopies
    <2>2. t \notin deadLetters
      BY <1>3, <1>5, <2>1 DEF Settled
    <2>3. CASE f.op = "succeeded"
      <3>1. ~Supplied(fs, t) /\ t \notin deadLetters'
        BY <1>9, <2>2, <2>3 DEF Closed
      <3> QED
        BY <1>6, <2>1, <3>1
    <2>4. CASE f.op = "failed"
      <3>1. t \notin ran'
        BY <1>3, <1>5, <2>1, <2>4 DEF Settled
      <3>2. ASSUME t \in deadLetters'
            PROVE  Over(t)'
        <4>1. ~Supplied(fs, t)
          BY <1>9, <2>2, <2>4, <3>2 DEF Closed
        <4>2. \A u \in Threads : ~Supplied(Elements(stack'[u]), t)
          BY <1>1, <1>4, <2>1, <4>1 DEF Supplied
        <4>3. t \notin TasksOf(pool') /\ Copies(t)' = {} /\ ~InEvents(t)'
          BY <1>2, <1>4, <2>1 DEF SamePool, InEvents
        <4> QED
          BY <4>2, <4>3 DEF Over, InFrames, Supplied, TasksOf, Supplies, Elements
      <3> QED
        BY <2>1, <3>1, <3>2 DEF Settled
    <2> QED
      BY <1>9, <2>3, <2>4 DEF Closed
  <1> QED
    BY <1>2, <1>7, <1>8, <1>9 DEF Move

LEMMA UnwoundKeepsFinal ==
    ASSUME IInv, Final, NEW th \in Threads, NEW front, NEW rest, Unwound(th, front, rest)
    PROVE  Final'
  <1> DEFINE below == Elements(Tail(stack[th]))
             f == Top(th)
  <1>1. /\ stack \in [Threads -> Seq(SoundFrame)]
        /\ stack[th] \in Seq(SoundFrame) /\ stack[th] # <<>> /\ f = Head(stack[th])
    BY DEF IInv, Sound, Idle, Top, Unwound
  <1>2. /\ \A u \in Threads : u # th => stack'[u] = stack[u]
        /\ Elements(stack[th]) = {f} \cup below
        /\ Elements(stack'[th]) = Elements(front) \cup Elements(rest)
        /\ Elements(rest) \subseteq below
    BY <1>1, ElementsOfTail, ConcatFrames DEF Unwound
  <1>3. /\ UNCHANGED <<taskEvents, inbox, current, phase, status, deadLetters, ran>>
        /\ f.op # "succeeded"
    BY DEF Unwound
  <1> SUFFICES ASSUME NEW t \in Tasks
               PROVE  Settled(t)'
    BY DEF Final
  <1>4. /\ Supplied(Elements(front), t) => Supplies(f, t) \/ t \in TasksOf(pool)
        /\ t \in TasksOf(pool') => t \in TasksOf(pool) \/ Supplies(f, t)
    BY DEF Unwound
  <1>5. Settled(t) /\ Copies(t)' = Copies(t)
    BY <1>3, CopiesSame DEF Final, SameCopies
  <1>6. CASE Supplies(f, t) \/ t \in TasksOf(pool)
    <2>1. ~Finished(t) /\ ~Over(t)
      BY <1>2, <1>3, <1>6 DEF Finished, Over, InFrames, Supplied
    <2> QED
      BY <1>3, <1>5, <2>1 DEF Settled
  <1>7. CASE ~Supplies(f, t) /\ t \notin TasksOf(pool)
    <2>1. \A u \in Threads : \A g \in Elements(stack'[u]) :
            Supplies(g, t) => g \in Elements(stack[u])
      BY <1>2, <1>4, <1>7 DEF Supplied
    <2>2. NothingNew(t)
      BY <1>3, <1>4, <1>5, <1>7, <2>1 DEF NothingNew, Traced
    <2> QED
      BY <1>3, <1>5, <2>2, NothingNewSettles
  <1> QED
    BY <1>6, <1>7

-----------------------------------------------------------------------------
(* An idle thread that starts: a submission, a timer, a task event.        *)
Called(th, frames) ==
    /\ frames \in Seq(SoundFrame) /\ Call(th, frames)
    /\ UNCHANGED <<pool, inbox, current, phase, deadLetters, ran>>
    /\ \A i \in DOMAIN taskEvents' : \E j \in DOMAIN taskEvents : taskEvents'[i] = taskEvents[j]
    /\ \A t \in Tasks : status'[t] = status[t] \/ (status[t] = "NEW" /\ status'[t] = "PENDING")
    /\ \A f \in Elements(frames) : f.op \in PoolOps \cup BatchOps \cup CommitOps \cup {"publish"} =>
         \/ f.op = "add" /\ status[f.task] = "NEW"
         \/ f.op \in Ends /\ \E j \in DOMAIN taskEvents :
                                taskEvents[j].task = f.task /\ taskEvents[j].type = f.op

LEMMA CallsAreCalls ==
    ASSUME IInv, \/ \E t \in Tasks : Submit(t)
                 \/ \E tm \in Timers : TimerExpires(tm)
                 \/ HandleTaskEvent
    PROVE  \E th \in Threads : \E frames : Called(th, frames)
  <1> USE DEF records, pooling, channels, processes
  <1>1. ASSUME NEW t0 \in Tasks, Submit(t0)
        PROVE  \E frames : Called("api", frames)
    <2> DEFINE last == IF t0 = NTasks THEN Do("flushDue") ELSE <<>>
               frames == BackIn(t0, NoWorker) \o last
    <2>1. last \in Seq(SoundFrame) /\ Elements(last) \subseteq {[op |-> "flushDue"]}
      BY PoolFrames, EmptySeq, ElementsOfEmpty
    <2>2. /\ BackIn(t0, NoWorker) \in Seq(SoundFrame)
          /\ Elements(BackIn(t0, NoWorker)) = {TaskOf("add", t0, NoWorker), [op |-> "flushDue"]}
      BY BackInFrames
    <2>3. /\ Call("api", frames)
          /\ UNCHANGED <<pool, taskEvents, inbox, current, phase, deadLetters, ran>>
          /\ status[t0] = "NEW" /\ status' = [status EXCEPT ![t0] = "PENDING"]
      BY <1>1 DEF Submit, BackIn
    <2> HIDE DEF last
    <2>4. /\ frames \in Seq(SoundFrame)
          /\ Elements(frames) = Elements(BackIn(t0, NoWorker)) \cup Elements(last)
      BY <2>1, <2>2, ConcatFrames
    <2>5. \A f \in Elements(frames) :
             \/ f.op = "add" /\ f.task = t0
             \/ f.op = "flushDue"
      BY <2>1, <2>2, <2>4 DEF TaskOf
    <2>6. \A t \in Tasks :
            status'[t] = status[t] \/ (status[t] = "NEW" /\ status'[t] = "PENDING")
      BY <2>3 DEF IInv, RecordsTyped
    <2> HIDE DEF frames
    <2>7. Called("api", frames)
      BY <2>3, <2>4, <2>5, <2>6 DEF Called, PoolOps, BatchOps, CommitOps
    <2> QED
      BY <2>7
  <1>2. ASSUME NEW tm \in Timers, TimerExpires(tm)
        PROVE  \E frames : Called(tm, frames)
    <2> DEFINE frames == Do("flushDue")
    <2>1. frames \in Seq(SoundFrame) /\ Elements(frames) = {[op |-> "flushDue"]}
      BY PoolFrames
    <2>2. /\ Call(tm, frames)
          /\ UNCHANGED <<pool, taskEvents, inbox, current, phase, deadLetters, ran, status>>
      BY <1>2 DEF TimerExpires
    <2> HIDE DEF frames
    <2>3. \A f \in Elements(frames) : f.op = "flushDue"
      BY <2>1
    <2>5. Called(tm, frames)
      BY <2>1, <2>2, <2>3 DEF Called, PoolOps, BatchOps, CommitOps
    <2> QED
      BY <2>5
  <1>3. ASSUME HandleTaskEvent
        PROVE  \E frames : Called("tasks", frames)
    <2>1. taskEvents \in Seq(SoundEvent) /\ taskEvents # <<>> /\ taskEvents' = Tail(taskEvents)
      BY <1>3 DEF HandleTaskEvent, IInv, Sound
    <2> PICK ev \in SoundEvent : ev = Head(taskEvents)
      BY <2>1, HeadTailInSeq
    <2>2. /\ ev.type \in Ends /\ ev.task \in Tasks /\ ev.worker \in Workers
          /\ ev.type = "succeeded" => ev.task \in ran
      BY DEF SoundEvent, TaskEvent, Ends
    <2> DEFINE clear == DoTask("clear", ev.task, NoWorker)
               u == DoTask(ev.type, ev.task, ev.worker)
               frames == clear \o u
    <2>3. /\ clear \in Seq(SoundFrame) /\ Elements(clear) = {TaskOf("clear", ev.task, NoWorker)}
          /\ u \in Seq(SoundFrame) /\ Elements(u) = {TaskOf(ev.type, ev.task, ev.worker)}
      BY <2>2, DoTaskSound, ElementsOfTask DEF Ends, TaskOf
    <2>4. /\ Call("tasks", frames)
          /\ UNCHANGED <<pool, inbox, current, phase, deadLetters, ran, status>>
      BY <1>3 DEF HandleTaskEvent
    <2> HIDE DEF clear, u
    <2>5. frames \in Seq(SoundFrame) /\ Elements(frames) = Elements(clear) \cup Elements(u)
      BY <2>3, ConcatFrames
    <2>6. \A f \in Elements(frames) : f.op = "clear" \/ (f.op = ev.type /\ f.task = ev.task)
      BY <2>2, <2>3, <2>5 DEF TaskOf
    <2>7. /\ \A i \in DOMAIN taskEvents' : \E j \in DOMAIN taskEvents : taskEvents'[i] = taskEvents[j]
          /\ \E j \in DOMAIN taskEvents : taskEvents[j] = ev
      <3>1. Elements(taskEvents) = {ev} \cup Elements(taskEvents')
        BY <2>1, ElementsOfTail
      <3> QED
        BY <3>1 DEF Elements
    <2> HIDE DEF frames
    <2>9. Called("tasks", frames)
      BY <2>2, <2>4, <2>5, <2>6, <2>7 DEF Called, PoolOps, BatchOps, CommitOps
    <2> QED
      BY <2>9
  <1> QED
    BY <1>1, <1>2, <1>3 DEF Threads

LEMMA CallKeepsFinal ==
    ASSUME IInv, Final, NEW th \in Threads, NEW frames, Called(th, frames)
    PROVE  Final'
  <1> SUFFICES ASSUME NEW t \in Tasks
               PROVE  Settled(t)'
    BY DEF Final
  <1>1. /\ UNCHANGED <<pool, inbox, current, phase, deadLetters, ran>>
        /\ status'[t] = status[t] \/ (status[t] = "NEW" /\ status'[t] = "PENDING")
        /\ \A i \in DOMAIN taskEvents' : \E j \in DOMAIN taskEvents : taskEvents'[i] = taskEvents[j]
    BY DEF Called
  <1>2. Copies(t)' = Copies(t) /\ Settled(t)
    BY <1>1, CopiesSame DEF SameCopies, Final
  <1>3. /\ \A u \in Threads : u # th => stack'[u] = stack[u]
        /\ stack'[th] = frames
    BY AfterCall DEF IInv, Sound, Called
  <1>4. CASE status[t] = "NEW"
    BY <1>1, <1>2, <1>4 DEF Settled
  <1>5. CASE status[t] # "NEW"
    <2>1. ASSUME NEW f \in Elements(frames), Supplies(f, t)
          PROVE  Traced(f.op, t)
      <3>1. f.op \in PoolOps \cup BatchOps \cup CommitOps \cup {"publish"}
        BY <2>1 DEF Supplies
      <3>2. \/ f.op = "add" /\ status[f.task] = "NEW"
            \/ f.op \in Ends /\ \E j \in DOMAIN taskEvents :
                                   taskEvents[j].task = f.task /\ taskEvents[j].type = f.op
        BY <3>1 DEF Called
      <3>3. f.task = t
        BY <2>1, <3>2 DEF Supplies, BatchOps, Ends
      <3> QED
        BY <1>5, <3>2, <3>3 DEF Traced
    <2>2. \A u \in Threads : \A f \in Elements(stack'[u]) : Supplies(f, t) => Traced(f.op, t)
      BY <1>3, <2>1 DEF Traced
    <2>3. NothingNew(t)
      BY <1>1, <1>2, <2>2 DEF NothingNew, Traced
    <2> QED
      BY <1>1, <1>2, <2>3, NothingNewSettles
  <1> QED
    BY <1>4, <1>5

(* Time and results that arrive. *)
LEMMA RecordsKeepFinal ==
    ASSUME IInv, Final, (\E t \in Tasks : RetryDue(t)) \/ (\E e \in posts : IngestResult(e))
                          \/ UNCHANGED vars
    PROVE  Final'
  <1> USE DEF records, pooling, channels, processes
  <1>1. /\ UNCHANGED <<pool, stack, taskEvents, deadLetters, ran, inbox, current>>
        /\ \A t \in Tasks : status'[t] = "NEW" => status[t] = "NEW"
        /\ \A v \in Workers : \/ phase'[v] = phase[v]
                              \/ phase[v] = "posting" /\ phase'[v] = "answered"
    <2>1. CASE \E t \in Tasks : RetryDue(t)
      BY <2>1 DEF RetryDue
    <2>2. CASE \E e \in posts : IngestResult(e)
      <3>1. PICK e \in posts : IngestResult(e)
        BY <2>2
      <3>2. \A t \in Tasks : status'[t] = "NEW" => status[t] = "NEW"
        BY <3>1 DEF IngestResult, IInv, RecordsTyped
      <3>3. \A v \in Workers : \/ phase'[v] = phase[v]
                               \/ phase[v] = "posting" /\ phase'[v] = "answered"
        BY <3>1 DEF IngestResult, IInv, FleetTyped
      <3> QED
        BY <3>1, <3>2, <3>3 DEF IngestResult
    <2>3. CASE UNCHANGED vars
      BY <2>3 DEF vars
    <2> QED
      BY <2>1, <2>2, <2>3
  <1> SUFFICES ASSUME NEW t \in Tasks
               PROVE  Settled(t)'
    BY DEF Final
  <1>2. ASSUME NEW v \in Workers, NEW i, <<v, i>> \in Copies(t)'
        PROVE  <<v, i>> \in Copies(t)
    <2>1. (phase'[v] # "reported") <=> (phase[v] # "reported")
      BY <1>1
    <2> QED
      BY <1>1, <1>2, <2>1, CopyAt, CopyAtNext
  <1>3. NothingNew(t)
    BY <1>1, <1>2, NothingMoved
  <1> QED
    BY <1>1, <1>3, NothingNewSettles DEF Final

-----------------------------------------------------------------------------
(* The steps of a worker by what they do to its task.                      *)
Reports(w, type) ==
    /\ Report(w, type) /\ phase[w] \notin {"ready", "reported"}
    /\ UNCHANGED <<inbox, current>>
    /\ \/ ran' = ran
       \/ type = "succeeded" /\ phase[w] = "running" /\ ran' = ran \cup {current[w]}
    /\ type = "failed" => phase[w] = "running" \/ ResultTimesOut(w)

Finishes(w) ==
    /\ phase[w] = "running" /\ phase' = [phase EXCEPT ![w] = "posting"]
    /\ ran' = ran \cup {current[w]}
    /\ UNCHANGED <<inbox, current, taskEvents>>

Rests(w) ==
    /\ UNCHANGED <<taskEvents, ran>>
    /\ \A v \in Workers :
         \/ inbox'[v] = inbox[v] /\ current'[v] = current[v] /\ phase'[v] = phase[v]
         \/ (inbox'[v] = inbox[v] \/ inbox'[v] = <<>>) /\ current'[v] = 0

LEMMA WorkersWork ==
    ASSUME IInv, NEW w \in Workers, WorkerStep(w) \/ WorkerTrouble(w), ~Shutdown(w)
    PROVE  /\ \/ Receive(w) \/ Finishes(w) \/ Rests(w)
              \/ \E type \in {"succeeded", "failed"} : Reports(w, type)
           /\ UNCHANGED <<pool, stack, status, deadLetters>>
  <1> USE DEF records, pooling, channels, processes
  <1>1. UNCHANGED <<pool, stack, status, deadLetters>>
    BY DEF WorkerStep, WorkerTrouble, Receive, ExecutorRaises, ExecutorReturns, ResultAccepted,
       ReportIdle, ResultTimesOut, Crash, HeartbeatExpires, Join
  <1>2. CASE ExecutorRaises(w)
    BY <1>2 DEF ExecutorRaises, Reports
  <1>3. CASE ExecutorReturns(w) /\ HttpResults
    BY <1>3 DEF ExecutorReturns, Finishes
  <1>4. CASE ExecutorReturns(w) /\ ~HttpResults
    BY <1>4 DEF ExecutorReturns, Reports
  <1>5. CASE ResultAccepted(w)
    BY <1>5 DEF ResultAccepted, Reports
  <1>6. CASE ResultTimesOut(w)
    BY <1>6 DEF ResultTimesOut, Reports
  <1>7. CASE ReportIdle(w) \/ Crash(w) \/ HeartbeatExpires(w) \/ Join(w)
    <2>1. Rests(w)
      BY <1>7 DEF ReportIdle, Crash, Stops, HeartbeatExpires, Join, Rests, IInv, Sound, FleetTyped
    <2> QED
      BY <1>1, <2>1
  <1> QED
    BY <1>1, <1>2, <1>3, <1>4, <1>5, <1>6, <1>7 DEF WorkerStep, WorkerTrouble

(* What a report changes.                                                  *)
LEMMA ReportSays ==
    ASSUME IInv, NEW w \in Workers, NEW type \in {"succeeded", "failed"}, Report(w, type),
           phase[w] \notin {"ready", "reported"}, UNCHANGED <<inbox, current>>
    PROVE  /\ current[w] \in Tasks /\ phase'[w] = "reported"
           /\ \A v \in Workers : v # w => phase'[v] = phase[v]
           /\ \A i \in DOMAIN taskEvents' :
                \/ i \in DOMAIN taskEvents /\ taskEvents'[i] = taskEvents[i]
                \/ taskEvents'[i].task = current[w] /\ taskEvents'[i].type = type
  <1> DEFINE ev == [type |-> type, task |-> current[w], worker |-> w]
             n == Len(taskEvents) + 1
  <1>1. /\ taskEvents \in Seq(SoundEvent) /\ taskEvents' = Append(taskEvents, ev)
        /\ phase'[w] = "reported" /\ \A v \in Workers : v # w => phase'[v] = phase[v]
    BY DEF Report, IInv, Sound, FleetTyped
  <1>2. /\ n \in Nat \ {0} /\ DOMAIN taskEvents = 1..n - 1 /\ DOMAIN taskEvents' = 1..n
        /\ \A i \in 1..n - 1 : taskEvents'[i] = taskEvents[i]
        /\ taskEvents'[n] = ev /\ ev.task = current[w] /\ ev.type = type
    BY <1>1
  <1> HIDE DEF n, ev
  <1>3. ASSUME NEW i \in DOMAIN taskEvents'
        PROVE  \/ i \in DOMAIN taskEvents /\ taskEvents'[i] = taskEvents[i]
               \/ taskEvents'[i].task = current[w] /\ taskEvents'[i].type = type
    <2>1. CASE i = n
      BY <1>2, <2>1
    <2>2. CASE i # n
      <3>1. i \in 1..n - 1
        BY <1>2, <2>2
      <3> QED
        BY <1>2, <3>1
    <2> QED
      BY <2>1, <2>2
  <1>4. current[w] \in Tasks
    BY BusyHasTask
  <1> QED
    BY <1>1, <1>3, <1>4

(* A worker that receives moves its copies up by one.                      *)
LEMMA ReceiveMoves ==
    ASSUME IInv, NEW w \in Workers, Receive(w), NEW t \in Tasks
    PROVE  \A v \in Workers : \A i : <<v, i>> \in Copies(t)' =>
             IF v = w THEN \E j : <<v, j>> \in Copies(t) /\ j # 0 ELSE <<v, i>> \in Copies(t)
  <1>1. /\ inbox[w] \in Seq(Runnable) /\ inbox[w] # <<>> /\ current[w] = 0
        /\ inbox'[w] = Tail(inbox[w]) /\ current'[w] = Head(inbox[w]) /\ phase'[w] = "running"
        /\ \A v \in Workers : v # w => /\ inbox'[v] = inbox[v] /\ current'[v] = current[v]
                                      /\ phase'[v] = phase[v]
    BY DEF Receive, IInv, Sound, FleetTyped
  <1>2. /\ Len(inbox[w]) \in Nat /\ Len(inbox[w]) > 0 /\ DOMAIN inbox[w] = 1..Len(inbox[w])
        /\ DOMAIN inbox'[w] = 1..Len(inbox[w]) - 1 /\ current'[w] = inbox[w][1]
        /\ \A i \in 1..Len(inbox[w]) - 1 : inbox'[w][i] = inbox[w][i + 1]
    BY <1>1
  <1>5. \A v \in Workers : \A i : v # w => (<<v, i>> \in Copies(t) <=> <<v, i>> \in Copies(t)')
    BY <1>1, CopyAt, CopyAtNext
  <1>6. ASSUME NEW i, <<w, i>> \in Copies(t)'
        PROVE  \E j : <<w, j>> \in Copies(t) /\ j # 0
    <2>1. \/ i \in DOMAIN inbox'[w] /\ inbox'[w][i] = t
          \/ current'[w] = t
      BY <1>6, CopyAtNext
    <2>2. CASE current'[w] = t
      <3>1. 1 \in DOMAIN inbox[w] /\ inbox[w][1] = t
        BY <1>2, <2>2
      <3>2. <<w, 1>> \in Copies(t)
        BY <3>1, CopyAt
      <3> QED
        BY <3>2
    <2>3. CASE i \in DOMAIN inbox'[w] /\ inbox'[w][i] = t
      <3>1. i + 1 \in DOMAIN inbox[w] /\ inbox[w][i + 1] = t /\ i + 1 # 0
        BY <1>2, <2>3
      <3>2. <<w, i + 1>> \in Copies(t)
        BY <3>1, CopyAt
      <3> QED
        BY <3>1, <3>2
    <2> QED
      BY <2>1, <2>2, <2>3
  <1> QED
    BY <1>5, <1>6

(* Nothing else that a worker does moves a task to another place.          *)
LEMMA NoNewCopies ==
    ASSUME IInv, NEW w \in Workers,
           Finishes(w) \/ Rests(w) \/ \E type \in {"succeeded", "failed"} : Reports(w, type)
    PROVE  /\ \A t \in Tasks : Copies(t)' \subseteq Copies(t)
           /\ \A t \in Tasks : \A v \in Workers : \A i : <<v, i>> \in Copies(t)' =>
                phase'[v] = phase[v] \/ v = w \/ i # 0
  <1>1. 0 \notin Tasks /\ \A v \in Workers : 0 \notin DOMAIN inbox[v]
    BY ConstantsAssumption DEF Tasks, IInv, Sound
  <1>2. ASSUME NEW v \in Workers
        PROVE  /\ inbox'[v] = inbox[v] \/ inbox'[v] = <<>>
               /\ \A t \in Tasks : current'[v] = t /\ phase'[v] # "reported" =>
                      current[v] = t /\ phase[v] # "reported" /\ (phase'[v] = phase[v] \/ v = w)
    <2>1. CASE Finishes(w)
      BY <2>1 DEF Finishes, IInv, FleetTyped
    <2>2. CASE Rests(w)
      BY <1>1, <2>2 DEF Rests
    <2>3. CASE \E type \in {"succeeded", "failed"} : Reports(w, type)
      BY <2>3 DEF Reports, Report, IInv, FleetTyped
    <2> QED
      BY <2>1, <2>2, <2>3
  <1>3. \A t \in Tasks : Copies(t)' \subseteq Copies(t)
    BY <1>2, FewerCopies
  <1>4. ASSUME NEW t \in Tasks, NEW v \in Workers, <<v, 0>> \in Copies(t)'
        PROVE  phase'[v] = phase[v] \/ v = w
    <2>1. \/ 0 \in DOMAIN inbox'[v]
          \/ current'[v] = t /\ phase'[v] # "reported"
      BY <1>4, CopyAtNext
    <2>2. 0 \notin DOMAIN inbox'[v]
      BY <1>1, <1>2
    <2> QED
      BY <1>2, <2>1, <2>2
  <1> QED
    BY <1>3, <1>4

LEMMA ReceiveKeepsFinal ==
    ASSUME IInv, Final, NEW w \in Workers, Receive(w)
    PROVE  Final'
  <1>1. /\ UNCHANGED <<pool, stack, deadLetters, status, taskEvents, ran>>
        /\ \A v \in Workers : v # w => phase'[v] = phase[v]
    BY DEF Receive, records, pooling, channels, IInv, FleetTyped
  <1> SUFFICES ASSUME NEW t \in Tasks
               PROVE  Settled(t)'
    BY DEF Final
  <1>2. \A v \in Workers : \A i : <<v, i>> \in Copies(t)' =>
          IF v = w THEN \E j : <<v, j>> \in Copies(t) /\ j # 0 ELSE <<v, i>> \in Copies(t)
    BY ReceiveMoves
  <1>3. ASSUME NEW v \in Workers, NEW i, <<v, i>> \in Copies(t)'
        PROVE  \E j : /\ <<v, j>> \in Copies(t)
                      /\ j = 0 => i = 0 /\ (phase'[v] = phase[v] \/ phase'[v] = "answered")
    <2>1. CASE v = w
      <3>1. PICK j : <<v, j>> \in Copies(t) /\ j # 0
        BY <1>2, <1>3, <2>1
      <3> QED
        BY <3>1
    <2>2. CASE v # w
      <3>1. <<v, i>> \in Copies(t) /\ phase'[v] = phase[v]
        BY <1>1, <1>2, <1>3, <2>2
      <3>2. CASE i = 0
        BY <3>1, <3>2
      <3>3. CASE i # 0
        BY <3>1, <3>3
      <3> QED
        BY <3>2, <3>3
    <2> QED
      BY <2>1, <2>2
  <1>4. NothingNew(t)
    BY <1>1, <1>3, NothingMoved
  <1> QED
    BY <1>1, <1>4, NothingNewSettles DEF Final

(* What an executor has finished is nowhere but with its worker.           *)
LEMMA ExecutedIsFinished ==
    ASSUME IInv, Alone, Final, NEW w \in Workers, NEW t \in Tasks, <<w, 0>> \in Copies(t),
           UNCHANGED <<pool, stack, deadLetters, status>>, Copies(t)' \subseteq Copies(t),
           <<w, 0>> \in Copies(t)' => phase'[w] = "posting",
           \A i \in DOMAIN taskEvents' : taskEvents'[i].task = t =>
             taskEvents'[i].type = "succeeded" \/ \E j \in DOMAIN taskEvents : taskEvents[j].task = t
    PROVE  Settled(t)'
  <1>1. OncePerPlace(t) /\ OnePlace(t) /\ Settled(t) /\ Copies(t) # {}
    BY DEF Alone, Final
  <1>2. t \notin TasksOf(pool) /\ ~InFrames(t) /\ ~InEvents(t) /\ status[t] # "NEW"
    BY <1>1 DEF OnePlace
  <1>3. \A v \in Workers : \A i : <<v, i>> \in Copies(t)' => v = w /\ i = 0
    <2>1. \A p \in Copies(t) : p = <<w, 0>>
      BY <1>1 DEF OncePerPlace
    <2> QED
      BY <2>1
  <1>4. \A th \in Threads : \A f \in Elements(stack'[th]) : ~Supplies(f, t)
    BY <1>2 DEF InFrames, Supplied
  <1>5. \A i \in DOMAIN taskEvents' : taskEvents'[i].task = t => taskEvents'[i].type = "succeeded"
    BY <1>2 DEF InEvents
  <1>6. \A v \in Workers : \A i : <<v, i>> \in Copies(t)' =>
          i = 0 /\ phase'[v] \in {"posting", "answered"}
    BY <1>3
  <1>7. Finished(t)'
    BY <1>2, <1>4, <1>5, <1>6 DEF Finished, TasksOf, Supplies, Elements
  <1>8. t \notin deadLetters'
    BY <1>1 DEF Settled, Over
  <1> QED
    BY <1>2, <1>7, <1>8 DEF Settled

LEMMA ReportKeepsFinal ==
    ASSUME IInv, Alone, Final, NEW w \in Workers, NEW type \in {"succeeded", "failed"},
           Reports(w, type), ~ResultTimesOut(w), UNCHANGED <<pool, stack, deadLetters, status>>
    PROVE  Final'
  <1>1. /\ Report(w, type) /\ phase[w] \notin {"ready", "reported"}
        /\ UNCHANGED <<inbox, current>>
        /\ type = "failed" => phase[w] = "running"
        /\ ran' = ran \/ (type = "succeeded" /\ ran' = ran \cup {current[w]})
    BY DEF Reports
  <1>2. /\ current[w] \in Tasks
        /\ \A v \in Workers : v # w => phase'[v] = phase[v]
        /\ phase'[w] = "reported"
        /\ \A i \in DOMAIN taskEvents' :
             \/ i \in DOMAIN taskEvents /\ taskEvents'[i] = taskEvents[i]
             \/ taskEvents'[i].task = current[w] /\ taskEvents'[i].type = type
    BY <1>1, ReportSays
  <1> SUFFICES ASSUME NEW t \in Tasks
               PROVE  Settled(t)'
    BY DEF Final
  <1>3. Copies(t)' \subseteq Copies(t)
    BY NoNewCopies
  <1>4. <<w, 0>> \notin Copies(t)'
    <2>1. 0 \notin DOMAIN inbox'[w]
      BY <1>1 DEF IInv, Sound
    <2> QED
      BY <1>2, <2>1, CopyAtNext
  <1>5. t = current[w] => <<w, 0>> \in Copies(t)
    BY <1>1, CopyAt
  <1>6. CASE t = current[w] /\ ran' # ran
    <2>1. \A i \in DOMAIN taskEvents' : taskEvents'[i].task = t =>
            taskEvents'[i].type = "succeeded" \/ \E j \in DOMAIN taskEvents : taskEvents[j].task = t
      BY <1>1, <1>2, <1>6
    <2> QED
      BY <1>3, <1>4, <1>5, <1>6, <2>1, ExecutedIsFinished
  <1>7. CASE t # current[w] \/ ran' = ran
    <2>1. ASSUME NEW v \in Workers, NEW i, <<v, i>> \in Copies(t)'
          PROVE  /\ <<v, i>> \in Copies(t)
                 /\ i = 0 => phase'[v] = phase[v]
      BY <1>2, <1>3, <1>4, <2>1
    <2>2. ASSUME NEW i \in DOMAIN taskEvents', taskEvents'[i].task = t
          PROVE  \/ Traced(taskEvents'[i].type, t)
                 \/ Copies(t) # {} /\ (Finished(t) => taskEvents'[i].type = "succeeded")
      <3>1. CASE i \in DOMAIN taskEvents /\ taskEvents'[i] = taskEvents[i]
        BY <2>2, <3>1 DEF Traced
      <3>2. CASE taskEvents'[i].task = current[w] /\ taskEvents'[i].type = type
        <4>1. <<w, 0>> \in Copies(t)
          BY <1>5, <2>2, <3>2
        <4>2. Finished(t) => type # "failed"
          BY <1>1, <4>1 DEF Finished
        <4> QED
          BY <3>2, <4>1, <4>2
      <3> QED
        BY <1>2, <3>1, <3>2
    <2>3. NothingNew(t)
      BY <2>1, <2>2 DEF NothingNew, Traced
    <2>4. t \in ran' => t \in ran
      BY <1>1, <1>7
    <2> QED
      BY <2>3, <2>4, NothingNewSettles DEF Final
  <1> QED
    BY <1>6, <1>7

LEMMA FinishKeepsFinal ==
    ASSUME IInv, Alone, Final, NEW w \in Workers, Finishes(w),
           UNCHANGED <<pool, stack, deadLetters, status>>
    PROVE  Final'
  <1>1. /\ phase[w] = "running" /\ phase'[w] = "posting"
        /\ \A v \in Workers : v # w => phase'[v] = phase[v]
        /\ ran' = ran \cup {current[w]}
        /\ UNCHANGED <<inbox, current, taskEvents>>
    BY DEF Finishes, IInv, FleetTyped
  <1> SUFFICES ASSUME NEW t \in Tasks
               PROVE  Settled(t)'
    BY DEF Final
  <1>2. Copies(t)' \subseteq Copies(t)
    BY NoNewCopies
  <1>3. t = current[w] => <<w, 0>> \in Copies(t)
    BY <1>1, CopyAt
  <1>4. CASE t = current[w]
    BY <1>1, <1>2, <1>3, <1>4, ExecutedIsFinished
  <1>5. CASE t # current[w]
    <2>1. <<w, 0>> \notin Copies(t)'
      <3>1. 0 \notin DOMAIN inbox'[w] /\ current'[w] # t
        BY <1>1, <1>5 DEF IInv, Sound
      <3> QED
        BY <3>1, CopyAtNext
    <2>2. \A v \in Workers : \A i : <<v, i>> \in Copies(t)' =>
            <<v, i>> \in Copies(t) /\ (i = 0 => phase'[v] = phase[v])
      BY <1>1, <1>2, <2>1
    <2>3. UNCHANGED <<pool, stack, taskEvents>>
      BY <1>1
    <2>4. NothingNew(t)
      BY <2>2, <2>3 DEF NothingNew, Traced
    <2> QED
      BY <1>1, <1>5, <2>4, NothingNewSettles DEF Final
  <1> QED
    BY <1>4, <1>5

LEMMA RestKeepsFinal ==
    ASSUME IInv, Final, NEW w \in Workers, Rests(w), UNCHANGED <<pool, stack, deadLetters, status>>
    PROVE  Final'
  <1> SUFFICES ASSUME NEW t \in Tasks
               PROVE  Settled(t)'
    BY DEF Final
  <1>1. Copies(t)' \subseteq Copies(t)
    BY NoNewCopies
  <1>2. ASSUME NEW v \in Workers, <<v, 0>> \in Copies(t)'
        PROVE  phase'[v] = phase[v]
    <2>1. 0 \notin DOMAIN inbox'[v] /\ t # 0
      <3>1. 0 \notin DOMAIN inbox[v] /\ (inbox'[v] = inbox[v] \/ inbox'[v] = <<>>)
        BY DEF Rests, IInv, Sound
      <3>2. t # 0
        BY ConstantsAssumption DEF Tasks
      <3> QED
        BY <3>1, <3>2
    <2>2. current'[v] = t
      BY <1>2, <2>1, CopyAtNext
    <2> QED
      BY <2>1, <2>2 DEF Rests
  <1>3. NothingNew(t)
    BY <1>1, <1>2, NothingMoved DEF Rests
  <1> QED
    BY <1>3, NothingNewSettles DEF Final, Rests

-----------------------------------------------------------------------------
Undisturbed == Calm /\ spent.timeouts = 0

LEMMA StepKeepsFinal ==
    ASSUME IInv, Order, Alone, NobodyLeaves, Final, [Next]_vars, Undisturbed'
    PROVE  Final'
  <1>1. /\ \A th \in Threads : ~DispatchFault(th)
        /\ \A w \in Workers : ~Shutdown(w) /\ ~ResultTimesOut(w)
        /\ ~HandleUnregister
    BY CalmBefore DEF Undisturbed, HandleUnregister, NobodyLeaves
  <1>2. ASSUME NEW th \in Threads, ThreadStep(th)
        PROVE  Final'
    <2>1. ~Reschedule(th)
      <3>1. ~Idle(th) => stack[th] \in Seq(SoundFrame) /\ stack[th] # <<>>
        BY DEF IInv, Sound, Idle
      <3>2. ~Idle(th) => Top(th) \in Elements(stack[th])
        BY <3>1, ElementsOfTail DEF Top
      <3> QED
        BY <3>2 DEF Reschedule, At, NobodyLeaves
    <2>2. \E frames : Ran(th, frames)
      BY <1>2, <2>1, PoolStepMoves, FilterBatchMoves, PutBackMoves, PlanNextMoves, PublishMoves,
         CommitMoves, RequeueMoves, CloseMoves DEF ThreadStep, DispatchStep, HandlerStep
    <2>3. ran' = ran
      BY <1>2 DEF ThreadStep, PoolStep, DispatchStep, HandlerStep, AddToPool, FlushDue, FlushAll,
         ClearFromPool, EnsureTimer, CancelTimer, FilterBatch, PutBackDeferred, PlanNext, Publish,
         MarkWorkerRunning, CommitDispatch, RequeueTask, TaskSucceeded, TaskFailed, Reschedule
    <2> QED
      BY <2>2, <2>3, RanKeepsFinal
  <1>3. CASE \E th \in Threads : PoolFault(th)
    BY <1>3, PoolFaultUnwinds, UnwoundKeepsFinal
  <1>4. CASE \/ \E t \in Tasks : Submit(t)
             \/ \E tm \in Timers : TimerExpires(tm)
             \/ HandleTaskEvent
    BY <1>4, CallsAreCalls, CallKeepsFinal
  <1>5. CASE (\E t \in Tasks : RetryDue(t)) \/ (\E e \in posts : IngestResult(e)) \/ UNCHANGED vars
    BY <1>5, RecordsKeepFinal
  <1>6. ASSUME NEW w \in Workers, WorkerStep(w) \/ WorkerTrouble(w)
        PROVE  Final'
    <2>1. /\ \/ Receive(w) \/ Finishes(w) \/ Rests(w)
             \/ \E type \in {"succeeded", "failed"} : Reports(w, type)
          /\ UNCHANGED <<pool, stack, status, deadLetters>>
      BY <1>1, <1>6, WorkersWork
    <2> QED
      BY <1>1, <2>1, ReceiveKeepsFinal, FinishKeepsFinal, RestKeepsFinal, ReportKeepsFinal
  <1> QED
    BY <1>1, <1>2, <1>3, <1>4, <1>5, <1>6 DEF Next

LEMMA UndisturbedBefore ==
    ASSUME IInv, [Next]_vars, Undisturbed'
    PROVE  Undisturbed
  BY CalmBefore DEF Undisturbed

LEMMA FinalAlways == Spec => [](IInv /\ (Undisturbed => Final))
  <1>1. Init => Final
    BY DEF Init, Final, Settled
  <1>2. ASSUME IInv, Order, Calm => Alone /\ NobodyLeaves, Undisturbed => Final, [Next]_vars,
               Undisturbed'
        PROVE  Final'
    BY <1>2, UndisturbedBefore, StepKeepsFinal DEF Undisturbed
  <1> QED
    BY <1>1, <1>2, Invariance, WorkIsKept, AloneAlways, PTL DEF Spec

(* A task that has run or is a dead letter is not handed out again: not     *)
(* pooled, not sent, not executing.  For as long as no result POST timed   *)
(* out, no publication raised and no worker announced its end; crashes,    *)
(* restarts, failing pool calls and reports that overtake the commit of    *)
(* their dispatch do not break it.                                         *)
THEOREM NothingIsRepeated == Spec => []NotRepeated
  <1>1. ASSUME IInv, Undisturbed => Final
        PROVE  NotRepeated
    <2> SUFFICES ASSUME Undisturbed, NEW t \in ran \cup deadLetters
                 PROVE  /\ t \notin TasksOf(pool)
                        /\ \A w \in Workers : /\ \A i \in DOMAIN inbox[w] : inbox[w][i] # t
                                              /\ ~(current[w] = t /\ phase[w] = "running")
      BY DEF NotRepeated, Undisturbed, Calm
    <2>1. t \in Tasks
      BY <1>1 DEF IInv, HistoryTyped, RecordsTyped
    <2>2. Finished(t) \/ Over(t)
      BY <1>1, <2>1 DEF Final, Settled
    <2>3. ASSUME NEW w \in Workers, NEW i, <<w, i>> \in Copies(t)
          PROVE  i = 0 /\ phase[w] \in {"posting", "answered"}
      BY <2>2, <2>3 DEF Finished, Over
    <2>4. ASSUME NEW w \in Workers, NEW i \in DOMAIN inbox[w], inbox[w][i] = t
          PROVE  FALSE
      <3>1. <<w, i>> \in Copies(t)
        BY <2>4, CopyAt
      <3>2. i # 0
        BY <1>1 DEF IInv, Sound
      <3> QED
        BY <2>3, <3>1, <3>2
    <2>5. ASSUME NEW w \in Workers, current[w] = t, phase[w] = "running"
          PROVE  FALSE
      <3>1. <<w, 0>> \in Copies(t)
        BY <2>5, CopyAt
      <3> QED
        BY <2>3, <2>5, <3>1
    <2>6. t \notin TasksOf(pool)
      BY <2>2 DEF Finished, Over
    <2> QED
      BY <2>4, <2>5, <2>6
  <1> QED
    BY <1>1, FinalAlways, PTL
=============================================================================
