---------------------------- MODULE Services_proofs ----------------------------
(***************************************************************************)
(* Proofs about the orchestrator's services beside the dispatcher, each of *)
(* which keeps state of its own: the worker registry and its metrics       *)
(* (WorkerPresence), the state snapshots (StateSnapshot), the task metrics *)
(* (MetricsLedger), the planning of batches (BatchPlanning), the rows of   *)
(* data-parallel tasks (ShardRows), and the order of workflows             *)
(* (WorkflowGraph).                                                        *)
(***************************************************************************)
EXTENDS WorkerPresence, StateSnapshot, MetricsLedger, BatchPlanning,
        ShardRows, WorkflowGraph,
        SequenceTheorems, FiniteSetTheorems, WellFoundedInduction, TLAPS

-----------------------------------------------------------------------------
(* WorkerPresence.  For any number of workers and of starts: the            *)
(* scheduler's registry and the metrics agree when all events are handled,  *)
(* and the workers listed are whole.                                        *)

(* Positions of workers.events that speak of w, and the last of them.      *)
About(w) == {i \in DOMAIN workerChannel : workerChannel[i].worker = w}
LastAbout(w, i) == i \in About(w) /\ \A j \in About(w) : j <= i

(* Through Redis the registry changes when the event is published: the     *)
(* last event on its way says whether w is a member.                       *)
RedisAgrees ==
    \A w \in Members \ SocketMembers :
        /\ frames[w] = <<>>
        /\ About(w) = {} => (w \in active <=> w \in members)
        /\ \A i \in DOMAIN workerChannel :
             LastAbout(w, i) => (workerChannel[i].type = "REGISTER" <=> w \in members)

(* Over a WebSocket the same handler changes both; what comes on the       *)
(* channel is the echo of its UNREGISTER.                                  *)
SocketAgrees ==
    \A w \in SocketMembers : w \in active <=> w \in members
Echo ==
    \A w \in SocketMembers : \A i \in About(w) :
        /\ workerChannel[i].type = "UNREGISTER"
        /\ w \notin members
        /\ \A k \in DOMAIN frames[w] : frames[w][k].type # "REGISTER"

(* A life's REGISTER is its first frame, and its UNREGISTER comes when the *)
(* process is leaving or over.                                             *)
OneLife ==
    \A w \in SocketMembers : \A k \in DOMAIN frames[w] :
        /\ frames[w][k].worker = w
        /\ frames[w][k].type = "REGISTER" => k = 1
        /\ frames[w][k].type = "UNREGISTER" => process[w] \in {"off", "leaving"}
Farewell ==
    \A i \in DOMAIN workerChannel :
        workerChannel[i].type = "UNREGISTER" => process[workerChannel[i].worker] \in {"off", "leaving"}
Channel ==
    \A i \in DOMAIN workerChannel : workerChannel[i].type \in {"REGISTER", "UNREGISTER"}

PresenceIInv == PresenceTypeOK /\ ListedIsWhole /\ Channel
AgreeIInv == RedisAgrees /\ SocketAgrees /\ Echo /\ OneLife /\ Farewell

(* The channel after an event was appended, and after its head was taken.  *)
LEMMA AppendFacts ==
    ASSUME NEW S, NEW s \in Seq(S), NEW e \in S
    PROVE  /\ Append(s, e) \in Seq(S)
           /\ Len(Append(s, e)) = Len(s) + 1
           /\ DOMAIN Append(s, e) = (DOMAIN s) \cup {Len(s) + 1}
           /\ \A i \in DOMAIN s : Append(s, e)[i] = s[i]
           /\ Append(s, e)[Len(s) + 1] = e
  OBVIOUS

LEMMA TailProperties ==
    ASSUME NEW S, NEW s \in Seq(S), s # <<>>
    PROVE  /\ Head(s) = s[1] /\ 1 \in DOMAIN s /\ Head(s) \in S
           /\ Tail(s) \in Seq(S)
           /\ DOMAIN Tail(s) = 1 .. Len(s) - 1
           /\ \A i \in DOMAIN Tail(s) : i + 1 \in DOMAIN s /\ Tail(s)[i] = s[i + 1]
  OBVIOUS

LEMMA PrefixProperties ==
    ASSUME NEW S, NEW s \in Seq(S), NEW n \in 0 .. Len(s)
    PROVE  /\ SubSeq(s, 1, n) \in Seq(S)
           /\ DOMAIN SubSeq(s, 1, n) = 1 .. n
           /\ \A i \in 1 .. n : i \in DOMAIN s /\ SubSeq(s, 1, n)[i] = s[i]
  OBVIOUS

LEMMA EventTyped ==
    ASSUME NEW type \in {"REGISTER", "HEARTBEAT", "STATUS", "UNREGISTER"}, NEW w \in Members
    PROVE  /\ Event(type, w) \in Message
           /\ Event(type, w).type = type /\ Event(type, w).worker = w
  BY DEF Event, Message
-----------------------------------------------------------------------------
(* Part 1: no assumption on the listener. *)

LEMMA EnterKeeps ==
    ASSUME PresenceIInv, NEW w \in Members, Enter(w)
    PROVE  /\ ListedIsWhole' /\ members' \subseteq Members
           /\ workerHash' \in [Members -> {"none", "partial", "whole"}]
  BY DEF PresenceIInv, PresenceTypeOK, ListedIsWhole, Enter

LEMMA LeaveKeeps ==
    ASSUME PresenceIInv, NEW w \in Members, Leave(w)
    PROVE  /\ ListedIsWhole' /\ members' \subseteq Members /\ fresh' \subseteq Members
           /\ workerHash' \in [Members -> {"none", "partial", "whole"}]
  BY DEF PresenceIInv, PresenceTypeOK, ListedIsWhole, Leave

LEMMA TouchKeeps ==
    ASSUME PresenceIInv, NEW w \in Members, Touch(w)
    PROVE  /\ ListedIsWhole' /\ members' \subseteq Members
           /\ workerHash' \in [Members -> {"none", "partial", "whole"}]
  BY DEF PresenceIInv, PresenceTypeOK, ListedIsWhole, Touch, Written

LEMMA PublishKeeps ==
    ASSUME PresenceIInv, NEW w \in Members, NEW type \in {"REGISTER", "UNREGISTER"},
           Publish(Event(type, w))
    PROVE  workerChannel' \in Seq(Message) /\ Channel'
  <1>1. Event(type, w) \in Message /\ Event(type, w).type = type
    BY EventTyped
  <1>2. workerChannel \in Seq(Message)
    BY DEF PresenceIInv, PresenceTypeOK
  <1> QED
    BY <1>1, <1>2, AppendFacts DEF PresenceIInv, Channel, Publish

LEMMA SendKeeps ==
    ASSUME PresenceIInv, NEW w \in Members,
           NEW type \in {"REGISTER", "HEARTBEAT", "STATUS", "UNREGISTER"}, SendFrame(w, type)
    PROVE  frames' \in [Members -> Seq(Message)]
  BY EventTyped DEF PresenceIInv, PresenceTypeOK, SendFrame

LEMMA PresenceInitInv == PresenceInit => PresenceIInv
  BY PresenceAssumption DEF PresenceInit, PresenceIInv, PresenceTypeOK, ListedIsWhole, Channel

LEMMA WorkerStepInv ==
    ASSUME PresenceIInv, NEW w \in Members,
           Start(w) \/ BecomeIdle(w) \/ BeatBegin(w) \/ BeatEnd(w) \/ ShutDown(w)
    PROVE  PresenceIInv'
  <1>1. CASE Start(w)
    <2>1. /\ process' \in [Members -> {"off", "registered", "up", "leaving"}]
          /\ startCount' \in [Members -> 0 .. MaxStarts]
          /\ UNCHANGED <<beat, fresh, report>>
      BY <1>1, PresenceAssumption DEF Start, PresenceIInv, PresenceTypeOK
    <2>2. CASE w \in SocketMembers
      BY <1>1, <2>1, <2>2, SendKeeps
      DEF Start, PresenceIInv, PresenceTypeOK, ListedIsWhole, Channel, report
    <2>3. CASE w \notin SocketMembers
      <3>1. Enter(w) /\ Publish(Event("REGISTER", w)) /\ UNCHANGED frames
        BY <1>1, <2>3 DEF Start
      <3> QED
        BY <2>1, <3>1, EnterKeeps, PublishKeeps DEF PresenceIInv, PresenceTypeOK, report
    <2> QED
      BY <2>2, <2>3
  <1>2. CASE BecomeIdle(w)
    <2>1. /\ process' \in [Members -> {"off", "registered", "up", "leaving"}]
          /\ UNCHANGED <<beat, startCount, workerChannel, fresh, report>>
      BY <1>2 DEF BecomeIdle, PresenceIInv, PresenceTypeOK
    <2>2. CASE w \in SocketMembers
      BY <1>2, <2>1, <2>2, SendKeeps
      DEF BecomeIdle, PresenceIInv, PresenceTypeOK, ListedIsWhole, Channel, report
    <2>3. CASE w \notin SocketMembers
      BY <1>2, <2>1, <2>3, TouchKeeps
      DEF BecomeIdle, PresenceIInv, PresenceTypeOK, Channel, report
    <2> QED
      BY <2>2, <2>3
  <1>3. CASE BeatBegin(w)
    BY <1>3 DEF BeatBegin, PresenceIInv, PresenceTypeOK, ListedIsWhole, Channel, registry, report
  <1>4. CASE BeatEnd(w)
    <2>1. beat' \in [Members -> BOOLEAN] /\ UNCHANGED <<process, startCount, workerChannel, report>>
      BY <1>4 DEF BeatEnd, PresenceIInv, PresenceTypeOK
    <2>2. CASE w \in SocketMembers
      BY <1>4, <2>1, <2>2, SendKeeps
      DEF BeatEnd, PresenceIInv, PresenceTypeOK, ListedIsWhole, Channel, registry, report
    <2>3. CASE w \notin SocketMembers
      BY <1>4, <2>1, <2>3, TouchKeeps
      DEF BeatEnd, PresenceIInv, PresenceTypeOK, Channel, report
    <2> QED
      BY <2>2, <2>3
  <1>5. CASE ShutDown(w)
    <2>1. /\ process' \in [Members -> {"off", "registered", "up", "leaving"}]
          /\ UNCHANGED <<beat, startCount, report>>
      BY <1>5 DEF ShutDown, PresenceIInv, PresenceTypeOK
    <2>2. CASE w \in SocketMembers
      BY <1>5, <2>1, <2>2, SendKeeps
      DEF ShutDown, PresenceIInv, PresenceTypeOK, ListedIsWhole, Channel, registry, report
    <2>3. CASE w \notin SocketMembers
      <3>1. Leave(w) /\ Publish(Event("UNREGISTER", w)) /\ UNCHANGED frames
        BY <1>5, <2>3 DEF ShutDown
      <3> QED
        BY <2>1, <3>1, LeaveKeeps, PublishKeeps DEF PresenceIInv, PresenceTypeOK, report
    <2> QED
      BY <2>2, <2>3
  <1> QED
    BY <1>1, <1>2, <1>3, <1>4, <1>5

LEMMA ProcessEndsInv ==
    ASSUME PresenceIInv, NEW w \in Members, ProcessEnds(w) PROVE PresenceIInv'
  <1>1. PICK n \in 0 .. Len(frames[w]) : frames' = [frames EXCEPT ![w] = SubSeq(@, 1, n)]
    BY DEF ProcessEnds
  <1>2. SubSeq(frames[w], 1, n) \in Seq(Message)
    BY PrefixProperties DEF PresenceIInv, PresenceTypeOK
  <1> QED
    BY <1>1, <1>2 DEF ProcessEnds, PresenceIInv, PresenceTypeOK, ListedIsWhole, Channel, registry, report

LEMMA HandleFrameInv ==
    ASSUME PresenceIInv, NEW w \in Members, HandleFrame(w) PROVE PresenceIInv'
  <1>1. /\ frames[w] \in Seq(Message) /\ frames[w] # <<>>
        /\ frames' = [frames EXCEPT ![w] = Tail(@)] /\ UNCHANGED <<process, beat, startCount>>
    BY DEF HandleFrame, PresenceIInv, PresenceTypeOK
  <1>2. frames' \in [Members -> Seq(Message)]
    BY <1>1, TailProperties DEF PresenceIInv, PresenceTypeOK
  <1>3. Head(frames[w]).type \in {"REGISTER", "HEARTBEAT", "STATUS", "UNREGISTER"}
    <2>1. Head(frames[w]) \in Message
      BY <1>1, TailProperties
    <2> QED
      BY <2>1 DEF Message
  <1>4. CASE Head(frames[w]).type = "REGISTER"
    <2>1. Registered(w) /\ Enter(w) /\ fresh' = fresh \cup {w} /\ UNCHANGED workerChannel
      BY <1>4 DEF HandleFrame
    <2> QED
      BY <1>1, <1>2, <2>1, EnterKeeps DEF PresenceIInv, PresenceTypeOK, Registered, Channel
  <1>5. CASE Head(frames[w]).type = "HEARTBEAT"
    <2>1. Touch(w) /\ fresh' = fresh \cup {w} /\ UNCHANGED <<workerChannel, report>>
      BY <1>5 DEF HandleFrame
    <2> QED
      BY <1>1, <1>2, <2>1, TouchKeeps DEF PresenceIInv, PresenceTypeOK, report, Channel
  <1>6. CASE Head(frames[w]).type = "STATUS"
    <2>1. Touch(w) /\ UNCHANGED <<workerChannel, fresh, report>>
      BY <1>6 DEF HandleFrame
    <2> QED
      BY <1>1, <1>2, <2>1, TouchKeeps DEF PresenceIInv, PresenceTypeOK, report, Channel
  <1>7. CASE Head(frames[w]).type = "UNREGISTER"
    <2>1. Unregistered(w) /\ Leave(w) /\ Publish(Event("UNREGISTER", w))
      BY <1>7 DEF HandleFrame
    <2> QED
      BY <1>1, <1>2, <2>1, LeaveKeeps, PublishKeeps DEF PresenceIInv, PresenceTypeOK, Unregistered
  <1> QED
    BY <1>3, <1>4, <1>5, <1>6, <1>7

LEMMA HandleMessageInv == PresenceIInv /\ HandleMessage => PresenceIInv'
  <1> SUFFICES ASSUME PresenceIInv, HandleMessage PROVE PresenceIInv'
    OBVIOUS
  <1>1. workerChannel \in Seq(Message) /\ workerChannel # <<>> /\ workerChannel' = Tail(workerChannel)
    BY DEF HandleMessage, PresenceIInv, PresenceTypeOK
  <1>2. Head(workerChannel).worker \in Members
    <2>1. Head(workerChannel) \in Message
      BY <1>1, TailProperties
    <2> QED
      BY <2>1 DEF Message
  <1>3. active' \subseteq Members /\ closed' \subseteq Members
    BY <1>2 DEF HandleMessage, Registered, Unregistered, PresenceIInv, PresenceTypeOK
  <1>4. workerChannel' \in Seq(Message) /\ Channel'
    BY <1>1, TailProperties DEF PresenceIInv, Channel
  <1> QED
    BY <1>3, <1>4 DEF HandleMessage, PresenceIInv, PresenceTypeOK, ListedIsWhole, registry

LEMMA PresenceStepInv == PresenceIInv /\ [PresenceNext]_presenceVars => PresenceIInv'
  <1> SUFFICES ASSUME PresenceIInv, [PresenceNext]_presenceVars PROVE PresenceIInv'
    OBVIOUS
  <1>1. ASSUME NEW w \in Members, WriteStatus(w) PROVE PresenceIInv'
    BY <1>1, TouchKeeps DEF WriteStatus, PresenceIInv, PresenceTypeOK, Channel, report
  <1>2. ASSUME NEW w \in Members, KeyExpires(w) PROVE PresenceIInv'
    BY <1>2 DEF KeyExpires, PresenceIInv, PresenceTypeOK, ListedIsWhole, Channel, report
  <1>3. CASE UNCHANGED presenceVars
    BY <1>3 DEF presenceVars, PresenceIInv, PresenceTypeOK, ListedIsWhole, Channel
  <1> QED
    BY <1>1, <1>2, <1>3, WorkerStepInv, ProcessEndsInv, HandleFrameInv, HandleMessageInv
    DEF PresenceNext

(* A worker the scheduler lists has its whole record in every state,       *)
(* whatever comes late: heartbeats (lifecycle.py:77) and statuses          *)
(* (worker_cls.py:131) write to deleted records without listing them.      *)
THEOREM WholeWorkersListed == PresenceSpec => [](PresenceTypeOK /\ ListedIsWhole)
  <1>1. PresenceIInv => PresenceTypeOK /\ ListedIsWhole
    BY DEF PresenceIInv
  <1> QED
    BY <1>1, PresenceInitInv, PresenceStepInv, PTL DEF PresenceSpec
-----------------------------------------------------------------------------
(* Part 2: an UNREGISTER is handled before its worker starts again. *)

LEMMA PublishedAbout ==
    ASSUME PresenceIInv, NEW v \in Members, NEW type \in {"REGISTER", "UNREGISTER"},
           Publish(Event(type, v))
    PROVE  /\ DOMAIN workerChannel' = DOMAIN workerChannel \cup {Len(workerChannel) + 1}
           /\ workerChannel'[Len(workerChannel) + 1].type = type
           /\ workerChannel'[Len(workerChannel) + 1].worker = v
           /\ \A i \in DOMAIN workerChannel : workerChannel'[i] = workerChannel[i]
           /\ \A w \in Members \ {v} : About(w)' = About(w)
           /\ About(v)' = About(v) \cup {Len(workerChannel) + 1}
           /\ \A i \in DOMAIN workerChannel' : LastAbout(v, i)' => i = Len(workerChannel) + 1
  <1>1. workerChannel \in Seq(Message) /\ Event(type, v) \in Message
        /\ Event(type, v).type = type /\ Event(type, v).worker = v
    BY EventTyped DEF PresenceIInv, PresenceTypeOK
  <1>2. /\ DOMAIN workerChannel' = DOMAIN workerChannel \cup {Len(workerChannel) + 1}
        /\ workerChannel'[Len(workerChannel) + 1] = Event(type, v)
        /\ \A i \in DOMAIN workerChannel : workerChannel'[i] = workerChannel[i]
    BY <1>1, AppendFacts DEF Publish
  <1>3. \A w \in Members \ {v} : About(w)' = About(w)
    BY <1>1, <1>2 DEF About
  <1>4. About(v)' = About(v) \cup {Len(workerChannel) + 1}
    BY <1>1, <1>2 DEF About
  <1>5. \A i \in DOMAIN workerChannel : i \in Nat /\ i <= Len(workerChannel)
    BY <1>1
  <1>6. \A i \in DOMAIN workerChannel' : LastAbout(v, i)' => i = Len(workerChannel) + 1
    <2> SUFFICES ASSUME NEW i \in DOMAIN workerChannel', LastAbout(v, i)'
                 PROVE  i = Len(workerChannel) + 1
      OBVIOUS
    <2>1. Len(workerChannel) + 1 <= i
      BY <1>4 DEF LastAbout
    <2>2. Len(workerChannel) \in Nat
      BY <1>1
    <2> QED
      BY <1>2, <1>5, <2>1, <2>2
  <1> QED
    BY <1>1, <1>2, <1>3, <1>4, <1>6

LEMMA HandledAbout ==
    ASSUME PresenceIInv, HandleMessage
    PROVE  /\ Head(workerChannel) = workerChannel[1] /\ 1 \in DOMAIN workerChannel
           /\ \A i \in DOMAIN workerChannel' :
                i + 1 \in DOMAIN workerChannel /\ workerChannel'[i] = workerChannel[i + 1]
           /\ \A w \in Members : \A i \in About(w) : i = 1 \/ i - 1 \in About(w)'
           /\ \A w \in Members : \A i \in DOMAIN workerChannel' : LastAbout(w, i)' => LastAbout(w, i + 1)
  <1>1. workerChannel \in Seq(Message) /\ workerChannel # <<>> /\ workerChannel' = Tail(workerChannel)
    BY DEF HandleMessage, PresenceIInv, PresenceTypeOK
  <1>2. /\ Head(workerChannel) = workerChannel[1] /\ 1 \in DOMAIN workerChannel
        /\ DOMAIN workerChannel' = 1 .. Len(workerChannel) - 1
        /\ \A i \in DOMAIN workerChannel' :
             i + 1 \in DOMAIN workerChannel /\ workerChannel'[i] = workerChannel[i + 1]
    BY <1>1, TailProperties
  <1>3. DOMAIN workerChannel = 1 .. Len(workerChannel) /\ Len(workerChannel) \in Nat
    BY <1>1
  <1>4. ASSUME NEW w \in Members, NEW i \in About(w), i # 1 PROVE i - 1 \in About(w)'
    <2>1. i \in 2 .. Len(workerChannel) /\ workerChannel[i].worker = w
      BY <1>3, <1>4 DEF About
    <2>2. i - 1 \in DOMAIN workerChannel' /\ workerChannel'[i - 1] = workerChannel[i]
      BY <1>2, <1>3, <2>1
    <2> QED
      BY <2>1, <2>2 DEF About
  <1>5. ASSUME NEW w \in Members, NEW i \in DOMAIN workerChannel', LastAbout(w, i)'
        PROVE  LastAbout(w, i + 1)
    <2>1. i \in Nat /\ i + 1 \in About(w)
      BY <1>2, <1>3, <1>5 DEF LastAbout, About
    <2>2. \A j \in About(w) : j \in Nat /\ (j = 1 \/ j - 1 <= i)
      BY <1>3, <1>4, <1>5 DEF LastAbout, About
    <2> QED
      BY <2>1, <2>2 DEF LastAbout
  <1> QED
    BY <1>2, <1>4, <1>5

LEMMA SentFrames ==
    ASSUME PresenceIInv, NEW v \in Members,
           NEW type \in {"REGISTER", "HEARTBEAT", "STATUS", "UNREGISTER"}, SendFrame(v, type)
    PROVE  /\ \A w \in Members \ {v} : frames'[w] = frames[w]
           /\ DOMAIN frames'[v] = DOMAIN frames[v] \cup {Len(frames[v]) + 1}
           /\ \A k \in DOMAIN frames[v] : frames'[v][k] = frames[v][k]
           /\ frames'[v][Len(frames[v]) + 1].type = type
           /\ frames'[v][Len(frames[v]) + 1].worker = v
  <1>1. frames \in [Members -> Seq(Message)] /\ Event(type, v) \in Message
        /\ Event(type, v).type = type /\ Event(type, v).worker = v
    BY EventTyped DEF PresenceIInv, PresenceTypeOK
  <1>2. frames'[v] = Append(frames[v], Event(type, v))
        /\ \A w \in Members \ {v} : frames'[w] = frames[w]
    BY <1>1 DEF SendFrame
  <1> QED
    BY <1>1, <1>2, AppendFacts

(* A worker may start only when nothing of its earlier life is on its way. *)
LEMMA NothingPending ==
    ASSUME PresenceIInv, AgreeIInv, PromptListener, NEW w \in Members, MayStart(w)
    PROVE  /\ frames[w] = <<>>
           /\ \A i \in About(w) : workerChannel[i].type # "UNREGISTER"
           /\ w \in SocketMembers => About(w) = {}
  <1>1. frames[w] = <<>> /\ \A i \in DOMAIN workerChannel : workerChannel[i] # Event("UNREGISTER", w)
    BY DEF MayStart, Pending
  <1>2. \A i \in About(w) : workerChannel[i].type # "UNREGISTER"
    <2> SUFFICES ASSUME NEW i \in DOMAIN workerChannel, workerChannel[i].worker = w
                 PROVE  workerChannel[i].type # "UNREGISTER"
      BY DEF About
    <2>1. workerChannel[i] \in Message
      BY DEF PresenceIInv, PresenceTypeOK
    <2>2. workerChannel[i] = [type |-> workerChannel[i].type, worker |-> workerChannel[i].worker]
      BY <2>1 DEF Message
    <2> QED
      BY <1>1, <2>2 DEF Event
  <1> QED
    BY <1>1, <1>2 DEF AgreeIInv, Echo
(* A process that is not leaving has neither said nor sent its farewell.   *)
NotGone(w) == process'[w] \in {"off", "leaving"} \/
                /\ \A i \in About(w) : workerChannel[i].type # "UNREGISTER"
                /\ \A k \in DOMAIN frames[w] : frames[w][k].type # "UNREGISTER"

LEMMA QuietKeeps ==
    ASSUME PresenceIInv, AgreeIInv, UNCHANGED <<frames, workerChannel, members, active>>,
           \A w \in Members : process'[w] = process[w] \/ NotGone(w)
    PROVE  AgreeIInv'
  <1>1. \A w \in Members : About(w)' = About(w) /\ \A i \in DOMAIN workerChannel :
                              LastAbout(w, i)' <=> LastAbout(w, i)
    BY DEF About, LastAbout
  <1>2. RedisAgrees' /\ SocketAgrees' /\ Echo'
    BY <1>1, PresenceAssumption DEF AgreeIInv, RedisAgrees, SocketAgrees, Echo
  <1>3. OneLife'
    BY PresenceAssumption DEF AgreeIInv, OneLife, NotGone
  <1>4. Farewell'
    <2> SUFFICES ASSUME NEW i \in DOMAIN workerChannel, workerChannel[i].type = "UNREGISTER"
                 PROVE  process'[workerChannel[i].worker] \in {"off", "leaving"}
      BY DEF Farewell
    <2>1. workerChannel[i] \in Message
      BY DEF PresenceIInv, PresenceTypeOK
    <2>2. workerChannel[i].worker \in Members /\ i \in About(workerChannel[i].worker)
      BY <2>1 DEF Message, About
    <2> QED
      BY <2>2 DEF AgreeIInv, Farewell, NotGone
  <1> QED
    BY <1>2, <1>3, <1>4 DEF AgreeIInv

(* A worker on Redis publishes its event and changes the registry with it. *)
LEMMA RedisPublishes ==
    ASSUME PresenceIInv, AgreeIInv, NEW v \in Members \ SocketMembers,
           NEW type \in {"REGISTER", "UNREGISTER"},
           Publish(Event(type, v)), UNCHANGED <<frames, active>>,
           v \in members' <=> type = "REGISTER",
           \A w \in Members \ {v} : /\ w \in members' <=> w \in members
                                    /\ process'[w] = process[w],
           NotGone(v), type = "UNREGISTER" => process'[v] \in {"off", "leaving"}
    PROVE  AgreeIInv'
  <1>1. \A w \in Members \ {v} : \A i \in DOMAIN workerChannel' :
            LastAbout(w, i)' => i \in DOMAIN workerChannel /\ LastAbout(w, i)
    BY PublishedAbout DEF LastAbout, About
  <1>2. RedisAgrees'
    <2> SUFFICES ASSUME NEW w \in Members \ SocketMembers
                 PROVE  /\ frames'[w] = <<>>
                        /\ About(w)' = {} => (w \in active' <=> w \in members')
                        /\ \A i \in DOMAIN workerChannel' :
                             LastAbout(w, i)' => (workerChannel'[i].type = "REGISTER" <=> w \in members')
      BY DEF RedisAgrees
    <2>1. CASE w = v
      BY <2>1, PublishedAbout DEF AgreeIInv, RedisAgrees
    <2>2. CASE w # v
      BY <1>1, <2>2, PublishedAbout DEF AgreeIInv, RedisAgrees
    <2> QED
      BY <2>1, <2>2
  <1>3. SocketAgrees'
    BY PresenceAssumption DEF AgreeIInv, SocketAgrees
  <1>4. Echo'
    <2>1. \A w \in SocketMembers : /\ About(w)' = About(w) /\ (w \in members' <=> w \in members)
                                   /\ \A i \in About(w) : workerChannel'[i] = workerChannel[i]
      BY PublishedAbout, PresenceAssumption DEF About
    <2> QED
      BY <2>1 DEF AgreeIInv, Echo
  <1>5. OneLife'
    BY PresenceAssumption DEF AgreeIInv, OneLife
  <1>6. Farewell'
    <2> SUFFICES ASSUME NEW i \in DOMAIN workerChannel', workerChannel'[i].type = "UNREGISTER"
                 PROVE  process'[workerChannel'[i].worker] \in {"off", "leaving"}
      BY DEF Farewell
    <2>1. CASE i = Len(workerChannel) + 1
      BY <2>1, PublishedAbout
    <2>2. CASE i \in DOMAIN workerChannel
      <3>1. workerChannel'[i] = workerChannel[i] /\ workerChannel[i] \in Message
        BY <2>2, PublishedAbout DEF PresenceIInv, PresenceTypeOK
      <3>2. workerChannel[i].worker \in Members /\ i \in About(workerChannel[i].worker)
        BY <2>2, <3>1 DEF Message, About
      <3> QED
        BY <2>2, <3>1, <3>2 DEF AgreeIInv, Farewell, NotGone
    <2> QED
      BY <2>1, <2>2, PublishedAbout
  <1> QED
    BY <1>2, <1>3, <1>4, <1>5, <1>6 DEF AgreeIInv

(* A worker on a WebSocket sends a frame; nothing else knows yet.          *)
LEMMA SocketSends ==
    ASSUME PresenceIInv, AgreeIInv, NEW v \in SocketMembers,
           NEW type \in {"REGISTER", "HEARTBEAT", "STATUS", "UNREGISTER"},
           SendFrame(v, type), UNCHANGED <<workerChannel, members, active>>,
           \A w \in Members \ {v} : process'[w] = process[w],
           process'[v] = process[v] \/ NotGone(v),
           type = "UNREGISTER" => process'[v] \in {"off", "leaving"},
           type = "REGISTER" => frames[v] = <<>> /\ About(v) = {}
    PROVE  AgreeIInv'
  <1>0. v \in Members /\ frames[v] \in Seq(Message) /\ DOMAIN frames[v] = 1 .. Len(frames[v])
    BY PresenceAssumption DEF PresenceIInv, PresenceTypeOK
  <1>1. \A w \in Members : About(w)' = About(w) /\ \A i \in DOMAIN workerChannel :
                              LastAbout(w, i)' <=> LastAbout(w, i)
    BY DEF About, LastAbout
  <1>2. RedisAgrees' /\ SocketAgrees'
    BY <1>0, <1>1, SentFrames, PresenceAssumption DEF AgreeIInv, RedisAgrees, SocketAgrees
  <1>3. Echo'
    <2> SUFFICES ASSUME NEW w \in SocketMembers, NEW i \in About(w)
                 PROVE  /\ workerChannel[i].type = "UNREGISTER" /\ w \notin members
                        /\ \A k \in DOMAIN frames'[w] : frames'[w][k].type # "REGISTER"
      BY <1>1, PresenceAssumption DEF Echo
    <2>1. CASE w = v
      BY <1>0, <2>1, SentFrames DEF AgreeIInv, Echo
    <2>2. CASE w # v
      BY <1>0, <2>2, SentFrames, PresenceAssumption DEF AgreeIInv, Echo
    <2> QED
      BY <2>1, <2>2
  <1>4. OneLife'
    <2> SUFFICES ASSUME NEW w \in SocketMembers, NEW k \in DOMAIN frames'[w]
                 PROVE  /\ frames'[w][k].worker = w
                        /\ frames'[w][k].type = "REGISTER" => k = 1
                        /\ frames'[w][k].type = "UNREGISTER" => process'[w] \in {"off", "leaving"}
      BY DEF OneLife
    <2>1. CASE w # v
      BY <1>0, <2>1, SentFrames, PresenceAssumption DEF AgreeIInv, OneLife
    <2>2. CASE w = v /\ k = Len(frames[v]) + 1
      <3>1. frames'[v][k].worker = v /\ frames'[v][k].type = type
        BY <1>0, <2>2, SentFrames
      <3>2. type = "REGISTER" => k = 1
        BY <2>2
      <3> QED
        BY <2>2, <3>1, <3>2
    <2>3. CASE w = v /\ k \in DOMAIN frames[v]
      BY <1>0, <2>3, SentFrames DEF AgreeIInv, OneLife, NotGone
    <2> QED
      BY <1>0, <2>1, <2>2, <2>3, SentFrames
  <1>5. Farewell'
    <2> SUFFICES ASSUME NEW i \in DOMAIN workerChannel, workerChannel[i].type = "UNREGISTER"
                 PROVE  process'[workerChannel[i].worker] \in {"off", "leaving"}
      BY DEF Farewell
    <2>1. workerChannel[i] \in Message
      BY DEF PresenceIInv, PresenceTypeOK
    <2>2. workerChannel[i].worker \in Members /\ i \in About(workerChannel[i].worker)
      BY <2>1 DEF Message, About
    <2> QED
      BY <2>2 DEF AgreeIInv, Farewell, NotGone
  <1> QED
    BY <1>2, <1>3, <1>4, <1>5 DEF AgreeIInv

LEMMA StillHere ==
    ASSUME PresenceIInv, AgreeIInv, NEW w \in Members, process[w] \in {"registered", "up"}
    PROVE  NotGone(w)
  <1>1. \A i \in About(w) : workerChannel[i].type # "UNREGISTER"
    BY DEF About, AgreeIInv, Farewell
  <1>2. \A k \in DOMAIN frames[w] : frames[w][k].type # "UNREGISTER"
    <2>1. CASE w \in SocketMembers
      BY <2>1 DEF AgreeIInv, OneLife
    <2>2. CASE w \notin SocketMembers
      BY <2>2 DEF AgreeIInv, RedisAgrees
    <2> QED
      BY <2>1, <2>2
  <1> QED
    BY <1>1, <1>2 DEF NotGone

LEMMA AgreeInit == PresenceInit => AgreeIInv
  BY PresenceAssumption DEF PresenceInit, AgreeIInv, RedisAgrees, SocketAgrees, Echo, OneLife,
     Farewell, About, LastAbout

LEMMA StartAgrees ==
    ASSUME PresenceIInv, AgreeIInv, PromptListener, NEW w \in Members, Start(w)
    PROVE  AgreeIInv'
  <1>1. /\ frames[w] = <<>> /\ \A i \in About(w) : workerChannel[i].type # "UNREGISTER"
        /\ w \in SocketMembers => About(w) = {}
    BY NothingPending DEF Start
  <1>2. NotGone(w)
    BY <1>1 DEF NotGone
  <1>3. /\ \A v \in Members \ {w} : process'[v] = process[v]
        /\ UNCHANGED active
    BY DEF Start, report, PresenceIInv, PresenceTypeOK
  <1>4. CASE w \in SocketMembers
    BY <1>1, <1>2, <1>3, <1>4, SocketSends DEF Start
  <1>5. CASE w \notin SocketMembers
    <2>1. /\ Publish(Event("REGISTER", w)) /\ UNCHANGED frames
          /\ members' = members \cup {w}
      BY <1>5 DEF Start, Enter
    <2> QED
      BY <1>2, <1>3, <1>5, <2>1, RedisPublishes
  <1> QED
    BY <1>4, <1>5

LEMMA BecomeIdleAgrees ==
    ASSUME PresenceIInv, AgreeIInv, NEW w \in Members, BecomeIdle(w)
    PROVE  AgreeIInv'
  <1>1. NotGone(w)
    BY StillHere DEF BecomeIdle
  <1>2. /\ \A v \in Members \ {w} : process'[v] = process[v]
        /\ UNCHANGED <<active, workerChannel, members>>
    BY DEF BecomeIdle, Touch, report, PresenceIInv, PresenceTypeOK
  <1>3. CASE w \in SocketMembers
    BY <1>1, <1>2, <1>3, SocketSends DEF BecomeIdle
  <1>4. CASE w \notin SocketMembers
    BY <1>1, <1>2, <1>4, QuietKeeps DEF BecomeIdle
  <1> QED
    BY <1>3, <1>4

LEMMA BeatEndAgrees ==
    ASSUME PresenceIInv, AgreeIInv, NEW w \in Members, BeatEnd(w)
    PROVE  AgreeIInv'
  <1>1. UNCHANGED <<process, active, workerChannel, members>>
    BY DEF BeatEnd, Touch, report, registry
  <1>2. CASE w \in SocketMembers
    BY <1>1, <1>2, SocketSends DEF BeatEnd
  <1>3. CASE w \notin SocketMembers
    BY <1>1, <1>3, QuietKeeps DEF BeatEnd
  <1> QED
    BY <1>2, <1>3

LEMMA ShutDownAgrees ==
    ASSUME PresenceIInv, AgreeIInv, NEW w \in Members, ShutDown(w)
    PROVE  AgreeIInv'
  <1>1. NotGone(w)
    BY StillHere DEF ShutDown
  <1>2. /\ \A v \in Members \ {w} : process'[v] = process[v]
        /\ process'[w] = "leaving" /\ UNCHANGED active
    BY DEF ShutDown, report, PresenceIInv, PresenceTypeOK
  <1>3. CASE w \in SocketMembers
    BY <1>1, <1>2, <1>3, SocketSends DEF ShutDown, registry
  <1>4. CASE w \notin SocketMembers
    <2>1. /\ Publish(Event("UNREGISTER", w)) /\ UNCHANGED frames
          /\ members' = members \ {w}
      BY <1>4 DEF ShutDown, Leave
    <2> QED
      BY <1>1, <1>2, <1>4, <2>1, RedisPublishes
  <1> QED
    BY <1>3, <1>4

LEMMA ProcessEndsAgrees ==
    ASSUME PresenceIInv, AgreeIInv, NEW v \in Members, ProcessEnds(v)
    PROVE  AgreeIInv'
  <1>1. /\ \A w \in Members \ {v} : process'[w] = process[w] /\ frames'[w] = frames[w]
        /\ process'[v] = "off" /\ UNCHANGED <<active, workerChannel, members>>
    BY DEF ProcessEnds, report, registry, PresenceIInv, PresenceTypeOK
  <1>2. /\ DOMAIN frames'[v] \subseteq DOMAIN frames[v]
        /\ \A k \in DOMAIN frames'[v] : frames'[v][k] = frames[v][k]
        /\ frames[v] = <<>> => frames'[v] = <<>>
    <2>1. PICK n \in 0 .. Len(frames[v]) : frames' = [frames EXCEPT ![v] = SubSeq(@, 1, n)]
      BY DEF ProcessEnds
    <2>2. frames'[v] = SubSeq(frames[v], 1, n) /\ frames[v] \in Seq(Message)
      BY <2>1 DEF PresenceIInv, PresenceTypeOK
    <2> QED
      BY <2>2, PrefixProperties
  <1>3. \A w \in Members : About(w)' = About(w) /\ \A i \in DOMAIN workerChannel :
                              LastAbout(w, i)' <=> LastAbout(w, i)
    BY <1>1 DEF About, LastAbout
  <1>4. RedisAgrees'
    BY <1>1, <1>2, <1>3 DEF AgreeIInv, RedisAgrees
  <1>5. SocketAgrees' /\ Echo'
    BY <1>1, <1>2, <1>3, PresenceAssumption DEF AgreeIInv, SocketAgrees, Echo
  <1>6. OneLife'
    BY <1>1, <1>2, PresenceAssumption DEF AgreeIInv, OneLife
  <1>7. Farewell'
    <2> SUFFICES ASSUME NEW i \in DOMAIN workerChannel, workerChannel[i].type = "UNREGISTER"
                 PROVE  process'[workerChannel[i].worker] \in {"off", "leaving"}
      BY <1>1 DEF Farewell
    <2>1. workerChannel[i] \in Message
      BY DEF PresenceIInv, PresenceTypeOK
    <2>2. workerChannel[i].worker \in Members
      BY <2>1 DEF Message
    <2> QED
      BY <1>1, <2>2 DEF AgreeIInv, Farewell
  <1> QED
    BY <1>4, <1>5, <1>6, <1>7 DEF AgreeIInv

(* Metrics and registry change in one handler, at the head of the frames.  *)
LEMMA HandleFrameAgrees ==
    ASSUME PresenceIInv, AgreeIInv, NEW v \in Members, HandleFrame(v)
    PROVE  AgreeIInv'
  <1>1. v \in SocketMembers
    BY DEF HandleFrame, AgreeIInv, RedisAgrees
  <1>2. /\ \A w \in Members \ {v} : frames'[w] = frames[w]
        /\ Head(frames[v]) = frames[v][1] /\ 1 \in DOMAIN frames[v]
        /\ Head(frames[v]) \in Message
        /\ \A k \in DOMAIN frames'[v] :
             k # 0 /\ k + 1 # 1 /\ k + 1 \in DOMAIN frames[v] /\ frames'[v][k] = frames[v][k + 1]
    <2>1. frames[v] \in Seq(Message) /\ frames[v] # <<>> /\ frames'[v] = Tail(frames[v])
          /\ \A w \in Members \ {v} : frames'[w] = frames[w]
      BY DEF HandleFrame, PresenceIInv, PresenceTypeOK
    <2>2. \A k \in DOMAIN Tail(frames[v]) : k # 0 /\ k + 1 # 1
      BY <2>1, TailProperties
    <2> QED
      BY <2>1, <2>2, TailProperties
  <1>3. \A k \in DOMAIN frames'[v] : frames'[v][k].type # "REGISTER"
    BY <1>1, <1>2 DEF AgreeIInv, OneLife
  <1>4. OneLife'
    <2>1. process' = process
      BY DEF HandleFrame
    <2> SUFFICES ASSUME NEW w \in SocketMembers, NEW k \in DOMAIN frames'[w]
                 PROVE  /\ frames'[w][k].worker = w
                        /\ frames'[w][k].type = "REGISTER" => k = 1
                        /\ frames'[w][k].type = "UNREGISTER" => process'[w] \in {"off", "leaving"}
      BY DEF OneLife
    <2>2. CASE w = v
      BY <1>1, <1>2, <1>3, <2>1, <2>2 DEF AgreeIInv, OneLife
    <2>3. CASE w # v
      BY <1>2, <2>1, <2>3, PresenceAssumption DEF AgreeIInv, OneLife
    <2> QED
      BY <2>2, <2>3
  <1>5. /\ \A w \in Members \ {v} : /\ w \in active' <=> w \in active
                                    /\ w \in members' <=> w \in members
        /\ v \in active' <=> v \in members'
        /\ v \in members' => v \in members \/ Head(frames[v]).type = "REGISTER"
    BY <1>1, <1>2 DEF HandleFrame, Registered, Unregistered, Enter, Leave, Touch, report, registry,
       AgreeIInv, SocketAgrees, Message
  <1>6. SocketAgrees'
    BY <1>5, PresenceAssumption DEF AgreeIInv, SocketAgrees
  <1>7. process' = process
    BY DEF HandleFrame
  <1>8. CASE Head(frames[v]).type # "UNREGISTER"
    <2>1. workerChannel' = workerChannel
      BY <1>2, <1>8 DEF HandleFrame, Message
    <2>2. \A w \in Members : About(w)' = About(w) /\ \A i \in DOMAIN workerChannel :
                                LastAbout(w, i)' <=> LastAbout(w, i)
      BY <2>1 DEF About, LastAbout
    <2>3. RedisAgrees'
      BY <1>1, <1>2, <1>5, <2>1, <2>2 DEF AgreeIInv, RedisAgrees
    <2>4. Echo'
      BY <1>1, <1>2, <1>3, <1>5, <2>1, <2>2, PresenceAssumption DEF AgreeIInv, Echo
    <2>5. Farewell'
      BY <1>7, <2>1 DEF AgreeIInv, Farewell
    <2> QED
      BY <1>4, <1>6, <2>3, <2>4, <2>5 DEF AgreeIInv
  <1>9. CASE Head(frames[v]).type = "UNREGISTER"
    <2>1. Publish(Event("UNREGISTER", v)) /\ v \notin members'
      BY <1>9 DEF HandleFrame, Leave
    <2>2. process[v] \in {"off", "leaving"}
      BY <1>1, <1>2, <1>9 DEF AgreeIInv, OneLife
    <2>3. RedisAgrees'
      <3> SUFFICES ASSUME NEW w \in Members \ SocketMembers
                   PROVE  /\ frames'[w] = <<>>
                          /\ About(w)' = {} => (w \in active' <=> w \in members')
                          /\ \A i \in DOMAIN workerChannel' :
                               LastAbout(w, i)' => (workerChannel'[i].type = "REGISTER" <=> w \in members')
        BY DEF RedisAgrees
      <3>1. w # v /\ About(w)' = About(w)
        BY <1>1, <2>1, PublishedAbout
      <3>2. \A i \in DOMAIN workerChannel' :
              LastAbout(w, i)' => i \in DOMAIN workerChannel /\ LastAbout(w, i)
        BY <3>1 DEF LastAbout, About
      <3> QED
        BY <1>2, <1>5, <2>1, <3>1, <3>2, PublishedAbout DEF AgreeIInv, RedisAgrees
    <2>4. Echo'
      <3> SUFFICES ASSUME NEW w \in SocketMembers, NEW i \in About(w)'
                   PROVE  /\ workerChannel'[i].type = "UNREGISTER" /\ w \notin members'
                          /\ \A k \in DOMAIN frames'[w] : frames'[w][k].type # "REGISTER"
        BY DEF Echo
      <3>1. CASE w = v
        <4>1. i = Len(workerChannel) + 1 \/ i \in About(v)
          BY <1>1, <2>1, <3>1, PublishedAbout
        <4>2. workerChannel'[i].type = "UNREGISTER"
          BY <1>1, <2>1, <3>1, <4>1, PublishedAbout DEF AgreeIInv, Echo, About
        <4> QED
          BY <1>3, <2>1, <3>1, <4>2
      <3>2. CASE w # v
        <4>1. w \in Members /\ i \in About(w) /\ workerChannel'[i] = workerChannel[i]
          BY <1>1, <2>1, <3>2, PublishedAbout, PresenceAssumption DEF About
        <4> QED
          BY <1>2, <1>5, <3>2, <4>1 DEF AgreeIInv, Echo
      <3> QED
        BY <3>1, <3>2
    <2>5. Farewell'
      BY <1>1, <1>7, <2>1, <2>2, PublishedAbout DEF AgreeIInv, Farewell
    <2> QED
      BY <1>4, <1>6, <2>3, <2>4, <2>5 DEF AgreeIInv
  <1> QED
    BY <1>8, <1>9

(* The listener brings the metrics to what the registry says already.      *)
LEMMA HandleMessageAgrees ==
    ASSUME PresenceIInv, AgreeIInv, HandleMessage
    PROVE  AgreeIInv'
  <1> DEFINE event == Head(workerChannel)
  <1>1. /\ UNCHANGED <<process, frames, members>>
        /\ event \in Message /\ event.worker \in Members /\ event = workerChannel[1]
        /\ 1 \in DOMAIN workerChannel
        /\ event.type \in {"REGISTER", "UNREGISTER"}
    <2>1. event \in Message /\ event = workerChannel[1] /\ 1 \in DOMAIN workerChannel
      BY TailProperties DEF HandleMessage, PresenceIInv, PresenceTypeOK
    <2> QED
      BY <2>1 DEF HandleMessage, registry, Message, PresenceIInv, Channel
  <1>2. /\ active' = IF event.type = "REGISTER" THEN active \cup {event.worker}
                                               ELSE active \ {event.worker}
    BY DEF HandleMessage, Registered, Unregistered
  <1>3. 1 \in About(event.worker)
    BY <1>1 DEF About
  <1>4. RedisAgrees'
    <2> SUFFICES ASSUME NEW w \in Members \ SocketMembers
                 PROVE  /\ About(w)' = {} => (w \in active' <=> w \in members)
                        /\ \A i \in DOMAIN workerChannel' :
                             LastAbout(w, i)' => (workerChannel'[i].type = "REGISTER" <=> w \in members)
      BY <1>1 DEF AgreeIInv, RedisAgrees
    <2>1. ASSUME About(w)' = {} PROVE w \in active' <=> w \in members
      <3>1. \A i \in About(w) : i = 1
        BY <2>1, HandledAbout
      <3>2. CASE event.worker = w
        <4>1. LastAbout(w, 1)
          BY <1>3, <3>1, <3>2 DEF LastAbout
        <4> QED
          BY <1>1, <1>2, <3>2, <4>1 DEF AgreeIInv, RedisAgrees
      <3>3. CASE event.worker # w
        <4>1. About(w) = {}
          BY <1>1, <3>1, <3>3 DEF About
        <4> QED
          BY <1>2, <3>3, <4>1 DEF AgreeIInv, RedisAgrees
      <3> QED
        BY <3>2, <3>3
    <2>2. ASSUME NEW i \in DOMAIN workerChannel', LastAbout(w, i)'
          PROVE  workerChannel'[i].type = "REGISTER" <=> w \in members
      BY <2>2, HandledAbout DEF AgreeIInv, RedisAgrees
    <2> QED
      BY <2>1, <2>2
  <1>5. SocketAgrees'
    <2> SUFFICES ASSUME NEW w \in SocketMembers PROVE w \in active' <=> w \in members
      BY <1>1 DEF SocketAgrees
    <2>1. CASE event.worker = w
      <3>1. event.type = "UNREGISTER" /\ w \notin members
        BY <1>1, <1>3, <2>1 DEF AgreeIInv, Echo
      <3> QED
        BY <1>2, <2>1, <3>1
    <2>2. CASE event.worker # w
      BY <1>2, <2>2 DEF AgreeIInv, SocketAgrees
    <2> QED
      BY <2>1, <2>2
  <1>6. Echo'
    <2> SUFFICES ASSUME NEW w \in SocketMembers, NEW i \in About(w)'
                 PROVE  /\ workerChannel'[i].type = "UNREGISTER" /\ w \notin members
                        /\ \A k \in DOMAIN frames[w] : frames[w][k].type # "REGISTER"
      BY <1>1 DEF Echo
    <2>1. i + 1 \in About(w) /\ workerChannel'[i] = workerChannel[i + 1]
      BY HandledAbout DEF About
    <2> QED
      BY <2>1 DEF AgreeIInv, Echo
  <1>7. OneLife'
    BY <1>1 DEF AgreeIInv, OneLife
  <1>8. Farewell'
    BY <1>1, HandledAbout DEF AgreeIInv, Farewell
  <1> QED
    BY <1>4, <1>5, <1>6, <1>7, <1>8 DEF AgreeIInv

LEMMA AgreeStep ==
    ASSUME PromptListener
    PROVE  PresenceIInv /\ AgreeIInv /\ [PresenceNext]_presenceVars => AgreeIInv'
  <1> SUFFICES ASSUME PresenceIInv, AgreeIInv, [PresenceNext]_presenceVars
               PROVE  AgreeIInv'
    OBVIOUS
  <1>1. ASSUME NEW w \in Members, Start(w) PROVE AgreeIInv'
    BY <1>1, StartAgrees
  <1>2. ASSUME NEW w \in Members, BecomeIdle(w) PROVE AgreeIInv'
    BY <1>2, BecomeIdleAgrees
  <1>3. ASSUME NEW w \in Members, BeatBegin(w) PROVE AgreeIInv'
    <2>1. UNCHANGED <<process, frames, workerChannel, members, active>>
      BY <1>3 DEF BeatBegin, registry, report
    <2> QED
      BY <2>1, QuietKeeps
  <1>4. ASSUME NEW w \in Members, BeatEnd(w) PROVE AgreeIInv'
    BY <1>4, BeatEndAgrees
  <1>5. ASSUME NEW w \in Members, ShutDown(w) PROVE AgreeIInv'
    BY <1>5, ShutDownAgrees
  <1>6. ASSUME NEW w \in Members, ProcessEnds(w) PROVE AgreeIInv'
    BY <1>6, ProcessEndsAgrees
  <1>7. ASSUME NEW w \in Members, HandleFrame(w) PROVE AgreeIInv'
    BY <1>7, HandleFrameAgrees
  <1>8. ASSUME NEW w \in Members, WriteStatus(w) PROVE AgreeIInv'
    <2>1. UNCHANGED <<process, frames, workerChannel, members, active>>
      BY <1>8 DEF WriteStatus, Touch, report
    <2> QED
      BY <2>1, QuietKeeps
  <1>9. ASSUME NEW w \in Members, KeyExpires(w) PROVE AgreeIInv'
    <2>1. UNCHANGED <<process, frames, workerChannel, members, active>>
      BY <1>9 DEF KeyExpires, report
    <2> QED
      BY <2>1, QuietKeeps
  <1>10. CASE HandleMessage
    BY <1>10, HandleMessageAgrees
  <1>11. CASE UNCHANGED presenceVars
    <2>1. UNCHANGED <<process, frames, workerChannel, members, active>>
      BY <1>11 DEF presenceVars
    <2> QED
      BY <2>1, QuietKeeps
  <1> QED
    BY <1>1, <1>2, <1>3, <1>4, <1>5, <1>6, <1>7, <1>8, <1>9, <1>10, <1>11 DEF PresenceNext

LEMMA AgreeingMeansSound == PresenceIInv /\ AgreeIInv => PresenceInv
  <1> SUFFICES ASSUME PresenceIInv, AgreeIInv, workerChannel = <<>> PROVE active = members
    BY DEF PresenceIInv, PresenceInv, ReportMatchesRegistry
  <1>1. \A w \in Members : About(w) = {}
    BY DEF About
  <1>2. \A w \in Members : w \in active <=> w \in members
    BY <1>1 DEF AgreeIInv, RedisAgrees, SocketAgrees
  <1> QED
    BY <1>2 DEF PresenceIInv, PresenceTypeOK

(* When UNREGISTER and its echo are handled before the worker's next       *)
(* process starts, the workers the metrics report and those the scheduler  *)
(* finds (worker_cls.py:84, metrics.py:480) are the same once every event  *)
(* is handled.                                                             *)
THEOREM PresenceAgrees ==
    ASSUME PromptListener PROVE PresenceSpec => []PresenceInv
  <1>1. PresenceInit => PresenceIInv /\ AgreeIInv
    BY PresenceInitInv, AgreeInit
  <1>2. (PresenceIInv /\ AgreeIInv) /\ [PresenceNext]_presenceVars => (PresenceIInv /\ AgreeIInv)'
    BY PresenceStepInv, AgreeStep
  <1> QED
    BY <1>1, <1>2, AgreeingMeansSound, PTL DEF PresenceSpec

-----------------------------------------------------------------------------
(* StateSnapshot.  For every submission, any choice of the jobs that are    *)
(* sharded and any number of crashes: what a snapshot promises, provided    *)
(* that the writer thread ends before stop() gives up on it (JoinInTime).   *)

Statuses == {"PENDING", "DISPATCHED", "WAITING", "FAILED", "DONE"}
Entries == [children : SUBSET TaskIds, done : Nat]
DoneIn(table, j) == Job(j) \in DOMAIN table /\ table[Job(j)] = "DONE"
WasDone(table, j) ==
    Job(j) \in DOMAIN table /\ (table[Job(j)] = "DONE" \/ Job(j) \in undone)

(* A job that was DONE once stays so until the failure of another copy of  *)
(* it is handled, and if it is sharded it is not PENDING even then.        *)
Kept(j) ==
    /\ WasDone(tasks, j)
    /\ j \in Sharded => tasks[Job(j)] # "PENDING"

(* What the tables, and every snapshot of them, are at one moment.         *)
TablesOf(table, known, parents, children) ==
    /\ DOMAIN table \subseteq TaskIds /\ known \subseteq Jobs
    /\ \A t \in DOMAIN table : table[t] \in Statuses
    /\ DOMAIN parents \subseteq Sharded /\ children \subseteq TaskIds
    /\ \A j \in DOMAIN parents : parents[j] \in Entries
    /\ \A j \in Jobs : Job(j) \in DOMAIN table => j \in known /\ j \in created

CutOf(table, parents, children) ==
    /\ \A j \in Jobs : Job(j) \in DOMAIN table =>
          /\ table[Job(j)] = "DISPATCHED" => \A i \in JobNeeds[j] : WasDone(table, i)
          /\ table[Job(j)] = "DONE" /\ j \notin Sharded => Job(j) \in executed
    /\ \A j \in DOMAIN parents : parents[j].children \subseteq DOMAIN table \cap children

Good(snap) == /\ snap.ok = "whole"
              /\ TablesOf(snap.tasks, snap.parsed, snap.entry, snap.mapped)
              /\ CutOf(snap.tasks, snap.entry, snap.mapped)

Live == TablesOf(tasks, parsed, entry, mapped) /\ CutOf(tasks, entry, mapped)

Scalars ==
    /\ life \in {"down", "starting", "serving"} /\ crashes \in 0 .. MaxCrashes
    /\ stopping \in BOOLEAN /\ dirty \in BOOLEAN /\ created \subseteq Jobs
    /\ requeue \subseteq TaskIds /\ (requeue # {} => life = "starting")
    /\ pool \subseteq TaskIds /\ events \subseteq [task : TaskIds, ok : BOOLEAN]
    /\ fanouts \in [Jobs -> 0 .. MaxCrashes + 1]
    /\ out \in [TaskIds -> Nat] /\ executed \subseteq TaskIds /\ undone \subseteq TaskIds
    /\ fails \in 0 .. MaxTaskFailures
    /\ stopping => life = "serving" /\ crashes < MaxCrashes

(* Who reports success has run the task; a sharded job is not with workers *)
(* under its own id.                                                       *)
Reported ==
    /\ \A t \in TaskIds : Ended(t, TRUE) \in events => t \in executed
    /\ \A j \in Sharded : out[Job(j)] = 0 /\ \A ok \in BOOLEAN : Ended(Job(j), ok) \notin events

(* One thread flushes at a time, in a process that serves; when it has     *)
(* written the temporary file, that file is its snapshot.                  *)
Flushing ==
    /\ \A w \in Writers :
        /\ writer[w].at \in {"idle", "collected", "opened", "written", "ended"}
        /\ writer[w].at # "idle" => life = "serving"
        /\ writer[w].at \in {"collected", "opened", "written"} =>
              /\ Good(writer[w].snap)
              /\ \A j \in Jobs : DoneIn(writer[w].snap.tasks, j) => Kept(j)
        /\ writer[w].at = "written" => tmp = writer[w].snap
        /\ writer[w] = [at |-> writer[w].at, snap |-> writer[w].snap]
    /\ writer = [w \in Writers |-> writer[w]]
    /\ writer["stop"].at # "idle" => stopping /\ writer["loop"].at = "idle"
    /\ writer["loop"].at # "ended"

OnDisk ==
    /\ tmp.ok \in {"absent", "torn", "whole"}
    /\ file.ok = "absent" \/ Good(file)
    /\ Loadable /\ life # "down" => \A j \in Jobs : DoneIn(file.tasks, j) => Kept(j)

(* The records of what has happened only grow.                             *)
HistoryGrows == created \subseteq created' /\ executed \subseteq executed' /\ undone \subseteq undone'

SnapIInv == Scalars /\ Reported /\ Live /\ Flushing /\ OnDisk /\ PendingIsPooled

-----------------------------------------------------------------------------
(* Jobs and shards are told apart by their ids.                            *)
LEMMA Ids ==
    /\ \A j \in Jobs : Job(j) \in TaskIds /\ Job(j)[1] = j
    /\ \A i, j \in Jobs : Job(i) = Job(j) => i = j
    /\ \A j \in Sharded, g \in Gens : ShardIds(j, g) \subseteq TaskIds
    /\ \A i, j \in Jobs, g \in Gens : Job(i) \notin ShardIds(j, g)
    /\ \A t \in TaskIds : t[1] \in Jobs
  <1>1. \A j \in Jobs : Job(j) \in TaskIds /\ Job(j)[1] = j
    BY DEF Job, JobIds, TaskIds
  <1>2. \A i, j \in Jobs : Job(i) = Job(j) => i = j
    BY DEF Job
  <1>3. \A j \in Sharded, g \in Gens : ShardIds(j, g) \subseteq TaskIds
    BY DEF TaskIds
  <1>4. \A i, j \in Jobs, g \in Gens : Job(i) \notin ShardIds(j, g)
    <2> SUFFICES ASSUME NEW i \in Jobs, NEW j \in Jobs, NEW g \in Gens, NEW k \in 1 .. 2,
                        Job(i) = <<j, g, k>>
                 PROVE  FALSE
      BY DEF ShardIds
    <2> QED
      BY DEF Job
  <1>5. \A t \in TaskIds : t[1] \in Jobs
    BY SnapshotAssumption DEF Job, JobIds, ShardIds, TaskIds
  <1> QED
    BY <1>1, <1>2, <1>3, <1>4, <1>5

(* Events are told apart by the task they are about and by how it ended.   *)
LEMMA EventFacts ==
    /\ \A t \in TaskIds : /\ Ended(t, TRUE) \in [task : TaskIds, ok : BOOLEAN]
                          /\ Ended(t, FALSE) \in [task : TaskIds, ok : BOOLEAN]
    /\ \A t, u : \A x, y \in BOOLEAN : Ended(t, x) = Ended(u, y) => t = u /\ x = y
  <1>1. ASSUME NEW t \in TaskIds
        PROVE  /\ Ended(t, TRUE) \in [task : TaskIds, ok : BOOLEAN]
               /\ Ended(t, FALSE) \in [task : TaskIds, ok : BOOLEAN]
    BY DEF Ended
  <1>2. ASSUME NEW t, NEW u, NEW x \in BOOLEAN, NEW y \in BOOLEAN, Ended(t, x) = Ended(u, y)
        PROVE  t = u /\ x = y
    <2>1. Ended(t, x).task = t /\ Ended(u, y).task = u
      BY DEF Ended
    <2>2. Ended(t, x).ok = x /\ Ended(u, y).ok = y
      BY Zenon DEF Ended
    <2> QED
      BY <1>2, <2>1, <2>2, Zenon
  <1> QED
    BY <1>1, <1>2, Zenon

LEMMA SnapInitInv == SnapInit => SnapIInv
  <1> SUFFICES ASSUME SnapInit PROVE SnapIInv
    OBVIOUS
  <1>1. Scalars
    <2>1. 0 \in 0 .. MaxTaskFailures /\ 0 \in 0 .. MaxCrashes /\ 0 \in 0 .. MaxCrashes + 1 /\ 0 \in Nat
      BY SnapshotAssumption
    <2>2. fanouts \in [Jobs -> 0 .. MaxCrashes + 1] /\ out \in [TaskIds -> Nat]
      BY <2>1 DEF SnapInit
    <2> QED
      BY <2>1, <2>2 DEF SnapInit, Scalars
  <1>6. Reported
    BY Ids, SnapshotAssumption DEF SnapInit, Reported
  <1>2. Live
    BY DEF SnapInit, Empty, Live, TablesOf, CutOf
  <1>3. Flushing
    BY DEF SnapInit, Flushing, Idle, Writers
  <1>4. OnDisk
    BY DEF SnapInit, OnDisk, Absent, Loadable
  <1>5. PendingIsPooled
    BY DEF SnapInit, PendingIsPooled
  <1> QED
    BY <1>1, <1>2, <1>3, <1>4, <1>5, <1>6 DEF SnapIInv

(* More submitted jobs and more executions leave good tables good.         *)
LEMMA TablesGrow ==
    ASSUME NEW table, NEW known, NEW parents, NEW children,
           TablesOf(table, known, parents, children), CutOf(table, parents, children),
           HistoryGrows
    PROVE  TablesOf(table, known, parents, children)' /\ CutOf(table, parents, children)'
  <1>1. TablesOf(table, known, parents, children)'
    BY DEF TablesOf, HistoryGrows
  <1>2. CutOf(table, parents, children)'
    BY DEF CutOf, WasDone, HistoryGrows
  <1> QED
    BY <1>1, <1>2

LEMMA GoodGrows ==
    ASSUME NEW snap, Good(snap), HistoryGrows
    PROVE  Good(snap)'
  BY TablesGrow DEF Good

(* Steps of the orchestrator beside the flushing threads.                  *)
LEMMA DiskKept ==
    ASSUME SnapIInv, UNCHANGED disk, HistoryGrows,
           life = "serving" => life' = "serving", life' # "down" => life # "down",
           stopping => stopping',
           \A j \in Jobs : Kept(j) => Kept(j)'
    PROVE  Flushing' /\ OnDisk'
  <1>1. UNCHANGED <<writer, tmp, file>>
    BY DEF disk
  <1>2. \A w \in Writers : Good(writer[w].snap) => Good(writer[w].snap)'
    BY <1>1 DEF Good, TablesOf, CutOf, WasDone, HistoryGrows
  <1>3. Flushing'
    BY <1>1, <1>2 DEF SnapIInv, Flushing
  <1>4. Good(file) => Good(file)'
    BY <1>1, GoodGrows
  <1>5. OnDisk'
    BY <1>1, <1>4 DEF SnapIInv, OnDisk, Loadable
  <1> QED
    BY <1>3, <1>5

LEMMA ReportedKept ==
    ASSUME SnapIInv, UNCHANGED <<out, events>>, executed \subseteq executed'
    PROVE  Reported'
  BY DEF SnapIInv, Reported

LEMMA LiveKept ==
    ASSUME SnapIInv, UNCHANGED <<tasks, parsed, entry, mapped>>,
           HistoryGrows
    PROVE  Live'
  BY TablesGrow DEF SnapIInv, Live

-----------------------------------------------------------------------------
LEMMA RegisterJobsInv == SnapIInv /\ RegisterJobs => SnapIInv'
  <1> SUFFICES ASSUME SnapIInv, RegisterJobs PROVE SnapIInv'
    OBVIOUS
  <1>1. /\ UNCHANGED <<created, tasks, entry, mapped, requeue, fanouts, outside, disk, control, past>>
        /\ parsed' = Jobs /\ parsed = {}
    BY DEF RegisterJobs
  <1>2. Flushing' /\ OnDisk'
    BY <1>1, DiskKept DEF control, past, HistoryGrows, WasDone, Kept
  <1>3. Scalars' /\ Reported'
    BY <1>1, ReportedKept DEF SnapIInv, Scalars, control, outside, past
  <1>4. Live'
    BY <1>1 DEF SnapIInv, Live, TablesOf, CutOf, DoneIn, WasDone, past
  <1>5. PendingIsPooled'
    BY <1>1, SnapshotAssumption DEF SnapIInv, Live, TablesOf, PendingIsPooled
  <1> QED
    BY <1>2, <1>3, <1>4, <1>5 DEF SnapIInv

LEMMA CreateRecordInv ==
    ASSUME SnapIInv, NEW j \in Jobs, CreateRecord(j)
    PROVE  SnapIInv'
  <1>1. /\ created' = created \cup {j} /\ pool' = pool \cup {Job(j)}
        /\ tasks' = [t \in DOMAIN tasks \cup {Job(j)} |-> IF t = Job(j) THEN "PENDING" ELSE tasks[t]]
        /\ dirty' \in BOOLEAN /\ parsed = Jobs /\ j \notin created
        /\ UNCHANGED <<parsed, entry, mapped, requeue, fanouts, out, events, disk, life, crashes,
                       stopping, past>>
    BY DEF CreateRecord, SnapIInv, Scalars
  <1>2. Job(j) \notin DOMAIN tasks
    BY <1>1 DEF SnapIInv, Live, TablesOf
  <1>3. \A i \in Jobs : /\ WasDone(tasks, i) => WasDone(tasks, i)'
                        /\ Kept(i) => Kept(i)'
    BY <1>1, <1>2 DEF WasDone, Kept, past
  <1>4. Flushing' /\ OnDisk'
    BY <1>1, <1>3, DiskKept DEF past, HistoryGrows
  <1>5. Scalars' /\ Reported'
    BY <1>1, Ids, ReportedKept DEF SnapIInv, Scalars, past
  <1>6. TablesOf(tasks, parsed, entry, mapped)'
    BY <1>1, Ids DEF SnapIInv, Live, TablesOf, Statuses
  <1>7. CutOf(tasks, entry, mapped)'
    <2>1. ASSUME NEW i \in Jobs, Job(i) \in DOMAIN tasks'
          PROVE  /\ tasks'[Job(i)] = "DISPATCHED" => \A k \in JobNeeds[i] : WasDone(tasks, k)'
                 /\ tasks'[Job(i)] = "DONE" /\ i \notin Sharded => Job(i) \in executed'
      <3>1. CASE i = j
        BY <1>1, <3>1
      <3>2. CASE i # j
        <4>1. Job(i) # Job(j)
          BY <3>2, Ids
        <4>2. Job(i) \in DOMAIN tasks /\ tasks'[Job(i)] = tasks[Job(i)] /\ JobNeeds[i] \subseteq Jobs
          BY <1>1, <2>1, <4>1, SnapshotAssumption
        <4> QED
          BY <1>1, <1>3, <4>2 DEF SnapIInv, Live, CutOf, WasDone, past
      <3> QED
        BY <3>1, <3>2
    <2>2. \A i \in DOMAIN entry' : entry'[i].children \subseteq DOMAIN tasks' \cap mapped'
      BY <1>1 DEF SnapIInv, Live, CutOf
    <2> QED
      BY <1>1, <2>1, <2>2 DEF CutOf
  <1>8. PendingIsPooled'
    BY <1>1, Ids DEF SnapIInv, PendingIsPooled
  <1> QED
    BY <1>4, <1>5, <1>6, <1>7, <1>8 DEF SnapIInv, Live

(* A dispatch: the job had its dependencies done.                          *)
LEMMA DispatchWholeInv ==
    ASSUME SnapIInv, NEW j \in Jobs, DispatchWhole(j)
    PROVE  SnapIInv'
  <1>1. /\ pool' = pool \ {Job(j)}
        /\ tasks' = [tasks EXCEPT ![Job(j)] = "DISPATCHED"]
        /\ out' = [out EXCEPT ![Job(j)] = @ + 1]
        /\ UNCHANGED <<created, parsed, entry, mapped, requeue, fanouts, events, disk, control, past>>
        /\ Job(j) \in DOMAIN tasks /\ tasks[Job(j)] = "PENDING" /\ Job(j) \in TaskIds
    BY Ids DEF DispatchWhole, Dispatchable
  <1>2. \A i \in JobNeeds[j] : WasDone(tasks, i)
    BY <1>1 DEF DispatchWhole, Dispatchable, NeedsDone, WasDone, SnapIInv, Live, TablesOf
  <1>3. \A i \in Jobs : /\ WasDone(tasks, i) => WasDone(tasks, i)'
                        /\ i # j => Job(i) # Job(j)
                        /\ Kept(i) => Kept(i)'
    BY <1>1, Ids DEF WasDone, Kept, past, SnapIInv, Live, TablesOf
  <1>4. Flushing' /\ OnDisk'
    BY <1>1, <1>3, DiskKept DEF control, past, HistoryGrows
  <1>5. Scalars'
    BY <1>1 DEF SnapIInv, Scalars, control, past
  <1>10. Reported'
    <2>1. \A i \in Sharded : out'[Job(i)] = out[Job(i)]
      BY <1>1, <1>3, SnapshotAssumption DEF DispatchWhole, SnapIInv, Scalars
    <2> QED
      BY <1>1, <2>1 DEF SnapIInv, Reported, past
  <1>6. DOMAIN tasks' = DOMAIN tasks /\ \A t \in DOMAIN tasks : t # Job(j) => tasks'[t] = tasks[t]
    BY <1>1
  <1>7. TablesOf(tasks, parsed, entry, mapped)'
    BY <1>1, <1>6 DEF SnapIInv, Live, TablesOf, Statuses
  <1>8. CutOf(tasks, entry, mapped)'
    BY <1>1, <1>2, <1>3, <1>6, SnapshotAssumption DEF SnapIInv, Live, CutOf, WasDone, past
  <1>9. PendingIsPooled'
    BY <1>1, <1>3, <1>6, SnapshotAssumption DEF SnapIInv, PendingIsPooled, Live, TablesOf
  <1> QED
    BY <1>4, <1>5, <1>7, <1>8, <1>9, <1>10 DEF SnapIInv, Live

(* A fan-out: its shards are recorded and mapped in the same step.         *)
LEMMA DispatchShardsInv ==
    ASSUME SnapIInv, NEW j \in Jobs, DispatchShards(j)
    PROVE  SnapIInv'
  <1> DEFINE shards == ShardIds(j, fanouts[j] + 1)
  <1>1. /\ pool' = pool \ {Job(j)} /\ fanouts[j] + 1 \in Gens /\ j \in Sharded
        /\ tasks' = [t \in DOMAIN tasks \cup shards |->
                        IF t \in shards \cup {Job(j)} THEN "DISPATCHED" ELSE tasks[t]]
        /\ entry' = [i \in DOMAIN entry \cup {j} |->
                        IF i = j THEN [children |-> shards, done |-> 0] ELSE entry[i]]
        /\ mapped' = mapped \cup shards
        /\ out' = [t \in TaskIds |-> IF t \in shards THEN out[t] + 1 ELSE out[t]]
        /\ fanouts' = [fanouts EXCEPT ![j] = @ + 1]
        /\ UNCHANGED <<created, parsed, requeue, events, disk, control, past>>
        /\ Job(j) \in DOMAIN tasks /\ tasks[Job(j)] = "PENDING"
    BY DEF DispatchShards, Dispatchable
  <1>2. /\ shards \subseteq TaskIds /\ \A i \in Jobs : Job(i) \notin shards
    BY <1>1, Ids
  <1>3. \A i \in JobNeeds[j] : WasDone(tasks, i)
    BY <1>1 DEF DispatchShards, Dispatchable, NeedsDone, WasDone, SnapIInv, Live, TablesOf
  <1>4. \A i \in Jobs : /\ Job(i) \in DOMAIN tasks' <=> Job(i) \in DOMAIN tasks
                        /\ i # j /\ Job(i) \in DOMAIN tasks => tasks'[Job(i)] = tasks[Job(i)]
                        /\ i = j => tasks'[Job(i)] = "DISPATCHED"
    BY <1>1, <1>2, Ids
  <1>5. \A i \in Jobs : /\ WasDone(tasks, i) => WasDone(tasks, i)'
                        /\ Kept(i) => Kept(i)'
    BY <1>1, <1>4 DEF WasDone, Kept, past
  <1>6. Flushing' /\ OnDisk'
    BY <1>1, <1>5, DiskKept DEF control, past, HistoryGrows
  <1>11. Reported'
    <2>1. \A i \in Sharded : out'[Job(i)] = out[Job(i)]
      BY <1>1, <1>2, Ids, SnapshotAssumption
    <2> QED
      BY <1>1, <2>1 DEF SnapIInv, Reported, past
  <1>7. Scalars'
    <2>1. fanouts' \in [Jobs -> 0 .. MaxCrashes + 1] /\ out' \in [TaskIds -> Nat]
      BY <1>1, SnapshotAssumption DEF SnapIInv, Scalars, Gens
    <2> QED
      BY <1>1, <2>1 DEF SnapIInv, Scalars, control, past
  <1>8. TablesOf(tasks, parsed, entry, mapped)'
    <2>1. /\ DOMAIN tasks' \subseteq TaskIds /\ \A t \in DOMAIN tasks' : tasks'[t] \in Statuses
          /\ mapped' \subseteq TaskIds /\ parsed' \subseteq Jobs
      BY <1>1, <1>2 DEF SnapIInv, Live, TablesOf, Statuses
    <2>2. DOMAIN entry' \subseteq Sharded /\ \A i \in DOMAIN entry' : entry'[i] \in Entries
      BY <1>1, <1>2 DEF SnapIInv, Live, TablesOf, Entries
    <2> QED
      BY <1>1, <1>4, <2>1, <2>2 DEF SnapIInv, Live, TablesOf
  <1>9. CutOf(tasks, entry, mapped)'
    <2>1. ASSUME NEW i \in Jobs, Job(i) \in DOMAIN tasks'
          PROVE  /\ tasks'[Job(i)] = "DISPATCHED" => \A k \in JobNeeds[i] : WasDone(tasks, k)'
                 /\ tasks'[Job(i)] = "DONE" /\ i \notin Sharded => Job(i) \in executed'
      BY <1>1, <1>3, <1>4, <1>5, <2>1, SnapshotAssumption DEF SnapIInv, Live, CutOf, WasDone, past
    <2>2. \A i \in DOMAIN entry' : entry'[i].children \subseteq DOMAIN tasks' \cap mapped'
      BY <1>1 DEF SnapIInv, Live, CutOf
    <2> QED
      BY <1>1, <2>1, <2>2 DEF CutOf
  <1>10. PendingIsPooled'
    BY <1>1, <1>4, Ids DEF SnapIInv, PendingIsPooled, Live, TablesOf
  <1> QED
    BY <1>6, <1>7, <1>8, <1>9, <1>10, <1>11 DEF SnapIInv, Live

(* A retried shard goes to a worker of its own.                            *)
LEMMA DispatchRetriedInv ==
    ASSUME SnapIInv, NEW t \in TaskIds, DispatchRetried(t)
    PROVE  SnapIInv'
  <1>1. /\ pool' = pool \ {t} /\ t \in DOMAIN tasks /\ tasks[t] = "PENDING"
        /\ tasks' = [tasks EXCEPT ![t] = "DISPATCHED"]
        /\ out' = [out EXCEPT ![t] = @ + 1]
        /\ UNCHANGED <<created, parsed, entry, mapped, requeue, fanouts, events, disk, control, past>>
        /\ \A i \in Jobs : Job(i) # t
    BY DEF DispatchRetried, JobIds
  <1>2. DOMAIN tasks' = DOMAIN tasks /\ \A i \in Jobs : tasks'[Job(i)] = tasks[Job(i)]
    BY <1>1
  <1>3. \A i \in Jobs : Kept(i) => Kept(i)'
    BY <1>1, <1>2 DEF WasDone, Kept, past
  <1>4. Flushing' /\ OnDisk'
    BY <1>1, <1>3, DiskKept DEF control, past, HistoryGrows
  <1>5. Scalars'
    BY <1>1 DEF SnapIInv, Scalars, control, past
  <1>6. Reported'
    <2>1. \A i \in Sharded : out'[Job(i)] = out[Job(i)]
      BY <1>1, Ids, SnapshotAssumption DEF SnapIInv, Scalars
    <2> QED
      BY <1>1, <2>1 DEF SnapIInv, Reported, past
  <1>7. TablesOf(tasks, parsed, entry, mapped)'
    BY <1>1, <1>2 DEF SnapIInv, Live, TablesOf, Statuses
  <1>8. CutOf(tasks, entry, mapped)'
    BY <1>1, <1>2, SnapshotAssumption DEF SnapIInv, Live, CutOf, DoneIn, WasDone, past
  <1>9. PendingIsPooled'
    BY <1>1, <1>2 DEF SnapIInv, PendingIsPooled, Live, TablesOf
  <1> QED
    BY <1>4, <1>5, <1>6, <1>7, <1>8, <1>9 DEF SnapIInv, Live

LEMMA DropUnknownInv ==
    ASSUME SnapIInv, NEW t \in TaskIds, DropUnknown(t)
    PROVE  SnapIInv'
  <1>1. /\ pool' = pool \ {t} /\ t \notin DOMAIN tasks
        /\ UNCHANGED <<memory, out, events, disk, control, past>>
    BY DEF DropUnknown
  <1>2. Flushing' /\ OnDisk'
    BY <1>1, DiskKept DEF control, memory, past, HistoryGrows, WasDone, Kept
  <1>3. Scalars' /\ Reported' /\ Live' /\ PendingIsPooled'
    BY <1>1, LiveKept, ReportedKept DEF SnapIInv, Scalars, PendingIsPooled, control, memory, past, HistoryGrows
  <1> QED
    BY <1>2, <1>3 DEF SnapIInv

(* An execution ends, one way or the other.                                *)
LEMMA WorkerStopsInv ==
    ASSUME SnapIInv, NEW t \in TaskIds, WorkerEnds(t) \/ WorkerFails(t)
    PROVE  SnapIInv'
  <1>1. /\ out' = [out EXCEPT ![t] = @ - 1] /\ out[t] > 0
        /\ UNCHANGED <<memory, pool, disk, control, undone>>
    BY DEF WorkerEnds, WorkerFails
  <1>2. /\ events' \subseteq events \cup {Ended(t, TRUE), Ended(t, FALSE)}
        /\ executed \subseteq executed' /\ executed' \subseteq executed \cup {t}
        /\ Ended(t, TRUE) \in events' => Ended(t, TRUE) \in events \/ t \in executed'
        /\ fails' \in 0 .. MaxTaskFailures
    <2>1. CASE WorkerEnds(t)
      BY <2>1 DEF WorkerEnds, SnapIInv, Scalars
    <2>2. CASE WorkerFails(t)
      <3>1. events' \subseteq events \cup {Ended(t, FALSE)} /\ executed' = executed
        BY <2>2 DEF WorkerFails
      <3>2. Ended(t, TRUE) # Ended(t, FALSE)
        BY EventFacts, Zenon
      <3>3. fails' \in 0 .. MaxTaskFailures
        BY <2>2, SnapshotAssumption DEF WorkerFails, SnapIInv, Scalars
      <3> QED
        BY <3>1, <3>2, <3>3
    <2> QED
      BY <2>1, <2>2
  <1>4. Flushing' /\ OnDisk'
    BY <1>1, <1>2, DiskKept DEF control, memory, HistoryGrows, WasDone, Kept
  <1>5. out' \in [TaskIds -> Nat] /\ events' \subseteq [task : TaskIds, ok : BOOLEAN]
    <2>1. out' \in [TaskIds -> Nat]
      BY <1>1 DEF SnapIInv, Scalars
    <2>2. /\ Ended(t, TRUE) \in [task : TaskIds, ok : BOOLEAN]
          /\ Ended(t, FALSE) \in [task : TaskIds, ok : BOOLEAN]
      BY EventFacts, Zenon
    <2> QED
      BY <1>2, <2>1, <2>2 DEF SnapIInv, Scalars
  <1>6. Scalars'
    BY <1>1, <1>2, <1>5 DEF SnapIInv, Scalars, control, memory
  <1>7. Reported'
    <2>1. \A j \in Sharded : t # Job(j)
      BY <1>1 DEF SnapIInv, Reported
    <2>2. \A j \in Sharded : out'[Job(j)] = 0
      BY <1>1, <2>1, Ids, SnapshotAssumption DEF SnapIInv, Scalars, Reported
    <2>3. ASSUME NEW j \in Sharded, NEW x \in BOOLEAN PROVE Ended(Job(j), x) \notin events'
      <3>1. Ended(Job(j), x) \notin {Ended(t, TRUE), Ended(t, FALSE)}
        BY <2>1, EventFacts, Zenon
      <3> QED
        BY <1>2, <3>1 DEF SnapIInv, Reported
    <2>4. ASSUME NEW u \in TaskIds, Ended(u, TRUE) \in events' PROVE u \in executed'
      <3>1. u # t => Ended(u, TRUE) \notin {Ended(t, TRUE), Ended(t, FALSE)}
        BY EventFacts, Zenon
      <3> QED
        BY <1>2, <2>4, <3>1 DEF SnapIInv, Reported
    <2> QED
      BY <2>2, <2>3, <2>4 DEF Reported
  <1>8. Live' /\ PendingIsPooled'
    BY <1>1, <1>2, LiveKept DEF SnapIInv, PendingIsPooled, memory, HistoryGrows
  <1> QED
    BY <1>4, <1>6, <1>7, <1>8 DEF SnapIInv

(* The end of a task, and of the parent whose last shard it is.            *)
LEMMA TaskEndedInv ==
    ASSUME SnapIInv, NEW t \in TaskIds, TaskEnded(t)
    PROVE  SnapIInv'
  <1>1. PICK completes \in BOOLEAN :
          /\ completes => t[1] \in DOMAIN entry
          /\ tasks' = [u \in DOMAIN tasks |->
                          IF u = t \/ (completes /\ u = Job(t[1])) THEN "DONE" ELSE tasks[u]]
    <2> DEFINE c == /\ t \in mapped /\ t[1] \in DOMAIN entry
                    /\ Counted(t)[t[1]].done >= Cardinality(entry[t[1]].children)
    <2>1. c \in BOOLEAN /\ (c => t[1] \in DOMAIN entry)
      OBVIOUS
    <2>2. tasks' = [u \in DOMAIN tasks |-> IF u = t \/ (c /\ u = Job(t[1])) THEN "DONE" ELSE tasks[u]]
      BY DEF TaskEnded
    <2> HIDE DEF c
    <2> QED
      BY <2>1, <2>2
  <1>2. /\ Ended(t, TRUE) \in events /\ events' = events \ {Ended(t, TRUE)} /\ pool' = pool \ {t}
        /\ entry' = Counted(t) /\ dirty' = TRUE
        /\ UNCHANGED <<created, parsed, mapped, requeue, fanouts, out, disk, life, crashes, stopping, past>>
    BY DEF TaskEnded
  <1>3. /\ DOMAIN tasks' = DOMAIN tasks
        /\ \A u \in DOMAIN tasks : tasks'[u] = tasks[u] \/ tasks'[u] = "DONE"
        /\ t \in DOMAIN tasks => tasks'[t] = "DONE"
    BY <1>1
  <1>4. \A i \in Jobs : /\ WasDone(tasks, i) => WasDone(tasks, i)'
                        /\ Kept(i) => Kept(i)'
    BY <1>2, <1>3 DEF WasDone, Kept, past
  <1>5. Flushing' /\ OnDisk'
    BY <1>2, <1>4, DiskKept DEF past, HistoryGrows
  <1>6. Scalars' /\ Reported'
    BY <1>2 DEF SnapIInv, Scalars, Reported, past
  <1>7. /\ DOMAIN entry' = DOMAIN entry
        /\ \A i \in DOMAIN entry : entry'[i] \in Entries /\ entry'[i].children = entry[i].children
    <2>1. CASE entry' = entry
      BY <2>1 DEF SnapIInv, Live, TablesOf
    <2>2. CASE entry' = [entry EXCEPT ![t[1]].done = @ + 1] /\ t[1] \in DOMAIN entry
      <3>1. \A i \in DOMAIN entry : entry[i] \in Entries
        BY DEF SnapIInv, Live, TablesOf
      <3>2. /\ DOMAIN entry' = DOMAIN entry /\ \A i \in DOMAIN entry : i # t[1] => entry'[i] = entry[i]
            /\ entry'[t[1]] = [entry[t[1]] EXCEPT !.done = @ + 1]
        BY <2>2
      <3>3. entry[t[1]] \in [children : SUBSET TaskIds, done : Nat]
        BY <2>2, <3>1 DEF Entries
      <3>4. /\ entry'[t[1]] \in [children : SUBSET TaskIds, done : Nat]
            /\ entry'[t[1]].children = entry[t[1]].children
        BY <3>2, <3>3
      <3> QED
        BY <3>1, <3>2, <3>4 DEF Entries
    <2> QED
      BY <1>2, <2>1, <2>2 DEF Counted
  <1>8. TablesOf(tasks, parsed, entry, mapped)'
    BY <1>2, <1>3, <1>7 DEF SnapIInv, Live, TablesOf, Statuses
  <1>9. CutOf(tasks, entry, mapped)'
    <2>1. ASSUME NEW i \in Jobs, Job(i) \in DOMAIN tasks', tasks'[Job(i)] = "DISPATCHED"
          PROVE  \A k \in JobNeeds[i] : WasDone(tasks, k)'
      BY <1>2, <1>3, <1>4, <2>1, SnapshotAssumption DEF SnapIInv, Live, CutOf, WasDone, past
    <2>2. ASSUME NEW i \in Jobs, Job(i) \in DOMAIN tasks', tasks'[Job(i)] = "DONE", i \notin Sharded
          PROVE  Job(i) \in executed'
      <3>1. CASE Job(i) = t
        BY <1>2, <3>1 DEF SnapIInv, Reported, past
      <3>2. CASE Job(i) # t
        <4>1. t[1] \in DOMAIN entry => Job(i) # Job(t[1])
          BY <2>2, Ids DEF SnapIInv, Live, TablesOf
        <4>2. tasks'[Job(i)] = tasks[Job(i)]
          BY <1>1, <1>3, <2>2, <3>2, <4>1
        <4> QED
          BY <1>2, <1>3, <2>2, <4>2 DEF SnapIInv, Live, CutOf, WasDone, past
      <3> QED
        BY <3>1, <3>2
    <2>3. \A i \in DOMAIN entry' : entry'[i].children \subseteq DOMAIN tasks' \cap mapped'
      BY <1>2, <1>3, <1>7 DEF SnapIInv, Live, CutOf
    <2> QED
      BY <1>2, <2>1, <2>2, <2>3 DEF CutOf
  <1>10. PendingIsPooled'
    BY <1>2, <1>3 DEF SnapIInv, PendingIsPooled
  <1> QED
    BY <1>5, <1>6, <1>8, <1>9, <1>10 DEF SnapIInv, Live

(* A failure: what was DONE and no longer is, is recorded as undone.       *)
LEMMA TaskFailedInv ==
    ASSUME SnapIInv, NEW t \in TaskIds, TaskFailed(t)
    PROVE  SnapIInv'
  <1>1. /\ Ended(t, FALSE) \in events /\ events' = events \ {Ended(t, FALSE)}
        /\ undone' = undone \cup {u \in DOMAIN tasks : tasks[u] = "DONE" /\ tasks'[u] # "DONE"}
        /\ UNCHANGED <<created, parsed, entry, mapped, requeue, fanouts, out, disk, life, crashes,
                       stopping, executed, fails>>
    BY DEF TaskFailed
  <1>2. dirty' \in BOOLEAN
    BY Zenon DEF TaskFailed, SnapIInv, Scalars
  <1>3. PICK back \in BOOLEAN :
          /\ pool' = IF back THEN pool \cup {t} ELSE pool \ {t}
          /\ tasks' = [u \in DOMAIN tasks |->
               CASE u = t -> IF back THEN "PENDING" ELSE "FAILED"
                 [] u # t /\ t \in mapped /\ u = Job(t[1]) -> IF back THEN "WAITING" ELSE "FAILED"
                 [] OTHER -> tasks[u]]
    BY Zenon DEF TaskFailed
  <1>4. /\ DOMAIN tasks' = DOMAIN tasks
        /\ \A u \in DOMAIN tasks : \/ u = t /\ tasks'[u] = IF back THEN "PENDING" ELSE "FAILED"
                                   \/ u # t /\ tasks'[u] \in {tasks[u], "WAITING", "FAILED"}
    BY <1>3
  <1>5. \A j \in Sharded : Job(j) # t
    BY <1>1, Zenon DEF SnapIInv, Reported
  <1>6. \A j \in Jobs : /\ WasDone(tasks, j) => WasDone(tasks, j)'
                        /\ Kept(j) => Kept(j)'
    BY <1>1, <1>4, <1>5 DEF WasDone, Kept
  <1>7. Flushing' /\ OnDisk'
    BY <1>1, <1>6, DiskKept DEF HistoryGrows
  <1>8. Scalars'
    <2>1. undone' \subseteq TaskIds /\ pool' \subseteq TaskIds
      BY <1>1, <1>3 DEF SnapIInv, Scalars, Live, TablesOf
    <2> QED
      BY <1>1, <1>2, <2>1 DEF SnapIInv, Scalars
  <1>9. Reported'
    BY <1>1 DEF SnapIInv, Reported
  <1>10. TablesOf(tasks, parsed, entry, mapped)'
    <2>1. \A u \in DOMAIN tasks' : tasks'[u] \in Statuses
      BY <1>4 DEF SnapIInv, Live, TablesOf, Statuses
    <2> QED
      BY <1>1, <1>4, <2>1 DEF SnapIInv, Live, TablesOf
  <1>11. CutOf(tasks, entry, mapped)'
    <2>1. \A j \in Jobs : Job(j) \in DOMAIN tasks' /\ tasks'[Job(j)] \in {"DISPATCHED", "DONE"} =>
              tasks[Job(j)] = tasks'[Job(j)]
      BY <1>4
    <2> QED
      BY <1>1, <1>4, <1>6, <2>1, SnapshotAssumption DEF SnapIInv, Live, CutOf
  <1>12. PendingIsPooled'
    BY <1>1, <1>3, <1>4 DEF SnapIInv, PendingIsPooled
  <1> QED
    BY <1>7, <1>8, <1>9, <1>10, <1>11, <1>12 DEF SnapIInv, Live

-----------------------------------------------------------------------------
(* The flushing threads: nothing but the files changes.                    *)
LEMMA FlushKeeps ==
    ASSUME SnapIInv, UNCHANGED <<memory, outside, life, crashes, stopping, past>>, dirty' \in BOOLEAN
    PROVE  Scalars' /\ Reported' /\ Live' /\ PendingIsPooled'
  <1>1. Scalars' /\ Reported'
    BY ReportedKept DEF SnapIInv, Scalars, memory, outside, past
  <1>2. Live' /\ PendingIsPooled'
    BY LiveKept DEF SnapIInv, PendingIsPooled, memory, outside, past, HistoryGrows
  <1> QED
    BY <1>1, <1>2

LEMMA CollectInv ==
    ASSUME SnapIInv, JoinInTime, LoopRound \/ FinalFlush
    PROVE  SnapIInv'
  <1>1. PICK w \in Writers :
          /\ writer' = [writer EXCEPT ![w] = [at |-> "collected", snap |-> Snapshot]]
          /\ writer["loop"].at = "idle" /\ (w = "stop" => stopping)
          /\ w = "loop" => writer["stop"].at = "idle"
    BY DEF LoopRound, FinalFlush, Collect, Writers, SnapIInv, Flushing
  <1>2. /\ UNCHANGED <<memory, outside, life, crashes, stopping, past>> /\ dirty' \in BOOLEAN
        /\ UNCHANGED <<tmp, file>> /\ life = "serving"
    BY DEF LoopRound, FinalFlush, control, SnapIInv, Scalars
  <1>3. Scalars' /\ Reported' /\ Live' /\ PendingIsPooled'
    BY <1>2, FlushKeeps
  <1>4. /\ Good(Snapshot)' /\ Snapshot.tasks = tasks /\ Snapshot' = Snapshot
        /\ \A j \in Jobs : DoneIn(tasks, j) => Kept(j)
    BY <1>2, <1>3 DEF Snapshot, Good, Live, memory, DoneIn, WasDone, Kept
  <1>5. /\ writer'[w] = [at |-> "collected", snap |-> Snapshot]
        /\ \A v \in Writers : v # w => writer'[v] = writer[v]
        /\ writer' = [v \in Writers |-> writer'[v]]
    BY <1>1 DEF SnapIInv, Flushing
  <1>6. Flushing'
    <2>1. /\ tasks' = tasks /\ created' = created /\ executed' = executed /\ undone' = undone
          /\ tmp' = tmp /\ stopping' = stopping /\ life' = "serving"
      BY <1>2 DEF memory, past
    <2>2. ASSUME NEW v \in Writers
          PROVE /\ writer'[v].at \in {"idle", "collected", "opened", "written", "ended"}
                /\ writer'[v].at \in {"collected", "opened", "written"} =>
                      /\ Good(writer[v].snap)'
                      /\ \A j \in Jobs : DoneIn(writer'[v].snap.tasks, j) => Kept(j)'
                /\ writer'[v].at = "written" => tmp' = writer'[v].snap
                /\ writer'[v] = [at |-> writer'[v].at, snap |-> writer'[v].snap]
      <3>1. CASE v = w
        BY <1>4, <1>5, <2>1, <3>1 DEF Good, Snapshot, TablesOf, CutOf, WasDone, Kept
      <3>2. CASE v # w
        BY <1>5, <2>1, <3>2 DEF SnapIInv, Flushing, Good, TablesOf, CutOf, WasDone, Kept
      <3> QED
        BY <3>1, <3>2
    <2>3. /\ writer'["stop"].at # "idle" => stopping' /\ writer'["loop"].at = "idle"
          /\ writer'["loop"].at # "ended"
      BY <1>1, <1>5, <2>1 DEF SnapIInv, Flushing, Writers
    <2> QED
      BY <1>5, <2>1, <2>2, <2>3 DEF Flushing
  <1>7. OnDisk'
    <2>1. /\ tasks' = tasks /\ created' = created /\ executed' = executed /\ undone' = undone
      BY <1>2 DEF memory, past
    <2> QED
      BY <1>2, <2>1 DEF SnapIInv, OnDisk, Loadable, Good, TablesOf, CutOf, WasDone, Kept
  <1> QED
    BY <1>3, <1>6, <1>7 DEF SnapIInv

LEMMA WriterStepInv ==
    ASSUME SnapIInv, NEW w \in Writers, WriterStep(w)
    PROVE  SnapIInv'
  <1>1. UNCHANGED <<memory, outside, life, crashes, stopping, past>> /\ dirty' \in BOOLEAN
    BY DEF WriterStep, OpenTmp, WriteTmp, ReplaceFile, control, SnapIInv, Scalars
  <1>2. Scalars' /\ Reported' /\ Live' /\ PendingIsPooled'
    BY <1>1, FlushKeeps
  <1>3. /\ writer[w].at \in {"collected", "opened", "written"} /\ Good(writer[w].snap)
        /\ \A j \in Jobs : DoneIn(writer[w].snap.tasks, j) => Kept(j)
        /\ \A v \in Writers : writer[v] = [at |-> writer[v].at, snap |-> writer[v].snap]
        /\ \A v \in Writers : v # w => writer[v].at \notin {"collected", "opened", "written"}
        /\ writer = [v \in Writers |-> writer[v]]
    BY DEF WriterStep, OpenTmp, WriteTmp, ReplaceFile, SnapIInv, Flushing, Writers
  <1>4. /\ writer' = [v \in Writers |-> writer'[v]]
        /\ \A v \in Writers \ {w} : writer'[v] = writer[v]
        /\ writer'[w] = [at |-> writer'[w].at, snap |-> writer'[w].snap]
        /\ \/ writer'[w].at \in {"idle", "ended"}
           \/ writer'[w].at \in {"opened", "written"} /\ writer'[w].snap = writer[w].snap
        /\ writer'[w].at = "ended" => w = "stop"
    <2>1. CASE OpenTmp(w)
      BY <1>3, <2>1 DEF OpenTmp
    <2>2. CASE WriteTmp(w)
      BY <1>3, <2>2 DEF WriteTmp
    <2>3. CASE ReplaceFile(w)
      BY <1>3, <2>3 DEF ReplaceFile, Idle, Absent
    <2> QED
      BY <2>1, <2>2, <2>3 DEF WriterStep
  <1>5. UNCHANGED <<tasks, created, executed, undone, life, stopping>>
    BY <1>1 DEF memory, past
  <1>6. writer'[w].at = "written" => tmp' = writer'[w].snap
    <2>1. CASE OpenTmp(w)
      BY <1>3, <2>1 DEF OpenTmp
    <2>2. CASE WriteTmp(w)
      BY <1>3, <2>2 DEF WriteTmp
    <2>3. CASE ReplaceFile(w)
      BY <1>3, <2>3 DEF ReplaceFile, Idle, Absent
    <2> QED
      BY <2>1, <2>2, <2>3 DEF WriterStep
  <1>7. Flushing'
    <2>1. ASSUME NEW v \in Writers
          PROVE /\ writer'[v].at \in {"idle", "collected", "opened", "written", "ended"}
                /\ writer'[v].at # "idle" => life' = "serving"
                /\ writer'[v].at \in {"collected", "opened", "written"} =>
                      /\ Good(writer[v].snap)'
                      /\ \A j \in Jobs : DoneIn(writer'[v].snap.tasks, j) => Kept(j)'
                /\ writer'[v].at = "written" => tmp' = writer'[v].snap
                /\ writer'[v] = [at |-> writer'[v].at, snap |-> writer'[v].snap]
      <3>1. CASE v = w
        BY <1>3, <1>4, <1>5, <1>6, <3>1 DEF SnapIInv, Flushing, Good, TablesOf, CutOf, WasDone, Kept
      <3>2. CASE v # w
        BY <1>3, <1>4, <1>5, <3>2 DEF SnapIInv, Flushing, WasDone, Kept
      <3> QED
        BY <3>1, <3>2
    <2>2. /\ writer'["stop"].at # "idle" => stopping' /\ writer'["loop"].at = "idle"
          /\ writer'["loop"].at # "ended"
      BY <1>3, <1>4, <1>5 DEF SnapIInv, Flushing, Writers
    <2> QED
      BY <1>4, <1>5, <2>1, <2>2 DEF Flushing
  <1>8. OnDisk'
    <2>1. CASE ReplaceFile(w)
      <3>1. tmp = writer[w].snap /\ tmp' = Absent /\ file' = tmp
        BY <1>3, <2>1 DEF ReplaceFile, SnapIInv, Flushing, Good, Absent
      <3> QED
        BY <1>3, <1>5, <3>1 DEF OnDisk, Absent, Good, TablesOf, CutOf, WasDone, Kept
    <2>2. CASE OpenTmp(w) \/ WriteTmp(w)
      <3>1. file' = file /\ tmp' \in {Torn, writer[w].snap}
        BY <2>2 DEF OpenTmp, WriteTmp
      <3> QED
        BY <1>3, <1>5, <3>1 DEF SnapIInv, OnDisk, Torn, Loadable, Good, TablesOf, CutOf, WasDone, Kept
    <2> QED
      BY <2>1, <2>2 DEF WriterStep
  <1> QED
    BY <1>2, <1>7, <1>8 DEF SnapIInv

LEMMA StopRequestedInv == SnapIInv /\ StopRequested => SnapIInv'
  <1> SUFFICES ASSUME SnapIInv, StopRequested PROVE SnapIInv'
    OBVIOUS
  <1>1. /\ UNCHANGED <<memory, outside, disk, life, crashes, past>>
        /\ stopping' = TRUE /\ dirty' = TRUE /\ life = "serving" /\ crashes < MaxCrashes
    BY DEF StopRequested
  <1>2. Flushing' /\ OnDisk'
    BY <1>1, DiskKept DEF memory, past, HistoryGrows, WasDone, Kept
  <1>3. Scalars' /\ Reported'
    BY <1>1, ReportedKept DEF SnapIInv, Scalars, memory, outside, past
  <1>4. Live' /\ PendingIsPooled'
    BY <1>1, LiveKept DEF SnapIInv, PendingIsPooled, memory, outside, past, HistoryGrows
  <1> QED
    BY <1>2, <1>3, <1>4 DEF SnapIInv

(* The process is gone: what it had in memory is, and the files are not.   *)
LEMMA ProcessGoneInv ==
    ASSUME SnapIInv, Crash \/ Exit
    PROVE  SnapIInv'
  <1>1. crashes < MaxCrashes /\ ProcessGone
    BY DEF Crash, Exit, SnapIInv, Scalars
  <1>2. /\ life' = "down" /\ crashes' = crashes + 1 /\ stopping' = FALSE /\ dirty' = FALSE
        /\ created \subseteq created' /\ created' \subseteq Jobs
        /\ parsed' = {} /\ tasks' = Empty /\ entry' = Empty /\ mapped' = {} /\ requeue' = {}
        /\ events' = {} /\ writer' = [w \in Writers |-> Idle]
        /\ UNCHANGED <<fanouts, pool, out, tmp, file, past>>
    BY <1>1 DEF ProcessGone, SnapIInv, Scalars
  <1>3. Scalars'
    <2>1. crashes' \in 0 .. MaxCrashes
      BY <1>1, <1>2, SnapshotAssumption DEF SnapIInv, Scalars
    <2> QED
      BY <1>2, <2>1 DEF SnapIInv, Scalars, past
  <1>8. Reported'
    BY <1>2 DEF SnapIInv, Reported, past
  <1>4. Live'
    BY <1>2 DEF Empty, Live, TablesOf, CutOf
  <1>5. Flushing'
    BY <1>2 DEF Flushing, Idle, Writers
  <1>6. OnDisk'
    BY <1>2 DEF SnapIInv, OnDisk, Good, TablesOf, CutOf, WasDone, past
  <1>7. PendingIsPooled'
    BY <1>2 DEF PendingIsPooled
  <1> QED
    BY <1>3, <1>4, <1>5, <1>6, <1>7, <1>8 DEF SnapIInv

(* A start: what is done in the file is done, all else is to be queued.    *)
LEMMA RestartInv == SnapIInv /\ Restart => SnapIInv'
  <1> SUFFICES ASSUME SnapIInv, Restart PROVE SnapIInv'
    OBVIOUS
  <1>1. /\ life = "down" /\ life' = "starting"
        /\ UNCHANGED <<created, fanouts, outside, disk, crashes, stopping, dirty, past>>
    BY DEF Restart
  <1>2. CASE Loadable
    <2>1. /\ tasks' = [t \in DOMAIN file.tasks |-> RestoredStatus(file.tasks[t])]
          /\ parsed' = file.parsed /\ entry' = file.entry /\ mapped' = file.mapped
          /\ requeue' = {t \in DOMAIN file.tasks : Unfinished(file.tasks[t])}
          /\ Good(file)
      BY <1>2 DEF Restart, SnapIInv, OnDisk, Loadable
    <2>2. /\ DOMAIN tasks' = DOMAIN file.tasks
          /\ \A t \in DOMAIN tasks' : IF file.tasks[t] = "DONE" THEN tasks'[t] = "DONE"
                                        ELSE tasks'[t] = "PENDING" /\ t \in requeue'
      BY <2>1 DEF RestoredStatus, Unfinished
    <2>3. Scalars' /\ Reported'
      BY <1>1, <2>1, ReportedKept DEF SnapIInv, Scalars, Good, TablesOf, outside, past
    <2>4. TablesOf(tasks, parsed, entry, mapped)'
      BY <1>1, <2>1, <2>2 DEF Good, TablesOf, Statuses
    <2>5. CutOf(tasks, entry, mapped)'
      BY <1>1, <2>1, <2>2 DEF Good, CutOf, DoneIn, WasDone, past
    <2>6. Flushing'
      BY <1>1 DEF SnapIInv, Flushing, disk
    <2>7. OnDisk'
      BY <1>1, <2>1, <2>2 DEF SnapIInv, OnDisk, Good, TablesOf, CutOf, DoneIn, WasDone, Kept, disk, past
    <2>8. PendingIsPooled'
      BY <2>2 DEF PendingIsPooled
    <2> QED
      BY <2>3, <2>4, <2>5, <2>6, <2>7, <2>8 DEF SnapIInv, Live
  <1>3. CASE ~ Loadable
    <2>1. UNCHANGED <<tasks, parsed, entry, mapped, requeue>>
      BY <1>3 DEF Restart
    <2>2. Scalars' /\ Reported'
      BY <1>1, <2>1, ReportedKept DEF SnapIInv, Scalars, outside, past
    <2>3. Live' /\ PendingIsPooled'
      BY <1>1, <2>1, LiveKept DEF SnapIInv, PendingIsPooled, outside, past, HistoryGrows
    <2>4. Flushing'
      BY <1>1, <2>1 DEF SnapIInv, Flushing, disk
    <2>5. OnDisk'
      BY <1>1, <1>3, <2>1 DEF SnapIInv, OnDisk, Loadable, Good, TablesOf, CutOf, WasDone, disk, past
    <2> QED
      BY <2>2, <2>3, <2>4, <2>5 DEF SnapIInv
  <1> QED
    BY <1>2, <1>3

LEMMA RequeueRestoredInv ==
    ASSUME SnapIInv, NEW t \in TaskIds, RequeueRestored(t)
    PROVE  SnapIInv'
  <1>1. /\ requeue' = requeue \ {t} /\ pool \subseteq pool' /\ pool' \subseteq pool \cup {t}
        /\ (\E j \in parsed : t = Job(j)) => t \in pool'
        /\ UNCHANGED <<created, parsed, tasks, entry, mapped, fanouts, out, events, disk, control, past>>
    BY DEF RequeueRestored
  <1>2. Flushing' /\ OnDisk'
    BY <1>1, DiskKept DEF control, past, HistoryGrows, WasDone, Kept
  <1>3. Scalars' /\ Reported'
    BY <1>1, ReportedKept DEF SnapIInv, Scalars, control, past
  <1>4. Live'
    BY <1>1, LiveKept DEF past, HistoryGrows
  <1>5. PendingIsPooled'
    BY <1>1 DEF SnapIInv, PendingIsPooled
  <1> QED
    BY <1>2, <1>3, <1>4, <1>5 DEF SnapIInv

LEMMA ServeInv == SnapIInv /\ Serve => SnapIInv'
  <1> SUFFICES ASSUME SnapIInv, Serve PROVE SnapIInv'
    OBVIOUS
  <1>1. /\ life = "starting" /\ life' = "serving" /\ requeue = {}
        /\ UNCHANGED <<memory, outside, disk, crashes, stopping, dirty, past>>
    BY DEF Serve
  <1>2. Flushing' /\ OnDisk'
    BY <1>1, DiskKept DEF memory, past, HistoryGrows, WasDone, Kept
  <1>3. Scalars' /\ Reported' /\ Live' /\ PendingIsPooled'
    BY <1>1, LiveKept, ReportedKept DEF SnapIInv, Scalars, PendingIsPooled, memory, outside, past, HistoryGrows
  <1> QED
    BY <1>2, <1>3 DEF SnapIInv

LEMMA SnapStepInv ==
    ASSUME JoinInTime
    PROVE  SnapIInv /\ [SnapNext]_snapVars => SnapIInv'
  <1> SUFFICES ASSUME SnapIInv, [SnapNext]_snapVars PROVE SnapIInv'
    OBVIOUS
  <1>1. ASSUME NEW j \in Jobs, CreateRecord(j) \/ DispatchStep(j) PROVE SnapIInv'
    BY <1>1, CreateRecordInv, DispatchWholeInv, DispatchShardsInv DEF DispatchStep
  <1>2. ASSUME NEW t \in TaskIds,
               WorkerEnds(t) \/ WorkerFails(t) \/ EventStep(t) \/ PoolStep(t) \/ RequeueRestored(t)
        PROVE SnapIInv'
    BY <1>2, WorkerStopsInv, TaskEndedInv, TaskFailedInv, DispatchRetriedInv, DropUnknownInv,
       RequeueRestoredInv DEF EventStep, PoolStep
  <1>3. ASSUME NEW w \in Writers, WriterStep(w) PROVE SnapIInv'
    BY <1>3, WriterStepInv
  <1>4. CASE UNCHANGED snapVars
    <2>1. UNCHANGED <<memory, outside, disk, control, past>>
      BY <1>4 DEF snapVars
    <2>2. Scalars' /\ Reported' /\ Live' /\ PendingIsPooled'
      BY <2>1, FlushKeeps DEF control, SnapIInv, Scalars
    <2>3. Flushing' /\ OnDisk'
      BY <2>1, DiskKept DEF control, memory, past, HistoryGrows, WasDone, Kept
    <2> QED
      BY <2>2, <2>3 DEF SnapIInv
  <1> QED
    BY <1>1, <1>2, <1>3, <1>4, RegisterJobsInv, CollectInv, StopRequestedInv, ProcessGoneInv,
       RestartInv, ServeInv DEF SnapNext

LEMMA SnapMeansSound == SnapIInv => SnapInv
  <1> SUFFICES ASSUME SnapIInv PROVE SnapInv
    OBVIOUS
  <1>1. SnapTypeOK
    <2>1. \A w \in Writers : writer[w].at \in {"idle", "collected", "opened", "written", "ended"}
      BY DEF SnapIInv, Flushing
    <2>2. \A f \in {tmp, file} : f.ok \in {"absent", "torn", "whole"}
      BY DEF SnapIInv, OnDisk, Good
    <2> QED
      BY <2>1, <2>2 DEF SnapIInv, Scalars, Live, TablesOf, Statuses, SnapTypeOK
  <1>2. SnapshotWhole
    BY DEF SnapIInv, OnDisk, Good, SnapshotWhole, Torn
  <1>3. SnapshotIsCut
    <2> SUFFICES ASSUME Loadable PROVE SnapshotIsCut
      BY DEF SnapshotIsCut
    <2>1. Good(file)
      BY DEF SnapIInv, OnDisk, Loadable
    <2> QED
      BY <2>1 DEF Good, TablesOf, CutOf, WasDone, SnapshotIsCut
  <1> QED
    BY <1>1, <1>2, <1>3 DEF SnapIInv, SnapInv

(* task_state.json can be loaded whenever the process dies                 *)
(* (state_store.py:90), it is one moment of the tables, and no restart     *)
(* leaves a pending job out of the pool: for every submission and any      *)
(* number of crashes.                                                      *)
THEOREM SnapshotsSound ==
    ASSUME JoinInTime PROVE SnapSpec => []SnapInv
  BY SnapInitInv, SnapStepInv, SnapMeansSound, PTL DEF SnapSpec

(* A job recorded as DONE in a snapshot is not handed out again, unless a  *)
(* second copy of it, out since a restart, failed when it was DONE         *)
(* (main.py:621-702); one that is sharded is not fanned out again at all.  *)
THEOREM PersistedIsFinal ==
    ASSUME JoinInTime PROVE SnapSpec => PersistedNotRepeated
  <1>1. SnapIInv /\ [SnapNext]_snapVars =>
          \A j \in Jobs :
            Loadable /\ Job(j) \in DOMAIN file.tasks /\ file.tasks[Job(j)] = "DONE" =>
                /\ fanouts'[j] = fanouts[j]
                /\ (out'[Job(j)] <= out[Job(j)] \/ Job(j) \in undone)
    <2> SUFFICES ASSUME SnapIInv, [SnapNext]_snapVars, NEW j \in Jobs, Loadable, DoneIn(file.tasks, j)
                 PROVE  /\ fanouts'[j] = fanouts[j]
                        /\ (out'[Job(j)] <= out[Job(j)] \/ Job(j) \in undone)
      BY DEF DoneIn
    <2>1. /\ fanouts \in [Jobs -> 0 .. MaxCrashes + 1] /\ out \in [TaskIds -> Nat]
          /\ Job(j) \in TaskIds
      BY Ids DEF SnapIInv, Scalars
    <2>2. out[Job(j)] <= out[Job(j)]
      BY <2>1
    <2>3. life # "down" => /\ tasks[Job(j)] = "DONE" \/ Job(j) \in undone
                           /\ j \in Sharded => tasks[Job(j)] # "PENDING"
      BY DEF SnapIInv, OnDisk, WasDone, Kept
    <2>4. ASSUME NEW i \in Jobs, DispatchWhole(i), Job(j) \notin undone
          PROVE  out'[Job(j)] = out[Job(j)]
      <3>1. i # j
        BY <2>3, <2>4 DEF DispatchWhole, Dispatchable
      <3>2. Job(i) # Job(j)
        BY <3>1, Ids
      <3> QED
        BY <2>1, <2>4, <3>2 DEF DispatchWhole
    <2>5. ASSUME NEW i \in Jobs, DispatchShards(i)
          PROVE  fanouts'[j] = fanouts[j] /\ out'[Job(j)] = out[Job(j)]
      <3>1. i # j
        BY <2>3, <2>5 DEF DispatchShards, Dispatchable
      <3>2. Job(j) \notin ShardIds(i, fanouts[i] + 1)
        BY <2>5, Ids DEF DispatchShards
      <3> QED
        BY <2>1, <2>5, <3>1, <3>2 DEF DispatchShards
    <2>6. ASSUME NEW t \in TaskIds, WorkerEnds(t) \/ WorkerFails(t)
          PROVE  fanouts' = fanouts /\ out'[Job(j)] <= out[Job(j)]
      <3>1. out'[Job(j)] = IF t = Job(j) THEN out[t] - 1 ELSE out[Job(j)]
        BY <2>1, <2>6 DEF WorkerEnds, WorkerFails
      <3>2. out[t] > 0 /\ out[t] \in Nat /\ out[Job(j)] \in Nat /\ fanouts' = fanouts
        BY <2>1, <2>6 DEF WorkerEnds, WorkerFails, memory
      <3> QED
        BY <3>1, <3>2
    <2>12. ASSUME NEW t \in TaskIds, DispatchRetried(t)
           PROVE  fanouts' = fanouts /\ out'[Job(j)] = out[Job(j)]
      <3>1. t # Job(j)
        BY <2>12 DEF DispatchRetried, JobIds
      <3> QED
        BY <2>1, <2>12, <3>1 DEF DispatchRetried
    <2>13. \A i \in Jobs : DispatchWhole(i) => fanouts' = fanouts
      BY DEF DispatchWhole
    <2>7. CASE UNCHANGED <<fanouts, out>>
      BY <2>2, <2>7
    <2>8. ASSUME NEW i \in Jobs, CreateRecord(i) PROVE UNCHANGED <<fanouts, out>>
      BY <2>8 DEF CreateRecord
    <2>9. ASSUME NEW t \in TaskIds, EventStep(t) \/ DropUnknown(t) \/ RequeueRestored(t)
          PROVE  UNCHANGED <<fanouts, out>>
      BY <2>9 DEF EventStep, TaskEnded, TaskFailed, DropUnknown, RequeueRestored, memory
    <2>10. ASSUME NEW w \in Writers, WriterStep(w) PROVE UNCHANGED <<fanouts, out>>
      BY <2>10 DEF WriterStep, OpenTmp, WriteTmp, ReplaceFile, memory, outside
    <2>11. ASSUME RegisterJobs \/ LoopRound \/ StopRequested \/ FinalFlush \/ Exit \/ Crash \/ Restart
                    \/ Serve \/ UNCHANGED snapVars
           PROVE  UNCHANGED <<fanouts, out>>
      BY <2>11 DEF RegisterJobs, LoopRound, StopRequested, FinalFlush, Exit, Crash, ProcessGone, Restart,
         Serve, snapVars, memory, outside
    <2> QED
      BY <2>2, <2>4, <2>5, <2>6, <2>7, <2>8, <2>9, <2>10, <2>11, <2>12, <2>13
         DEF SnapNext, DispatchStep, PoolStep
  <1> QED
    BY <1>1, SnapInitInv, SnapStepInv, PTL DEF SnapSpec, PersistedNotRepeated

-----------------------------------------------------------------------------
(* MetricsLedger.  If submissions are recorded before their workers report *)
(* and reports are handled before their worker's UNREGISTER, the report    *)
(* adds up for any number of tasks and shards, with and without posted     *)
(* results.                                                                *)

Reports == [type : {"STARTED", "SUCCEEDED", "FAILED"}, task : RunTasks]
AtHand == IF handling.type = "FAILED" THEN 1 ELSE 0
FinallyFailed == {t \in completed : t \in RunTasks /\ failures[t] > TryLimit}

(* An execution ends with one event, and the task is "reported" from its   *)
(* sending to the end of its handling: no second end is on its way.        *)
OneEnd ==
    /\ eventQueue \in Seq(Reports)
    /\ \A i \in DOMAIN eventQueue :
         eventQueue[i].type # "STARTED" =>
            /\ jobState[eventQueue[i].task] = "reported"
            /\ \A k \in DOMAIN eventQueue :
                 eventQueue[k].type # "STARTED" /\ eventQueue[k].task = eventQueue[i].task => k = i
EndAtHand ==
    handling # NoEvent =>
        /\ handling.type \in {"FAILED", "SHARD_FAILED"} /\ handling.task \in RunTasks
        /\ jobState[handling.task] = "reported"
        /\ \A i \in DOMAIN eventQueue :
             eventQueue[i].task = handling.task => eventQueue[i].type = "STARTED"
        /\ handling.type = "FAILED" => taskMeta[handling.task].known
        /\ handling.type = "SHARD_FAILED" =>
             handling.task \in ShardTasks /\ ~ taskMeta[handling.task].known

(* The ledger does not know a shard that is mapped to its parent; the      *)
(* others are of a parent that has all their results, and so is each whose *)
(* failure is counted.                                                     *)
Delivered == posted = ShardTasks /\ ParentTask \in completed
ShardsMapped ==
    /\ mappedShards = ShardTasks \/ Delivered
    /\ \A s \in mappedShards : ~ taskMeta[s].known
    /\ handling.type = "FAILED" /\ handling.task \in ShardTasks => Delivered
    /\ unanswered # {} => Delivered
    /\ ParentTask \in completed => posted = ShardTasks

(* Before its submission is recorded nothing has happened to a task.       *)
NothingBefore ==
    \A t \in unrecorded \cap PlainTasks :
        /\ jobState[t] = "queued" /\ starts[t] = 0
        /\ \A i \in DOMAIN eventQueue : eventQueue[i].task # t

(* What ended is final, and nothing else. *)
EndsAreFinal ==
    /\ \A t \in PlainTasks : jobState[t] = "settled" <=> taskMeta[t].finalized
    /\ \A t \in completed : t \in RunTasks => jobState[t] = "settled"
    /\ \A t \in RunTasks : jobState[t] # "settled" => failures[t] <= TryLimit
    /\ \A t \in PlainTasks : jobState[t] # "delivered"
    /\ \A t \in ShardTasks : taskMeta[t].finalized => jobState[t] = "settled"
    /\ \A t \in unanswered : jobState[t] = "settled"

Accounted ==
    counters.failed = counters.requeued + Cardinality(unanswered) + Cardinality(FinallyFailed) + AtHand

LedgerIInv ==
    /\ LedgerTypeOK /\ SamplesMatchCompleted /\ AttemptsAgree
    /\ OneEnd /\ EndAtHand /\ ShardsMapped /\ NothingBefore /\ EndsAreFinal
    /\ Accounted

MetaSet == [known : BOOLEAN, queued : BOOLEAN, started : BOOLEAN, slo : BOOLEAN,
            attempts : Nat, failed : BOOLEAN, finalized : BOOLEAN]

Overwritten(m, fields) ==
    [name \in {"known", "queued", "started", "slo", "attempts", "failed", "finalized"} |->
        IF name = "known" THEN TRUE
        ELSE IF name \in DOMAIN fields THEN fields[name]
        ELSE m[name]]

LEMMA SetMetaAt ==
    ASSUME LedgerTypeOK, NEW t \in Observed, NEW fields, SetMeta(t, fields)
    PROVE  /\ taskMeta' = [taskMeta EXCEPT ![t] = Overwritten(taskMeta[t], fields)]
           /\ taskMeta \in [Observed -> MetaSet]
  <1>1. taskMeta \in [Observed -> MetaSet]
    BY DEF LedgerTypeOK, MetaSet
  <1>2. DOMAIN taskMeta[t] = {"known", "queued", "started", "slo", "attempts", "failed", "finalized"}
    BY <1>1 DEF MetaSet
  <1> QED
    BY <1>1, <1>2 DEF SetMeta, Overwritten

(* One entry of _task_meta changes, and becomes known. *)
OtherMeta(t) ==
    /\ taskMeta' \in [Observed -> MetaSet]
    /\ taskMeta'[t].known
    /\ \A u \in Observed \ {t} : taskMeta'[u] = taskMeta[u]

LEMMA SubmittedFields ==
    ASSUME NEW m \in MetaSet, NEW b \in BOOLEAN
    PROVE  LET n == Overwritten(m, [queued |-> TRUE, slo |-> b, finalized |-> FALSE, attempts |-> 0])
           IN  n \in MetaSet /\ n.known /\ n.finalized = FALSE /\ n.attempts = 0
  <1>1. CASE b = TRUE
    BY <1>1 DEF Overwritten, MetaSet
  <1>2. CASE b = FALSE
    BY <1>2 DEF Overwritten, MetaSet
  <1> QED
    BY <1>1, <1>2

LEMMA StartedFields ==
    ASSUME NEW m \in MetaSet, NEW k \in Nat
    PROVE  LET n == Overwritten(m, [started |-> TRUE, attempts |-> k, failed |-> FALSE])
           IN  n \in MetaSet /\ n.known /\ n.finalized = m.finalized /\ n.attempts = k
  BY DEF Overwritten, MetaSet

LEMMA SucceededFields ==
    ASSUME NEW m \in MetaSet
    PROVE  LET n == Overwritten(m, [finalized |-> TRUE])
           IN  n \in MetaSet /\ n.known /\ n.finalized = TRUE /\ n.attempts = m.attempts
  BY DEF Overwritten, MetaSet

LEMMA FailedFields ==
    ASSUME NEW m \in MetaSet
    PROVE  LET n == Overwritten(m, [failed |-> TRUE])
           IN  n \in MetaSet /\ n.known /\ n.finalized = m.finalized /\ n.attempts = m.attempts
  BY DEF Overwritten, MetaSet

LEMMA RequeuedFields ==
    ASSUME NEW m \in MetaSet
    PROVE  LET n == Overwritten(m, [queued |-> TRUE, started |-> FALSE, failed |-> FALSE])
           IN  n \in MetaSet /\ n.known /\ n.finalized = m.finalized /\ n.attempts = m.attempts
  BY DEF Overwritten, MetaSet

LEMMA EndedFields ==
    ASSUME NEW m \in MetaSet
    PROVE  LET n == Overwritten(m, [finalized |-> TRUE, failed |-> FALSE])
           IN  n \in MetaSet /\ n.known /\ n.finalized = TRUE /\ n.attempts = m.attempts
  BY DEF Overwritten, MetaSet

LEMMA EntryChanges ==
    ASSUME LedgerTypeOK, NEW t \in Observed, NEW fields, SetMeta(t, fields),
           Overwritten(taskMeta[t], fields) \in MetaSet,
           Overwritten(taskMeta[t], fields).known
    PROVE  OtherMeta(t) /\ taskMeta'[t] = Overwritten(taskMeta[t], fields)
  BY SetMetaAt DEF OtherMeta

Totals == [{"submitted", "succeeded", "failed", "requeued"} -> Nat]
SampleSet == [{"total", "execution", "withSlo", "missing"} -> Nat]

LEMMA CountFacts ==
    ASSUME LedgerTypeOK, NEW name \in {"submitted", "succeeded", "failed", "requeued"}, Count(name)
    PROVE  /\ counters' \in Totals
           /\ counters'[name] = counters[name] + 1
           /\ \A other \in {"submitted", "succeeded", "failed", "requeued"} \ {name} :
                counters'[other] = counters[other]
  BY DEF LedgerTypeOK, Count, Totals

LEMMA SampleFacts ==
    ASSUME LedgerTypeOK, NEW m \in MetaSet, NEW hasRuntime, Sample(m, hasRuntime)
    PROVE  samples' \in SampleSet /\ samples'.total = samples.total + 1
  <1>1. PICK ex \in {0, 1} : ex = IF hasRuntime \/ m.started THEN 1 ELSE 0
    OBVIOUS
  <1>2. PICK ws \in {0, 1} : ws = IF m.slo THEN 1 ELSE 0
    OBVIOUS
  <1>3. PICK ms \in {0, 1} : ms = IF m.slo THEN 0 ELSE 1
    OBVIOUS
  <1>4. /\ samples.total \in Nat /\ samples.execution \in Nat
        /\ samples.withSlo \in Nat /\ samples.missing \in Nat
    BY DEF LedgerTypeOK
  <1>5. samples' = [total |-> samples.total + 1, execution |-> samples.execution + ex,
                    withSlo |-> samples.withSlo + ws, missing |-> samples.missing + ms]
    BY <1>1, <1>2, <1>3 DEF Sample
  <1> QED
    BY <1>4, <1>5 DEF SampleSet

LEMMA SubmittedKeeps ==
    ASSUME LedgerTypeOK, NEW t \in Observed, RecordSubmitted(t)
    PROVE  /\ OtherMeta(t) /\ taskMeta'[t].finalized = FALSE /\ taskMeta'[t].attempts = 0
           /\ counters' \in Totals
           /\ counters'.failed = counters.failed /\ counters'.requeued = counters.requeued
           /\ UNCHANGED <<completed, samples>>
  <1>1. PICK b \in BOOLEAN : b = (taskMeta[t].slo \/ t \in SloTasks)
    BY Zenon
  <1>2. PICK fields : fields = [queued |-> TRUE, slo |-> b, finalized |-> FALSE, attempts |-> 0]
    OBVIOUS
  <1>3. SetMeta(t, fields) /\ Count("submitted") /\ UNCHANGED <<completed, samples>>
    BY <1>1, <1>2 DEF RecordSubmitted
  <1>4. PICK m \in MetaSet : m = taskMeta[t]
    BY <1>3, SetMetaAt
  <1>5. LET n == Overwritten(m, fields)
        IN  n \in MetaSet /\ n.known /\ n.finalized = FALSE /\ n.attempts = 0
    BY <1>2, SubmittedFields
  <1>6. OtherMeta(t) /\ taskMeta'[t] = Overwritten(m, fields)
    BY <1>3, <1>4, <1>5, EntryChanges
  <1> QED
    BY <1>3, <1>5, <1>6, CountFacts

LEMMA StartedKeeps ==
    ASSUME LedgerTypeOK, NEW t \in Observed, RecordStarted(t)
    PROVE  /\ OtherMeta(t) /\ taskMeta'[t].finalized = taskMeta[t].finalized
           /\ taskMeta'[t].attempts = taskMeta[t].attempts + 1
           /\ UNCHANGED <<counters, completed, samples>>
  <1>1. PICK m \in MetaSet : m = taskMeta[t]
    BY DEF LedgerTypeOK, MetaSet
  <1>2. PICK k \in Nat : k = m.attempts + 1
    BY <1>1 DEF MetaSet
  <1>4. PICK fields : fields = [started |-> TRUE, attempts |-> k, failed |-> FALSE]
    OBVIOUS
  <1>3. SetMeta(t, fields) /\ UNCHANGED <<counters, completed, samples>>
    BY <1>1, <1>2, <1>4 DEF RecordStarted
  <1>5. LET n == Overwritten(m, fields)
        IN  n \in MetaSet /\ n.known /\ n.finalized = m.finalized /\ n.attempts = k
    BY <1>4, StartedFields
  <1>6. OtherMeta(t) /\ taskMeta'[t] = Overwritten(m, fields)
    BY <1>1, <1>3, <1>5, EntryChanges
  <1> QED
    BY <1>1, <1>2, <1>3, <1>5, <1>6

LEMMA SucceededKeeps ==
    ASSUME LedgerTypeOK, NEW t \in Observed, NEW hasRuntime, RecordSucceeded(t, hasRuntime)
    PROVE  /\ OtherMeta(t) /\ taskMeta'[t].finalized = TRUE
           /\ taskMeta'[t].attempts = taskMeta[t].attempts
           /\ counters' \in Totals
           /\ counters'.failed = counters.failed /\ counters'.requeued = counters.requeued
           /\ samples' \in SampleSet /\ samples'.total = samples.total + 1
           /\ completed' = completed \cup {t}
  <1>1. PICK m \in MetaSet : m = taskMeta[t]
    BY DEF LedgerTypeOK, MetaSet
  <1>2. PICK fields : fields = [finalized |-> TRUE]
    OBVIOUS
  <1>3. /\ SetMeta(t, fields) /\ Count("succeeded") /\ Sample(m, hasRuntime)
        /\ completed' = completed \cup {t}
    BY <1>1, <1>2 DEF RecordSucceeded
  <1>5. LET n == Overwritten(m, fields)
        IN  n \in MetaSet /\ n.known /\ n.finalized = TRUE /\ n.attempts = m.attempts
    BY <1>2, SucceededFields
  <1>6. OtherMeta(t) /\ taskMeta'[t] = Overwritten(m, fields)
    BY <1>1, <1>3, <1>5, EntryChanges
  <1> QED
    BY <1>1, <1>3, <1>5, <1>6, CountFacts, SampleFacts

LEMMA FailedKeeps ==
    ASSUME LedgerTypeOK, NEW t \in Observed, RecordFailed(t)
    PROVE  /\ OtherMeta(t) /\ taskMeta'[t].finalized = taskMeta[t].finalized
           /\ taskMeta'[t].attempts = taskMeta[t].attempts
           /\ counters' \in Totals
           /\ counters'.failed = counters.failed + 1 /\ counters'.requeued = counters.requeued
           /\ UNCHANGED <<completed, samples>>
  <1>1. PICK m \in MetaSet : m = taskMeta[t]
    BY DEF LedgerTypeOK, MetaSet
  <1>2. PICK fields : fields = [failed |-> TRUE]
    OBVIOUS
  <1>3. SetMeta(t, fields) /\ Count("failed") /\ UNCHANGED <<completed, samples>>
    BY <1>1, <1>2 DEF RecordFailed
  <1>5. LET n == Overwritten(m, fields)
        IN  n \in MetaSet /\ n.known /\ n.finalized = m.finalized /\ n.attempts = m.attempts
    BY <1>2, FailedFields
  <1>6. OtherMeta(t) /\ taskMeta'[t] = Overwritten(m, fields)
    BY <1>1, <1>3, <1>5, EntryChanges
  <1> QED
    BY <1>1, <1>3, <1>5, <1>6, CountFacts

LEMMA RequeuedKeeps ==
    ASSUME LedgerTypeOK, NEW t \in Observed, RecordRequeued(t)
    PROVE  /\ OtherMeta(t) /\ taskMeta'[t].finalized = taskMeta[t].finalized
           /\ taskMeta'[t].attempts = taskMeta[t].attempts
           /\ counters' \in Totals
           /\ counters'.failed = counters.failed /\ counters'.requeued = counters.requeued + 1
           /\ UNCHANGED <<completed, samples>>
  <1>1. PICK m \in MetaSet : m = taskMeta[t]
    BY DEF LedgerTypeOK, MetaSet
  <1>2. PICK fields : fields = [queued |-> TRUE, started |-> FALSE, failed |-> FALSE]
    OBVIOUS
  <1>3. SetMeta(t, fields) /\ Count("requeued") /\ UNCHANGED <<completed, samples>>
    BY <1>1, <1>2 DEF RecordRequeued
  <1>5. LET n == Overwritten(m, fields)
        IN  n \in MetaSet /\ n.known /\ n.finalized = m.finalized /\ n.attempts = m.attempts
    BY <1>2, RequeuedFields
  <1>6. OtherMeta(t) /\ taskMeta'[t] = Overwritten(m, fields)
    BY <1>1, <1>3, <1>5, EntryChanges
  <1> QED
    BY <1>1, <1>3, <1>5, <1>6, CountFacts

LEMMA FinalizedKeeps ==
    ASSUME LedgerTypeOK, NEW t \in Observed, FinalizeFailure(t),
           taskMeta[t].known, ~ taskMeta[t].finalized
    PROVE  /\ OtherMeta(t) /\ taskMeta'[t].finalized = TRUE
           /\ taskMeta'[t].attempts = taskMeta[t].attempts
           /\ samples' \in SampleSet /\ samples'.total = samples.total + 1
           /\ completed' = completed \cup {t} /\ UNCHANGED counters
  <1>1. PICK m \in MetaSet : m = taskMeta[t]
    BY DEF LedgerTypeOK, MetaSet
  <1>2. PICK fields : fields = [finalized |-> TRUE, failed |-> FALSE]
    OBVIOUS
  <1>3. /\ SetMeta(t, fields) /\ Sample(m, m.failed)
        /\ completed' = completed \cup {t} /\ UNCHANGED counters
    BY <1>1, <1>2 DEF FinalizeFailure
  <1>5. LET n == Overwritten(m, fields)
        IN  n \in MetaSet /\ n.known /\ n.finalized = TRUE /\ n.attempts = m.attempts
    BY <1>2, EndedFields
  <1>6. OtherMeta(t) /\ taskMeta'[t] = Overwritten(m, fields)
    BY <1>1, <1>3, <1>5, EntryChanges
  <1> QED
    BY <1>1, <1>3, <1>5, <1>6, SampleFacts

LEMMA CompletedFinite ==
    LedgerTypeOK => IsFiniteSet(completed) /\ IsFiniteSet(FinallyFailed) /\ IsFiniteSet(unanswered)
  <1> SUFFICES ASSUME LedgerTypeOK
               PROVE  IsFiniteSet(completed) /\ IsFiniteSet(FinallyFailed) /\ IsFiniteSet(unanswered)
    OBVIOUS
  <1>1. IsFiniteSet({ParentTask})
    BY FS_Singleton
  <1>2. IsFiniteSet(Observed)
    BY <1>1, FS_Union, LedgerAssumption DEF Observed, Primaries
  <1>3. IsFiniteSet(completed)
    BY <1>2, FS_Subset DEF LedgerTypeOK
  <1>4. IsFiniteSet(unanswered)
    BY FS_Subset, LedgerAssumption DEF LedgerTypeOK
  <1> QED
    BY <1>3, <1>4, FS_Subset DEF FinallyFailed

(* One more sample for one more completed task. *)
LEMMA OneMoreSample ==
    ASSUME LedgerTypeOK, SamplesMatchCompleted, NEW t, t \notin completed,
           completed' = completed \cup {t}, samples'.total = samples.total + 1
    PROVE  SamplesMatchCompleted'
  <1>1. Cardinality(completed \cup {t}) = Cardinality(completed) + 1
    BY CompletedFinite, FS_AddElement
  <1> QED
    BY <1>1 DEF SamplesMatchCompleted

LEMMA LedgerInitInv == LedgerInit => LedgerIInv
  <1> SUFFICES ASSUME LedgerInit
               PROVE  LedgerIInv
    OBVIOUS
  <1> USE DEF LedgerInit
  <1>1. LedgerTypeOK
    <2>1. FreshMeta \in MetaSet
      BY DEF FreshMeta, MetaSet
    <2>2. NoEvent \in Events
      BY DEF Events
    <2>3. counters \in Totals /\ samples \in SampleSet
      BY DEF Totals, SampleSet
    <2>4. eventQueue \in Seq(Events)
      OBVIOUS
    <2> QED
      BY <2>1, <2>2, <2>3, <2>4, LedgerAssumption DEF LedgerTypeOK, MetaSet, Totals, SampleSet, JobStates
  <1>2. Cardinality(completed) = 0 /\ FinallyFailed = {}
    BY FS_EmptySet DEF FinallyFailed
  <1>3. SamplesMatchCompleted
    BY <1>2 DEF SamplesMatchCompleted
  <1>4. AttemptsAgree
    BY DEF AttemptsAgree, FreshMeta, Observed, Primaries
  <1>5. OneEnd /\ EndAtHand
    BY DEF OneEnd, EndAtHand, NoEvent
  <1>6. ShardsMapped
    BY DEF ShardsMapped, FreshMeta, Observed, NoEvent
  <1>7. NothingBefore
    BY DEF NothingBefore, RunTasks
  <1>8. EndsAreFinal
    BY LedgerAssumption DEF EndsAreFinal, FreshMeta, Observed, Primaries, RunTasks
  <1>9. Accounted
    BY <1>2, FS_EmptySet DEF Accounted, AtHand, NoEvent
  <1> QED
    BY <1>1, <1>3, <1>4, <1>5, <1>6, <1>7, <1>8, <1>9 DEF LedgerIInv

LEMMA SubmitInv ==
    ASSUME LedgerIInv, PromptRecord, NEW t \in Primaries, Submit(t)
    PROVE  LedgerIInv'
  <1> USE DEF LedgerIInv
  <1>1. /\ t \in unrecorded /\ unrecorded' = unrecorded \ {t}
        /\ UNCHANGED <<jobState, failures, starts, mappedShards, posted, lostWorkers, eventQueue, handling,
                       unanswered>>
    BY DEF Submit
  <1>2. /\ OtherMeta(t) /\ taskMeta'[t].finalized = FALSE /\ taskMeta'[t].attempts = 0
        /\ counters' \in Totals
        /\ counters'.failed = counters.failed /\ counters'.requeued = counters.requeued
        /\ UNCHANGED <<completed, samples>>
    BY SubmittedKeeps DEF Submit, Observed
  <1>3. LedgerTypeOK'
    BY <1>1, <1>2 DEF LedgerTypeOK, JobStates, OtherMeta, MetaSet, Totals
  <1>4. SamplesMatchCompleted'
    BY <1>2 DEF SamplesMatchCompleted
  <1>5. t \in PlainTasks => jobState[t] = "queued" /\ starts[t] = 0
    BY <1>1 DEF NothingBefore
  <1>6. AttemptsAgree'
    BY <1>1, <1>2, <1>5 DEF AttemptsAgree, OtherMeta, Observed, Primaries
  <1>7. OneEnd' /\ NothingBefore'
    BY <1>1 DEF OneEnd, NothingBefore
  <1>8. EndAtHand'
    BY <1>1, <1>2, LedgerAssumption DEF EndAtHand, OtherMeta, RunTasks, Observed, Primaries
  <1>9. ShardsMapped'
    <2>1. \A s \in mappedShards : s \in Observed \ {t}
      BY LedgerAssumption DEF LedgerTypeOK, Observed, Primaries
    <2> QED
      BY <1>1, <1>2, <2>1 DEF ShardsMapped, Delivered, OtherMeta
  <1>10. EndsAreFinal'
    BY <1>1, <1>2, <1>5, LedgerAssumption DEF EndsAreFinal, OtherMeta, Observed, Primaries
  <1>11. Accounted'
    BY <1>1, <1>2 DEF Accounted, FinallyFailed, AtHand
  <1> QED
    BY <1>3, <1>4, <1>6, <1>7, <1>8, <1>9, <1>10, <1>11

LEMMA EventsOfRuns ==
    OneEnd => \A i \in DOMAIN eventQueue : eventQueue[i] \in Reports /\ eventQueue[i].task \in RunTasks
  <1> SUFFICES ASSUME OneEnd, NEW i \in DOMAIN eventQueue
               PROVE  eventQueue[i] \in Reports /\ eventQueue[i].task \in RunTasks
    OBVIOUS
  <1>1. eventQueue[i] \in Reports
    BY DEF OneEnd
  <1> QED
    BY <1>1 DEF Reports

(* An event at the end of the queue, and of the tasks the others are of.   *)
LEMMA QueueAfter ==
    ASSUME LedgerIInv, NEW e \in Reports, eventQueue' = Append(eventQueue, e)
    PROVE  /\ eventQueue' \in Seq(Reports) /\ eventQueue' \in Seq(Events)
           /\ DOMAIN eventQueue' = (DOMAIN eventQueue) \cup {Len(eventQueue) + 1}
           /\ \A i \in DOMAIN eventQueue : eventQueue'[i] = eventQueue[i]
           /\ eventQueue'[Len(eventQueue) + 1] = e
           /\ Len(eventQueue) + 1 \notin DOMAIN eventQueue
  <1>1. eventQueue \in Seq(Reports) /\ eventQueue \in Seq(Events)
    BY DEF LedgerIInv, OneEnd, LedgerTypeOK
  <1>2. e \in Events
    BY DEF Reports, Events
  <1> QED
    BY <1>1, <1>2, AppendFacts

LEMMA StartJobInv ==
    ASSUME LedgerIInv, PromptRecord, NEW j \in RunTasks, StartJob(j)
    PROVE  LedgerIInv'
  <1> USE DEF LedgerIInv
  <1>1. /\ jobState[j] = "queued" /\ SubmissionOf(j) \notin unrecorded
        /\ jobState' = [jobState EXCEPT ![j] = "running"]
        /\ UNCHANGED <<unrecorded, failures, starts, mappedShards, posted, lostWorkers, handling,
                       counters, taskMeta, completed, samples, unanswered>>
    BY DEF StartJob, MayReport, ledger
  <1>2. PICK e \in Reports : e = [type |-> "STARTED", task |-> j]
    BY DEF Reports
  <1>3. eventQueue' = Append(eventQueue, e)
    BY <1>2 DEF StartJob
  <1>4. e.type = "STARTED" /\ e.task = j
    BY <1>2
  <1>5. jobState \in [RunTasks -> JobStates]
    BY DEF LedgerTypeOK
  <1>6. LedgerTypeOK'
    BY <1>1, <1>3, <1>5, QueueAfter DEF LedgerTypeOK, JobStates
  <1>7. SamplesMatchCompleted' /\ AttemptsAgree'
    BY <1>1 DEF SamplesMatchCompleted, AttemptsAgree
  <1>8. OneEnd'
    <2>1. \A i \in DOMAIN eventQueue : eventQueue[i] \in Reports
      BY DEF OneEnd
    <2> QED
      BY <1>1, <1>3, <1>4, <1>5, <2>1, QueueAfter DEF OneEnd, Reports
  <1>9. EndAtHand'
    BY <1>1, <1>3, <1>4, <1>5, QueueAfter DEF EndAtHand
  <1>10. ShardsMapped'
    BY <1>1 DEF ShardsMapped, Delivered
  <1>11. j \notin unrecorded \cap PlainTasks
    BY <1>1, LedgerAssumption DEF SubmissionOf
  <1>12. NothingBefore'
    BY <1>1, <1>3, <1>4, <1>5, <1>11, QueueAfter DEF NothingBefore
  <1>13. EndsAreFinal'
    BY <1>1, <1>5, LedgerAssumption DEF EndsAreFinal, RunTasks, LedgerTypeOK
  <1>14. Accounted'
    BY <1>1 DEF Accounted, FinallyFailed, AtHand
  <1> QED
    BY <1>6, <1>7, <1>8, <1>9, <1>10, <1>12, <1>13, <1>14

LEMMA EndJobInv ==
    ASSUME LedgerIInv, NEW j \in RunTasks, EndJob(j)
    PROVE  LedgerIInv'
  <1> USE DEF LedgerIInv
  <1>1. /\ jobState[j] \in {"running", "delivered"}
        /\ jobState' = [jobState EXCEPT ![j] = "reported"]
        /\ UNCHANGED <<unrecorded, failures, starts, mappedShards, posted, lostWorkers, handling,
                       counters, taskMeta, completed, samples, unanswered>>
    BY DEF EndJob, ledger
  <1>2. PICK type \in {"SUCCEEDED", "FAILED"} :
            eventQueue' = Append(eventQueue, [type |-> type, task |-> j])
    BY DEF EndJob
  <1>3. PICK e \in Reports : e = [type |-> type, task |-> j]
    BY DEF Reports
  <1>4. eventQueue' = Append(eventQueue, e) /\ e.type # "STARTED" /\ e.task = j
    BY <1>2, <1>3
  <1>5. jobState \in [RunTasks -> JobStates]
    BY DEF LedgerTypeOK
  <1>6. LedgerTypeOK'
    BY <1>1, <1>4, <1>5, QueueAfter DEF LedgerTypeOK, JobStates
  <1>7. SamplesMatchCompleted' /\ AttemptsAgree'
    BY <1>1 DEF SamplesMatchCompleted, AttemptsAgree
  <1>8. \A i \in DOMAIN eventQueue :
            /\ eventQueue[i].task \in RunTasks
            /\ eventQueue[i].task = j => eventQueue[i].type = "STARTED"
    <2>1. \A i \in DOMAIN eventQueue : eventQueue[i] \in Reports
      BY DEF OneEnd
    <2> QED
      BY <1>1, <2>1 DEF OneEnd, Reports
  <1>9. OneEnd'
    BY <1>1, <1>4, <1>5, <1>8, QueueAfter DEF OneEnd
  <1>10. EndAtHand'
    BY <1>1, <1>4, <1>5, <1>8, QueueAfter DEF EndAtHand
  <1>11. ShardsMapped'
    BY <1>1 DEF ShardsMapped, Delivered
  <1>12. NothingBefore'
    BY <1>1, <1>4, <1>5, QueueAfter DEF NothingBefore
  <1>13. EndsAreFinal'
    BY <1>1, <1>5, LedgerAssumption DEF EndsAreFinal, RunTasks, LedgerTypeOK
  <1>14. Accounted'
    BY <1>1 DEF Accounted, FinallyFailed, AtHand
  <1> QED
    BY <1>6, <1>7, <1>9, <1>10, <1>11, <1>12, <1>13, <1>14

LEMMA LoseWorkerInv ==
    ASSUME LedgerIInv, PromptReports, NEW j \in RunTasks, LoseWorker(j)
    PROVE  LedgerIInv'
  <1> USE DEF LedgerIInv
  <1>1. /\ jobState[j] \in {"running", "delivered"} /\ lostWorkers < LossLimit
        /\ lostWorkers' = lostWorkers + 1
        /\ jobState' = [jobState EXCEPT ![j] = IF @ = "delivered" THEN "settled" ELSE "queued"]
        /\ UNCHANGED <<unrecorded, failures, starts, mappedShards, posted, eventQueue, handling,
                       counters, taskMeta, completed, samples, unanswered>>
    BY DEF LoseWorker, ledger
  <1>2. jobState \in [RunTasks -> JobStates]
    BY DEF LedgerTypeOK
  <1>3. LedgerTypeOK'
    <2>1. jobState' \in [RunTasks -> JobStates]
      BY <1>1, <1>2 DEF JobStates
    <2>2. lostWorkers' \in 0 .. LossLimit
      BY <1>1, LedgerAssumption DEF LedgerTypeOK
    <2> QED
      BY <1>1, <2>1, <2>2 DEF LedgerTypeOK
  <1>4. SamplesMatchCompleted' /\ AttemptsAgree'
    BY <1>1 DEF SamplesMatchCompleted, AttemptsAgree
  <1>5. \A i \in DOMAIN eventQueue : eventQueue[i].task \in RunTasks
    BY EventsOfRuns
  <1>6. OneEnd' /\ EndAtHand'
    BY <1>1, <1>2, <1>5 DEF OneEnd, EndAtHand
  <1>7. ShardsMapped'
    BY <1>1 DEF ShardsMapped, Delivered
  <1>8. NothingBefore'
    BY <1>1, <1>2 DEF NothingBefore, RunTasks
  <1>9. unanswered \subseteq RunTasks
    BY DEF LedgerTypeOK, RunTasks
  <1>10. EndsAreFinal'
    BY <1>1, <1>2, <1>9, LedgerAssumption DEF EndsAreFinal, RunTasks
  <1>11. Accounted'
    BY <1>1 DEF Accounted, FinallyFailed, AtHand
  <1> QED
    BY <1>3, <1>4, <1>6, <1>7, <1>8, <1>10, <1>11

LEMMA PostResultInv ==
    ASSUME LedgerIInv, NEW j \in RunTasks, PostResult(j)
    PROVE  LedgerIInv'
  <1> USE DEF LedgerIInv
  <1>1. /\ PostedResults /\ j \in ShardTasks /\ jobState[j] = "running"
        /\ jobState' = [jobState EXCEPT ![j] = "delivered"]
        /\ posted' = posted \cup {j}
        /\ UNCHANGED <<unrecorded, failures, starts, lostWorkers, eventQueue, handling, unanswered>>
    BY DEF PostResult
  <1>2. jobState \in [RunTasks -> JobStates]
    BY DEF LedgerTypeOK
  <1>3. \A t \in RunTasks \ {j} : jobState'[t] = jobState[t]
    BY <1>1, <1>2
  <1>4. posted' \subseteq ShardTasks /\ jobState' \in [RunTasks -> JobStates]
    BY <1>1, <1>2 DEF LedgerTypeOK, JobStates
  <1>5. OneEnd' /\ NothingBefore'
    <2>1. \A i \in DOMAIN eventQueue : eventQueue[i].task \in RunTasks
      BY EventsOfRuns
    <2>2. j \notin PlainTasks
      BY <1>1, LedgerAssumption
    <2> QED
      BY <1>1, <1>3, <2>1, <2>2 DEF OneEnd, NothingBefore, RunTasks
  <1>6. \A t \in unanswered \cup completed : t \in RunTasks /\ jobState[t] = "settled" => t # j
    BY <1>1
  <1>7. j \notin PlainTasks /\ unanswered \subseteq RunTasks
    BY <1>1, LedgerAssumption DEF LedgerTypeOK, RunTasks
  <1>8. CASE posted' = ShardTasks /\ posted # ShardTasks
    <2>1. mappedShards' = {} /\ RecordSucceeded(ParentTask, FALSE)
      BY <1>8 DEF PostResult
    <2>2. ParentTask \in Observed
      BY DEF Observed, Primaries
    <2>3. /\ OtherMeta(ParentTask)
          /\ counters' \in Totals
          /\ counters'.failed = counters.failed /\ counters'.requeued = counters.requeued
          /\ samples' \in SampleSet /\ samples'.total = samples.total + 1
          /\ completed' = completed \cup {ParentTask}
      BY <2>1, <2>2, SucceededKeeps
    <2>4. ParentTask \notin completed
      BY <1>8 DEF ShardsMapped
    <2>5. \A t \in RunTasks : t \in Observed \ {ParentTask}
      BY LedgerAssumption DEF RunTasks, Observed, Primaries
    <2>6. LedgerTypeOK'
      BY <1>1, <1>4, <2>1, <2>2, <2>3 DEF LedgerTypeOK, OtherMeta, MetaSet, Totals, SampleSet
    <2>7. SamplesMatchCompleted'
      BY <2>3, <2>4, OneMoreSample
    <2>8. AttemptsAgree'
      BY <1>1, <2>3, <2>5 DEF AttemptsAgree, OtherMeta, RunTasks
    <2>9. EndAtHand'
      BY <1>1, <1>3, <2>3, <2>5 DEF EndAtHand, OtherMeta
    <2>10. ShardsMapped'
      BY <1>1, <1>8, <2>1, <2>3 DEF ShardsMapped, Delivered
    <2>11. EndsAreFinal'
      <3>1. \A t \in RunTasks : taskMeta'[t] = taskMeta[t]
        BY <2>3, <2>5 DEF OtherMeta
      <3>2. \A t \in completed' : t \in RunTasks => t \in completed
        BY <2>3, <2>5
      <3> QED
        BY <1>1, <1>2, <1>3, <1>7, <3>1, <3>2, LedgerAssumption DEF EndsAreFinal, RunTasks
    <2>12. FinallyFailed' = FinallyFailed
      BY <1>1, <2>3, <2>5 DEF FinallyFailed
    <2>13. Accounted'
      BY <1>1, <2>3, <2>12 DEF Accounted, AtHand
    <2> QED
      BY <1>5, <2>6, <2>7, <2>8, <2>9, <2>10, <2>11, <2>13
  <1>9. CASE ~ (posted' = ShardTasks /\ posted # ShardTasks)
    <2>1. UNCHANGED <<mappedShards, counters, taskMeta, completed, samples>>
      BY <1>9 DEF PostResult, ledger
    <2>2. LedgerTypeOK'
      BY <1>1, <1>4, <2>1 DEF LedgerTypeOK
    <2>3. SamplesMatchCompleted' /\ AttemptsAgree'
      BY <1>1, <2>1 DEF SamplesMatchCompleted, AttemptsAgree
    <2>4. EndAtHand'
      BY <1>1, <1>3, <2>1 DEF EndAtHand
    <2>5. EndsAreFinal'
      BY <1>1, <1>2, <1>3, <1>7, <2>1, LedgerAssumption DEF EndsAreFinal, RunTasks
    <2>6. ShardsMapped'
      BY <1>1, <2>1 DEF ShardsMapped, Delivered, LedgerTypeOK
    <2>7. Accounted'
      BY <1>1, <2>1 DEF Accounted, FinallyFailed, AtHand
    <2> QED
      BY <1>5, <2>2, <2>3, <2>4, <2>5, <2>6, <2>7
  <1> QED
    BY <1>8, <1>9

(* The queue without its first event.                                      *)
LEMMA QueueBehind ==
    ASSUME LedgerIInv, eventQueue # <<>>, eventQueue' = Tail(eventQueue)
    PROVE  /\ eventQueue' \in Seq(Reports) /\ eventQueue' \in Seq(Events)
           /\ 1 \in DOMAIN eventQueue /\ Head(eventQueue) = eventQueue[1]
           /\ Head(eventQueue) \in Reports
           /\ \A i \in DOMAIN eventQueue' :
                /\ i + 1 \in DOMAIN eventQueue /\ i + 1 # 1
                /\ eventQueue'[i] = eventQueue[i + 1]
  <1>1. eventQueue \in Seq(Reports) /\ eventQueue \in Seq(Events)
    BY DEF LedgerIInv, OneEnd, LedgerTypeOK
  <1>2. Tail(eventQueue) \in Seq(Events)
    BY <1>1, TailProperties
  <1> QED
    BY <1>1, <1>2, TailProperties

(* What remains true of the events behind the one that is taken.           *)
LEMMA BehindOneEnd ==
    ASSUME LedgerIInv, eventQueue # <<>>, eventQueue' = Tail(eventQueue),
           \A t \in RunTasks : jobState[t] = "reported" /\ jobState'[t] # "reported" =>
               t = Head(eventQueue).task /\ Head(eventQueue).type # "STARTED"
    PROVE  /\ OneEnd'
           /\ Head(eventQueue).type # "STARTED" =>
                \A i \in DOMAIN eventQueue' :
                    eventQueue'[i].task = Head(eventQueue).task => eventQueue'[i].type = "STARTED"
  <1>1. OneEnd /\ \A i \in DOMAIN eventQueue : eventQueue[i].task \in RunTasks
    BY EventsOfRuns DEF LedgerIInv
  <1>2. \A i \in DOMAIN eventQueue' :
            /\ i \in Nat /\ i + 1 \in DOMAIN eventQueue /\ i + 1 # 1
            /\ eventQueue'[i] = eventQueue[i + 1]
    BY QueueBehind
  <1>3. 1 \in DOMAIN eventQueue /\ Head(eventQueue) = eventQueue[1]
    BY QueueBehind
  <1>4. Head(eventQueue).type # "STARTED" =>
            \A i \in DOMAIN eventQueue' :
                eventQueue'[i].task = Head(eventQueue).task => eventQueue'[i].type = "STARTED"
    BY <1>1, <1>2, <1>3 DEF OneEnd
  <1>5. ASSUME NEW i \in DOMAIN eventQueue', eventQueue'[i].type # "STARTED"
        PROVE  /\ jobState'[eventQueue'[i].task] = "reported"
               /\ \A k \in DOMAIN eventQueue' :
                    eventQueue'[k].type # "STARTED" /\ eventQueue'[k].task = eventQueue'[i].task => k = i
    <2>1. /\ i + 1 \in DOMAIN eventQueue /\ eventQueue'[i] = eventQueue[i + 1]
          /\ eventQueue[i + 1].task \in RunTasks
      BY <1>1, <1>2, <1>5
    <2>2. jobState[eventQueue[i + 1].task] = "reported"
      BY <1>1, <1>5, <2>1 DEF OneEnd
    <2>3. jobState'[eventQueue'[i].task] = "reported"
      BY <1>4, <1>5, <2>1, <2>2
    <2>4. ASSUME NEW k \in DOMAIN eventQueue', eventQueue'[k].type # "STARTED",
                 eventQueue'[k].task = eventQueue'[i].task
          PROVE  k = i
      <3>1. k + 1 = i + 1
        BY <1>1, <1>2, <1>5, <2>1, <2>4 DEF OneEnd
      <3> QED
        BY <1>2, <3>1
    <2> QED
      BY <2>3, <2>4
  <1>6. eventQueue' \in Seq(Reports)
    BY QueueBehind
  <1> QED
    BY <1>4, <1>5, <1>6 DEF OneEnd

(* Nothing is taken of a task whose submission is not recorded.            *)
LEMMA BehindNothing ==
    ASSUME LedgerIInv, eventQueue # <<>>, eventQueue' = Tail(eventQueue),
           unrecorded' = unrecorded,
           \A t \in RunTasks \ {Head(eventQueue).task} :
               jobState'[t] = jobState[t] /\ (t \in PlainTasks => starts'[t] = starts[t])
    PROVE  NothingBefore'
  <1>1. \A i \in DOMAIN eventQueue' :
            i + 1 \in DOMAIN eventQueue /\ eventQueue'[i] = eventQueue[i + 1]
    BY QueueBehind
  <1>2. 1 \in DOMAIN eventQueue /\ Head(eventQueue) = eventQueue[1]
    BY QueueBehind
  <1>3. ASSUME NEW t \in unrecorded \cap PlainTasks
        PROVE  /\ jobState'[t] = "queued" /\ starts'[t] = 0
               /\ \A i \in DOMAIN eventQueue' : eventQueue'[i].task # t
    <2>1. /\ jobState[t] = "queued" /\ starts[t] = 0
          /\ \A i \in DOMAIN eventQueue : eventQueue[i].task # t
      BY <1>3 DEF LedgerIInv, NothingBefore
    <2>2. t \in RunTasks \ {Head(eventQueue).task}
      BY <1>2, <1>3, <2>1 DEF RunTasks
    <2> QED
      BY <1>1, <1>3, <2>1, <2>2
  <1> QED
    BY <1>3 DEF NothingBefore

LEMMA TakeStartedInv ==
    ASSUME LedgerIInv, TakeEvent, Head(eventQueue).type = "STARTED"
    PROVE  LedgerIInv'
  <1> USE DEF LedgerIInv
  <1>1. PICK e : e = Head(eventQueue)
    OBVIOUS
  <1>2. /\ handling = NoEvent /\ eventQueue # <<>> /\ eventQueue' = Tail(eventQueue)
        /\ handling' = NoEvent /\ Record(e)
        /\ starts' = IF e.task \in PlainTasks THEN [starts EXCEPT ![e.task] = @ + 1] ELSE starts
        /\ UNCHANGED <<jobState, unrecorded, failures, mappedShards, posted, lostWorkers, unanswered>>
    BY <1>1 DEF TakeEvent
  <1>3. e \in Reports /\ e.type = "STARTED" /\ e.task \in RunTasks /\ e.task \in Observed
    BY <1>1, <1>2, QueueBehind DEF Reports, RunTasks, Observed, Primaries
  <1>4. starts \in [PlainTasks -> Nat] /\ starts' \in [PlainTasks -> Nat]
    <2>1. starts \in [PlainTasks -> Nat]
      BY DEF LedgerTypeOK
    <2> QED
      BY <1>2, <2>1
  <1>5. OneEnd'
    BY <1>2, BehindOneEnd
  <1>6. NothingBefore'
    BY <1>1, <1>2, <1>4, BehindNothing DEF LedgerTypeOK
  <1>7. EndAtHand' /\ handling'.type = "none"
    BY <1>2 DEF EndAtHand, NoEvent
  <1>8. \A i \in DOMAIN eventQueue' :
            i + 1 \in DOMAIN eventQueue /\ eventQueue'[i] = eventQueue[i + 1]
    BY <1>2, QueueBehind
  <1>9. eventQueue' \in Seq(Events)
    BY <1>2, QueueBehind
  <1>10. CASE IsChild(e.task)
    <2>1. UNCHANGED <<counters, taskMeta, completed, samples>>
      BY <1>2, <1>10 DEF Record, ledger
    <2>2. e.task \notin PlainTasks
      BY <1>10, LedgerAssumption DEF IsChild, LedgerTypeOK
    <2>3. LedgerTypeOK'
      BY <1>2, <1>4, <1>9, <2>1 DEF LedgerTypeOK
    <2>4. SamplesMatchCompleted' /\ AttemptsAgree' /\ EndsAreFinal'
      BY <1>2, <2>1, <2>2 DEF SamplesMatchCompleted, AttemptsAgree, EndsAreFinal
    <2>5. ShardsMapped'
      BY <1>2, <1>7, <2>1 DEF ShardsMapped, Delivered
    <2>6. Accounted'
      BY <1>2, <2>1 DEF Accounted, FinallyFailed, AtHand
    <2> QED
      BY <1>5, <1>6, <1>7, <2>3, <2>4, <2>5, <2>6
  <1>11. CASE ~ IsChild(e.task)
    <2>1. RecordStarted(e.task)
      BY <1>2, <1>3, <1>11 DEF Record
    <2>2. /\ OtherMeta(e.task) /\ taskMeta'[e.task].finalized = taskMeta[e.task].finalized
          /\ taskMeta'[e.task].attempts = taskMeta[e.task].attempts + 1
          /\ UNCHANGED <<counters, completed, samples>>
      BY <1>3, <2>1, StartedKeeps
    <2>3. LedgerTypeOK'
      BY <1>2, <1>4, <1>9, <2>2 DEF LedgerTypeOK, JobStates, OtherMeta, MetaSet
    <2>4. SamplesMatchCompleted'
      BY <2>2 DEF SamplesMatchCompleted
    <2>5. AttemptsAgree'
      BY <1>2, <2>2 DEF AttemptsAgree, OtherMeta, Observed, Primaries, LedgerTypeOK
    <2>6. EndsAreFinal'
      BY <1>2, <2>2 DEF EndsAreFinal, OtherMeta, Observed, Primaries
    <2>7. mappedShards \subseteq Observed \ {e.task}
      BY <1>11 DEF IsChild, LedgerTypeOK, Observed
    <2>8. ShardsMapped'
      BY <1>2, <1>7, <2>2, <2>7 DEF ShardsMapped, Delivered, OtherMeta
    <2>9. Accounted'
      BY <1>2, <2>2 DEF Accounted, FinallyFailed, AtHand
    <2> QED
      BY <1>5, <1>6, <1>7, <2>3, <2>4, <2>5, <2>6, <2>8, <2>9
  <1> QED
    BY <1>10, <1>11

LEMMA TakeSucceededInv ==
    ASSUME LedgerIInv, TakeEvent, Head(eventQueue).type = "SUCCEEDED"
    PROVE  LedgerIInv'
  <1> USE DEF LedgerIInv
  <1>1. PICK e : e = Head(eventQueue)
    OBVIOUS
  <1>2. eventQueue # <<>> /\ eventQueue' = Tail(eventQueue)
    BY DEF TakeEvent
  <1>3. e \in Reports /\ e.type = "SUCCEEDED" /\ e.task \in RunTasks /\ e.task \in Observed
    BY <1>1, <1>2, QueueBehind DEF Reports, RunTasks, Observed, Primaries
  <1>4. jobState[e.task] = "reported"
    BY <1>1, <1>2, <1>3, QueueBehind DEF OneEnd
  <1>5. /\ handling = NoEvent /\ handling' = NoEvent /\ Record(e)
        /\ jobState' = [jobState EXCEPT ![e.task] = "settled"]
        /\ UNCHANGED <<starts, unrecorded, failures, mappedShards, posted, lostWorkers, unanswered>>
    BY <1>1, <1>3, <1>4 DEF TakeEvent, Rerun
  <1>6. jobState \in [RunTasks -> JobStates]
    BY DEF LedgerTypeOK
  <1>7. OneEnd'
    BY <1>1, <1>2, <1>3, <1>5, <1>6, BehindOneEnd
  <1>8. NothingBefore'
    BY <1>1, <1>2, <1>5, <1>6, BehindNothing
  <1>9. EndAtHand' /\ handling.type = "none" /\ handling'.type = "none"
    BY <1>5 DEF EndAtHand, NoEvent
  <1>10. \A i \in DOMAIN eventQueue' :
            i + 1 \in DOMAIN eventQueue /\ eventQueue'[i] = eventQueue[i + 1]
    BY <1>2, QueueBehind
  <1>11. eventQueue' \in Seq(Events)
    BY <1>2, QueueBehind
  <1>12. CASE IsChild(e.task)
    <2>1. UNCHANGED <<counters, taskMeta, completed, samples>>
      BY <1>5, <1>12 DEF Record, ledger
    <2>2. e.task \notin PlainTasks
      BY <1>12, LedgerAssumption DEF IsChild, LedgerTypeOK
    <2>3. LedgerTypeOK'
      <3>1. jobState' \in [RunTasks -> JobStates]
        BY <1>3, <1>5, <1>6 DEF JobStates
      <3>2. handling' \in Events
        BY <1>5 DEF Events
      <3> QED
        BY <1>5, <1>11, <2>1, <3>1, <3>2 DEF LedgerTypeOK
    <2>4. SamplesMatchCompleted' /\ AttemptsAgree'
      BY <1>5, <2>1, <2>2 DEF SamplesMatchCompleted, AttemptsAgree
    <2>5. EndsAreFinal'
      BY <1>5, <1>6, <2>1, <2>2 DEF EndsAreFinal, RunTasks, LedgerTypeOK
    <2>6. ShardsMapped'
      BY <1>5, <1>9, <2>1 DEF ShardsMapped, Delivered
    <2>7. Accounted'
      BY <1>5, <2>1 DEF Accounted, FinallyFailed, AtHand
    <2> QED
      BY <1>7, <1>8, <1>9, <2>3, <2>4, <2>5, <2>6, <2>7
  <1>13. CASE ~ IsChild(e.task)
    <2>1. RecordSucceeded(e.task, TRUE)
      BY <1>3, <1>5, <1>13 DEF Record
    <2>2. /\ OtherMeta(e.task) /\ taskMeta'[e.task].finalized = TRUE
          /\ taskMeta'[e.task].attempts = taskMeta[e.task].attempts
          /\ counters' \in Totals
          /\ counters'.failed = counters.failed /\ counters'.requeued = counters.requeued
          /\ samples' \in SampleSet /\ samples'.total = samples.total + 1
          /\ completed' = completed \cup {e.task}
      BY <1>3, <2>1, SucceededKeeps
    <2>3. e.task \notin completed /\ failures[e.task] <= TryLimit
      BY <1>3, <1>4 DEF EndsAreFinal
    <2>4. LedgerTypeOK'
      BY <1>3, <1>5, <1>6, <1>11, <2>2 DEF LedgerTypeOK, JobStates, OtherMeta, MetaSet, Totals, SampleSet
    <2>5. SamplesMatchCompleted'
      BY <2>2, <2>3, OneMoreSample
    <2>6. AttemptsAgree'
      BY <1>5, <2>2 DEF AttemptsAgree, OtherMeta, Observed, Primaries
    <2>7. EndsAreFinal'
      BY <1>3, <1>5, <1>6, <2>2 DEF EndsAreFinal, OtherMeta, Observed, Primaries, RunTasks, LedgerTypeOK
    <2>8. mappedShards \subseteq Observed \ {e.task}
      BY <1>13 DEF IsChild, LedgerTypeOK, Observed
    <2>9. e.task # ParentTask
      BY <1>3, LedgerAssumption DEF RunTasks
    <2>10. ShardsMapped'
      BY <1>5, <1>9, <2>2, <2>8, <2>9 DEF ShardsMapped, Delivered, OtherMeta
    <2>11. FinallyFailed' = FinallyFailed
      <3>1. failures[e.task] \in Nat /\ TryLimit \in Nat
        BY <1>3, LedgerAssumption DEF LedgerTypeOK
      <3>2. ~ (failures[e.task] > TryLimit)
        BY <2>3, <3>1
      <3> QED
        BY <1>5, <2>2, <3>2 DEF FinallyFailed
    <2>12. Accounted'
      BY <1>5, <2>2, <2>11 DEF Accounted, AtHand
    <2> QED
      BY <1>7, <1>8, <1>9, <2>4, <2>5, <2>6, <2>7, <2>10, <2>12
  <1> QED
    BY <1>12, <1>13

LEMMA TakeFailedInv ==
    ASSUME LedgerIInv, TakeEvent, Head(eventQueue).type = "FAILED"
    PROVE  LedgerIInv'
  <1> USE DEF LedgerIInv
  <1>1. PICK e : e = Head(eventQueue)
    OBVIOUS
  <1>2. /\ eventQueue # <<>> /\ eventQueue' = Tail(eventQueue)
        /\ handling = NoEvent /\ Record(e)
        /\ handling' = IF IsChild(e.task) THEN [type |-> "SHARD_FAILED", task |-> e.task] ELSE e
        /\ UNCHANGED <<jobState, starts, unrecorded, failures, mappedShards, posted, lostWorkers, unanswered>>
    BY <1>1 DEF TakeEvent
  <1>3. e \in Reports /\ e.type = "FAILED" /\ e.task \in RunTasks /\ e.task \in Observed
    BY <1>1, <1>2, QueueBehind DEF Reports, RunTasks, Observed, Primaries
  <1>4. jobState[e.task] = "reported"
    BY <1>1, <1>2, <1>3, QueueBehind DEF OneEnd
  <1>5. OneEnd'
    BY <1>2, BehindOneEnd
  <1>6. \A i \in DOMAIN eventQueue' : eventQueue'[i].task = e.task => eventQueue'[i].type = "STARTED"
    BY <1>1, <1>2, <1>3, BehindOneEnd
  <1>7. NothingBefore'
    BY <1>2, BehindNothing
  <1>8. eventQueue' \in Seq(Events) /\ e \in Events
    BY <1>2, <1>3, QueueBehind DEF Reports, Events
  <1>9. e.task # ParentTask
    BY <1>3, LedgerAssumption DEF RunTasks
  <1>10. AtHand = 0
    BY <1>2 DEF AtHand, NoEvent
  <1>11. CASE IsChild(e.task)
    <2>1. e.task \in mappedShards /\ e.task \in ShardTasks /\ ~ taskMeta[e.task].known
      BY <1>11 DEF IsChild, LedgerTypeOK, ShardsMapped
    <2>2. UNCHANGED <<counters, taskMeta, completed, samples>>
      BY <1>2, <1>11 DEF Record, ledger
    <2>3. handling' = [type |-> "SHARD_FAILED", task |-> e.task]
      BY <1>2, <1>11
    <2>4. handling' \in Events \cup [type : {"SHARD_FAILED"}, task : ShardTasks]
      BY <2>1, <2>3
    <2>5. LedgerTypeOK'
      BY <1>2, <1>8, <2>2, <2>4 DEF LedgerTypeOK
    <2>6. SamplesMatchCompleted' /\ AttemptsAgree' /\ EndsAreFinal'
      BY <1>2, <2>2 DEF SamplesMatchCompleted, AttemptsAgree, EndsAreFinal
    <2>7. EndAtHand'
      BY <1>2, <1>3, <1>4, <1>6, <2>1, <2>2, <2>3 DEF EndAtHand
    <2>8. ShardsMapped'
      BY <1>2, <2>2, <2>3 DEF ShardsMapped, Delivered
    <2>9. AtHand' = 0
      BY <2>3 DEF AtHand
    <2>10. FinallyFailed' = FinallyFailed
      BY <1>2, <2>2 DEF FinallyFailed
    <2>11. Accounted'
      BY <1>2, <1>10, <2>2, <2>9, <2>10 DEF Accounted
    <2> QED
      BY <1>5, <1>7, <2>5, <2>6, <2>7, <2>8, <2>11
  <1>12. CASE ~ IsChild(e.task)
    <2>1. mappedShards \subseteq Observed \ {e.task}
      BY <1>12 DEF IsChild, LedgerTypeOK, Observed
    <2>2. RecordFailed(e.task) /\ handling' = e
      BY <1>2, <1>3, <1>12 DEF Record
    <2>3. /\ OtherMeta(e.task) /\ taskMeta'[e.task].finalized = taskMeta[e.task].finalized
          /\ taskMeta'[e.task].attempts = taskMeta[e.task].attempts
          /\ counters' \in Totals
          /\ counters'.failed = counters.failed + 1 /\ counters'.requeued = counters.requeued
          /\ UNCHANGED <<completed, samples>>
      BY <1>3, <2>2, FailedKeeps
    <2>4. LedgerTypeOK'
      BY <1>2, <1>8, <2>2, <2>3 DEF LedgerTypeOK, JobStates, OtherMeta, MetaSet, Totals
    <2>5. SamplesMatchCompleted'
      BY <2>3 DEF SamplesMatchCompleted
    <2>6. AttemptsAgree'
      BY <1>2, <2>3 DEF AttemptsAgree, OtherMeta, Observed, Primaries
    <2>7. EndsAreFinal'
      BY <1>2, <2>3 DEF EndsAreFinal, OtherMeta, Observed, Primaries
    <2>8. EndAtHand'
      BY <1>2, <1>3, <1>4, <1>6, <2>2, <2>3 DEF EndAtHand, OtherMeta
    <2>9. e.task \in ShardTasks => Delivered
      BY <1>12 DEF IsChild, ShardsMapped
    <2>10. ShardsMapped'
      BY <1>2, <2>1, <2>2, <2>3, <2>9 DEF ShardsMapped, Delivered, OtherMeta
    <2>11. AtHand' = 1
      BY <1>3, <2>2 DEF AtHand
    <2>12. FinallyFailed' = FinallyFailed /\ Cardinality(FinallyFailed) \in Nat
      BY <1>2, <2>3, CompletedFinite, FS_CardinalityType DEF FinallyFailed
    <2>13. counters.failed \in Nat /\ counters.requeued \in Nat /\ Cardinality(unanswered) \in Nat
      BY CompletedFinite, FS_CardinalityType DEF LedgerTypeOK
    <2>14. unanswered' = unanswered
      BY <1>2
    <2>15. Accounted'
      BY <1>10, <2>3, <2>11, <2>12, <2>13, <2>14 DEF Accounted
    <2> QED
      BY <1>5, <1>7, <2>4, <2>5, <2>6, <2>7, <2>8, <2>10, <2>15
  <1> QED
    BY <1>11, <1>12

LEMMA HandleFailureInv ==
    ASSUME LedgerIInv, HandleFailure
    PROVE  LedgerIInv'
  <1> USE DEF LedgerIInv
  <1>1. PICK t : t = handling.task
    OBVIOUS
  <1>2. /\ handling # NoEvent /\ handling' = NoEvent
        /\ failures' = [failures EXCEPT ![t] = @ + 1]
        /\ UNCHANGED <<unrecorded, starts, mappedShards, posted, lostWorkers, eventQueue>>
    BY <1>1 DEF HandleFailure
  <1>3. /\ t \in RunTasks /\ t \in Observed /\ jobState[t] = "reported"
        /\ \A i \in DOMAIN eventQueue : eventQueue[i].task = t => eventQueue[i].type = "STARTED"
        /\ handling.type \in {"FAILED", "SHARD_FAILED"}
        /\ handling.type = "FAILED" => taskMeta[t].known
        /\ handling.type = "SHARD_FAILED" => t \in ShardTasks /\ ~ taskMeta[t].known
    BY <1>1, <1>2 DEF EndAtHand, RunTasks, Observed, Primaries
  <1>4. failures[t] <= TryLimit /\ failures[t] \in Nat /\ TryLimit \in Nat
    BY <1>3, LedgerAssumption DEF EndsAreFinal, LedgerTypeOK
  <1>5. failures' \in [RunTasks -> 0 .. TryLimit + 1]
    <2>1. failures \in [RunTasks -> 0 .. TryLimit + 1]
      BY DEF LedgerTypeOK
    <2>2. PICK n \in 0 .. TryLimit + 1 : n = failures[t] + 1
      BY <1>4
    <2> QED
      BY <1>2, <2>1, <2>2
  <1>6. jobState \in [RunTasks -> JobStates]
    BY DEF LedgerTypeOK
  <1>7. ~ Rerun(t) /\ jobState'[t] \in JobStates
    BY <1>1, <1>3, <1>6 DEF HandleFailure, Rerun, JobStates
  <1>8. \/ /\ failures[t] < TryLimit /\ ~ NothingToRetry(t)
           /\ jobState' = [jobState EXCEPT ![t] = "queued"] /\ RecordRetry(t) /\ UNCHANGED unanswered
        \/ /\ failures[t] < TryLimit /\ NothingToRetry(t)
           /\ jobState' = [jobState EXCEPT ![t] = "settled"]
           /\ unanswered' = unanswered \cup {t} /\ UNCHANGED ledger
        \/ /\ ~ (failures[t] < TryLimit)
           /\ jobState' = [jobState EXCEPT ![t] = "settled"]
           /\ FinalizeFailure(t) /\ UNCHANGED unanswered
    BY <1>1, <1>7 DEF HandleFailure, RetriesLeft
  <1>9. /\ jobState' \in [RunTasks -> JobStates]
        /\ \A u \in RunTasks \ {t} : jobState'[u] = jobState[u] /\ failures'[u] = failures[u]
        /\ failures'[t] = failures[t] + 1
        /\ jobState'[t] \in {"queued", "settled"}
        /\ jobState'[t] = "queued" => failures[t] < TryLimit
    <2>1. failures \in [RunTasks -> 0 .. TryLimit + 1]
      BY DEF LedgerTypeOK
    <2>2. /\ \A u \in RunTasks \ {t} : failures'[u] = failures[u]
          /\ failures'[t] = failures[t] + 1
      BY <1>2, <1>3, <2>1
    <2>3. PICK st \in {"queued", "settled"} :
              /\ jobState' = [jobState EXCEPT ![t] = st]
              /\ st = "queued" => failures[t] < TryLimit
      BY <1>8
    <2>4. st \in JobStates
      BY DEF JobStates
    <2> QED
      BY <1>3, <1>6, <2>2, <2>3, <2>4
  <1>10. OneEnd'
    BY <1>2, <1>3, <1>9, EventsOfRuns DEF OneEnd
  <1>11. EndAtHand'
    BY <1>2 DEF EndAtHand
  <1>12. NothingBefore'
    BY <1>2, <1>3, <1>9 DEF NothingBefore, RunTasks
  <1>13. \A u \in RunTasks : jobState'[u] # "settled" => failures'[u] <= TryLimit
    BY <1>3, <1>4, <1>9 DEF EndsAreFinal
  <1>14. handling' \in Events \cup [type : {"SHARD_FAILED"}, task : ShardTasks]
    BY <1>2 DEF Events
  <1>15. AtHand' = 0
    BY <1>2 DEF AtHand, NoEvent
  <1>16. /\ counters.failed \in Nat /\ counters.requeued \in Nat
         /\ Cardinality(FinallyFailed) \in Nat /\ Cardinality(unanswered) \in Nat
    BY CompletedFinite, FS_CardinalityType DEF LedgerTypeOK
  <1>17. CASE handling.type = "SHARD_FAILED"
    <2>1. t \in ShardTasks /\ t \notin PlainTasks /\ ~ taskMeta[t].known
      BY <1>3, <1>17, LedgerAssumption
    <2>2. ~ NothingToRetry(t)
      BY <1>17 DEF NothingToRetry
    <2>3. UNCHANGED <<counters, taskMeta, completed, samples, unanswered>>
      BY <1>8, <1>17, <2>1, <2>2 DEF RecordRetry, FinalizeFailure, ledger
    <2>4. LedgerTypeOK'
      BY <1>2, <1>5, <1>9, <1>14, <2>3 DEF LedgerTypeOK
    <2>5. SamplesMatchCompleted' /\ AttemptsAgree'
      BY <1>2, <2>3 DEF SamplesMatchCompleted, AttemptsAgree
    <2>6. ShardsMapped'
      BY <1>2, <2>3 DEF ShardsMapped, Delivered, NoEvent
    <2>7. t \notin completed /\ t \notin unanswered /\ ~ taskMeta[t].finalized
      BY <1>3, <2>1 DEF EndsAreFinal
    <2>8. EndsAreFinal'
      BY <1>3, <1>9, <1>13, <2>1, <2>3, <2>7 DEF EndsAreFinal, RunTasks, LedgerTypeOK
    <2>9. FinallyFailed' = FinallyFailed
      BY <1>9, <2>3, <2>7 DEF FinallyFailed, RunTasks
    <2>10. AtHand = 0
      BY <1>17 DEF AtHand
    <2>11. Accounted'
      BY <1>15, <2>3, <2>9, <2>10 DEF Accounted
    <2> QED
      BY <1>10, <1>11, <1>12, <2>4, <2>5, <2>6, <2>8, <2>11
  <1>18. CASE handling.type = "FAILED"
    <2>1. taskMeta[t].known /\ (t \in ShardTasks => Delivered) /\ AtHand = 1
      BY <1>1, <1>3, <1>18 DEF ShardsMapped, AtHand
    <2>2. mappedShards \subseteq Observed \ {t} /\ t # ParentTask
      BY <1>3, <2>1, LedgerAssumption DEF LedgerTypeOK, ShardsMapped, RunTasks, Observed
    <2>3. t \notin completed /\ t \notin unanswered /\ ~ taskMeta[t].finalized
      BY <1>3 DEF EndsAreFinal, RunTasks
    <2>4. CASE failures[t] < TryLimit /\ ~ NothingToRetry(t)
      <3>1. /\ RecordRequeued(t) /\ unanswered' = unanswered /\ t \in PlainTasks
            /\ jobState' = [jobState EXCEPT ![t] = "queued"]
        BY <1>3, <1>8, <1>18, <2>4 DEF RecordRetry, NothingToRetry, RunTasks
      <3>2. /\ OtherMeta(t) /\ taskMeta'[t].finalized = taskMeta[t].finalized
            /\ taskMeta'[t].attempts = taskMeta[t].attempts
            /\ counters' \in Totals
            /\ counters'.failed = counters.failed /\ counters'.requeued = counters.requeued + 1
            /\ UNCHANGED <<completed, samples>>
        BY <1>3, <3>1, RequeuedKeeps
      <3>3. LedgerTypeOK'
        BY <1>2, <1>5, <1>9, <1>14, <3>1, <3>2 DEF LedgerTypeOK, OtherMeta, MetaSet, Totals
      <3>4. SamplesMatchCompleted'
        BY <3>2 DEF SamplesMatchCompleted
      <3>5. AttemptsAgree'
        BY <1>2, <3>2 DEF AttemptsAgree, OtherMeta, Observed, Primaries
      <3>6. jobState'[t] = "queued"
        BY <1>3, <1>6, <3>1
      <3>7. EndsAreFinal'
        <4>1. \A u \in Observed \ {t} : taskMeta'[u].finalized = taskMeta[u].finalized
          BY <3>2 DEF OtherMeta
        <4>2. \A u \in PlainTasks :
                  /\ jobState'[u] = "settled" <=> taskMeta'[u].finalized
                  /\ jobState'[u] # "delivered"
          BY <1>9, <2>3, <3>2, <3>6, <4>1 DEF EndsAreFinal, Observed, Primaries, RunTasks
        <4>3. \A u \in ShardTasks : taskMeta'[u].finalized => jobState'[u] = "settled"
          BY <1>9, <2>3, <3>2, <3>6, <4>1 DEF EndsAreFinal, Observed, RunTasks
        <4>4. \A u \in completed' : u \in RunTasks => jobState'[u] = "settled"
          BY <1>9, <2>3, <3>2, <3>6 DEF EndsAreFinal
        <4>5. \A u \in unanswered' : jobState'[u] = "settled"
          BY <1>9, <2>3, <3>1 DEF EndsAreFinal, LedgerTypeOK, RunTasks
        <4> QED
          BY <1>13, <4>2, <4>3, <4>4, <4>5 DEF EndsAreFinal
      <3>8. ShardsMapped'
        BY <1>2, <2>2, <3>1, <3>2 DEF ShardsMapped, Delivered, OtherMeta, NoEvent
      <3>9. FinallyFailed' = FinallyFailed
        BY <1>9, <2>3, <3>2 DEF FinallyFailed, RunTasks
      <3>10. Accounted'
        BY <1>15, <1>16, <2>1, <3>1, <3>2, <3>9 DEF Accounted
      <3> QED
        BY <1>10, <1>11, <1>12, <3>3, <3>4, <3>5, <3>7, <3>8, <3>10
    <2>5. CASE failures[t] < TryLimit /\ NothingToRetry(t)
      <3>1. /\ unanswered' = unanswered \cup {t} /\ t \in ShardTasks /\ Delivered
            /\ UNCHANGED <<counters, taskMeta, completed, samples>>
            /\ jobState' = [jobState EXCEPT ![t] = "settled"]
        BY <1>8, <2>1, <2>5 DEF NothingToRetry, ledger
      <3>2. t \notin PlainTasks
        BY <3>1, LedgerAssumption
      <3>3. LedgerTypeOK'
        BY <1>2, <1>5, <1>9, <1>14, <3>1 DEF LedgerTypeOK
      <3>4. SamplesMatchCompleted' /\ AttemptsAgree'
        BY <1>2, <3>1 DEF SamplesMatchCompleted, AttemptsAgree
      <3>5. jobState'[t] = "settled"
        BY <1>3, <1>6, <3>1
      <3>6. EndsAreFinal'
        BY <1>3, <1>9, <1>13, <2>3, <3>1, <3>2, <3>5 DEF EndsAreFinal, RunTasks, LedgerTypeOK
      <3>7. ShardsMapped'
        BY <1>2, <3>1 DEF ShardsMapped, Delivered, NoEvent
      <3>8. FinallyFailed' = FinallyFailed
        BY <1>9, <2>3, <3>1 DEF FinallyFailed, RunTasks
      <3>9. Cardinality(unanswered') = Cardinality(unanswered) + 1
        BY <2>3, <3>1, CompletedFinite, FS_AddElement
      <3>10. Accounted'
        BY <1>15, <1>16, <2>1, <3>1, <3>8, <3>9 DEF Accounted
      <3> QED
        BY <1>10, <1>11, <1>12, <3>3, <3>4, <3>6, <3>7, <3>10
    <2>6. CASE ~ (failures[t] < TryLimit)
      <3>1. /\ FinalizeFailure(t) /\ unanswered' = unanswered
            /\ jobState' = [jobState EXCEPT ![t] = "settled"]
        BY <1>8, <2>6
      <3>2. /\ OtherMeta(t) /\ taskMeta'[t].finalized = TRUE
            /\ taskMeta'[t].attempts = taskMeta[t].attempts
            /\ samples' \in SampleSet /\ samples'.total = samples.total + 1
            /\ completed' = completed \cup {t} /\ UNCHANGED counters
        BY <1>3, <2>1, <2>3, <3>1, FinalizedKeeps
      <3>3. LedgerTypeOK'
        BY <1>2, <1>3, <1>5, <1>9, <1>14, <3>1, <3>2 DEF LedgerTypeOK, OtherMeta, MetaSet, SampleSet
      <3>4. SamplesMatchCompleted'
        BY <2>3, <3>2, OneMoreSample
      <3>5. AttemptsAgree'
        BY <1>2, <3>2 DEF AttemptsAgree, OtherMeta, Observed, Primaries
      <3>6. jobState'[t] = "settled"
        BY <1>3, <1>6, <3>1
      <3>7. EndsAreFinal'
        <4>1. \A u \in Observed \ {t} : taskMeta'[u].finalized = taskMeta[u].finalized
          BY <3>2 DEF OtherMeta
        <4>2. \A u \in PlainTasks :
                  /\ jobState'[u] = "settled" <=> taskMeta'[u].finalized
                  /\ jobState'[u] # "delivered"
          BY <1>9, <2>3, <3>2, <3>6, <4>1 DEF EndsAreFinal, Observed, Primaries, RunTasks
        <4>3. \A u \in ShardTasks : taskMeta'[u].finalized => jobState'[u] = "settled"
          BY <1>9, <2>3, <3>2, <3>6, <4>1 DEF EndsAreFinal, Observed, RunTasks
        <4>4. \A u \in completed' : u \in RunTasks => jobState'[u] = "settled"
          BY <1>9, <2>3, <3>2, <3>6 DEF EndsAreFinal
        <4>5. \A u \in unanswered' : jobState'[u] = "settled"
          BY <1>9, <2>3, <3>1 DEF EndsAreFinal, LedgerTypeOK, RunTasks
        <4> QED
          BY <1>13, <4>2, <4>3, <4>4, <4>5 DEF EndsAreFinal
      <3>8. ShardsMapped'
        BY <1>2, <2>2, <3>1, <3>2 DEF ShardsMapped, Delivered, OtherMeta, NoEvent
      <3>9. failures'[t] > TryLimit
        BY <1>4, <1>9, <2>6
      <3>10. FinallyFailed' = FinallyFailed \cup {t} /\ t \notin FinallyFailed
        BY <1>3, <1>9, <2>3, <3>2, <3>9 DEF FinallyFailed, RunTasks
      <3>11. Cardinality(FinallyFailed') = Cardinality(FinallyFailed) + 1
        BY <3>10, CompletedFinite, FS_AddElement
      <3>12. Accounted'
        BY <1>15, <1>16, <2>1, <3>1, <3>2, <3>11 DEF Accounted
      <3> QED
        BY <1>10, <1>11, <1>12, <3>3, <3>4, <3>5, <3>7, <3>8, <3>12
    <2> QED
      BY <2>4, <2>5, <2>6
  <1> QED
    BY <1>3, <1>17, <1>18

LEMMA LedgerStutterInv ==
    ASSUME LedgerIInv, UNCHANGED ledgerVars
    PROVE  LedgerIInv'
  <1> USE DEF LedgerIInv, ledgerVars, work, ledger
  <1>1. LedgerTypeOK'
    BY DEF LedgerTypeOK
  <1>2. SamplesMatchCompleted' /\ AttemptsAgree'
    BY DEF SamplesMatchCompleted, AttemptsAgree
  <1>3. OneEnd' /\ EndAtHand'
    BY DEF OneEnd, EndAtHand
  <1>4. ShardsMapped' /\ NothingBefore'
    BY DEF ShardsMapped, Delivered, NothingBefore
  <1>5. EndsAreFinal'
    BY DEF EndsAreFinal
  <1>6. Accounted'
    BY DEF Accounted, FinallyFailed, AtHand
  <1> QED
    BY <1>1, <1>2, <1>3, <1>4, <1>5, <1>6

LEMMA LedgerNextInv ==
    ASSUME LedgerIInv, PromptRecord, PromptReports, [LedgerNext]_ledgerVars
    PROVE  LedgerIInv'
  <1>1. CASE \E t \in Primaries : Submit(t)
    BY <1>1, SubmitInv
  <1>2. ASSUME NEW j \in RunTasks, StartJob(j) \/ PostResult(j) \/ EndJob(j) \/ LoseWorker(j)
        PROVE  LedgerIInv'
    BY <1>2, StartJobInv, PostResultInv, EndJobInv, LoseWorkerInv
  <1>3. CASE TakeEvent
    <2>1. eventQueue # <<>> /\ eventQueue' = Tail(eventQueue)
      BY <1>3 DEF TakeEvent
    <2>2. Head(eventQueue) \in Reports
      BY <2>1, QueueBehind
    <2>3. Head(eventQueue).type \in {"STARTED", "SUCCEEDED", "FAILED"}
      BY <2>2 DEF Reports
    <2> QED
      BY <1>3, <2>3, TakeStartedInv, TakeSucceededInv, TakeFailedInv
  <1>4. CASE HandleFailure
    BY <1>4, HandleFailureInv
  <1>5. CASE UNCHANGED ledgerVars
    BY <1>5, LedgerStutterInv
  <1> QED
    BY <1>1, <1>2, <1>3, <1>4, <1>5 DEF LedgerNext

LEMMA LedgerIInvImplies == LedgerIInv => LedgerInv
  <1> SUFFICES ASSUME LedgerIInv
               PROVE  LedgerInv
    OBVIOUS
  <1> USE DEF LedgerIInv
  <1>1. FailuresAccounted
    <2> SUFFICES ASSUME handling = NoEvent
                 PROVE  /\ counters.failed = counters.requeued + Cardinality(unanswered)
                                               + Cardinality(FinallyFailed)
                        /\ unanswered # {} => Delivered
      BY DEF FailuresAccounted, FinallyFailed, Delivered
    <2>1. AtHand = 0 /\ (unanswered # {} => Delivered)
      BY DEF AtHand, NoEvent, ShardsMapped
    <2>2. /\ counters.requeued \in Nat /\ Cardinality(FinallyFailed) \in Nat
          /\ Cardinality(unanswered) \in Nat
      BY CompletedFinite, FS_CardinalityType DEF LedgerTypeOK
    <2> QED
      BY <2>1, <2>2 DEF Accounted
  <1>2. SettledIsFinal
    BY DEF SettledIsFinal, EndsAreFinal
  <1> QED
    BY <1>1, <1>2 DEF LedgerInv

(* For any number of tasks and shards, with and without posted results and *)
(* whatever fails, is retried or loses its worker, the metrics report      *)
(* (metrics.py) adds up: one sample for each completed task, each attempt  *)
(* counted, and each failure answered by a retry or an end, but those of   *)
(* unmapped shards with retries left, of which a parent has all results    *)
(* (main.py:565 and 682).  Its two assumptions are about threads: a        *)
(* submission is recorded before a worker can report it (PromptRecord),    *)
(* and a worker's reports are handled before its UNREGISTER                *)
(* (PromptReports).                                                        *)
THEOREM LedgerAddsUp ==
    ASSUME PromptRecord, PromptReports
    PROVE  LedgerSpec => []LedgerInv
  <1>1. LedgerInit => LedgerIInv
    BY LedgerInitInv
  <1>2. LedgerIInv /\ [LedgerNext]_ledgerVars => LedgerIInv'
    BY LedgerNextInv
  <1>3. LedgerIInv => LedgerInv
    BY LedgerIInvImplies
  <1> QED
    BY <1>1, <1>2, <1>3, PTL DEF LedgerSpec

-----------------------------------------------------------------------------
(* BatchPlanning.  For any tasks, workers, bounds and requirements: what   *)
(* the planner counts, remembers and decides fits the pool and the fleet,  *)
(* and a sharded task leaves room for those that wait.  The counts are     *)
(* inductive only with the place of every task: a planned task is not in   *)
(* the pool, and no task is planned twice.                                 *)

(* Ranks.  In a finite set in strict order, the number of elements before  *)
(* an element identifies it, and each number below the size is taken; no   *)
(* more than k elements have fewer than k before them.                     *)
Orders(R, S) ==
    /\ \A x \in S : <<x, x>> \notin R
    /\ \A x, y, z \in S : <<x, y>> \in R /\ <<y, z>> \in R => <<x, z>> \in R
    /\ \A x, y \in S : x # y => <<x, y>> \in R \/ <<y, x>> \in R
Below(R, S, x) == {u \in S : <<u, x>> \in R}

LEMMA RankFacts ==
    ASSUME NEW S, IsFiniteSet(S), NEW R, Orders(R, S)
    PROVE  /\ \A x \in S : Cardinality(Below(R, S, x)) \in 0 .. (Cardinality(S) - 1)
           /\ \A x, y \in S :
                Cardinality(Below(R, S, x)) = Cardinality(Below(R, S, y)) => x = y
  <1>1. \A x \in S : Below(R, S, x) \subseteq S \ {x} /\ IsFiniteSet(Below(R, S, x))
    BY FS_Subset DEF Orders, Below
  <1>2. \A x \in S : Cardinality(Below(R, S, x)) \in Nat
    BY <1>1, FS_CardinalityType
  <1>3. ASSUME NEW x \in S
        PROVE  Cardinality(Below(R, S, x)) \in 0 .. (Cardinality(S) - 1)
    <2>1. IsFiniteSet(S \ {x}) /\ Cardinality(S \ {x}) = Cardinality(S) - 1
      BY FS_RemoveElement
    <2>2. Cardinality(Below(R, S, x)) <= Cardinality(S \ {x})
      BY <1>1, <2>1, FS_Subset
    <2> QED
      BY <1>2, <2>1, <2>2, FS_CardinalityType
  <1>4. ASSUME NEW x \in S, NEW y \in S, <<x, y>> \in R
        PROVE  Cardinality(Below(R, S, x)) < Cardinality(Below(R, S, y))
    <2>1. Below(R, S, x) \cup {x} \subseteq Below(R, S, y) /\ x \notin Below(R, S, x)
      BY <1>4 DEF Orders, Below
    <2>2. Cardinality(Below(R, S, x) \cup {x}) = Cardinality(Below(R, S, x)) + 1
      BY <1>1, <2>1, FS_AddElement
    <2>3. Cardinality(Below(R, S, x) \cup {x}) <= Cardinality(Below(R, S, y))
      BY <1>1, <2>1, FS_Subset
    <2> QED
      BY <1>2, <2>2, <2>3
  <1>5. ASSUME NEW x \in S, NEW y \in S, x # y
        PROVE  Cardinality(Below(R, S, x)) # Cardinality(Below(R, S, y))
    <2>1. <<x, y>> \in R \/ <<y, x>> \in R
      BY <1>5 DEF Orders
    <2> QED
      BY <1>2, <1>4, <2>1
  <1> QED
    BY <1>3, <1>5

LEMMA RankTaken ==
    ASSUME NEW S, IsFiniteSet(S), NEW R, Orders(R, S)
    PROVE  \A k \in 0 .. (Cardinality(S) - 1) :
             \E x \in S : Cardinality(Below(R, S, x)) = k
  <1> DEFINE T == 0 .. (Cardinality(S) - 1)
             r == [x \in S |-> Cardinality(Below(R, S, x))]
  <1> SUFFICES ASSUME NEW k \in T, \A x \in S : r[x] # k
               PROVE  FALSE
    OBVIOUS
  <1>1. IsFiniteSet(T) /\ Cardinality(T) = Cardinality(S) /\ Cardinality(S) \in Nat
    BY FS_CardinalityType, FS_Interval
  <1>2. r \in [S -> T \ {k}]
    BY RankFacts
  <1>3. IsFiniteSet(T \ {k}) /\ Cardinality(T \ {k}) < Cardinality(S)
    <2> HIDE DEF T
    <2>1. k \in T
      OBVIOUS
    <2>2. IsFiniteSet(T \ {k}) /\ Cardinality(T \ {k}) = Cardinality(T) - 1
      BY <1>1, <2>1, FS_RemoveElement
    <2> QED
      BY <1>1, <2>2
  <1>4. PICK x, y \in S : x # y /\ r[x] = r[y]
    <2> HIDE DEF r, T
    <2> QED
      BY <1>2, <1>3, FS_PigeonHole
  <1> QED
    BY <1>4, RankFacts

LEMMA FewAreFirst ==
    ASSUME NEW S, IsFiniteSet(S), NEW R, Orders(R, S), NEW k \in Nat
    PROVE  Cardinality({x \in S : Cardinality(Below(R, S, x)) < k}) <= k
  <1> DEFINE T == 0 .. (k - 1)
             F == {x \in S : Cardinality(Below(R, S, x)) < k}
             r == [x \in F |-> Cardinality(Below(R, S, x))]
  <1>1. IsFiniteSet(T) /\ Cardinality(T) = k
    BY FS_Interval
  <1>2. F \subseteq S /\ IsFiniteSet(F) /\ Cardinality(F) \in Nat
    BY FS_Subset, FS_CardinalityType
  <1>3. r \in [F -> T]
    BY RankFacts, FS_CardinalityType
  <1>4. \A x, y \in F : r[x] = r[y] => x = y
    BY RankFacts
  <1>5. ~ (Cardinality(T) < Cardinality(F))
    <2> HIDE DEF r, T, F
    <2> QED
      BY <1>1, <1>2, <1>3, <1>4, FS_PigeonHole
  <1> QED
    BY <1>1, <1>2, <1>5

-----------------------------------------------------------------------------
(* The three orders of the planner: of tasks, of workers, of cache entries.*)
BeforeIn(ts) == {p \in ts \X ts : Before(p[1], p[2])}
BetterIn(ws) == {p \in ws \X ws : Better(p[1], p[2])}
LessIn(places) == {p \in places \X places : p[1] < p[2]}

LEMMA PlanFacts ==
    /\ PlanTasks \subseteq Nat \ {0} /\ IsFiniteSet(PlanTasks)
    /\ PoolBatch \in Nat /\ CacheSize \in Nat \ {0} /\ MaxShards \in Nat
    /\ Fleet \subseteq Nat \ {0} /\ IsFiniteSet(Fleet)
    /\ \A w \in Fleet : /\ Hardware[w].cores \in Nat /\ Hardware[w].gpus \in Nat
                        /\ Hardware[w] = [cores |-> Hardware[w].cores, gpus |-> Hardware[w].gpus]
    /\ \A t \in PlanTasks : Requires[t].cores \in Nat /\ Requires[t].gpus \in Nat
  <1> DEFINE M == [cores : Nat, gpus : Nat]
  <1>1. Hardware \in Seq(M)
    BY PlanningAssumption, Zenon
  <1>2. Fleet = 1 .. Len(Hardware) /\ Len(Hardware) \in Nat /\ \A w \in Fleet : Hardware[w] \in M
    <2> HIDE DEF M
    <2> QED
      BY ONLY <1>1 DEF Fleet
  <1>3. IsFiniteSet(Fleet) /\ \A w \in Fleet : Hardware[w] \in [cores : Nat, gpus : Nat]
    <2>1. 1 \in Int /\ Len(Hardware) \in Int
      BY <1>2, SMT
    <2>2. IsFiniteSet(1 .. Len(Hardware))
      BY ONLY <2>1, FS_Interval
    <2> QED
      BY ONLY <1>2, <2>2
  <1>4. \A t \in PlanTasks : Requires[t] \in [cores : Nat, gpus : Nat]
    BY PlanningAssumption
  <1> QED
    BY <1>2, <1>3, <1>4, PlanningAssumption

LEMMA TaskOrder ==
    ASSUME NEW ts \in SUBSET PlanTasks
    PROVE  /\ IsFiniteSet(ts) /\ Cardinality(ts) \in Nat
           /\ Orders(BeforeIn(ts), ts)
           /\ \A t \in ts : Cardinality(Below(BeforeIn(ts), ts, t)) = Ahead(ts, t)
  <1>1. IsFiniteSet(ts) /\ Cardinality(ts) \in Nat
    BY PlanFacts, FS_Subset, FS_CardinalityType
  <1>2. \A x \in ts : x \in Nat
    BY PlanFacts
  <1>3. \A t, u \in ts : <<t, u>> \in BeforeIn(ts) <=> Before(t, u)
    BY DEF BeforeIn
  <1>4. Orders(BeforeIn(ts), ts)
    BY <1>2, <1>3 DEF Orders, Before
  <1>5. \A t \in ts : Below(BeforeIn(ts), ts, t) = {u \in ts : Before(u, t)}
    BY <1>3 DEF Below
  <1> QED
    BY <1>1, <1>4, <1>5 DEF Ahead

(* Ranked lists each task of a batch once.                                 *)
LEMMA RankedLists ==
    ASSUME NEW ts \in SUBSET PlanTasks
    PROVE  /\ Cardinality(ts) \in Nat
           /\ DOMAIN Ranked(ts) = 1 .. Cardinality(ts)
           /\ Len(Ranked(ts)) = Cardinality(ts)
           /\ \A k \in 1 .. Cardinality(ts) : Ranked(ts)[k] \in ts
           /\ \A i, j \in 1 .. Cardinality(ts) : Ranked(ts)[i] = Ranked(ts)[j] => i = j
  <1> DEFINE n == Cardinality(ts)
  <1>1. n \in Nat /\ IsFiniteSet(ts)
    BY TaskOrder
  <1>2. \A k \in 0 .. (n - 1) : \E t \in ts : Cardinality(Below(BeforeIn(ts), ts, t)) = k
    BY TaskOrder, RankTaken
  <1>3. \A k \in 0 .. (n - 1) : \E t \in ts : Ahead(ts, t) = k
    BY <1>2, TaskOrder
  <1>4. ASSUME NEW k \in 1 .. n
        PROVE  Ranked(ts)[k] \in ts /\ Ahead(ts, Ranked(ts)[k]) = k - 1
    <2>1. \E t \in ts : Ahead(ts, t) = k - 1
      BY <1>1, <1>3
    <2>2. Ranked(ts)[k] = CHOOSE t \in ts : Ahead(ts, t) = k - 1
      BY DEF Ranked
    <2> QED
      BY <2>1, <2>2
  <1>5. Ranked(ts) \in [1 .. n -> ts]
    BY <1>4 DEF Ranked
  <1>6. Len(Ranked(ts)) = n /\ DOMAIN Ranked(ts) = 1 .. n
    BY <1>1, <1>5
  <1> QED
    BY <1>1, <1>4, <1>6

(* A set of workers has a best one, and no more than k of them have fewer  *)
(* than k better ones.                                                     *)
LEMMA WorkerOrder ==
    ASSUME NEW ws \in SUBSET Fleet
    PROVE  /\ IsFiniteSet(ws) /\ Cardinality(ws) \in Nat
           /\ Orders(BetterIn(ws), ws)
           /\ \A w \in ws : Below(BetterIn(ws), ws, w) = {v \in ws : Better(v, w)}
  <1>1. IsFiniteSet(ws) /\ Cardinality(ws) \in Nat
    BY PlanFacts, FS_Subset, FS_CardinalityType
  <1>2. \A v, w \in ws : <<v, w>> \in BetterIn(ws) <=> Better(v, w)
    BY DEF BetterIn
  <1> DEFINE g(w) == Hardware[w].gpus
             c(w) == Hardware[w].cores
  <1>3. \A w \in ws : w \in Nat /\ g(w) \in Nat /\ c(w) \in Nat
    BY PlanFacts
  <1>4. \A v, w \in ws : Hardware[v] = Hardware[w] <=> g(v) = g(w) /\ c(v) = c(w)
    BY PlanFacts
  <1>5. \A v, w \in ws :
          Better(v, w) <=> \/ g(v) > g(w)
                           \/ g(v) = g(w) /\ c(v) > c(w)
                           \/ g(v) = g(w) /\ c(v) = c(w) /\ v > w
    BY <1>4 DEF Better
  <1> HIDE DEF g, c
  <1>6. Orders(BetterIn(ws), ws)
    BY <1>2, <1>3, <1>5 DEF Orders
  <1>7. \A w \in ws : Below(BetterIn(ws), ws, w) = {v \in ws : Better(v, w)}
    BY <1>2 DEF Below
  <1> QED
    BY <1>1, <1>6, <1>7

LEMMA BestIsThere ==
    ASSUME NEW ws \in SUBSET Fleet, ws # {}
    PROVE  Best(ws) \in ws
  <1>1. Cardinality(ws) \in Nat \ {0}
    BY WorkerOrder, FS_EmptySet
  <1>2. PICK w \in ws : Cardinality(Below(BetterIn(ws), ws, w)) = 0
    BY <1>1, WorkerOrder, RankTaken
  <1>3. Below(BetterIn(ws), ws, w) = {}
    <2>1. IsFiniteSet(Below(BetterIn(ws), ws, w))
      BY WorkerOrder, FS_Subset DEF Below
    <2> QED
      BY <1>2, <2>1, FS_EmptySet
  <1>4. \A v \in ws \ {w} : Better(w, v)
    <2>1. \A v \in ws \ {w} : <<v, w>> \notin BetterIn(ws)
      BY <1>3 DEF Below
    <2>2. \A v \in ws \ {w} : <<w, v>> \in BetterIn(ws)
      BY <2>1, WorkerOrder DEF Orders
    <2> QED
      BY <2>2 DEF BetterIn
  <1> QED
    BY <1>4 DEF Best

LEMMA FewAreBest ==
    ASSUME NEW ws \in SUBSET Fleet, NEW k \in Nat
    PROVE  Cardinality({w \in ws : Cardinality({v \in ws : Better(v, w)}) < k}) <= k
  <1>1. {w \in ws : Cardinality({v \in ws : Better(v, w)}) < k}
          = {w \in ws : Cardinality(Below(BetterIn(ws), ws, w)) < k}
    BY WorkerOrder
  <1>2. IsFiniteSet(ws) /\ Orders(BetterIn(ws), ws)
    BY WorkerOrder
  <1>3. Cardinality({w \in ws : Cardinality(Below(BetterIn(ws), ws, w)) < k}) <= k
    BY <1>2, FewAreFirst
  <1> QED
    BY <1>1, <1>3

-----------------------------------------------------------------------------
(* The inductive invariant.  A task waits in one place: in the pool, in    *)
(* one plan, or with its workers.  The counts are the pool's until a late  *)
(* success, and cover it ever after.                                       *)
PlanFields ==
    /\ mark \in [PlanTasks -> {"new", "pending", "given", "done"}]
    /\ held \in SUBSET PlanTasks /\ tried \subseteq released
    /\ idle \in SUBSET Fleet
    /\ busyWith \in [Fleet -> PlanTasks \cup {Nobody}]
    /\ plans \in Seq({plans[i] : i \in DOMAIN plans})
    /\ lateEnds \in Nat
OnePlace ==
    /\ \A t \in held : mark[t] = "pending"
    /\ \A i \in DOMAIN plans : /\ plans[i].task \in PlanTasks \ held
                               /\ mark[plans[i].task] = "pending"
    /\ \A i, j \in DOMAIN plans : plans[i].task = plans[j].task => i = j
AtWork ==
    \A w \in Fleet : busyWith[w] # Nobody =>
        mark[busyWith[w]] = "given" /\ Suits(w, busyWith[w])
PlacesIInv == PlanFields /\ OnePlace /\ AtWork

Covers(hs, cs) == \A m \in ModelNames : Cardinality(OfModel(hs, m)) <= cs[m]
Matches(hs, cs) == \A m \in ModelNames : Cardinality(OfModel(hs, m)) = cs[m]
CountsIInv ==
    /\ counts \in [ModelNames -> Nat]
    /\ Covers(held, counts)
    /\ lateEnds = 0 => Matches(held, counts)

CacheEntry == [model : ModelNames, worker : Fleet]
CacheIInv ==
    /\ cache \in Seq(CacheEntry)
    /\ Len(cache) <= CacheSize
    /\ \A i, j \in DOMAIN cache : cache[i].model = cache[j].model => i = j

PlanIInv == PlacesIInv /\ CountsIInv /\ CacheIInv /\ RetainedForWork

-----------------------------------------------------------------------------
(* The counts.                                                             *)
LEMMA ModelsOf ==
    ASSUME NEW hs \in SUBSET PlanTasks, NEW m
    PROVE  /\ OfModel(hs, m) \subseteq hs
           /\ IsFiniteSet(OfModel(hs, m)) /\ Cardinality(OfModel(hs, m)) \in Nat
           /\ Cardinality(OfModel(hs, m)) = 0 <=> OfModel(hs, m) = {}
  <1>1. OfModel(hs, m) \in SUBSET PlanTasks
    BY DEF OfModel
  <1>2. IsFiniteSet(OfModel(hs, m))
    BY <1>1, PlanFacts, FS_Subset
  <1> QED
    BY <1>2, FS_CardinalityType, FS_EmptySet DEF OfModel

LEMMA TaskAdded ==
    ASSUME NEW hs \in SUBSET PlanTasks, NEW t \in PlanTasks, t \notin hs,
           counts \in [ModelNames -> Nat]
    PROVE  /\ AddCount(t) \in [ModelNames -> Nat]
           /\ Covers(hs, counts) => Covers(hs \cup {t}, AddCount(t))
           /\ Matches(hs, counts) => Matches(hs \cup {t}, AddCount(t))
  <1>1. ModelOf[t] \in ModelNames
    BY DEF ModelNames
  <1>2. AddCount(t) = [m \in ModelNames |-> IF m = ModelOf[t] THEN counts[m] + 1 ELSE counts[m]]
    BY <1>1 DEF AddCount
  <1>3. ASSUME NEW m \in ModelNames, m # ModelOf[t]
        PROVE  OfModel(hs \cup {t}, m) = OfModel(hs, m)
    BY <1>3 DEF OfModel
  <1>4. ASSUME NEW m \in ModelNames, m = ModelOf[t]
        PROVE  Cardinality(OfModel(hs \cup {t}, m)) = Cardinality(OfModel(hs, m)) + 1
    <2>1. OfModel(hs \cup {t}, m) = OfModel(hs, m) \cup {t} /\ t \notin OfModel(hs, m)
      BY <1>4 DEF OfModel
    <2> QED
      BY <2>1, ModelsOf, FS_AddElement
  <1>5. \A m \in ModelNames : counts[m] \in Nat /\ Cardinality(OfModel(hs, m)) \in Nat
    BY ModelsOf
  <1> HIDE DEF AddCount
  <1>6. \A m \in ModelNames : AddCount(t)[m] = IF m = ModelOf[t] THEN counts[m] + 1 ELSE counts[m]
    BY <1>2
  <1>7. AddCount(t) \in [ModelNames -> Nat]
    BY <1>2, <1>5
  <1>8. ASSUME NEW m \in ModelNames
        PROVE  /\ Cardinality(OfModel(hs, m)) <= counts[m] =>
                    Cardinality(OfModel(hs \cup {t}, m)) <= AddCount(t)[m]
               /\ Cardinality(OfModel(hs, m)) = counts[m] =>
                    Cardinality(OfModel(hs \cup {t}, m)) = AddCount(t)[m]
    <2>1. CASE m = ModelOf[t]
      BY <1>4, <1>5, <1>6, <2>1
    <2>2. CASE m # ModelOf[t]
      BY <1>3, <1>5, <1>6, <2>2
    <2> QED
      BY <2>1, <2>2
  <1> QED
    BY <1>7, <1>8 DEF Covers, Matches

LEMMA TasksTaken ==
    ASSUME NEW hs \in SUBSET PlanTasks, NEW ts \in SUBSET hs, NEW batch,
           counts \in [ModelNames -> Nat]
    PROVE  /\ Lowered(counts, ts, batch) \in [ModelNames -> Nat]
           /\ Covers(hs, counts) => Covers(hs \ ts, Lowered(counts, ts, batch))
           /\ Matches(hs, counts) => Matches(hs \ ts, Lowered(counts, ts, batch))
  <1> DEFINE size(xs, m) == Cardinality(OfModel(xs, m))
  <1>1. \A m \in ModelNames :
          Lowered(counts, ts, batch)[m] = IF size(ts, m) >= counts[m] THEN 0 ELSE counts[m] - size(ts, m)
    BY DEF Lowered
  <1>2. \A m \in ModelNames : counts[m] \in Nat
    OBVIOUS
  <1>3. \A m \in ModelNames : size(hs, m) \in Nat /\ size(ts, m) \in Nat /\ size(hs \ ts, m) \in Nat
    BY ModelsOf
  <1>4. ASSUME NEW m \in ModelNames
        PROVE  size(hs, m) = size(hs \ ts, m) + size(ts, m)
    <2>1. /\ OfModel(hs, m) = OfModel(hs \ ts, m) \cup OfModel(ts, m)
          /\ OfModel(hs \ ts, m) \cap OfModel(ts, m) = {}
      BY DEF OfModel
    <2>2. IsFiniteSet(OfModel(hs \ ts, m)) /\ IsFiniteSet(OfModel(ts, m))
      BY ModelsOf
    <2>3. Cardinality(OfModel(hs \ ts, m) \cup OfModel(ts, m))
            = Cardinality(OfModel(hs \ ts, m)) + Cardinality(OfModel(ts, m))
                - Cardinality(OfModel(hs \ ts, m) \cap OfModel(ts, m))
      BY ONLY <2>2, FS_Union
    <2>4. Cardinality({}) = 0
      BY FS_EmptySet
    <2>5. size(hs, m) = size(hs \ ts, m) + size(ts, m) - Cardinality({})
      BY ONLY <2>1, <2>3
    <2>6. size(hs \ ts, m) \in Nat /\ size(ts, m) \in Nat
      BY <1>3
    <2> HIDE DEF size
    <2> QED
      BY ONLY <2>4, <2>5, <2>6
  <1>5. Lowered(counts, ts, batch) \in [ModelNames -> Nat]
    <2>1. DOMAIN counts = ModelNames
      OBVIOUS
    <2>2. \A m \in ModelNames :
            (IF size(ts, m) >= counts[m] THEN 0 ELSE counts[m] - size(ts, m)) \in Nat
      BY <1>2, <1>3
    <2> QED
      BY <2>1, <2>2 DEF Lowered
  <1> HIDE DEF size
  <1>6. ASSUME NEW m \in ModelNames
        PROVE  /\ size(hs, m) <= counts[m] => size(hs \ ts, m) <= Lowered(counts, ts, batch)[m]
               /\ size(hs, m) = counts[m] => size(hs \ ts, m) = Lowered(counts, ts, batch)[m]
    <2>1. counts[m] \in Nat /\ size(hs, m) \in Nat /\ size(ts, m) \in Nat /\ size(hs \ ts, m) \in Nat
      BY <1>2, <1>3
    <2>2. size(hs, m) = size(hs \ ts, m) + size(ts, m)
      BY <1>4
    <2>3. Lowered(counts, ts, batch)[m] = IF size(ts, m) >= counts[m] THEN 0 ELSE counts[m] - size(ts, m)
      BY <1>1
    <2> QED
      BY ONLY <2>1, <2>2, <2>3
  <1> QED
    BY <1>5, <1>6 DEF Covers, Matches, size

-----------------------------------------------------------------------------
(* The cache.                                                              *)
LEMMA KeptEntries ==
    ASSUME CacheIInv, NEW places \in SUBSET DOMAIN cache
    PROVE  /\ KeptAt(places) \in Seq(CacheEntry)
           /\ Len(KeptAt(places)) <= CacheSize
           /\ \A k \in DOMAIN KeptAt(places) :
                \E i \in places : KeptAt(places)[k] = cache[i]
           /\ \A k, l \in DOMAIN KeptAt(places) :
                KeptAt(places)[k].model = KeptAt(places)[l].model => k = l
  <1> DEFINE n == Cardinality(places)
             before(i) == {j \in places : j < i}
             place(k) == CHOOSE i \in places : Cardinality(before(i)) = k - 1
  <1>1. DOMAIN cache = 1 .. Len(cache) /\ Len(cache) \in Nat
    BY DEF CacheIInv
  <1>2. IsFiniteSet(places) /\ n \in Nat /\ n <= Len(cache)
    <2>1. IsFiniteSet(DOMAIN cache) /\ Cardinality(DOMAIN cache) = Len(cache)
      BY <1>1, FS_Interval
    <2> QED
      BY <2>1, FS_Subset, FS_CardinalityType
  <1>3. \A i \in places : i \in Nat
    BY <1>1
  <1>4. \A i, j \in places : <<i, j>> \in LessIn(places) <=> i < j
    BY DEF LessIn
  <1>5. Orders(LessIn(places), places)
    BY <1>3, <1>4 DEF Orders
  <1>6. \A i \in places : Below(LessIn(places), places, i) = before(i)
    BY <1>4 DEF Below
  <1>7. \A k \in 0 .. (n - 1) : \E i \in places : Cardinality(Below(LessIn(places), places, i)) = k
    BY <1>2, <1>5, RankTaken
  <1>8. ASSUME NEW k \in 1 .. n
        PROVE  place(k) \in places /\ Cardinality(before(place(k))) = k - 1
    <2>1. k - 1 \in 0 .. (n - 1)
      BY <1>2
    <2>2. PICK i \in places : Cardinality(Below(LessIn(places), places, i)) = k - 1
      BY <1>7, <2>1
    <2>3. Cardinality(before(i)) = k - 1
      BY <1>6, <2>2
    <2> HIDE DEF before
    <2> QED
      BY <2>3
  <1>9. KeptAt(places) = [k \in 1 .. n |-> cache[place(k)]]
    BY DEF KeptAt
  <1> HIDE DEF place, n, before
  <1>10. \A k \in 1 .. n : cache[place(k)] \in CacheEntry
    BY <1>8 DEF CacheIInv
  <1>11. KeptAt(places) \in Seq(CacheEntry) /\ Len(KeptAt(places)) = n /\ DOMAIN KeptAt(places) = 1 .. n
    BY <1>2, <1>9, <1>10
  <1>12. \A k \in 1 .. n : KeptAt(places)[k] = cache[place(k)]
    BY <1>9
  <1>13. Len(KeptAt(places)) <= CacheSize
    BY <1>1, <1>2, <1>11, PlanFacts DEF CacheIInv
  <1>14. \A k, l \in 1 .. n : place(k) = place(l) => k = l
    BY <1>2, <1>8
  <1>15. \A k, l \in 1 .. n : cache[place(k)].model = cache[place(l)].model => k = l
    BY <1>8, <1>14 DEF CacheIInv
  <1> QED
    BY <1>8, <1>11, <1>12, <1>13, <1>15

LEMMA Remembered ==
    ASSUME CacheIInv, NEW m \in ModelNames, NEW w \in Fleet
    PROVE  /\ Remember(m, w) \in Seq(CacheEntry)
           /\ Len(Remember(m, w)) <= CacheSize
           /\ \A i, j \in DOMAIN Remember(m, w) :
                Remember(m, w)[i].model = Remember(m, w)[j].model => i = j
  <1> DEFINE places == {i \in DOMAIN cache : cache[i].model # m}
             others == KeptAt(places)
             e == [model |-> m, worker |-> w]
             kept == Append(others, e)
  <1>1. /\ others \in Seq(CacheEntry) /\ Len(others) <= CacheSize
        /\ \A k \in DOMAIN others : \E i \in places : others[k] = cache[i]
        /\ \A k, l \in DOMAIN others : others[k].model = others[l].model => k = l
    BY KeptEntries
  <1>2. \A k \in DOMAIN others : others[k].model # m
    BY <1>1
  <1>3. e \in CacheEntry /\ e.model = m
    BY DEF CacheEntry
  <1>4. CacheSize \in Nat \ {0}
    BY PlanFacts
  <1>5. Remember(m, w) = IF Len(kept) > CacheSize THEN Tail(kept) ELSE kept
    BY DEF Remember
  <1> HIDE DEF others, e
  <1>6. /\ kept \in Seq(CacheEntry) /\ Len(kept) = Len(others) + 1 /\ Len(others) \in Nat
        /\ DOMAIN kept = 1 .. (Len(others) + 1) /\ DOMAIN others = 1 .. Len(others)
        /\ kept[Len(others) + 1] = e
        /\ \A k \in 1 .. Len(others) : kept[k] = others[k]
    BY <1>1, <1>3
  <1> HIDE DEF kept
  <1>7. \A k, l \in DOMAIN kept : kept[k].model = kept[l].model => k = l
    BY <1>1, <1>2, <1>3, <1>6
  <1>8. CASE Len(kept) > CacheSize
    <2>1. kept # <<>>
      BY <1>6
    <2>2. /\ Tail(kept) \in Seq(CacheEntry) /\ Len(Tail(kept)) = Len(kept) - 1
          /\ DOMAIN Tail(kept) = 1 .. (Len(kept) - 1)
          /\ \A k \in 1 .. (Len(kept) - 1) : Tail(kept)[k] = kept[k + 1]
      BY <1>6, <2>1
    <2>3. \A k, l \in DOMAIN Tail(kept) : Tail(kept)[k].model = Tail(kept)[l].model => k = l
      BY <1>6, <1>7, <2>2
    <2> QED
      BY <1>1, <1>4, <1>5, <1>6, <1>8, <2>2, <2>3
  <1>9. CASE ~ (Len(kept) > CacheSize)
    BY <1>4, <1>5, <1>6, <1>7, <1>9
  <1> QED
    BY <1>8, <1>9

-----------------------------------------------------------------------------
(* The plans, and the places of a task.                                    *)
LEMMA OfItsOwn ==
    ASSUME NEW P, NEW s \in Seq(P), NEW Q, \A i \in DOMAIN s : s[i] \in Q
    PROVE  s \in Seq(Q)
  <1>1. s \in [1 .. Len(s) -> P] /\ Len(s) \in Nat /\ DOMAIN s = 1 .. Len(s)
    OBVIOUS
  <1>2. s \in [1 .. Len(s) -> Q]
    BY <1>1
  <1> QED
    BY ONLY <1>1, <1>2, SeqDef

LEMMA RestOfPlans ==
    ASSUME plans \in Seq({plans[i] : i \in DOMAIN plans}), plans # <<>>
    PROVE  /\ 1 \in DOMAIN plans /\ NextPlan = plans[1]
           /\ Tail(plans) \in Seq({Tail(plans)[i] : i \in DOMAIN Tail(plans)})
           /\ \A k \in DOMAIN Tail(plans) :
                k \in Nat \ {0} /\ k + 1 \in DOMAIN plans /\ Tail(plans)[k] = plans[k + 1]
  <1> PICK P : P = {plans[i] : i \in DOMAIN plans}
    OBVIOUS
  <1>1. plans \in Seq(P) /\ plans # <<>>
    OBVIOUS
  <1>2. /\ Tail(plans) \in Seq(P) /\ DOMAIN Tail(plans) = 1 .. (Len(plans) - 1)
        /\ Len(plans) \in Nat \ {0} /\ DOMAIN plans = 1 .. Len(plans)
        /\ Len(Tail(plans)) = Len(plans) - 1
        /\ \A k \in 1 .. (Len(plans) - 1) : Tail(plans)[k] = plans[k + 1]
        /\ Head(plans) = plans[1]
    BY ONLY <1>1
  <1>3. Tail(plans) \in Seq({Tail(plans)[i] : i \in DOMAIN Tail(plans)})
    <2> PICK s : s = Tail(plans)
      OBVIOUS
    <2>1. s \in Seq(P)
      BY <1>2
    <2> PICK Q : Q = {s[i] : i \in DOMAIN s}
      OBVIOUS
    <2>2. \A i \in DOMAIN s : s[i] \in Q
      OBVIOUS
    <2>3. s \in Seq(Q)
      BY ONLY <2>1, <2>2, OfItsOwn
    <2> QED
      BY <2>3
  <1>4. \A k \in 1 .. (Len(plans) - 1) : k \in Nat \ {0} /\ k + 1 \in 1 .. Len(plans)
    BY ONLY <1>2
  <1>5. 1 \in DOMAIN plans
    BY ONLY <1>2
  <1> QED
    BY ONLY <1>2, <1>3, <1>4, <1>5 DEF NextPlan

LEMMA GivenKeeps ==
    ASSUME PlacesIInv, RetainedForWork, plans # <<>>,
           NEW ws, ws \subseteq PoolFor(NextPlan.task), GiveTo(NextPlan, ws),
           UNCHANGED <<held, lateEnds>>
    PROVE  PlacesIInv' /\ RetainedForWork'
  <1> DEFINE t == NextPlan.task
  <1>1. /\ 1 \in DOMAIN plans /\ NextPlan = plans[1]
        /\ Tail(plans) \in Seq({Tail(plans)[i] : i \in DOMAIN Tail(plans)})
        /\ \A k \in DOMAIN Tail(plans) :
             k \in Nat \ {0} /\ k + 1 \in DOMAIN plans /\ Tail(plans)[k] = plans[k + 1]
    BY RestOfPlans DEF PlacesIInv, PlanFields
  <1>2. t \in PlanTasks \ held /\ mark[t] = "pending"
    BY <1>1 DEF PlacesIInv, OnePlace
  <1>3. plans' = Tail(plans) /\ held' = held /\ lateEnds' = lateEnds
    BY DEF GiveTo
  <1>4. /\ mark' \in [PlanTasks -> {"new", "pending", "given", "done"}]
        /\ mark'[t] = "given"
        /\ \A u \in PlanTasks : u # t => mark'[u] = mark[u]
    BY <1>2 DEF GiveTo, PlacesIInv, PlanFields
  <1>5. /\ ws \subseteq Fleet
        /\ \A w \in ws : Suits(w, t)
    BY DEF PoolFor, PlacesIInv, PlanFields
  <1>6. \A w \in Fleet : busyWith'[w] = IF w \in ws THEN t ELSE busyWith[w]
    BY DEF GiveTo
  <1>7. busyWith' \in [Fleet -> PlanTasks \cup {Nobody}]
    BY <1>2 DEF GiveTo, PlacesIInv, PlanFields
  <1>8. tried' \subseteq released' /\ idle' \in SUBSET Fleet
    BY DEF GiveTo, PlacesIInv, PlanFields
  <1> HIDE DEF t
  <1>9. PlanFields'
    <2>1. held' \in SUBSET PlanTasks /\ lateEnds' \in Nat
      BY <1>3 DEF PlacesIInv, PlanFields
    <2>2. plans' \in Seq({plans'[i] : i \in DOMAIN plans'})
      BY ONLY <1>1, <1>3
    <2> QED
      BY ONLY <1>4, <1>7, <1>8, <2>1, <2>2 DEF PlanFields
  <1>10. OnePlace'
    <2>0. \A i, j \in DOMAIN plans : plans[i].task = plans[j].task => i = j
      BY DEF PlacesIInv, OnePlace
    <2>1. \A k \in DOMAIN plans' : plans'[k].task # t
      <3> SUFFICES ASSUME NEW k \in DOMAIN Tail(plans), Tail(plans)[k].task = t
                   PROVE  FALSE
        BY <1>3
      <3>1. k \in Nat \ {0} /\ k + 1 \in DOMAIN plans /\ plans[k + 1].task = plans[1].task
        BY <1>1 DEF t
      <3>2. k + 1 = 1
        BY <1>1, <2>0, <3>1
      <3> QED
        BY ONLY <3>1, <3>2
    <2>2. \A u \in held' : mark'[u] = "pending"
      BY <1>2, <1>3, <1>4 DEF PlacesIInv, OnePlace, PlanFields
    <2>3. \A k \in DOMAIN plans' : plans'[k].task \in PlanTasks \ held' /\ mark'[plans'[k].task] = "pending"
      <3>1. ASSUME NEW k \in DOMAIN Tail(plans)
            PROVE  Tail(plans)[k].task \in PlanTasks \ held /\ mark[Tail(plans)[k].task] = "pending"
        <4>1. k + 1 \in DOMAIN plans /\ Tail(plans)[k] = plans[k + 1]
          BY <1>1
        <4> QED
          BY <4>1 DEF PlacesIInv, OnePlace
      <3> QED
        BY <1>3, <1>4, <2>1, <3>1
    <2>4. \A k, l \in DOMAIN plans' : plans'[k].task = plans'[l].task => k = l
      <3>1. ASSUME NEW k \in DOMAIN Tail(plans), NEW l \in DOMAIN Tail(plans),
                   Tail(plans)[k].task = Tail(plans)[l].task
            PROVE  k = l
        <4>1. k + 1 = l + 1 /\ k \in Nat /\ l \in Nat
          BY <1>1, <3>1 DEF PlacesIInv, OnePlace
        <4> QED
          BY ONLY <4>1
      <3> QED
        BY <1>3, <3>1
    <2> QED
      BY <2>2, <2>3, <2>4 DEF OnePlace
  <1>11. AtWork'
    <2>1. ASSUME NEW w \in Fleet, busyWith'[w] # Nobody
          PROVE  mark'[busyWith'[w]] = "given" /\ Suits(w, busyWith'[w])
      <3>1. CASE w \in ws
        BY <1>4, <1>5, <1>6, <3>1 DEF t
      <3>2. CASE w \notin ws
        <4>1. busyWith'[w] = busyWith[w] /\ mark[busyWith[w]] = "given" /\ Suits(w, busyWith[w])
          BY <1>6, <2>1, <3>2 DEF PlacesIInv, AtWork
        <4>2. busyWith[w] \in PlanTasks
          BY <1>6, <2>1, <4>1 DEF PlacesIInv, PlanFields
        <4> QED
          BY <1>4, <4>1, <4>2
      <3> QED
        BY <3>1, <3>2
    <2> QED
      BY <2>1 DEF AtWork, Suits
  <1>12. RetainedForWork'
    BY <1>1, <1>3 DEF RetainedForWork
  <1> QED
    BY <1>9, <1>10, <1>11, <1>12 DEF PlacesIInv

LEMMA PlannedKeeps ==
    ASSUME PlacesIInv, CountsIInv, NEW batch, batch \subseteq held, PlanBatch(batch),
           UNCHANGED <<taskVars, fleetVars, lateEnds>>
    PROVE  PlacesIInv' /\ CountsIInv' /\ RetainedForWork'
  <1> DEFINE ts == ReadyOf(batch)
             n == Cardinality(ts)
             left == Lowered(counts, ts, batch)
             order == Ranked(ts)
             later(i) == {order[j] : j \in (i + 1) .. Len(order)}
  <1>1. ts \in SUBSET held /\ ts \in SUBSET PlanTasks /\ held \in SUBSET PlanTasks
    BY DEF ReadyOf, PlacesIInv, PlanFields
  <1>2. held' = held \ ts
    BY <1>1 DEF PlanBatch, ReadyOf
  <1>3. /\ n \in Nat /\ DOMAIN order = 1 .. n /\ Len(order) = n
        /\ \A k \in 1 .. n : order[k] \in ts
        /\ \A i, j \in 1 .. n : order[i] = order[j] => i = j
    BY <1>1, RankedLists
  <1>4. counts' = left
    BY DEF PlanBatch
  <1>5. /\ DOMAIN plans' = 1 .. n
        /\ \A i \in 1 .. n : /\ plans'[i].task = order[i]
                             /\ plans'[i].retain = Retain(order, i, left)
                             /\ plans'[i].rest = OfModel(held' \cup later(i), ModelOf[order[i]])
    BY <1>3 DEF PlanBatch
  <1>6. plans' \in [1 .. n -> {plans'[i] : i \in DOMAIN plans'}]
    <2>1. \E f : plans' = [i \in DOMAIN order |-> f[i]]
      <3>1. plans' = [i \in DOMAIN order |->
                        [task |-> order[i], prefers |-> Preference(ts, order[i]),
                         retain |-> Retain(order, i, left),
                         rest |-> OfModel(held' \cup later(i), ModelOf[order[i]])]]
        BY DEF PlanBatch
      <3>2. plans' = [i \in DOMAIN order |-> plans'[i]]
        BY ONLY <3>1
      <3> QED
        BY ONLY <3>2
    <2> QED
      BY ONLY <2>1, <1>3
  <1>7. plans' \in Seq({plans'[i] : i \in DOMAIN plans'})
    <2> PICK Q : Q = {plans'[i] : i \in DOMAIN plans'}
      OBVIOUS
    <2>1. plans' \in [1 .. n -> Q] /\ n \in Nat
      BY <1>3, <1>6
    <2>2. plans' \in Seq(Q)
      BY ONLY <2>1, SeqDef
    <2> QED
      BY <2>2
  <1>8. /\ left \in [ModelNames -> Nat]
        /\ Covers(held', left)
        /\ lateEnds = 0 => Matches(held', left)
    BY <1>1, <1>2, TasksTaken DEF CountsIInv
  <1>9. CountsIInv'
    BY <1>4, <1>8 DEF CountsIInv, Covers, Matches
  <1> HIDE DEF ts, n, left, order
  <1>10. PlanFields'
    BY <1>1, <1>2, <1>7 DEF PlacesIInv, PlanFields, taskVars, fleetVars
  <1>11. OnePlace'
    <2>1. \A t \in held' : mark'[t] = "pending"
      BY <1>2 DEF PlacesIInv, OnePlace, taskVars
    <2>2. \A i \in DOMAIN plans' : plans'[i].task \in PlanTasks \ held' /\ mark'[plans'[i].task] = "pending"
      <3>1. ASSUME NEW i \in 1 .. n
            PROVE  plans'[i].task \in PlanTasks \ held' /\ mark'[plans'[i].task] = "pending"
        <4>1. plans'[i].task = order[i] /\ order[i] \in ts
          BY <1>3, <1>5
        <4>2. order[i] \in held /\ order[i] \in PlanTasks \ held' /\ mark[order[i]] = "pending"
          BY <1>1, <1>2, <4>1 DEF PlacesIInv, OnePlace
        <4> QED
          BY <4>1, <4>2 DEF taskVars
      <3> QED
        BY <1>5, <3>1
    <2>3. \A i, j \in DOMAIN plans' : plans'[i].task = plans'[j].task => i = j
      <3>1. ASSUME NEW i \in 1 .. n, NEW j \in 1 .. n, plans'[i].task = plans'[j].task
            PROVE  i = j
        <4>1. plans'[i].task = order[i] /\ plans'[j].task = order[j]
          BY <1>5
        <4> QED
          BY <1>3, <3>1, <4>1
      <3> QED
        BY <1>5, <3>1
    <2> QED
      BY <2>1, <2>2, <2>3 DEF OnePlace
  <1>12. AtWork'
    BY DEF PlacesIInv, AtWork, Suits, taskVars, fleetVars
  <1>13. ASSUME lateEnds' = 0, NEW i \in 1 .. n
         PROVE  plans'[i].retain <=> plans'[i].rest # {}
    <2> DEFINE m == ModelOf[order[i]]
    <2>1. m \in ModelNames
      BY <1>1, <1>3 DEF ModelNames
    <2>2. left[m] = Cardinality(OfModel(held', m)) /\ left[m] \in Nat
      BY <1>8, <1>13, <2>1 DEF Matches
    <2>3. left[m] > 0 <=> OfModel(held', m) # {}
      BY <1>1, <1>2, <2>2, ModelsOf
    <2>4. OfModel(held' \cup later(i), m) = OfModel(held', m) \cup OfModel(later(i), m)
      BY DEF OfModel
    <2>5. OfModel(later(i), m) # {} <=> \E j \in DOMAIN order : j > i /\ ModelOf[order[j]] = m
      <3>1. \A j : j \in (i + 1) .. Len(order) <=> j \in DOMAIN order /\ j > i
        BY <1>3
      <3> QED
        BY <3>1 DEF OfModel
    <2>6. Retain(order, i, left) <=> OfModel(held' \cup later(i), m) # {}
      BY <2>3, <2>4, <2>5 DEF Retain
    <2>7. plans'[i].retain = Retain(order, i, left) /\ plans'[i].rest = OfModel(held' \cup later(i), m)
      BY <1>5
    <2> QED
      BY <2>6, <2>7, Zenon
  <1>14. RetainedForWork'
    BY <1>5, <1>13 DEF RetainedForWork
  <1> QED
    BY <1>9, <1>10, <1>11, <1>12, <1>14 DEF PlacesIInv

LEMMA DeferredKeeps ==
    ASSUME PlacesIInv, CountsIInv, RetainedForWork, DispatchDeferred
    PROVE  PlacesIInv' /\ CountsIInv' /\ RetainedForWork'
  <1> DEFINE t == NextPlan.task
  <1>1. /\ 1 \in DOMAIN plans /\ NextPlan = plans[1]
        /\ Tail(plans) \in Seq({Tail(plans)[i] : i \in DOMAIN Tail(plans)})
        /\ \A k \in DOMAIN Tail(plans) :
             k \in Nat \ {0} /\ k + 1 \in DOMAIN plans /\ Tail(plans)[k] = plans[k + 1]
    BY RestOfPlans DEF PlacesIInv, PlanFields, DispatchDeferred
  <1>2. t \in PlanTasks \ held /\ mark[t] = "pending"
    BY <1>1 DEF PlacesIInv, OnePlace
  <1>3. /\ plans' = Tail(plans) /\ held' = held \cup {t} /\ counts' = AddCount(t)
        /\ UNCHANGED <<mark, tried, released, idle, busyWith, lateEnds>>
    BY DEF DispatchDeferred, taskVars, fleetVars
  <1> HIDE DEF t
  <1>4. PlanFields'
    BY <1>1, <1>2, <1>3 DEF PlacesIInv, PlanFields
  <1>5. OnePlace'
    <2>1. \A i, j \in DOMAIN plans : plans[i].task = plans[j].task => i = j
      BY DEF PlacesIInv, OnePlace
    <2>2. ASSUME NEW k \in DOMAIN Tail(plans)
          PROVE  Tail(plans)[k].task \in PlanTasks \ (held \cup {t}) /\ mark[Tail(plans)[k].task] = "pending"
      <3>1. k \in Nat \ {0} /\ k + 1 \in DOMAIN plans /\ Tail(plans)[k] = plans[k + 1]
        BY <1>1
      <3>2. k + 1 # 1
        BY ONLY <3>1
      <3>3. plans[k + 1].task # t
        BY <1>1, <2>1, <3>1, <3>2 DEF t
      <3> QED
        BY <3>1, <3>3 DEF PlacesIInv, OnePlace
    <2>3. ASSUME NEW k \in DOMAIN Tail(plans), NEW l \in DOMAIN Tail(plans),
                 Tail(plans)[k].task = Tail(plans)[l].task
          PROVE  k = l
      <3>1. k + 1 = l + 1 /\ k \in Nat /\ l \in Nat
        BY <1>1, <2>1, <2>3
      <3> QED
        BY ONLY <3>1
    <2>4. \A u \in held' : mark'[u] = "pending"
      BY <1>2, <1>3 DEF PlacesIInv, OnePlace
    <2> QED
      BY <1>3, <2>2, <2>3, <2>4 DEF OnePlace
  <1>6. AtWork'
    BY <1>3 DEF PlacesIInv, AtWork, Suits
  <1>7. CountsIInv'
    <2>1. held \in SUBSET PlanTasks
      BY DEF PlacesIInv, PlanFields
    <2>2. /\ AddCount(t) \in [ModelNames -> Nat]
          /\ Covers(held, counts) => Covers(held \cup {t}, AddCount(t))
          /\ Matches(held, counts) => Matches(held \cup {t}, AddCount(t))
      BY <1>2, <2>1, TaskAdded DEF CountsIInv
    <2> QED
      BY <1>3, <2>2 DEF CountsIInv, Covers, Matches
  <1>8. RetainedForWork'
    BY <1>1, <1>3 DEF RetainedForWork
  <1> QED
    BY <1>4, <1>5, <1>6, <1>7, <1>8 DEF PlacesIInv

(* A task that was nowhere, or with one worker, is put into the pool.      *)
LEMMA EnteredKeeps ==
    ASSUME PlacesIInv, CountsIInv, RetainedForWork,
           NEW t \in PlanTasks, mark[t] \in {"new", "given"},
           mark' = [mark EXCEPT ![t] = "pending"], held' = held \cup {t}, counts' = AddCount(t),
           idle' \in SUBSET Fleet, busyWith' \in [Fleet -> PlanTasks \cup {Nobody}],
           \A w \in Fleet : \/ busyWith'[w] = Nobody
                            \/ busyWith'[w] = busyWith[w] /\ busyWith[w] # t,
           UNCHANGED <<tried, released, plans, lateEnds>>
    PROVE  PlacesIInv' /\ CountsIInv' /\ RetainedForWork'
  <1>1. t \notin held /\ \A i \in DOMAIN plans : plans[i].task # t
    BY DEF PlacesIInv, OnePlace
  <1>2. /\ mark' \in [PlanTasks -> {"new", "pending", "given", "done"}]
        /\ mark'[t] = "pending"
        /\ \A u \in PlanTasks : u # t => mark'[u] = mark[u]
    BY DEF PlacesIInv, PlanFields
  <1>3. PlanFields'
    BY <1>2 DEF PlacesIInv, PlanFields
  <1>4. OnePlace'
    BY <1>1, <1>2 DEF PlacesIInv, OnePlace, PlanFields
  <1>5. AtWork'
    BY <1>2 DEF PlacesIInv, PlanFields, AtWork, Suits
  <1>6. CountsIInv'
    <2>1. held \in SUBSET PlanTasks
      BY DEF PlacesIInv, PlanFields
    <2>2. /\ AddCount(t) \in [ModelNames -> Nat]
          /\ Covers(held, counts) => Covers(held \cup {t}, AddCount(t))
          /\ Matches(held, counts) => Matches(held \cup {t}, AddCount(t))
      BY <1>1, <2>1, TaskAdded DEF CountsIInv
    <2> QED
      BY <2>2 DEF CountsIInv, Covers, Matches
  <1>7. RetainedForWork'
    BY DEF RetainedForWork
  <1> QED
    BY <1>3, <1>4, <1>5, <1>6, <1>7 DEF PlacesIInv

LEMMA FinishKeeps ==
    ASSUME PlacesIInv, NEW w \in Fleet, Finish(w)
    PROVE  PlacesIInv'
  <1> DEFINE t == busyWith[w]
  <1>1. t \in PlanTasks /\ mark[t] = "given"
    BY DEF Finish, PlacesIInv, PlanFields, AtWork
  <1>2. /\ mark' \in [PlanTasks -> {"new", "pending", "given", "done"}]
        /\ \A u \in PlanTasks : u # t => mark'[u] = mark[u]
        /\ (\E v \in Fleet \ {w} : busyWith[v] = t) => mark'[t] = "given"
    <2>1. PICK s : s \in {"given", "done"} /\ mark' = [mark EXCEPT ![t] = s]
                   /\ ((\E v \in Fleet \ {w} : busyWith[v] = t) => s = "given")
      <3>1. CASE \A v \in Fleet \ {w} : busyWith[v] # t
        BY <1>1, <3>1 DEF Finish, PlacesIInv, PlanFields
      <3>2. CASE ~ \A v \in Fleet \ {w} : busyWith[v] # t
        BY <1>1, <3>2 DEF Finish, PlacesIInv, PlanFields
      <3> QED
        BY <3>1, <3>2
    <2> QED
      BY <1>1, <2>1 DEF PlacesIInv, PlanFields
  <1>3. /\ busyWith' = [busyWith EXCEPT ![w] = Nobody] /\ idle' = idle \cup {w}
        /\ UNCHANGED <<tried, released, held, plans, lateEnds>>
    BY DEF Finish
  <1>4. /\ busyWith' \in [Fleet -> PlanTasks \cup {Nobody}]
        /\ busyWith'[w] = Nobody
        /\ \A v \in Fleet \ {w} : busyWith'[v] = busyWith[v]
    BY <1>3 DEF PlacesIInv, PlanFields
  <1> HIDE DEF t
  <1>5. PlanFields'
    BY <1>2, <1>3, <1>4 DEF PlacesIInv, PlanFields
  <1>6. OnePlace'
    BY <1>1, <1>2, <1>3 DEF PlacesIInv, OnePlace, PlanFields
  <1>7. AtWork'
    BY <1>2, <1>4 DEF PlacesIInv, PlanFields, AtWork, Suits
  <1> QED
    BY <1>5, <1>6, <1>7 DEF PlacesIInv

LEMMA LateEndKeeps ==
    ASSUME PlacesIInv, CountsIInv, NEW t \in PlanTasks, LateEnd(t)
    PROVE  PlacesIInv' /\ CountsIInv' /\ RetainedForWork'
  <1>1. t \in held /\ mark[t] = "pending"
    BY DEF LateEnd, PlacesIInv, OnePlace
  <1>2. /\ mark' = [mark EXCEPT ![t] = "done"] /\ held' = held \ {t} /\ lateEnds' = lateEnds + 1
        /\ UNCHANGED <<tried, released, plans, counts, idle, busyWith>>
    BY DEF LateEnd, fleetVars
  <1>3. /\ mark' \in [PlanTasks -> {"new", "pending", "given", "done"}]
        /\ mark'[t] = "done"
        /\ \A u \in PlanTasks : u # t => mark'[u] = mark[u]
    BY <1>2 DEF PlacesIInv, PlanFields
  <1>4. lateEnds' \in Nat /\ lateEnds' # 0
    BY <1>2 DEF PlacesIInv, PlanFields
  <1>5. PlanFields'
    BY <1>2, <1>3, <1>4 DEF PlacesIInv, PlanFields
  <1>6. OnePlace'
    BY <1>1, <1>2, <1>3 DEF PlacesIInv, OnePlace, PlanFields
  <1>7. AtWork'
    BY <1>1, <1>2, <1>3 DEF PlacesIInv, PlanFields, AtWork, Suits
  <1>8. Covers(held', counts)
    <2>1. ASSUME NEW m \in ModelNames
          PROVE  Cardinality(OfModel(held', m)) <= counts[m]
      <3>1. held \in SUBSET PlanTasks
        BY DEF PlacesIInv, PlanFields
      <3>2. OfModel(held', m) \subseteq OfModel(held, m)
        BY <1>2 DEF OfModel
      <3>3. Cardinality(OfModel(held', m)) <= Cardinality(OfModel(held, m))
        BY <3>1, <3>2, ModelsOf, FS_Subset
      <3>4. Cardinality(OfModel(held, m)) <= counts[m] /\ counts[m] \in Nat
        BY DEF CountsIInv, Covers
      <3>5. Cardinality(OfModel(held, m)) \in Nat /\ Cardinality(OfModel(held', m)) \in Nat
        BY <1>2, <3>1, ModelsOf
      <3> QED
        BY ONLY <3>3, <3>4, <3>5
    <2> QED
      BY <2>1 DEF Covers
  <1>9. CountsIInv'
    BY <1>2, <1>4, <1>8 DEF CountsIInv, Covers
  <1> QED
    BY <1>4, <1>5, <1>6, <1>7, <1>9 DEF PlacesIInv, RetainedForWork

-----------------------------------------------------------------------------
(* The initial state and every step.                                       *)
LEMMA PlanInitInv == PlanInit => PlanIInv
  <1> SUFFICES ASSUME PlanInit
               PROVE  PlanIInv
    OBVIOUS
  <1>1. plans = <<>> /\ DOMAIN plans = {} /\ cache = <<>> /\ DOMAIN cache = {} /\ Len(cache) = 0
    BY DEF PlanInit
  <1>2. PlanFields
    <2>1. mark \in [PlanTasks -> {"new", "pending", "given", "done"}]
      BY DEF PlanInit
    <2>2. busyWith \in [Fleet -> PlanTasks \cup {Nobody}]
      BY DEF PlanInit
    <2>3. plans \in Seq({plans[i] : i \in DOMAIN plans})
      BY <1>1
    <2> QED
      BY <2>1, <2>2, <2>3 DEF PlanInit, PlanFields
  <1>3. OnePlace /\ RetainedForWork
    BY <1>1 DEF PlanInit, OnePlace, RetainedForWork
  <1>4. AtWork
    BY DEF PlanInit, AtWork
  <1>5. CountsIInv
    <2>1. \A m \in ModelNames : Cardinality(OfModel({}, m)) = 0
      BY FS_EmptySet DEF OfModel
    <2>2. counts \in [ModelNames -> Nat] /\ \A m \in ModelNames : counts[m] = 0
      BY DEF PlanInit
    <2>3. held = {}
      BY DEF PlanInit
    <2> QED
      BY <2>1, <2>2, <2>3 DEF CountsIInv, Covers, Matches
  <1>6. CacheIInv
    BY <1>1, PlanFacts DEF CacheIInv
  <1> QED
    BY <1>2, <1>3, <1>4, <1>5, <1>6 DEF PlanIInv, PlacesIInv

LEMMA ForgottenKeeps ==
    ASSUME CacheIInv, NEW w, cache' = Forgotten(w)
    PROVE  CacheIInv'
  <1> PICK places \in SUBSET DOMAIN cache : cache' = KeptAt(places)
    BY DEF Forgotten
  <1> QED
    BY KeptEntries DEF CacheIInv, CacheEntry

LEMMA ExpiredKeeps ==
    ASSUME CacheIInv, cache # <<>>, cache' = Tail(cache)
    PROVE  CacheIInv'
  <1>1. /\ Tail(cache) \in Seq(CacheEntry) /\ Len(Tail(cache)) = Len(cache) - 1
        /\ Len(cache) \in Nat \ {0} /\ DOMAIN cache = 1 .. Len(cache)
        /\ DOMAIN Tail(cache) = 1 .. (Len(cache) - 1)
        /\ \A k \in 1 .. (Len(cache) - 1) : Tail(cache)[k] = cache[k + 1]
    BY DEF CacheIInv
  <1>2. ASSUME NEW k \in DOMAIN Tail(cache), NEW l \in DOMAIN Tail(cache),
               Tail(cache)[k].model = Tail(cache)[l].model
        PROVE  k = l
    <2>1. k + 1 \in DOMAIN cache /\ l + 1 \in DOMAIN cache /\ k \in Nat /\ l \in Nat
      BY <1>1
    <2>2. k + 1 = l + 1
      BY <1>1, <1>2, <2>1 DEF CacheIInv
    <2> QED
      BY ONLY <2>1, <2>2
  <1>3. Len(Tail(cache)) <= CacheSize
    BY <1>1, PlanFacts DEF CacheIInv
  <1> QED
    BY <1>1, <1>2, <1>3 DEF CacheIInv, CacheEntry

LEMMA LowestIsThere ==
    ASSUME NEW ws \in SUBSET Fleet, ws # {}
    PROVE  SetExt!Min(ws) \in ws
  <1>1. IsFiniteSet(ws) /\ Cardinality(ws) \in Nat \ {0} /\ \A w \in ws : w \in Nat
    BY PlanFacts, WorkerOrder, FS_EmptySet
  <1>2. \A v, w \in ws : <<v, w>> \in LessIn(ws) <=> v < w
    BY DEF LessIn
  <1>3. Orders(LessIn(ws), ws)
    BY <1>1, <1>2 DEF Orders
  <1>4. PICK w \in ws : Cardinality(Below(LessIn(ws), ws, w)) = 0
    BY <1>1, <1>3, RankTaken
  <1>5. Below(LessIn(ws), ws, w) = {}
    <2>1. IsFiniteSet(Below(LessIn(ws), ws, w))
      BY <1>1, FS_Subset DEF Below
    <2> QED
      BY <1>4, <2>1, FS_EmptySet
  <1>6. \A v \in ws : <<v, w>> \notin LessIn(ws)
    BY <1>5 DEF Below
  <1>7. \A v \in ws : ~ (v < w)
    BY <1>2, <1>6
  <1>8. \A v \in ws : w <= v
    BY ONLY <1>1, <1>7
  <1> QED
    BY <1>8 DEF SetExt!Min

LEMMA CandidatesFit ==
    ASSUME NEW ws \in SUBSET Fleet, ws # {}, NEW p
    PROVE  Candidates(p, ws) \subseteq ws
  BY BestIsThere, LowestIsThere DEF Candidates

LEMMA PlanStepInv == PlanIInv /\ [PlanNext]_planVars => PlanIInv'
  <1> SUFFICES ASSUME PlanIInv, [PlanNext]_planVars
               PROVE  PlanIInv'
    OBVIOUS
  <1> USE DEF PlanIInv
  <1>1. ASSUME NEW t \in PlanTasks, Enqueue(t)
        PROVE  PlanIInv'
    <2>1. PlacesIInv' /\ CountsIInv' /\ RetainedForWork'
      <3>1. \A w \in Fleet : \/ busyWith'[w] = Nobody
                             \/ busyWith'[w] = busyWith[w] /\ busyWith[w] # t
        BY <1>1 DEF Enqueue, fleetVars, PlacesIInv, AtWork
      <3> QED
        BY <1>1, <3>1, EnteredKeeps DEF Enqueue, fleetVars, PlacesIInv, PlanFields
    <2> QED
      BY <1>1, <2>1 DEF Enqueue, CacheIInv
  <1>2. ASSUME NEW t \in PlanTasks, TimePasses(t)
        PROVE  PlanIInv'
    BY <1>2 DEF TimePasses, taskVars, fleetVars, PlacesIInv, PlanFields, OnePlace, AtWork, Suits,
                CountsIInv, Covers, Matches, CacheIInv, RetainedForWork
  <1>3. ASSUME NEW t \in PlanTasks, LateEnd(t)
        PROVE  PlanIInv'
    BY <1>3, LateEndKeeps DEF LateEnd, CacheIInv
  <1>4. CASE FlushWhenDue
    <2>1. DueTasks \subseteq held
      BY DEF DueTasks, Most
    <2>2. PlacesIInv' /\ CountsIInv' /\ RetainedForWork'
      BY <1>4, <2>1, PlannedKeeps DEF FlushWhenDue
    <2> QED
      BY <1>4, <2>2 DEF FlushWhenDue, CacheIInv
  <1>5. CASE FlushEverything
    <2>1. PlacesIInv' /\ CountsIInv' /\ RetainedForWork'
      BY <1>5, PlannedKeeps DEF FlushEverything
    <2> QED
      BY <1>5, <2>1 DEF FlushEverything, CacheIInv
  <1>6. CASE DispatchParallel
    <2>1. PICK ws : ws \subseteq PoolFor(NextPlan.task) /\ GiveTo(NextPlan, ws)
      BY <1>6 DEF DispatchParallel
    <2>2. plans # <<>> /\ UNCHANGED <<held, counts, cache, lateEnds>>
      BY <1>6 DEF DispatchParallel
    <2>3. PlacesIInv' /\ RetainedForWork'
      BY <2>1, <2>2, GivenKeeps
    <2> QED
      BY <2>2, <2>3 DEF CountsIInv, Covers, Matches, CacheIInv
  <1>7. CASE DispatchAlone
    <2>1. /\ plans # <<>> /\ PoolFor(NextPlan.task) # {}
          /\ UNCHANGED <<held, counts, lateEnds>>
      BY <1>7 DEF DispatchAlone
    <2>2. PICK w \in Candidates(NextPlan, PoolFor(NextPlan.task)) :
            /\ GiveTo(NextPlan, {w})
            /\ cache' = Remember(ModelOf[NextPlan.task], w)
      BY <1>7 DEF DispatchAlone
    <2>3. PoolFor(NextPlan.task) \in SUBSET Fleet
      BY DEF PoolFor, PlacesIInv, PlanFields
    <2>4. w \in PoolFor(NextPlan.task) /\ w \in Fleet
      BY <2>1, <2>2, <2>3, CandidatesFit
    <2>5. PlacesIInv' /\ RetainedForWork'
      BY <2>1, <2>2, <2>4, GivenKeeps
    <2>6. ModelOf[NextPlan.task] \in ModelNames
      BY <2>1, RestOfPlans DEF PlacesIInv, PlanFields, OnePlace, ModelNames
    <2>7. CacheIInv'
      BY <2>2, <2>4, <2>6, Remembered DEF CacheIInv, CacheEntry
    <2> QED
      BY <2>1, <2>5, <2>7 DEF CountsIInv, Covers, Matches
  <1>8. CASE DispatchDeferred
    BY <1>8, DeferredKeeps DEF DispatchDeferred, CacheIInv
  <1>9. ASSUME NEW w \in Fleet, Finish(w)
        PROVE  PlanIInv'
    <2>1. PlacesIInv'
      BY <1>9, FinishKeeps
    <2> QED
      BY <1>9, <2>1 DEF Finish, CountsIInv, Covers, Matches, CacheIInv, RetainedForWork
  <1>10. ASSUME NEW w \in Fleet, FailOn(w)
         PROVE  PlanIInv'
    <2>1. PICK t : t = busyWith[w]
      OBVIOUS
    <2>2. t \in PlanTasks /\ mark[t] = "given"
      BY <1>10, <2>1 DEF FailOn, PlacesIInv, PlanFields, AtWork
    <2>3. /\ busyWith' = [busyWith EXCEPT ![w] = Nobody] /\ idle' = idle \cup {w}
          /\ \A v \in Fleet \ {w} : busyWith[v] # t
          /\ mark' = [mark EXCEPT ![t] = "pending"] /\ held' = held \cup {t} /\ counts' = AddCount(t)
          /\ cache' = Forgotten(w)
          /\ UNCHANGED <<tried, released, plans, lateEnds>>
      BY <1>10, <2>1 DEF FailOn
    <2>4. /\ idle' \in SUBSET Fleet /\ busyWith' \in [Fleet -> PlanTasks \cup {Nobody}]
          /\ \A v \in Fleet : \/ busyWith'[v] = Nobody
                              \/ busyWith'[v] = busyWith[v] /\ busyWith[v] # t
      BY <2>3 DEF PlacesIInv, PlanFields
    <2>5. PlacesIInv' /\ CountsIInv' /\ RetainedForWork'
      BY <2>2, <2>3, <2>4, EnteredKeeps
    <2>6. CacheIInv'
      BY <2>3, ForgottenKeeps
    <2> QED
      BY <2>5, <2>6
  <1>11. ASSUME NEW w \in Fleet, LeaveFleet(w)
         PROVE  PlanIInv'
    <2>1. CacheIInv'
      BY <1>11, ForgottenKeeps DEF LeaveFleet
    <2> QED
      BY <1>11, <2>1 DEF LeaveFleet, taskVars, PlacesIInv, PlanFields, OnePlace, AtWork, Suits,
                         CountsIInv, Covers, Matches, RetainedForWork
  <1>12. CASE CacheExpires
    <2>1. CacheIInv'
      BY <1>12, ExpiredKeeps DEF CacheExpires
    <2> QED
      BY <1>12, <2>1 DEF CacheExpires, taskVars, fleetVars, PlacesIInv, PlanFields, OnePlace, AtWork,
                         Suits, CountsIInv, Covers, Matches, RetainedForWork
  <1>13. CASE UNCHANGED planVars
    BY <1>13 DEF planVars, taskVars, fleetVars, PlacesIInv, PlanFields, OnePlace, AtWork, Suits,
                 CountsIInv, Covers, Matches, CacheIInv, RetainedForWork
  <1> QED
    BY <1>1, <1>2, <1>3, <1>4, <1>5, <1>6, <1>7, <1>8, <1>9, <1>10, <1>11, <1>12, <1>13 DEF PlanNext

LEMMA PlanningIsSound == PlanIInv => PlanInv
  <1> SUFFICES ASSUME PlanIInv
               PROVE  PlanInv
    OBVIOUS
  <1>1. PlanTypeOK
    <2>1. \A t \in PlanTasks : mark[t] \in {"new", "pending", "given", "done"}
      BY DEF PlanIInv, PlacesIInv, PlanFields
    <2>2. \A w \in Fleet : busyWith[w] \in PlanTasks \cup {Nobody}
      BY DEF PlanIInv, PlacesIInv, PlanFields
    <2>3. \A m \in ModelNames : counts[m] \in Nat
      BY DEF PlanIInv, CountsIInv
    <2>4. /\ Len(cache) <= CacheSize
          /\ \A i, j \in DOMAIN cache : cache[i].model = cache[j].model => i = j
      BY DEF PlanIInv, CacheIInv
    <2> QED
      BY <2>1, <2>2, <2>3, <2>4 DEF PlanTypeOK, PlanIInv, PlacesIInv, PlanFields
  <1>2. CountsCoverPool /\ RetainedForWork
    BY DEF PlanIInv, CountsIInv, Covers, CountsCoverPool
  <1>3. OnlySuitedWork
    <2>1. ASSUME NEW w \in Fleet, busyWith[w] # Nobody
          PROVE  /\ Requires[busyWith[w]].gpus <= Hardware[w].gpus
                 /\ Hardware[w].cores > 0 => Requires[busyWith[w]].cores <= Hardware[w].cores
      <3>1. busyWith[w] \in PlanTasks /\ Suits(w, busyWith[w])
        BY <2>1 DEF PlanIInv, PlacesIInv, PlanFields, AtWork
      <3>2. /\ Requires[busyWith[w]].gpus \in Nat /\ Hardware[w].gpus \in Nat
            /\ Requires[busyWith[w]].cores \in Nat /\ Hardware[w].cores \in Nat
        BY <3>1, PlanFacts
      <3> QED
        BY <3>1, <3>2 DEF Suits
    <2> QED
      BY <2>1 DEF OnlySuitedWork
  <1> QED
    BY <1>1, <1>2, <1>3 DEF PlanInv

(* The planner's counters cover the pool, an engine is kept for work there *)
(* is, and no worker has a task it reports too little hardware for         *)
(* (TaskPoolManager._optimize_batch, _hw_satisfies).                       *)
THEOREM PlannerDecidesWell == PlanSpec => []PlanInv
  <1>1. PlanSpec => []PlanIInv
    BY PlanInitInv, PlanStepInv, PTL DEF PlanSpec
  <1> QED
    BY <1>1, PlanningIsSound, PTL

-----------------------------------------------------------------------------
(* The workers kept for the others.                                        *)
LEMMA LowerOfTwo ==
    ASSUME NEW a \in Nat, NEW b \in Nat
    PROVE  SetExt!Min({a, b}) = IF a <= b THEN a ELSE b
  <1>1. CASE a <= b
    <2>1. \E x \in {a, b} : \A y \in {a, b} : x <= y
      BY <1>1
    <2>2. SetExt!Min({a, b}) \in {a, b} /\ \A y \in {a, b} : SetExt!Min({a, b}) <= y
      BY <2>1 DEF SetExt!Min
    <2> QED
      BY <1>1, <2>2
  <1>2. CASE ~ (a <= b)
    <2>1. \E x \in {a, b} : \A y \in {a, b} : x <= y
      BY <1>2
    <2>2. SetExt!Min({a, b}) \in {a, b} /\ \A y \in {a, b} : SetExt!Min({a, b}) <= y
      BY <2>1 DEF SetExt!Min
    <2> QED
      BY <1>2, <2>2
  <1> QED
    BY <1>1, <1>2

LEMMA LowestOfThree ==
    ASSUME NEW a \in Nat, NEW b \in Nat, NEW c \in Nat
    PROVE  SetExt!Min({a, b, c}) \in {a, b, c} /\ SetExt!Min({a, b, c}) <= c
  <1>1. \E x \in {a, b, c} : \A y \in {a, b, c} : x <= y
    <2>1. (a <= b /\ a <= c) \/ (b <= a /\ b <= c) \/ (c <= a /\ c <= b)
      OBVIOUS
    <2> QED
      BY <2>1
  <1> QED
    BY <1>1 DEF SetExt!Min

LEMMA OneOrMore ==
    ASSUME NEW a \in Nat
    PROVE  SetExt!Max({1, a}) \in Nat /\ (SetExt!Max({1, a}) > 1 => SetExt!Max({1, a}) = a)
  <1>1. \E x \in {1, a} : \A y \in {1, a} : x >= y
    <2>1. 1 >= a \/ a >= 1
      OBVIOUS
    <2> QED
      BY <2>1
  <1>2. SetExt!Max({1, a}) \in {1, a}
    BY <1>1 DEF SetExt!Max
  <1> QED
    BY <1>2

(* choose_strategy.                                                        *)
LEMMA ShardsLeaveRoom ==
    ASSUME NEW t, Queued \in Nat, PoolFor(t) \in SUBSET Fleet, ShardTarget(t) > 1
    PROVE  /\ ShardTarget(t) \in Nat
           /\ ShardTarget(t) + (IF Queued = 0 THEN 0 ELSE Queued - 1) <= Cardinality(PoolFor(t))
  <1>1. PICK n \in Nat : n = Cardinality(PoolFor(t))
    BY WorkerOrder
  <1>2. PICK others \in Nat : others = IF Queued = 0 THEN 0 ELSE Queued - 1
    OBVIOUS
  <1>3. PICK kept \in Nat : kept = SetExt!Min({n, others}) /\ kept = IF n <= others THEN n ELSE others
    BY LowerOfTwo
  <1>4. PICK room \in Nat : room = n - kept
    BY ONLY <1>3, n \in Nat, others \in Nat, kept \in Nat
  <1>5. MaxShards \in Nat
    BY PlanFacts
  <1>6. PICK k : k = SetExt!Min({n, MaxShards, room})
    OBVIOUS
  <1>7. k \in Nat /\ k <= room
    BY ONLY <1>5, <1>6, n \in Nat, room \in Nat, LowestOfThree
  <1>8. ShardTarget(t) = SetExt!Max({1, k})
    BY <1>1, <1>2, <1>3, <1>4, <1>6 DEF ShardTarget
  <1>9. ShardTarget(t) \in Nat /\ ShardTarget(t) = k
    BY <1>7, <1>8, OneOrMore
  <1>10. k > 1 /\ k + others <= n
    BY ONLY <1>3, <1>4, <1>7, <1>9, ShardTarget(t) > 1, n \in Nat, others \in Nat, kept \in Nat, room \in Nat
  <1> QED
    BY <1>1, <1>2, <1>9, <1>10

(* No step but a dispatch gives a worker a task, and but the sharded one   *)
(* to more than one.                                                       *)
Receivers(t) == {w \in Fleet : busyWith'[w] = t /\ busyWith[w] # t}

LEMMA OneReceiver ==
    ASSUME NEW t \in PlanTasks, NEW v,
           \A w \in Fleet \ {v} : busyWith'[w] \in {busyWith[w], Nobody}
    PROVE  ~ (Cardinality(Receivers(t)) > 1)
  <1>1. Receivers(t) \subseteq {v}
    BY PlanFacts DEF Receivers, Nobody
  <1>2. IsFiniteSet({v}) /\ Cardinality({v}) = 1
    BY FS_Singleton
  <1>3. Cardinality(Receivers(t)) <= 1 /\ Cardinality(Receivers(t)) \in Nat
    BY <1>1, <1>2, FS_Subset, FS_CardinalityType
  <1> QED
    BY <1>3

LEMMA ParallelReserves ==
    ASSUME PlanIInv, DispatchParallel, NEW t \in PlanTasks \ released,
           Cardinality(Receivers(t)) > 1
    PROVE  Cardinality(idle') >= Cardinality(Fresh \ {t})
  <1> DEFINE p == NextPlan.task
             k == ShardTarget(p)
             chosen == {w \in PoolFor(p) : Cardinality({v \in PoolFor(p) : Better(v, w)}) < k}
  <1>1. plans # <<>> /\ k > 1 /\ GiveTo(NextPlan, chosen)
    BY DEF DispatchParallel, GoesSharded
  <1>2. p \in PlanTasks /\ mark[p] = "pending"
    BY <1>1, RestOfPlans DEF PlanIInv, PlacesIInv, PlanFields, OnePlace
  <1>3. PoolFor(p) \in SUBSET Fleet /\ PoolFor(p) \subseteq idle /\ idle \in SUBSET Fleet
    BY DEF PoolFor, PlanIInv, PlacesIInv, PlanFields
  <1>4. \A w \in Fleet : busyWith'[w] = IF w \in chosen THEN p ELSE busyWith[w]
    BY <1>1 DEF GiveTo
  <1>5. idle' = idle \ chosen
    BY <1>1 DEF GiveTo
  <1> HIDE DEF p, k
  <1>6. p = t
    <2> SUFFICES ASSUME p # t
                 PROVE  FALSE
      OBVIOUS
    <2>1. \A w \in Fleet \ {Nobody} : busyWith'[w] = t => busyWith[w] = t
      BY <1>4
    <2>2. Receivers(t) = {}
      BY <2>1, PlanFacts DEF Receivers, Nobody
    <2> QED
      BY <2>2, FS_EmptySet
  <1>7. t \in Fresh /\ Fresh \in SUBSET PlanTasks /\ Queued = Cardinality(Fresh)
    BY <1>2, <1>6 DEF Fresh, Queued
  <1>8. IsFiniteSet(Fresh) /\ Queued \in Nat \ {0} /\ Cardinality(Fresh \ {t}) = Queued - 1
    <2>1. IsFiniteSet(Fresh) /\ Queued \in Nat
      BY <1>7, PlanFacts, FS_Subset, FS_CardinalityType
    <2>2. Queued # 0
      BY <1>7, <2>1, FS_EmptySet
    <2> QED
      BY <1>7, <2>1, <2>2, FS_RemoveElement
  <1>9. k \in Nat /\ k + (Queued - 1) <= Cardinality(PoolFor(p))
    BY <1>1, <1>3, <1>8, ShardsLeaveRoom DEF k
  <1>10. Cardinality(chosen) <= k
    BY <1>3, <1>9, FewAreBest
  <1> HIDE DEF chosen
  <1>11. chosen \subseteq idle
    BY <1>3 DEF chosen
  <1>12. /\ IsFiniteSet(idle) /\ IsFiniteSet(chosen) /\ IsFiniteSet(idle \ chosen)
         /\ Cardinality(idle) \in Nat /\ Cardinality(chosen) \in Nat /\ Cardinality(idle \ chosen) \in Nat
         /\ Cardinality(PoolFor(p)) \in Nat /\ Cardinality(PoolFor(p)) <= Cardinality(idle)
    BY <1>3, <1>11, PlanFacts, FS_Subset, FS_CardinalityType
  <1>13. Cardinality(idle) = Cardinality(idle \ chosen) + Cardinality(chosen)
    <2>1. (idle \ chosen) \cup chosen = idle /\ (idle \ chosen) \cap chosen = {}
      BY <1>11
    <2>2. Cardinality((idle \ chosen) \cup chosen)
            = Cardinality(idle \ chosen) + Cardinality(chosen) - Cardinality((idle \ chosen) \cap chosen)
      BY <1>12, FS_Union
    <2>3. Cardinality({}) = 0
      BY FS_EmptySet
    <2>4. Cardinality(idle) = Cardinality(idle \ chosen) + Cardinality(chosen) - Cardinality({})
      BY ONLY <2>1, <2>2
    <2> QED
      BY ONLY <1>12, <2>3, <2>4
  <1>14. Cardinality(idle \ chosen) >= Queued - 1
    BY ONLY <1>8, <1>9, <1>10, <1>12, <1>13
  <1> QED
    BY <1>5, <1>8, <1>14

LEMMA StepReserves ==
    ASSUME PlanIInv, [PlanNext]_planVars, NEW t \in Parallel \ released,
           Cardinality(Receivers(t)) > 1
    PROVE  Cardinality(idle') >= Cardinality(Fresh \ {t})
  <1>1. t \in PlanTasks \ released
    BY PlanningAssumption
  <1>2. CASE DispatchParallel
    BY <1>1, <1>2, ParallelReserves
  <1>3. CASE ~ DispatchParallel
    <2>1. \E v : \A w \in Fleet \ {v} : busyWith'[w] \in {busyWith[w], Nobody}
      <3>1. CASE DispatchAlone
        BY <3>1 DEF DispatchAlone, GiveTo
      <3>2. ASSUME NEW v \in Fleet, Finish(v) \/ FailOn(v)
            PROVE  \A w \in Fleet \ {v} : busyWith'[w] = busyWith[w]
        BY <3>2 DEF Finish, FailOn, PlanIInv, PlacesIInv, PlanFields
      <3>3. CASE UNCHANGED busyWith
        BY <3>3
      <3>4. \/ DispatchAlone \/ (\E v \in Fleet : Finish(v) \/ FailOn(v)) \/ UNCHANGED busyWith
        BY <1>3 DEF PlanNext, planVars, fleetVars, Enqueue, TimePasses, LateEnd, FlushWhenDue,
                    FlushEverything, DispatchDeferred, LeaveFleet, CacheExpires
      <3> QED
        BY <3>1, <3>2, <3>3, <3>4
    <2> QED
      BY <1>1, <2>1, OneReceiver
  <1> QED
    BY <1>2, <1>3

(* A task that is sharded when it is first dispatched leaves an idle       *)
(* worker for each other task that waits for its first dispatch            *)
(* (choose_strategy, scheduler.py).                                        *)
THEOREM ReserveIsKept == PlanSpec => ReserveKept
  <1>1. PlanIInv /\ [PlanNext]_planVars =>
          [\A t \in Parallel \ released :
             Cardinality({w \in Fleet : busyWith'[w] = t /\ busyWith[w] # t}) > 1 =>
                Cardinality(idle') >= Cardinality(Fresh \ {t})]_planVars
    BY StepReserves DEF Receivers
  <1>2. PlanSpec => []PlanIInv
    BY PlanInitInv, PlanStepInv, PTL DEF PlanSpec
  <1> QED
    BY <1>1, <1>2, PTL DEF PlanSpec, ReserveKept

-----------------------------------------------------------------------------
(* ShardRows.  For a data set of any size, any number of workers and any   *)
(* percentages: what the shards of a task answer are rows that follow one  *)
(* another, so the items of the aggregated result are in order, none is    *)
(* there twice, and none is missing where the split is left alone.         *)

(* Multiplication grows with its first factor.                             *)
LEMMA TimesGrows ==
    ASSUME NEW a \in Nat, NEW b \in Nat, NEW c \in Nat, a <= b
    PROVE  a * c <= b * c
<1>1. PICK e \in Nat : b = a + e
  BY SMT
<1>2. b * c = a * c + e * c
  BY <1>1, SMT
<1>3. e * c \in Nat /\ a * c \in Nat
  BY SMT
<1> QED
  BY <1>2, <1>3, SMT

(* A number is its quotient times the divisor, and the rest.               *)
LEMMA QuotientAndRest ==
    ASSUME NEW n \in Nat, NEW t \in Nat \ {0}
    PROVE  /\ n \div t \in Nat /\ n % t \in Nat /\ n % t < t
           /\ n = ((n \div t) * t) + (n % t)
  BY SMT

(* A percentage is a row boundary of the data set, a higher one no earlier.*)
LEMMA BoundaryIs ==
    ASSUME NEW p \in 0..100
    PROVE  Boundary(p) \in 0..RowCount
<1>1. p * RowCount \in Nat /\ p * RowCount <= 100 * RowCount
  BY TimesGrows, RowsAssumption, SMT
<1>2. RowCount \in Nat
  BY RowsAssumption
<1> QED
  BY <1>1, <1>2, SMT DEF Boundary

LEMMA BoundaryGrows ==
    ASSUME NEW p \in 0..100, NEW q \in 0..100, p <= q
    PROVE  Boundary(p) <= Boundary(q)
<1>1. p * RowCount \in Nat /\ q * RowCount \in Nat /\ p * RowCount <= q * RowCount
  BY TimesGrows, RowsAssumption, SMT
<1> QED
  BY <1>1, SMT DEF Boundary

LEMMA BoundaryEnds == Boundary(0) = 0 /\ Boundary(100) = RowCount
<1>1. RowCount \in Nat
  BY RowsAssumption
<1> QED
  BY <1>1, SMT DEF Boundary

(* The parts that shard() cuts follow one another and cover the rows.      *)
LEMMA PartIs ==
    ASSUME NEW n \in Nat, NEW t \in Nat \ {0}, NEW i \in 1..t
    PROVE  /\ PartStart(n, t, i) \in Nat /\ PartSize(n, t, i) \in Nat
           /\ PartStart(n, t, i + 1) = PartStart(n, t, i) + PartSize(n, t, i)
           /\ PartStart(n, t, i + 1) <= n /\ PartStart(n, t, i + 1) \in Nat
           /\ PartStart(n, t, i) <= PartStart(n, t, i + 1)
           /\ PartStart(n, t, 1) = 0
           /\ PartStart(n, t, t + 1) = n
<1>1. PICK q \in Nat, r \in Nat : q = n \div t /\ r = n % t /\ r < t /\ n = q * t + r
  BY QuotientAndRest
<1>2. q * i \in Nat /\ q * i <= q * t /\ q * t \in Nat
  BY TimesGrows, SMT
<1>3. q * (i - 1) \in Nat /\ q * i = q * (i - 1) + q
  BY SMT
<1>4. PartSize(n, t, i) = q + (IF i <= r THEN 1 ELSE 0)
  BY <1>1, SMT DEF PartSize
<1>5. PartStart(n, t, i) = q * (i - 1) + (IF i <= r THEN i - 1 ELSE r)
  BY <1>1, SMT DEF PartStart
<1>6. PartStart(n, t, i + 1) = q * i + (IF i + 1 <= r THEN i ELSE r)
  <2>1. (i + 1) - 1 = i
    OBVIOUS
  <2> QED
    BY <1>1, <2>1 DEF PartStart
<1>7. PartStart(n, t, 1) = 0
  BY <1>1, SMT DEF PartStart
<1>8. PartStart(n, t, t + 1) = n
  <2>1. (t + 1) - 1 = t
    OBVIOUS
  <2>2. PartStart(n, t, t + 1) = q * t + (IF t + 1 <= r THEN t ELSE r)
    BY <1>1, <2>1 DEF PartStart
  <2> QED
    BY <1>1, <2>2, SMT
<1>9. /\ PartStart(n, t, i) \in Nat /\ PartSize(n, t, i) \in Nat
      /\ PartStart(n, t, i + 1) = PartStart(n, t, i) + PartSize(n, t, i)
      /\ PartStart(n, t, i + 1) <= n
  BY <1>1, <1>2, <1>3, <1>4, <1>5, <1>6, SMT
<1>10. PartStart(n, t, i + 1) \in Nat /\ PartStart(n, t, i) <= PartStart(n, t, i + 1)
  BY ONLY <1>9, SMT
<1> QED
  BY ONLY <1>7, <1>8, <1>9, <1>10

(* The same for rows counted between two boundaries.                       *)
LEMMA StartsGrow ==
    ASSUME NEW a \in Nat, NEW b \in Nat, a <= b,
           NEW t \in Nat \ {0}, NEW i \in 1..t
    PROVE  /\ PartStart(b - a, t, i) \in Nat /\ PartStart(b - a, t, i + 1) \in Nat
           /\ PartStart(b - a, t, i) <= PartStart(b - a, t, i + 1)
           /\ PartStart(b - a, t, i + 1) <= b - a
<1> PICK n : n = b - a
  OBVIOUS
<1>1. n \in Nat
  BY SMT
<1>2. /\ PartStart(n, t, i) \in Nat /\ PartStart(n, t, i + 1) \in Nat
      /\ PartStart(n, t, i) <= PartStart(n, t, i + 1)
      /\ PartStart(n, t, i + 1) <= n
  BY <1>1, PartIs
<1> QED
  BY <1>2

(* The rows of a data set from a (excluded) to b, in order.                *)
Rows(a, b) == [k \in 1..(b - a) |-> a + k]

(* Where the shards up to i end: their work is cut from the rows up to     *)
(* here.                                                                   *)
Edge(d, i) ==
    IF Overridden(d) THEN Boundary(d.from + Step(d) * i)
    ELSE Boundary(d.from) + PartStart(Boundary(d.to) - Boundary(d.from), d.total, i + 1)

(* The fields of a task that is fanned out.                                *)
LEMMA LessIsAtMost == ASSUME NEW f \in 0..100, NEW e \in 0..100, f < e PROVE f <= e
  BY SMT

LEMMA JobIs ==
    ASSUME NEW d \in FannedOut
    PROVE  /\ d.from \in 0..100 /\ d.to \in 0..100 /\ d.from < d.to /\ d.from <= d.to
           /\ d.total \in Nat \ {0, 1}
           /\ d.kind \in {"list", "dataset"}
<1>1. /\ d.kind \in {"list", "dataset"}
      /\ d.from \in Percents /\ d.to \in Percents /\ d.total \in ShardCounts
      /\ d.from < d.to
  BY SMT DEF FannedOut
<1>2. Percents \subseteq 0..100 /\ ShardCounts \subseteq Nat \ {0, 1}
  BY RowsAssumption
<1>3. d.from \in 0..100 /\ d.to \in 0..100
  BY ONLY <1>1, <1>2
<1>4. d.from <= d.to
  BY ONLY <1>1, <1>3, LessIsAtMost
<1> QED
  BY ONLY <1>1, <1>2, <1>3, <1>4

(* Equal steps stay within what they divide.                               *)
LEMMA EvenSteps ==
    ASSUME NEW f \in Nat, NEW e \in Nat, NEW t \in Nat, NEW s \in Nat,
           e - f = s * t, NEW i \in 1..t
    PROVE  /\ f + (s * (i - 1)) \in 0..e
           /\ f + (s * i) \in 0..e
           /\ f + (s * (i - 1)) <= f + (s * i) /\ f <= f + (s * i)
<1>1. s * (i - 1) \in Nat /\ s * i \in Nat /\ s * i = s * (i - 1) + s
  BY SMT
<1>2. s * i <= s * t
  <2>1. i * s <= t * s
    BY TimesGrows, SMT
  <2> QED
    BY <2>1, SMT
<1> QED
  BY <1>1, <1>2, SMT

(* A split that is overridden is cut at whole percentages of the base      *)
(* split, the last of which is its end.                                    *)
LEMMA SplitIs ==
    ASSUME NEW d \in FannedOut, Overridden(d), NEW i \in 1..d.total
    PROVE  /\ Step(d) \in Nat
           /\ d.from + Step(d) * (i - 1) \in 0..100
           /\ d.from + Step(d) * i \in 0..100
           /\ d.from + Step(d) * (i - 1) <= d.from + Step(d) * i
           /\ d.from <= d.from + Step(d) * i /\ d.from + Step(d) * i <= d.to
<1> PICK f, e, t : d.from = f /\ d.to = e /\ d.total = t
  OBVIOUS
<1>1. d.from \in 0..100 /\ d.to \in 0..100 /\ d.from < d.to /\ d.total \in Nat \ {0, 1}
  BY JobIs
<1>2. /\ f \in 0..100 /\ e \in 0..100 /\ f < e /\ t \in Nat \ {0, 1}
      /\ i \in 1..t
  BY <1>1
<1>3. f \in Nat /\ e \in Nat /\ e <= 100 /\ t \in Nat \ {0}
  BY <1>2, SMT
<1>4. (e - f) % t = 0 /\ Step(d) = (e - f) \div t
  BY DEF Overridden, Whole, Step
<1> PICK s : s = Step(d)
  OBVIOUS
<1>5. s \in Nat /\ e - f = s * t
  <2> PICK n : n = e - f
    OBVIOUS
  <2>1. n \in Nat
    BY <1>2, <1>3, SMT
  <2>2. s = n \div t /\ n % t = 0
    BY <1>4
  <2>3. n \div t \in Nat /\ n = ((n \div t) * t) + (n % t)
    BY <1>3, <2>1, QuotientAndRest
  <2>4. s \in Nat /\ n = (s * t) + 0
    BY <2>2, <2>3
  <2>5. n = s * t
    BY <1>3, <2>4, SMT
  <2> QED
    BY <2>4, <2>5
<1>7. /\ f + (s * (i - 1)) \in 0..e
      /\ f + (s * i) \in 0..e
      /\ f + (s * (i - 1)) <= f + (s * i) /\ f <= f + (s * i)
  BY <1>2, <1>3, <1>5, EvenSteps
<1>6. 0..e \subseteq 0..100 /\ \A x \in 0..e : x <= e
  BY <1>3, SMT
<1> QED
  BY <1>5, <1>6, <1>7

(* A SubSeq as a function of the positions it keeps.                       *)
LEMMA CutIs ==
    ASSUME NEW r, NEW s \in Nat, NEW z \in Nat
    PROVE  SubSeq(r, s + 1, s + z) = [k \in 1..z |-> r[k + s]]
<1>1. SubSeq(r, s + 1, s + z)
        = [k \in 1..(1 + (s + z) - (s + 1)) |-> r[k + (s + 1) - 1]]
  OBVIOUS
<1>2. 1 + (s + z) - (s + 1) = z /\ \A k \in 1..z : k + (s + 1) - 1 = k + s
  BY SMT
<1> QED
  BY <1>1, <1>2

(* A shard's part of rows that follow one another.                         *)
LEMMA PartOfRows ==
    ASSUME NEW a \in Nat, NEW b \in Nat, a <= b,
           NEW t \in Nat \ {0}, NEW i \in 1..t
    PROVE  Part(Rows(a, b), t, i) =
             Rows(a + PartStart(b - a, t, i), a + PartStart(b - a, t, i + 1))
<1>0. PICK n : n = b - a
  OBVIOUS
<1>1. n \in Nat /\ DOMAIN Rows(a, b) = 1..n /\ Rows(a, b) \in Seq(Nat)
  BY <1>0, SMT DEF Rows
<1>2. Len(Rows(a, b)) = n
  BY <1>1, SMT
<1>8. PICK s, z : s = PartStart(n, t, i) /\ z = PartSize(n, t, i)
  OBVIOUS
<1>3. /\ s = PartStart(n, t, i) /\ z = PartSize(n, t, i)
      /\ s \in Nat /\ z \in Nat
      /\ PartStart(n, t, i + 1) = s + z /\ s + z <= n
  BY <1>1, <1>8, PartIs
<1>4. Part(Rows(a, b), t, i) = SubSeq(Rows(a, b), s + 1, s + z)
  BY <1>2, <1>3 DEF Part
<1>5. SubSeq(Rows(a, b), s + 1, s + z) = [k \in 1..z |-> Rows(a, b)[k + s]]
  <2>1. s \in Nat /\ z \in Nat
    BY <1>3
  <2> QED
    BY <2>1, CutIs
<1>6. \A k \in 1..z : Rows(a, b)[k + s] = (a + s) + k
  <2>1. \A k \in 1..z : k + s \in 1..(b - a) /\ a + (k + s) = (a + s) + k
    BY <1>0, <1>3, SMT
  <2> QED
    BY <2>1 DEF Rows
<1>7. Rows(a + s, a + (s + z)) = [k \in 1..z |-> (a + s) + k]
  <2>1. (a + (s + z)) - (a + s) = z
    BY <1>3, SMT
  <2> QED
    BY <2>1 DEF Rows
<1> QED
  BY <1>0, <1>3, <1>4, <1>5, <1>6, <1>7

(* What a shard answers: rows between its edges, all of them where the     *)
(* split is left alone.                                                    *)
LEMMA WorkSpan ==
    ASSUME NEW d \in FannedOut, d.kind = "dataset", NEW i \in 1..d.total
    PROVE  \E a \in Nat, b \in Nat :
             /\ Work(d, i) = Rows(a, b)
             /\ Edge(d, i - 1) \in Nat /\ Edge(d, i) \in Nat
             /\ Edge(d, i - 1) <= a /\ a <= b /\ b <= Edge(d, i)
             /\ Edge(d, i) <= RowCount
             /\ ~Overridden(d) => a = Edge(d, i - 1) /\ b = Edge(d, i)
<1>1. PICK t \in Nat \ {0} : d.total = t /\ i \in 1..t
  BY JobIs
<1>2. Work(d, i) = Part(Loaded(d, i), t, i)
  BY <1>1 DEF Work
<1>3. CASE Overridden(d)
  <2>1. PICK f \in 0..100, e \in 0..100 :
           f = d.from + Step(d) * (i - 1) /\ e = d.from + Step(d) * i /\ f <= e
    BY <1>3, SplitIs
  <2>2. PICK a \in 0..RowCount, b \in 0..RowCount :
           a = Boundary(f) /\ b = Boundary(e) /\ a <= b
    BY <2>1, BoundaryIs, BoundaryGrows
  <2>3. a \in Nat /\ b \in Nat /\ a <= b /\ b <= RowCount
    BY <2>2, RowsAssumption, SMT
  <2>4. Loaded(d, i) = Rows(a, b)
    BY <1>3, <2>1, <2>2 DEF Loaded, ShardSplit, RowsBetween, Rows
  <2>5. Edge(d, i - 1) = a /\ Edge(d, i) = b
    BY <1>3, <2>1, <2>2 DEF Edge
  <2> PICK s, u : s = PartStart(b - a, t, i) /\ u = PartStart(b - a, t, i + 1)
    OBVIOUS
  <2>6. /\ s = PartStart(b - a, t, i) /\ u = PartStart(b - a, t, i + 1)
        /\ s \in Nat /\ u \in Nat /\ s <= u /\ u <= b - a
    BY <1>1, <2>3, StartsGrow
  <2>7. Work(d, i) = Rows(a + s, a + u)
    BY <1>1, <1>2, <2>3, <2>4, <2>6, PartOfRows
  <2> QED
    BY <1>3, <2>3, <2>5, <2>6, <2>7, SMT
<1>4. CASE ~Overridden(d)
  <2>1. PICK a \in 0..RowCount, b \in 0..RowCount :
           a = Boundary(d.from) /\ b = Boundary(d.to) /\ a <= b
    <3>1. d.from \in 0..100 /\ d.to \in 0..100 /\ d.from <= d.to
      BY JobIs
    <3> QED
      BY <3>1, BoundaryIs, BoundaryGrows
  <2>2. a \in Nat /\ b \in Nat /\ b - a \in Nat /\ b <= RowCount
    BY <2>1, RowsAssumption, SMT
  <2>3. Loaded(d, i) = Rows(a, b)
    BY <1>4, <2>1 DEF Loaded, RowsBetween, Rows
  <2> PICK s, u : s = PartStart(b - a, t, i) /\ u = PartStart(b - a, t, i + 1)
    OBVIOUS
  <2>4. /\ s = PartStart(b - a, t, i) /\ u = PartStart(b - a, t, i + 1)
        /\ s \in Nat /\ u \in Nat /\ s <= u /\ u <= b - a
    BY <1>1, <2>1, <2>2, StartsGrow
  <2>5. Work(d, i) = Rows(a + s, a + u)
    BY <1>1, <1>2, <2>1, <2>2, <2>3, <2>4, PartOfRows
  <2>6. Edge(d, i - 1) = a + s /\ Edge(d, i) = a + u
    <3>1. (i - 1) + 1 = i
      BY SMT
    <3> QED
      BY <1>1, <1>4, <2>1, <2>4, <3>1 DEF Edge
  <2>7. /\ a + s \in Nat /\ a + u \in Nat /\ a + s <= a + u
        /\ a + s <= a + s /\ a + u <= a + u /\ a + u <= RowCount
    BY <2>2, <2>4, RowsAssumption, SMT
  <2> QED
    BY <2>5, <2>6, <2>7
<1> QED
  BY <1>3, <1>4

(* Every edge lies in the base split, and where the split is left alone    *)
(* the last one is its end.                                                *)
LEMMA EdgeIs ==
    ASSUME NEW d \in FannedOut, NEW i \in 0..d.total
    PROVE  /\ Edge(d, i) \in Nat /\ Boundary(d.to) \in 0..RowCount
           /\ Edge(d, 0) = Boundary(d.from) /\ Boundary(d.from) \in Nat
           /\ Boundary(d.from) <= Edge(d, i) /\ Edge(d, i) <= Boundary(d.to)
           /\ ~Overridden(d) => Edge(d, d.total) = Boundary(d.to)
<1>1. /\ d.from \in 0..100 /\ d.to \in 0..100 /\ d.from < d.to
      /\ d.total \in Nat \ {0}
  BY JobIs
<1>2. d.from <= d.to
  BY JobIs
<1> PICK a, b, t : a = Boundary(d.from) /\ b = Boundary(d.to) /\ t = d.total
  OBVIOUS
<1>3. a \in 0..RowCount /\ b \in 0..RowCount /\ a <= b
  BY <1>1, <1>2, BoundaryIs, BoundaryGrows
<1>4. a \in Nat /\ b \in Nat /\ t \in Nat \ {0} /\ 1 \in 1..t
  BY <1>1, <1>3, RowsAssumption, SMT
<1>5. i \in 0..t
  OBVIOUS
<1>6. CASE Overridden(d)
  <2>1. Step(d) \in Nat
    BY <1>4, <1>6, SplitIs
  <2>2. Edge(d, 0) = a
    <3>1. d.from + Step(d) * 0 = d.from
      BY <1>1, <2>1, SMT
    <3> QED
      BY <1>6, <3>1 DEF Edge
  <2>3. CASE i = 0
    BY <1>3, <1>4, <1>6, <2>2, <2>3, SMT
  <2>4. CASE i # 0
    <3>1. i \in 1..d.total
      BY <1>5, <1>4, <2>4, SMT
    <3> PICK p : p = d.from + Step(d) * i
      OBVIOUS
    <3>2. p \in 0..100 /\ d.from <= p /\ p <= d.to
      BY <1>6, <3>1, SplitIs
    <3>3. Boundary(p) \in 0..RowCount /\ a <= Boundary(p) /\ Boundary(p) <= b
      BY <1>1, <3>2, BoundaryIs, BoundaryGrows
    <3>4. Edge(d, i) = Boundary(p)
      BY <1>6 DEF Edge
    <3>5. 0..RowCount \subseteq Nat
      BY RowsAssumption, SMT
    <3> QED
      BY <1>3, <1>4, <1>6, <2>2, <3>3, <3>4, <3>5
  <2> QED
    BY <2>3, <2>4
<1>7. CASE ~Overridden(d)
  <2>1. PICK n : n = b - a
    OBVIOUS
  <2>2. n \in Nat /\ a + 0 = a /\ a + n = b
    BY <1>3, <1>4, <2>1, SMT
  <2>3. \A j : Edge(d, j) = a + PartStart(n, t, j + 1)
    BY <1>7, <2>1 DEF Edge
  <2>4. PartStart(n, t, 0 + 1) = 0 /\ PartStart(n, t, t + 1) = n
    <3>1. 0 + 1 = 1
      OBVIOUS
    <3>2. PartStart(n, t, 1) = 0 /\ PartStart(n, t, t + 1) = n
      BY <1>4, <2>2, PartIs
    <3> QED
      BY <3>1, <3>2
  <2>5. Edge(d, 0) = a /\ Edge(d, t) = b
    BY <2>2, <2>3, <2>4
  <2>6. PartStart(n, t, i + 1) \in Nat /\ PartStart(n, t, i + 1) <= n
    <3>1. CASE i = 0
      BY <2>2, <2>4, <3>1, SMT
    <3>2. CASE i # 0
      <4>1. i \in 1..t
        BY <1>4, <1>5, <3>2, SMT
      <4>2. n \in Nat /\ t \in Nat \ {0}
        BY <1>4, <2>2
      <4> QED
        BY ONLY <4>1, <4>2, PartIs
    <3> QED
      BY <3>1, <3>2
  <2> PICK u : u = PartStart(n, t, i + 1)
    OBVIOUS
  <2>7. Edge(d, i) = a + u /\ u \in Nat /\ u <= n
    BY <2>3, <2>6
  <2>8. a + u \in Nat /\ a <= a + u /\ a + u <= b
    BY <1>4, <2>2, <2>7, SMT
  <2> QED
    BY <1>3, <1>4, <2>5, <2>7, <2>8
<1> QED
  BY <1>6, <1>7

(* The rows between two boundaries are a sequence.                         *)
LEMMA RowsAre ==
    ASSUME NEW a \in Nat, NEW b \in Nat, a <= b
    PROVE  /\ Rows(a, b) \in Seq(Nat) /\ Len(Rows(a, b)) = b - a
           /\ \A k \in 1..(b - a) : Rows(a, b)[k] = a + k
<1>1. b - a \in Nat /\ Rows(a, b) = [k \in 1..(b - a) |-> a + k]
  BY SMT DEF Rows
<1>2. Rows(a, b) \in Seq(Nat)
  BY <1>1, SMT
<1> QED
  BY <1>1, <1>2, SMT

(* Rows in order and none twice, from lo (excluded) to hi.                 *)
Between(r, lo, hi) ==
    /\ r \in Seq(Nat)
    /\ \A k \in 1..Len(r) : lo < r[k] /\ r[k] <= hi
    /\ \A k \in 1..(Len(r) - 1) : r[k] < r[k + 1]

(* What a concatenation holds.                                             *)
LEMMA JoinIs ==
    ASSUME NEW r \in Seq(Nat), NEW s \in Seq(Nat)
    PROVE  /\ r \o s \in Seq(Nat) /\ Len(r) \in Nat /\ Len(s) \in Nat
           /\ Len(r \o s) = Len(r) + Len(s)
           /\ \A k \in 1..Len(r) : (r \o s)[k] = r[k]
           /\ \A k \in 1..Len(s) : (r \o s)[Len(r) + k] = s[k]
<1>1. /\ r \o s \in Seq(Nat) /\ Len(r) \in Nat /\ Len(s) \in Nat
      /\ Len(r \o s) = Len(r) + Len(s)
      /\ \A k \in 1..(Len(r) + Len(s)) :
           (r \o s)[k] = IF k <= Len(r) THEN r[k] ELSE s[k - Len(r)]
  BY ConcatProperties
<1> QED
  BY <1>1, SMT

(* Rows appended to items that end before them.                            *)
LEMMA JoinBetween ==
    ASSUME NEW r, NEW lo \in Nat, NEW m \in Nat, NEW hi \in Nat,
           NEW a \in Nat, NEW b \in Nat,
           lo <= m, m <= a, a <= b, b <= hi, Between(r, lo, m)
    PROVE  Between(r \o Rows(a, b), lo, hi)
<1> PICK s, w, n, z : s = Rows(a, b) /\ w = r \o s /\ n = Len(r) /\ z = b - a
  OBVIOUS
<1>1. /\ r \in Seq(Nat) /\ \A k \in 1..n : lo < r[k] /\ r[k] <= m
      /\ \A k \in 1..(n - 1) : r[k] < r[k + 1]
  BY DEF Between
<1>2. s \in Seq(Nat) /\ Len(s) = z /\ \A k \in 1..z : s[k] = a + k
  BY RowsAre
<1>3. /\ w \in Seq(Nat) /\ n \in Nat /\ z \in Nat
      /\ Len(w) = n + z
      /\ \A k \in 1..n : w[k] = r[k]
      /\ \A k \in 1..z : w[n + k] = s[k]
  <2>1. r \in Seq(Nat) /\ s \in Seq(Nat)
    BY <1>1, <1>2
  <2>2. /\ r \o s \in Seq(Nat) /\ Len(r) \in Nat /\ Len(s) \in Nat
        /\ Len(r \o s) = Len(r) + Len(s)
        /\ \A k \in 1..Len(r) : (r \o s)[k] = r[k]
        /\ \A k \in 1..Len(s) : (r \o s)[Len(r) + k] = s[k]
    BY <2>1, JoinIs
  <2> QED
    BY <1>2, <2>2
<1>0. n \in Nat /\ z \in Nat
  BY <1>3
<1>4. \A k \in 1..n : r[k] \in Nat
  BY <1>1, <1>3, ElementOfSeq
<1>5. \A k \in 1..n : w[k] \in Nat /\ lo < w[k] /\ w[k] <= m
  BY <1>1, <1>3, <1>4
<1>6. \A k \in 1..(n + z) : k > n => w[k] = a + (k - n)
  <2> TAKE k \in 1..(n + z)
  <2> HAVE k > n
  <2>1. k - n \in 1..z /\ n + (k - n) = k
    BY <1>0, SMT
  <2>2. w[n + (k - n)] = s[k - n] /\ s[k - n] = a + (k - n)
    BY <1>2, <1>3, <2>1
  <2> QED
    BY <2>1, <2>2
<1>10. \A x \in Nat : x <= m => x <= hi
  BY SMT
<1>7. \A k \in 1..(n + z) : lo < w[k] /\ w[k] <= hi
  <2> TAKE k \in 1..(n + z)
  <2>1. CASE k <= n
    <3>1. k \in 1..n
      BY <1>0, <2>1, SMT
    <3>2. w[k] \in Nat /\ lo < w[k] /\ w[k] <= m
      BY <1>5, <3>1
    <3> QED
      BY <1>10, <3>2
  <2>2. CASE k > n
    <3>1. w[k] = a + (k - n)
      BY <1>6, <2>2
    <3>2. lo < a + (k - n) /\ a + (k - n) <= hi
      BY <1>0, <2>2, SMT
    <3> QED
      BY <3>1, <3>2
  <2>3. k <= n \/ k > n
    BY <1>0, SMT
  <2> QED
    BY <2>1, <2>2, <2>3
<1>8. \A k \in 1..(n + z - 1) : w[k] < w[k + 1]
  <2> TAKE k \in 1..(n + z - 1)
  <2>0. k \in 1..(n + z) /\ k + 1 \in 1..(n + z)
    BY <1>0, SMT
  <2>1. CASE k < n
    <3>1. k \in 1..(n - 1) /\ k \in 1..n /\ k + 1 \in 1..n
      BY <1>0, <2>1, SMT
    <3> QED
      BY <1>1, <1>3, <3>1
  <2>2. CASE k = n
    <3>1. k \in 1..n
      BY <1>0, <2>2, SMT
    <3>2. w[k] \in Nat /\ w[k] <= m
      BY <1>5, <3>1
    <3>3. w[k + 1] = a + ((k + 1) - n)
      <4>1. k + 1 > n
        BY <1>0, <2>2, SMT
      <4> QED
        BY <1>6, <2>0, <4>1
    <3> PICK x : x = w[k]
      OBVIOUS
    <3>4. x \in Nat /\ x <= m
      BY <3>2
    <3>5. x < a + ((k + 1) - n)
      BY <1>0, <2>2, <3>4, SMT
    <3> QED
      BY <3>3, <3>5
  <2>3. CASE k > n
    <3>1. k + 1 > n
      BY <1>0, <2>3, SMT
    <3>2. w[k] = a + (k - n) /\ w[k + 1] = a + ((k + 1) - n)
      BY <1>6, <2>0, <2>3, <3>1
    <3>3. a + (k - n) < a + ((k + 1) - n)
      BY <1>0, SMT
    <3> QED
      BY <3>2, <3>3
  <2>4. k < n \/ k = n \/ k > n
    BY <1>0, SMT
  <2> QED
    BY <2>1, <2>2, <2>3, <2>4
<1>9. Len(w) = n + z /\ Len(w) - 1 = n + z - 1
  BY <1>3
<1> QED
  BY <1>3, <1>7, <1>8, <1>9 DEF Between

(* Items within a bound are within a later one.                            *)
LEMMA WiderBetween ==
    ASSUME NEW r, NEW lo \in Nat, NEW m \in Nat, NEW hi \in Nat, m <= hi,
           Between(r, lo, m)
    PROVE  Between(r, lo, hi)
<1>1. r \in Seq(Nat) /\ \A k \in 1..Len(r) : r[k] \in Nat /\ lo < r[k] /\ r[k] <= m
  BY ElementOfSeq DEF Between
<1>2. \A x \in Nat : x <= m => x <= hi
  BY SMT
<1> QED
  BY <1>1, <1>2 DEF Between

(* Rows that follow rows, together.                                        *)
LEMMA JoinRows ==
    ASSUME NEW a \in Nat, NEW b \in Nat, NEW c \in Nat, a <= b, b <= c
    PROVE  Rows(a, b) \o Rows(b, c) = Rows(a, c)
<1> PICK r, s, w, v, n, z : /\ r = Rows(a, b) /\ s = Rows(b, c) /\ w = r \o s
                            /\ v = Rows(a, c) /\ n = b - a /\ z = c - b
  OBVIOUS
<1>1. a <= c /\ n \in Nat /\ z \in Nat /\ c - a = n + z
  BY SMT
<1>2. /\ r \in Seq(Nat) /\ Len(r) = n /\ \A k \in 1..n : r[k] = a + k
      /\ s \in Seq(Nat) /\ Len(s) = z /\ \A k \in 1..z : s[k] = b + k
  BY RowsAre
<1>3. v \in Seq(Nat) /\ Len(v) = n + z /\ \A k \in 1..(n + z) : v[k] = a + k
  <2>1. /\ Rows(a, c) \in Seq(Nat) /\ Len(Rows(a, c)) = c - a
        /\ \A k \in 1..(c - a) : Rows(a, c)[k] = a + k
    BY <1>1, RowsAre
  <2> QED
    BY <1>1, <2>1
<1>4. /\ w \in Seq(Nat) /\ Len(w) = n + z
      /\ \A k \in 1..n : w[k] = r[k]
      /\ \A k \in 1..z : w[n + k] = s[k]
  <2>1. r \in Seq(Nat) /\ s \in Seq(Nat)
    BY <1>2
  <2>2. /\ r \o s \in Seq(Nat)
        /\ Len(r \o s) = Len(r) + Len(s)
        /\ \A k \in 1..Len(r) : (r \o s)[k] = r[k]
        /\ \A k \in 1..Len(s) : (r \o s)[Len(r) + k] = s[k]
    BY <2>1, JoinIs
  <2> QED
    BY <1>2, <2>2
<1>5. \A k \in 1..(n + z) : w[k] = a + k
  <2> TAKE k \in 1..(n + z)
  <2>1. CASE k <= n
    <3>1. k \in 1..n
      BY <1>1, <2>1, SMT
    <3> QED
      BY <1>2, <1>4, <3>1
  <2>2. CASE k > n
    <3>1. k - n \in 1..z /\ n + (k - n) = k /\ b + (k - n) = a + k
      BY <1>1, <2>2, SMT
    <3>2. w[n + (k - n)] = s[k - n] /\ s[k - n] = b + (k - n)
      BY <1>2, <1>4, <3>1
    <3> QED
      BY <3>1, <3>2
  <2>3. k <= n \/ k > n
    BY <1>1, SMT
  <2> QED
    BY <2>1, <2>2, <2>3
<1>6. Len(w) = Len(v) /\ \A k \in 1..Len(w) : w[k] = v[k]
  <2>1. Len(w) = n + z /\ Len(v) = n + z
    BY ONLY <1>3, <1>4
  <2>2. \A k \in 1..(n + z) : w[k] = v[k]
    BY ONLY <1>3, <1>5
  <2> QED
    BY ONLY <2>1, <2>2
<1> QED
  BY <1>3, <1>4, <1>6, SeqEqual

(***************************************************************************)
(* Why it holds: the items of an aggregated data set are rows up to the    *)
(* edge of the last shard merged, and exactly those where the split is     *)
(* left alone and every shard so far has answered.                         *)
(***************************************************************************)
Fates == {"new", "out", "skipped", "broken", "answered", "failed"}
Stages == {"publishing", "alone", "gathering", "merging", "delivering", "done"}
StartEdge == Edge(job, 0)
MergedEdge == Edge(job, merged)

JobsOwn ==
    /\ job \in FannedOut
    /\ stage \in Stages
    /\ published \in 0..job.total
    /\ fate \in [1..job.total -> Fates]
    /\ DOMAIN answer = 1..job.total
    /\ merged \in 0..job.total
    /\ posts \in 0..(PostRetries + 1)
AnswersAreWork ==
    \A i \in Shards : answer[i] = IF fate[i] = "answered" THEN Work(job, i) ELSE <<>>
MergedInTime ==
    /\ stage = "publishing" => \A i \in Shards : fate[i] # "answered"
    /\ stage \in {"publishing", "alone", "gathering"} => merged = 0 /\ items = <<>>
    /\ stage \in {"merging", "delivering", "done"} => \A i \in Children : fate[i] = "answered"
    /\ stage \in {"delivering", "done"} => merged = job.total
ItemsBetween ==
    job.kind = "dataset" => Between(items, StartEdge, MergedEdge)
ItemsWhole ==
    job.kind = "dataset" /\ ~Overridden(job) /\ (\A i \in 1..merged : fate[i] = "answered") =>
        items = Rows(StartEdge, MergedEdge)
RowsIInv ==
    /\ JobsOwn /\ AnswersAreWork /\ MergedInTime
    /\ ItemsBetween /\ ItemsWhole /\ ForgottenAfterDelivery

(* No rows lie between a boundary and itself.                              *)
LEMMA RowsNone == ASSUME NEW a \in Nat PROVE Rows(a, a) = <<>>
<1>1. Rows(a, a) \in Seq(Nat) /\ Len(Rows(a, a)) = 0
  BY RowsAre, SMT
<1> QED
  BY <1>1, EmptySeq

(* The invariant holds at first,                                           *)
LEMMA RowsStart == RowsInit => RowsIInv
<1> SUFFICES ASSUME RowsInit PROVE RowsIInv
  OBVIOUS
<1> USE DEF RowsInit
<1>1. job.total \in Nat /\ 0 \in 0..job.total
  BY JobIs, SMT
<1>2. StartEdge = MergedEdge /\ StartEdge \in Nat
  BY <1>1, EdgeIs DEF StartEdge, MergedEdge
<1>3. JobsOwn
  BY <1>1, RowsAssumption, SMT DEF JobsOwn, Fates, Stages
<1>4. AnswersAreWork
  BY DEF AnswersAreWork, Shards
<1>5. MergedInTime
  BY DEF MergedInTime, Shards
<1>6. ItemsBetween
  <2>1. items \in Seq(Nat) /\ 1..Len(items) = {} /\ 1..(Len(items) - 1) = {}
    BY SMT
  <2> QED
    BY <2>1 DEF ItemsBetween, Between
<1>7. ItemsWhole
  BY <1>2, RowsNone DEF ItemsWhole
<1> QED
  BY <1>3, <1>4, <1>5, <1>6, <1>7 DEF RowsIInv, ForgottenAfterDelivery

(* when a shard is published or not,                                       *)
LEMMA RowsPublish == RowsIInv /\ PublishShard => RowsIInv'
<1> SUFFICES ASSUME RowsIInv, PublishShard PROVE RowsIInv'
  OBVIOUS
<1> USE DEF RowsIInv, JobsOwn, PublishShard
<1>1. PICK f \in {"out", "skipped", "broken"} : fate' = [fate EXCEPT ![published + 1] = f]
  OBVIOUS
<1>2. job.total \in Nat
  BY JobIs
<1>3. published + 1 \in 1..job.total
  BY <1>2, SMT
<1>4. fate' \in [1..job.total -> Fates] /\ \A i \in 1..job.total :
          fate'[i] = IF i = published + 1 THEN f ELSE fate[i]
  <2>1. f \in Fates /\ fate \in [1..job.total -> Fates]
    BY DEF Fates
  <2> QED
    BY <1>1, <2>1
<1>5. \A i \in 1..job.total : fate[i] # "answered" /\ fate'[i] # "answered"
  BY <1>4 DEF MergedInTime, Shards
<1>6. JobsOwn'
  BY <1>2, <1>3, <1>4, SMT
<1>7. AnswersAreWork'
  BY <1>5 DEF AnswersAreWork, Shards
<1>8. MergedInTime'
  BY <1>5 DEF MergedInTime, Shards
<1>9. ItemsBetween'
  BY DEF ItemsBetween, StartEdge, MergedEdge
<1>10. ItemsWhole'
  <2>1. merged = 0 /\ 1..0 = {}
    BY SMT DEF MergedInTime
  <2>2. \A i \in 1..merged : fate[i] = "answered"
    BY <2>1
  <2> QED
    BY <2>2 DEF ItemsWhole, StartEdge, MergedEdge
<1> QED
  BY <1>6, <1>7, <1>8, <1>9, <1>10 DEF ForgottenAfterDelivery

(* when its executor has run,                                              *)
LEMMA RowsRun == ASSUME NEW i \in Shards PROVE RowsIInv /\ RunShard(i) => RowsIInv'
<1> SUFFICES ASSUME RowsIInv, RunShard(i) PROVE RowsIInv'
  OBVIOUS
<1> USE DEF RowsIInv, JobsOwn, RunShard
<1>1. i \in 1..job.total
  BY DEF Shards
<1>2. fate' \in [1..job.total -> Fates] /\ \A j \in 1..job.total :
          fate'[j] = IF j = i THEN (IF Work(job, i) = <<>> THEN "failed" ELSE "answered") ELSE fate[j]
  <2>1. "failed" \in Fates /\ "answered" \in Fates /\ fate \in [1..job.total -> Fates]
    BY DEF Fates
  <2>2. fate' = [fate EXCEPT ![i] = IF Work(job, i) = <<>> THEN "failed" ELSE "answered"]
    OBVIOUS
  <2> QED
    BY <1>1, <2>1, <2>2
<1>3. DOMAIN answer' = 1..job.total /\ \A j \in 1..job.total :
          answer'[j] = IF j = i /\ Work(job, i) # <<>> THEN Work(job, i) ELSE answer[j]
  BY <1>1
<1>4. JobsOwn'
  BY <1>2, <1>3
<1>5. AnswersAreWork'
  <2> SUFFICES ASSUME NEW j \in 1..job.total
               PROVE answer'[j] = IF fate'[j] = "answered" THEN Work(job, j) ELSE <<>>
    BY DEF AnswersAreWork, Shards
  <2>1. answer[j] = IF fate[j] = "answered" THEN Work(job, j) ELSE <<>>
    BY DEF AnswersAreWork, Shards
  <2> QED
    BY <1>2, <1>3, <2>1
<1>6. MergedInTime'
  BY DEF MergedInTime
<1>7. ItemsBetween'
  BY DEF ItemsBetween, StartEdge, MergedEdge
<1>8. ItemsWhole'
  <2>1. merged = 0 /\ 1..0 = {}
    BY SMT DEF MergedInTime
  <2>2. \A j \in 1..merged : fate[j] = "answered"
    BY <2>1
  <2> QED
    BY <2>2 DEF ItemsWhole, StartEdge, MergedEdge
<1> QED
  BY <1>4, <1>5, <1>6, <1>7, <1>8 DEF ForgottenAfterDelivery

(* when the items of a shard are appended, which begin where those so far  *)
(* end,                                                                    *)
LEMMA RowsMerge == RowsIInv /\ MergeNext => RowsIInv'
<1> SUFFICES ASSUME RowsIInv, MergeNext PROVE RowsIInv'
  OBVIOUS
<1> USE DEF RowsIInv, JobsOwn, MergeNext
<1> PICK i : i = merged + 1
  OBVIOUS
<1>1. job.total \in Nat
  BY JobIs
<1>2. /\ i \in 1..job.total /\ i \in 0..job.total /\ i - 1 = merged
      /\ merged' = i /\ 1..i = (1..merged) \cup {i}
  BY <1>1, SMT
<1>3. answer[i] = IF fate[i] = "answered" THEN Work(job, i) ELSE <<>>
  BY <1>2 DEF AnswersAreWork, Shards
<1>4. items' = items \o answer[i]
  BY DEF Extended
<1>5. JobsOwn' /\ AnswersAreWork' /\ ForgottenAfterDelivery'
  BY <1>2 DEF AnswersAreWork, Shards, ForgottenAfterDelivery
<1>6. MergedInTime'
  BY DEF MergedInTime, Children, Shards
<1>7. job.kind = "dataset" =>
        /\ Between(items', Edge(job, 0), Edge(job, i))
        /\ ~Overridden(job) /\ (\A j \in 1..i : fate[j] = "answered") =>
             items' = Rows(Edge(job, 0), Edge(job, i))
  <2> SUFFICES ASSUME job.kind = "dataset"
               PROVE /\ Between(items', Edge(job, 0), Edge(job, i))
                     /\ ~Overridden(job) /\ (\A j \in 1..i : fate[j] = "answered") =>
                          items' = Rows(Edge(job, 0), Edge(job, i))
    OBVIOUS
  <2>0. PICK lo, m, hi : lo = Edge(job, 0) /\ m = Edge(job, merged) /\ hi = Edge(job, i)
    OBVIOUS
  <2>1. Between(items, lo, m)
    BY <2>0 DEF ItemsBetween, StartEdge, MergedEdge
  <2>2. PICK a \in Nat, b \in Nat :
           /\ Work(job, i) = Rows(a, b)
           /\ m \in Nat /\ hi \in Nat /\ m <= a /\ a <= b /\ b <= hi
           /\ ~Overridden(job) => a = m /\ b = hi
    <3>1. \E a \in Nat, b \in Nat :
             /\ Work(job, i) = Rows(a, b)
             /\ Edge(job, i - 1) \in Nat /\ Edge(job, i) \in Nat
             /\ Edge(job, i - 1) <= a /\ a <= b /\ b <= Edge(job, i)
             /\ Edge(job, i) <= RowCount
             /\ ~Overridden(job) => a = Edge(job, i - 1) /\ b = Edge(job, i)
      BY <1>2, WorkSpan
    <3>2. Edge(job, i - 1) = m /\ Edge(job, i) = hi
      BY <1>2, <2>0
    <3> QED
      BY ONLY <3>1, <3>2
  <2>3. lo \in Nat /\ lo <= m
    <3>1. merged \in 0..job.total
      OBVIOUS
    <3> QED
      BY <2>0, <3>1, EdgeIs
  <2>4. CASE fate[i] = "answered"
    <3>1. items' = items \o Rows(a, b)
      BY <1>3, <1>4, <2>2, <2>4
    <3>2. Between(items', lo, hi)
      <4>1. m \in Nat /\ hi \in Nat /\ m <= a /\ a <= b /\ b <= hi
        BY <2>2
      <4> QED
        BY ONLY <2>1, <2>3, <3>1, <4>1, a \in Nat, b \in Nat, JoinBetween
    <3>3. ASSUME ~Overridden(job), \A j \in 1..i : fate[j] = "answered"
          PROVE  items' = Rows(lo, hi)
      <4>1. items = Rows(lo, m)
        BY <1>2, <2>0, <3>3 DEF ItemsWhole, StartEdge, MergedEdge
      <4>2. a = m /\ b = hi /\ lo \in Nat /\ m \in Nat /\ hi \in Nat
        BY <2>2, <2>3, <3>3
      <4>3. lo <= m /\ m <= hi
        BY <2>2, <2>3, <4>2
      <4>4. Rows(lo, m) \o Rows(m, hi) = Rows(lo, hi)
        BY ONLY <4>2, <4>3, JoinRows
      <4> QED
        BY <3>1, <4>1, <4>2, <4>4
    <3> QED
      BY <2>0, <3>2, <3>3
  <2>5. CASE fate[i] # "answered"
    <3>1. items' = items
      BY <1>3, <1>4, <2>1, <2>5, ConcatEmptySeq DEF Between
    <3>2. m <= hi
      BY <2>2, SMT
    <3>3. Between(items, lo, hi)
      BY <2>1, <2>2, <2>3, <3>2, WiderBetween
    <3>4. i \in 1..i
      BY <1>2
    <3> QED
      BY <2>0, <2>5, <3>1, <3>3, <3>4
  <2> QED
    BY <2>0, <2>4, <2>5
<1>8. ItemsBetween' /\ ItemsWhole'
  <2>1. job' = job /\ fate' = fate /\ merged' = i
    BY <1>2
  <2> QED
    BY <1>7, <2>1 DEF ItemsBetween, ItemsWhole, StartEdge, MergedEdge
<1> QED
  BY <1>5, <1>6, <1>8

(* and when what the items rest on is left alone.                          *)
LEMMA RowsRest ==
    RowsIInv /\ (FanOutEnds \/ Aggregate \/ MergeEnds \/ PostAttempt \/ Forget
                 \/ UNCHANGED rowVars) => RowsIInv'
<1> SUFFICES ASSUME RowsIInv, \/ FanOutEnds \/ Aggregate \/ MergeEnds \/ PostAttempt
                              \/ Forget \/ UNCHANGED rowVars
             PROVE  RowsIInv'
  OBVIOUS
<1> USE DEF FanOutEnds, Aggregate, MergeEnds, PostAttempt, Forget, rowVars
<1>1. job' = job /\ fate' = fate /\ answer' = answer /\ merged' = merged
      /\ items' = items /\ published' = published
  BY Zenon
<1>2. AnswersAreWork' /\ ItemsBetween' /\ ItemsWhole'
  BY <1>1 DEF RowsIInv, AnswersAreWork, ItemsBetween, ItemsWhole, Shards, StartEdge, MergedEdge
<1>3. PostRetries \in Nat
  BY RowsAssumption
<1>4. stage' \in Stages /\ posts' \in 0..(PostRetries + 1)
  BY <1>3, SMT DEF RowsIInv, JobsOwn, Stages, PostAllowed
<1>5. JobsOwn'
  BY <1>1, <1>4 DEF RowsIInv, JobsOwn
<1>6. MergedInTime'
  BY <1>1 DEF RowsIInv, MergedInTime, Children, Shards
<1>7. ForgottenAfterDelivery'
  BY <1>3, SMT DEF RowsIInv, JobsOwn, ForgottenAfterDelivery, GivesUp
<1> QED
  BY <1>2, <1>5, <1>6, <1>7 DEF RowsIInv

(* Every step keeps the invariant.                                         *)
LEMMA RowsStep == RowsIInv /\ [RowsNext]_rowVars => RowsIInv'
<1> SUFFICES ASSUME RowsIInv, [RowsNext]_rowVars PROVE RowsIInv'
  OBVIOUS
<1>1. CASE PublishShard
  BY <1>1, RowsPublish
<1>2. ASSUME NEW i \in Shards, RunShard(i) PROVE RowsIInv'
  BY <1>2, RowsRun
<1>3. CASE MergeNext
  BY <1>3, RowsMerge
<1>4. CASE FanOutEnds \/ Aggregate \/ MergeEnds \/ PostAttempt \/ Forget \/ UNCHANGED rowVars
  BY <1>4, RowsRest
<1> QED
  BY <1>1, <1>2, <1>3, <1>4 DEF RowsNext

(* What a shard works on are rows of the data set.                         *)
LEMMA WorkIsRows ==
    ASSUME NEW d \in FannedOut, NEW i \in 1..d.total, NEW k \in DOMAIN Work(d, i)
    PROVE  Work(d, i)[k] \in 1..RowCount
<1>0. RowCount \in Nat /\ d.kind \in {"list", "dataset"}
  BY RowsAssumption, JobIs
<1>1. CASE d.kind = "list"
  <2>1. Boundary(100) - Boundary(0) = RowCount /\ Boundary(0) = 0
    BY <1>0, BoundaryEnds, SMT
  <2>2. Work(d, i) = [j \in 1..RowCount |-> 0 + j]
    BY <1>1, <2>1 DEF Work, RowsBetween
  <2> QED
    BY <1>0, <2>2, SMT
<1>2. CASE d.kind = "dataset"
  <2>1. PICK a \in Nat, b \in Nat :
           /\ Work(d, i) = Rows(a, b) /\ a <= b /\ b <= Edge(d, i)
           /\ Edge(d, i) \in Nat /\ Edge(d, i) <= RowCount
    BY <1>2, WorkSpan
  <2> PICK e : e = Edge(d, i)
    OBVIOUS
  <2>2. e \in Nat /\ b <= e /\ e <= RowCount
    BY <2>1
  <2>3. k \in 1..(b - a) /\ Work(d, i)[k] = a + k
    BY <2>1 DEF Rows
  <2>4. a + k \in 1..RowCount
    BY <1>0, <2>2, <2>3, SMT
  <2> QED
    BY <2>3, <2>4
<1> QED
  BY <1>0, <1>1, <1>2

(* What the runs check follows from it.                                    *)
LEMMA RowsFollow == RowsIInv => RowsInv
<1> SUFFICES ASSUME RowsIInv PROVE RowsInv
  OBVIOUS
<1> USE DEF RowsIInv, JobsOwn
<1>1. RowsTypeOK
  <2>1. \A i \in Shards : \A k \in DOMAIN answer[i] : answer[i][k] \in 1..RowCount
    <3> TAKE i \in Shards
    <3> TAKE k \in DOMAIN answer[i]
    <3>1. i \in 1..job.total
      BY DEF Shards
    <3>2. answer[i] = IF fate[i] = "answered" THEN Work(job, i) ELSE <<>>
      BY DEF AnswersAreWork
    <3>3. CASE fate[i] = "answered"
      BY <3>1, <3>2, <3>3, WorkIsRows
    <3>4. CASE fate[i] # "answered"
      <4>1. answer[i] = <<>> /\ DOMAIN <<>> = {}
        BY <3>2, <3>4, SMT
      <4> QED
        BY <4>1
    <3> QED
      BY <3>3, <3>4
  <2> QED
    BY <2>1 DEF RowsTypeOK, Stages, Fates, Shards
<1>2. ASSUME Gathered, job.kind = "dataset"
      PROVE  /\ merged = job.total
             /\ Between(items, Boundary(job.from), Edge(job, job.total))
             /\ Boundary(job.from) \in Nat /\ Boundary(job.to) \in Nat
             /\ Edge(job, job.total) \in Nat /\ Edge(job, job.total) <= Boundary(job.to)
             /\ Boundary(job.from) <= Edge(job, job.total)
             /\ ~Overridden(job) => Edge(job, job.total) = Boundary(job.to)
  <2>1. merged = job.total
    BY <1>2 DEF Gathered, MergedInTime
  <2>2. job.total \in 0..job.total
    BY JobIs, SMT
  <2>3. 0..RowCount \subseteq Nat
    BY RowsAssumption, SMT
  <2> QED
    BY <1>2, <2>1, <2>2, <2>3, EdgeIs DEF ItemsBetween, StartEdge, MergedEdge
<1>3. RowsInOrder
  <2> SUFFICES ASSUME Gathered, job.kind = "dataset"
               PROVE  /\ {items[k] : k \in DOMAIN items} \subseteq {BaseRows[k] : k \in DOMAIN BaseRows}
                      /\ \A k \in 1..(Len(items) - 1) : items[k] < items[k + 1]
    BY DEF RowsInOrder
  <2> PICK a, e, b : a = Boundary(job.from) /\ e = Edge(job, job.total) /\ b = Boundary(job.to)
    OBVIOUS
  <2>1. a \in Nat /\ b \in Nat /\ e \in Nat /\ e <= b /\ a <= e /\ Between(items, a, e)
    BY <1>2
  <2>2. BaseRows = [k \in 1..(b - a) |-> a + k]
    BY DEF BaseRows, RowsBetween
  <2>3. ASSUME NEW k \in DOMAIN items
        PROVE  \E j \in DOMAIN BaseRows : items[k] = BaseRows[j]
    <3>1. k \in 1..Len(items) /\ items[k] \in Nat
      BY <2>1, LenProperties, ElementOfSeq DEF Between
    <3> PICK x : x = items[k]
      OBVIOUS
    <3>2. x \in Nat /\ a < x /\ x <= e
      BY <2>1, <3>1 DEF Between
    <3>3. x - a \in 1..(b - a) /\ a + (x - a) = x
      BY <2>1, <3>2, SMT
    <3> QED
      BY <2>2, <3>3
  <2> QED
    BY <2>1, <2>3 DEF Between
<1>4. UncarvedIsComplete
  <2> SUFFICES ASSUME Gathered, job.kind = "dataset", ~Overridden(job), Children = Shards
               PROVE  items = BaseRows
    BY DEF UncarvedIsComplete
  <2>1. \A i \in 1..merged : fate[i] = "answered"
    BY <1>2 DEF Gathered, MergedInTime, Shards
  <2>2. items = Rows(Edge(job, 0), Boundary(job.to))
    BY <1>2, <2>1 DEF ItemsWhole, StartEdge, MergedEdge
  <2>3. Edge(job, 0) = Boundary(job.from)
    <3>1. 0 \in 0..job.total
      BY JobIs, SMT
    <3> QED
      BY <3>1, EdgeIs
  <2> QED
    BY <2>2, <2>3 DEF BaseRows, RowsBetween, Rows
<1> QED
  BY <1>1, <1>3, <1>4 DEF RowsInv

(* An aggregated data set holds rows of its split, in order and none       *)
(* twice, and all of them where the split is left alone and every shard    *)
(* was published; it is dropped only when it is delivered or the attempts  *)
(* are used up: whatever the size of the data set, the number of workers   *)
(* and the percentages.                                                    *)
THEOREM RowsAreWhole == RowsSpec => []RowsInv
<1>1. RowsInit => RowsIInv
  BY RowsStart
<1>2. RowsIInv /\ [RowsNext]_rowVars => RowsIInv'
  BY RowsStep
<1>3. RowsIInv => RowsInv
  BY RowsFollow
<1> QED
  BY <1>1, <1>2, <1>3, PTL DEF RowsSpec

-----------------------------------------------------------------------------
(* WorkflowGraph.  For documents of any number of nodes and any number of  *)
(* failed runs: the parser's passes find an order exactly when there is    *)
(* one, each task has the results it needs when it is given out, and what  *)
(* still waits in a graph does so for a failure or an unknown name.        *)

(* The document: any nodes with any needs, of a graph only names it has.   *)
DocumentOK ==
    /\ document.mode \in {"graph", "stages", "single"}
    /\ document.nodes \in Seq(Node)
    /\ document.mode = "graph" =>
         \A i \in DOMAIN document.nodes :
             document.nodes[i].needs
               \subseteq {Outside} \cup NamesOf(document.nodes, DOMAIN document.nodes)

(* r is an order of the nodes that are not left: each once, after those of *)
(* the document that it needs.                                             *)
SameNodes(r, nodes, left) ==
    /\ \A k \in DOMAIN r : \E i \in DOMAIN nodes \ left : r[k] = nodes[i]
    /\ \A i \in DOMAIN nodes \ left : \E k \in DOMAIN r : r[k] = nodes[i]
    /\ Len(r) + Cardinality(left) = Len(nodes)
InOrder(r) ==
    /\ \A k, l \in DOMAIN r : r[k].name = r[l].name => k = l
    /\ \A k \in DOMAIN r : \A n \in r[k].needs :
         n = Outside \/ \E l \in 1..(k - 1) : r[l].name = n
Ordered(r, nodes, left) == r \in Seq(Node) /\ SameNodes(r, nodes, left) /\ InOrder(r)

(* The parser's passes.                                                    *)
Passes ==
    /\ verdict = "sorting" =>
         /\ document.mode = "graph" /\ ~Duplicate(document.nodes)
         /\ unresolved \subseteq DOMAIN document.nodes /\ turn \subseteq unresolved
         /\ Ordered(results, document.nodes, unresolved)
         /\ progressed \in BOOLEAN
         /\ ~progressed => \A i \in unresolved \ turn : Waits(i)
    /\ verdict # "sorting" =>
         unresolved = {} /\ turn = {} /\ results = <<>> /\ progressed = FALSE
Verdicts ==
    /\ verdict \in {"new", "sorting", "rejected", "accepted"}
    /\ verdict = "rejected" =>
         document.mode = "graph" /\ (Duplicate(document.nodes) \/ Circle(document.nodes))
    /\ verdict # "accepted" => specs = <<>>
    /\ verdict = "accepted" =>
         IF document.mode = "graph"
           THEN ~Duplicate(document.nodes) /\ Ordered(specs, document.nodes, {})
           ELSE specs = Expanded(document)
TablesMatch ==
    /\ specs \in Seq(Node) /\ Len(specs) <= Len(document.nodes)
    /\ \A k \in DOMAIN specs : bound[k] = Bound(specs)[k]
    /\ DOMAIN standing = DOMAIN specs /\ DOMAIN rendering = DOMAIN specs
    /\ DOMAIN manner = DOMAIN specs /\ DOMAIN carrier = DOMAIN specs
    /\ recorded \in 0..Len(specs)
    /\ \A k \in DOMAIN specs : standing[k] \in Standings /\ (standing[k] = "NEW" <=> k > recorded)
    /\ stored \subseteq DOMAIN specs
    /\ losses \in 0..MaxLosses

(* What is given out had the results of all it needs, and these stay.      *)
DoneIsStored == \A k \in DOMAIN specs : standing[k] = "DONE" => k \in stored
NeedsStored(k) == \A dep \in bound[k] : "task" \in DOMAIN dep => dep.task \in stored
GivenHasNeeds == \A k \in DOMAIN specs : Given(k) => NeedsStored(k)

GraphIInv ==
    /\ DocumentOK /\ Passes /\ Verdicts /\ TablesMatch
    /\ DoneIsStored /\ GivenHasNeeds /\ PlaceholdersFilled

(* A set of natural numbers has a smallest element, and one that is        *)
(* bounded a greatest.                                                     *)
LEMMA SmallestOf ==
    ASSUME NEW S, S \subseteq Nat, S # {}
    PROVE  \E k \in S : \A j \in S : k <= j
  <1>1. PICK k \in S : \A j \in S : ~ (<<j, k>> \in OpToRel(<, Nat))
    BY NatLessThanWellFounded, WFMin
  <1>2. \A j \in S : ~ (j < k)
    BY <1>1, Zenon DEF OpToRel
  <1>3. \A j \in S : k <= j
    BY ONLY <1>2, S \subseteq Nat, k \in S
  <1> QED
    BY ONLY <1>3, k \in S

LEMMA GreatestOf ==
    ASSUME NEW m \in Nat, NEW S, S \subseteq 1..m, S # {}
    PROVE  \E k \in S : \A j \in S : j <= k
  <1> DEFINE T == {m - j : j \in S}
  <1>1. T \subseteq Nat /\ T # {}
    <2>1. \A j \in 1..m : m - j \in Nat
      BY SMT
    <2> QED
      BY <2>1
  <1>2. PICK t \in T : \A u \in T : t <= u
    <2> HIDE DEF T
    <2> QED
      BY <1>1, SmallestOf
  <1>3. PICK k \in S : t = m - k
    OBVIOUS
  <1>4. ASSUME NEW j \in S PROVE j <= k
    <2>1. m - k <= m - j
      BY <1>2, <1>3
    <2>2. k \in Nat /\ j \in Nat
      BY SMT
    <2> QED
      BY <2>1, <2>2, SMT
  <1> QED
    BY <1>4

(* A dependency is a task's number or a name, never both.                  *)
LEMMA DependencyIs ==
    /\ \A j : "task" \in DOMAIN Task(j) /\ Task(j).task = j /\ "raw" \notin DOMAIN Task(j)
    /\ \A n : "raw" \in DOMAIN Raw(n) /\ Raw(n).raw = n /\ "task" \notin DOMAIN Raw(n)
    /\ \A j, n : Task(j) # Raw(n)
  <1>1. \A j : DOMAIN Task(j) = {"task"} /\ Task(j).task = j
    BY DEF Task
  <1>2. \A n : DOMAIN Raw(n) = {"raw"} /\ Raw(n).raw = n
    BY DEF Raw
  <1>3. "task" # "raw"
    OBVIOUS
  <1>4. \A j, n : Task(j) # Raw(n)
    BY <1>1, <1>2, <1>3
  <1> QED
    BY <1>1, <1>2, <1>3, <1>4

(* A name is bound to the latest earlier task that has it, if there is one.*)
LEMMA BindIs ==
    ASSUME NEW ss, NEW k \in Nat \ {0}, NEW n
    PROVE  \/ /\ Bind(ss, k, n) = Raw(n)
              /\ \A j \in 1..(k - 1) : ss[j].name # n
           \/ \E j \in 1..(k - 1) :
                /\ Bind(ss, k, n) = Task(j) /\ ss[j].name = n
                /\ \A i \in 1..(k - 1) : ss[i].name = n => i <= j
  <1> DEFINE earlier == {j \in 1..(k - 1) : ss[j].name = n}
  <1>1. CASE earlier = {}
    BY <1>1 DEF Bind
  <1>2. CASE earlier # {}
    <2>1. k - 1 \in Nat /\ earlier \subseteq 1..(k - 1)
      BY SMT
    <2>2. \E j \in earlier : \A i \in earlier : i <= j
      <3> HIDE DEF earlier
      <3> QED
        BY <1>2, <2>1, GreatestOf
    <2>3. PICK j : j = CHOOSE x \in earlier : \A i \in earlier : i <= x
      OBVIOUS
    <2>4. j \in earlier /\ \A i \in earlier : i <= j
      <3> HIDE DEF earlier
      <3> QED
        BY <2>2, <2>3
    <2>5. Bind(ss, k, n) = Task(j)
      BY <1>2, <2>3 DEF Bind
    <2> QED
      BY <2>4, <2>5
  <1> QED
    BY <1>1, <1>2

(* A spec is bound to what its needs are bound to.                         *)
LEMMA BoundIs ==
    ASSUME NEW ss, NEW k \in DOMAIN ss
    PROVE  /\ \A n \in ss[k].needs : Bind(ss, k, n) \in Bound(ss)[k]
           /\ \A dep \in Bound(ss)[k] : \E n \in ss[k].needs : dep = Bind(ss, k, n)
  BY DEF Bound

(* An order has no circle: of the nodes of one the first placed needs one  *)
(* that was placed before it.                                              *)
LEMMA OrderHasNoCircle ==
    ASSUME NEW nodes \in Seq(Node), NEW r, Ordered(r, nodes, {})
    PROVE  ~Circle(nodes)
  <1> SUFFICES ASSUME NEW ring \in (SUBSET DOMAIN nodes) \ {{}},
                      \A i \in ring : \E j \in ring : nodes[j].name \in nodes[i].needs
               PROVE  FALSE
    BY DEF Circle
  <1>1. /\ r \in Seq(Node)
        /\ \A i \in DOMAIN nodes : \E k \in DOMAIN r : r[k] = nodes[i]
        /\ \A k, l \in DOMAIN r : r[k].name = r[l].name => k = l
        /\ \A k \in DOMAIN r : \A n \in r[k].needs :
             n = Outside \/ \E l \in 1..(k - 1) : r[l].name = n
    BY DEF Ordered, SameNodes, InOrder
  <1>2. DOMAIN r = 1..Len(r) /\ Len(r) \in Nat
    BY <1>1, LenProperties
  <1> DEFINE places == {k \in DOMAIN r : \E i \in ring : r[k] = nodes[i]}
  <1>3. places \subseteq Nat /\ places # {}
    <2>1. DOMAIN r \subseteq Nat
      BY <1>2, SMT
    <2> QED
      BY <1>1, <2>1
  <1>4. PICK k \in places : \A j \in places : k <= j
    <2> HIDE DEF places
    <2> QED
      BY <1>3, SmallestOf
  <1>5. PICK i \in ring : r[k] = nodes[i]
    OBVIOUS
  <1>6. PICK j \in ring : nodes[j].name \in r[k].needs
    BY <1>5
  <1>7. nodes[j].name # Outside
    <2>1. nodes[j] \in Node
      BY ElementOfSeq, LenProperties
    <2>2. nodes[j].name \in 1..MaxNodes
      BY <2>1 DEF Node, NodeNames
    <2>3. \A x \in 1..MaxNodes : x # 0
      BY GraphAssumption, SMT
    <2> QED
      BY <2>2, <2>3 DEF Outside
  <1>8. PICK l \in 1..(k - 1) : r[l].name = nodes[j].name
    BY <1>1, <1>6, <1>7
  <1>9. l \in DOMAIN r /\ l < k
    <2>1. k \in DOMAIN r
      OBVIOUS
    <2>2. k \in 1..Len(r)
      BY ONLY <1>2, <2>1
    <2> QED
      BY ONLY <1>2, <1>8, <2>2, SMT
  <1>10. PICK m \in DOMAIN r : r[m] = nodes[j]
    BY <1>1
  <1>11. m = l
    BY <1>1, <1>8, <1>9, <1>10
  <1>12. l \in places
    BY <1>9, <1>10, <1>11
  <1>13. k <= l /\ k \in Nat /\ l \in Nat
    BY <1>3, <1>4, <1>12
  <1> QED
    BY ONLY <1>9, <1>13, SMT

(* A placed node comes after those it needs, as none of them is left.      *)
LEMMA PlacingKeepsOrder ==
    ASSUME NEW nodes \in Seq(Node), ~Duplicate(nodes),
           NEW left, left \subseteq DOMAIN nodes, NEW r, Ordered(r, nodes, left),
           NEW i \in left, nodes[i].needs \cap NamesOf(nodes, left) = {},
           nodes[i].needs \subseteq {Outside} \cup NamesOf(nodes, DOMAIN nodes)
    PROVE  Ordered(Append(r, nodes[i]), nodes, left \ {i})
  <1>1. PICK q, e, rest, N : /\ q = Append(r, nodes[i]) /\ e = nodes[i] /\ rest = left \ {i}
                             /\ N = Len(r)
    OBVIOUS
  <1>2. /\ r \in Seq(Node)
        /\ \A k \in DOMAIN r : \E j \in DOMAIN nodes \ left : r[k] = nodes[j]
        /\ \A j \in DOMAIN nodes \ left : \E k \in DOMAIN r : r[k] = nodes[j]
        /\ \A k, l \in DOMAIN r : r[k].name = r[l].name => k = l
        /\ \A k \in DOMAIN r : \A n \in r[k].needs :
             n = Outside \/ \E l \in 1..(k - 1) : r[l].name = n
        /\ Len(r) + Cardinality(left) = Len(nodes)
    BY DEF Ordered, SameNodes, InOrder
  <1>3. i \in DOMAIN nodes /\ e \in Node
    BY <1>1, ElementOfSeq, LenProperties
  <1>4. /\ q \in Seq(Node) /\ N \in Nat /\ DOMAIN r = 1..N
        /\ Len(q) = N + 1 /\ DOMAIN q = 1..(N + 1)
        /\ \A k \in 1..N : q[k] = r[k]
        /\ q[N + 1] = e
    <2>1. N \in Nat /\ DOMAIN r = 1..N
      BY <1>1, <1>2, LenProperties
    <2>2. /\ Append(r, e) \in Seq(Node) /\ Len(Append(r, e)) = Len(r) + 1
          /\ \A k \in 1..Len(r) : Append(r, e)[k] = r[k]
          /\ Append(r, e)[Len(r) + 1] = e
      BY <1>2, <1>3, AppendProperties
    <2>3. q \in Seq(Node) /\ Len(q) = N + 1
      BY <1>1, <2>2
    <2>4. DOMAIN q = 1..(N + 1)
      BY <2>3, LenProperties
    <2> QED
      BY <1>1, <2>1, <2>2, <2>3, <2>4
  <1>5. \A k \in 1..(N + 1) : k \in 1..N \/ k = N + 1
    BY <1>4, SMT
  <1>6. /\ \A k \in 1..N : k \in 1..(N + 1) /\ k # N + 1 /\ 1..(k - 1) \subseteq 1..N
        /\ N + 1 \in 1..(N + 1) /\ (N + 1) - 1 = N
    BY <1>4, SMT
  <1>7. DOMAIN nodes \ rest = (DOMAIN nodes \ left) \cup {i}
    BY <1>1, <1>3
  <1>8. ASSUME NEW k \in 1..N PROVE r[k].name # e.name
    <2>1. PICK j \in DOMAIN nodes \ left : r[k] = nodes[j]
      BY <1>2, <1>4, <1>8
    <2>2. j # i
      OBVIOUS
    <2> QED
      BY <1>1, <1>3, <2>1, <2>2 DEF Duplicate
  <1>9. InOrder(q)
    <2>1. ASSUME NEW k \in DOMAIN q, NEW l \in DOMAIN q, q[k].name = q[l].name PROVE k = l
      <3>1. k \in 1..N \/ k = N + 1
        BY <1>4, <1>5
      <3>2. l \in 1..N \/ l = N + 1
        BY <1>4, <1>5
      <3> QED
        BY <1>2, <1>4, <1>8, <2>1, <3>1, <3>2
    <2>2. ASSUME NEW k \in DOMAIN q, NEW n \in q[k].needs
          PROVE  n = Outside \/ \E l \in 1..(k - 1) : q[l].name = n
      <3>1. CASE k \in 1..N
        <4>1. n = Outside \/ \E l \in 1..(k - 1) : r[l].name = n
          BY <1>2, <1>4, <2>2, <3>1
        <4> QED
          BY <1>4, <1>6, <3>1, <4>1
      <3>2. CASE k = N + 1
        <4>1. n \in nodes[i].needs
          BY <1>1, <1>4, <2>2, <3>2
        <4>2. CASE n # Outside
          <5>1. PICK j \in DOMAIN nodes : nodes[j].name = n
            BY <4>1, <4>2 DEF NamesOf
          <5>2. j \notin left
            BY <4>1, <5>1 DEF NamesOf
          <5>3. PICK l \in 1..N : r[l] = nodes[j]
            BY <1>2, <1>4, <5>2
          <5> QED
            BY <1>4, <1>6, <3>2, <5>1, <5>3
        <4> QED
          BY <4>2
      <3> QED
        BY <1>4, <1>5, <3>1, <3>2
    <2> QED
      BY <2>1, <2>2 DEF InOrder
  <1>10. SameNodes(q, nodes, rest)
    <2>1. \A k \in DOMAIN q : \E j \in DOMAIN nodes \ rest : q[k] = nodes[j]
      BY <1>1, <1>2, <1>4, <1>5, <1>7
    <2>2. \A j \in DOMAIN nodes \ rest : \E k \in DOMAIN q : q[k] = nodes[j]
      BY <1>1, <1>2, <1>4, <1>6, <1>7
    <2>3. Len(q) + Cardinality(rest) = Len(nodes)
      <3>1. IsFiniteSet(DOMAIN nodes)
        <4>1. DOMAIN nodes = 1..Len(nodes) /\ Len(nodes) \in Int /\ 1 \in Int
          BY LenProperties
        <4> QED
          BY <4>1, FS_Interval
      <3>2. IsFiniteSet(left)
        BY <3>1, FS_Subset
      <3>3. Cardinality(left) \in Nat /\ Cardinality(rest) = Cardinality(left) - 1
        BY <1>1, <3>2, FS_RemoveElement, FS_CardinalityType
      <3>4. Len(q) = N + 1 /\ N + Cardinality(left) = Len(nodes)
        BY <1>1, <1>2, <1>4
      <3> QED
        BY <1>4, <3>3, <3>4, SMT
    <2> QED
      BY <2>1, <2>2, <2>3 DEF SameNodes
  <1> QED
    BY <1>1, <1>4, <1>9, <1>10 DEF Ordered

(* No node is placed at first.                                             *)
LEMMA NothingPlaced ==
    ASSUME NEW nodes \in Seq(Node)
    PROVE  Ordered(<<>>, nodes, DOMAIN nodes)
  <1>1. <<>> \in Seq(Node) /\ DOMAIN <<>> = {} /\ Len(<<>>) = 0
    BY SMT
  <1>2. DOMAIN nodes = 1..Len(nodes) /\ Len(nodes) \in Nat
    BY LenProperties
  <1>3. Cardinality(DOMAIN nodes) = Len(nodes)
    BY <1>2, FS_Interval
  <1>4. 0 + Cardinality(DOMAIN nodes) = Len(nodes)
    BY <1>2, <1>3, SMT
  <1> QED
    BY <1>1, <1>4 DEF Ordered, SameNodes, InOrder

(* A pass that has placed nothing leaves nodes that wait for one another.  *)
LEMMA StuckIsCircle ==
    ASSUME NEW nodes \in Seq(Node), NEW left, left \subseteq DOMAIN nodes, left # {},
           \A i \in left : nodes[i].needs \cap NamesOf(nodes, left) # {}
    PROVE  Circle(nodes)
  <1>1. \A i \in left : \E j \in left : nodes[j].name \in nodes[i].needs
    BY DEF NamesOf
  <1> QED
    BY <1>1 DEF Circle

(* A node that needs itself is a circle of its own.                        *)
LEMMA SelfIsCircle ==
    ASSUME NEW nodes \in Seq(Node), SelfDependent(nodes)
    PROVE  Circle(nodes)
  <1>1. PICK i \in DOMAIN nodes : nodes[i].name \in nodes[i].needs
    BY DEF SelfDependent
  <1>2. {i} \in (SUBSET DOMAIN nodes) \ {{}}
    OBVIOUS
  <1> QED
    BY <1>1, <1>2 DEF Circle

(* Every document that is written is one of those.                         *)
LEMMA DocumentIsOK ==
    ASSUME GraphInit
    PROVE  DocumentOK
  <1>1. document \in Documents
    BY DEF GraphInit
  <1>2. CASE \E k \in 1..MaxNodes :
                /\ document \in [mode : {"graph", "stages"}, nodes : [1..k -> Node],
                                 earlier : BOOLEAN]
                /\ \A i \in DOMAIN document.nodes :
                     document.nodes[i].needs
                       \subseteq {Outside} \cup NamesOf(document.nodes, DOMAIN document.nodes)
    <2>1. PICK k \in 1..MaxNodes :
                document \in [mode : {"graph", "stages"}, nodes : [1..k -> Node],
                              earlier : BOOLEAN]
      BY <1>2
    <2>2. k \in Nat
      BY GraphAssumption, SMT
    <2>3. document.nodes \in [1..k -> Node] /\ document.mode \in {"graph", "stages"}
      BY <2>1
    <2>4. document.nodes \in Seq(Node)
      BY <2>2, <2>3, SeqDef
    <2> QED
      BY <1>2, <2>3, <2>4 DEF DocumentOK
  <1>3. CASE document \in [mode : {"single"},
                           nodes : [{1} -> [name : {1}, needs : {{}, {Outside}}]],
                           earlier : BOOLEAN]
    <2>1. /\ document.nodes \in [{1} -> [name : {1}, needs : {{}, {Outside}}]]
          /\ document.mode = "single"
      BY <1>3
    <2>2. 1 \in NodeNames
      BY GraphAssumption, SMT DEF NodeNames
    <2>3. \A x \in {{}, {Outside}} : x \in SUBSET (NodeNames \cup {Outside})
      OBVIOUS
    <2>4. [name : {1}, needs : {{}, {Outside}}] \subseteq Node
      BY <2>2, <2>3 DEF Node
    <2>5. {1} = 1..1 /\ 1 \in Nat
      BY SMT
    <2>6. document.nodes \in [1..1 -> Node]
      BY <2>1, <2>4, <2>5
    <2>7. PICK k \in Nat : document.nodes \in [1..k -> Node]
      BY <2>5, <2>6, Zenon
    <2>8. document.nodes \in Seq(Node)
      BY <2>7, SeqDef
    <2> QED
      BY <2>1, <2>8 DEF DocumentOK
  <1> QED
    BY <1>1, <1>2, <1>3, Zenon DEF Documents

(* The invariant holds at first,                                           *)
LEMMA GraphStartsWell ==
    ASSUME GraphInit
    PROVE  GraphIInv
  <1>1. /\ verdict = "new" /\ unresolved = {} /\ turn = {} /\ progressed = FALSE /\ results = <<>>
        /\ specs = <<>> /\ recorded = 0 /\ stored = {} /\ losses = 0
        /\ standing = <<>> /\ rendering = <<>> /\ manner = <<>> /\ carrier = <<>>
    BY DEF GraphInit
  <1>2. DocumentOK
    BY DocumentIsOK
  <1>3. /\ \A S : <<>> \in Seq(S)
        /\ DOMAIN << >> = {} /\ Len(<< >>) = 0 /\ 0 \in 0..0
    BY SMT
  <1>4. Len(document.nodes) \in Nat
    BY <1>2, LenProperties DEF DocumentOK
  <1>5. 0 <= Len(document.nodes) /\ 0 \in 0..MaxLosses
    BY <1>4, GraphAssumption, SMT
  <1>6. Passes /\ Verdicts
    BY <1>1 DEF Passes, Verdicts
  <1>7. TablesMatch
    BY <1>1, <1>3, <1>5 DEF TablesMatch
  <1>8. DoneIsStored /\ GivenHasNeeds /\ PlaceholdersFilled
    BY <1>1, <1>3 DEF DoneIsStored, GivenHasNeeds, PlaceholdersFilled
  <1> QED
    BY <1>2, <1>6, <1>7, <1>8 DEF GraphIInv

(* What a task depends on: names that no earlier task has, and earlier     *)
(* tasks, the latest of their names.                                       *)
LEMMA DependsOn ==
    ASSUME TablesMatch, NEW k \in DOMAIN specs
    PROVE  /\ k \in 1..Len(specs) /\ Len(specs) \in Nat /\ DOMAIN specs = 1..Len(specs)
           /\ 1..(k - 1) \subseteq DOMAIN specs
           /\ \A n \in specs[k].needs : Bind(specs, k, n) \in bound[k]
           /\ \A dep \in bound[k] : \E n \in specs[k].needs : dep = Bind(specs, k, n)
           /\ \A n : \/ /\ Bind(specs, k, n) = Raw(n)
                        /\ \A j \in 1..(k - 1) : specs[j].name # n
                     \/ \E j \in 1..(k - 1) :
                          /\ Bind(specs, k, n) = Task(j) /\ specs[j].name = n
                          /\ \A i \in 1..(k - 1) : specs[i].name = n => i <= j
           /\ \A dep \in bound[k] : "task" \in DOMAIN dep => dep.task \in 1..(k - 1)
  <1>1. specs \in Seq(Node) /\ bound[k] = Bound(specs)[k]
    BY DEF TablesMatch
  <1>2. k \in 1..Len(specs) /\ Len(specs) \in Nat /\ DOMAIN specs = 1..Len(specs)
    BY <1>1, LenProperties
  <1>3. k \in Nat \ {0} /\ 1..(k - 1) \subseteq DOMAIN specs
    BY <1>2, SMT
  <1>4. \A n \in specs[k].needs : Bind(specs, k, n) \in bound[k]
    BY <1>1, BoundIs
  <1>5. \A dep \in bound[k] : \E n \in specs[k].needs : dep = Bind(specs, k, n)
    BY <1>1, BoundIs
  <1>6. ASSUME NEW n
        PROVE  \/ /\ Bind(specs, k, n) = Raw(n)
                  /\ \A j \in 1..(k - 1) : specs[j].name # n
               \/ \E j \in 1..(k - 1) :
                    /\ Bind(specs, k, n) = Task(j) /\ specs[j].name = n
                    /\ \A i \in 1..(k - 1) : specs[i].name = n => i <= j
    BY <1>3, BindIs
  <1>7. ASSUME NEW dep \in bound[k], "task" \in DOMAIN dep PROVE dep.task \in 1..(k - 1)
    <2>1. PICK n \in specs[k].needs : dep = Bind(specs, k, n)
      BY <1>5
    <2>2. Bind(specs, k, n) # Raw(n)
      BY <1>7, <2>1, DependencyIs
    <2>3. PICK j \in 1..(k - 1) : Bind(specs, k, n) = Task(j)
      BY <1>6, <2>2
    <2> QED
      BY <2>1, <2>3, DependencyIs
  <1> QED
    BY <1>2, <1>3, <1>4, <1>5, <1>6, <1>7

(* A task may go only when what it needs is stored, and then its message   *)
(* has every placeholder filled.                                           *)
LEMMA MayGoHasNeeds ==
    ASSUME TablesMatch, DoneIsStored, NEW k \in DOMAIN specs, MayGo(k)
    PROVE  /\ NeedsStored(k)
           /\ \A n \in specs[k].needs : Bind(specs, k, n) # Raw(n) => Render(k)[n] = "filled"
  <1>1. NeedsStored(k)
    <2> SUFFICES ASSUME NEW dep \in bound[k], "task" \in DOMAIN dep PROVE dep.task \in stored
      BY DEF NeedsStored
    <2>1. dep.task \in 1..(k - 1) /\ 1..(k - 1) \subseteq DOMAIN specs
      BY DependsOn
    <2>2. PICK n : dep = Bind(specs, k, n)
      BY DependsOn
    <2>3. Bind(specs, k, n) # Raw(n)
      BY <2>2, DependencyIs
    <2>4. PICK j : dep = Task(j)
      BY <2>2, <2>3, DependsOn
    <2>5. "raw" \notin DOMAIN dep
      BY <2>4, DependencyIs
    <2>6. standing[dep.task] = "DONE"
      BY <2>5 DEF MayGo, Satisfied
    <2> QED
      BY <2>1, <2>6 DEF DoneIsStored
  <1>2. ASSUME NEW n \in specs[k].needs, Bind(specs, k, n) # Raw(n)
        PROVE  Render(k)[n] = "filled"
    <2>1. PICK j \in 1..(k - 1) : Bind(specs, k, n) = Task(j) /\ specs[j].name = n
      BY <1>2, DependsOn
    <2>2. Task(j) \in bound[k]
      BY <2>1, DependsOn
    <2>3. "task" \in DOMAIN Task(j) /\ Task(j).task = j
      BY DependencyIs
    <2>4. j \in stored
      BY <1>1, <2>2, <2>3 DEF NeedsStored
    <2>5. n \in Context(k)
      BY <2>1, <2>2, <2>3, <2>4 DEF Context
    <2>6. Render(k) = [m \in specs[k].needs |->
                         IF bound[k] = {} \/ Context(k) = {} THEN "verbatim"
                         ELSE IF m \in Context(k) THEN "filled" ELSE "blank"]
      BY DEF Render, RenderIn
    <2>7. bound[k] # {} /\ Context(k) # {}
      BY <2>2, <2>5
    <2> QED
      BY <2>5, <2>6, <2>7
  <1> QED
    BY <1>1, <1>2

(* Stages as they are chained: each keeps its name and needs the one       *)
(* before it.                                                              *)
LEMMA WrittenIs ==
    ASSUME DocumentOK
    PROVE  /\ Expanded(document) \in Seq(Node)
           /\ Len(Expanded(document)) = Len(document.nodes)
           /\ document.mode = "stages" =>
                \A k \in DOMAIN Expanded(document) :
                    k > 1 => Expanded(document)[k - 1].name \in Expanded(document)[k].needs
  <1>1. PICK nodes : nodes = document.nodes
    OBVIOUS
  <1>2. nodes \in Seq(Node)
    BY <1>1 DEF DocumentOK
  <1>3. Len(nodes) \in Nat /\ DOMAIN nodes = 1..Len(nodes)
    BY <1>2, LenProperties
  <1>4. CASE document.mode # "stages"
    BY <1>1, <1>2, <1>4 DEF Expanded
  <1>5. CASE document.mode = "stages"
    <2>1. PICK q : q = Chained(nodes)
      OBVIOUS
    <2>2. DOMAIN q = 1..Len(nodes)
      BY <1>3, <2>1 DEF Chained
    <2>3. \A i \in DOMAIN nodes :
            q[i] = IF i = 1 THEN nodes[i]
                   ELSE [nodes[i] EXCEPT !.needs = @ \cup {nodes[i - 1].name}]
      BY <2>1 DEF Chained
    <2>4. \A i \in DOMAIN nodes : nodes[i] \in Node
      BY <1>2, ElementOfSeq, <1>3
    <2>5. \A i \in DOMAIN nodes : i # 1 => i - 1 \in DOMAIN nodes
      BY <1>3, SMT
    <2>6. ASSUME NEW i \in DOMAIN nodes
          PROVE  /\ q[i] \in Node /\ q[i].name = nodes[i].name
                 /\ i # 1 => nodes[i - 1].name \in q[i].needs
      <3>1. CASE i = 1
        BY <2>3, <2>4, <3>1
      <3>2. CASE i # 1
        <4>1. PICK a, b : a = nodes[i] /\ b = nodes[i - 1].name
          OBVIOUS
        <4>2. a \in Node /\ b \in NodeNames
          BY <2>4, <2>5, <3>2, <4>1 DEF Node
        <4>3. q[i] = [a EXCEPT !.needs = @ \cup {b}]
          BY <2>3, <3>2, <4>1
        <4>4. q[i] \in Node /\ q[i].name = a.name /\ b \in q[i].needs
          BY ONLY <4>2, <4>3 DEF Node
        <4> QED
          BY <4>1, <4>4
      <3> QED
        BY <3>1, <3>2
    <2>7. q \in [1..Len(nodes) -> Node]
      <3>1. \A i \in 1..Len(nodes) : q[i] \in Node
        BY <1>3, <2>6
      <3>2. q = [i \in 1..Len(nodes) |-> q[i]]
        BY <1>3, <2>1 DEF Chained
      <3> QED
        BY <3>1, <3>2
    <2>8. q \in Seq(Node)
      BY <1>3, <2>7, SeqDef
    <2>9. Len(q) = Len(nodes)
      BY <1>3, <2>2, <2>8, LenProperties
    <2>10. \A k \in DOMAIN q : k > 1 => k # 1 /\ k - 1 \in DOMAIN nodes /\ k \in DOMAIN nodes
      BY <1>3, <2>2, SMT
    <2>11. \A k \in DOMAIN q : k > 1 => q[k - 1].name \in q[k].needs
      BY <2>6, <2>10
    <2> QED
      BY <1>1, <1>5, <2>1, <2>8, <2>9, <2>11 DEF Expanded
  <1> QED
    BY <1>4, <1>5

(* What the invariant says is what the runs check.                         *)
LEMMA GraphFollows ==
    ASSUME GraphIInv
    PROVE  GraphInv
  <1>1. DocumentOK /\ Passes /\ Verdicts /\ TablesMatch /\ DoneIsStored /\ GivenHasNeeds
    BY DEF GraphIInv
  <1>2. document.nodes \in Seq(Node)
    BY <1>1 DEF DocumentOK
  <1>3. specs \in Seq(Node) /\ Len(specs) \in Nat /\ DOMAIN specs = 1..Len(specs)
    BY <1>1, LenProperties DEF TablesMatch
  <1>4. GraphTypeOK
    <2>1. verdict \in {"new", "sorting", "rejected", "accepted"}
      BY <1>1 DEF Verdicts
    <2>2. turn \subseteq unresolved /\ unresolved \subseteq DOMAIN document.nodes
      BY <1>1 DEF Passes
    <2>3. \A k \in DOMAIN specs : standing[k] \in Standings
      BY <1>1 DEF TablesMatch
    <2>4. {standing[k] : k \in DOMAIN specs} \subseteq Standings
      BY <2>3
    <2>5. \A k \in DOMAIN specs : \A dep \in bound[k] :
            "task" \in DOMAIN dep => dep.task \in 1..(k - 1)
      BY <1>1, DependsOn
    <2>6. /\ recorded \in 0..Len(specs) /\ Len(specs) <= Len(document.nodes)
          /\ \A k \in DOMAIN specs : standing[k] = "NEW" <=> k > recorded
          /\ stored \subseteq DOMAIN specs /\ losses \in 0..MaxLosses
      BY <1>1 DEF TablesMatch
    <2> QED
      BY <2>1, <2>2, <2>4, <2>5, <2>6 DEF GraphTypeOK
  <1>5. AcceptedIffOrdered
    <2> SUFFICES ASSUME document.mode = "graph", verdict \in {"rejected", "accepted"}
                 PROVE  verdict = "rejected" <=> Duplicate(document.nodes) \/ Circle(document.nodes)
      BY DEF AcceptedIffOrdered
    <2>1. CASE verdict = "rejected"
      BY <1>1, <2>1 DEF Verdicts
    <2>2. CASE verdict = "accepted"
      <3>1. ~Duplicate(document.nodes) /\ Ordered(specs, document.nodes, {})
        BY <1>1, <2>2 DEF Verdicts
      <3>2. ~Circle(document.nodes)
        BY <1>2, <3>1, OrderHasNoCircle
      <3> QED
        BY <2>2, <3>1, <3>2
    <2> QED
      BY <2>1, <2>2
  <1>6. (DOMAIN specs # {}) => verdict = "accepted"
    <2>1. DOMAIN << >> = {}
      OBVIOUS
    <2> QED
      BY <1>1, <2>1 DEF Verdicts
  <1>7. (DOMAIN specs # {} /\ document.mode = "graph") => InOrder(specs)
    BY <1>1, <1>6 DEF Verdicts, Ordered
  <1>8. GivenAfterNeeds
    <2>1. ASSUME document.mode = "graph", NEW k \in DOMAIN specs, NEW j \in DOMAIN specs,
                 Given(k), specs[j].name \in specs[k].needs
          PROVE  j \in stored
      <3>1. InOrder(specs)
        BY <1>7, <2>1
      <3>2. specs[j].name # Outside
        <4>0. specs[j] \in Node
          BY <1>3, ElementOfSeq
        <4>1. specs[j].name \in 1..MaxNodes
          BY <4>0 DEF Node, NodeNames
        <4>2. \A x \in 1..MaxNodes : x # 0
          BY GraphAssumption, SMT
        <4> QED
          BY <4>1, <4>2 DEF Outside
      <3>3. PICK l \in 1..(k - 1) : specs[l].name = specs[j].name
        BY <2>1, <3>1, <3>2 DEF InOrder
      <3>4. l = j
        <4>1. l \in DOMAIN specs
          BY <1>1, <3>3, DependsOn
        <4> QED
          BY <3>1, <3>3, <4>1 DEF InOrder
      <3>5. PICK i \in 1..(k - 1) : /\ Bind(specs, k, specs[j].name) = Task(i)
                                    /\ specs[i].name = specs[j].name
        BY <1>1, <3>3, <3>4, DependsOn
      <3>6. i = j
        <4>1. i \in DOMAIN specs
          BY <1>1, <3>5, DependsOn
        <4> QED
          BY <3>1, <3>5, <4>1 DEF InOrder
      <3>7. Task(j) \in bound[k]
        BY <1>1, <2>1, <3>5, <3>6, DependsOn
      <3> QED
        BY <1>1, <2>1, <3>7, DependencyIs DEF GivenHasNeeds, NeedsStored
    <2>2. ASSUME document.mode = "stages", NEW k \in DOMAIN specs, Given(k), k > 1
          PROVE  k - 1 \in stored
      <3>1. specs = Expanded(document)
        BY <1>1, <1>6, <2>2 DEF Verdicts
      <3>2. specs[k - 1].name \in specs[k].needs
        BY <1>1, <2>2, <3>1, WrittenIs
      <3>3. k - 1 \in 1..(k - 1)
        BY <1>3, <2>2, SMT
      <3>4. PICK j \in 1..(k - 1) :
                  /\ Bind(specs, k, specs[k - 1].name) = Task(j)
                  /\ \A i \in 1..(k - 1) : specs[i].name = specs[k - 1].name => i <= j
        BY <1>1, <3>3, DependsOn
      <3>5. k - 1 <= j
        BY <3>3, <3>4
      <3>6. j = k - 1
        BY <1>3, <3>5, SMT
      <3>7. Task(k - 1) \in bound[k]
        BY <1>1, <3>2, <3>4, <3>6, DependsOn
      <3> QED
        BY <1>1, <2>2, <3>7, DependencyIs DEF GivenHasNeeds, NeedsStored
    <2> QED
      BY <2>1, <2>2 DEF GivenAfterNeeds
  <1>9. NoCircularWait
    <2> SUFFICES ASSUME document.mode = "graph", Quiet,
                        \E k \in DOMAIN specs : standing[k] = "PENDING"
                 PROVE  \E k \in DOMAIN specs :
                          /\ standing[k] = "PENDING"
                          /\ \/ Raw(Outside) \in bound[k] /\ ~document.earlier
                             \/ \E j \in DOMAIN specs : Task(j) \in bound[k] /\ standing[j] = "FAILED"
      BY DEF NoCircularWait
    <2> DEFINE waiting == {k \in DOMAIN specs : standing[k] = "PENDING"}
    <2>1. PICK k \in waiting : \A j \in waiting : k <= j
      <3>1. waiting \subseteq Nat /\ waiting # {}
        <4>1. DOMAIN specs \subseteq Nat
          BY <1>3, SMT
        <4> QED
          BY <4>1
      <3> HIDE DEF waiting
      <3> QED
        BY <3>1, SmallestOf
    <2>2. k \in DOMAIN specs /\ standing[k] = "PENDING" /\ ~MayGo(k)
      BY DEF Quiet
    <2>3. PICK dep \in bound[k] : ~Satisfied(dep)
      BY <2>2 DEF MayGo
    <2>4. PICK n \in specs[k].needs : dep = Bind(specs, k, n)
      BY <1>1, <2>2, DependsOn
    <2>5. CASE \E j \in 1..(k - 1) : dep = Task(j)
      <3>1. PICK j \in 1..(k - 1) : dep = Task(j)
        BY <2>5
      <3>2. j \in DOMAIN specs
        BY <1>1, <2>2, <3>1, DependsOn
      <3>3. j < k
        BY <1>3, <2>2, <3>1, SMT
      <3>4. standing[j] # "DONE"
        BY <2>3, <3>1, DependencyIs DEF Satisfied
      <3>5. standing[j] # "PENDING"
        <4>1. standing[j] = "PENDING" => k <= j
          BY <2>1, <3>2
        <4> QED
          BY <1>3, <2>2, <3>2, <3>3, <4>1, SMT
      <3>6. standing[j] # "NEW"
        <4>1. standing[j] = "NEW" => j > Len(specs)
          BY <1>1, <3>2 DEF TablesMatch, Quiet
        <4>2. j \in 1..Len(specs)
          BY <1>3, <3>2
        <4> QED
          BY <1>3, <4>1, <4>2, SMT
      <3>7. standing[j] \in Standings /\ standing[j] \notin {"DISPATCHED", "MERGED"}
        BY <1>1, <3>2 DEF TablesMatch, Quiet
      <3>8. standing[j] = "FAILED"
        BY <3>4, <3>5, <3>6, <3>7 DEF Standings
      <3> QED
        BY <2>2, <3>1, <3>2, <3>8
    <2>6. CASE dep = Raw(n) /\ \A j \in 1..(k - 1) : specs[j].name # n
      <3>1. InOrder(specs)
        BY <1>7, <2>2
      <3>2. n = Outside
        BY <2>2, <2>4, <2>6, <3>1 DEF InOrder
      <3>3. ~document.earlier
        BY <2>3, <2>6, <3>2, DependencyIs DEF Satisfied
      <3> QED
        BY <2>2, <2>6, <3>2, <3>3
    <2> QED
      BY <1>1, <2>2, <2>4, <2>5, <2>6, DependsOn
  <1>10. PlaceholdersFilled
    BY DEF GraphIInv
  <1> QED
    BY <1>4, <1>5, <1>8, <1>9, <1>10 DEF GraphInv

(* The tasks of an accepted document, as they are registered.              *)
LEMMA RegisterKeeps ==
    ASSUME GraphIInv, verdict # "accepted", NEW ss, ss \in Seq(Node),
           Len(ss) <= Len(document.nodes), Register(ss)
    PROVE  /\ TablesMatch' /\ DoneIsStored' /\ GivenHasNeeds' /\ PlaceholdersFilled'
           /\ document' = document /\ verdict' = "accepted" /\ specs' = ss
  <1>1. TablesMatch /\ Verdicts
    BY DEF GraphIInv
  <1>2. /\ document' = document /\ verdict' = "accepted" /\ specs' = ss
        /\ recorded' = recorded /\ stored' = stored /\ losses' = losses
        /\ bound' = Bound(ss)
        /\ standing' = [k \in DOMAIN ss |-> "NEW"]
        /\ rendering' = [k \in DOMAIN ss |-> << >>]
        /\ manner' = [k \in DOMAIN ss |-> "none"]
        /\ carrier' = [k \in DOMAIN ss |-> k]
    BY DEF Register
  <1>3. specs = << >>
    BY <1>1 DEF Verdicts
  <1>4. DOMAIN << >> = {} /\ Len(<< >>) = 0
    BY SMT
  <1>5. recorded = 0 /\ stored = {} /\ losses \in 0..MaxLosses
    <2>1. recorded \in 0..0
      BY <1>1, <1>3, <1>4 DEF TablesMatch
    <2>2. recorded = 0
      BY <2>1, SMT
    <2> QED
      BY <1>1, <1>3, <1>4, <2>2 DEF TablesMatch
  <1>6. Len(ss) \in Nat /\ DOMAIN ss = 1..Len(ss)
    BY LenProperties
  <1>7. 0 \in 0..Len(ss) /\ \A k \in 1..Len(ss) : k > 0
    BY <1>6, SMT
  <1>8. \A k \in DOMAIN ss : standing'[k] = "NEW"
    BY <1>2
  <1>9. TablesMatch'
    <2>1. \A k \in DOMAIN ss : standing'[k] \in Standings /\ (standing'[k] = "NEW" <=> k > 0)
      BY <1>6, <1>7, <1>8 DEF Standings
    <2>2. /\ specs' \in Seq(Node) /\ Len(specs') <= Len(document'.nodes)
          /\ \A k \in DOMAIN specs' : bound'[k] = Bound(specs')[k]
      BY <1>2
    <2>3. /\ DOMAIN standing' = DOMAIN specs' /\ DOMAIN rendering' = DOMAIN specs'
          /\ DOMAIN manner' = DOMAIN specs' /\ DOMAIN carrier' = DOMAIN specs'
      BY <1>2
    <2>4. /\ recorded' \in 0..Len(specs') /\ stored' \subseteq DOMAIN specs'
          /\ losses' \in 0..MaxLosses
      BY <1>2, <1>5, <1>7
    <2>5. \A k \in DOMAIN specs' :
             standing'[k] \in Standings /\ (standing'[k] = "NEW" <=> k > recorded')
      BY <1>2, <1>5, <2>1
    <2> QED
      BY <2>2, <2>3, <2>4, <2>5 DEF TablesMatch
  <1>10. \A k \in DOMAIN specs' : standing'[k] # "DONE" /\ ~ Given(k)'
    BY <1>2, <1>8 DEF Given
  <1>11. DoneIsStored' /\ GivenHasNeeds' /\ PlaceholdersFilled'
    BY <1>10 DEF DoneIsStored, GivenHasNeeds, PlaceholdersFilled
  <1> QED
    BY <1>2, <1>9, <1>11

(* when stages or a single task are parsed,                                *)
LEMMA ParseWrittenKeeps ==
    ASSUME GraphIInv, ParseWritten
    PROVE  GraphIInv'
  <1>1. DocumentOK /\ Passes /\ verdict = "new" /\ document.mode # "graph"
    BY DEF GraphIInv, ParseWritten
  <1>2. Register(Expanded(document)) /\ sorting' = sorting
    BY DEF ParseWritten
  <1>3. Expanded(document) \in Seq(Node) /\ Len(Expanded(document)) = Len(document.nodes)
    BY <1>1, WrittenIs
  <1>4. Len(Expanded(document)) <= Len(document.nodes)
    <2>1. Len(document.nodes) \in Nat
      BY <1>1, LenProperties DEF DocumentOK
    <2> QED
      BY <1>3, <2>1, SMT
  <1>5. /\ TablesMatch' /\ DoneIsStored' /\ GivenHasNeeds' /\ PlaceholdersFilled'
        /\ document' = document /\ verdict' = "accepted" /\ specs' = Expanded(document)
    BY <1>1, <1>2, <1>3, <1>4, RegisterKeeps
  <1>6. DocumentOK'
    BY <1>1, <1>5 DEF DocumentOK
  <1>7. Passes'
    <2>1. unresolved' = {} /\ turn' = {} /\ results' = <<>> /\ progressed' = FALSE
      BY <1>1, <1>2 DEF Passes, sorting
    <2> QED
      BY <1>5, <2>1 DEF Passes
  <1>8. Verdicts'
    <2>1. Expanded(document)' = Expanded(document)
      BY <1>5 DEF Expanded
    <2> QED
      BY <1>1, <1>5, <2>1 DEF Verdicts
  <1> QED
    BY <1>5, <1>6, <1>7, <1>8 DEF GraphIInv

(* The steps of the parser leave the tables alone.                         *)
LEMMA TablesStay ==
    ASSUME GraphIInv, UNCHANGED <<document, specs, bound, tables>>
    PROVE  DocumentOK' /\ TablesMatch' /\ DoneIsStored' /\ GivenHasNeeds' /\ PlaceholdersFilled'
  <1>1. /\ document' = document /\ specs' = specs /\ bound' = bound /\ recorded' = recorded
        /\ standing' = standing /\ rendering' = rendering /\ manner' = manner
        /\ carrier' = carrier /\ stored' = stored /\ losses' = losses
    BY DEF tables
  <1>2. DocumentOK'
    BY <1>1 DEF GraphIInv, DocumentOK
  <1>3. TablesMatch'
    BY <1>1 DEF GraphIInv, TablesMatch
  <1>4. DoneIsStored'
    BY <1>1 DEF GraphIInv, DoneIsStored
  <1>5. GivenHasNeeds'
    BY <1>1 DEF GraphIInv, GivenHasNeeds, NeedsStored, Given
  <1>6. PlaceholdersFilled'
    BY <1>1 DEF GraphIInv, PlaceholdersFilled, Given
  <1> QED
    BY <1>2, <1>3, <1>4, <1>5, <1>6

(* when a graph's nodes are indexed or refused,                            *)
LEMMA IndexNodesKeeps ==
    ASSUME GraphIInv, IndexNodes
    PROVE  GraphIInv'
  <1>1. DocumentOK /\ Passes /\ Verdicts /\ verdict = "new" /\ document.mode = "graph"
    BY DEF GraphIInv, IndexNodes
  <1>2. UNCHANGED <<document, specs, bound, tables>> /\ document' = document /\ specs' = specs
    BY DEF IndexNodes
  <1>3. DocumentOK' /\ TablesMatch' /\ DoneIsStored' /\ GivenHasNeeds' /\ PlaceholdersFilled'
    BY <1>2, TablesStay
  <1>4. unresolved = {} /\ turn = {} /\ results = <<>> /\ progressed = FALSE /\ specs = <<>>
    BY <1>1 DEF Passes, Verdicts
  <1>5. CASE Duplicate(document.nodes) \/ SelfDependent(document.nodes)
    <2>1. verdict' = "rejected" /\ sorting' = sorting
      BY <1>5 DEF IndexNodes
    <2>2. Duplicate(document.nodes) \/ Circle(document.nodes)
      BY <1>1, <1>5, SelfIsCircle DEF DocumentOK
    <2>3. Passes'
      BY <1>4, <2>1 DEF Passes, sorting
    <2>4. Verdicts'
      BY <1>1, <1>2, <1>4, <2>1, <2>2 DEF Verdicts
    <2> QED
      BY <1>3, <2>3, <2>4 DEF GraphIInv
  <1>6. CASE ~(Duplicate(document.nodes) \/ SelfDependent(document.nodes))
    <2>1. /\ verdict' = "sorting" /\ unresolved' = DOMAIN document.nodes
          /\ turn' = DOMAIN document.nodes /\ progressed' = FALSE /\ results' = << >>
      BY <1>4, <1>6 DEF IndexNodes
    <2>2. Ordered(<<>>, document.nodes, DOMAIN document.nodes)
      BY <1>1, NothingPlaced DEF DocumentOK
    <2>3. unresolved' \ turn' = {}
      BY <2>1
    <2>4. Passes'
      BY <1>1, <1>2, <1>6, <2>1, <2>2, <2>3 DEF Passes
    <2>5. Verdicts'
      BY <1>1, <1>2, <1>4, <2>1 DEF Verdicts
    <2> QED
      BY <1>3, <2>4, <2>5 DEF GraphIInv
  <1> QED
    BY <1>5, <1>6

(* when a pass looks at a node and places it or not,                       *)
LEMMA PlaceNextKeeps ==
    ASSUME GraphIInv, PlaceNext
    PROVE  GraphIInv'
  <1>1. DocumentOK /\ Passes /\ Verdicts /\ verdict = "sorting"
    BY DEF GraphIInv, PlaceNext
  <1>2. /\ UNCHANGED <<document, specs, bound, tables>>
        /\ document' = document /\ specs' = specs /\ verdict' = verdict
    BY DEF PlaceNext
  <1>3. DocumentOK' /\ TablesMatch' /\ DoneIsStored' /\ GivenHasNeeds' /\ PlaceholdersFilled'
    BY <1>2, TablesStay
  <1>4. Verdicts'
    BY <1>1, <1>2 DEF Verdicts
  <1>5. /\ document.mode = "graph" /\ ~Duplicate(document.nodes)
        /\ unresolved \subseteq DOMAIN document.nodes /\ turn \subseteq unresolved
        /\ Ordered(results, document.nodes, unresolved)
        /\ progressed \in BOOLEAN
        /\ ~progressed => \A i \in unresolved \ turn : Waits(i)
    BY <1>1 DEF Passes
  <1>6. PICK i \in turn :
               /\ turn' = turn \ {i}
               /\ IF Waits(i) THEN UNCHANGED <<unresolved, progressed, results>>
                  ELSE /\ unresolved' = unresolved \ {i}
                       /\ progressed' = TRUE
                       /\ results' = Append(results, document.nodes[i])
    BY DEF PlaceNext
  <1>7. CASE Waits(i)
    <2>1. unresolved' = unresolved /\ progressed' = progressed /\ results' = results
      BY <1>6, <1>7
    <2>2. \A j : Waits(j)' <=> Waits(j)
      BY <1>2, <2>1 DEF Waits
    <2>3. ~progressed' => \A j \in unresolved' \ turn' : Waits(j)'
      BY <1>5, <1>6, <1>7, <2>1, <2>2
    <2>4. Passes'
      BY <1>1, <1>2, <1>5, <1>6, <2>1, <2>3 DEF Passes
    <2> QED
      BY <1>3, <1>4, <2>4 DEF GraphIInv
  <1>8. CASE ~Waits(i)
    <2>1. /\ unresolved' = unresolved \ {i} /\ progressed' = TRUE
          /\ results' = Append(results, document.nodes[i])
      BY <1>6, <1>8
    <2>2. document.nodes[i].needs
            \subseteq {Outside} \cup NamesOf(document.nodes, DOMAIN document.nodes)
      BY <1>1, <1>5 DEF DocumentOK
    <2>3. document.nodes[i].needs \cap NamesOf(document.nodes, unresolved) = {}
      BY <1>8 DEF Waits
    <2>4. document.nodes \in Seq(Node) /\ i \in unresolved
      BY <1>1, <1>5 DEF DocumentOK
    <2>5. Ordered(Append(results, document.nodes[i]), document.nodes, unresolved \ {i})
      BY <1>5, <2>2, <2>3, <2>4, PlacingKeepsOrder
    <2>6. turn' \subseteq unresolved' /\ unresolved' \subseteq DOMAIN document.nodes
      BY <1>5, <1>6, <2>1
    <2>7. Passes'
      BY <1>1, <1>2, <1>5, <2>1, <2>5, <2>6 DEF Passes
    <2> QED
      BY <1>3, <1>4, <2>7 DEF GraphIInv
  <1> QED
    BY <1>7, <1>8

(* when a pass ends: another follows, a circle is found, or all are placed,*)
LEMMA PassEndsKeeps ==
    ASSUME GraphIInv, PassEnds
    PROVE  GraphIInv'
  <1>1. /\ DocumentOK /\ Passes /\ Verdicts /\ verdict = "sorting" /\ turn = {}
        /\ progressed' = FALSE
    BY DEF GraphIInv, PassEnds
  <1>2. /\ document.mode = "graph" /\ ~Duplicate(document.nodes)
        /\ unresolved \subseteq DOMAIN document.nodes
        /\ Ordered(results, document.nodes, unresolved)
        /\ ~progressed => \A i \in unresolved : Waits(i)
    BY <1>1 DEF Passes
  <1>3. document.nodes \in Seq(Node)
    BY <1>1 DEF DocumentOK
  <1>4. CASE /\ turn' = unresolved
             /\ UNCHANGED <<document, verdict, unresolved, results, specs, bound, tables>>
    <2>1. /\ document' = document /\ verdict' = verdict /\ unresolved' = unresolved
          /\ results' = results /\ specs' = specs
          /\ UNCHANGED <<document, specs, bound, tables>>
      BY <1>4
    <2>2. DocumentOK' /\ TablesMatch' /\ DoneIsStored' /\ GivenHasNeeds' /\ PlaceholdersFilled'
      BY <2>1, TablesStay
    <2>3. unresolved' \ turn' = {} /\ turn' \subseteq unresolved'
      BY <1>4, <2>1
    <2>4. Passes'
      BY <1>1, <1>2, <2>1, <2>3 DEF Passes
    <2>5. Verdicts'
      BY <1>1, <2>1 DEF Verdicts
    <2> QED
      BY <2>2, <2>4, <2>5 DEF GraphIInv
  <1>5. CASE /\ ~progressed /\ unresolved # {}
             /\ verdict' = "rejected" /\ unresolved' = {} /\ results' = <<>>
             /\ UNCHANGED <<document, turn, specs, bound, tables>>
    <2>1. /\ document' = document /\ turn' = turn /\ specs' = specs
          /\ UNCHANGED <<document, specs, bound, tables>>
      BY <1>5
    <2>2. DocumentOK' /\ TablesMatch' /\ DoneIsStored' /\ GivenHasNeeds' /\ PlaceholdersFilled'
      BY <2>1, TablesStay
    <2>3. \A i \in unresolved :
            document.nodes[i].needs \cap NamesOf(document.nodes, unresolved) # {}
      BY <1>2, <1>5 DEF Waits
    <2>4. Circle(document.nodes)
      BY <1>2, <1>3, <1>5, <2>3, StuckIsCircle
    <2>5. Passes'
      BY <1>1, <1>5, <2>1 DEF Passes
    <2>6. Verdicts'
      BY <1>1, <1>2, <1>5, <2>1, <2>4 DEF Verdicts
    <2> QED
      BY <2>2, <2>5, <2>6 DEF GraphIInv
  <1>6. CASE /\ unresolved = {}
             /\ Register(results) /\ results' = <<>>
             /\ UNCHANGED <<unresolved, turn>>
    <2>1. /\ results \in Seq(Node)
          /\ Len(results) + Cardinality(unresolved) = Len(document.nodes)
      BY <1>2 DEF Ordered, SameNodes
    <2>2. Len(results) <= Len(document.nodes)
      <3>1. Cardinality(unresolved) = 0
        BY <1>6, FS_EmptySet
      <3>2. Len(results) \in Nat /\ Len(document.nodes) \in Nat
        BY <1>3, <2>1, LenProperties
      <3> QED
        BY <2>1, <3>1, <3>2, SMT
    <2>3. /\ TablesMatch' /\ DoneIsStored' /\ GivenHasNeeds' /\ PlaceholdersFilled'
          /\ document' = document /\ verdict' = "accepted" /\ specs' = results
      BY <1>1, <1>6, <2>1, <2>2, RegisterKeeps
    <2>4. DocumentOK'
      BY <1>1, <2>3 DEF DocumentOK
    <2>5. Passes'
      BY <1>1, <1>6, <2>3 DEF Passes
    <2>6. Verdicts'
      BY <1>2, <1>6, <2>3 DEF Verdicts
    <2> QED
      BY <2>3, <2>4, <2>5, <2>6 DEF GraphIInv
  <1> QED
    BY <1>4, <1>5, <1>6 DEF PassEnds

(* The steps of the tasks leave the document and its order alone; it is    *)
(* enough that no task is given out without what it needs.                 *)
LEMMA ParsingStays ==
    ASSUME GraphIInv, UNCHANGED parsing,
           DOMAIN standing' = DOMAIN specs, DOMAIN rendering' = DOMAIN specs,
           DOMAIN manner' = DOMAIN specs, DOMAIN carrier' = DOMAIN specs,
           recorded' \in 0..Len(specs),
           \A k \in DOMAIN specs :
              standing'[k] \in Standings /\ (standing'[k] = "NEW" <=> k > recorded'),
           stored \subseteq stored', stored' \subseteq DOMAIN specs, losses' \in 0..MaxLosses,
           \A k \in DOMAIN specs : standing'[k] = "DONE" => k \in stored',
           \A k \in DOMAIN specs : Given(k)' => Given(k) \/ NeedsStored(k),
           \A k \in DOMAIN specs : Given(k)' /\ manner'[k] = "alone" =>
              \/ Given(k) /\ manner[k] = "alone" /\ rendering'[k] = rendering[k]
              \/ \A n \in specs[k].needs :
                   Bind(specs, k, n) # Raw(n) => rendering'[k][n] = "filled"
    PROVE  GraphIInv'
  <1>1. /\ document' = document /\ verdict' = verdict /\ specs' = specs /\ bound' = bound
        /\ unresolved' = unresolved /\ turn' = turn /\ progressed' = progressed
        /\ results' = results
    BY DEF parsing, sorting
  <1>2. DocumentOK'
    BY <1>1 DEF GraphIInv, DocumentOK
  <1>3. Passes'
    BY <1>1 DEF GraphIInv, Passes, Waits
  <1>4. Verdicts'
    BY <1>1 DEF GraphIInv, Verdicts, Expanded
  <1>5. TablesMatch'
    <2>1. /\ specs \in Seq(Node) /\ Len(specs) <= Len(document.nodes)
          /\ \A k \in DOMAIN specs : bound[k] = Bound(specs)[k]
      BY DEF GraphIInv, TablesMatch
    <2> QED
      BY <1>1, <2>1 DEF TablesMatch
  <1>6. DoneIsStored'
    BY <1>1 DEF DoneIsStored
  <1>7. GivenHasNeeds'
    <2>1. ASSUME NEW k \in DOMAIN specs, Given(k)' PROVE NeedsStored(k)'
      <3>1. NeedsStored(k)
        BY <2>1 DEF GraphIInv, GivenHasNeeds
      <3> QED
        BY <1>1, <3>1 DEF NeedsStored
    <2> QED
      BY <1>1, <2>1 DEF GivenHasNeeds
  <1>8. PlaceholdersFilled'
    <2>1. ASSUME NEW k \in DOMAIN specs, Given(k)', manner'[k] = "alone",
                 NEW n \in specs[k].needs, Bind(specs, k, n) # Raw(n)
          PROVE  rendering'[k][n] = "filled"
      BY <2>1 DEF GraphIInv, PlaceholdersFilled
    <2> QED
      BY <1>1, <2>1 DEF PlaceholdersFilled
  <1> QED
    BY <1>2, <1>3, <1>4, <1>5, <1>6, <1>7, <1>8 DEF GraphIInv

(* What those steps start from.                                            *)
LEMMA TablesAre ==
    ASSUME GraphIInv
    PROVE  /\ TablesMatch /\ DoneIsStored
           /\ DOMAIN standing = DOMAIN specs /\ DOMAIN rendering = DOMAIN specs
           /\ DOMAIN manner = DOMAIN specs /\ DOMAIN carrier = DOMAIN specs
           /\ recorded \in 0..Len(specs) /\ Len(specs) \in Nat /\ DOMAIN specs = 1..Len(specs)
           /\ stored \subseteq DOMAIN specs /\ losses \in 0..MaxLosses
           /\ \A k \in DOMAIN specs :
                /\ standing[k] \in Standings /\ (standing[k] = "NEW" <=> k > recorded)
                /\ standing[k] = "DONE" => k \in stored
  <1>1. specs \in Seq(Node)
    BY DEF GraphIInv, TablesMatch
  <1>2. Len(specs) \in Nat /\ DOMAIN specs = 1..Len(specs)
    BY <1>1, LenProperties
  <1> QED
    BY <1>2 DEF GraphIInv, TablesMatch, DoneIsStored

(* when a task is recorded and pooled,                                     *)
LEMMA RecordNextKeeps ==
    ASSUME GraphIInv, RecordNext
    PROVE  GraphIInv'
  <1>1. /\ recorded < Len(specs) /\ recorded' = recorded + 1
        /\ standing' = [standing EXCEPT ![recorded + 1] = "PENDING"]
        /\ parsing' = parsing /\ rendering' = rendering /\ manner' = manner
        /\ carrier' = carrier /\ stored' = stored /\ losses' = losses
    BY DEF RecordNext
  <1>2. /\ DOMAIN standing = DOMAIN specs
        /\ recorded \in 0..Len(specs) /\ Len(specs) \in Nat /\ DOMAIN specs = 1..Len(specs)
        /\ \A k \in DOMAIN specs :
             /\ standing[k] \in Standings /\ (standing[k] = "NEW" <=> k > recorded)
             /\ standing[k] = "DONE" => k \in stored
    BY TablesAre
  <1>3. recorded + 1 \in 0..Len(specs) /\ recorded + 1 \in DOMAIN specs
    BY <1>1, <1>2, SMT
  <1>4. \A k \in 1..Len(specs) : k # recorded + 1 => (k > recorded <=> k > recorded + 1)
    BY <1>2, SMT
  <1>5. ~ (recorded + 1 > recorded + 1)
    BY <1>2, SMT
  <1>6. /\ standing'[recorded + 1] = "PENDING" /\ DOMAIN standing' = DOMAIN specs
        /\ \A k \in DOMAIN specs : k # recorded + 1 => standing'[k] = standing[k]
    BY <1>1, <1>2, <1>3
  <1>7. \A k \in DOMAIN specs :
           standing'[k] \in Standings /\ (standing'[k] = "NEW" <=> k > recorded')
    <2>1. ASSUME NEW k \in DOMAIN specs
          PROVE  standing'[k] \in Standings /\ (standing'[k] = "NEW" <=> k > recorded')
      <3>1. CASE k = recorded + 1
        BY <1>1, <1>5, <1>6, <3>1 DEF Standings
      <3>2. CASE k # recorded + 1
        BY <1>1, <1>2, <1>4, <1>6, <3>2
      <3> QED
        BY <3>1, <3>2
    <2> QED
      BY <2>1
  <1>8. \A k \in DOMAIN specs : standing'[k] = "DONE" => k \in stored'
    BY <1>1, <1>2, <1>6
  <1>9. \A k \in DOMAIN specs : Given(k)' => Given(k)
    BY <1>6 DEF Given
  <1>10. /\ DOMAIN rendering' = DOMAIN specs /\ DOMAIN manner' = DOMAIN specs
         /\ DOMAIN carrier' = DOMAIN specs /\ recorded' \in 0..Len(specs)
         /\ stored \subseteq stored' /\ stored' \subseteq DOMAIN specs /\ losses' \in 0..MaxLosses
    BY <1>1, <1>3, TablesAre
  <1>11. \A k \in DOMAIN specs : Given(k)' /\ manner'[k] = "alone" =>
              Given(k) /\ manner[k] = "alone" /\ rendering'[k] = rendering[k]
    BY <1>1, <1>9
  <1> QED
    BY <1>1, <1>6, <1>7, <1>8, <1>9, <1>10, <1>11, ParsingStays

(* when one goes, alone or in shards,                                      *)
LEMMA GiveOneKeeps ==
    ASSUME GraphIInv, NEW k \in DOMAIN specs, GiveAlone(k) \/ GiveSharded(k)
    PROVE  GraphIInv'
  <1>1. /\ MayGo(k) /\ standing' = [standing EXCEPT ![k] = "DISPATCHED"]
        /\ carrier' = [carrier EXCEPT ![k] = k]
        /\ parsing' = parsing /\ recorded' = recorded /\ stored' = stored /\ losses' = losses
    BY DEF GiveAlone, GiveSharded
  <1>2. PICK x, m : /\ rendering' = [rendering EXCEPT ![k] = x]
                    /\ manner' = [manner EXCEPT ![k] = m]
                    /\ m = "alone" => x = Render(k)
    BY DEF GiveAlone, GiveSharded
  <1>3. /\ TablesMatch /\ DoneIsStored
        /\ DOMAIN standing = DOMAIN specs /\ DOMAIN rendering = DOMAIN specs
        /\ DOMAIN manner = DOMAIN specs /\ DOMAIN carrier = DOMAIN specs
        /\ recorded \in 0..Len(specs) /\ stored \subseteq DOMAIN specs /\ losses \in 0..MaxLosses
        /\ \A i \in DOMAIN specs :
             /\ standing[i] \in Standings /\ (standing[i] = "NEW" <=> i > recorded)
             /\ standing[i] = "DONE" => i \in stored
    BY TablesAre
  <1>4. /\ standing'[k] = "DISPATCHED" /\ rendering'[k] = x /\ manner'[k] = m
        /\ \A i \in DOMAIN specs : i # k =>
             standing'[i] = standing[i] /\ rendering'[i] = rendering[i] /\ manner'[i] = manner[i]
        /\ DOMAIN standing' = DOMAIN specs /\ DOMAIN rendering' = DOMAIN specs
        /\ DOMAIN manner' = DOMAIN specs /\ DOMAIN carrier' = DOMAIN specs
    BY <1>1, <1>2, <1>3
  <1>5. standing[k] = "PENDING"
    BY <1>1 DEF MayGo
  <1>6. /\ NeedsStored(k)
        /\ \A n \in specs[k].needs : Bind(specs, k, n) # Raw(n) => Render(k)[n] = "filled"
    BY <1>1, <1>3, MayGoHasNeeds
  <1>7. \A i \in DOMAIN specs :
           standing'[i] \in Standings /\ (standing'[i] = "NEW" <=> i > recorded')
    BY <1>1, <1>3, <1>4, <1>5 DEF Standings
  <1>8. \A i \in DOMAIN specs : standing'[i] = "DONE" => i \in stored'
    BY <1>1, <1>3, <1>4
  <1>9. \A i \in DOMAIN specs : Given(i)' => Given(i) \/ NeedsStored(i)
    BY <1>4, <1>6 DEF Given
  <1>10. \A i \in DOMAIN specs : Given(i)' /\ manner'[i] = "alone" =>
              \/ Given(i) /\ manner[i] = "alone" /\ rendering'[i] = rendering[i]
              \/ \A n \in specs[i].needs :
                   Bind(specs, i, n) # Raw(n) => rendering'[i][n] = "filled"
    BY <1>2, <1>4, <1>6 DEF Given
  <1>11. recorded' \in 0..Len(specs) /\ stored \subseteq stored' /\ stored' \subseteq DOMAIN specs
         /\ losses' \in 0..MaxLosses
    BY <1>1, <1>3
  <1> QED
    BY <1>1, <1>4, <1>7, <1>8, <1>9, <1>10, <1>11, ParsingStays

(* when one goes within another's message,                                 *)
LEMMA GiveMergedKeeps ==
    ASSUME GraphIInv, NEW j \in DOMAIN specs, NEW k \in DOMAIN specs, GiveMerged(j, k)
    PROVE  GraphIInv'
  <1>1. /\ j # k /\ MayGo(j) /\ MayGo(k)
        /\ standing' = [standing EXCEPT ![j] = "DISPATCHED", ![k] = "MERGED"]
        /\ rendering' = [rendering EXCEPT ![j] = Render(j),
                                          ![k] = RenderIn(k, bound[j], Context(j))]
        /\ manner' = [manner EXCEPT ![j] = "alone", ![k] = "merged"]
        /\ carrier' = [carrier EXCEPT ![j] = j, ![k] = j]
        /\ parsing' = parsing /\ recorded' = recorded /\ stored' = stored /\ losses' = losses
    BY DEF GiveMerged
  <1>2. /\ TablesMatch /\ DoneIsStored
        /\ DOMAIN standing = DOMAIN specs /\ DOMAIN rendering = DOMAIN specs
        /\ DOMAIN manner = DOMAIN specs /\ DOMAIN carrier = DOMAIN specs
        /\ recorded \in 0..Len(specs) /\ stored \subseteq DOMAIN specs /\ losses \in 0..MaxLosses
        /\ \A i \in DOMAIN specs :
             /\ standing[i] \in Standings /\ (standing[i] = "NEW" <=> i > recorded)
             /\ standing[i] = "DONE" => i \in stored
    BY TablesAre
  <1>3. /\ standing'[j] = "DISPATCHED" /\ rendering'[j] = Render(j) /\ manner'[j] = "alone"
        /\ standing'[k] = "MERGED" /\ manner'[k] = "merged"
        /\ \A i \in DOMAIN specs : i # j /\ i # k =>
             standing'[i] = standing[i] /\ rendering'[i] = rendering[i] /\ manner'[i] = manner[i]
        /\ DOMAIN standing' = DOMAIN specs /\ DOMAIN rendering' = DOMAIN specs
        /\ DOMAIN manner' = DOMAIN specs /\ DOMAIN carrier' = DOMAIN specs
    BY <1>1, <1>2
  <1>4. standing[j] = "PENDING" /\ standing[k] = "PENDING"
    BY <1>1 DEF MayGo
  <1>5. /\ NeedsStored(j) /\ NeedsStored(k)
        /\ \A n \in specs[j].needs : Bind(specs, j, n) # Raw(n) => Render(j)[n] = "filled"
    BY <1>1, <1>2, MayGoHasNeeds
  <1>6. \A i \in DOMAIN specs :
           standing'[i] \in Standings /\ (standing'[i] = "NEW" <=> i > recorded')
    BY <1>1, <1>2, <1>3, <1>4 DEF Standings
  <1>7. \A i \in DOMAIN specs : standing'[i] = "DONE" => i \in stored'
    BY <1>1, <1>2, <1>3
  <1>8. \A i \in DOMAIN specs : Given(i)' => Given(i) \/ NeedsStored(i)
    BY <1>3, <1>5 DEF Given
  <1>9. \A i \in DOMAIN specs : Given(i)' /\ manner'[i] = "alone" =>
              \/ Given(i) /\ manner[i] = "alone" /\ rendering'[i] = rendering[i]
              \/ \A n \in specs[i].needs :
                   Bind(specs, i, n) # Raw(n) => rendering'[i][n] = "filled"
    BY <1>3, <1>5 DEF Given
  <1>10. recorded' \in 0..Len(specs) /\ stored \subseteq stored' /\ stored' \subseteq DOMAIN specs
         /\ losses' \in 0..MaxLosses
    BY <1>1, <1>2
  <1> QED
    BY <1>1, <1>3, <1>6, <1>7, <1>8, <1>9, <1>10, ParsingStays

(* when a result arrives,                                                  *)
LEMMA IngestResultKeeps ==
    ASSUME GraphIInv, NEW k \in DOMAIN specs, IngestResult(k)
    PROVE  GraphIInv'
  <1>1. /\ stored' = stored \cup Carried(k)
        /\ standing' = [i \in DOMAIN specs |-> IF i \in Carried(k) THEN "DONE" ELSE standing[i]]
        /\ parsing' = parsing /\ recorded' = recorded /\ rendering' = rendering
        /\ manner' = manner /\ carrier' = carrier /\ losses' = losses
    BY DEF IngestResult, WithResultsOf
  <1>2. /\ DOMAIN rendering = DOMAIN specs
        /\ DOMAIN manner = DOMAIN specs /\ DOMAIN carrier = DOMAIN specs
        /\ recorded \in 0..Len(specs) /\ stored \subseteq DOMAIN specs /\ losses \in 0..MaxLosses
        /\ \A i \in DOMAIN specs :
             /\ standing[i] \in Standings /\ (standing[i] = "NEW" <=> i > recorded)
             /\ standing[i] = "DONE" => i \in stored
    BY TablesAre
  <1>3. /\ Carried(k) \subseteq DOMAIN specs
        /\ \A i \in Carried(k) : standing[i] \in {"DISPATCHED", "MERGED"}
    BY DEF Carried
  <1>4. /\ \A i \in DOMAIN specs : standing'[i] = IF i \in Carried(k) THEN "DONE" ELSE standing[i]
        /\ DOMAIN standing' = DOMAIN specs
    BY <1>1
  <1>5. \A i \in DOMAIN specs :
           standing'[i] \in Standings /\ (standing'[i] = "NEW" <=> i > recorded')
    BY <1>1, <1>2, <1>3, <1>4 DEF Standings
  <1>6. \A i \in DOMAIN specs : standing'[i] = "DONE" => i \in stored'
    BY <1>1, <1>2, <1>4
  <1>7. \A i \in DOMAIN specs : Given(i)' => Given(i)
    BY <1>3, <1>4 DEF Given
  <1>8. \A i \in DOMAIN specs : Given(i)' /\ manner'[i] = "alone" =>
              Given(i) /\ manner[i] = "alone" /\ rendering'[i] = rendering[i]
    BY <1>1, <1>7
  <1>9. /\ DOMAIN rendering' = DOMAIN specs /\ DOMAIN manner' = DOMAIN specs
        /\ DOMAIN carrier' = DOMAIN specs
        /\ recorded' \in 0..Len(specs) /\ stored \subseteq stored' /\ stored' \subseteq DOMAIN specs
        /\ losses' \in 0..MaxLosses
    BY <1>1, <1>2, <1>3
  <1> QED
    BY <1>1, <1>4, <1>5, <1>6, <1>7, <1>8, <1>9, ParsingStays

(* and when a run fails.                                                   *)
LEMMA LoseKeeps ==
    ASSUME GraphIInv, NEW k \in DOMAIN specs, Lose(k)
    PROVE  GraphIInv'
  <1>1. /\ losses < MaxLosses /\ losses' = losses + 1
        /\ standing[k] \in {"DISPATCHED", "DONE"}
        /\ parsing' = parsing /\ recorded' = recorded /\ rendering' = rendering
        /\ manner' = manner /\ carrier' = carrier /\ stored' = stored
    BY DEF Lose
  <1>2. PICK s \in {"PENDING", "FAILED"} : standing' = [standing EXCEPT ![k] = s]
    BY DEF Lose
  <1>3. /\ DOMAIN standing = DOMAIN specs /\ DOMAIN rendering = DOMAIN specs
        /\ DOMAIN manner = DOMAIN specs /\ DOMAIN carrier = DOMAIN specs
        /\ recorded \in 0..Len(specs) /\ stored \subseteq DOMAIN specs /\ losses \in 0..MaxLosses
        /\ \A i \in DOMAIN specs :
             /\ standing[i] \in Standings /\ (standing[i] = "NEW" <=> i > recorded)
             /\ standing[i] = "DONE" => i \in stored
    BY TablesAre
  <1>4. /\ standing'[k] = s /\ DOMAIN standing' = DOMAIN specs
        /\ \A i \in DOMAIN specs : i # k => standing'[i] = standing[i]
    BY <1>2, <1>3
  <1>5. \A i \in DOMAIN specs :
           standing'[i] \in Standings /\ (standing'[i] = "NEW" <=> i > recorded')
    BY <1>1, <1>3, <1>4 DEF Standings
  <1>6. \A i \in DOMAIN specs : standing'[i] = "DONE" => i \in stored'
    BY <1>1, <1>3, <1>4
  <1>7. \A i \in DOMAIN specs : Given(i)' => Given(i)
    BY <1>4 DEF Given
  <1>8. \A i \in DOMAIN specs : Given(i)' /\ manner'[i] = "alone" =>
              Given(i) /\ manner[i] = "alone" /\ rendering'[i] = rendering[i]
    BY <1>1, <1>7
  <1>9. losses + 1 \in 0..MaxLosses
    BY <1>1, <1>3, GraphAssumption, SMT
  <1>10. /\ DOMAIN rendering' = DOMAIN specs /\ DOMAIN manner' = DOMAIN specs
         /\ DOMAIN carrier' = DOMAIN specs
         /\ recorded' \in 0..Len(specs) /\ stored \subseteq stored' /\ stored' \subseteq DOMAIN specs
         /\ losses' \in 0..MaxLosses
    BY <1>1, <1>3, <1>9
  <1> QED
    BY <1>1, <1>4, <1>5, <1>6, <1>7, <1>8, <1>10, ParsingStays

(* Every step keeps the invariant.                                         *)
LEMMA GraphStays ==
    ASSUME GraphIInv, [GraphNext]_graphVars
    PROVE  GraphIInv'
  <1>1. CASE ParseWritten
    BY <1>1, ParseWrittenKeeps
  <1>2. CASE IndexNodes
    BY <1>2, IndexNodesKeeps
  <1>3. CASE PlaceNext
    BY <1>3, PlaceNextKeeps
  <1>4. CASE PassEnds
    BY <1>4, PassEndsKeeps
  <1>5. CASE RecordNext
    BY <1>5, RecordNextKeeps
  <1>6. ASSUME NEW k \in DOMAIN specs, GiveAlone(k) \/ GiveSharded(k)
        PROVE  GraphIInv'
    BY <1>6, GiveOneKeeps
  <1>7. ASSUME NEW k \in DOMAIN specs, IngestResult(k)
        PROVE  GraphIInv'
    BY <1>7, IngestResultKeeps
  <1>8. ASSUME NEW k \in DOMAIN specs, Lose(k)
        PROVE  GraphIInv'
    BY <1>8, LoseKeeps
  <1>9. ASSUME NEW j \in DOMAIN specs, NEW k \in DOMAIN specs, GiveMerged(j, k)
        PROVE  GraphIInv'
    BY <1>9, GiveMergedKeeps
  <1>10. CASE UNCHANGED graphVars
    <2>1. UNCHANGED parsing /\ UNCHANGED tables
      BY <1>10 DEF graphVars
    <2>2. /\ UNCHANGED <<document, specs, bound, tables>>
          /\ verdict' = verdict /\ unresolved' = unresolved /\ turn' = turn
          /\ progressed' = progressed /\ results' = results
          /\ document' = document /\ specs' = specs
      BY <2>1 DEF parsing, sorting
    <2>3. DocumentOK' /\ TablesMatch' /\ DoneIsStored' /\ GivenHasNeeds' /\ PlaceholdersFilled'
      BY <2>2, TablesStay
    <2>4. Passes'
      BY <2>2 DEF GraphIInv, Passes, Waits
    <2>5. Verdicts'
      BY <2>2 DEF GraphIInv, Verdicts, Expanded
    <2> QED
      BY <2>3, <2>4, <2>5 DEF GraphIInv
  <1> QED
    BY <1>1, <1>2, <1>3, <1>4, <1>5, <1>6, <1>7, <1>8, <1>9, <1>10 DEF GraphNext

(* For every number of nodes and of failures: a graph is refused exactly   *)
(* when it has no order, the tasks of an accepted document are given after *)
(* those they need and rendered from their results, and no graph waits for *)
(* itself (orchestrator/parser.py, TaskStore.parse_and_register,           *)
(* try_dispatch_one, ingest_result).                                       *)
THEOREM GraphIsOrdered == GraphSpec => []GraphInv
  <1>1. GraphInit => GraphIInv
    BY GraphStartsWell
  <1>2. GraphIInv /\ [GraphNext]_graphVars => GraphIInv'
    BY GraphStays
  <1>3. GraphIInv => GraphInv
    BY GraphFollows
  <1> QED
    BY <1>1, <1>2, <1>3, PTL DEF GraphSpec
=============================================================================
