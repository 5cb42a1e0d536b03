---------------------------- MODULE WorkerPresence ----------------------------
(***************************************************************************)
(* Who is there: a worker announces itself (worker/lifecycle.py) through   *)
(* Redis (redis_worker.py) or over its WebSocket (main.py), the scheduler  *)
(* reads the registry in Redis (worker_cls.py), and the metrics keep a set *)
(* of active workers of their own (metrics.py).  A worker that is started  *)
(* again may have its old identifier (WORKER_ID).  Heartbeats and statuses *)
(* on workers.events only add samples and are not queued here.             *)
(***************************************************************************)
EXTENDS Naturals, Sequences, FiniteSets

CONSTANTS
    Members,         \* worker identifiers
    SocketMembers,   \* those that are connected over a WebSocket
    PromptListener,  \* is UNREGISTER handled, its echo too, before a restart?
    MaxStarts        \* bound: starts of one worker

ASSUME PresenceAssumption ==
    /\ SocketMembers \subseteq Members
    /\ PromptListener \in BOOLEAN
    /\ MaxStarts \in Nat

VARIABLES
    process,        \* the worker's process
    beat,           \* its heartbeat thread is between the check of stop and sending
    startCount,
    frames,         \* what is on the way over its WebSocket
    workerChannel,  \* workers.events, as the listener will receive it
    members,        \* workers:ids
    workerHash,     \* worker:<id>: absent, only some fields, all of them
    fresh,          \* workers whose heartbeat key has a time to live
    active,         \* MetricsRecorder._active_workers
    closed          \* workers whose entry has an end or an uptime of its own

presenceVars == <<process, beat, startCount, frames, workerChannel, members, workerHash,
                  fresh, active, closed>>
registry == <<members, workerHash, fresh>>
report == <<active, closed>>

Message == [type : {"REGISTER", "HEARTBEAT", "STATUS", "UNREGISTER"}, worker : Members]
EventSwapped(type, w) == [type |-> w, worker |-> type]
Event(type, w) == [type |-> type, worker |-> w]

PresenceInit ==
    /\ process = [w \in Members |-> "off"] /\ beat = [w \in Members |-> FALSE]
    /\ startCount = [w \in Members |-> 0]
    /\ frames = [w \in Members |-> <<>>] /\ workerChannel = <<>>
    /\ members = {} /\ workerHash = [w \in Members |-> "none"] /\ fresh = {}
    /\ active = {} /\ closed = {}

Publish(event) == workerChannel' = Append(workerChannel, event)
SendFrame(w, type) == frames' = [frames EXCEPT ![w] = Append(@, Event(type, w))]
Written(w) == IF workerHash[w] = "none" THEN "partial" ELSE workerHash[w]

(* The registry after one atomic pipeline for the event of worker w. *)
Enter(w) == /\ members' = members \cup {w}
            /\ workerHash' = [workerHash EXCEPT ![w] = "whole"]

LeaveRecordOnly(w) == /\ workerHash' = [workerHash EXCEPT ![w] = "none"]
                      /\ fresh' = fresh \ {w}
                      /\ UNCHANGED members

Leave(w) == /\ members' = members \ {w}
            /\ workerHash' = [workerHash EXCEPT ![w] = "none"]
            /\ fresh' = fresh \ {w}

Touch(w) == /\ workerHash' = [workerHash EXCEPT ![w] = Written(w)]
            /\ UNCHANGED members

(* record_worker_event *)
Registered(w) == active' = active \cup {w} /\ UNCHANGED closed
UnregisteredOnlyClosed(w) == closed' = closed \cup {w} /\ UNCHANGED active
Unregistered(w) == active' = active \ {w} /\ closed' = closed \cup {w}

-----------------------------------------------------------------------------
(* The worker's process. *)

Pending(w) == Event("UNREGISTER", w) \in {workerChannel[i] : i \in DOMAIN workerChannel}
              \/ frames[w] # <<>>

MayStart(w) == process[w] = "off" /\ (PromptListener => ~ Pending(w))

(* Lifecycle.start: register, then IDLE; the heartbeat thread starts. *)
Start(w) ==
    /\ MayStart(w)
    /\ startCount[w] < MaxStarts
    /\ startCount' = [startCount EXCEPT ![w] = @ + 1]
    /\ process' = [process EXCEPT ![w] = "registered"]
    /\ IF w \in SocketMembers
       THEN SendFrame(w, "REGISTER") /\ UNCHANGED <<workerChannel, members, workerHash>>
       ELSE Enter(w) /\ Publish(Event("REGISTER", w)) /\ UNCHANGED frames
    /\ UNCHANGED <<beat, fresh, report>>

BecomeIdle(w) ==
    /\ process[w] = "registered"
    /\ process' = [process EXCEPT ![w] = "up"]
    /\ IF w \in SocketMembers
       THEN SendFrame(w, "STATUS") /\ UNCHANGED <<members, workerHash>>
       ELSE Touch(w) /\ UNCHANGED frames
    /\ UNCHANGED <<beat, startCount, workerChannel, fresh, report>>

(* _hb_loop has seen that it is not to stop, and samples; the heartbeat *)
(* itself may come after shutdown has unregistered the worker.  Bound:    *)
(* only the heartbeats that make the worker fresh, one at a time.         *)
BeatBegin(w) ==
    /\ process[w] = "up" /\ ~ beat[w] /\ w \notin fresh
    /\ \A i \in DOMAIN frames[w] : frames[w][i].type # "HEARTBEAT"
    /\ beat' = [beat EXCEPT ![w] = TRUE]
    /\ UNCHANGED <<process, startCount, frames, workerChannel, registry, report>>

BeatEnd(w) ==
    /\ beat[w]
    /\ beat' = [beat EXCEPT ![w] = FALSE]
    /\ IF w \in SocketMembers
       THEN SendFrame(w, "HEARTBEAT") /\ UNCHANGED registry
       ELSE Touch(w) /\ fresh' = fresh \cup {w} /\ UNCHANGED frames
    /\ UNCHANGED <<process, startCount, workerChannel, report>>

(* Lifecycle.shutdown *)
ShutDown(w) ==
    /\ process[w] = "up"
    /\ process' = [process EXCEPT ![w] = "leaving"]
    /\ IF w \in SocketMembers
       THEN SendFrame(w, "UNREGISTER") /\ UNCHANGED <<workerChannel, registry>>
       ELSE Leave(w) /\ Publish(Event("UNREGISTER", w)) /\ UNCHANGED frames
    /\ UNCHANGED <<beat, startCount, report>>

(* The process ends, after a shutdown or killed; what it has not sent yet *)
(* is gone, and of its frames the server receives a beginning.            *)
ProcessEnds(w) ==
    /\ process[w] # "off"
    /\ process' = [process EXCEPT ![w] = "off"]
    /\ beat' = [beat EXCEPT ![w] = FALSE]
    /\ \E n \in 0 .. Len(frames[w]) : frames' = [frames EXCEPT ![w] = SubSeq(@, 1, n)]
    /\ UNCHANGED <<startCount, workerChannel, registry, report>>

-----------------------------------------------------------------------------
(* The orchestrator. *)

(* handle_worker_event of the WebSocket endpoint.  unregister_worker       *)
(* publishes an UNREGISTER of its own, which the listener receives.        *)
HandleFrame(w) ==
    /\ frames[w] # <<>>
    /\ frames' = [frames EXCEPT ![w] = Tail(@)]
    /\ CASE Head(frames[w]).type = "REGISTER" ->
                Registered(w) /\ Enter(w) /\ fresh' = fresh \cup {w} /\ UNCHANGED workerChannel
         [] Head(frames[w]).type = "HEARTBEAT" ->
                Touch(w) /\ fresh' = fresh \cup {w} /\ UNCHANGED <<workerChannel, report>>
         [] Head(frames[w]).type = "STATUS" ->
                Touch(w) /\ UNCHANGED <<workerChannel, fresh, report>>
         [] Head(frames[w]).type = "UNREGISTER" ->
                Unregistered(w) /\ Leave(w) /\ Publish(Event("UNREGISTER", w))
    /\ UNCHANGED <<process, beat, startCount>>

(* _workers_events_loop; after UNREGISTER the worker's tasks are taken from *)
(* it, which TaskDispatch and ShardAggregation model.                       *)
HandleMessage ==
    /\ workerChannel # <<>>
    /\ workerChannel' = Tail(workerChannel)
    /\ LET event == Head(workerChannel) IN
        IF event.type = "REGISTER" THEN Registered(event.worker) ELSE Unregistered(event.worker)
    /\ UNCHANGED <<process, beat, startCount, frames, registry>>

(* update_worker_status, when the worker's task has ended. *)
WriteStatus(w) ==
    /\ startCount[w] > 0
    /\ Touch(w)
    /\ UNCHANGED <<process, beat, startCount, frames, workerChannel, fresh, report>>

(* The time to live of a heartbeat key runs out; the heartbeats of a *)
(* running worker are more frequent (config.py).                     *)
KeyExpires(w) ==
    /\ w \in fresh /\ process[w] = "off"
    /\ fresh' = fresh \ {w}
    /\ UNCHANGED <<process, beat, startCount, frames, workerChannel, members, workerHash, report>>

PresenceNext ==
    \/ \E w \in Members :
        \/ Start(w) \/ BecomeIdle(w) \/ BeatBegin(w) \/ BeatEnd(w) \/ ShutDown(w) \/ ProcessEnds(w)
        \/ HandleFrame(w) \/ WriteStatus(w) \/ KeyExpires(w)
    \/ HandleMessage

PresenceSpec == PresenceInit /\ [][PresenceNext]_presenceVars

-----------------------------------------------------------------------------
PresenceTypeOK ==
    /\ process \in [Members -> {"off", "registered", "up", "leaving"}]
    /\ beat \in [Members -> BOOLEAN]
    /\ startCount \in [Members -> 0 .. MaxStarts]
    /\ frames \in [Members -> Seq(Message)] /\ workerChannel \in Seq(Message)
    /\ workerHash \in [Members -> {"none", "partial", "whole"}]
    /\ members \cup fresh \cup active \cup closed \subseteq Members

(* A worker the scheduler finds in workers:ids has its whole record, its    *)
(* hardware and tags included, although heartbeats and statuses that come   *)
(* late write some fields of a record that was deleted.                     *)
ListedIsWhole == \A w \in members : workerHash[w] = "whole"

(* Once all events are handled, the metrics and the scheduler agree on who *)
(* is there, also after workers were killed or came back.                  *)
ReportMatchesRegistry ==
    workerChannel = <<>> /\ (\A w \in Members : frames[w] = <<>>) => active = members

(* Scheduler and report see whole workers and the same ones, over starts,   *)
(* stops and crashes.                                                       *)
PresenceInv ==
    /\ PresenceTypeOK
    /\ ListedIsWhole
    /\ ReportMatchesRegistry

(* Violated without PromptListener, which excludes it: an UNREGISTER, after *)
(* which the tasks dispatched to its worker are given to others, is handled *)
(* when that worker has started again (main.py:926).                        *)
OnlyGoneRescheduled ==
    [][workerChannel # <<>> /\ Head(workerChannel).type = "UNREGISTER"
         /\ workerChannel' = Tail(workerChannel)
       => process[Head(workerChannel).worker] \in {"off", "leaving"}]_presenceVars

(* Violated: a worker that is back keeps the end of its first life, and   *)
(* its cost stands still (metrics.py:495).                                *)
ActiveAccrues == active \cap closed = {}

=============================================================================
