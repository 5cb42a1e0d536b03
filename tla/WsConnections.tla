--------------------------- MODULE WsConnections ---------------------------
(***************************************************************************)
(* One worker of the SDK and the orchestrator over WebSockets: the         *)
(* connection table of websocket_manager.py with one handler per           *)
(* connection, the reconnecting client of websocket_client.py, the sender  *)
(* thread of WebSocketTransport, and DispatchManager._publish_task, which  *)
(* hands a task to a thread and does not wait for it.  A link may break    *)
(* without either side noticing; connections are numbered as opened.       *)
(***************************************************************************)
EXTENDS Naturals, Sequences, FiniteSets

CONSTANTS Sent,            \* the tasks 1 .. n dispatched to this worker
          MaxConns,        \* bound: connections the client opens
          MaxCuts,         \* bound: links that break
          PromptClose,     \* assumption: the client's delay outlasts the end
                           \* of a handler that can see its link is closed
          OtherSubscribers \* whether Redis has subscribers other than this worker

ASSUME WsAssumption ==
    /\ Sent \subseteq Nat \ {0}
    /\ MaxConns \in Nat \ {0} /\ MaxCuts \in Nat
    /\ PromptClose \in BOOLEAN /\ OtherSubscribers \in BOOLEAN

Conns == 1 .. MaxConns
Register == 0               \* the REGISTER event; n is TASK_SUCCEEDED of task n
Events == Sent \cup {Register}

VARIABLES
    current,   \* manager: the worker's entry of _connections, 0 if none
    handler,   \* the coroutine of each connection
    sends,     \* threads started by _publish_task: task, and the connection it got
    known,     \* the registry in Redis has the worker, as IDLE
    taskState, \* records: "PENDING", "DISPATCHED", "DONE"
    link,      \* each connection: "none", "up", "cut" (unnoticed), "closed"
    toWorker, toServer,  \* what is in flight on each connection
    cuts,
    ws,        \* client: the connection of _ws, 0 if None
    connected, \* client: _connected
    listening, \* client: the receive loop waits in recv()
    queue,     \* transport: _event_queue
    working,   \* the task in _process_task_message, 0 if none
    ran,       \* history: tasks the worker has run
    handled    \* history: events the orchestrator has processed, in order

server == <<current, handler, sends, known, taskState, handled>>
wires == <<link, toWorker, toServer, cuts>>
client == <<ws, connected, listening, queue, working, ran>>
wsVars == <<server, wires, client>>

WsInit ==
    /\ current = 0 /\ handler = [c \in Conns |-> "none"] /\ sends = {}
    /\ known = FALSE /\ taskState = [n \in Sent |-> "PENDING"] /\ handled = <<>>
    /\ link = [c \in Conns |-> "none"] /\ cuts = 0
    /\ toWorker = [c \in Conns |-> <<>>] /\ toServer = [c \in Conns |-> <<>>]
    /\ ws = 0 /\ connected = FALSE /\ listening = FALSE
    /\ queue = <<>> /\ working = 0 /\ ran = {}

Opened == {c \in Conns : link[c] # "none"}

-----------------------------------------------------------------------------
(* Client: connect() from the receive loop; on_connect registers again. *)
HandlersEnding == {c \in Conns : handler[c] = "closing"
                              \/ (handler[c] = "open" /\ link[c] = "closed")}

Connect ==
    /\ ~ connected /\ ~ listening /\ working = 0
    /\ Opened # Conns
    /\ PromptClose => HandlersEnding = {}
    /\ LET c == Cardinality(Opened) + 1 IN
        /\ link' = [link EXCEPT ![c] = "up"]
        /\ handler' = [handler EXCEPT ![c] = "accepted"]
        /\ ws' = c
    /\ connected' = TRUE /\ listening' = TRUE
    /\ queue' = Append(queue, Register)
    /\ UNCHANGED <<current, sends, known, taskState, handled, toWorker, toServer, cuts, working, ran>>

ReceiveInBackground ==  \* a mutant of ReceiveTask: the loop does not wait
    /\ listening /\ link[ws] # "none" /\ toWorker[ws] # <<>>
    /\ working' = Head(toWorker[ws])
    /\ toWorker' = [toWorker EXCEPT ![ws] = Tail(@)]
    /\ UNCHANGED <<server, link, toServer, cuts, ws, connected, listening, queue, ran>>

(* recv() returns a task; the callback runs it inside the loop. *)
ReceiveTask ==
    /\ listening /\ link[ws] # "none" /\ toWorker[ws] # <<>>
    /\ working' = Head(toWorker[ws])
    /\ toWorker' = [toWorker EXCEPT ![ws] = Tail(@)]
    /\ listening' = FALSE
    /\ UNCHANGED <<server, link, toServer, cuts, ws, connected, queue, ran>>

FinishTask ==
    /\ working # 0
    /\ ran' = ran \cup {working}
    /\ queue' = Append(queue, working)
    /\ working' = 0
    /\ listening' = connected  \* else the loop goes to connect()
    /\ UNCHANGED <<server, wires, ws, connected>>

NoticeWithoutFlag ==    \* a mutant of NoticeClosed: _connected stays
    /\ listening /\ ws # 0 /\ link[ws] \in {"cut", "closed"}
    /\ listening' = FALSE /\ ws' = 0
    /\ UNCHANGED <<server, wires, connected, queue, working, ran>>

(* recv() raises ConnectionClosed: back to connect() after a delay. *)
NoticeClosed ==
    /\ listening /\ ws # 0 /\ link[ws] \in {"cut", "closed"}
    /\ connected' = FALSE /\ listening' = FALSE /\ ws' = 0
    /\ UNCHANGED <<server, wires, queue, working, ran>>

SendEventTwice ==       \* a mutant of SendEvent: what was sent is queued again
    /\ queue # <<>> /\ connected /\ link[ws] = "up"
    /\ queue' \in {Tail(queue), Append(Tail(queue), Head(queue))}
    /\ toServer' = [toServer EXCEPT ![ws] = Append(@, Head(queue))]
    /\ UNCHANGED <<server, link, toWorker, cuts, ws, connected, listening, working, ran>>

(* sender_loop: what is taken while not connected is gone, and so is what *)
(* send_event could not send, which it reports by its result.             *)
SendEvent ==
    /\ queue # <<>>
    /\ queue' = Tail(queue)
    /\ \/ /\ connected /\ link[ws] = "up"
          /\ toServer' = [toServer EXCEPT ![ws] = Append(@, Head(queue))]
          /\ UNCHANGED connected
       \/ /\ connected /\ link[ws] # "up"
          /\ connected' \in {TRUE, FALSE} \* the send is buffered, or raises
          /\ UNCHANGED toServer
       \/ /\ ~ connected
          /\ UNCHANGED <<connected, toServer>>
    /\ UNCHANGED <<server, link, toWorker, cuts, ws, listening, working, ran>>

CutLink(c) ==
    /\ link[c] = "up" /\ cuts < MaxCuts
    /\ link' = [link EXCEPT ![c] = "cut"]
    /\ cuts' = cuts + 1
    /\ UNCHANGED <<server, toWorker, toServer, client>>

-----------------------------------------------------------------------------
(* Manager. *)
CloseLink(c) == [link EXCEPT ![c] = IF @ \in {"up", "cut"} THEN "closed" ELSE @]

RegisterIfNew(c) ==     \* a mutant of RegisterWorker: the old entry stays
    /\ handler[c] = "accepted"
    /\ current' = IF current # 0 THEN current ELSE c
    /\ handler' = [handler EXCEPT ![c] = "open"]
    /\ UNCHANGED <<link, sends, known, taskState, handled, toWorker, toServer, cuts, client>>

RegisterWorker(c) ==
    /\ handler[c] = "accepted"
    /\ link' = IF current # 0 THEN CloseLink(current) ELSE link
    /\ current' = c
    /\ handler' = [handler EXCEPT ![c] = "open"]
    /\ UNCHANGED <<sends, known, taskState, handled, toWorker, toServer, cuts, client>>

(* handle_worker_event, up to its end, before the next receive_json. *)
HandleEvent(c) ==
    /\ handler[c] = "open" /\ link[c] # "closed" /\ toServer[c] # <<>>
    /\ LET e == Head(toServer[c]) IN
        /\ handled' = Append(handled, e)
        /\ known' = (known \/ e = Register)
        /\ taskState' = IF e = Register THEN taskState ELSE [taskState EXCEPT ![e] = "DONE"]
    /\ toServer' = [toServer EXCEPT ![c] = Tail(@)]
    /\ UNCHANGED <<current, handler, sends, link, toWorker, cuts, client>>

(* receive_json raises once the link is seen to be closed or broken. *)
HandlerEnds(c) ==
    /\ handler[c] = "open" /\ link[c] \in {"cut", "closed"}
    /\ handler' = [handler EXCEPT ![c] = "closing"]
    /\ UNCHANGED <<current, sends, known, taskState, handled, wires, client>>

(* unregister_worker: by the worker's id, whichever connection it has now. *)
DropEntry ==
    /\ current' = 0
    /\ link' = IF current # 0 THEN CloseLink(current) ELSE link

LeaveEntry(c) ==        \* a mutant of Unregister
    /\ handler[c] = "closing"
    /\ handler' = [handler EXCEPT ![c] = "ended"]
    /\ UNCHANGED <<current, link, sends, known, taskState, handled, toWorker, toServer, cuts, client>>

Unregister(c) ==
    /\ handler[c] = "closing"
    /\ handler' = [handler EXCEPT ![c] = "ended"]
    /\ DropEntry
    /\ UNCHANGED <<sends, known, taskState, handled, toWorker, toServer, cuts, client>>

-----------------------------------------------------------------------------
(* _publish_task: a thread for the connection, or Redis, where the worker *)
(* does not listen; with no receiver the task is requeued.                *)
PublishTask(n) ==
    /\ known /\ taskState[n] = "PENDING"
    /\ \/ /\ current # 0
          /\ sends' = sends \cup {[task |-> n, to |-> 0]}
          /\ taskState' = [taskState EXCEPT ![n] = "DISPATCHED"]
       \/ /\ current = 0 /\ OtherSubscribers
          /\ taskState' = [taskState EXCEPT ![n] = "DISPATCHED"]
          /\ UNCHANGED sends
    /\ UNCHANGED <<current, handler, known, handled, wires, client>>

(* send_task_to_worker: look the connection up, send, drop what fails. *)
LookupConnection(s) ==
    /\ s \in sends /\ s.to = 0
    /\ sends' = IF current = 0 THEN sends \ {s}
                ELSE (sends \ {s}) \cup {[s EXCEPT !.to = current]}
    /\ UNCHANGED <<current, handler, known, taskState, handled, wires, client>>

WriteTask(s) ==
    /\ s \in sends /\ s.to # 0
    /\ sends' = sends \ {s}
    /\ \/ /\ link[s.to] = "up"
          /\ toWorker' = [toWorker EXCEPT ![s.to] = Append(@, s.task)]
          /\ UNCHANGED <<current, link>>
       \/ /\ link[s.to] = "cut" \* buffered by the kernel, for nobody
          /\ UNCHANGED <<current, link, toWorker>>
       \/ /\ link[s.to] \in {"cut", "closed"}
          /\ DropEntry
          /\ UNCHANGED toWorker
    /\ UNCHANGED <<handler, known, taskState, handled, toServer, cuts, client>>

PendingSends == [task : Sent, to : Conns \cup {0}]

ClientStep == Connect \/ ReceiveTask \/ FinishTask \/ NoticeClosed \/ SendEvent
HandlerStep(c) == RegisterWorker(c) \/ HandleEvent(c) \/ HandlerEnds(c) \/ Unregister(c)
SendStep(s) == LookupConnection(s) \/ WriteTask(s)

WsNext ==
    \/ ClientStep
    \/ \E c \in Conns : HandlerStep(c) \/ CutLink(c)
    \/ \E n \in Sent : PublishTask(n)
    \/ \E s \in PendingSends : SendStep(s)

WsSpec == WsInit /\ [][WsNext]_wsVars

(* The client's threads and the server's coroutines run. *)
WsFairness ==
    /\ WF_wsVars(Connect) /\ WF_wsVars(FinishTask)
    /\ WF_wsVars(NoticeClosed) /\ WF_wsVars(SendEvent)
    /\ WF_wsVars(ReceiveTask)
    /\ \A c \in Conns : WF_wsVars(HandlerStep(c))
    /\ \A s \in PendingSends : WF_wsVars(SendStep(s))

WsFairSpec == WsSpec /\ WsFairness

-----------------------------------------------------------------------------
(* Every field holds a value the code can store; a client that thinks it is *)
(* connected has a connection.                                              *)
WsTypeOK ==
    /\ current \in Conns \cup {0}
    /\ handler \in [Conns -> {"none", "accepted", "open", "closing", "ended"}]
    /\ sends \subseteq PendingSends /\ known \in BOOLEAN
    /\ taskState \in [Sent -> {"PENDING", "DISPATCHED", "DONE"}]
    /\ link \in [Conns -> {"none", "up", "cut", "closed"}]
    /\ toWorker \in [Conns -> Seq(Sent)] /\ toServer \in [Conns -> Seq(Events)]
    /\ cuts \in 0 .. MaxCuts
    /\ ws \in Conns \cup {0} /\ (connected => ws # 0)
    /\ connected \in BOOLEAN /\ listening \in BOOLEAN
    /\ queue \in Seq(Events) /\ working \in Sent \cup {0}
    /\ ran \subseteq Sent /\ handled \in Seq(Events)

(* The connection table never keeps a connection whose handler has ended,  *)
(* though any handler and any failed send may remove or replace the entry: *)
(* is_worker_connected would answer for a connection nobody reads.         *)
NoGhostConnection == current # 0 => handler[current] \in {"open", "closing"}

(* A task recorded as DONE was run by the worker, and each message is taken *)
(* by the orchestrator once, whichever connection carried it: it is in one  *)
(* place of the queue, of the wires and of what the orchestrator has had.   *)
Trails == 0 .. MaxConns + 1
Trail(k) == IF k = 0 THEN queue ELSE IF k \in Conns THEN toServer[k] ELSE handled
InOnePlace(n) ==
    \A j, k \in Trails : \A x \in DOMAIN Trail(j), y \in DOMAIN Trail(k) :
        Trail(j)[x] = n /\ Trail(k)[y] = n => j = k /\ x = y
ReportedOnce ==
    \A n \in Sent : /\ InOnePlace(n)
                    /\ taskState[n] = "DONE" => n \in ran

(* An intact connection leaves the table only for a newer one. *)
IntactConnectionKept ==
    [][\A c \in Conns : current = c /\ current' = 0 => link[c] # "up"]_wsVars

(* As long as no link has broken, a task that _publish_task reported as     *)
(* sent is with a sending thread, on the wire, with the worker or answered. *)
OnWire(n) == \E c \in Conns : /\ link[c] = "up"
                             /\ \/ \E i \in DOMAIN toWorker[c] : toWorker[c][i] = n
                                \/ \E i \in DOMAIN toServer[c] : toServer[c][i] = n
SteadyLinkDelivers ==
    cuts = 0 => \A n \in Sent : taskState[n] = "DISPATCHED" =>
        \/ \E s \in sends : s.task = n
        \/ OnWire(n) \/ working = n
        \/ \E i \in DOMAIN queue : queue[i] = n

(* The table of connections and the two sides of the wire agree, over cuts, *)
(* late handlers and reconnections.                                         *)
WsInv ==
    /\ WsTypeOK
    /\ NoGhostConnection
    /\ ReportedOnce
    /\ SteadyLinkDelivers

(* Whatever breaks, the worker once registered ends up with a connection   *)
(* that both sides hold: removals by old handlers do not go on for ever.   *)
Attached == connected /\ ws # 0 /\ current = ws /\ link[ws] = "up"
EventuallyAttached == [](known => <>[]Attached)
=============================================================================
