--------------------------- MODULE WorkflowGraph ---------------------------
(***************************************************************************)
(* One submission from its document to the end of its tasks: the parser    *)
(* (orchestrator/parser.py) turns nodes or stages into an order of specs,  *)
(* a graph's in passes over the nodes that still wait for others,          *)
(* TaskStore.parse_and_register turns names into task identifiers,         *)
(* submit_task records the tasks one at a time, the pool gives them out as *)
(* their dependencies end, and the dispatcher renders their placeholders   *)
(* from the results stored by then.  Tasks deliver their results by HTTP.  *)
(*                                                                         *)
(* Nodes are named 1 .. n in the order in which their names first appear;  *)
(* name 0 is none of the document's.  A node's placeholders refer to the   *)
(* nodes it depends on.                                                    *)
(***************************************************************************)
EXTENDS Naturals, Sequences, FiniteSets

CONSTANTS MaxNodes,      \* bound: nodes of a document
          MaxEdges,      \* bound: dependencies of a document
          MaxLosses      \* bound: runs that fail

ASSUME GraphAssumption == MaxNodes \in Nat \ {0} /\ MaxEdges \in Nat /\ MaxLosses \in Nat

NodeNames == 1..MaxNodes
Outside == 0

Node == [name : NodeNames, needs : SUBSET (NodeNames \cup {Outside})]

(* A dependency as TaskStore keeps it: a task's number, or the raw name.   *)
Task(k) == [task |-> k]
Raw(n) == [raw |-> n]

VARIABLES
    document,   \* [mode, nodes, earlier]: does name 0 identify a task done before?
    verdict,    \* "new", "sorting", "rejected" or "accepted"
    unresolved, \* nodes of a graph that are not in its order yet
    turn,       \* those that this pass has still to look at
    progressed, \* has it placed one?
    results,    \* the order so far
    specs,      \* ParsedTaskSpecs, in the order in which they are registered
    bound,      \* TaskStore._depends, one set per spec
    recorded,   \* how many of them have a TaskRecord and are in the pool
    standing,   \* their status
    rendering,  \* of each task given out: what became of its placeholders
    manner,     \* given alone, in shards, or within another's message
    carrier,    \* the task whose message holds this one
    stored,     \* tasks whose result is in the results directory
    losses

sorting == <<unresolved, turn, progressed, results>>
parsing == <<document, verdict, sorting, specs, bound>>
tables == <<recorded, standing, rendering, manner, carrier, stored, losses>>
graphVars == <<parsing, tables>>

-----------------------------------------------------------------------------
(* The document                                                            *)

NamesOf(nodes, which) == {nodes[i].name : i \in which}

(* The guards of the indexing loop.                                        *)
Duplicate(nodes) ==
    \E i, j \in DOMAIN nodes : i # j /\ nodes[i].name = nodes[j].name
SelfDependent(nodes) == \E i \in DOMAIN nodes : nodes[i].name \in nodes[i].needs

(* Stages are chained as written; nothing is checked.                      *)
ChainWritten(nodes) == nodes    \* a mutant of Chained
Chained(nodes) ==
    [i \in DOMAIN nodes |->
        IF i = 1 THEN nodes[i]
        ELSE [nodes[i] EXCEPT !.needs = @ \cup {nodes[i - 1].name}]]

Expanded(d) == IF d.mode = "stages" THEN Chained(d.nodes) ELSE d.nodes

(* parse_and_register: a name is the latest task registered under it; the  *)
(* only spec of a single task has no local name.                           *)
BindItself(ss, k, n) ==         \* a mutant of Bind: the name is entered too early
    LET earlier == {j \in 1..k : ss[j].name = n}
    IN  IF earlier = {} THEN Raw(n) ELSE Task(CHOOSE j \in earlier : \A i \in earlier : i <= j)
BindTooLate(ss, k, n) ==        \* a mutant of Bind: the name is entered too late
    LET earlier == {j \in 1..k : j < k - 1 /\ ss[j].name = n}
    IN  IF earlier = {} THEN Raw(n) ELSE Task(CHOOSE j \in earlier : \A i \in earlier : i <= j)
Bind(ss, k, n) ==
    LET earlier == {j \in 1..(k - 1) : ss[j].name = n}
    IN  IF earlier = {} THEN Raw(n) ELSE Task(CHOOSE j \in earlier : \A i \in earlier : i <= j)
Bound(ss) == [k \in DOMAIN ss |-> {Bind(ss, k, n) : n \in ss[k].needs}]

-----------------------------------------------------------------------------
(* Submission                                                              *)

Canonical(nodes) ==
    \A i \in DOMAIN nodes : \A n \in 1..nodes[i].name :
        \E j \in 1..i : nodes[j].name = n

EdgesOf(nodes) == UNION {{<<i, n>> : n \in nodes[i].needs} : i \in DOMAIN nodes}

Documents ==
    {d \in UNION {[mode : {"graph", "stages"}, nodes : [1..k -> Node], earlier : BOOLEAN]
                  : k \in 1..MaxNodes} :
        /\ Canonical(d.nodes)
        /\ \A i \in DOMAIN d.nodes :
             d.nodes[i].needs \subseteq {Outside} \cup NamesOf(d.nodes, DOMAIN d.nodes)
        /\ Cardinality(EdgesOf(d.nodes)) <= MaxEdges
        /\ d.earlier => \E i \in DOMAIN d.nodes : Outside \in d.nodes[i].needs}
    \cup [mode : {"single"}, nodes : [{1} -> [name : {1}, needs : {{}, {Outside}}]],
          earlier : BOOLEAN]

GraphInit ==
    /\ document \in Documents
    /\ verdict = "new"
    /\ unresolved = {} /\ turn = {} /\ progressed = FALSE /\ results = <<>>
    /\ specs = <<>> /\ bound = <<>> /\ recorded = 0
    /\ standing = <<>> /\ rendering = <<>> /\ manner = <<>> /\ carrier = <<>>
    /\ stored = {} /\ losses = 0

(* submit_task up to its loop, TASK_STORE.parse_and_register: the parser's *)
(* specs are registered under new task ids.                                *)
Register(ss) ==
    /\ verdict' = "accepted"
    /\ specs' = ss
    /\ bound' = Bound(ss)
    /\ standing' = [k \in DOMAIN ss |-> "NEW"]
    /\ rendering' = [k \in DOMAIN ss |-> << >>]
    /\ manner' = [k \in DOMAIN ss |-> "none"]
    /\ carrier' = [k \in DOMAIN ss |-> k]
    /\ UNCHANGED <<document, recorded, stored, losses>>

ParseWritten ==
    /\ verdict = "new" /\ document.mode # "graph"
    /\ Register(Expanded(document))
    /\ UNCHANGED sorting

(* _parse_graph_nodes: the nodes are indexed and checked, then looked at   *)
(* in passes, each over a copy of what is unresolved in document order.    *)
IndexNodes ==
    /\ verdict = "new" /\ document.mode = "graph"
    /\ IF Duplicate(document.nodes) \/ SelfDependent(document.nodes)
         THEN /\ verdict' = "rejected"
              /\ UNCHANGED sorting
         ELSE /\ verdict' = "sorting"
              /\ unresolved' = DOMAIN document.nodes
              /\ turn' = DOMAIN document.nodes
              /\ UNCHANGED <<progressed, results>>
    /\ UNCHANGED <<document, specs, bound, tables>>

(* A node stays while it needs one that is unresolved.                     *)
WaitsInPass(i) ==               \* a mutant of Waits: looks at the pass's copy
    document.nodes[i].needs \cap NamesOf(document.nodes, turn) # {}
Waits(i) == document.nodes[i].needs \cap NamesOf(document.nodes, unresolved) # {}
PlaceNext ==
    /\ verdict = "sorting"
    /\ \E i \in turn :
         /\ \A j \in turn : i <= j
         /\ turn' = turn \ {i}
         /\ IF Waits(i) THEN UNCHANGED <<unresolved, progressed, results>>
            ELSE /\ unresolved' = unresolved \ {i}
                 /\ progressed' = TRUE
                 /\ results' = Append(results, document.nodes[i])
    /\ UNCHANGED <<document, verdict, specs, bound, tables>>

(* The end of a pass, and of the loop: a pass that has placed no node      *)
(* raises, and the parser's variables are gone when it returns.            *)
PassEnds ==
    /\ verdict = "sorting" /\ turn = {}
    /\ progressed' = FALSE
    /\ \/ /\ progressed /\ unresolved # {}
          /\ turn' = unresolved
          /\ UNCHANGED <<document, verdict, unresolved, results, specs, bound, tables>>
       \/ /\ ~progressed /\ unresolved # {}
          /\ verdict' = "rejected" /\ unresolved' = {} /\ results' = <<>>
          /\ UNCHANGED <<document, turn, specs, bound, tables>>
       \/ /\ unresolved = {}
          /\ Register(results) /\ results' = <<>>
          /\ UNCHANGED <<unresolved, turn>>

(* One turn of its loop: the record, then the pool.                        *)
RecordNext ==
    /\ verdict = "accepted" /\ recorded < Len(specs)
    /\ recorded' = recorded + 1
    /\ standing' = [standing EXCEPT ![recorded + 1] = "PENDING"]
    /\ UNCHANGED <<parsing, rendering, manner, carrier, stored, losses>>

-----------------------------------------------------------------------------
(* Dispatch                                                                *)

(* _is_dependency_satisfied: a record with status DONE, found by its id.   *)
Satisfied(dep) ==
    \/ "task" \in DOMAIN dep /\ standing[dep.task] = "DONE"
    \/ "raw" \in DOMAIN dep /\ dep.raw = Outside /\ document.earlier

MayGoWhenAny(k) ==              \* a mutant of MayGo
    standing[k] = "PENDING" /\ (bound[k] = {} \/ \E dep \in bound[k] : Satisfied(dep))
MayGo(k) == standing[k] = "PENDING" /\ \A dep \in bound[k] : Satisfied(dep)

(* The context: stored results of the task's dependencies by node name; an *)
(* earlier task is known under its own node's name, not its identifier.    *)
Context(k) ==
    {specs[dep.task].name : dep \in {x \in bound[k] : "task" \in DOMAIN x /\ x.task \in stored}}

(* Placeholders of k rendered in a context: one whose root the context     *)
(* lacks becomes the empty string; without dependencies, or with an empty  *)
(* context, the text stays as it is.                                       *)
RenderIn(k, deps, context) ==
    [n \in specs[k].needs |->
        IF deps = {} \/ context = {} THEN "verbatim"
        ELSE IF n \in context THEN "filled" ELSE "blank"]

ContextOfFirst(k) == {specs[1].name} \cap Context(k)     \* what the mutant of Render keeps
RenderFirst(k) == RenderIn(k, bound[k], ContextOfFirst(k))
Render(k) == RenderIn(k, bound[k], Context(k))

(* try_dispatch_one on its single-worker path.                             *)
GiveAlone(k) ==
    /\ MayGo(k)
    /\ standing' = [standing EXCEPT ![k] = "DISPATCHED"]
    /\ rendering' = [rendering EXCEPT ![k] = Render(k)]
    /\ manner' = [manner EXCEPT ![k] = "alone"]
    /\ carrier' = [carrier EXCEPT ![k] = k]
    /\ UNCHANGED <<parsing, recorded, stored, losses>>

(* _try_dispatch_sharded copies the spec as it is: nothing is rendered.    *)
GiveSharded(k) ==
    /\ MayGo(k)
    /\ standing' = [standing EXCEPT ![k] = "DISPATCHED"]
    /\ rendering' = [rendering EXCEPT ![k] = [n \in specs[k].needs |-> "verbatim"]]
    /\ manner' = [manner EXCEPT ![k] = "sharded"]
    /\ carrier' = [carrier EXCEPT ![k] = k]
    /\ UNCHANGED <<parsing, recorded, stored, losses>>

(* A batch merges k's items into j's message, which is rendered with the   *)
(* results that j depends on.                                              *)
GiveMerged(j, k) ==
    /\ j # k /\ MayGo(j) /\ MayGo(k)
    /\ standing' = [standing EXCEPT ![j] = "DISPATCHED", ![k] = "MERGED"]
    /\ rendering' = [rendering EXCEPT ![j] = Render(j),
                                      ![k] = RenderIn(k, bound[j], Context(j))]
    /\ manner' = [manner EXCEPT ![j] = "alone", ![k] = "merged"]
    /\ carrier' = [carrier EXCEPT ![j] = j, ![k] = j]
    /\ UNCHANGED <<parsing, recorded, stored, losses>>

(* ingest_result: the result is stored, then the task and those merged     *)
(* into it are DONE.                                                       *)
Carried(k) == {i \in DOMAIN specs : carrier[i] = k /\ standing[i] \in {"DISPATCHED", "MERGED"}}

WithOwnResult(k) == stored \cup {k}     \* a mutant of WithResultsOf
WithResultsOf(k) == stored \cup Carried(k)

IngestResult(k) ==
    /\ standing[k] = "DISPATCHED"
    /\ stored' = WithResultsOf(k)
    /\ standing' = [i \in DOMAIN specs |-> IF i \in Carried(k) THEN "DONE" ELSE standing[i]]
    /\ UNCHANGED <<parsing, recorded, rendering, manner, carrier, losses>>

(* TASK_FAILED, of a run that failed or whose POST was answered too late:  *)
(* requeue_task while retries are left.  What becomes of merged tasks is   *)
(* MergeBatch's subject, of shards ShardAggregation's.                     *)
Lose(k) ==
    /\ losses < MaxLosses
    /\ manner[k] = "alone" /\ Carried(k) \subseteq {k}
    /\ standing[k] \in {"DISPATCHED", "DONE"}
    /\ losses' = losses + 1
    /\ \E s \in {"PENDING", "FAILED"} : standing' = [standing EXCEPT ![k] = s]
    /\ UNCHANGED <<parsing, recorded, rendering, manner, carrier, stored>>

GraphNext ==
    \/ ParseWritten \/ IndexNodes \/ PlaceNext \/ PassEnds
    \/ RecordNext
    \/ \E k \in DOMAIN specs : \/ GiveAlone(k) \/ GiveSharded(k)
                               \/ IngestResult(k) \/ Lose(k)
    \/ \E j, k \in DOMAIN specs : GiveMerged(j, k)

GraphSpec == GraphInit /\ [][GraphNext]_graphVars

-----------------------------------------------------------------------------
Standings == {"NEW", "PENDING", "DISPATCHED", "MERGED", "DONE", "FAILED"}

(* Every field of the tasks holds a value the code can store.              *)
GraphTypeOK ==
    /\ verdict \in {"new", "sorting", "rejected", "accepted"}
    /\ turn \subseteq unresolved /\ unresolved \subseteq DOMAIN document.nodes
    /\ recorded \in 0..Len(specs)
    /\ Len(specs) <= Len(document.nodes)
    /\ {standing[k] : k \in DOMAIN specs} \subseteq Standings
    /\ \A k \in DOMAIN specs : (standing[k] = "NEW") <=> (k > recorded)
    /\ \A k \in DOMAIN specs : \A dep \in bound[k] :
         "task" \in DOMAIN dep => dep.task \in 1..(k - 1)
    /\ stored \subseteq DOMAIN specs
    /\ losses \in 0..MaxLosses

Given(k) == standing[k] \in {"DISPATCHED", "MERGED", "DONE"}

(* A graph is refused exactly when its names clash or some of its nodes    *)
(* wait for one another in a circle, whatever order they are written in:   *)
(* a set of nodes each of which needs one of the set.  The passes of       *)
(* _parse_graph_nodes neither refuse an order that exists nor accept a     *)
(* circle.                                                                 *)
Circle(nodes) ==
    \E ring \in (SUBSET DOMAIN nodes) \ {{}} :
        \A i \in ring : \E j \in ring : nodes[j].name \in nodes[i].needs
AcceptedIffOrdered ==
    document.mode = "graph" /\ verdict \in {"rejected", "accepted"} =>
        (verdict = "rejected" <=> Duplicate(document.nodes) \/ Circle(document.nodes))

(* What a document says a node needs has its result stored before the node *)
(* is given to a worker: each name a graph's node lists, and of a stage    *)
(* the stage written before it.  Parser, registration, the pool's check    *)
(* and the ingestion of results share in this; tasks that fail, and are    *)
(* retried after they were done, do not disturb it.                        *)
GivenAfterNeeds ==
    /\ document.mode = "graph" =>
         \A k, j \in DOMAIN specs :
             Given(k) /\ specs[j].name \in specs[k].needs => j \in stored
    /\ document.mode = "stages" =>
         \A k \in DOMAIN specs : Given(k) /\ k > 1 => k - 1 \in stored

(* A task dispatched on the single-worker path has every placeholder that  *)
(* names a node of its document filled from that node's stored result.     *)
PlaceholdersFilled ==
    \A k \in DOMAIN specs :
        Given(k) /\ manner[k] = "alone" =>
            \A n \in specs[k].needs :
                Bind(specs, k, n) # Raw(n) => rendering[k][n] = "filled"

(* A graph never waits for itself: when no task is with a worker and none  *)
(* can go, a task that still waits needs one that failed or a name that no *)
(* task has, or waits for such a task.                                     *)
Quiet == /\ verdict = "accepted" /\ recorded = Len(specs)
         /\ \A k \in DOMAIN specs : standing[k] \notin {"DISPATCHED", "MERGED"} /\ ~MayGo(k)
NoCircularWait ==
    document.mode = "graph" /\ Quiet /\ (\E k \in DOMAIN specs : standing[k] = "PENDING") =>
        \E k \in DOMAIN specs :
            /\ standing[k] = "PENDING"
            /\ \/ Raw(Outside) \in bound[k] /\ ~document.earlier
               \/ \E j \in DOMAIN specs : Task(j) \in bound[k] /\ standing[j] = "FAILED"

(* A document is refused exactly when it has no order; the tasks of an      *)
(* accepted one are given in it, rendered from the results they need, and   *)
(* none waits in a circle.                                                  *)
GraphInv ==
    /\ GraphTypeOK
    /\ AcceptedIffOrdered
    /\ GivenAfterNeeds
    /\ PlaceholdersFilled
    /\ NoCircularWait

(* The docstring's promise "Detects cycles / unresolved dependencies and   *)
(* raises HTTP 400" (parser.py:203) for names that no node has: broken, a  *)
(* name that is no node is not unresolved and is kept as a task id.        *)
UnknownNameRejected ==
    document.mode = "graph" /\ ~document.earlier /\ verdict = "accepted" =>
        \A k \in DOMAIN specs : Outside \notin specs[k].needs

(* Every task that is given has its own placeholders filled, whichever way *)
(* it is dispatched: broken for shards and for merged tasks.               *)
EveryPlaceholderFilled ==
    \A k \in DOMAIN specs : Given(k) =>
        \A n \in specs[k].needs : Bind(specs, k, n) # Raw(n) => rendering[k][n] = "filled"
=============================================================================
