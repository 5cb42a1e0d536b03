---------------------------- MODULE WorkerEngines ----------------------------
(***************************************************************************)
(* What an inference executor keeps from one task of a worker to the next. *)
(* Runner._process_task_message gives the tasks one by one to the same     *)
(* VLLMExecutor or HFTransformersExecutor object, whose fields are the     *)
(* state here.  After each run the runner calls executor.cleanup(), which  *)
(* no executor has: the AttributeError is swallowed and cleanup_after_run, *)
(* which would drop the engine, is never called.                           *)
(***************************************************************************)
EXTENDS Naturals, Sequences

CONSTANTS MaxTasks,  \* bound: tasks this worker is given
          Models,    \* identifiers of base models
          Adapters   \* LoRA adapters; a task has at most one here

ASSUME EngineAssumption == MaxTasks \in Nat \ {0} /\ Models # {}

TaskNumbers == 1 .. MaxTasks
Nothing == [none |-> TRUE]
Failed == [failed |-> TRUE]
(* Weights: a base model, the adapters merged offline into the directory it *)
(* was loaded from, and those merged natively into the loaded engine.       *)
Weights(base) == [base |-> base, offline |-> <<>>, native |-> <<>>]

VARIABLES
    executorKind, \* "vllm" or "transformers", as registered for inference
    nativeMerge,  \* this build of vLLM has merge_lora
    alive,        \* the worker process
    number,       \* tasks received
    spec,         \* the model part of the task at hand
    at,           \* how far run() is with it, "idle" between tasks
    engine,       \* _llm, or _model and _tok
    modelName,    \* _model_name, as the model and the offline merges in it
    adapterSpecs, \* _adapter_specs
    promptsOf,    \* the task whose prompts are in _prompts
    outcomes      \* of each task: how it was answered, Failed, or Nothing

engineVars == <<executorKind, nativeMerge, alive, number, spec, at,
                engine, modelName, adapterSpecs, promptsOf, outcomes>>
fixed == <<executorKind, nativeMerge>>
assignment == <<alive, number, spec>>
executorVars == <<engine, modelName, adapterSpecs, promptsOf>>

Loras == [name : Adapters, apply : {"merge", "runtime"}] \cup {Nothing}
Specs == [model : Models, adapter : Loras]

EngineInit ==
    /\ executorKind \in {"vllm", "transformers"}
    /\ nativeMerge \in BOOLEAN
    /\ alive = TRUE /\ number = 0 /\ spec = Nothing /\ at = "idle"
    /\ engine = Nothing /\ modelName = Nothing
    /\ adapterSpecs = Nothing /\ promptsOf = 0
    /\ outcomes = [n \in TaskNumbers |-> Nothing]

vllm == executorKind = "vllm"

(* run() raises: TASK_FAILED, cleanup() as above, IDLE. *)
Fails == /\ at' = "idle"
         /\ outcomes' = [outcomes EXCEPT ![number] = Failed]

-----------------------------------------------------------------------------
(* A message for this worker.  The output directory is made outside the try *)
(* of the runner: an error there ends the Redis listener.                   *)
ReceiveMessage ==
    /\ alive /\ at = "idle" /\ number < MaxTasks
    /\ number' = number + 1
    /\ spec' \in Specs
    /\ alive' \in BOOLEAN
    /\ at' = IF alive' THEN "load" ELSE "idle"
    /\ UNCHANGED <<fixed, executorVars, outcomes>>

(* _extract_adapter_specs: those it has, if it has any. *)
ExtractedAdapters == IF adapterSpecs # Nothing THEN adapterSpecs ELSE spec.adapter

(* _ensure_llm: only when there is no engine; a failing one leaves the *)
(* adapters of its task behind.                                        *)
EnsureLLM ==
    /\ at = "load" /\ vllm
    /\ \/ /\ engine # Nothing
          /\ at' = "data"
          /\ UNCHANGED <<engine, modelName, adapterSpecs, outcomes>>
       \/ /\ engine = Nothing
          /\ adapterSpecs' = ExtractedAdapters
          /\ \/ /\ engine' = Weights(spec.model)
                /\ modelName' = [base |-> spec.model, offline |-> <<>>]
                /\ at' = "data"
                /\ UNCHANGED outcomes
             \/ /\ Fails
                /\ UNCHANGED <<engine, modelName>>
    /\ UNCHANGED <<fixed, assignment, promptsOf>>

(* _ensure_model.  A load that raises once _tok and _model are set, in    *)
(* .to() or .eval(), leaves them to the next task, without a _model_name. *)
EnsureModel ==
    /\ at = "load" /\ ~ vllm
    /\ \/ /\ engine # Nothing
          /\ at' = "data"
          /\ UNCHANGED <<engine, modelName, outcomes>>
       \/ /\ engine = Nothing
          /\ engine' = Weights(spec.model)
          /\ modelName' = [base |-> spec.model, offline |-> <<>>]
          /\ at' = "data"
          /\ UNCHANGED outcomes
       \/ /\ engine = Nothing
          /\ engine' \in {Nothing, Weights(spec.model)}
          /\ Fails
          /\ UNCHANGED modelName
    /\ UNCHANGED <<fixed, assignment, adapterSpecs, promptsOf>>

PromptsOffByOne == number + 1

PromptsIfNone == IF promptsOf = 0 THEN number ELSE promptsOf

(* prepare_data: prompts from the data of this task. *)
PreparedPrompts == number

PrepareVllmData ==
    /\ at = "data" /\ vllm
    /\ \/ /\ promptsOf' = PreparedPrompts
          /\ at' = "adapters"
          /\ UNCHANGED outcomes
       \/ Fails /\ UNCHANGED promptsOf
    /\ UNCHANGED <<fixed, assignment, engine, modelName, adapterSpecs>>

PrepareModelData ==
    /\ at = "data" /\ ~ vllm
    /\ \/ /\ promptsOf' = PreparedPrompts
          /\ at' = "generate"
          /\ UNCHANGED outcomes
       \/ Fails /\ UNCHANGED promptsOf
    /\ UNCHANGED <<fixed, assignment, engine, modelName, adapterSpecs>>

(* _prepare_adapters: the adapter is merged into the weights, or requested *)
(* with the prompts.                                                       *)
Merging == adapterSpecs # Nothing /\ adapterSpecs.apply = "merge"

NoMerge ==
    /\ at = "adapters" /\ ~ Merging
    /\ at' = "generate"
    /\ UNCHANGED <<fixed, assignment, executorVars, outcomes>>

(* _resolve_adapter_directory finds no adapter; or peft is not installed, *)
(* which an offline merge finds before it drops the engine.               *)
AdapterMissing ==
    /\ at = "adapters" /\ Merging
    /\ engine' \in IF nativeMerge THEN {engine} ELSE {engine, Nothing}
    /\ Fails
    /\ UNCHANGED <<fixed, assignment, modelName, adapterSpecs, promptsOf>>

MergeNative ==
    /\ at = "adapters" /\ Merging /\ nativeMerge
    /\ engine' = [engine EXCEPT !.native = Append(@, adapterSpecs.name)]
    /\ at' = "generate"
    /\ UNCHANGED <<fixed, assignment, modelName, adapterSpecs, promptsOf, outcomes>>

MergedNameForgotten == modelName

MergedName == [modelName EXCEPT !.offline = Append(@, adapterSpecs.name)]

(* _offline_merge_adapters: the model named by _model_name, which may be the *)
(* directory of an earlier merge, with the adapters merged in once more.     *)
MergeOffline ==
    /\ at = "adapters" /\ Merging /\ ~ nativeMerge
    /\ engine' = [base |-> modelName.base, native |-> <<>>,
                  offline |-> Append(modelName.offline, adapterSpecs.name)]
    /\ modelName' = MergedName
    /\ at' = "generate"
    /\ UNCHANGED <<fixed, assignment, adapterSpecs, promptsOf, outcomes>>

(* generate(), with a LoRARequest for an adapter that is not merged. *)
LoraRequest == IF Merging THEN Nothing ELSE adapterSpecs

Generate ==
    /\ at = "generate"
    /\ \/ /\ outcomes' = [outcomes EXCEPT ![number] =
                            [spec |-> spec, engine |-> engine, model |-> modelName,
                             prompts |-> promptsOf, request |-> LoraRequest]]
          /\ at' = "idle"
       \/ Fails
    /\ UNCHANGED <<fixed, assignment, executorVars>>

EngineNext ==
    ReceiveMessage \/ EnsureLLM \/ EnsureModel \/ PrepareVllmData \/ PrepareModelData
        \/ NoMerge \/ AdapterMissing \/ MergeNative \/ MergeOffline \/ Generate

EngineSpec == EngineInit /\ [][EngineNext]_engineVars

-----------------------------------------------------------------------------
Names == [base : Models, offline : Seq(Adapters)]
Engines == [base : Models, offline : Seq(Adapters), native : Seq(Adapters)]
Answers == [spec : Specs, engine : Engines, model : Names \cup {Nothing},
            prompts : TaskNumbers, request : Loras]

EngineTypeOK ==
    /\ executorKind \in {"vllm", "transformers"} /\ nativeMerge \in BOOLEAN
    /\ alive \in BOOLEAN /\ number \in 0 .. MaxTasks
    /\ spec = Nothing \/ spec \in Specs
    /\ at \in {"idle", "load", "data", "adapters", "generate"}
    /\ engine = Nothing \/ engine \in Engines
    /\ modelName = Nothing \/ modelName \in Names
    /\ adapterSpecs \in Loras /\ promptsOf \in 0 .. MaxTasks
    /\ DOMAIN outcomes = TaskNumbers
    /\ \A n \in TaskNumbers :
        outcomes[n] \in {Nothing, Failed} \/ outcomes[n] \in Answers

Answered(n) == outcomes[n] \notin {Nothing, Failed}

(* The prompts answered for a task are its own, though _prompts outlives *)
(* every run, those that failed halfway included.                        *)
PromptsOfTask == \A n \in TaskNumbers : Answered(n) => outcomes[n].prompts = n

(* The "model" field of a result names the weights that produced it, up to *)
(* native merges, through retained engines, repeated offline merges and    *)
(* failed ones.  Only transformers may name none, after a task that failed *)
(* before: that task's load was not finished, and its model is used.       *)
ReportedModelIsLoaded ==
    \A n \in TaskNumbers : Answered(n) =>
        IF outcomes[n].model = Nothing
        THEN ~ vllm /\ \E m \in TaskNumbers : m < n /\ outcomes[m] = Failed
        ELSE /\ outcomes[n].model.base = outcomes[n].engine.base
             /\ outcomes[n].model.offline = outcomes[n].engine.offline

(* What an executor keeps between tasks does not get into the next result.  *)
EngineInv ==
    /\ EngineTypeOK
    /\ PromptsOfTask
    /\ ReportedModelIsLoaded

(* cleanup_after_run is "called after every `run` invocation (even on      *)
(* failure)" (base_executor.py:71), and that of VLLMExecutor drops the     *)
(* engine: every task is answered by the model of its own spec.            *)
RightModel ==
    vllm => \A n \in TaskNumbers :
                Answered(n) => outcomes[n].engine.base = outcomes[n].spec.model

=============================================================================
