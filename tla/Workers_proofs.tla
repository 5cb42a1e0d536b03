---------------------------- MODULE Workers_proofs ----------------------------
(***************************************************************************)
(* The components of the workers, one after the other, each for every value *)
(* of its constants: the executors' engines, a training run and its ranks,  *)
(* the stream of an agent's events, the plan of a workforce agent, and the *)
(* connections of a worker.                                                *)
(***************************************************************************)
EXTENDS WorkerEngines, TrainingRun, AgentStream, WorkforcePlan, WsConnections, Integers,
        SequenceTheorems, FiniteSetTheorems, WellFoundedInduction, TLAPS

-----------------------------------------------------------------------------
(***************************************************************************)
(* For any number of tasks, models and adapters: what an executor keeps    *)
(* between its tasks does not get into the next result.                    *)
(***************************************************************************)

(* From its preparation on a task's prompts are in the executor, and from  *)
(* its loading on there is an engine; _model_name names the engine's base  *)
(* and offline merges whenever there is one.                               *)
Prepared == at \in {"adapters", "generate"} => promptsOf = number
Loaded == at \in {"data", "adapters", "generate"} => engine # Nothing
NameOf(weights) == [base |-> weights.base, offline |-> weights.offline]
InStep == engine # Nothing /\ modelName # Nothing => /\ modelName.base = engine.base
                                                    /\ modelName.offline = engine.offline
AtWork == at # "idle" => number \in TaskNumbers /\ spec \in Specs

(* An engine without a name is of a load that raised, and of a task that   *)
(* is over; a task has no outcome before its run has ended.                *)
FailedBefore == \E m \in TaskNumbers : outcomes[m] = Failed /\ m <= number
Nameless ==
    /\ engine # Nothing /\ modelName = Nothing => ~ vllm /\ FailedBefore
    /\ ~ vllm => (engine = Nothing => modelName = Nothing) /\ at # "adapters"
Ahead == \A n \in TaskNumbers :
            n > number \/ (n = number /\ at # "idle") => outcomes[n] = Nothing

EngineIInv == EngineTypeOK /\ AtWork /\ Prepared /\ Loaded /\ InStep /\ Nameless /\ Ahead
                /\ PromptsOfTask /\ ReportedModelIsLoaded

(* An outcome that is not changed keeps what is said of answered tasks.    *)
LEMMA FailsKeeps ==
    ASSUME EngineIInv, at # "idle", Fails, UNCHANGED <<fixed, assignment>>
    PROVE  /\ \A n \in TaskNumbers : outcomes'[n] \in {Nothing, Failed} \/ outcomes'[n] \in Answers
           /\ PromptsOfTask' /\ ReportedModelIsLoaded' /\ Ahead' /\ FailedBefore'
  <1>1. number \in TaskNumbers /\ DOMAIN outcomes = TaskNumbers /\ number \in Nat
    BY EngineAssumption DEF EngineIInv, EngineTypeOK, AtWork, TaskNumbers
  <1>2. /\ outcomes'[number] = Failed
        /\ \A n \in TaskNumbers : n # number => outcomes'[n] = outcomes[n]
        /\ \A n \in TaskNumbers : outcomes[n] = Failed => outcomes'[n] = Failed
    BY <1>1 DEF Fails
  <1>3. /\ \A n \in TaskNumbers : outcomes'[n] \in {Nothing, Failed} \/ outcomes'[n] \in Answers
        /\ PromptsOfTask'
    BY <1>1, <1>2 DEF EngineIInv, EngineTypeOK, PromptsOfTask, Answered
  <1>4. ReportedModelIsLoaded'
    <2>1. vllm' = vllm
      BY DEF fixed, vllm
    <2>2. \A n \in TaskNumbers : Answered(n)' => n # number /\ Answered(n) /\ outcomes'[n] = outcomes[n]
      BY <1>1, <1>2 DEF Answered
    <2>3. \A n \in TaskNumbers :
              (\E m \in TaskNumbers : m < n /\ outcomes[m] = Failed)
                => \E m \in TaskNumbers : m < n /\ outcomes'[m] = Failed
      BY <1>2
    <2> QED
      BY <2>1, <2>2, <2>3 DEF EngineIInv, ReportedModelIsLoaded
  <1>5. Ahead'
    BY <1>1, <1>2 DEF EngineIInv, Ahead, Fails, assignment, TaskNumbers
  <1>6. FailedBefore'
    BY <1>1, <1>2 DEF FailedBefore, assignment
  <1> QED
    BY <1>3, <1>4, <1>5, <1>6

LEMMA EngineInitInv == EngineInit => EngineIInv
  BY EngineAssumption DEF EngineInit, EngineIInv, EngineTypeOK, AtWork, Prepared, Loaded, InStep,
     Nameless, Ahead, PromptsOfTask, ReportedModelIsLoaded, Answered, TaskNumbers, Loras

(* The next task: the executor keeps what it has.                          *)
LEMMA ReceiveInv == EngineIInv /\ ReceiveMessage => EngineIInv'
  <1> SUFFICES ASSUME EngineIInv, ReceiveMessage PROVE EngineIInv'
    OBVIOUS
  <1>1. number' \in TaskNumbers /\ spec' \in Specs
    BY EngineAssumption DEF EngineIInv, EngineTypeOK, ReceiveMessage, TaskNumbers
  <1>2. EngineTypeOK' /\ AtWork'
    BY <1>1, EngineAssumption DEF EngineIInv, EngineTypeOK, AtWork, ReceiveMessage, TaskNumbers,
       fixed, executorVars
  <1>3. Prepared' /\ Loaded' /\ InStep'
    BY DEF EngineIInv, Prepared, Loaded, InStep, ReceiveMessage, executorVars
  <1>4. PromptsOfTask' /\ ReportedModelIsLoaded'
    BY DEF EngineIInv, PromptsOfTask, ReportedModelIsLoaded, Answered, ReceiveMessage, fixed, vllm
  <1>5. number \in Nat /\ number' = number + 1 /\ at = "idle" /\ outcomes' = outcomes
    BY EngineAssumption DEF EngineIInv, EngineTypeOK, ReceiveMessage
  <1>6. Ahead'
    BY <1>5 DEF EngineIInv, Ahead, TaskNumbers
  <1>7. FailedBefore => FailedBefore'
    BY <1>5 DEF FailedBefore, TaskNumbers
  <1>8. Nameless'
    BY <1>7 DEF EngineIInv, Nameless, ReceiveMessage, fixed, executorVars, vllm
  <1> QED
    BY <1>2, <1>3, <1>4, <1>6, <1>8 DEF EngineIInv

(* What a failing run leaves is well-formed: nothing is at work any more.  *)
LEMMA FailedInv ==
    ASSUME EngineIInv, at # "idle", Fails, UNCHANGED <<fixed, assignment>>,
           engine' = Nothing \/ engine' \in Engines, modelName' = modelName,
           engine' # Nothing => engine' = engine \/ (modelName = Nothing /\ ~ vllm),
           engine' = Nothing => engine = Nothing \/ vllm,
           adapterSpecs' \in Loras, promptsOf' = promptsOf
    PROVE  EngineIInv'
  <1>1. EngineTypeOK'
    BY FailsKeeps DEF EngineIInv, EngineTypeOK, Fails, fixed, assignment
  <1>2. AtWork' /\ Prepared' /\ Loaded' /\ InStep'
    BY DEF EngineIInv, AtWork, Prepared, Loaded, InStep, Fails
  <1>3. Nameless'
    BY FailsKeeps DEF EngineIInv, Nameless, Fails, fixed, vllm
  <1> QED
    BY <1>1, <1>2, <1>3, FailsKeeps DEF EngineIInv

(* A step that answers nothing yet keeps the answers.                      *)
LEMMA AnswersKept ==
    ASSUME EngineIInv, outcomes' = outcomes, at # "idle", at' # "idle", UNCHANGED <<fixed, assignment>>
    PROVE  /\ PromptsOfTask' /\ ReportedModelIsLoaded' /\ Ahead'
           /\ FailedBefore' = FailedBefore
  <1>1. PromptsOfTask' /\ ReportedModelIsLoaded'
    BY DEF EngineIInv, PromptsOfTask, ReportedModelIsLoaded, Answered, fixed, vllm
  <1>2. Ahead'
    BY DEF EngineIInv, Ahead, assignment
  <1>3. FailedBefore' = FailedBefore
    BY DEF FailedBefore, assignment
  <1> QED
    BY <1>1, <1>2, <1>3

LEMMA FreshEngine ==
    ASSUME spec \in Specs
    PROVE  /\ Weights(spec.model) \in Engines /\ Weights(spec.model) # Nothing
           /\ [base |-> spec.model, offline |-> <<>>] \in Names
           /\ [base |-> spec.model, offline |-> <<>>] # Nothing
  BY DEF Specs, Weights, Engines, Names, Nothing

(* _ensure_llm and _ensure_model: an engine that is there is taken as it   *)
(* is, a new one and its name are set together, but for the transformers'  *)
(* engine of a load that raised.                                           *)
LEMMA EnsureInv == EngineIInv /\ (EnsureLLM \/ EnsureModel) => EngineIInv'
  <1> SUFFICES ASSUME EngineIInv, EnsureLLM \/ EnsureModel PROVE EngineIInv'
    OBVIOUS
  <1>1. at = "load" /\ spec \in Specs /\ number \in TaskNumbers
    BY DEF EnsureLLM, EnsureModel, EngineIInv, AtWork
  <1>2. ExtractedAdapters \in Loras
    BY <1>1 DEF ExtractedAdapters, EngineIInv, EngineTypeOK, Specs, Loras
  <1>3. adapterSpecs' \in Loras /\ promptsOf' = promptsOf /\ UNCHANGED <<fixed, assignment>>
    BY <1>2 DEF EnsureLLM, EnsureModel, EngineIInv, EngineTypeOK
  <1>4. CASE Fails /\ UNCHANGED <<engine, modelName>>
    <2>1. engine' = Nothing \/ engine' \in Engines
      BY <1>4 DEF EngineIInv, EngineTypeOK
    <2> QED
      BY <1>1, <1>3, <1>4, <2>1, FailedInv
  <1>6. CASE /\ Fails /\ ~ vllm /\ engine = Nothing /\ UNCHANGED modelName
             /\ engine' \in {Nothing, Weights(spec.model)}
    <2>1. engine' = Nothing \/ engine' \in Engines
      BY <1>1, <1>6, FreshEngine
    <2>2. modelName = Nothing
      BY <1>6 DEF EngineIInv, Nameless
    <2> QED
      BY <1>1, <1>3, <1>6, <2>1, <2>2, FailedInv
  <1>5. CASE /\ at' = "data" /\ outcomes' = outcomes
             /\ \/ engine # Nothing /\ UNCHANGED <<engine, modelName>>
                \/ engine' = Weights(spec.model) /\ modelName' = [base |-> spec.model, offline |-> <<>>]
    <2>1. engine' \in Engines /\ engine' # Nothing /\ InStep'
      BY <1>1, <1>5, FreshEngine DEF EngineIInv, EngineTypeOK, InStep, Weights
    <2>2. modelName' = Nothing \/ modelName' \in Names
      BY <1>1, <1>5, FreshEngine DEF EngineIInv, EngineTypeOK
    <2>3. EngineTypeOK' /\ AtWork'
      BY <1>1, <1>3, <1>5, <2>1, <2>2 DEF EngineIInv, EngineTypeOK, AtWork, fixed, assignment
    <2>4. Prepared' /\ Loaded'
      BY <1>5, <2>1 DEF Prepared, Loaded
    <2>5. PromptsOfTask' /\ ReportedModelIsLoaded' /\ Ahead' /\ FailedBefore' = FailedBefore
      BY <1>1, <1>3, <1>5, AnswersKept
    <2>6. vllm' = vllm
      BY <1>3 DEF fixed, vllm
    <2>7. modelName' # Nothing \/ UNCHANGED <<engine, modelName>>
      BY <1>1, <1>5, FreshEngine
    <2>8. Nameless'
      BY <1>5, <2>1, <2>5, <2>6, <2>7 DEF EngineIInv, Nameless
    <2> QED
      BY <2>1, <2>3, <2>4, <2>5, <2>8 DEF EngineIInv
  <1> QED
    BY <1>4, <1>5, <1>6 DEF EnsureLLM, EnsureModel

(* prepare_data: the prompts in the executor are this task's now.          *)
LEMMA PrepareInv == EngineIInv /\ (PrepareVllmData \/ PrepareModelData) => EngineIInv'
  <1> SUFFICES ASSUME EngineIInv, PrepareVllmData \/ PrepareModelData PROVE EngineIInv'
    OBVIOUS
  <1>1. /\ at = "data" /\ number \in TaskNumbers
        /\ UNCHANGED <<fixed, assignment, engine, modelName, adapterSpecs>>
    BY DEF PrepareVllmData, PrepareModelData, EngineIInv, AtWork
  <1>2. CASE Fails /\ UNCHANGED promptsOf
    <2>1. (engine' = Nothing \/ engine' \in Engines) /\ adapterSpecs' \in Loras
      BY <1>1 DEF EngineIInv, EngineTypeOK
    <2> QED
      BY <1>1, <1>2, <2>1, FailedInv
  <1>3. CASE /\ promptsOf' = PreparedPrompts /\ UNCHANGED outcomes
             /\ at' \in {"adapters", "generate"} /\ (at' = "adapters" => vllm)
    <2>1. EngineTypeOK' /\ AtWork'
      BY <1>1, <1>3, EngineAssumption
      DEF EngineIInv, EngineTypeOK, AtWork, fixed, assignment, PreparedPrompts, TaskNumbers
    <2>2. Prepared' /\ Loaded' /\ InStep'
      BY <1>1, <1>3 DEF EngineIInv, Prepared, Loaded, InStep, assignment, PreparedPrompts
    <2>3. PromptsOfTask' /\ ReportedModelIsLoaded' /\ Ahead' /\ FailedBefore' = FailedBefore
      BY <1>1, <1>3, AnswersKept
    <2>4. Nameless'
      BY <1>1, <1>3, <2>3 DEF EngineIInv, Nameless, fixed, vllm
    <2> QED
      BY <2>1, <2>2, <2>3, <2>4 DEF EngineIInv
  <1> QED
    BY <1>2, <1>3 DEF PrepareVllmData, PrepareModelData

(* What is done with the adapters: weights and name change together.       *)
LEMMA AdaptersInv == EngineIInv /\ (NoMerge \/ AdapterMissing \/ MergeNative \/ MergeOffline) => EngineIInv'
  <1> SUFFICES ASSUME EngineIInv, NoMerge \/ AdapterMissing \/ MergeNative \/ MergeOffline
               PROVE  EngineIInv'
    OBVIOUS
  <1>1. /\ at = "adapters" /\ number \in TaskNumbers /\ promptsOf = number /\ vllm
        /\ engine \in Engines /\ engine # Nothing /\ modelName \in Names /\ modelName # Nothing
        /\ UNCHANGED <<fixed, assignment, adapterSpecs, promptsOf>>
    BY DEF NoMerge, AdapterMissing, MergeNative, MergeOffline, EngineIInv, EngineTypeOK, AtWork,
       Prepared, Loaded, Nameless, executorVars
  <1>2. CASE AdapterMissing
    <2>1. (engine' = Nothing \/ engine' \in Engines) /\ adapterSpecs' \in Loras
      BY <1>1, <1>2 DEF AdapterMissing, EngineIInv, EngineTypeOK
    <2>2. Fails /\ modelName' = modelName /\ (engine' # Nothing => engine' = engine)
      BY <1>2 DEF AdapterMissing
    <2> QED
      BY <1>1, <2>1, <2>2, FailedInv
  <1>3. CASE NoMerge \/ MergeNative \/ MergeOffline
    <2>1. at' = "generate" /\ outcomes' = outcomes
      BY <1>3 DEF NoMerge, MergeNative, MergeOffline
    <2>2. Merging => adapterSpecs.name \in Adapters
      BY DEF Merging, EngineIInv, EngineTypeOK, Loras
    <2>3. /\ engine' \in Engines /\ engine' # Nothing /\ modelName' \in Names /\ modelName' # Nothing
          /\ modelName'.base = engine'.base /\ modelName'.offline = engine'.offline
      <3>1. CASE NoMerge
        BY <1>1, <3>1 DEF NoMerge, executorVars, EngineIInv, InStep
      <3>2. CASE MergeNative
        <4>1. engine' = [engine EXCEPT !.native = Append(@, adapterSpecs.name)] /\ modelName' = modelName
          BY <3>2 DEF MergeNative
        <4>2. engine.native \in Seq(Adapters) /\ Append(engine.native, adapterSpecs.name) \in Seq(Adapters)
          BY <1>1, <2>2, <3>2 DEF MergeNative, Engines
        <4>3. engine' \in Engines /\ engine'.base = engine.base /\ engine'.offline = engine.offline
          BY <1>1, <4>1, <4>2 DEF Engines
        <4>4. engine' # Nothing
          BY <4>3 DEF Engines, Nothing
        <4> QED
          BY <1>1, <4>1, <4>3, <4>4 DEF EngineIInv, InStep
      <3>3. CASE MergeOffline
        <4> DEFINE merged == Append(modelName.offline, adapterSpecs.name)
        <4>1. merged \in Seq(Adapters) /\ modelName.base \in Models
          BY <1>1, <2>2, <3>3 DEF MergeOffline, Names
        <4>2. engine' = [base |-> modelName.base, native |-> <<>>, offline |-> merged]
          BY <3>3 DEF MergeOffline
        <4>3. modelName' = [base |-> modelName.base, offline |-> merged]
          BY <1>1, <3>3 DEF MergeOffline, MergedName, Names
        <4> HIDE DEF merged
        <4>4. engine' \in Engines /\ modelName' \in Names
          <5>1. <<>> \in Seq(Adapters)
            OBVIOUS
          <5> QED
            BY <4>1, <4>2, <4>3, <5>1 DEF Names, Engines
        <4>5. engine' # Nothing /\ modelName' # Nothing
          BY <4>4 DEF Names, Engines, Nothing
        <4>6. modelName'.base = engine'.base /\ modelName'.offline = engine'.offline
          BY <4>2, <4>3
        <4> QED
          BY <4>4, <4>5, <4>6
      <3> QED
        BY <1>3, <3>1, <3>2, <3>3
    <2>4. EngineTypeOK' /\ AtWork'
      BY <1>1, <2>1, <2>3 DEF EngineIInv, EngineTypeOK, AtWork, fixed, assignment
    <2>5. Prepared' /\ Loaded' /\ InStep'
      BY <1>1, <2>1, <2>3 DEF Prepared, Loaded, InStep, assignment
    <2>6. PromptsOfTask' /\ ReportedModelIsLoaded' /\ Ahead'
      BY <1>1, <2>1, AnswersKept
    <2>7. Nameless'
      BY <2>1, <2>3 DEF Nameless
    <2> QED
      BY <2>4, <2>5, <2>6, <2>7 DEF EngineIInv
  <1> QED
    BY <1>2, <1>3

(* The answer has the prompts of its task and the name of its weights, if  *)
(* they have one.                                                          *)
LEMMA GenerateInv == EngineIInv /\ Generate => EngineIInv'
  <1> SUFFICES ASSUME EngineIInv, Generate PROVE EngineIInv'
    OBVIOUS
  <1>1. /\ at = "generate" /\ number \in TaskNumbers /\ spec \in Specs /\ promptsOf = number
        /\ engine \in Engines /\ engine # Nothing /\ modelName \in Names \cup {Nothing}
        /\ UNCHANGED <<fixed, assignment, executorVars>>
    BY DEF Generate, EngineIInv, EngineTypeOK, AtWork, Prepared, Loaded
  <1>4. /\ modelName # Nothing => modelName.base = engine.base /\ modelName.offline = engine.offline
        /\ modelName = Nothing => ~ vllm /\ FailedBefore
    BY <1>1 DEF EngineIInv, InStep, Nameless
  <1>5. outcomes[number] = Nothing /\ Nothing # Failed
    BY <1>1 DEF EngineIInv, Ahead, Nothing, Failed
  <1>2. CASE Fails
    BY <1>1, <1>2, FailedInv DEF executorVars, EngineIInv, EngineTypeOK
  <1>3. CASE /\ at' = "idle"
             /\ outcomes' = [outcomes EXCEPT ![number] =
                               [spec |-> spec, engine |-> engine, model |-> modelName,
                                prompts |-> promptsOf, request |-> LoraRequest]]
    <2> DEFINE answer == [spec |-> spec, engine |-> engine, model |-> modelName,
                          prompts |-> promptsOf, request |-> LoraRequest]
    <2>1. LoraRequest \in Loras
      BY DEF LoraRequest, EngineIInv, EngineTypeOK, Loras
    <2>2. answer \in Answers
      BY <1>1, <2>1 DEF Answers
    <2>3. /\ DOMAIN outcomes' = TaskNumbers /\ outcomes'[number] = answer
          /\ \A n \in TaskNumbers \ {number} : outcomes'[n] = outcomes[n]
      BY <1>1, <1>3 DEF EngineIInv, EngineTypeOK
    <2> HIDE DEF answer
    <2>4. EngineTypeOK'
      BY <1>1, <1>3, <2>2, <2>3 DEF EngineIInv, EngineTypeOK, fixed, assignment, executorVars
    <2>5. AtWork' /\ Prepared' /\ Loaded' /\ InStep'
      BY <1>1, <1>3 DEF EngineIInv, AtWork, Prepared, Loaded, InStep, executorVars
    <2>6. /\ answer.prompts = number /\ answer.model = modelName
          /\ answer.model # Nothing => /\ answer.model.base = answer.engine.base
                                      /\ answer.model.offline = answer.engine.offline
      BY <1>1, <1>4 DEF answer
    <2>7. PromptsOfTask'
      BY <2>3, <2>6 DEF EngineIInv, PromptsOfTask, Answered
    <2>8. /\ \A m \in TaskNumbers : outcomes[m] = Failed => m # number /\ outcomes'[m] = Failed
          /\ number \in Nat /\ number' = number
      BY <1>1, <1>5, <2>3, EngineAssumption DEF assignment, TaskNumbers
    <2>9. FailedBefore => FailedBefore' /\ \E m \in TaskNumbers : m < number /\ outcomes'[m] = Failed
      BY <2>8 DEF FailedBefore, TaskNumbers
    <2>10. vllm' = vllm
      BY <1>1 DEF fixed, vllm
    <2>11. ReportedModelIsLoaded'
      BY <1>4, <2>3, <2>6, <2>8, <2>9, <2>10 DEF EngineIInv, ReportedModelIsLoaded, Answered
    <2>12. Ahead'
      BY <1>1, <1>3, <2>3, <2>8 DEF EngineIInv, Ahead, TaskNumbers
    <2>13. Nameless'
      BY <1>1, <1>3, <1>4, <2>9, <2>10 DEF EngineIInv, Nameless, executorVars
    <2> QED
      BY <2>4, <2>5, <2>7, <2>11, <2>12, <2>13 DEF EngineIInv
  <1> QED
    BY <1>2, <1>3 DEF Generate

LEMMA EngineStepInv == EngineIInv /\ [EngineNext]_engineVars => EngineIInv'
  <1> SUFFICES ASSUME EngineIInv, [EngineNext]_engineVars PROVE EngineIInv'
    OBVIOUS
  <1>1. CASE UNCHANGED engineVars
    BY <1>1 DEF engineVars, EngineIInv, EngineTypeOK, AtWork, Prepared, Loaded, InStep,
       Nameless, FailedBefore, Ahead, PromptsOfTask, ReportedModelIsLoaded, Answered, vllm
  <1> QED
    BY <1>1, ReceiveInv, EnsureInv, PrepareInv, AdaptersInv, GenerateInv DEF EngineNext

(* Every result a worker sends has the answers to its own task's prompts,  *)
(* and names the model that was loaded when they were generated, though    *)
(* runner.py:226 leaves engine, name, adapters and prompts in the executor *)
(* - or none, if that model is of a transformers' load that raised half    *)
(* done for a task before (transformers_executor.py:157-171).              *)
THEOREM EngineCorrect == EngineSpec => []EngineInv
  <1>1. EngineIInv => EngineInv
    BY DEF EngineIInv, EngineInv
  <1> QED
    BY <1>1, EngineInitInv, EngineStepInv, PTL DEF EngineSpec

-----------------------------------------------------------------------------
(***************************************************************************)
(* For any number of GPUs: what a training result names exists.  The        *)
(* invariant says who may run beside whom, and what has happened to the     *)
(* model and the archive by the time a process is where it is.             *)
(***************************************************************************)

Working == {"resume", "unpack", "load", "train", "save", "saving", "archive", "archiving",
            "upload", "return"}
RanksOff == \A r \in Ranks : pc[r] = "off"

(* The parent waits while ranks run, and they are off when it works.       *)
Scheduled ==
    /\ \A r \in Ranks : pc[r] \in Working \cup {"off", "done", "failed"}
    /\ pc[Parent] \in Working \cup {"configure", "launch", "failed"} => RanksOff
    /\ pc[Parent] = "done" => RanksOff \/ RanksOver
    /\ pc[Parent] # "off"

Keeps == config.save /\ config.kind \in {"sft", "lora"}

(* How far the model is.                                                   *)
ModelSaved ==
    \A p \in Processes :
        /\ pc[p] \in {"save", "saving"} => config.save
        /\ pc[p] \in {"archive", "archiving", "upload"} => Keeps
        /\ pc[p] \in {"saving", "archive", "archiving", "upload"} => model # "none"
        /\ IsMain(p) /\ pc[p] \in {"archive", "archiving", "upload", "return", "done"} /\ Keeps
              => model = "whole"

(* How far its archive is.                                                 *)
ArchivePacked ==
    /\ \A p \in Processes :
        /\ pc[p] = "archiving" => seen[p] # "none"
        /\ pc[p] \in {"archiving", "upload"} => archive.content # "none"
        /\ url[p] => uploaded # "none"
    /\ pc[Parent] = "archiving" => seen[Parent] = "whole" /\ archive.by = Parent
    /\ pc[Parent] = "upload" => archive.content = "whole"
    /\ url[Parent] => /\ uploaded = "whole" /\ RanksOff
                      /\ pc[Parent] \in {"return", "done"}

(* What the result says.                                                   *)
ResultTrue ==
    /\ document.url => uploaded # "none"
    /\ document.saved => Keeps
    /\ outcome.ok \/ outcome.url \/ outcome.saved => pc[Parent] = "done"
    /\ outcome.saved => Keeps
    /\ outcome.url => uploaded # "none" /\ (RanksOver \/ uploaded = "whole")

TrainingIInv == TrainingTypeOK /\ Scheduled /\ ModelSaved /\ ArchivePacked /\ ResultTrue

LEMMA RankFacts ==
    /\ Parent \in Processes /\ Parent \notin Ranks /\ Ranks \subseteq Processes
    /\ 1 \in Ranks /\ Processes = {Parent} \cup Ranks
  BY TrainingAssumption DEF Parent, Ranks, Processes

LEMMA FailureTyped ==
    /\ NoDocument \in [ok : BOOLEAN, url : BOOLEAN, saved : BOOLEAN]
    /\ ~ NoDocument.ok /\ ~ NoDocument.url /\ ~ NoDocument.saved
  BY DEF NoDocument

LEMMA PayloadTyped ==
    ASSUME TrainingTypeOK, NEW p \in Processes
    PROVE  /\ Payload(p) \in [ok : BOOLEAN, url : BOOLEAN, saved : BOOLEAN]
           /\ Payload(p).url = url[p] /\ Payload(p).saved = Keeps /\ Payload(p).ok
  <1>1. url[p] \in BOOLEAN /\ config.save \in BOOLEAN
    BY DEF TrainingTypeOK, Configs
  <1> QED
    BY <1>1 DEF Payload, Keeps

(* A process that works does so alone, or it is a rank beside ranks.       *)
LEMMA WhoWorks ==
    ASSUME TrainingTypeOK, Scheduled, NEW p \in Processes, pc[p] \in Working
    PROVE  (p = Parent /\ RanksOff) \/ (p \in Ranks /\ pc[Parent] = "launched")
  <1>1. CASE p = Parent
    BY <1>1 DEF Scheduled
  <1>2. CASE p \in Ranks
    <2>1. pc[p] # "off" /\ pc[p] # "done"
      BY DEF Working
    <2>2. ~ RanksOff /\ ~ RanksOver
      BY <1>2, <2>1 DEF RanksOff, RanksOver
    <2> QED
      BY <1>2, <2>2, RankFacts DEF Scheduled, TrainingTypeOK, Working
  <1> QED
    BY <1>1, <1>2, RankFacts

(* A step of a process leaves the others where they are.                   *)
LEMMA StepScheduled ==
    ASSUME TrainingIInv, NEW p \in Processes, pc[p] \in Working,
           NEW label \in Working \cup {"done", "failed"}, Goto(p, label)
    PROVE  /\ Scheduled'
           /\ pc' \in [Processes -> Working \cup {"configure", "launch", "launched", "off", "done", "failed"}]
           /\ pc'[p] = label
           /\ \A q \in Processes \ {p} : pc'[q] = pc[q]
           /\ (RanksOff' <=> RanksOff)
           /\ ~ RanksOver
  <1>1. /\ pc'[p] = label /\ \A q \in Processes \ {p} : pc'[q] = pc[q]
        /\ pc' \in [Processes -> Working \cup {"configure", "launch", "launched", "off", "done", "failed"}]
    BY DEF Goto, TrainingIInv, TrainingTypeOK, Working
  <1>2. label # "off" /\ pc[p] # "off" /\ pc[p] # "done"
    BY DEF Working
  <1>3. CASE p = Parent /\ RanksOff
    <2>1. \A r \in Ranks : pc[r] = "off" /\ pc'[r] = "off"
      BY <1>1, <1>3, RankFacts DEF RanksOff
    <2> QED
      BY <1>1, <1>2, <1>3, <2>1, RankFacts DEF Scheduled, RanksOff, RanksOver
  <1>4. CASE p \in Ranks /\ pc[Parent] = "launched"
    <2>1. pc'[Parent] = "launched"
      BY <1>1, <1>4, RankFacts
    <2>2. ~ RanksOff /\ ~ RanksOver /\ ~ RanksOff'
      BY <1>1, <1>2, <1>4 DEF RanksOff, RanksOver
    <2>3. \A r \in Ranks : pc'[r] \in Working \cup {"off", "done", "failed"}
      BY <1>1, RankFacts DEF TrainingIInv, Scheduled
    <2>4. Scheduled'
      BY <2>1, <2>3 DEF Scheduled, Working
    <2> QED
      BY <1>1, <2>2, <2>4
  <1> QED
    BY <1>1, <1>3, <1>4, WhoWorks DEF TrainingIInv

LEMMA TrainingInitInv == TrainingInit => TrainingIInv
  <1> SUFFICES ASSUME TrainingInit PROVE TrainingIInv
    OBVIOUS
  <1>1. pc[Parent] = "configure" /\ RanksOff /\ \A q \in Processes : pc[q] \in {"configure", "off"}
    BY RankFacts DEF TrainingInit, RanksOff
  <1>2. TrainingTypeOK
    <2>1. /\ config \in Configs /\ visible \in 1 .. NumRanks
          /\ {document, outcome} \subseteq [ok : BOOLEAN, url : BOOLEAN, saved : BOOLEAN]
      BY FailureTyped, TrainingAssumption DEF TrainingInit
    <2>2. /\ archive.content = "none" /\ archive.by \in Processes
      BY RankFacts DEF TrainingInit
    <2> QED
      BY <2>1, <2>2 DEF TrainingInit, TrainingTypeOK, Contents
  <1>3. Scheduled
    BY <1>1, RankFacts DEF Scheduled, RanksOff
  <1>4. ModelSaved
    BY <1>1 DEF ModelSaved
  <1>5. ArchivePacked
    BY <1>1, RankFacts DEF ArchivePacked, TrainingInit
  <1>6. ResultTrue
    BY FailureTyped DEF ResultTrue, TrainingInit
  <1> QED
    BY <1>2, <1>3, <1>4, <1>5, <1>6 DEF TrainingIInv

(* A process that goes on without touching the files.                      *)
LEMMA QuietStep ==
    ASSUME TrainingIInv, NEW p \in Processes,
           pc[p] \in {"resume", "unpack", "load", "train"},
           NEW label \in {"unpack", "load", "train", "save", "return"}, Goto(p, label),
           label = "save" => config.save,
           label = "return" => ~ config.save,
           UNCHANGED <<config, visible, model, archive, seen, uploaded, url, results>>,
           checkpoint' \in Contents
    PROVE  TrainingIInv'
  <1>1. pc[p] \in Working /\ label \in Working
    BY DEF Working
  <1>2. /\ Scheduled' /\ (RanksOff' <=> RanksOff) /\ ~ RanksOver /\ pc'[p] = label
        /\ \A q \in Processes \ {p} : pc'[q] = pc[q]
        /\ pc' \in [Processes -> Working \cup {"configure", "launch", "launched", "off", "done", "failed"}]
    BY <1>1, StepScheduled
  <1>3. TrainingTypeOK'
    BY <1>2 DEF TrainingIInv, TrainingTypeOK, Working, results
  <1>4. ModelSaved'
    BY <1>2 DEF TrainingIInv, ModelSaved, Keeps
  <1>5. ArchivePacked'
    BY <1>2, RankFacts DEF TrainingIInv, ArchivePacked
  <1>6. ResultTrue'
    BY <1>2, RankFacts DEF TrainingIInv, ResultTrue, Keeps, results
  <1> QED
    BY <1>2, <1>3, <1>4, <1>5, <1>6 DEF TrainingIInv

(* A process that fails writes a document that claims nothing.             *)
LEMMA RaiseKeeps ==
    ASSUME TrainingIInv, NEW p \in Processes, pc[p] \in Working \ {"return"}, Raise(p),
           UNCHANGED <<config, visible, checkpoint, model, archive, seen, uploaded, url>>
    PROVE  TrainingIInv'
  <1>1. Goto(p, "failed") /\ document' = NoDocument /\ outcome' \in {outcome, NoDocument}
        /\ (p = Parent => outcome' = NoDocument)
    BY DEF Raise, Failure
  <1>2. /\ Scheduled' /\ (RanksOff' <=> RanksOff) /\ ~ RanksOver /\ pc'[p] = "failed"
        /\ \A q \in Processes \ {p} : pc'[q] = pc[q]
        /\ pc' \in [Processes -> Working \cup {"configure", "launch", "launched", "off", "done", "failed"}]
    BY <1>1, StepScheduled
  <1>3. TrainingTypeOK'
    BY <1>1, <1>2, FailureTyped DEF TrainingIInv, TrainingTypeOK, Working
  <1>4. ModelSaved'
    BY <1>2 DEF TrainingIInv, ModelSaved, Keeps
  <1>5. ArchivePacked'
    <2>1. p = Parent => ~ url[Parent]
      BY DEF TrainingIInv, ArchivePacked, Working
    <2> QED
      BY <1>2, <2>1, RankFacts DEF TrainingIInv, ArchivePacked
  <1>6. ResultTrue'
    BY <1>1, <1>2, RankFacts, FailureTyped DEF TrainingIInv, ResultTrue, Keeps
  <1> QED
    BY <1>2, <1>3, <1>4, <1>5, <1>6 DEF TrainingIInv

(* The main process begins to save; a rank that saves nothing goes on.      *)
LEMMA SaveBeginInv ==
    ASSUME TrainingIInv, NEW p \in Processes, SaveBegin(p)
    PROVE  TrainingIInv'
  <1>1. PICK label \in {"saving", "archive", "return"} :
            /\ Goto(p, label)
            /\ IF IsMain(p) THEN label = "saving" ELSE label = AfterSave
    BY DEF SaveBegin, AfterSave
  <1>2. pc[p] = "save" /\ pc[p] \in Working /\ label \in Working /\ config.save
    BY DEF SaveBegin, Working, TrainingIInv, ModelSaved
  <1>3. /\ Scheduled' /\ (RanksOff' <=> RanksOff) /\ ~ RanksOver /\ pc'[p] = label
        /\ \A q \in Processes \ {p} : pc'[q] = pc[q]
        /\ pc' \in [Processes -> Working \cup {"configure", "launch", "launched", "off", "done", "failed"}]
    BY <1>1, <1>2, StepScheduled
  <1>4. /\ UNCHANGED <<config, visible, checkpoint, archive, seen, uploaded, url, results>>
        /\ model' \in Contents \ {"none"}
        /\ IF IsMain(p) THEN model' = "partial" ELSE model' = model \/ model = "none"
    BY DEF SaveBegin, TrainingIInv, TrainingTypeOK, Contents
  <1>5. label = "archive" => Keeps
    BY <1>1, <1>2 DEF AfterSave, Keeps
  <1>6. TrainingTypeOK'
    BY <1>3, <1>4 DEF TrainingIInv, TrainingTypeOK, Working, results
  <1>7. ModelSaved'
    <2> SUFFICES ASSUME NEW q \in Processes
                 PROVE  /\ pc'[q] \in {"save", "saving"} => config.save
                        /\ pc'[q] \in {"archive", "archiving", "upload"} => Keeps
                        /\ IsMain(q) /\ pc'[q] \in {"archive", "archiving", "upload", "return", "done"}
                             /\ Keeps => model' = "whole"
      BY <1>4 DEF ModelSaved, Keeps
    <2>1. CASE q = p
      BY <1>1, <1>2, <1>3, <1>5, <2>1
    <2>2. CASE q # p
      <3>1. pc'[q] = pc[q]
        BY <1>3, <2>2
      <3>2. ASSUME IsMain(q), IsMain(p) PROVE pc[q] \notin {"archive", "archiving", "upload", "return", "done"}
        BY <1>2, <2>2, <3>2, WhoWorks, RankFacts DEF IsMain, TrainingIInv, RanksOff
      <3> QED
        BY <1>2, <1>4, <3>1, <3>2 DEF TrainingIInv, ModelSaved
    <2> QED
      BY <2>1, <2>2
  <1>8. ArchivePacked'
    BY <1>1, <1>2, <1>3, <1>4, RankFacts DEF TrainingIInv, ArchivePacked, IsMain
  <1>9. ResultTrue'
    BY <1>2, <1>3, <1>4, RankFacts DEF TrainingIInv, ResultTrue, Keeps, results
  <1> QED
    BY <1>3, <1>6, <1>7, <1>8, <1>9 DEF TrainingIInv

LEMMA SaveEndInv ==
    ASSUME TrainingIInv, NEW p \in Processes, SaveEnd(p)
    PROVE  TrainingIInv'
  <1>1. /\ pc[p] = "saving" /\ pc[p] \in Working \ {"return"} /\ config.save
        /\ UNCHANGED <<config, visible, checkpoint, archive, seen, uploaded, url>>
    BY DEF SaveEnd, Working, TrainingIInv, ModelSaved
  <1>2. CASE Raise(p) /\ UNCHANGED model
    BY <1>1, <1>2, RaiseKeeps
  <1>3. CASE ~ (Raise(p) /\ UNCHANGED model)
    <2>1. PICK label \in {"archive", "return"} :
              /\ Goto(p, label) /\ UNCHANGED results
              /\ label = "archive" => Keeps
              /\ \/ model' = "whole"
                 \/ model' = model /\ ~ Keeps /\ label = "return"
      <3>1. AfterSave \in {"archive", "return"} /\ (AfterSave = "archive" => Keeps)
        BY <1>1 DEF AfterSave, Keeps
      <3> QED
        BY <1>3, <3>1 DEF SaveEnd, results, Keeps
    <2>2. label \in Working
      BY DEF Working
    <2>3. /\ Scheduled' /\ (RanksOff' <=> RanksOff) /\ ~ RanksOver /\ pc'[p] = label
          /\ \A q \in Processes \ {p} : pc'[q] = pc[q]
          /\ pc' \in [Processes -> Working \cup {"configure", "launch", "launched", "off", "done", "failed"}]
      BY <1>1, <2>1, <2>2, StepScheduled
    <2>4. TrainingTypeOK'
      BY <1>1, <2>1, <2>3 DEF TrainingIInv, TrainingTypeOK, Working, results, Contents
    <2>5. ModelSaved'
      BY <1>1, <2>1, <2>3 DEF TrainingIInv, ModelSaved, Keeps
    <2>6. ArchivePacked'
      BY <1>1, <2>1, <2>3, RankFacts DEF TrainingIInv, ArchivePacked
    <2>7. ResultTrue'
      BY <1>1, <2>1, <2>3, RankFacts DEF TrainingIInv, ResultTrue, Keeps, results
    <2> QED
      BY <2>3, <2>4, <2>5, <2>6, <2>7 DEF TrainingIInv
  <1> QED
    BY <1>2, <1>3

LEMMA ArchiveBeginInv ==
    ASSUME TrainingIInv, NEW p \in Processes, ArchiveBegin(p)
    PROVE  TrainingIInv'
  <1>1. /\ pc[p] = "archive" /\ pc[p] \in Working /\ "archiving" \in Working /\ Keeps /\ model # "none"
        /\ UNCHANGED <<config, visible, checkpoint, model, uploaded, url, results>>
        /\ Goto(p, "archiving") /\ (IsMain(p) => model = "whole")
    BY DEF ArchiveBegin, Working, TrainingIInv, ModelSaved
  <1>2. /\ Scheduled' /\ (RanksOff' <=> RanksOff) /\ ~ RanksOver /\ pc'[p] = "archiving"
        /\ \A q \in Processes \ {p} : pc'[q] = pc[q]
        /\ pc' \in [Processes -> Working \cup {"configure", "launch", "launched", "off", "done", "failed"}]
    BY <1>1, StepScheduled
  <1>3. /\ archive'.content = "partial" /\ archive'.by = p
        /\ seen'[p] = model /\ \A q \in Processes \ {p} : seen'[q] = seen[q]
        /\ seen' \in [Processes -> Contents]
    BY DEF ArchiveBegin, TrainingIInv, TrainingTypeOK
  <1>4. TrainingTypeOK'
    BY <1>1, <1>2, <1>3 DEF TrainingIInv, TrainingTypeOK, Working, results, Contents
  <1>5. ModelSaved'
    BY <1>1, <1>2 DEF TrainingIInv, ModelSaved, Keeps
  <1>6. ArchivePacked'
    <2>1. p # Parent => pc'[Parent] = "launched"
      BY <1>1, <1>2, WhoWorks, RankFacts DEF TrainingIInv
    <2>2. IsMain(Parent)
      BY DEF IsMain
    <2> QED
      BY <1>1, <1>2, <1>3, <2>1, <2>2, RankFacts DEF TrainingIInv, ArchivePacked
  <1>7. ResultTrue'
    BY <1>1, <1>2, RankFacts DEF TrainingIInv, ResultTrue, Keeps, results
  <1> QED
    BY <1>2, <1>4, <1>5, <1>6, <1>7 DEF TrainingIInv

LEMMA ArchiveEndInv ==
    ASSUME TrainingIInv, NEW p \in Processes, ArchiveEnd(p)
    PROVE  TrainingIInv'
  <1>1. PICK label \in {"upload", "return"} : Goto(p, label)
    BY DEF ArchiveEnd
  <1>2. /\ pc[p] = "archiving" /\ pc[p] \in Working /\ label \in Working /\ Keeps /\ model # "none"
        /\ seen[p] # "none" /\ (IsMain(p) => model = "whole")
        /\ UNCHANGED <<config, visible, checkpoint, model, seen, uploaded, url, results>>
    BY DEF ArchiveEnd, Working, TrainingIInv, ModelSaved, ArchivePacked
  <1>3. /\ Scheduled' /\ (RanksOff' <=> RanksOff) /\ ~ RanksOver /\ pc'[p] = label
        /\ \A q \in Processes \ {p} : pc'[q] = pc[q]
        /\ pc' \in [Processes -> Working \cup {"configure", "launch", "launched", "off", "done", "failed"}]
    BY <1>1, <1>2, StepScheduled
  <1>4. archive' = IF archive.by = p THEN [archive EXCEPT !.content = seen[p]] ELSE archive
    BY DEF ArchiveEnd
  <1>5. archive'.content \in {archive.content, seen[p]} /\ archive.content # "none"
    BY <1>2, <1>4 DEF TrainingIInv, ArchivePacked
  <1>6. TrainingTypeOK'
    BY <1>2, <1>3, <1>4, <1>5 DEF TrainingIInv, TrainingTypeOK, Working, results
  <1>7. ModelSaved'
    BY <1>2, <1>3 DEF TrainingIInv, ModelSaved, Keeps
  <1>8. ArchivePacked'
    <2>1. p # Parent => pc'[Parent] = "launched"
      BY <1>2, <1>3, WhoWorks, RankFacts DEF TrainingIInv
    <2>2. p = Parent => archive'.content = "whole"
      BY <1>2, <1>4 DEF TrainingIInv, ArchivePacked
    <2> QED
      BY <1>2, <1>3, <1>5, <2>1, <2>2, RankFacts DEF TrainingIInv, ArchivePacked
  <1>9. ResultTrue'
    BY <1>2, <1>3, RankFacts DEF TrainingIInv, ResultTrue, Keeps, results
  <1> QED
    BY <1>3, <1>6, <1>7, <1>8, <1>9 DEF TrainingIInv

LEMMA UploadInv ==
    ASSUME TrainingIInv, NEW p \in Processes, Upload(p)
    PROVE  TrainingIInv'
  <1>1. /\ pc[p] = "upload" /\ pc[p] \in Working /\ "return" \in Working /\ Keeps
        /\ Goto(p, "return") /\ archive.content # "none" /\ (IsMain(p) => model = "whole")
        /\ UNCHANGED <<config, visible, checkpoint, model, archive, seen, results>>
    BY DEF Upload, Working, TrainingIInv, ModelSaved, ArchivePacked
  <1>2. /\ Scheduled' /\ (RanksOff' <=> RanksOff) /\ ~ RanksOver /\ pc'[p] = "return"
        /\ \A q \in Processes \ {p} : pc'[q] = pc[q]
        /\ pc' \in [Processes -> Working \cup {"configure", "launch", "launched", "off", "done", "failed"}]
    BY <1>1, StepScheduled
  <1>3. /\ uploaded' \in {uploaded, archive.content}
        /\ \/ uploaded' = uploaded /\ url' = url
           \/ uploaded' = archive.content /\ url'[p]
        /\ \A q \in Processes \ {p} : url'[q] = url[q]
        /\ url' \in [Processes -> BOOLEAN]
    BY DEF Upload, TrainingIInv, TrainingTypeOK
  <1>4. TrainingTypeOK'
    BY <1>1, <1>2, <1>3 DEF TrainingIInv, TrainingTypeOK, Working, results
  <1>5. ModelSaved'
    BY <1>1, <1>2 DEF TrainingIInv, ModelSaved, Keeps
  <1>6. ArchivePacked'
    <2>1. CASE p = Parent
      <3>1. RanksOff /\ archive.content = "whole"
        BY <1>1, <2>1, WhoWorks, RankFacts DEF TrainingIInv, ArchivePacked
      <3>2. url'[Parent] => uploaded' = "whole"
        BY <1>3, <2>1, <3>1 DEF TrainingIInv, ArchivePacked
      <3> QED
        BY <1>1, <1>2, <1>3, <2>1, <3>1, <3>2, RankFacts DEF TrainingIInv, ArchivePacked
    <2>2. CASE p # Parent
      <3>1. pc'[Parent] = "launched" /\ ~ url[Parent] /\ ~ url'[Parent]
        BY <1>1, <1>2, <1>3, <2>2, WhoWorks, RankFacts DEF TrainingIInv, ArchivePacked
      <3> QED
        BY <1>1, <1>2, <1>3, <2>2, <3>1, RankFacts DEF TrainingIInv, ArchivePacked
    <2> QED
      BY <2>1, <2>2
  <1>7. ResultTrue'
    <2>1. ~ outcome.url /\ ~ outcome.ok /\ ~ outcome.saved
      BY <1>1, WhoWorks, RankFacts DEF TrainingIInv, ResultTrue
    <2> QED
      BY <1>1, <1>2, <1>3, <2>1, RankFacts DEF TrainingIInv, ResultTrue, Keeps, results
  <1> QED
    BY <1>2, <1>4, <1>5, <1>6, <1>7 DEF TrainingIInv

LEMMA ReturnInv ==
    ASSUME TrainingIInv, NEW p \in Processes, Return(p)
    PROVE  TrainingIInv'
  <1>1. /\ pc[p] = "return" /\ pc[p] \in Working /\ Goto(p, "done") /\ document' = Payload(p)
        /\ outcome' = IF p = Parent THEN Payload(p) ELSE outcome
        /\ UNCHANGED <<config, visible, checkpoint, model, archive, seen, uploaded, url>>
    BY DEF Return, Working, files
  <1>2. /\ Scheduled' /\ (RanksOff' <=> RanksOff) /\ ~ RanksOver /\ pc'[p] = "done"
        /\ \A q \in Processes \ {p} : pc'[q] = pc[q]
        /\ pc' \in [Processes -> Working \cup {"configure", "launch", "launched", "off", "done", "failed"}]
    BY <1>1, StepScheduled
  <1>3. /\ Payload(p) \in [ok : BOOLEAN, url : BOOLEAN, saved : BOOLEAN]
        /\ Payload(p).url = url[p] /\ Payload(p).saved = Keeps /\ Payload(p).ok
    BY PayloadTyped DEF TrainingIInv
  <1>4. TrainingTypeOK'
    BY <1>1, <1>2, <1>3 DEF TrainingIInv, TrainingTypeOK, Working
  <1>5. ModelSaved'
    BY <1>1, <1>2 DEF TrainingIInv, ModelSaved, Keeps
  <1>6. ArchivePacked'
    BY <1>1, <1>2, RankFacts DEF TrainingIInv, ArchivePacked
  <1>7. ResultTrue'
    <2>1. p # Parent => ~ outcome.url /\ ~ outcome.ok /\ ~ outcome.saved
      BY <1>1, WhoWorks, RankFacts DEF TrainingIInv, ResultTrue
    <2> QED
      BY <1>1, <1>2, <1>3, <2>1, RankFacts DEF TrainingIInv, ArchivePacked, ResultTrue, Keeps
  <1> QED
    BY <1>2, <1>4, <1>5, <1>6, <1>7 DEF TrainingIInv

(* The steps that change no file and write no document keep everything.    *)
LEMMA BeforeSaveInv ==
    ASSUME TrainingIInv, NEW p \in Processes,
           Resume(p) \/ Unpack(p) \/ LoadCheckpoint(p)
              \/ TrainSFT(p) \/ TrainLora(p) \/ TrainDPO(p) \/ TrainPPO(p)
    PROVE  TrainingIInv'
  <1>1. CASE Resume(p)
    BY <1>1, QuietStep DEF Resume, Contents, TrainingIInv, TrainingTypeOK
  <1>2. CASE Unpack(p)
    <2>1. CASE Raise(p) /\ UNCHANGED checkpoint
      BY <1>2, <2>1, RaiseKeeps DEF Unpack, Working
    <2>2. CASE ~ (Raise(p) /\ UNCHANGED checkpoint)
      BY <1>2, <2>2, QuietStep DEF Unpack, Contents
    <2> QED
      BY <2>1, <2>2
  <1>3. CASE LoadCheckpoint(p)
    <2>1. CASE Raise(p)
      BY <1>3, <2>1, RaiseKeeps DEF LoadCheckpoint, Working, files
    <2>2. CASE ~ Raise(p)
      BY <1>3, <2>2, QuietStep DEF LoadCheckpoint, files, TrainingIInv, TrainingTypeOK
    <2> QED
      BY <2>1, <2>2
  <1>4. CASE TrainSFT(p) \/ TrainLora(p) \/ TrainDPO(p) \/ TrainPPO(p)
    <2>1. /\ pc[p] = "train" /\ UNCHANGED <<config, visible, files>>
          /\ \/ Goto(p, IF config.save THEN "save" ELSE "return") /\ UNCHANGED results
             \/ Raise(p)
      BY <1>4 DEF TrainSFT, TrainLora, TrainDPO, TrainPPO, TrainWith
    <2>2. CASE Raise(p)
      BY <2>1, <2>2, RaiseKeeps DEF Working, files
    <2>3. CASE ~ Raise(p)
      <3>1. PICK label \in {"save", "return"} :
                /\ Goto(p, label) /\ (label = "save" => config.save)
                /\ (label = "return" => ~ config.save)
        BY <2>1, <2>3
      <3> QED
        BY <2>1, <2>3, <3>1, QuietStep DEF files, TrainingIInv, TrainingTypeOK
    <2> QED
      BY <2>2, <2>3
  <1> QED
    BY <1>1, <1>2, <1>3, <1>4

(* The parent configures its devices and launches the ranks, or not.       *)
LEMMA LaunchInv ==
    ASSUME TrainingIInv, ConfigureDevices \/ LaunchRanks
    PROVE  TrainingIInv'
  <1>1. /\ pc[Parent] \in {"configure", "launch"} /\ RanksOff
        /\ UNCHANGED <<config, files, results>>
        /\ visible' \in 1 .. NumRanks
    <2>1. VisibleAfter \in 1 .. NumRanks
      <3>1. /\ config.devices \in {0, 1, NumRanks} /\ visible \in 1 .. NumRanks
            /\ 1 \in 1 .. NumRanks /\ NumRanks \in 1 .. NumRanks
        BY TrainingAssumption DEF TrainingIInv, TrainingTypeOK, Configs
      <3> QED
        BY <3>1 DEF VisibleAfter
    <2> QED
      BY <2>1 DEF ConfigureDevices, LaunchRanks, TrainingIInv, Scheduled, TrainingTypeOK
  <1>2. ~ outcome.ok /\ ~ outcome.url /\ ~ outcome.saved /\ ~ url[Parent]
    BY <1>1 DEF TrainingIInv, ResultTrue, ArchivePacked
  <1>3. \/ /\ \A r \in Ranks : pc'[r] = "off"
           /\ pc'[Parent] \in {"launch", "resume"}
        \/ /\ \A r \in Ranks : pc'[r] = "resume"
           /\ pc'[Parent] = "launched"
    BY <1>1, RankFacts DEF ConfigureDevices, LaunchRanks, Goto, TrainingIInv, TrainingTypeOK, RanksOff
  <1>4. TrainingTypeOK'
    BY <1>1, RankFacts DEF ConfigureDevices, LaunchRanks, Goto, TrainingIInv, TrainingTypeOK, files, results
  <1>5. Scheduled'
    BY <1>3 DEF Scheduled, RanksOff, Working
  <1>6. ModelSaved'
    BY <1>3, RankFacts DEF ModelSaved
  <1>7. ArchivePacked'
    BY <1>1, <1>2, <1>3, RankFacts DEF TrainingIInv, ArchivePacked, files
  <1>8. ResultTrue'
    BY <1>1, <1>2 DEF TrainingIInv, ResultTrue, Keeps, files, results
  <1> QED
    BY <1>4, <1>5, <1>6, <1>7, <1>8 DEF TrainingIInv

(* The ranks are over: their document is the result, with the model that   *)
(* the first of them has saved.                                            *)
LEMMA LaunchReturnsInv ==
    ASSUME TrainingIInv, LaunchReturns
    PROVE  TrainingIInv'
  <1>1. /\ RanksOver /\ Goto(Parent, "done") /\ outcome' = document
        /\ pc[Parent] = "launched"
        /\ UNCHANGED <<config, visible, files, document>>
    BY DEF LaunchReturns
  <1>2. /\ pc'[Parent] = "done" /\ \A r \in Ranks : pc'[r] = "done" /\ pc[r] = "done"
        /\ pc' \in [Processes -> Working \cup {"configure", "launch", "launched", "off", "done", "failed"}]
    BY <1>1, RankFacts DEF Goto, RanksOver, TrainingIInv, TrainingTypeOK, Working
  <1>3. RanksOver'
    BY <1>2 DEF RanksOver
  <1>4. TrainingTypeOK'
    BY <1>1, <1>2 DEF TrainingIInv, TrainingTypeOK, files, Working
  <1>5. Scheduled'
    BY <1>2, <1>3 DEF Scheduled, Working
  <1>6. ModelSaved'
    BY <1>1, <1>2, RankFacts DEF TrainingIInv, ModelSaved, Keeps, IsMain, files
  <1>7. ArchivePacked'
    BY <1>1, <1>2, RankFacts DEF TrainingIInv, ArchivePacked, files
  <1>8. ResultTrue'
    BY <1>1, <1>2, <1>3 DEF TrainingIInv, ResultTrue, Keeps, files
  <1> QED
    BY <1>4, <1>5, <1>6, <1>7, <1>8 DEF TrainingIInv

(* A rank failed: the parent trains by itself, in the same directory.      *)
LEMMA LaunchFailsInv ==
    ASSUME TrainingIInv, LaunchFails
    PROVE  TrainingIInv'
  <1>1. /\ pc'[Parent] = "resume" /\ \A r \in Ranks : pc'[r] = "off"
        /\ pc[Parent] = "launched"
        /\ UNCHANGED <<config, visible, files, results>>
        /\ pc' \in [Processes -> Working \cup {"configure", "launch", "launched", "off", "done", "failed"}]
    BY RankFacts DEF LaunchFails, Working
  <1>2. TrainingTypeOK'
    BY <1>1 DEF TrainingIInv, TrainingTypeOK, files, results, Working
  <1>3. Scheduled'
    BY <1>1 DEF Scheduled, RanksOff, Working
  <1>4. ModelSaved'
    BY <1>1, RankFacts DEF ModelSaved
  <1>5. ArchivePacked'
    BY <1>1, RankFacts DEF TrainingIInv, ArchivePacked, files
  <1>6. ResultTrue'
    BY <1>1 DEF TrainingIInv, ResultTrue, Keeps, files, results
  <1> QED
    BY <1>2, <1>3, <1>4, <1>5, <1>6 DEF TrainingIInv

LEMMA TrainingUnchanged ==
    ASSUME TrainingIInv, UNCHANGED trainingVars
    PROVE  TrainingIInv'
  BY DEF trainingVars, TrainingIInv, TrainingTypeOK, Scheduled, ModelSaved, ArchivePacked, ResultTrue,
     RanksOff, RanksOver, Keeps

LEMMA TrainingMeansSound == TrainingIInv => TrainingInv
  <1> SUFFICES ASSUME TrainingIInv PROVE TrainingInv
    OBVIOUS
  <1>1. outcome.ok /\ outcome.saved => model = "whole"
    BY RankFacts DEF TrainingIInv, ResultTrue, ModelSaved, IsMain
  <1>2. outcome.url => uploaded # "none" /\ (RanksOver \/ uploaded = "whole")
    BY DEF TrainingIInv, ResultTrue
  <1> QED
    BY <1>1, <1>2 DEF TrainingIInv, TrainingInv, SuccessHasModel, UrlMeansUploaded, AloneUploadsWhole

(* Whatever the number of GPUs, whichever rank writes the result, and also  *)
(* after a launch that failed halfway (sft_executor.py:134): the model that *)
(* a result names is whole, a URL means that an upload was accepted, and a  *)
(* process that trains alone has uploaded the whole model.                 *)
THEOREM TrainingCorrect == TrainingSpec => []TrainingInv
  <1>1. TrainingIInv /\ [TrainingNext]_trainingVars => TrainingIInv'
    <2> SUFFICES ASSUME TrainingIInv, [TrainingNext]_trainingVars PROVE TrainingIInv'
      OBVIOUS
    <2>1. ASSUME NEW p \in Processes, ProcessStep(p) PROVE TrainingIInv'
      BY <2>1, BeforeSaveInv, SaveBeginInv, SaveEndInv, ArchiveBeginInv, ArchiveEndInv, UploadInv,
         ReturnInv DEF ProcessStep
    <2> QED
      BY <2>1, LaunchInv, LaunchReturnsInv, LaunchFailsInv, TrainingUnchanged DEF TrainingNext
  <1> QED
    BY <1>1, TrainingInitInv, TrainingMeansSound, PTL DEF TrainingSpec

-----------------------------------------------------------------------------
(***************************************************************************)
(* For any number of prompts and subtasks, the reader of an agent's events *)
(* and the loop that produces them stay together, and a document that says *)
(* ok says of every prompt how its loop ended.                             *)
(***************************************************************************)

(* What the executor has recorded of prompt i is how its loop ended, and   *)
(* whether its answer was written.                                         *)
Decided(i) == /\ answers[i] # "none"
              /\ (answers[i] = "completed") = (loop[i] = "done" /\ i \notin unwritten)

(* The prompts are taken in turn: those before the present one are settled *)
(* and the loops of those after it have not begun.                         *)
InTurn ==
    /\ runPhase \notin {"prepare", "raised"} => prompts \in Prompts /\ item <= prompts
    /\ \A i \in Prompts : i < item => Decided(i)
    /\ \A i \in Prompts : i > item => loop[i] = "none"
    /\ \A i \in unwritten : i <= item
    /\ runPhase \in {"prepare", "build", "start", "reading", "await"} => item \notin unwritten
    /\ runPhase \in {"prepare", "build", "start"} => loop[item] = "none"
    /\ runPhase = "prepare" => item = 1
    /\ runPhase \in {"cleanup", "returned"} => \A i \in 1 .. prompts : Decided(i)
    /\ response = "ok" => runPhase = "returned"
    /\ stage = "work" => todo > 0

AgentIInv == AgentTypeOK /\ StreamOutlastsLoop /\ InTurn

LEMMA AgentInitInv == AgentInit => AgentIInv
  <1> SUFFICES ASSUME AgentInit PROVE AgentIInv
    OBVIOUS
  <1>1. 1 \in Prompts /\ \A i \in Prompts : ~ i < 1
    BY AgentAssumption DEF Prompts
  <1>2. AgentTypeOK
    <2>1. 0 \in 0 .. MaxPrompts /\ 0 \in 0 .. MaxSubtasks
      BY AgentAssumption
    <2>2. /\ loop \in [Prompts -> {"none", "running", "done", "failed"}]
          /\ answers \in [Prompts -> {"none", "completed", "failed"}]
      BY DEF AgentInit
    <2> QED
      BY <1>1, <2>1, <2>2 DEF AgentInit, AgentTypeOK
  <1>3. StreamOutlastsLoop
    BY DEF AgentInit, StreamOutlastsLoop
  <1>4. InTurn
    BY <1>1 DEF AgentInit, InTurn
  <1> QED
    BY <1>2, <1>3, <1>4 DEF AgentIInv

(* A step of the background loop touches the present prompt's loop only.   *)
LEMMA LoopStepInv ==
    ASSUME AgentIInv, LoopProgress \/ OrchestraPassEvent \/ SimpleEvent
    PROVE  AgentIInv'
  <1>1. /\ UNCHANGED <<setting, runPhase, item, answers, response>>
        /\ loop[item] = "running"
        /\ \E end \in {"running", "done", "failed"} : loop' = [loop EXCEPT ![item] = end]
    <2>1. loop = [loop EXCEPT ![item] = loop[item]]
      BY DEF AgentIInv, AgentTypeOK
    <2> QED
      BY <2>1 DEF LoopProgress, OrchestraPassEvent, SimpleEvent, OrchestraPlan, OrchestraSubtaskDone,
         OrchestraReport, OrchestraFails, SimpleLoopEnds, Running, loopVars
  <1>2. runPhase = "reading"
    BY <1>1 DEF AgentIInv, AgentTypeOK, StreamOutlastsLoop
  <1>3. /\ stage' \in {"plan", "work", "report"} /\ todo' \in 0 .. MaxSubtasks
        /\ stage' = "work" => todo' > 0
    <2>1. CASE UNCHANGED loopVars
      BY <2>1 DEF loopVars, AgentIInv, AgentTypeOK, InTurn
    <2>2. CASE OrchestraPlan
      BY <2>2, AgentAssumption DEF OrchestraPlan
    <2>3. CASE OrchestraSubtaskDone
      BY <2>3, AgentAssumption DEF OrchestraSubtaskDone, AgentIInv, AgentTypeOK, InTurn
    <2> QED
      BY <2>1, <2>2, <2>3 DEF LoopProgress, OrchestraPassEvent, SimpleEvent, OrchestraReport,
         OrchestraFails, SimpleLoopEnds
  <1>4. unread' \in BOOLEAN /\ waits' \in BOOLEAN /\ unwritten' = unwritten
    BY DEF LoopProgress, OrchestraPassEvent, SimpleEvent, OrchestraPlan, OrchestraSubtaskDone,
       OrchestraReport, OrchestraFails, SimpleLoopEnds, AgentIInv, AgentTypeOK
  <1>5. AgentTypeOK'
    BY <1>1, <1>3, <1>4 DEF AgentIInv, AgentTypeOK, setting
  <1>6. StreamOutlastsLoop'
    BY <1>1, <1>2 DEF AgentIInv, AgentTypeOK, StreamOutlastsLoop
  <1>7. item \in Prompts /\ \A i \in Prompts : i # item => loop'[i] = loop[i]
    BY <1>1 DEF AgentIInv, AgentTypeOK
  <1>8. InTurn'
    BY <1>1, <1>2, <1>3, <1>4, <1>7, AgentAssumption
    DEF AgentIInv, AgentTypeOK, InTurn, Decided, setting, Prompts
  <1> QED
    BY <1>5, <1>6, <1>8 DEF AgentIInv

(* What ItemOver records is how the prompt's loop ended, and the next       *)
(* prompt or the end follows.                                              *)
LEMMA ItemOverInv ==
    ASSUME AgentIInv, NEW outcomeOf \in {"completed", "failed"}, ItemOver(outcomeOf),
           runPhase \in {"start", "await"}, loop[item] # "running",
           unwritten' \in {unwritten, unwritten \cup {item}},
           (outcomeOf = "completed") = (loop[item] = "done" /\ item \notin unwritten'),
           UNCHANGED <<setting, loop, todo, stage>>,
           response' \in {"none", "failed"}, unread' \in BOOLEAN, waits' \in BOOLEAN
    PROVE  AgentIInv'
  <1>1. item \in Nat /\ prompts \in Nat /\ item \in Prompts /\ prompts \in Prompts /\ item <= prompts
    BY AgentAssumption DEF AgentIInv, AgentTypeOK, InTurn, Prompts
  <1>2. /\ \A i \in Prompts : i # item => answers'[i] = answers[i]
        /\ answers'[item] = outcomeOf /\ answers' \in [Prompts -> {"none", "completed", "failed"}]
    BY <1>1 DEF ItemOver, AgentIInv, AgentTypeOK
  <1>3. \A i \in Prompts : i <= item => Decided(i)'
    BY <1>1, <1>2, AgentAssumption DEF Decided, AgentIInv, InTurn, Prompts
  <1>4. /\ item' \in Prompts /\ item' <= prompts
        /\ runPhase' \in {"start", "cleanup", "raised"}
        /\ runPhase' = "start" => item' = item + 1
        /\ runPhase' # "start" => item' = item
        /\ runPhase' = "cleanup" => item = prompts
    BY <1>1, AgentAssumption DEF ItemOver, Batch, Prompts
  <1>5. AgentTypeOK'
    BY <1>2, <1>4 DEF AgentIInv, AgentTypeOK, setting
  <1>6. StreamOutlastsLoop'
    BY DEF AgentIInv, StreamOutlastsLoop
  <1>7. \A i \in Prompts : i < item' => Decided(i)'
    BY <1>1, <1>3, <1>4, AgentAssumption DEF Prompts
  <1>8. \A i \in Prompts : i > item => loop'[i] = "none"
    BY DEF AgentIInv, InTurn
  <1>9. runPhase' = "cleanup" => \A i \in 1 .. prompts' : Decided(i)'
    BY <1>1, <1>3, <1>4, AgentAssumption DEF setting, Prompts
  <1>10. response' # "ok" /\ (stage' = "work" => todo' > 0)
    BY DEF AgentIInv, InTurn
  <1>12. \A i \in unwritten' : i \in Nat /\ i <= item /\ i <= item'
    BY <1>1, <1>4, AgentAssumption DEF AgentIInv, AgentTypeOK, InTurn, Prompts
  <1>13. runPhase' = "start" => item' \notin unwritten' /\ loop'[item'] = "none"
    BY <1>1, <1>4, <1>8, <1>12
  <1>11. InTurn'
    BY <1>1, <1>4, <1>7, <1>8, <1>9, <1>10, <1>12, <1>13, AgentAssumption DEF InTurn, setting, Prompts
  <1> QED
    BY <1>5, <1>6, <1>11 DEF AgentIInv

LEMMA ExecutorStepInv ==
    ASSUME AgentIInv, ExecutorStep
    PROVE  AgentIInv'
  <1>1. CASE PrepareData
    BY <1>1, AgentAssumption DEF PrepareData, AgentIInv, AgentTypeOK, StreamOutlastsLoop, InTurn,
       Decided, Prompts, loopVars
  <1>2. CASE BuildSingle \/ BuildBatch
    <2>1. /\ runPhase = "build" /\ runPhase' \in {"start", "raised"}
          /\ response' \in {"none", "failed"}
          /\ UNCHANGED <<setting, item, loop, stage, todo, unread, waits, answers, unwritten>>
      BY <1>2 DEF BuildSingle, BuildBatch, loopVars, AgentIInv, AgentTypeOK, InTurn
    <2>2. AgentTypeOK' /\ StreamOutlastsLoop'
      BY <2>1 DEF AgentIInv, AgentTypeOK, StreamOutlastsLoop, setting
    <2>3. InTurn'
      BY <2>1 DEF AgentIInv, InTurn, Decided, setting
    <2> QED
      BY <2>2, <2>3 DEF AgentIInv
  <1>3. CASE RunStreamed
    <2>1. CASE agent = "workforce"
      BY <1>3, <2>1, ItemOverInv DEF RunStreamed, AgentIInv, AgentTypeOK, InTurn
    <2>2. CASE agent # "workforce"
      <3>1. /\ loop' = [loop EXCEPT ![item] = "running"] /\ runPhase = "start"
            /\ runPhase' = "reading" /\ stage' = "plan"
            /\ UNCHANGED <<setting, todo, response, item, answers, unwritten>>
            /\ unread' = FALSE /\ waits' = FALSE
        BY <1>3, <2>2 DEF RunStreamed, ItemOver
      <3>2. item \in Prompts /\ item \in Nat /\ \A i \in Prompts : i # item => loop'[i] = loop[i]
        BY <3>1, AgentAssumption DEF AgentIInv, AgentTypeOK, Prompts
      <3>3. AgentTypeOK'
        BY <3>1 DEF AgentIInv, AgentTypeOK, setting
      <3>4. StreamOutlastsLoop'
        BY <3>1, <3>2 DEF AgentIInv, StreamOutlastsLoop
      <3>5. InTurn'
        BY <3>1, <3>2, AgentAssumption DEF AgentIInv, AgentTypeOK, InTurn, Decided, setting, Prompts
      <3> QED
        BY <3>3, <3>4, <3>5 DEF AgentIInv
    <2> QED
      BY <2>1, <2>2
  <1>4. CASE ReadEvents
    BY <1>4, AgentAssumption DEF ReadEvents, StreamOver, AgentIInv, AgentTypeOK, StreamOutlastsLoop,
       InTurn, Decided, Prompts, loopVars, setting
  <1>5. CASE AwaitLoop \/ OutputWriteRaises
    <2>1. /\ runPhase = "await" /\ loop[item] # "running" /\ item \notin unwritten
          /\ UNCHANGED <<setting, loop, todo, stage, unread, waits>>
      BY <1>5 DEF AwaitLoop, OutputWriteRaises, loopVars, AgentIInv, InTurn
    <2>2. PICK outcomeOf \in {"completed", "failed"} :
            /\ ItemOver(outcomeOf)
            /\ (outcomeOf = "completed") = (loop[item] = "done" /\ item \notin unwritten')
            /\ unwritten' \in {unwritten, unwritten \cup {item}}
      BY <1>5, <2>1 DEF AwaitLoop, OutputWriteRaises
    <2>3. unread' \in BOOLEAN /\ waits' \in BOOLEAN
      BY <2>1 DEF AgentIInv, AgentTypeOK
    <2>4. response' \in {"none", "failed"}
      BY <1>5, <2>1 DEF AwaitLoop, OutputWriteRaises, AgentIInv, AgentTypeOK, InTurn
    <2> QED
      BY <2>1, <2>2, <2>3, <2>4, ItemOverInv
  <1>6. CASE CleanUp \/ DocumentWriteRaises
    <2>1. /\ runPhase = "cleanup" /\ runPhase' \in {"returned", "raised"}
          /\ response' \in {"none", "ok", "failed"} /\ (response' = "ok" => runPhase' = "returned")
          /\ UNCHANGED <<setting, item, loop, stage, todo, unread, waits, answers, unwritten>>
      BY <1>6 DEF CleanUp, DocumentWriteRaises, loopVars
    <2>2. AgentTypeOK' /\ StreamOutlastsLoop'
      BY <2>1 DEF AgentIInv, AgentTypeOK, StreamOutlastsLoop, setting
    <2>3. InTurn'
      BY <2>1 DEF AgentIInv, InTurn, Decided, setting
    <2> QED
      BY <2>2, <2>3 DEF AgentIInv
  <1> QED
    BY <1>1, <1>2, <1>3, <1>4, <1>5, <1>6 DEF ExecutorStep

(* The executor's reader leaves an agent's stream only when the agent's    *)
(* loop has ended (agent_executor.py:298), no loop runs on beside the      *)
(* next, and responses.json gives every prompt the end its loop had, but   *)
(* for those whose answer could not be written to its file                 *)
(* (agent_executor.py:507): they are marked as failed.                     *)
THEOREM AgentCorrect == AgentSpec => []AgentInv
  <1>1. AgentIInv /\ [AgentNext]_agentVars => AgentIInv'
    <2> SUFFICES ASSUME AgentIInv, [AgentNext]_agentVars PROVE AgentIInv'
      OBVIOUS
    <2>1. CASE AgentNext
      BY <2>1, LoopStepInv, ExecutorStepInv DEF AgentNext
    <2>2. CASE UNCHANGED agentVars
      BY <2>2 DEF agentVars, AgentIInv, AgentTypeOK, StreamOutlastsLoop, InTurn, Decided
    <2> QED
      BY <2>1, <2>2
  <1>2. AgentIInv => AgentInv
    <2> SUFFICES ASSUME AgentIInv, response = "ok", NEW i \in 1 .. prompts
                 PROVE  /\ answers[i] # "none"
                        /\ (answers[i] = "completed") = (loop[i] = "done" /\ i \notin unwritten)
      BY DEF AgentIInv, AgentInv, ItemsAnswered
    <2> QED
      BY DEF AgentIInv, InTurn, Decided
  <1> QED
    BY <1>1, <1>2, AgentInitInv, PTL DEF AgentSpec

-----------------------------------------------------------------------------
(***************************************************************************)
(* WorkforcePlan.  For plans of any length, updated any number of times:   *)
(* no subtask is executed twice, and the executor never works behind an    *)
(* open one.                                                               *)
(***************************************************************************)

(* An object that was never executed is open, and so is one that no plan   *)
(* has had yet.  A subtask's number is never beyond its position: the part *)
(* of the plan that an update keeps ends with the subtask at hand, or      *)
(* before it, where nothing is open.                                       *)
NotBegun == \A o \in Objects :
    /\ status[o] = "not_started" <=> executed[o] = 0
    /\ o > created => status[o] = "not_started"
    /\ taskId[o] <= created
NumbersLag == \A k \in DOMAIN plan : plan[k] <= created /\ taskId[plan[k]] <= k
CreatedFits == created <= PlanLength * (updates + 1)
NothingOpenBefore(k) == \A j \in DOMAIN plan : j < k => status[plan[j]] # "not_started"
AtHand == \E k \in DOMAIN plan : plan[k] = subtask /\ NothingOpenBefore(k)
InPhase ==
    /\ step = "plan" => plan = <<>> /\ created = 0 /\ updates = 0
    /\ step \in {"assign", "update"} => HasUncompleted
    /\ step \in {"execute", "try", "tried", "check", "update"} => AtHand
    /\ step = "execute" => status[subtask] = "not_started"
    /\ step \in {"try", "tried", "check", "update"} => status[subtask] # "not_started"
    /\ step = "try" => tries <= MaxTries

WorkforceIInv ==
    /\ WorkforceTypeOK /\ ExecutedOnce /\ SettledPrefix
    /\ NotBegun /\ NumbersLag /\ CreatedFits /\ InPhase

(* A set of natural numbers has a least element.                           *)
LEMMA LeastOf ==
    ASSUME NEW S, S \subseteq Nat, S # {}
    PROVE  \E k \in S : \A j \in S : k <= j
  <1>1. PICK k \in S : \A j \in S : ~ (<<j, k>> \in OpToRel(<, Nat))
    BY NatLessThanWellFounded, WFMin
  <1>2. \A j \in S : ~ (j < k)
    BY <1>1, Zenon DEF OpToRel
  <1>3. \A j \in S : k <= j
    BY ONLY <1>2, S \subseteq Nat, k \in S
  <1> QED
    BY ONLY <1>3, k \in S

LEMMA Objects1 ==
    /\ PlanLength \in Nat \ {0} /\ MaxUpdates \in Nat /\ MaxTries \in Nat \ {0}
    /\ MaxObjects \in Nat /\ PlanLength <= MaxObjects
    /\ Objects = 1 .. MaxObjects
  <1>1. PlanLength \in Nat \ {0} /\ MaxUpdates \in Nat /\ MaxTries \in Nat \ {0}
    BY WorkforceAssumption
  <1>2. \A a, b \in Nat : a * (b + 1) \in Nat /\ a <= a * (b + 1)
    <2>1. \A a, b \in Nat : a * b \in Nat /\ a * (b + 1) = a * b + a
      OBVIOUS
    <2> QED
      BY <2>1
  <1>3. MaxObjects \in Nat /\ PlanLength <= MaxObjects
    BY <1>1, <1>2 DEF MaxObjects
  <1> QED
    BY <1>1, <1>3 DEF Objects

LEMMA RoomLeft ==
    ASSUME NEW c \in Nat, NEW u \in Nat, NEW n \in 1 .. PlanLength,
           c <= PlanLength * (u + 1), u < MaxUpdates
    PROVE  /\ c + n <= PlanLength * (u + 2)
           /\ c + n <= MaxObjects
  <1>1. PlanLength \in Nat /\ MaxUpdates \in Nat
    BY Objects1
  <1>2. \A a, b \in Nat : a * (b + 2) = a * (b + 1) + a
    OBVIOUS
  <1>3. \A a, b, d \in Nat : b <= d => a * b <= a * d
    <2> SUFFICES ASSUME NEW a \in Nat, NEW b \in Nat, NEW d \in Nat, b <= d PROVE a * b <= a * d
      OBVIOUS
    <2>1. PICK e \in Nat : d = b + e
      <3>1. d - b \in Nat /\ d = b + (d - b)
        OBVIOUS
      <3> QED
        BY <3>1
    <2>2. a * d = a * b + a * e /\ a * e \in Nat /\ a * b \in Nat
      BY <2>1
    <2> QED
      BY <2>2
  <1>4. PlanLength * (u + 2) <= MaxObjects
    <2>1. u + 2 \in Nat /\ MaxUpdates + 1 \in Nat /\ u + 2 <= MaxUpdates + 1
      BY <1>1
    <2> QED
      BY <1>1, <1>3, <2>1 DEF MaxObjects
  <1>5. /\ PlanLength * (u + 2) = PlanLength * (u + 1) + PlanLength
        /\ PlanLength * (u + 1) \in Nat /\ PlanLength * (u + 2) \in Nat
        /\ MaxObjects \in Nat
    BY <1>1, <1>2, Objects1
  <1> QED
    BY <1>1, <1>4, <1>5

(* The shape of a plan, and of the functions on objects.                   *)
LEMMA PlanShape ==
    ASSUME WorkforceTypeOK
    PROVE  /\ Len(plan) \in Nat /\ DOMAIN plan = 1 .. Len(plan)
           /\ \A k \in DOMAIN plan : k \in Nat /\ plan[k] \in Objects
           /\ \A j, k \in DOMAIN plan : plan[j] = plan[k] => j = k
           /\ \A o \in Objects : o \in Nat /\ taskId[o] \in Nat /\ executed[o] \in Nat
           /\ created \in Nat /\ updates \in Nat /\ subtask \in Objects
  <1>1. plan \in Seq(Objects)
    BY DEF WorkforceTypeOK
  <1>2. Len(plan) \in Nat /\ DOMAIN plan = 1 .. Len(plan)
    BY <1>1
  <1>3. \A k \in DOMAIN plan : k \in Nat /\ plan[k] \in Objects
    BY <1>1, <1>2
  <1>4. \A j, k \in DOMAIN plan : plan[j] = plan[k] => j = k
    BY DEF WorkforceTypeOK, IsInjective
  <1>5. \A o \in Objects : o \in Nat
    BY Objects1
  <1>6. \A o \in Objects : taskId[o] \in 0 .. MaxObjects /\ executed[o] \in Nat
    BY DEF WorkforceTypeOK
  <1>7. \A o \in Objects : taskId[o] \in Nat
    BY <1>6, Objects1
  <1>8. created \in 0 .. MaxObjects /\ updates \in 0 .. MaxUpdates /\ subtask \in Objects
    BY DEF WorkforceTypeOK
  <1>9. created \in Nat /\ updates \in Nat
    BY <1>8, Objects1
  <1> QED
    BY <1>2, <1>3, <1>4, <1>5, <1>6, <1>7, <1>8, <1>9

LEMMA WorkforceInitInv == WorkforceInit => WorkforceIInv
  <1> SUFFICES ASSUME WorkforceInit PROVE WorkforceIInv
    OBVIOUS
  <1>1. /\ plan = <<>> /\ created = 0 /\ subtask = 1 /\ updates = 0 /\ step = "plan"
        /\ tries = 1 /\ answered = FALSE
        /\ taskId = [o \in Objects |-> 0] /\ status = [o \in Objects |-> "not_started"]
        /\ executed = [o \in Objects |-> 0]
    BY DEF WorkforceInit
  <1>2. WorkforceTypeOK
    <2>1. plan \in Seq(Objects) /\ IsInjective(plan)
      BY <1>1 DEF IsInjective
    <2>2. 0 \in 0 .. MaxObjects /\ 1 \in Objects /\ 1 \in 1 .. MaxTries + 1 /\ 0 \in 0 .. MaxUpdates
      BY Objects1
    <2>3. "not_started" \in Statuses
      BY DEF Statuses
    <2> QED
      BY <1>1, <2>1, <2>2, <2>3 DEF WorkforceTypeOK
  <1>3. CreatedFits
    <2>1. \A a \in Nat : a * (0 + 1) = a /\ 0 <= a
      OBVIOUS
    <2> QED
      BY <1>1, <2>1, Objects1 DEF CreatedFits
  <1>4. NotBegun /\ ExecutedOnce
    BY <1>1 DEF NotBegun, ExecutedOnce
  <1>5. DOMAIN plan = {}
    BY <1>1
  <1>6. SettledPrefix /\ NumbersLag /\ InPhase
    BY <1>1, <1>5 DEF SettledPrefix, NumbersLag, InPhase
  <1> QED
    BY <1>2, <1>3, <1>4, <1>6 DEF WorkforceIInv

(* Steps that leave the plan and the objects alone.                        *)
LEMMA SamePlan ==
    ASSUME WorkforceIInv, UNCHANGED <<plan, objectVars, updates>>, WorkforceTypeOK', InPhase'
    PROVE  WorkforceIInv'
  BY DEF WorkforceIInv, objectVars, ExecutedOnce, SettledPrefix, NotBegun, NumbersLag, CreatedFits

LEMMA FreshObjects ==
    ASSUME NEW c \in Nat, NEW n \in Nat, c + n <= MaxObjects, c = created
    PROVE  /\ Fresh(n) \in Seq(Objects) /\ Len(Fresh(n)) = n
           /\ \A k \in 1 .. n : Fresh(n)[k] = c + k /\ c + k \in Objects
  <1>1. \A k \in 1 .. n : c + k \in Objects
    BY Objects1
  <1> QED
    BY <1>1 DEF Fresh

LEMMA PlanTaskInv == WorkforceIInv /\ PlanTask => WorkforceIInv'
  <1> SUFFICES ASSUME WorkforceIInv, PlanTask PROVE WorkforceIInv'
    OBVIOUS
  <1>1. PICK n \in 0 .. PlanLength :
            /\ plan' = Fresh(n) /\ created' = n
            /\ taskId' = [o \in Objects |-> IF o <= n THEN o ELSE 0]
            /\ step' = IF n = 0 THEN "answer" ELSE "assign"
    BY DEF PlanTask
  <1>2. /\ step = "plan" /\ created = 0 /\ updates = 0
        /\ UNCHANGED <<status, subtask, tries, answered, updates, executed>>
    BY DEF PlanTask, WorkforceIInv, InPhase, trialVars
  <1>3. n \in Nat /\ n <= PlanLength /\ n <= MaxObjects
    BY Objects1
  <1>4. /\ plan' \in Seq(Objects) /\ Len(plan') = n
        /\ \A k \in 1 .. n : plan'[k] = k /\ k \in Objects
        /\ DOMAIN plan' = 1 .. n
    <2>1. /\ Fresh(n) \in Seq(Objects) /\ Len(Fresh(n)) = n
          /\ \A k \in 1 .. n : Fresh(n)[k] = 0 + k /\ 0 + k \in Objects
      <3>1. 0 \in Nat /\ 0 + n <= MaxObjects /\ 0 = created
        BY <1>2, <1>3, Objects1
      <3> QED
        BY <1>3, <3>1, FreshObjects
    <2> QED
      BY <1>1, <2>1
  <1>5. \A o \in Objects : status[o] = "not_started" /\ executed[o] = 0
    <2>1. \A o \in Objects : o > created
      BY <1>2, Objects1
    <2> QED
      BY <2>1 DEF WorkforceIInv, NotBegun
  <1>6. WorkforceTypeOK'
    <2>1. \A o \in Objects : taskId'[o] \in 0 .. MaxObjects
      BY <1>1, Objects1
    <2>2. IsInjective(plan')
      BY <1>4 DEF IsInjective
    <2>3. taskId' \in [Objects -> 0 .. MaxObjects]
      BY <1>1, <2>1
    <2>4. created' \in 0 .. MaxObjects
      BY <1>1, <1>3
    <2> QED
      BY <1>1, <1>2, <1>4, <2>2, <2>3, <2>4 DEF WorkforceIInv, WorkforceTypeOK
  <1>7. \A k \in DOMAIN plan' : status'[plan'[k]] = "not_started"
    BY <1>2, <1>4, <1>5
  <1>8. NotBegun'
    <2>1. \A o \in Objects : taskId'[o] <= created'
      BY <1>1, <1>3, Objects1
    <2> QED
      BY <1>2, <1>5, <2>1 DEF NotBegun
  <1>9. NumbersLag'
    BY <1>1, <1>4 DEF NumbersLag
  <1>10. CreatedFits'
    <2>1. PlanLength * (0 + 1) = PlanLength
      BY Objects1
    <2> QED
      BY <1>1, <1>2, <1>3, <2>1 DEF CreatedFits
  <1>11. InPhase'
    <2>1. n # 0 => 1 \in DOMAIN plan'
      BY <1>3, <1>4
    <2> QED
      BY <1>1, <1>7, <2>1 DEF InPhase, HasUncompleted, Open
  <1> QED
    BY <1>2, <1>6, <1>7, <1>8, <1>9, <1>10, <1>11
       DEF WorkforceIInv, ExecutedOnce, SettledPrefix

LEMMA AssignTaskInv == WorkforceIInv /\ AssignTask => WorkforceIInv'
  <1> SUFFICES ASSUME WorkforceIInv, AssignTask PROVE WorkforceIInv'
    OBVIOUS
  <1>1. /\ step = "assign" /\ subtask' = plan[NextTask] /\ step' \in {"execute", "raised"}
        /\ UNCHANGED <<plan, objectVars, trialVars, updates>>
    BY DEF AssignTask
  <1>2. NextTask \in Open(plan) /\ \A j \in Open(plan) : NextTask <= j
    <2>1. Open(plan) \subseteq Nat /\ Open(plan) # {}
      BY <1>1, PlanShape DEF Open, WorkforceIInv, InPhase, HasUncompleted
    <2>2. \E k \in Open(plan) : \A j \in Open(plan) : k <= j
      BY <2>1, LeastOf
    <2> QED
      BY <2>2 DEF NextTask
  <1>3. PICK k \in Nat : k = NextTask
    BY <1>2, PlanShape DEF Open, WorkforceIInv
  <1>4. k \in DOMAIN plan /\ status[plan[k]] = "not_started" /\ plan[k] \in Objects
    BY <1>2, <1>3, PlanShape DEF Open, WorkforceIInv
  <1>5. NothingOpenBefore(k)
    <2> SUFFICES ASSUME NEW j \in DOMAIN plan, j < k, status[plan[j]] = "not_started"
                 PROVE  FALSE
      BY DEF NothingOpenBefore
    <2>1. j \in Open(plan) /\ j \in Nat
      BY PlanShape DEF Open, WorkforceIInv
    <2>2. \A i \in Open(plan) : k <= i
      BY <1>2, <1>3
    <2> QED
      BY <1>3, <2>1, <2>2
  <1>6. WorkforceTypeOK'
    BY <1>1, <1>3, <1>4 DEF WorkforceIInv, WorkforceTypeOK, objectVars, trialVars
  <1>7. InPhase'
    BY <1>1, <1>3, <1>4, <1>5 DEF InPhase, AtHand, NothingOpenBefore, objectVars
  <1> QED
    BY <1>1, <1>6, <1>7, SamePlan

LEMMA BeginSubtaskInv == WorkforceIInv /\ BeginSubtask => WorkforceIInv'
  <1> SUFFICES ASSUME WorkforceIInv, BeginSubtask PROVE WorkforceIInv'
    OBVIOUS
  <1>1. /\ step = "execute" /\ step' = "try" /\ tries' = 1 /\ answered' = FALSE
        /\ status' = [status EXCEPT ![subtask] = "in_progress"]
        /\ executed' = [executed EXCEPT ![subtask] = @ + 1]
        /\ UNCHANGED <<plan, created, taskId, updates, subtask>>
    BY DEF BeginSubtask, planVars
  <1>2. subtask \in Objects /\ status[subtask] = "not_started" /\ executed[subtask] = 0
    BY <1>1 DEF WorkforceIInv, WorkforceTypeOK, InPhase, NotBegun
  <1>3. /\ status'[subtask] = "in_progress" /\ executed'[subtask] = 1
        /\ \A o \in Objects \ {subtask} : status'[o] = status[o] /\ executed'[o] = executed[o]
    <2>1. status \in [Objects -> Statuses] /\ executed \in [Objects -> Nat]
      BY DEF WorkforceIInv, WorkforceTypeOK
    <2> QED
      BY <1>1, <1>2, <2>1
  <1>4. WorkforceTypeOK'
    <2>1. status' \in [Objects -> Statuses]
      <3>1. status \in [Objects -> Statuses] /\ "in_progress" \in Statuses
        BY DEF WorkforceIInv, WorkforceTypeOK, Statuses
      <3> QED
        BY <1>1, <3>1
    <2>2. executed' \in [Objects -> Nat]
      <3>1. executed \in [Objects -> Nat]
        BY DEF WorkforceIInv, WorkforceTypeOK
      <3>2. executed' = [executed EXCEPT ![subtask] = 1]
        BY <1>1, <1>2, <3>1
      <3> QED
        BY <3>1, <3>2
    <2>3. 1 \in 1 .. MaxTries + 1
      BY Objects1
    <2> QED
      BY <1>1, <2>1, <2>2, <2>3 DEF WorkforceIInv, WorkforceTypeOK
  <1>5. ExecutedOnce' /\ NotBegun'
    <2>1. ~ (subtask > created)
      <3>1. PICK k \in DOMAIN plan : plan[k] = subtask
        BY <1>1 DEF WorkforceIInv, InPhase, AtHand
      <3>2. subtask <= created
        BY <3>1 DEF WorkforceIInv, NumbersLag
      <3> QED
        BY <3>2, PlanShape DEF WorkforceIInv
    <2>2. \A o \in Objects : /\ status[o] = "not_started" <=> executed[o] = 0
                             /\ o > created => status[o] = "not_started"
                             /\ taskId[o] <= created /\ executed[o] <= 1
      BY DEF WorkforceIInv, NotBegun, ExecutedOnce
    <2>3. ASSUME NEW o \in Objects
          PROVE  /\ status'[o] = "not_started" <=> executed'[o] = 0
                 /\ o > created => status'[o] = "not_started"
                 /\ taskId[o] <= created /\ executed'[o] <= 1
      <3>1. CASE o = subtask
        BY <1>3, <2>1, <2>2, <3>1
      <3>2. CASE o # subtask
        BY <1>3, <2>2, <3>2
      <3> QED
        BY <3>1, <3>2
    <2> QED
      BY <1>1, <2>3 DEF ExecutedOnce, NotBegun
  <1>6. PICK k \in DOMAIN plan : plan[k] = subtask /\ NothingOpenBefore(k)
    BY <1>1 DEF WorkforceIInv, InPhase, AtHand
  <1>7. \A j \in DOMAIN plan : plan[j] \in Objects /\ j \in Nat
    BY PlanShape DEF WorkforceIInv
  <1>8. SettledPrefix'
    <2> SUFFICES ASSUME NEW i \in DOMAIN plan, NEW j \in DOMAIN plan, i < j,
                        status'[plan[i]] = "not_started"
                 PROVE  status'[plan[j]] = "not_started"
      BY <1>1 DEF SettledPrefix
    <2>1. plan[i] # subtask /\ status[plan[i]] = "not_started"
      BY <1>3, <1>7
    <2>2. status[plan[j]] = "not_started"
      BY <2>1 DEF WorkforceIInv, SettledPrefix
    <2>3. ~ (i < k)
      BY <1>6, <2>1 DEF NothingOpenBefore
    <2>4. j # k
      BY <1>7, <2>3
    <2>5. plan[j] # subtask
      BY <1>6, <2>4 DEF WorkforceIInv, WorkforceTypeOK, IsInjective
    <2> QED
      BY <1>3, <1>7, <2>2, <2>5
  <1>9. InPhase'
    <2>1. NothingOpenBefore(k)'
      BY <1>1, <1>3, <1>6, <1>7 DEF NothingOpenBefore
    <2>2. tries' <= MaxTries
      BY <1>1, Objects1
    <2> QED
      BY <1>1, <1>3, <1>6, <2>1, <2>2 DEF InPhase, AtHand
  <1> QED
    BY <1>1, <1>4, <1>5, <1>8, <1>9 DEF WorkforceIInv, NumbersLag, CreatedFits

LEMMA AttemptInv == WorkforceIInv /\ Attempt => WorkforceIInv'
  <1> SUFFICES ASSUME WorkforceIInv, Attempt PROVE WorkforceIInv'
    OBVIOUS
  <1>1. /\ step = "try" /\ UNCHANGED <<plan, created, taskId, updates, status, executed, subtask>>
        /\ answered' \in BOOLEAN /\ tries \in 1 .. MaxTries + 1 /\ tries <= MaxTries
    BY DEF Attempt, planVars, WorkforceIInv, WorkforceTypeOK, InPhase
  <1>2. \/ step' = "tried" /\ tries' = tries
        \/ tries' = tries + 1 /\ step' = "tried"
        \/ tries' = tries + 1 /\ step' = "try" /\ ~ (tries + 1 > MaxTries)
    BY DEF Attempt, NoTryLeft
  <1>3. /\ tries' \in 1 .. MaxTries + 1 /\ step' \in {"try", "tried"}
        /\ step' = "try" => tries' <= MaxTries
    BY <1>1, <1>2, Objects1
  <1>4. WorkforceTypeOK'
    BY <1>1, <1>3 DEF WorkforceIInv, WorkforceTypeOK
  <1>5. InPhase'
    BY <1>1, <1>3 DEF WorkforceIInv, InPhase, AtHand, NothingOpenBefore
  <1> QED
    BY <1>1, <1>4, <1>5, SamePlan DEF objectVars

(* The subtask at hand gets another status: it is not open before or after.*)
LEMMA SettleInv ==
    ASSUME WorkforceIInv, step \in {"tried", "check"},
           NEW s \in Statuses \ {"not_started"}, status' = [status EXCEPT ![subtask] = s],
           UNCHANGED <<plan, created, taskId, updates, executed, subtask, tries, answered>>,
           step' \in {"check", "raised", "answer", "update"},
           step' = "update" => HasUncompleted'
    PROVE  WorkforceIInv'
  <1>1. subtask \in Objects /\ status[subtask] # "not_started"
    BY DEF WorkforceIInv, WorkforceTypeOK, InPhase
  <1>2. /\ status'[subtask] = s
        /\ \A o \in Objects \ {subtask} : status'[o] = status[o]
    BY <1>1 DEF WorkforceIInv, WorkforceTypeOK
  <1>3. \A o \in Objects : status'[o] = "not_started" <=> status[o] = "not_started"
    BY <1>1, <1>2
  <1>4. \A j \in DOMAIN plan : plan[j] \in Objects
    BY DEF WorkforceIInv, WorkforceTypeOK
  <1>5. WorkforceTypeOK'
    BY <1>1 DEF WorkforceIInv, WorkforceTypeOK
  <1>6. SettledPrefix' /\ NotBegun'
    BY <1>3, <1>4 DEF WorkforceIInv, SettledPrefix, NotBegun
  <1>7. InPhase'
    <2>1. AtHand'
      BY <1>3, <1>4 DEF WorkforceIInv, InPhase, AtHand, NothingOpenBefore
    <2> QED
      BY <1>1, <1>2, <2>1 DEF InPhase
  <1> QED
    BY <1>5, <1>6, <1>7 DEF WorkforceIInv, ExecutedOnce, NumbersLag, CreatedFits

LEMMA EndOrCheckInv == WorkforceIInv /\ (EndSubtask \/ PlanCheck) => WorkforceIInv'
  <1> SUFFICES ASSUME WorkforceIInv, EndSubtask \/ PlanCheck PROVE WorkforceIInv'
    OBVIOUS
  <1>1. UNCHANGED <<plan, created, taskId, updates, executed, subtask, tries, answered>>
    BY DEF EndSubtask, PlanCheck, planVars, trialVars
  <1>2. CASE EndSubtask
    <2>1. PICK s \in {"completed", "failed"} : status' = [status EXCEPT ![subtask] = s]
      BY <1>2 DEF EndSubtask
    <2>2. step = "tried" /\ step' \in {"check", "raised"}
      BY <1>2 DEF EndSubtask
    <2>3. s \in Statuses \ {"not_started"}
      BY DEF Statuses, Settled
    <2> QED
      BY <1>1, <2>1, <2>2, <2>3, SettleInv
  <1>3. CASE PlanCheck
    <2>1. PICK written \in Statuses \cup {"none"} :
             status' = [status EXCEPT ![subtask] = CheckResult(written)]
      BY <1>3 DEF PlanCheck
    <2>2. CheckResult(written) \in Statuses \ {"not_started"}
      BY DEF CheckResult, Statuses, Settled
    <2>3. step = "check"
      BY <1>3 DEF PlanCheck
    <2>4. step' = "answer" \/ (step' = "update" /\ HasUncompleted')
      BY <1>1, <1>3 DEF PlanCheck, HasUncompleted, Open
    <2> QED
      BY <1>1, <2>1, <2>2, <2>3, <2>4, SettleInv
  <1> QED
    BY <1>2, <1>3

(* An update keeps the part of the plan up to the subtask's number.        *)
LEMMA UpdatedPlanFacts ==
    ASSUME WorkforceIInv, step = "update", NEW n \in 1 .. PlanLength, updates < MaxUpdates,
           NEW t, t = taskId[subtask]
    PROVE  /\ t \in 0 .. Len(plan) /\ t <= created
           /\ created + n <= MaxObjects
           /\ UpdatedPlan(n) \in Seq(Objects) /\ Len(UpdatedPlan(n)) = t + n
           /\ \A i \in 1 .. t : UpdatedPlan(n)[i] = plan[i] /\ status[plan[i]] # "not_started"
           /\ \A i \in t + 1 .. t + n : UpdatedPlan(n)[i] = created + (i - t)
           /\ \A i \in t + 1 .. t + n : created + (i - t) \in Objects
  <1>1. /\ plan \in Seq(Objects) /\ Len(plan) \in Nat /\ created \in Nat /\ updates \in Nat
        /\ DOMAIN plan = 1 .. Len(plan) /\ n \in Nat
    BY Objects1 DEF WorkforceIInv, WorkforceTypeOK
  <1>2. PICK k \in 1 .. Len(plan) : plan[k] = subtask /\ NothingOpenBefore(k)
    BY <1>1 DEF WorkforceIInv, InPhase, AtHand
  <1>3. t \in Nat /\ t <= k /\ t <= created
    <2>1. subtask \in Objects /\ taskId[subtask] \in 0 .. MaxObjects
      BY DEF WorkforceIInv, WorkforceTypeOK
    <2>2. t \in Nat
      BY <2>1, Objects1
    <2>3. t <= k /\ t <= created
      BY <1>1, <1>2, <2>1 DEF WorkforceIInv, NumbersLag, NotBegun
    <2> QED
      BY <2>2, <2>3
  <1>4. created + n <= MaxObjects
    BY <1>1, RoomLeft DEF WorkforceIInv, CreatedFits
  <1>5. /\ Fresh(n) \in Seq(Objects) /\ Len(Fresh(n)) = n
        /\ \A i \in 1 .. n : Fresh(n)[i] = created + i /\ created + i \in Objects
    BY <1>1, <1>4, FreshObjects
  <1> DEFINE kept == SubSeq(plan, 1, t)
  <1>6. /\ kept \in Seq(Objects) /\ Len(kept) = t
        /\ \A i \in 1 .. t : kept[i] = plan[i]
    <2>1. \A i \in 1 .. t : plan[i] \in Objects
      BY <1>1, <1>3
    <2>2. /\ kept \in Seq(Objects)
          /\ Len(kept) = IF 1 <= t THEN t - 1 + 1 ELSE 0
          /\ \A i \in 1 .. t - 1 + 1 : kept[i] = plan[1 + i - 1]
      BY <1>3, <2>1, SubSeqProperties
    <2> QED
      BY <1>3, <2>2
  <1>7. UpdatedPlan(n) = kept \o Fresh(n)
    BY DEF UpdatedPlan
  <1> HIDE DEF kept
  <1>8. /\ UpdatedPlan(n) \in Seq(Objects) /\ Len(UpdatedPlan(n)) = t + n
        /\ \A i \in 1 .. t + n : UpdatedPlan(n)[i] = IF i <= t THEN kept[i] ELSE Fresh(n)[i - t]
    <2>1. PICK f : f = Fresh(n)
      OBVIOUS
    <2>2. f \in Seq(Objects) /\ Len(f) = n
      BY <1>5, <2>1
    <2>3. kept \in Seq(Objects) /\ Len(kept) = t
      BY <1>6
    <2>4. /\ kept \o f \in Seq(Objects) /\ Len(kept \o f) = Len(kept) + Len(f)
          /\ \A i \in 1 .. Len(kept) + Len(f) :
                (kept \o f)[i] = IF i <= Len(kept) THEN kept[i] ELSE f[i - Len(kept)]
      BY <2>2, <2>3, ConcatProperties
    <2> QED
      BY ONLY <1>7, <2>1, <2>2, <2>3, <2>4
  <1>9. \A i \in 1 .. t : status[plan[i]] # "not_started"
    <2> SUFFICES ASSUME NEW i \in 1 .. t PROVE status[plan[i]] # "not_started"
      OBVIOUS
    <2>1. CASE i = k
      BY <1>2, <2>1 DEF WorkforceIInv, InPhase
    <2>2. CASE i < k
      BY <1>1, <1>2, <1>3, <2>2 DEF NothingOpenBefore
    <2> QED
      BY <1>3, <2>1, <2>2
  <1>10. \A i \in t + 1 .. t + n : i - t \in 1 .. n /\ ~ (i <= t) /\ i \in 1 .. t + n
    <2>1. t \in Nat /\ n \in Nat
      BY <1>1, <1>3
    <2> QED
      BY ONLY <2>1
  <1>11. \A i \in 1 .. t : i \in 1 .. t + n
    BY <1>1, <1>3
  <1>12. \A i \in 1 .. t : UpdatedPlan(n)[i] = plan[i]
    BY <1>6, <1>8, <1>11
  <1>13. \A i \in t + 1 .. t + n :
            UpdatedPlan(n)[i] = created + (i - t) /\ created + (i - t) \in Objects
    BY <1>5, <1>8, <1>10
  <1>14. t \in 0 .. Len(plan)
    BY <1>1, <1>3
  <1> QED
    BY <1>3, <1>4, <1>8, <1>9, <1>12, <1>13, <1>14

LEMMA PlanUpdateInv == WorkforceIInv /\ PlanUpdate => WorkforceIInv'
  <1> SUFFICES ASSUME WorkforceIInv, PlanUpdate PROVE WorkforceIInv'
    OBVIOUS
  <1>1. step = "update" /\ UNCHANGED <<status, executed, subtask, tries, answered>>
    BY DEF PlanUpdate, trialVars
  <1>2. CASE /\ step' \in {"assign", "answer", "raised"}
             /\ UNCHANGED <<plan, taskId, created, updates>>
    <2>1. WorkforceTypeOK'
      BY <1>1, <1>2 DEF WorkforceIInv, WorkforceTypeOK
    <2>2. InPhase'
      BY <1>1, <1>2 DEF WorkforceIInv, InPhase, HasUncompleted, Open
    <2> QED
      BY <1>1, <1>2, <2>1, <2>2, SamePlan DEF objectVars
  <1>3. ASSUME NEW n \in 1 .. PlanLength, updates < MaxUpdates,
               plan' = UpdatedPlan(n), taskId' = UpdatedIds(n), created' = created + n,
               updates' = updates + 1, step' = "assign"
        PROVE  WorkforceIInv'
    <2>1. PICK t : t = taskId[subtask]
      OBVIOUS
    <2>2. /\ t \in 0 .. Len(plan) /\ t <= created
          /\ created + n <= MaxObjects
          /\ plan' \in Seq(Objects) /\ Len(plan') = t + n
          /\ \A i \in 1 .. t : plan'[i] = plan[i] /\ status[plan[i]] # "not_started"
          /\ \A i \in t + 1 .. t + n : plan'[i] = created + (i - t) /\ created + (i - t) \in Objects
      BY <1>1, <1>3, <2>1, UpdatedPlanFacts
    <2>3. /\ Len(plan) \in Nat /\ created \in Nat /\ updates \in Nat /\ t \in Nat /\ n \in Nat /\ n >= 1
          /\ DOMAIN plan = 1 .. Len(plan) /\ DOMAIN plan' = 1 .. t + n
          /\ \A o \in Objects : o \in Nat
      <3>1. /\ Len(plan) \in Nat /\ created \in Nat /\ updates \in Nat
            /\ DOMAIN plan = 1 .. Len(plan) /\ \A o \in Objects : o \in Nat
        BY PlanShape DEF WorkforceIInv
      <3>2. t \in Nat /\ n \in Nat /\ n >= 1
        BY <2>2, <3>1, Objects1
      <3>3. DOMAIN plan' = 1 .. t + n
        BY ONLY <2>2
      <3> QED
        BY <3>1, <3>2, <3>3
    <2>4. \A i \in 1 .. t : i \in DOMAIN plan /\ plan[i] \in Objects /\ plan[i] <= created
      <3>1. \A i \in 1 .. t : i \in DOMAIN plan
        BY <2>2, <2>3
      <3> QED
        BY <3>1 DEF WorkforceIInv, WorkforceTypeOK, NumbersLag
    <2>5. \A i \in 1 .. t + n : i \in 1 .. t \/ i \in t + 1 .. t + n
      BY <2>3
    <2>6. /\ \A o \in Objects : o <= created => taskId'[o] = taskId[o]
          /\ \A o \in Objects : o > created + n => taskId'[o] = taskId[o]
          /\ \A i \in t + 1 .. t + n : taskId'[created + (i - t)] = i - 1
      <3>1. taskId' = [o \in Objects |-> IF o \in created + 1 .. created + n
                                         THEN t + (o - created - 1) ELSE taskId[o]]
        BY <1>3, <2>1 DEF UpdatedIds
      <3>2. \A i \in t + 1 .. t + n : /\ created + (i - t) \in created + 1 .. created + n
                                      /\ t + (created + (i - t) - created - 1) = i - 1
        BY <2>3
      <3>3. \A o \in Objects : o <= created \/ o > created + n => ~ (o \in created + 1 .. created + n)
        BY <2>3
      <3>4. \A o \in Objects : o <= created \/ o > created + n => taskId'[o] = taskId[o]
        BY <3>1, <3>3
      <3>5. ASSUME NEW i \in t + 1 .. t + n PROVE taskId'[created + (i - t)] = i - 1
        <4>1. PICK o \in Objects : o = created + (i - t)
          BY <2>2
        <4>2. o \in created + 1 .. created + n /\ t + (o - created - 1) = i - 1
          BY <2>3, <4>1
        <4>3. taskId'[o] = t + (o - created - 1)
          BY <3>1, <4>2
        <4> QED
          BY <4>1, <4>2, <4>3
      <3> QED
        BY <3>4, <3>5
    <2>7. \A o \in Objects : taskId'[o] \in Nat /\ taskId'[o] <= created + n
      <3> SUFFICES ASSUME NEW o \in Objects PROVE taskId'[o] \in Nat /\ taskId'[o] <= created + n
        OBVIOUS
      <3>1. taskId[o] \in Nat /\ taskId[o] <= created
        BY Objects1 DEF WorkforceIInv, WorkforceTypeOK, NotBegun
      <3>2. CASE o <= created \/ o > created + n
        BY <2>3, <2>6, <3>1, <3>2
      <3>3. CASE o > created /\ o <= created + n
        <4>1. PICK i \in Int : i = t + (o - created)
          BY <2>3
        <4>2. i \in t + 1 .. t + n /\ o = created + (i - t)
          BY <2>3, <3>3, <4>1
        <4>3. taskId'[o] = i - 1
          BY <2>6, <4>2
        <4> QED
          BY <2>2, <2>3, <4>2, <4>3
      <3> QED
        BY <2>3, <3>2, <3>3
    <2>8. WorkforceTypeOK'
      <3>1. IsInjective(plan')
        <4> SUFFICES ASSUME NEW a \in 1 .. t + n, NEW b \in 1 .. t + n, plan'[a] = plan'[b]
                     PROVE  a = b
          BY <2>3 DEF IsInjective
        <4>1. CASE a \in 1 .. t /\ b \in 1 .. t
          <5>1. plan[a] = plan[b]
            BY <2>2, <4>1
          <5> QED
            BY <2>4, <4>1, <5>1 DEF WorkforceIInv, WorkforceTypeOK, IsInjective
        <4>2. CASE a \in 1 .. t /\ b \in t + 1 .. t + n
          BY <2>2, <2>3, <2>4, <4>2
        <4>3. CASE a \in t + 1 .. t + n /\ b \in 1 .. t
          BY <2>2, <2>3, <2>4, <4>3
        <4>4. CASE a \in t + 1 .. t + n /\ b \in t + 1 .. t + n
          BY <2>2, <2>3, <4>4
        <4> QED
          BY <2>5, <4>1, <4>2, <4>3, <4>4
      <3>2. taskId' \in [Objects -> 0 .. MaxObjects]
        <4>1. \A o \in Objects : taskId'[o] \in 0 .. MaxObjects
          BY <2>2, <2>3, <2>7, Objects1
        <4>2. taskId' = [o \in Objects |-> taskId'[o]]
          BY <1>3 DEF UpdatedIds
        <4> QED
          BY <4>1, <4>2
      <3>3. created' \in 0 .. MaxObjects /\ updates' \in 0 .. MaxUpdates
        BY <1>3, <2>2, <2>3, Objects1
      <3> QED
        BY <1>1, <1>3, <2>2, <3>1, <3>2, <3>3 DEF WorkforceIInv, WorkforceTypeOK
    <2>9. \A i \in t + 1 .. t + n : status'[plan'[i]] = "not_started"
      <3> SUFFICES ASSUME NEW i \in t + 1 .. t + n PROVE status[plan'[i]] = "not_started"
        BY <1>1
      <3>1. plan'[i] \in Objects /\ plan'[i] > created
        BY <2>2, <2>3
      <3> QED
        BY <3>1 DEF WorkforceIInv, NotBegun
    <2>10. SettledPrefix'
      <3> SUFFICES ASSUME NEW i \in 1 .. t + n, NEW j \in 1 .. t + n, i < j,
                          status'[plan'[i]] = "not_started"
                   PROVE  status'[plan'[j]] = "not_started"
        BY <2>3 DEF SettledPrefix
      <3>1. ~ (i \in 1 .. t)
        BY <1>1, <2>2
      <3>2. j \in t + 1 .. t + n
        BY <2>3, <3>1
      <3> QED
        BY <2>9, <3>2
    <2>11. NotBegun'
      <3> SUFFICES ASSUME NEW o \in Objects
                   PROVE  /\ status[o] = "not_started" <=> executed[o] = 0
                          /\ o > created + n => status[o] = "not_started"
                          /\ taskId'[o] <= created + n
        BY <1>1, <1>3 DEF NotBegun
      <3>1. o > created + n => o > created
        BY <2>3
      <3> QED
        BY <2>7, <3>1 DEF WorkforceIInv, NotBegun
    <2>12. NumbersLag'
      <3> SUFFICES ASSUME NEW i \in 1 .. t + n
                   PROVE  plan'[i] <= created + n /\ taskId'[plan'[i]] <= i
        BY <1>3, <2>3 DEF NumbersLag
      <3>1. CASE i \in 1 .. t
        <4>1. plan'[i] = plan[i] /\ plan[i] \in Objects /\ plan[i] <= created /\ i \in DOMAIN plan
          BY <2>2, <2>4, <3>1
        <4>2. taskId[plan[i]] <= i
          BY <4>1 DEF WorkforceIInv, NumbersLag
        <4>3. taskId'[plan[i]] = taskId[plan[i]]
          BY <2>6, <4>1
        <4> QED
          BY <2>3, <4>1, <4>2, <4>3
      <3>2. CASE i \in t + 1 .. t + n
        <4>1. plan'[i] = created + (i - t) /\ taskId'[created + (i - t)] = i - 1
          BY <2>2, <2>6, <3>2
        <4> QED
          BY <2>3, <3>2, <4>1
      <3> QED
        BY <2>5, <3>1, <3>2
    <2>13. CreatedFits'
      <3>1. created + n <= PlanLength * (updates + 2)
        BY <1>3, <2>3, RoomLeft DEF WorkforceIInv, CreatedFits
      <3>2. updates + 1 + 1 = updates + 2
        BY <2>3
      <3> QED
        BY <1>3, <3>1, <3>2 DEF CreatedFits
    <2>14. InPhase'
      <3>1. t + 1 \in DOMAIN plan' /\ t + 1 \in t + 1 .. t + n
        BY <2>3
      <3>2. HasUncompleted'
        BY <2>9, <3>1 DEF HasUncompleted, Open
      <3> QED
        BY <1>3, <3>2 DEF InPhase
    <2> QED
      BY <1>1, <2>8, <2>10, <2>11, <2>12, <2>13, <2>14 DEF WorkforceIInv, ExecutedOnce
  <1>4. \/ /\ step' \in {"assign", "answer", "raised"}
           /\ UNCHANGED <<plan, taskId, created, updates>>
        \/ /\ updates < MaxUpdates /\ updates' = updates + 1 /\ step' = "assign"
           /\ \E n \in 1 .. PlanLength :
                plan' = UpdatedPlan(n) /\ taskId' = UpdatedIds(n) /\ created' = created + n
    BY DEF PlanUpdate
  <1> QED
    BY <1>2, <1>3, <1>4

LEMMA WorkforceStepInv == WorkforceIInv /\ [WorkforceNext]_workforceVars => WorkforceIInv'
  <1> SUFFICES ASSUME WorkforceIInv, [WorkforceNext]_workforceVars PROVE WorkforceIInv'
    OBVIOUS
  <1>1. CASE FinalAnswer \/ UNCHANGED workforceVars
    <2>1. /\ UNCHANGED <<plan, objectVars, updates, subtask, tries, answered>>
          /\ step' \in {"returned", "raised"} \/ step' = step
      BY <1>1 DEF FinalAnswer, workforceVars, objectVars, trialVars
    <2>2. WorkforceTypeOK'
      BY <2>1 DEF WorkforceIInv, WorkforceTypeOK, objectVars
    <2>3. InPhase'
      BY <2>1 DEF WorkforceIInv, InPhase, AtHand, NothingOpenBefore, HasUncompleted, Open, objectVars
    <2> QED
      BY <2>1, <2>2, <2>3, SamePlan
  <1> QED
    BY <1>1, PlanTaskInv, AssignTaskInv, BeginSubtaskInv, AttemptInv, EndOrCheckInv, PlanUpdateInv
       DEF WorkforceNext

(* For any length of plans and any number of updates, no subtask is        *)
(* executed twice and the plan is worked off from its front, whatever the  *)
(* planner writes about a subtask and wherever an update cuts the plan.    *)
THEOREM PlanWorkedOff == WorkforceSpec => []WorkforceInv
  <1>1. WorkforceIInv => WorkforceInv
    BY DEF WorkforceIInv, WorkforceInv
  <1> QED
    BY <1>1, WorkforceInitInv, WorkforceStepInv, PTL DEF WorkforceSpec

-----------------------------------------------------------------------------
(***************************************************************************)
(* WsConnections.  For any number of tasks, connections and broken links:  *)
(* the connection table, the threads that send and the client agree on     *)
(* where each task and each report is.                                     *)
(***************************************************************************)

Has(q, n) == \E i \in DOMAIN q : q[i] = n
Distinct(q) == \A i, j \in DOMAIN q : q[i] = q[j] /\ q[i] \in Sent => i = j

(* A task is on its way to the worker with a sending thread or on a wire,  *)
(* and its report is on its way back from the queue on.                    *)
ToDo(n) == \/ \E s \in sends : s.task = n
           \/ \E c \in Conns : Has(toWorker[c], n)
Reported(n) == \/ Has(queue, n) \/ Has(handled, n)
               \/ \E c \in Conns : Has(toServer[c], n)

SentOnce(n) ==
    /\ \A s, r \in sends : s.task = n /\ r.task = n => s = r
    /\ \A s \in sends : s.task = n => \A c \in Conns : ~Has(toWorker[c], n)
    /\ \A c, d \in Conns : Has(toWorker[c], n) /\ Has(toWorker[d], n) => c = d
BackOnce(n) ==
    /\ Has(queue, n) => ~Has(handled, n)
    /\ \A c \in Conns : Has(toServer[c], n) => ~Has(queue, n) /\ ~Has(handled, n)
    /\ \A c, d \in Conns : Has(toServer[c], n) /\ Has(toServer[d], n) => c = d

(* What has been reported was run, what was run is no longer on its way,   *)
(* and nothing has happened with a task that is PENDING.                   *)
OneWay(n) ==
    /\ Reported(n) \/ taskState[n] = "DONE" => n \in ran
    /\ n \in ran => ~ToDo(n) /\ working # n
    /\ working = n => ~ToDo(n)
    /\ taskState[n] = "PENDING" => ~ToDo(n) /\ working # n /\ n \notin ran

InOrder == /\ \A c \in Conns : Distinct(toWorker[c]) /\ Distinct(toServer[c])
           /\ Distinct(queue) /\ Distinct(handled)
WsOnce == InOrder /\ \A n \in Sent : SentOnce(n) /\ BackOnce(n) /\ OneWay(n)

(* The connections opened are the first ones, and they alone have a        *)
(* handler; who listens has one.                                           *)
WsShape ==
    /\ WsTypeOK /\ NoGhostConnection
    /\ listening => ws # 0 /\ working = 0
    /\ \A c \in Conns : link[c] = "none" => handler[c] = "none"
    /\ \E k \in 0 .. MaxConns : Opened = 1 .. k

(* Until a link breaks there is one connection at most, and once it is     *)
(* registered every thread gets it.                                        *)
NotConnected ==
    /\ \A c \in Conns : link[c] = "none" /\ handler[c] = "none"
    /\ ws = 0 /\ ~connected /\ current = 0 /\ ~known /\ sends = {}
    /\ \A n \in Sent : taskState[n] = "PENDING"
OneConnection ==
    /\ link[1] = "up" /\ handler[1] \in {"accepted", "open"}
    /\ \A c \in Conns \ {1} : link[c] = "none" /\ handler[c] = "none"
    /\ ws = 1 /\ connected
    /\ current = IF handler[1] = "open" THEN 1 ELSE 0
    /\ known \/ sends # {} => handler[1] = "open"
    /\ \A s \in sends : s.to \in {0, 1}
    /\ \A n \in Sent : taskState[n] = "DISPATCHED" =>
         ToDo(n) \/ working = n \/ Has(queue, n) \/ Has(toServer[1], n)
    /\ \A n \in Sent : Has(toWorker[1], n) \/ ~(\E c \in Conns : Has(toWorker[c], n))
WsSteady == cuts = 0 => NotConnected \/ OneConnection

WsIInv == WsShape /\ WsOnce /\ WsSteady

LEMMA WsTaken ==
    ASSUME NEW S, NEW q \in Seq(S), q # <<>>
    PROVE  /\ Tail(q) \in Seq(S) /\ Head(q) \in S /\ Has(q, Head(q))
           /\ \A n : Has(Tail(q), n) => Has(q, n)
           /\ \A n : Has(q, n) => n = Head(q) \/ Has(Tail(q), n)
           /\ Distinct(q) => Distinct(Tail(q))
           /\ Distinct(q) /\ Head(q) \in Sent => ~Has(Tail(q), Head(q))
  <1>1. /\ Tail(q) \in Seq(S) /\ Head(q) = q[1] /\ Len(q) \in Nat /\ Len(q) >= 1
        /\ Len(Tail(q)) = Len(q) - 1 /\ \A i \in 1 .. Len(q) - 1 : Tail(q)[i] = q[i + 1]
    OBVIOUS
  <1>2. PICK r : r = Tail(q)
    OBVIOUS
  <1>3. /\ DOMAIN q = 1 .. Len(q) /\ DOMAIN r = 1 .. Len(q) - 1 /\ 1 \in DOMAIN q
        /\ \A i \in DOMAIN r : i + 1 \in DOMAIN q /\ i \in Nat /\ r[i] = q[i + 1]
    <2>1. r \in Seq(S) /\ Len(r) = Len(q) - 1
      BY <1>1, <1>2
    <2>2. DOMAIN q = 1 .. Len(q) /\ DOMAIN r = 1 .. Len(q) - 1
      BY <2>1
    <2> QED
      BY <1>1, <1>2, <2>2
  <1>4. Head(q) \in S /\ Has(q, Head(q))
    BY <1>1, <1>3 DEF Has
  <1>5. \A n : Has(r, n) => Has(q, n)
    BY <1>3 DEF Has
  <1>6. ASSUME NEW n, Has(q, n), n # q[1] PROVE Has(r, n)
    <2>1. PICK i \in DOMAIN q : q[i] = n
      BY <1>6 DEF Has
    <2>2. i - 1 \in DOMAIN r /\ (i - 1) + 1 = i
      BY <1>1, <1>3, <1>6, <2>1
    <2> QED
      BY <1>3, <2>1, <2>2 DEF Has
  <1>7. ASSUME Distinct(q) PROVE Distinct(r)
    <2> SUFFICES ASSUME NEW i \in DOMAIN r, NEW j \in DOMAIN r, r[i] = r[j], r[i] \in Sent
                 PROVE  i = j
      BY DEF Distinct
    <2>1. i + 1 = j + 1
      BY <1>3, <1>7 DEF Distinct
    <2> QED
      BY <1>3, <2>1
  <1>8. ASSUME Distinct(q), q[1] \in Sent PROVE ~Has(r, q[1])
    <2> SUFFICES ASSUME NEW i \in DOMAIN r, r[i] = q[1] PROVE FALSE
      BY DEF Has
    <2>1. i + 1 = 1
      BY <1>3, <1>8 DEF Distinct
    <2> QED
      BY <1>3, <2>1
  <1> QED
    BY <1>1, <1>2, <1>4, <1>5, <1>6, <1>7, <1>8

LEMMA WsPut ==
    ASSUME NEW S, NEW q \in Seq(S), NEW e \in S
    PROVE  /\ Append(q, e) \in Seq(S)
           /\ \A n : Has(Append(q, e), n) <=> Has(q, n) \/ n = e
           /\ Distinct(q) /\ (e \in Sent => ~Has(q, e)) => Distinct(Append(q, e))
  <1>1. /\ Append(q, e) \in Seq(S) /\ Len(q) \in Nat /\ Len(Append(q, e)) = Len(q) + 1
        /\ Append(q, e)[Len(q) + 1] = e /\ \A i \in 1 .. Len(q) : Append(q, e)[i] = q[i]
    OBVIOUS
  <1>2. PICK r : r = Append(q, e)
    OBVIOUS
  <1>3. PICK m \in Nat : m = Len(q)
    BY <1>1
  <1>4. /\ DOMAIN q = 1 .. m /\ DOMAIN r = 1 .. m + 1 /\ r[m + 1] = e
        /\ \A i \in DOMAIN q : i \in DOMAIN r /\ i # m + 1 /\ r[i] = q[i]
        /\ m + 1 \in DOMAIN r
        /\ \A i \in DOMAIN r : i \in DOMAIN q \/ i = m + 1
    <2>1. r \in Seq(S) /\ Len(r) = m + 1
      BY <1>1, <1>2, <1>3
    <2>2. DOMAIN q = 1 .. m /\ DOMAIN r = 1 .. m + 1
      BY <1>3, <2>1
    <2>3. r[m + 1] = e /\ \A i \in 1 .. m : r[i] = q[i]
      BY <1>1, <1>2, <1>3
    <2>4. /\ \A i \in 1 .. m : i \in 1 .. m + 1 /\ i # m + 1
          /\ m + 1 \in 1 .. m + 1
          /\ \A i \in 1 .. m + 1 : i \in 1 .. m \/ i = m + 1
      OBVIOUS
    <2> QED
      BY <2>2, <2>3, <2>4
  <1>5. \A n : Has(r, n) <=> Has(q, n) \/ n = e
    BY <1>4 DEF Has
  <1>6. ASSUME Distinct(q), e \in Sent => ~Has(q, e) PROVE Distinct(r)
    BY <1>4, <1>6 DEF Distinct, Has
  <1> QED
    BY <1>1, <1>2, <1>5, <1>6

LEMMA WsConstants ==
    /\ Sent \subseteq Nat \ {0} /\ 0 \notin Sent /\ Sent \subseteq Events /\ Register \in Events
    /\ Register \notin Sent /\ 0 \notin Conns /\ 1 \in Conns /\ Conns \subseteq Nat /\ MaxConns \in Nat
  BY WsAssumption DEF Events, Register, Conns

-----------------------------------------------------------------------------
(* What a step does to the wires and the table, and the shape they keep.   *)

LEMMA WsInitInv == WsInit => WsIInv
  <1> SUFFICES ASSUME WsInit PROVE WsIInv
    OBVIOUS
  <1>1. WsTypeOK
    <2>1. /\ current = 0 /\ sends = {} /\ ~known /\ cuts = 0 /\ ws = 0 /\ ~connected /\ ~listening
          /\ queue = <<>> /\ working = 0 /\ ran = {} /\ handled = <<>>
          /\ known \in BOOLEAN /\ connected \in BOOLEAN /\ listening \in BOOLEAN
      BY DEF WsInit
    <2>2. /\ handler \in [Conns -> {"none", "accepted", "open", "closing", "ended"}]
          /\ taskState \in [Sent -> {"PENDING", "DISPATCHED", "DONE"}]
          /\ link \in [Conns -> {"none", "up", "cut", "closed"}]
      BY DEF WsInit
    <2>3. toWorker \in [Conns -> Seq(Sent)] /\ toServer \in [Conns -> Seq(Events)]
      BY DEF WsInit
    <2>4. 0 \in 0 .. MaxCuts
      BY WsAssumption
    <2> QED
      BY <2>1, <2>2, <2>3, <2>4 DEF WsTypeOK
  <1>2. Opened = 1 .. 0 /\ 0 \in 0 .. MaxConns
    BY WsConstants DEF WsInit, Opened
  <1>3. WsShape
    BY <1>1, <1>2 DEF WsInit, WsShape, NoGhostConnection
  <1>4. \A n : ~Has(queue, n) /\ ~Has(handled, n) /\ \A c \in Conns : ~Has(toServer[c], n) /\ ~Has(toWorker[c], n)
    BY DEF WsInit, Has
  <1>5. InOrder
    BY DEF WsInit, InOrder, Distinct
  <1>6. ASSUME NEW n \in Sent PROVE SentOnce(n) /\ BackOnce(n) /\ OneWay(n)
    <2>1. sends = {} /\ taskState[n] = "PENDING" /\ n # working /\ n \notin ran
      BY WsConstants DEF WsInit
    <2> QED
      BY <1>4, <2>1 DEF SentOnce, BackOnce, OneWay, ToDo, Reported
  <1>7. WsSteady
    BY DEF WsInit, WsSteady, NotConnected
  <1> QED
    BY <1>3, <1>5, <1>6, <1>7 DEF WsIInv, WsOnce

LEMMA SameOpened ==
    ASSUME \E k \in 0 .. MaxConns : Opened = 1 .. k,
           \A c \in Conns : (link'[c] = "none") <=> (link[c] = "none")
    PROVE  \E k \in 0 .. MaxConns : Opened' = 1 .. k
  <1>1. Opened' = Opened
    BY DEF Opened
  <1> QED
    BY <1>1

(* Closing the connection in the table closes a link and opens none.       *)
LEMMA CloseLinkFacts ==
    ASSUME WsTypeOK, NEW d \in Conns
    PROVE  /\ CloseLink(d) \in [Conns -> {"none", "up", "cut", "closed"}]
           /\ \A c \in Conns : (CloseLink(d)[c] = "none") <=> (link[c] = "none")
  BY DEF WsTypeOK, CloseLink

LEMMA ConnectShape == WsIInv /\ Connect => WsShape'
  <1> SUFFICES ASSUME WsIInv, Connect PROVE WsShape'
    OBVIOUS
  <1>1. PICK k \in 0 .. MaxConns : Opened = 1 .. k
    BY DEF WsIInv, WsShape
  <1>2. Cardinality(Opened) = k /\ k \in Nat
    BY <1>1, WsConstants, FS_Interval
  <1>3. PICK c : c = k + 1
    OBVIOUS
  <1>4. /\ link' = [link EXCEPT ![c] = "up"] /\ handler' = [handler EXCEPT ![c] = "accepted"] /\ ws' = c
        /\ connected' = TRUE /\ listening' = TRUE /\ queue' = Append(queue, Register) /\ working = 0
        /\ UNCHANGED <<current, sends, known, taskState, handled, toWorker, toServer, cuts, working, ran>>
    BY <1>2, <1>3 DEF Connect
  <1>5. c \in Conns /\ c \in Nat /\ c # 0
    <2>1. k # MaxConns
      BY <1>1 DEF Connect, Conns
    <2> QED
      BY <1>1, <1>3, <2>1, WsConstants DEF Conns
  <1>6. link[c] = "none" /\ handler[c] \in {"none", "accepted", "open", "closing", "ended"}
    BY <1>1, <1>2, <1>3, <1>5 DEF Opened, WsIInv, WsShape, WsTypeOK
  <1>7. Opened' = 1 .. k + 1 /\ k + 1 \in 0 .. MaxConns
    <2>1. Opened' = Opened \cup {c}
      BY <1>4, <1>5 DEF Opened, WsIInv, WsShape, WsTypeOK
    <2>2. k + 1 \in 0 .. MaxConns
      BY <1>3, <1>5, WsConstants DEF Conns
    <2> QED
      BY <1>1, <1>2, <1>3, <2>1, <2>2
  <1>8. queue' \in Seq(Events)
    BY <1>4, WsConstants, WsPut DEF WsIInv, WsShape, WsTypeOK
  <1>9. WsTypeOK'
    BY <1>4, <1>5, <1>8 DEF WsIInv, WsShape, WsTypeOK
  <1>10. NoGhostConnection'
    <2> SUFFICES ASSUME current # 0 PROVE current # c /\ handler'[current] \in {"open", "closing"}
      BY <1>4 DEF NoGhostConnection
    <2>1. handler[current] \in {"open", "closing"} /\ current \in Conns
      BY DEF WsIInv, WsShape, WsTypeOK, NoGhostConnection
    <2> QED
      BY <1>4, <1>5, <1>6, <2>1 DEF WsIInv, WsShape, WsTypeOK
  <1>11. \A d \in Conns : link'[d] = "none" => handler'[d] = "none"
    BY <1>4, <1>5 DEF WsIInv, WsShape, WsTypeOK
  <1> QED
    BY <1>4, <1>5, <1>7, <1>9, <1>10, <1>11 DEF WsShape

LEMMA QuietShape ==
    WsIInv /\ (NoticeClosed \/ \E c \in Conns : HandlerEnds(c) \/ CutLink(c)) => WsShape'
  <1> SUFFICES ASSUME WsIInv, NoticeClosed \/ \E c \in Conns : HandlerEnds(c) \/ CutLink(c)
               PROVE  WsShape'
    OBVIOUS
  <1>1. CASE NoticeClosed
    BY <1>1 DEF NoticeClosed, server, wires, WsIInv, WsShape, WsTypeOK, NoGhostConnection, Opened
  <1>2. ASSUME NEW c \in Conns, HandlerEnds(c) PROVE WsShape'
    <2>1. /\ handler' = [handler EXCEPT ![c] = "closing"] /\ handler[c] = "open" /\ link[c] # "none"
          /\ UNCHANGED <<current, sends, known, taskState, handled, wires, client>>
      BY <1>2 DEF HandlerEnds
    <2> QED
      BY <2>1 DEF wires, client, WsIInv, WsShape, WsTypeOK, NoGhostConnection, Opened
  <1>3. ASSUME NEW c \in Conns, CutLink(c) PROVE WsShape'
    <2>1. /\ link' = [link EXCEPT ![c] = "cut"] /\ link[c] = "up" /\ cuts' = cuts + 1 /\ cuts < MaxCuts
          /\ UNCHANGED <<server, toWorker, toServer, client>>
      BY <1>3 DEF CutLink
    <2>2. cuts' \in 0 .. MaxCuts
      BY <2>1, WsAssumption DEF WsIInv, WsShape, WsTypeOK
    <2>3. \A d \in Conns : (link'[d] = "none") <=> (link[d] = "none")
      BY <2>1 DEF WsIInv, WsShape, WsTypeOK
    <2>4. \E k \in 0 .. MaxConns : Opened' = 1 .. k
      BY <2>3, SameOpened DEF WsIInv, WsShape
    <2>5. WsTypeOK'
      BY <2>1, <2>2 DEF server, client, WsIInv, WsShape, WsTypeOK
    <2> QED
      BY <2>1, <2>3, <2>4, <2>5 DEF server, client, WsIInv, WsShape, NoGhostConnection
  <1> QED
    BY <1>1, <1>2, <1>3

(* The table is replaced or emptied, and the link it had closed.           *)
LEMMA TableShape ==
    ASSUME WsIInv, NEW d \in Conns \cup {0},
           UNCHANGED <<sends, known, taskState, handled, toWorker, toServer, cuts, client>>,
           link' = IF current # 0 THEN CloseLink(current) ELSE link,
           handler' \in [Conns -> {"none", "accepted", "open", "closing", "ended"}],
           \A c \in Conns : handler[c] = "none" <=> handler'[c] = "none",
           current' = d, d # 0 => handler'[d] \in {"open", "closing"}
    PROVE  WsShape'
  <1>1. /\ link' \in [Conns -> {"none", "up", "cut", "closed"}]
        /\ \A c \in Conns : (link'[c] = "none") <=> (link[c] = "none")
    <2>1. CASE current = 0
      BY <2>1 DEF WsIInv, WsShape, WsTypeOK
    <2>2. CASE current # 0
      <3>1. current \in Conns /\ WsTypeOK
        BY <2>2 DEF WsIInv, WsShape, WsTypeOK
      <3> QED
        BY <2>2, <3>1, CloseLinkFacts
    <2> QED
      BY <2>1, <2>2
  <1>2. \E k \in 0 .. MaxConns : Opened' = 1 .. k
    BY <1>1, SameOpened DEF WsIInv, WsShape
  <1>3. WsTypeOK'
    BY <1>1 DEF client, WsIInv, WsShape, WsTypeOK
  <1> QED
    BY <1>1, <1>2, <1>3 DEF client, WsIInv, WsShape, NoGhostConnection

LEMMA RegisterShape == ASSUME WsIInv, NEW c \in Conns, RegisterWorker(c) PROVE WsShape'
  <1>1. /\ link' = IF current # 0 THEN CloseLink(current) ELSE link
        /\ current' = c /\ handler[c] = "accepted" /\ handler' = [handler EXCEPT ![c] = "open"]
        /\ UNCHANGED <<sends, known, taskState, handled, toWorker, toServer, cuts, client>>
    BY DEF RegisterWorker
  <1>2. /\ handler' \in [Conns -> {"none", "accepted", "open", "closing", "ended"}]
        /\ \A d \in Conns : handler[d] = "none" <=> handler'[d] = "none"
        /\ handler'[c] = "open"
    BY <1>1 DEF WsIInv, WsShape, WsTypeOK
  <1>3. c \in Conns \cup {0}
    OBVIOUS
  <1> QED
    BY <1>1, <1>2, <1>3, TableShape

LEMMA UnregisterShape == ASSUME WsIInv, NEW c \in Conns, Unregister(c) PROVE WsShape'
  <1>1. /\ link' = IF current # 0 THEN CloseLink(current) ELSE link
        /\ current' = 0 /\ handler[c] = "closing" /\ handler' = [handler EXCEPT ![c] = "ended"]
        /\ UNCHANGED <<sends, known, taskState, handled, toWorker, toServer, cuts, client>>
    BY DEF Unregister, DropEntry
  <1>2. /\ handler' \in [Conns -> {"none", "accepted", "open", "closing", "ended"}]
        /\ \A d \in Conns : handler[d] = "none" <=> handler'[d] = "none"
    BY <1>1 DEF WsIInv, WsShape, WsTypeOK
  <1>3. 0 \in Conns \cup {0}
    OBVIOUS
  <1> QED
    BY <1>1, <1>2, <1>3, TableShape

(* Steps that leave the links and handlers alone.                          *)
LEMMA LinksAlone ==
    ASSUME WsIInv, WsTypeOK', UNCHANGED <<link, handler, current>>, listening' => ws' # 0 /\ working' = 0
    PROVE  WsShape'
  BY DEF WsIInv, WsShape, NoGhostConnection, Opened

(* A message taken from a wire, and one put on it.                         *)
Wires(w, S) == w \in [Conns -> Seq(S)]
TakenOff(v, w, c) == v = [w EXCEPT ![c] = Tail(@)]
OnlyHeadLeaves(v, w, c) ==
    \A d \in Conns : \A n : Has(w[d], n) => Has(v[d], n) \/ (d = c /\ n = Head(w[c]))
PutOn(v, w, c, e) == v = [w EXCEPT ![c] = Append(@, e)]

LEMMA WireTaken ==
    ASSUME NEW S, NEW w, Wires(w, S), NEW c \in Conns, w[c] # <<>>,
           NEW v, TakenOff(v, w, c)
    PROVE  /\ Wires(v, S) /\ Head(w[c]) \in S /\ Has(w[c], Head(w[c]))
           /\ \A d \in Conns : \A n : Has(v[d], n) => Has(w[d], n)
           /\ OnlyHeadLeaves(v, w, c)
           /\ \A d \in Conns : Distinct(w[d]) => Distinct(v[d])
           /\ Distinct(w[c]) /\ Head(w[c]) \in Sent => ~Has(v[c], Head(w[c]))
  <1>1. PICK q \in Seq(S) : q = w[c]
    BY DEF Wires
  <1>2. PICK r : r = Tail(q)
    OBVIOUS
  <1>6. PICK h : h = Head(q)
    OBVIOUS
  <1>3. /\ r \in Seq(S) /\ Head(q) \in S /\ Has(q, Head(q))
        /\ \A n : Has(r, n) => Has(q, n)
        /\ \A n : Has(q, n) => n = Head(q) \/ Has(r, n)
        /\ Distinct(q) => Distinct(r)
        /\ Distinct(q) /\ Head(q) \in Sent => ~Has(r, Head(q))
    BY <1>1, <1>2, WsTaken
  <1>4. v = [w EXCEPT ![c] = r]
    BY <1>1, <1>2 DEF TakenOff
  <1>5. Wires(v, S) /\ v[c] = r /\ \A d \in Conns \ {c} : v[d] = w[d]
    BY <1>3, <1>4 DEF Wires
  <1>7. Head(w[c]) = h /\ w[c] = q
    BY <1>1, <1>6
  <1>8. /\ h \in S /\ Has(q, h)
        /\ \A n : Has(r, n) => Has(q, n)
        /\ \A n : Has(q, n) => n = h \/ Has(r, n)
        /\ Distinct(q) => Distinct(r)
        /\ Distinct(q) /\ h \in Sent => ~Has(r, h)
    BY <1>3, <1>6
  <1>9. \A d \in Conns : /\ \A n : Has(v[d], n) => Has(w[d], n)
                         /\ \A n : Has(w[d], n) => Has(v[d], n) \/ (d = c /\ n = h)
                         /\ Distinct(w[d]) => Distinct(v[d])
    BY <1>5, <1>7, <1>8
  <1>10. OnlyHeadLeaves(v, w, c)
    BY <1>7, <1>9 DEF OnlyHeadLeaves
  <1> QED
    BY <1>5, <1>7, <1>8, <1>9, <1>10

LEMMA WirePut ==
    ASSUME NEW S, NEW w, Wires(w, S), NEW c \in Conns, NEW e \in S,
           NEW v, PutOn(v, w, c, e)
    PROVE  /\ Wires(v, S)
           /\ \A d \in Conns : \A n : Has(v[d], n) <=> Has(w[d], n) \/ (d = c /\ n = e)
           /\ \A d \in Conns : Distinct(w[d]) /\ (e \in Sent => ~Has(w[d], e)) => Distinct(v[d])
  <1>1. PICK q \in Seq(S) : q = w[c]
    BY DEF Wires
  <1>2. PICK r : r = Append(q, e)
    OBVIOUS
  <1>3. /\ r \in Seq(S)
        /\ \A n : Has(r, n) <=> Has(q, n) \/ n = e
        /\ Distinct(q) /\ (e \in Sent => ~Has(q, e)) => Distinct(r)
    BY <1>1, <1>2, WsPut
  <1>4. v = [w EXCEPT ![c] = r]
    BY <1>1, <1>2 DEF PutOn
  <1>5. Wires(v, S) /\ v[c] = r /\ \A d \in Conns \ {c} : v[d] = w[d]
    BY <1>3, <1>4 DEF Wires
  <1> QED
    BY <1>1, <1>3, <1>5

-----------------------------------------------------------------------------
(* The tasks on their way.                                                 *)
LEMMA SameOnce ==
    ASSUME WsOnce, UNCHANGED <<sends, taskState, toWorker, toServer, queue, handled, working, ran>>
    PROVE  WsOnce'
  BY DEF WsOnce, InOrder, SentOnce, BackOnce, OneWay, ToDo, Reported

LEMMA ConnectOnce == WsIInv /\ Connect => WsOnce'
  <1> SUFFICES ASSUME WsIInv, Connect PROVE WsOnce'
    OBVIOUS
  <1>1. /\ queue' = Append(queue, Register)
        /\ UNCHANGED <<sends, taskState, toWorker, toServer, handled, working, ran>>
    BY DEF Connect
  <1>2. /\ \A n \in Sent : Has(queue', n) <=> Has(queue, n)
        /\ Distinct(queue')
    <2>1. PICK q \in Seq(Events) : q = queue
      BY DEF WsIInv, WsShape, WsTypeOK
    <2>2. Distinct(q)
      BY <2>1 DEF WsIInv, WsOnce, InOrder
    <2> QED
      BY <1>1, <2>1, <2>2, WsPut, WsConstants
  <1> QED
    BY <1>1, <1>2 DEF WsIInv, WsOnce, InOrder, SentOnce, BackOnce, OneWay, ToDo, Reported

LEMMA ReceiveTaskInv == WsIInv /\ ReceiveTask => WsShape' /\ WsOnce'
  <1> SUFFICES ASSUME WsIInv, ReceiveTask PROVE WsShape' /\ WsOnce'
    OBVIOUS
  <1>1. ws \in Conns
    BY DEF ReceiveTask, WsIInv, WsShape, WsTypeOK
  <1>2. PICK m : m = Head(toWorker[ws])
    OBVIOUS
  <1>3. /\ toWorker[ws] # <<>> /\ toWorker' = [toWorker EXCEPT ![ws] = Tail(@)]
        /\ working' = m /\ ~listening' /\ listening
        /\ UNCHANGED <<server, link, toServer, cuts, ws, connected, queue, ran>>
    BY <1>2 DEF ReceiveTask
  <1>4. toWorker \in [Conns -> Seq(Sent)]
    BY DEF WsIInv, WsShape, WsTypeOK
  <1>5. /\ toWorker' \in [Conns -> Seq(Sent)] /\ m \in Sent /\ Has(toWorker[ws], m)
        /\ \A d \in Conns : \A n : Has(toWorker'[d], n) => Has(toWorker[d], n)
        /\ \A d \in Conns : Distinct(toWorker[d]) => Distinct(toWorker'[d])
        /\ Distinct(toWorker[ws]) => ~Has(toWorker'[ws], m)
    <2>1. PICK c \in Conns : c = ws
      BY <1>1
    <2>2. PICK v : v = toWorker'
      OBVIOUS
    <2>3. PICK w : w = toWorker
      OBVIOUS
    <2>4. Wires(w, Sent) /\ w[c] # <<>> /\ TakenOff(v, w, c)
      BY <1>3, <1>4, <2>1, <2>2, <2>3 DEF Wires, TakenOff
    <2>5. /\ Wires(v, Sent) /\ Head(w[c]) \in Sent /\ Has(w[c], Head(w[c]))
          /\ \A d \in Conns : \A n : Has(v[d], n) => Has(w[d], n)
          /\ \A d \in Conns : Distinct(w[d]) => Distinct(v[d])
          /\ Distinct(w[c]) /\ Head(w[c]) \in Sent => ~Has(v[c], Head(w[c]))
      BY ONLY <2>4, WireTaken, c \in Conns
    <2> QED
      BY <1>2, <2>1, <2>2, <2>3, <2>5 DEF Wires
  <1>6. WsShape'
    <2>1. WsTypeOK'
      <3>1. WsTypeOK /\ UNCHANGED <<current, handler, sends, known, taskState, handled>>
        BY <1>3 DEF server, WsIInv, WsShape
      <3>2. working' \in Sent \cup {0} /\ listening' \in BOOLEAN
        BY <1>3, <1>5 DEF ReceiveTask
      <3> QED
        BY <1>3, <1>5, <3>1, <3>2 DEF WsTypeOK
    <2> QED
      BY <1>3, <2>1, LinksAlone DEF server
  <1>7. InOrder'
    BY <1>3, <1>5 DEF server, WsIInv, WsOnce, InOrder
  <1>8. \A d \in Conns : ~Has(toWorker'[d], m)
    BY <1>1, <1>5 DEF WsIInv, WsOnce, InOrder, SentOnce
  <1>9. ASSUME NEW n \in Sent PROVE (SentOnce(n) /\ BackOnce(n) /\ OneWay(n))'
    <2>1. SentOnce(n) /\ BackOnce(n) /\ OneWay(n) /\ SentOnce(m) /\ OneWay(m)
      BY <1>5 DEF WsIInv, WsOnce
    <2>2. SentOnce(n)' /\ BackOnce(n)'
      BY <1>3, <1>5, <2>1 DEF SentOnce, BackOnce, server
    <2>3. ToDo(m) /\ ~ToDo(m)'
      BY <1>1, <1>3, <1>5, <1>8, <2>1 DEF ToDo, SentOnce, server
    <2>4. ToDo(n)' => ToDo(n)
      BY <1>3, <1>5 DEF ToDo, server
    <2>5. Reported(n)' <=> Reported(n)
      BY <1>3 DEF Reported, server
    <2>6. OneWay(n)'
      BY <1>3, <2>1, <2>3, <2>4, <2>5 DEF OneWay, server
    <2> QED
      BY <2>2, <2>6
  <1> QED
    BY <1>6, <1>7, <1>9 DEF WsOnce

LEMMA FinishTaskInv == WsIInv /\ FinishTask => WsShape' /\ WsOnce'
  <1> SUFFICES ASSUME WsIInv, FinishTask PROVE WsShape' /\ WsOnce'
    OBVIOUS
  <1>1. /\ working \in Sent /\ ran' = ran \cup {working} /\ queue' = Append(queue, working)
        /\ working' = 0 /\ listening' = connected
        /\ UNCHANGED <<server, wires, ws, connected>>
    BY DEF FinishTask, WsIInv, WsShape, WsTypeOK
  <1>2. PICK m \in Sent : m = working
    BY <1>1
  <1>3. /\ queue' \in Seq(Events) /\ \A n : Has(queue', n) <=> Has(queue, n) \/ n = m
        /\ ~Has(queue, m) => Distinct(queue')
    <2>1. PICK q \in Seq(Events) : q = queue
      BY DEF WsIInv, WsShape, WsTypeOK
    <2>2. Distinct(q) /\ m \in Events
      BY <2>1, WsConstants DEF WsIInv, WsOnce, InOrder
    <2> QED
      BY <1>1, <1>2, <2>1, <2>2, WsPut
  <1>4. WsShape'
    <2>1. WsTypeOK'
      BY <1>1, <1>3 DEF server, wires, WsIInv, WsShape, WsTypeOK
    <2>2. listening' => ws' # 0 /\ working' = 0
      BY <1>1 DEF WsIInv, WsShape, WsTypeOK
    <2> QED
      BY <1>1, <2>1, <2>2, LinksAlone DEF server, wires
  <1>5. OneWay(m) /\ BackOnce(m) /\ m # 0
    BY WsConstants DEF WsIInv, WsOnce
  <1>6. ~Reported(m) /\ ~ToDo(m) /\ m \notin ran
    BY <1>2, <1>5 DEF OneWay
  <1>7. InOrder'
    BY <1>1, <1>3, <1>6 DEF server, wires, WsIInv, WsOnce, InOrder, Reported
  <1>8. ASSUME NEW n \in Sent PROVE (SentOnce(n) /\ BackOnce(n) /\ OneWay(n))'
    <2>1. SentOnce(n) /\ BackOnce(n) /\ OneWay(n) /\ n # 0
      BY WsConstants DEF WsIInv, WsOnce
    <2>2. SentOnce(n)'
      BY <1>1, <2>1 DEF SentOnce, server, wires
    <2>3. BackOnce(n)'
      BY <1>1, <1>3, <1>6, <2>1 DEF BackOnce, Reported, server, wires
    <2>4. (ToDo(n)' <=> ToDo(n)) /\ (Reported(n)' <=> Reported(n) \/ n = m)
      BY <1>1, <1>3 DEF ToDo, Reported, server, wires
    <2>5. OneWay(n)'
      BY <1>1, <1>2, <1>5, <1>6, <2>1, <2>4 DEF OneWay, server
    <2> QED
      BY <2>2, <2>3, <2>5
  <1> QED
    BY <1>4, <1>7, <1>8 DEF WsOnce

LEMMA SendEventInv == WsIInv /\ SendEvent => WsShape' /\ WsOnce'
  <1> SUFFICES ASSUME WsIInv, SendEvent PROVE WsShape' /\ WsOnce'
    OBVIOUS
  <1>1. PICK q \in Seq(Events) : q = queue /\ q # <<>>
    BY DEF SendEvent, WsIInv, WsShape, WsTypeOK
  <1>2. PICK e : e = Head(q)
    OBVIOUS
  <1>3. /\ queue' = Tail(q)
        /\ UNCHANGED <<server, link, toWorker, cuts, ws, listening, working, ran>>
        /\ connected' => connected
        /\ connected' \in BOOLEAN
    <2>1. connected \in BOOLEAN
      BY DEF WsIInv, WsShape, WsTypeOK
    <2>2. connected' \in BOOLEAN /\ (connected' => connected)
      <3>1. (connected /\ connected' \in {TRUE, FALSE}) \/ connected' = connected
        BY Zenon DEF SendEvent
      <3>2. CASE connected' = connected
        BY <2>1, <3>2
      <3>3. CASE connected /\ connected' \in {TRUE, FALSE}
        BY <3>3, Zenon
      <3> QED
        BY <3>1, <3>2, <3>3
    <2> QED
      BY <1>1, <2>2 DEF SendEvent
  <1>4. /\ queue' \in Seq(Events) /\ e \in Events /\ Has(q, e)
        /\ \A n : Has(queue', n) => Has(q, n)
        /\ Distinct(queue') /\ (e \in Sent => ~Has(queue', e))
    <2>1. Distinct(q)
      BY <1>1 DEF WsIInv, WsOnce, InOrder
    <2> QED
      BY <1>1, <1>2, <1>3, <2>1, WsTaken, WsConstants
  <1>5. \/ toServer' = toServer
        \/ ws \in Conns /\ toServer' = [toServer EXCEPT ![ws] = Append(@, e)]
    BY <1>1, <1>2 DEF SendEvent, WsIInv, WsShape, WsTypeOK
  <1>6. /\ toServer' \in [Conns -> Seq(Events)]
        /\ \A d \in Conns : \A n : Has(toServer'[d], n) => Has(toServer[d], n) \/ (d = ws /\ n = e)
        /\ \A d \in Conns : Distinct(toServer[d]) /\ (e \in Sent => ~Has(toServer[d], e))
                             => Distinct(toServer'[d])
    <2>1. toServer \in [Conns -> Seq(Events)]
      BY DEF WsIInv, WsShape, WsTypeOK
    <2>2. CASE toServer' = toServer
      BY <2>1, <2>2
    <2>3. CASE ws \in Conns /\ toServer' = [toServer EXCEPT ![ws] = Append(@, e)]
      <3>1. PICK c \in Conns : c = ws
        BY <2>3
      <3>2. PICK v : v = toServer'
        OBVIOUS
      <3>3. PICK w : w = toServer
        OBVIOUS
      <3>4. Wires(w, Events) /\ PutOn(v, w, c, e) /\ e \in Events
        BY <1>4, <2>1, <2>3, <3>1, <3>2, <3>3 DEF Wires, PutOn
      <3>5. /\ Wires(v, Events)
            /\ \A d \in Conns : \A n : Has(v[d], n) <=> Has(w[d], n) \/ (d = c /\ n = e)
            /\ \A d \in Conns : Distinct(w[d]) /\ (e \in Sent => ~Has(w[d], e)) => Distinct(v[d])
        BY ONLY <3>4, WirePut, c \in Conns
      <3> QED
        BY <3>1, <3>2, <3>3, <3>5 DEF Wires
    <2> QED
      BY <1>5, <2>2, <2>3
  <1>7. WsShape'
    <2>1. connected' => ws' # 0
      BY <1>3 DEF WsIInv, WsShape, WsTypeOK
    <2>2. WsTypeOK'
      <3>1. WsTypeOK /\ UNCHANGED <<current, handler, sends, known, taskState, handled>>
        BY <1>3 DEF server, WsIInv, WsShape
      <3> QED
        BY <1>3, <1>4, <1>6, <2>1, <3>1 DEF WsTypeOK
    <2>3. listening' => ws' # 0 /\ working' = 0
      BY <1>3 DEF WsIInv, WsShape
    <2> QED
      BY <1>3, <2>2, <2>3, LinksAlone DEF server
  <1>8. e \in Sent => /\ ~Has(handled, e) /\ \A d \in Conns : ~Has(toServer[d], e)
                      /\ Reported(e)
    BY <1>1, <1>4 DEF WsIInv, WsOnce, BackOnce, Reported
  <1>9. InOrder'
    BY <1>3, <1>4, <1>6, <1>8 DEF server, WsIInv, WsOnce, InOrder
  <1>10. ASSUME NEW n \in Sent PROVE (SentOnce(n) /\ BackOnce(n) /\ OneWay(n))'
    <2>1. SentOnce(n) /\ BackOnce(n) /\ OneWay(n)
      BY DEF WsIInv, WsOnce
    <2>2. SentOnce(n)'
      BY <1>3, <2>1 DEF SentOnce, server
    <2>3. BackOnce(n)'
      <3>1. Has(queue', n) => Has(queue, n) /\ n # e
        BY <1>1, <1>4
      <3>2. \A d \in Conns : Has(toServer'[d], n) => Has(toServer[d], n) \/ (d = ws /\ n = e)
        BY <1>6
      <3>3. handled' = handled
        BY <1>3 DEF server
      <3> QED
        BY <1>8, <2>1, <3>1, <3>2, <3>3 DEF BackOnce
    <2>4. (ToDo(n)' <=> ToDo(n)) /\ (Reported(n)' => Reported(n))
      BY <1>1, <1>3, <1>4, <1>6, <1>8 DEF ToDo, Reported, server
    <2>5. OneWay(n)'
      BY <1>3, <2>1, <2>4 DEF OneWay, server
    <2> QED
      BY <2>2, <2>3, <2>5
  <1> QED
    BY <1>7, <1>9, <1>10 DEF WsOnce

LEMMA HandleEventInv == ASSUME WsIInv, NEW c \in Conns, HandleEvent(c) PROVE WsShape' /\ WsOnce'
  <1>1. PICK e : e = Head(toServer[c])
    OBVIOUS
  <1>2. /\ toServer[c] # <<>> /\ toServer' = [toServer EXCEPT ![c] = Tail(@)]
        /\ handled' = Append(handled, e) /\ known' = (known \/ e = Register)
        /\ taskState' = IF e = Register THEN taskState ELSE [taskState EXCEPT ![e] = "DONE"]
        /\ UNCHANGED <<current, handler, sends, link, toWorker, cuts, client>>
    BY <1>1 DEF HandleEvent
  <1>3. /\ toServer' \in [Conns -> Seq(Events)] /\ e \in Events /\ Has(toServer[c], e)
        /\ \A d \in Conns : \A n : Has(toServer'[d], n) => Has(toServer[d], n)
        /\ \A d \in Conns : Distinct(toServer'[d])
        /\ e \in Sent => ~Has(toServer'[c], e)
    <2>1. PICK v : v = toServer'
      OBVIOUS
    <2>2. PICK w : w = toServer
      OBVIOUS
    <2>3. Wires(w, Events) /\ w[c] # <<>> /\ TakenOff(v, w, c)
      BY <1>2, <2>1, <2>2, WsConstants DEF Wires, TakenOff, WsIInv, WsShape, WsTypeOK
    <2>4. /\ Wires(v, Events) /\ Head(w[c]) \in Events /\ Has(w[c], Head(w[c]))
          /\ \A d \in Conns : \A n : Has(v[d], n) => Has(w[d], n)
          /\ \A d \in Conns : Distinct(w[d]) => Distinct(v[d])
          /\ Distinct(w[c]) /\ Head(w[c]) \in Sent => ~Has(v[c], Head(w[c]))
      BY <2>3, WireTaken
    <2>5. \A d \in Conns : Distinct(w[d])
      BY <2>2 DEF WsIInv, WsOnce, InOrder
    <2> QED
      BY <1>1, <2>1, <2>2, <2>4, <2>5 DEF Wires
  <1>4. e \in Sent => /\ ~Has(handled, e) /\ ~Has(queue, e) /\ Reported(e)
                      /\ \A d \in Conns : ~Has(toServer'[d], e)
    <2> SUFFICES ASSUME e \in Sent
                 PROVE  /\ ~Has(handled, e) /\ ~Has(queue, e) /\ Reported(e)
                        /\ \A d \in Conns : ~Has(toServer'[d], e)
      OBVIOUS
    <2>1. BackOnce(e)
      BY DEF WsIInv, WsOnce
    <2>2. \A d \in Conns : Has(toServer[d], e) => d = c
      BY <1>3, <2>1 DEF BackOnce
    <2> QED
      BY <1>3, <2>1, <2>2 DEF BackOnce, Reported
  <1>5. /\ handled' \in Seq(Events) /\ \A n : Has(handled', n) <=> Has(handled, n) \/ n = e
        /\ Distinct(handled')
    <2>1. PICK q \in Seq(Events) : q = handled
      BY DEF WsIInv, WsShape, WsTypeOK
    <2>2. Distinct(q)
      BY <2>1 DEF WsIInv, WsOnce, InOrder
    <2> QED
      BY <1>2, <1>3, <1>4, <2>1, <2>2, WsPut
  <1>6. e = Register \/ e \in Sent
    BY <1>3 DEF Events
  <1>7. /\ taskState' \in [Sent -> {"PENDING", "DISPATCHED", "DONE"}]
        /\ \A n \in Sent : n # e => taskState'[n] = taskState[n]
        /\ e \in Sent => taskState'[e] = "DONE"
    BY <1>2, <1>6, WsConstants DEF WsIInv, WsShape, WsTypeOK
  <1>8. WsShape'
    <2>1. known' \in BOOLEAN
      BY <1>2, Zenon DEF WsIInv, WsShape, WsTypeOK
    <2>2. WsTypeOK /\ UNCHANGED <<ws, connected, listening, queue, working, ran>>
      BY <1>2 DEF client, WsIInv, WsShape
    <2>3. WsTypeOK'
      BY <1>2, <1>3, <1>5, <1>7, <2>1, <2>2 DEF WsTypeOK
    <2>4. listening' => ws' # 0 /\ working' = 0
      BY <2>2 DEF WsIInv, WsShape
    <2> QED
      BY <1>2, <2>3, <2>4, LinksAlone
  <1>9. UNCHANGED <<sends, toWorker, queue, working, ran>>
    BY <1>2 DEF client
  <1>10. InOrder'
    BY <1>3, <1>5, <1>9 DEF WsIInv, WsOnce, InOrder
  <1>11. ASSUME NEW n \in Sent PROVE (SentOnce(n) /\ BackOnce(n) /\ OneWay(n))'
    <2>1. SentOnce(n) /\ BackOnce(n) /\ OneWay(n)
      BY DEF WsIInv, WsOnce
    <2>2. SentOnce(n)'
      BY <1>9, <2>1 DEF SentOnce
    <2>3. BackOnce(n)'
      BY <1>3, <1>4, <1>5, <1>9, <2>1 DEF BackOnce
    <2>4. (ToDo(n)' <=> ToDo(n)) /\ (Reported(n)' => Reported(n)) /\ (n = e => Reported(n))
      BY <1>3, <1>4, <1>5, <1>9 DEF ToDo, Reported
    <2>5. OneWay(n)'
      BY <1>7, <1>9, <2>1, <2>4 DEF OneWay
    <2> QED
      BY <2>2, <2>3, <2>5
  <1> QED
    BY <1>8, <1>10, <1>11 DEF WsOnce

LEMMA PublishInv == ASSUME WsIInv, NEW m \in Sent, PublishTask(m) PROVE WsShape' /\ WsOnce'
  <1>1. PICK s : s = [task |-> m, to |-> 0]
    OBVIOUS
  <1>2. s \in PendingSends /\ s.task = m
    BY <1>1 DEF PendingSends
  <1>3. /\ taskState[m] = "PENDING" /\ taskState' = [taskState EXCEPT ![m] = "DISPATCHED"]
        /\ sends' = sends \/ sends' = sends \cup {s}
        /\ UNCHANGED <<current, handler, known, handled, wires, client>>
    BY <1>1 DEF PublishTask
  <1>4. UNCHANGED <<link, toWorker, toServer, cuts, ws, connected, listening, queue, working, ran>>
    BY <1>3 DEF wires, client
  <1>5. /\ taskState' \in [Sent -> {"PENDING", "DISPATCHED", "DONE"}] /\ taskState'[m] = "DISPATCHED"
        /\ \A n \in Sent : n # m => taskState'[n] = taskState[n]
    BY <1>3 DEF WsIInv, WsShape, WsTypeOK
  <1>6. WsShape'
    <2>1. WsTypeOK'
      BY <1>2, <1>3, <1>4, <1>5 DEF WsIInv, WsShape, WsTypeOK
    <2>2. listening' => ws' # 0 /\ working' = 0
      BY <1>4 DEF WsIInv, WsShape
    <2> QED
      BY <1>3, <1>4, <2>1, <2>2, LinksAlone
  <1>7. ~ToDo(m) /\ working # m /\ m \notin ran /\ ~Reported(m)
    BY <1>3 DEF WsIInv, WsOnce, OneWay
  <1>8. InOrder'
    BY <1>3, <1>4 DEF WsIInv, WsOnce, InOrder
  <1>9. ASSUME NEW n \in Sent PROVE (SentOnce(n) /\ BackOnce(n) /\ OneWay(n))'
    <2>1. SentOnce(n) /\ BackOnce(n) /\ OneWay(n)
      BY DEF WsIInv, WsOnce
    <2>2. \A r \in sends' : r \in sends \/ r = s
      BY <1>3
    <2>3. SentOnce(n)'
      BY <1>2, <1>4, <1>7, <2>1, <2>2 DEF SentOnce, ToDo
    <2>4. BackOnce(n)'
      BY <1>3, <1>4, <2>1 DEF BackOnce
    <2>5. (ToDo(n)' => ToDo(n) \/ n = m) /\ (Reported(n)' <=> Reported(n))
      BY <1>2, <1>3, <1>4, <2>2 DEF ToDo, Reported
    <2>6. OneWay(n)'
      BY <1>4, <1>5, <1>7, <2>1, <2>5 DEF OneWay
    <2> QED
      BY <2>3, <2>4, <2>6
  <1> QED
    BY <1>6, <1>8, <1>9 DEF WsOnce

LEMMA LookupInv ==
    ASSUME WsIInv, NEW s \in PendingSends, LookupConnection(s) PROVE WsShape' /\ WsOnce'
  <1>1. PICK t : t = [s EXCEPT !.to = current]
    OBVIOUS
  <1>2. /\ s \in sends /\ sends' = IF current = 0 THEN sends \ {s} ELSE (sends \ {s}) \cup {t}
        /\ UNCHANGED <<current, handler, known, taskState, handled, wires, client>>
    BY <1>1 DEF LookupConnection
  <1>3. t \in PendingSends /\ t.task = s.task
    BY <1>1 DEF PendingSends, WsIInv, WsShape, WsTypeOK
  <1>4. UNCHANGED <<link, toWorker, toServer, cuts, ws, connected, listening, queue, working, ran>>
    BY <1>2 DEF wires, client
  <1>5. WsShape'
    <2>1. WsTypeOK'
      BY <1>2, <1>3, <1>4 DEF WsIInv, WsShape, WsTypeOK
    <2>2. listening' => ws' # 0 /\ working' = 0
      BY <1>4 DEF WsIInv, WsShape
    <2> QED
      BY <1>2, <1>4, <2>1, <2>2, LinksAlone
  <1>6. InOrder'
    BY <1>2, <1>4 DEF WsIInv, WsOnce, InOrder
  <1>7. ASSUME NEW n \in Sent PROVE (SentOnce(n) /\ BackOnce(n) /\ OneWay(n))'
    <2>1. SentOnce(n) /\ BackOnce(n) /\ OneWay(n)
      BY DEF WsIInv, WsOnce
    <2>2. \A r \in sends' : (r \in sends /\ r # s) \/ r = t
      BY <1>2
    <2>3. SentOnce(n)'
      BY <1>2, <1>3, <1>4, <2>1, <2>2 DEF SentOnce
    <2>4. BackOnce(n)'
      BY <1>2, <1>4, <2>1 DEF BackOnce
    <2>5. (ToDo(n)' => ToDo(n)) /\ (Reported(n)' <=> Reported(n))
      BY <1>2, <1>3, <1>4, <2>2 DEF ToDo, Reported
    <2>6. OneWay(n)'
      BY <1>2, <1>4, <2>1, <2>5 DEF OneWay
    <2> QED
      BY <2>3, <2>4, <2>6
  <1> QED
    BY <1>5, <1>6, <1>7 DEF WsOnce

LEMMA WriteInv ==
    ASSUME WsIInv, NEW s \in PendingSends, WriteTask(s) PROVE WsShape' /\ WsOnce'
  <1>1. PICK m \in Sent : m = s.task
    BY DEF PendingSends
  <1>2. PICK c \in Conns : c = s.to
    BY DEF WriteTask, PendingSends
  <1>3. /\ s \in sends /\ sends' = sends \ {s}
        /\ UNCHANGED <<handler, known, taskState, handled, toServer, cuts, client>>
        /\ \/ toWorker' = [toWorker EXCEPT ![c] = Append(@, m)] /\ UNCHANGED <<current, link>>
           \/ toWorker' = toWorker /\ UNCHANGED <<current, link>>
           \/ toWorker' = toWorker /\ DropEntry
    BY <1>1, <1>2 DEF WriteTask
  <1>4. UNCHANGED <<ws, connected, listening, queue, working, ran>>
    BY <1>3 DEF client
  <1>5. SentOnce(m) /\ ToDo(m) /\ \A d \in Conns : ~Has(toWorker[d], m)
    BY <1>1, <1>3 DEF WsIInv, WsOnce, SentOnce, ToDo
  <1>6. /\ toWorker' \in [Conns -> Seq(Sent)]
        /\ \A d \in Conns : \A n : Has(toWorker'[d], n) => Has(toWorker[d], n) \/ (d = c /\ n = m)
        /\ \A d \in Conns : Distinct(toWorker'[d])
    <2>1. CASE toWorker' = toWorker
      BY <2>1 DEF WsIInv, WsShape, WsTypeOK, WsOnce, InOrder
    <2>2. CASE toWorker' = [toWorker EXCEPT ![c] = Append(@, m)]
      <3>1. PICK v : v = toWorker'
        OBVIOUS
      <3>2. PICK w : w = toWorker
        OBVIOUS
      <3>3. Wires(w, Sent) /\ PutOn(v, w, c, m)
        BY <2>2, <3>1, <3>2 DEF Wires, PutOn, WsIInv, WsShape, WsTypeOK
      <3>4. /\ Wires(v, Sent)
            /\ \A d \in Conns : \A n : Has(v[d], n) <=> Has(w[d], n) \/ (d = c /\ n = m)
            /\ \A d \in Conns : Distinct(w[d]) /\ (m \in Sent => ~Has(w[d], m)) => Distinct(v[d])
        BY <3>3, WirePut
      <3>5. \A d \in Conns : Distinct(w[d])
        BY <3>2 DEF WsIInv, WsOnce, InOrder
      <3> QED
        BY <1>5, <3>1, <3>2, <3>4, <3>5 DEF Wires
    <2> QED
      BY <1>3, <2>1, <2>2
  <1>7. WsShape'
    <2>1. CASE UNCHANGED <<current, link>>
      <3>1. WsTypeOK'
        BY <1>3, <1>4, <1>6, <2>1 DEF WsIInv, WsShape, WsTypeOK
      <3>2. listening' => ws' # 0 /\ working' = 0
        BY <1>4 DEF WsIInv, WsShape
      <3> QED
        BY <1>3, <2>1, <3>1, <3>2, LinksAlone
    <2>2. CASE DropEntry
      <3>1. /\ current' = 0
            /\ link' \in [Conns -> {"none", "up", "cut", "closed"}]
            /\ \A d \in Conns : (link'[d] = "none") <=> (link[d] = "none")
        <4>1. CASE current = 0
          BY <2>2, <4>1 DEF DropEntry, WsIInv, WsShape, WsTypeOK
        <4>2. CASE current # 0
          <5>1. current \in Conns /\ WsTypeOK
            BY <4>2 DEF WsIInv, WsShape, WsTypeOK
          <5> QED
            BY <2>2, <4>2, <5>1, CloseLinkFacts DEF DropEntry
        <4> QED
          BY <4>1, <4>2
      <3>2. \E k \in 0 .. MaxConns : Opened' = 1 .. k
        BY <3>1, SameOpened DEF WsIInv, WsShape
      <3>3. WsTypeOK'
        BY <1>3, <1>4, <1>6, <3>1 DEF WsIInv, WsShape, WsTypeOK
      <3> QED
        BY <1>3, <1>4, <3>1, <3>2, <3>3 DEF WsIInv, WsShape, NoGhostConnection
    <2> QED
      BY <1>3, <2>1, <2>2
  <1>8. InOrder'
    BY <1>3, <1>4, <1>6 DEF WsIInv, WsOnce, InOrder
  <1>9. ASSUME NEW n \in Sent PROVE (SentOnce(n) /\ BackOnce(n) /\ OneWay(n))'
    <2>1. SentOnce(n) /\ BackOnce(n) /\ OneWay(n)
      BY DEF WsIInv, WsOnce
    <2>2. \A r \in sends' : r \in sends /\ (r.task = m => r = s) /\ r # s
      BY <1>1, <1>3, <1>5 DEF SentOnce
    <2>3. SentOnce(n)'
      BY <1>1, <1>3, <1>5, <1>6, <2>1, <2>2 DEF SentOnce
    <2>4. BackOnce(n)'
      BY <1>3, <1>4, <2>1 DEF BackOnce
    <2>5. (ToDo(n)' => ToDo(n)) /\ (Reported(n)' <=> Reported(n))
      BY <1>3, <1>4, <1>5, <1>6, <2>2 DEF ToDo, Reported
    <2>6. OneWay(n)'
      BY <1>3, <1>4, <2>1, <2>5 DEF OneWay
    <2> QED
      BY <2>3, <2>4, <2>6
  <1> QED
    BY <1>7, <1>8, <1>9 DEF WsOnce

-----------------------------------------------------------------------------
(* While no link is broken.                                                *)
Kept(n) == ToDo(n) \/ working = n \/ Has(queue, n) \/ Has(toServer[1], n)
OnlyFirst(n) == Has(toWorker[1], n) \/ ~(\E c \in Conns : Has(toWorker[c], n))

LEMMA SteadyCases ==
    ASSUME WsIInv, cuts' \in Nat, cuts' = 0 => cuts = 0,
           cuts = 0 /\ cuts' = 0 /\ NotConnected => (NotConnected \/ OneConnection)',
           cuts = 0 /\ cuts' = 0 /\ OneConnection => OneConnection'
    PROVE  WsSteady'
  BY DEF WsIInv, WsSteady

LEMMA CutsBack ==
    ASSUME WsIInv, cuts' = cuts
    PROVE  cuts' \in Nat /\ (cuts' = 0 => cuts = 0)
  BY WsAssumption DEF WsIInv, WsShape, WsTypeOK

LEMMA ConnectSteady == WsIInv /\ Connect => WsSteady'
  <1> SUFFICES ASSUME WsIInv, Connect PROVE WsSteady'
    OBVIOUS
  <1>1. cuts' = cuts
    BY DEF Connect
  <1>2. ~OneConnection
    BY DEF OneConnection, Connect
  <1>3. ASSUME NotConnected PROVE OneConnection'
    <2>1. Opened = {} /\ Cardinality(Opened) + 1 = 1
      BY <1>3, FS_EmptySet DEF NotConnected, Opened
    <2>2. /\ link' = [link EXCEPT ![1] = "up"] /\ handler' = [handler EXCEPT ![1] = "accepted"] /\ ws' = 1
          /\ connected' = TRUE
          /\ UNCHANGED <<current, sends, known, taskState, toWorker>>
      BY <2>1 DEF Connect
    <2>3. /\ link'[1] = "up" /\ handler'[1] = "accepted"
          /\ \A c \in Conns \ {1} : link'[c] = "none" /\ handler'[c] = "none"
      BY <1>3, <2>2, WsConstants DEF NotConnected, WsIInv, WsShape, WsTypeOK
    <2>4. \A n \in Sent : taskState'[n] = "PENDING" /\ \A c \in Conns : ~Has(toWorker'[c], n)
      BY <1>3, <2>2 DEF NotConnected, WsIInv, WsOnce, OneWay, ToDo
    <2> QED
      BY <1>3, <2>2, <2>3, <2>4 DEF NotConnected, OneConnection
  <1> QED
    BY <1>1, <1>2, <1>3, CutsBack, SteadyCases

(* The client's other steps, and those of the sending threads: the table,  *)
(* the links and the handlers stay, and a task is passed on.               *)
LEMMA PassedOn ==
    ASSUME WsIInv, OneConnection, UNCHANGED <<link, handler, current, ws, connected, known>>,
           sends' # {} => handler[1] = "open", \A s \in sends' : s.to \in {0, 1},
           \A n \in Sent : taskState'[n] = "DISPATCHED" => Kept(n)',
           \A n \in Sent : OnlyFirst(n)'
    PROVE  OneConnection'
  BY DEF OneConnection, Kept, OnlyFirst

LEMMA StaysUnconnected ==
    ASSUME NotConnected, UNCHANGED <<link, handler, current, ws, connected, known, sends, taskState>>
    PROVE  NotConnected'
  BY DEF NotConnected

LEMMA ClientSteady ==
    WsIInv /\ (ReceiveTask \/ FinishTask \/ NoticeClosed \/ SendEvent) => WsSteady'
  <1> SUFFICES ASSUME WsIInv, ReceiveTask \/ FinishTask \/ NoticeClosed \/ SendEvent PROVE WsSteady'
    OBVIOUS
  <1>1. cuts' = cuts /\ UNCHANGED <<link, handler, current, known, sends, taskState>>
    BY DEF ReceiveTask, FinishTask, NoticeClosed, SendEvent, server, wires
  <1>2. ASSUME NotConnected PROVE NotConnected'
    <2>1. ~ReceiveTask /\ ~NoticeClosed
      BY <1>2 DEF NotConnected, ReceiveTask, NoticeClosed, WsIInv, WsShape
    <2>2. UNCHANGED <<ws, connected>>
      BY <1>2, <2>1, Zenon DEF FinishTask, SendEvent, NotConnected
    <2> QED
      BY <1>1, <1>2, <2>2, StaysUnconnected
  <1>3. ASSUME OneConnection PROVE OneConnection'
    <2>1. /\ link[1] = "up" /\ ws = 1 /\ connected
          /\ sends # {} => handler[1] = "open"
          /\ \A s \in sends : s.to \in {0, 1}
      BY <1>3 DEF OneConnection
    <2>2. \A n \in Sent : (taskState[n] = "DISPATCHED" => Kept(n)) /\ OnlyFirst(n)
      BY <1>3 DEF OneConnection, Kept, OnlyFirst
    <2>3. ~NoticeClosed
      BY <2>1 DEF NoticeClosed
    <2>4. UNCHANGED <<ws, connected>>
      BY <2>1, <2>3, Zenon DEF ReceiveTask, FinishTask, SendEvent
    <2>5. ASSUME NEW n \in Sent PROVE (Kept(n) => Kept(n)') /\ OnlyFirst(n)'
      <3>1. CASE ReceiveTask
        <4>1. PICK w : w = toWorker
          OBVIOUS
        <4>2. PICK v : v = toWorker'
          OBVIOUS
        <4>9. PICK c \in Conns : c = 1
          BY WsConstants
        <4>3. /\ Wires(w, Sent) /\ TakenOff(v, w, c) /\ w[c] # <<>> /\ working' = Head(w[c])
              /\ UNCHANGED <<sends, queue, toServer>>
          BY <2>1, <3>1, <4>1, <4>2, <4>9 DEF ReceiveTask, Wires, TakenOff, WsIInv, WsShape, WsTypeOK, server
        <4>10. OnlyHeadLeaves(v, w, c) /\ \A d \in Conns : \A e : Has(v[d], e) => Has(w[d], e)
          <5>1. Wires(w, Sent) /\ TakenOff(v, w, c) /\ w[c] # <<>>
            BY ONLY <4>3
          <5> QED
            BY ONLY <5>1, WireTaken, c \in Conns
        <4>4. /\ \A d \in Conns : Has(v[d], n) => Has(w[d], n)
              /\ \A d \in Conns : Has(w[d], n) => Has(v[d], n) \/ (d = 1 /\ n = Head(w[1]))
          BY <4>9, <4>10 DEF OnlyHeadLeaves
        <4>5. working = 0 \/ working \in Sent
          BY DEF WsIInv, WsShape, WsTypeOK
        <4>6. working = 0
          BY <3>1 DEF ReceiveTask, WsIInv, WsShape
        <4>7. Kept(n) => Kept(n)'
          BY <4>1, <4>2, <4>3, <4>4, <4>6, <4>9, WsConstants DEF Kept, ToDo
        <4>8. OnlyFirst(n)'
          <5>1. \A b, d \in Conns : Has(w[b], n) /\ Has(w[d], n) => b = d
            BY <4>1 DEF WsIInv, WsOnce, SentOnce
          <5> QED
            BY <2>2, <4>1, <4>2, <4>4, <5>1, WsConstants DEF OnlyFirst
        <4> QED
          BY <4>7, <4>8
      <3>2. CASE FinishTask
        <4>1. /\ working \in Sent /\ queue' = Append(queue, working)
              /\ UNCHANGED <<sends, toWorker, toServer>>
          BY <3>2 DEF FinishTask, server, wires, WsIInv, WsShape, WsTypeOK
        <4>2. \A e : Has(queue', e) <=> Has(queue, e) \/ e = working
          <5>1. PICK q \in Seq(Events) : q = queue
            BY DEF WsIInv, WsShape, WsTypeOK
          <5>2. PICK m \in Events : m = working
            BY <4>1, WsConstants
          <5>3. \A e : Has(Append(q, m), e) <=> Has(q, e) \/ e = m
            BY WsPut
          <5> QED
            BY <4>1, <5>1, <5>2, <5>3
        <4> QED
          BY <2>2, <4>1, <4>2 DEF Kept, ToDo, OnlyFirst
      <3>3. CASE SendEvent
        <4>1. PICK q \in Seq(Events) : q = queue /\ q # <<>>
          BY <3>3 DEF SendEvent, WsIInv, WsShape, WsTypeOK
        <4>2. PICK e : e = Head(q)
          OBVIOUS
        <4>3. /\ queue' = Tail(q) /\ toServer' = [toServer EXCEPT ![1] = Append(@, e)]
              /\ UNCHANGED <<sends, toWorker, working>>
          BY <2>1, <3>3, <4>1, <4>2 DEF SendEvent, server
        <4>4. e \in Events /\ (Has(q, n) => n = e \/ Has(queue', n))
          BY <4>1, <4>2, <4>3, WsTaken, WsConstants
        <4>5. Has(toServer'[1], n) <=> Has(toServer[1], n) \/ n = e
          <5>1. PICK w : w = toServer
            OBVIOUS
          <5>2. PICK v : v = toServer'
            OBVIOUS
          <5>3. Wires(w, Events) /\ PutOn(v, w, 1, e)
            BY <4>3, <5>1, <5>2 DEF Wires, PutOn, WsIInv, WsShape, WsTypeOK
          <5>4. Has(v[1], n) <=> Has(w[1], n) \/ (1 = 1 /\ n = e)
            BY <4>4, <5>3, WirePut, WsConstants
          <5> QED
            BY <5>1, <5>2, <5>4
        <4> QED
          BY <2>2, <4>1, <4>3, <4>4, <4>5 DEF Kept, ToDo, OnlyFirst
      <3> QED
        BY <2>3, <3>1, <3>2, <3>3
    <2> QED
      BY <1>1, <1>3, <2>1, <2>2, <2>4, <2>5, PassedOn
  <1> QED
    BY <1>1, <1>2, <1>3, CutsBack, SteadyCases

LEMMA HandlerSteady == ASSUME WsIInv, NEW c \in Conns, HandlerStep(c) \/ CutLink(c) PROVE WsSteady'
  <1>1. /\ cuts' \in Nat
        /\ cuts' = 0 => cuts = 0 /\ ~CutLink(c)
    <2>1. cuts \in Nat /\ cuts' \in {cuts, cuts + 1} /\ (CutLink(c) => cuts' = cuts + 1)
      <3>1. cuts \in Nat
        BY WsAssumption DEF WsIInv, WsShape, WsTypeOK
      <3>2. HandlerStep(c) => cuts' = cuts
        BY DEF HandlerStep, RegisterWorker, HandleEvent, HandlerEnds, Unregister, wires
      <3>3. CutLink(c) => cuts' = cuts + 1
        BY DEF CutLink
      <3> QED
        BY <3>1, <3>2, <3>3
    <2> QED
      BY <2>1
  <1>2. ~(NotConnected /\ HandlerStep(c))
    BY DEF NotConnected, HandlerStep, RegisterWorker, HandleEvent, HandlerEnds, Unregister
  <1>3. ASSUME OneConnection, HandlerStep(c) PROVE OneConnection'
    <2>1. /\ link[1] = "up" /\ handler[1] \in {"accepted", "open"} /\ ws = 1 /\ connected
          /\ current = IF handler[1] = "open" THEN 1 ELSE 0
          /\ known \/ sends # {} => handler[1] = "open"
          /\ \A d \in Conns \ {1} : link[d] = "none" /\ handler[d] = "none"
          /\ \A s \in sends : s.to \in {0, 1}
      BY <1>3 DEF OneConnection
    <2>2. \A n \in Sent : (taskState[n] = "DISPATCHED" => Kept(n)) /\ OnlyFirst(n)
      BY <1>3 DEF OneConnection, Kept, OnlyFirst
    <2>3. c = 1 /\ ~HandlerEnds(c) /\ ~Unregister(c)
      BY <1>3, <2>1 DEF HandlerStep, RegisterWorker, HandleEvent, HandlerEnds, Unregister
    <2>4. CASE RegisterWorker(c)
      <3>1. /\ link' = link /\ current' = 1 /\ handler' = [handler EXCEPT ![1] = "open"]
            /\ UNCHANGED <<sends, known, taskState, toWorker, toServer, ws, connected, queue, working>>
        BY <2>1, <2>3, <2>4 DEF RegisterWorker, client
      <3>2. handler'[1] = "open" /\ \A d \in Conns \ {1} : handler'[d] = handler[d]
        BY <3>1, WsConstants DEF WsIInv, WsShape, WsTypeOK
      <3>3. \A n \in Sent : (taskState'[n] = "DISPATCHED" => Kept(n)') /\ OnlyFirst(n)'
        BY <2>2, <3>1 DEF Kept, ToDo, OnlyFirst
      <3> QED
        BY <2>1, <3>1, <3>2, <3>3 DEF OneConnection, Kept, OnlyFirst
    <2>5. CASE HandleEvent(c)
      <3>1. PICK w : w = toServer
        OBVIOUS
      <3>2. PICK v : v = toServer'
        OBVIOUS
      <3>3. PICK e : e = Head(w[c])
        OBVIOUS
      <3>4. /\ handler[1] = "open" /\ taskState' = IF e = Register THEN taskState ELSE [taskState EXCEPT ![e] = "DONE"]
            /\ UNCHANGED <<current, handler, sends, link, toWorker, ws, connected, queue, working>>
            /\ TakenOff(v, w, c) /\ Wires(w, Events) /\ w[c] # <<>>
        BY <2>3, <2>5, <3>1, <3>2, <3>3, WsConstants
           DEF HandleEvent, client, TakenOff, Wires, WsIInv, WsShape, WsTypeOK
      <3>5. Head(w[c]) \in Events /\ OnlyHeadLeaves(v, w, c)
        BY <3>4, WireTaken
      <3>6. ASSUME NEW n \in Sent PROVE (taskState'[n] = "DISPATCHED" => Kept(n)') /\ OnlyFirst(n)'
        <4>1. taskState'[n] = "DISPATCHED" => taskState[n] = "DISPATCHED" /\ n # e
          <5>1. e = Register \/ e \in Sent
            BY <3>3, <3>5 DEF Events
          <5> QED
            BY <3>4, <5>1, WsConstants DEF WsIInv, WsShape, WsTypeOK
        <4>2. Has(toServer[1], n) => Has(toServer'[1], n) \/ n = e
          BY <2>3, <3>1, <3>2, <3>3, <3>5 DEF OnlyHeadLeaves
        <4> QED
          BY <2>2, <3>4, <4>1, <4>2 DEF Kept, ToDo, OnlyFirst
      <3> QED
        BY <2>1, <3>4, <3>6 DEF OneConnection, Kept, OnlyFirst
    <2> QED
      BY <1>3, <2>3, <2>4, <2>5 DEF HandlerStep
  <1>4. cuts' = 0 => HandlerStep(c)
    BY <1>1
  <1> QED
    BY <1>1, <1>2, <1>3, <1>4, SteadyCases

LEMMA SendSteady ==
    WsIInv /\ (\/ \E m \in Sent : PublishTask(m)
               \/ \E s \in PendingSends : LookupConnection(s) \/ WriteTask(s))
        => WsSteady'
  <1> SUFFICES ASSUME WsIInv, \/ \E m \in Sent : PublishTask(m)
                              \/ \E s \in PendingSends : LookupConnection(s) \/ WriteTask(s)
               PROVE  WsSteady'
    OBVIOUS
  <1>1. cuts' = cuts /\ UNCHANGED <<handler, known, ws, connected, queue, working, toServer>>
    BY DEF PublishTask, LookupConnection, WriteTask, client, wires
  <1>2. ~NotConnected
    BY DEF NotConnected, PublishTask, LookupConnection, WriteTask
  <1>3. ASSUME OneConnection PROVE OneConnection'
    <2>1. /\ link[1] = "up" /\ 1 \in Conns
          /\ current = IF handler[1] = "open" THEN 1 ELSE 0
          /\ known \/ sends # {} => handler[1] = "open"
          /\ \A s \in sends : s.to \in {0, 1}
      BY <1>3, WsConstants DEF OneConnection
    <2>2. \A n \in Sent : (taskState[n] = "DISPATCHED" => Kept(n)) /\ OnlyFirst(n)
      BY <1>3 DEF OneConnection, Kept, OnlyFirst
    <2>3. ASSUME NEW m \in Sent, PublishTask(m) PROVE OneConnection'
      <3>1. handler[1] = "open" /\ current = 1
        BY <2>1, <2>3 DEF PublishTask
      <3>2. PICK s : s = [task |-> m, to |-> 0]
        OBVIOUS
      <3>3. /\ sends' = sends \cup {s} /\ s.task = m /\ s.to = 0
            /\ taskState' = [taskState EXCEPT ![m] = "DISPATCHED"]
            /\ UNCHANGED <<link, current, toWorker>>
        BY <2>3, <3>1, <3>2 DEF PublishTask, wires
      <3>4. ASSUME NEW n \in Sent PROVE (taskState'[n] = "DISPATCHED" => Kept(n)') /\ OnlyFirst(n)'
        <4>1. n # m => taskState'[n] = taskState[n]
          BY <3>3 DEF WsIInv, WsShape, WsTypeOK
        <4>2. ToDo(n)' <=> ToDo(n) \/ n = m
          BY <3>3 DEF ToDo
        <4> QED
          BY <1>1, <2>2, <3>3, <4>1, <4>2 DEF Kept, OnlyFirst
      <3> QED
        BY <1>1, <1>3, <2>1, <3>1, <3>3, <3>4, PassedOn
    <2>4. ASSUME NEW s \in PendingSends, LookupConnection(s) PROVE OneConnection'
      <3>1. PICK t : t = [s EXCEPT !.to = current]
        OBVIOUS
      <3>2. s \in sends /\ handler[1] = "open" /\ current = 1
        BY <2>1, <2>4 DEF LookupConnection
      <3>3. /\ sends' = (sends \ {s}) \cup {t} /\ t.task = s.task /\ t.to = 1
            /\ UNCHANGED <<link, current, toWorker, taskState>>
        BY <2>4, <3>1, <3>2 DEF LookupConnection, wires, PendingSends
      <3>4. ASSUME NEW n \in Sent PROVE (taskState'[n] = "DISPATCHED" => Kept(n)') /\ OnlyFirst(n)'
        <4>1. ToDo(n)' <=> ToDo(n)
          BY <3>2, <3>3 DEF ToDo
        <4> QED
          BY <1>1, <2>2, <3>3, <4>1 DEF Kept, OnlyFirst
      <3> QED
        BY <1>1, <1>3, <2>1, <3>2, <3>3, <3>4, PassedOn
    <2>5. ASSUME NEW s \in PendingSends, WriteTask(s) PROVE OneConnection'
      <3>1. s \in sends /\ s.to = 1 /\ handler[1] = "open"
        BY <2>1, <2>5 DEF WriteTask
      <3>2. PICK c \in Conns : c = 1
        BY <2>1
      <3>3. PICK m \in Sent : m = s.task
        BY DEF PendingSends
      <3>4. PICK w : w = toWorker
        OBVIOUS
      <3>5. PICK v : v = toWorker'
        OBVIOUS
      <3>6. /\ sends' = sends \ {s} /\ PutOn(v, w, c, m) /\ Wires(w, Sent)
            /\ UNCHANGED <<current, link, taskState>>
        BY <2>1, <2>5, <3>1, <3>2, <3>3, <3>4, <3>5 DEF WriteTask, PutOn, Wires, WsIInv, WsShape, WsTypeOK
      <3>7. \A d \in Conns : \A n : Has(v[d], n) <=> Has(w[d], n) \/ (d = c /\ n = m)
        BY <3>6, WirePut
      <3>8. ASSUME NEW n \in Sent PROVE (taskState'[n] = "DISPATCHED" => Kept(n)') /\ OnlyFirst(n)'
        <4>1. \A d \in Conns : Has(toWorker'[d], n) <=> Has(toWorker[d], n) \/ (d = 1 /\ n = m)
          BY <3>2, <3>4, <3>5, <3>7
        <4>2. ToDo(n) => ToDo(n)'
          BY <2>1, <3>3, <3>6, <4>1 DEF ToDo
        <4>3. OnlyFirst(n)'
          <5>1. n = m => \A d \in Conns : ~Has(toWorker[d], n)
            BY <3>1, <3>3 DEF WsIInv, WsOnce, SentOnce
          <5> QED
            BY <2>1, <2>2, <4>1, <5>1 DEF OnlyFirst
        <4> QED
          BY <1>1, <2>2, <3>6, <4>2, <4>3 DEF Kept
      <3> QED
        BY <1>1, <1>3, <2>1, <3>1, <3>6, <3>8, PassedOn
    <2> QED
      BY <2>3, <2>4, <2>5
  <1> QED
    BY <1>1, <1>2, <1>3, CutsBack, SteadyCases

LEMMA TableOnce ==
    ASSUME WsIInv, \/ NoticeClosed
                   \/ \E c \in Conns : RegisterWorker(c) \/ HandlerEnds(c) \/ Unregister(c) \/ CutLink(c)
    PROVE  WsOnce'
  <1>1. UNCHANGED <<sends, taskState, toWorker, toServer, queue, handled, working, ran>>
    BY DEF NoticeClosed, RegisterWorker, HandlerEnds, Unregister, CutLink, server, wires, client
  <1> QED
    BY <1>1, SameOnce DEF WsIInv

LEMMA WsUnchanged == WsIInv /\ UNCHANGED wsVars => WsIInv'
  <1> SUFFICES ASSUME WsIInv, UNCHANGED wsVars PROVE WsIInv'
    OBVIOUS
  <1>1. /\ UNCHANGED <<current, handler, sends, known, taskState, handled, link, toWorker, toServer, cuts>>
        /\ UNCHANGED <<ws, connected, listening, queue, working, ran>>
    BY DEF wsVars, server, wires, client
  <1>2. WsTypeOK'
    BY <1>1 DEF WsIInv, WsShape, WsTypeOK
  <1>3. WsShape'
    BY <1>1, <1>2, LinksAlone DEF WsIInv, WsShape
  <1>4. WsOnce'
    BY <1>1, SameOnce DEF WsIInv
  <1>5. WsSteady'
    BY <1>1 DEF WsIInv, WsSteady, NotConnected, OneConnection, ToDo
  <1> QED
    BY <1>3, <1>4, <1>5 DEF WsIInv

LEMMA WsStepInv == WsIInv /\ [WsNext]_wsVars => WsIInv'
  <1> SUFFICES ASSUME WsIInv, WsNext PROVE WsIInv'
    BY WsUnchanged
  <1>1. CASE ClientStep
    <2>1. WsShape'
      BY <1>1, ConnectShape, ReceiveTaskInv, FinishTaskInv, SendEventInv, QuietShape DEF ClientStep
    <2>2. WsOnce'
      BY <1>1, ConnectOnce, ReceiveTaskInv, FinishTaskInv, SendEventInv, TableOnce DEF ClientStep
    <2>3. WsSteady'
      BY <1>1, ConnectSteady, ClientSteady DEF ClientStep
    <2> QED
      BY <2>1, <2>2, <2>3 DEF WsIInv
  <1>2. ASSUME NEW c \in Conns, HandlerStep(c) \/ CutLink(c) PROVE WsIInv'
    <2>1. WsShape'
      BY <1>2, RegisterShape, UnregisterShape, HandleEventInv, QuietShape DEF HandlerStep
    <2>2. WsOnce'
      BY <1>2, HandleEventInv, TableOnce DEF HandlerStep
    <2>3. WsSteady'
      BY <1>2, HandlerSteady
    <2> QED
      BY <2>1, <2>2, <2>3 DEF WsIInv
  <1>3. ASSUME NEW m \in Sent, PublishTask(m) PROVE WsIInv'
    BY <1>3, PublishInv, SendSteady DEF WsIInv
  <1>4. ASSUME NEW s \in PendingSends, SendStep(s) PROVE WsIInv'
    BY <1>4, LookupInv, WriteInv, SendSteady DEF WsIInv, SendStep
  <1> QED
    BY <1>1, <1>2, <1>3, <1>4 DEF WsNext

(* A task's report is in one place of the queue, the wires and the history. *)
LEMMA OnePlaceOnly ==
    ASSUME WsIInv, NEW n \in Sent PROVE InOnePlace(n)
  <1> SUFFICES ASSUME NEW j \in Trails, NEW k \in Trails,
                      NEW x \in DOMAIN Trail(j), NEW y \in DOMAIN Trail(k),
                      Trail(j)[x] = n, Trail(k)[y] = n
               PROVE  j = k /\ x = y
    BY DEF InOnePlace
  <1>1. BackOnce(n)
    BY DEF WsIInv, WsOnce
  <1>2. Has(Trail(j), n) /\ Has(Trail(k), n)
    BY DEF Has
  <1>3. /\ j = 0 \/ j \in Conns \/ j = MaxConns + 1
        /\ k = 0 \/ k \in Conns \/ k = MaxConns + 1
        /\ MaxConns + 1 \notin Conns /\ MaxConns + 1 # 0 /\ 0 \notin Conns
    BY WsConstants DEF Trails, Conns
  <1>4. j = k
    BY <1>1, <1>2, <1>3 DEF BackOnce, Trail
  <1>5. Distinct(Trail(j))
    BY <1>3 DEF WsIInv, WsOnce, InOrder, Trail
  <1> QED
    BY <1>4, <1>5 DEF Distinct

(* For any number of tasks, connections and broken links, and whatever the *)
(* client's delay: the connection table never names a connection whose     *)
(* handler has ended, a report is taken once, a task that is DONE was run, *)
(* and until a link breaks no task is lost between a sending thread and    *)
(* its report.                                                             *)
THEOREM ConnectionsAgree == WsSpec => []WsInv
  <1>1. ASSUME WsIInv PROVE WsInv
    <2>1. ReportedOnce
      BY <1>1, OnePlaceOnly DEF WsIInv, WsOnce, OneWay, ReportedOnce
    <2>2. SteadyLinkDelivers
      <3> SUFFICES ASSUME cuts = 0, NEW n \in Sent, taskState[n] = "DISPATCHED"
                   PROVE  \/ \E s \in sends : s.task = n
                          \/ OnWire(n) \/ working = n
                          \/ \E i \in DOMAIN queue : queue[i] = n
        BY DEF SteadyLinkDelivers
      <3>1. OneConnection
        BY <1>1 DEF WsIInv, WsSteady, NotConnected
      <3>2. link[1] = "up" /\ 1 \in Conns /\ (Has(toWorker[1], n) \/ Has(toServer[1], n) => OnWire(n))
        BY <3>1, WsConstants DEF OneConnection, OnWire, Has
      <3> QED
        BY <3>1, <3>2 DEF OneConnection, ToDo, Has
    <2> QED
      BY <1>1, <2>1, <2>2 DEF WsIInv, WsShape, WsInv
  <1> QED
    BY <1>1, WsInitInv, WsStepInv, PTL DEF WsSpec

=============================================================================
