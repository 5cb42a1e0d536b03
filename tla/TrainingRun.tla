----------------------------- MODULE TrainingRun -----------------------------
(***************************************************************************)
(* One training task on a worker: SFTExecutor, LoRASFTExecutor,            *)
(* DPOExecutor and PPOExecutor.  SFTExecutor may launch itself once per    *)
(* GPU with torchrun or DeepSpeed; the ranks share the output directory    *)
(* with each other and, when the launch fails, with the parent, which then *)
(* trains in its own process.  The trainer libraries are external: with    *)
(* several ranks save_model writes on the first one and is no barrier.     *)
(***************************************************************************)
EXTENDS Naturals, FiniteSets

CONSTANT NumRanks  \* GPUs of the worker, and ranks of a launch

ASSUME TrainingAssumption == NumRanks \in Nat \ {0, 1}

Parent == 0
Ranks == 1 .. NumRanks
Processes == {Parent} \cup Ranks
IsMain(p) == p \in {Parent, 1}

Configs ==
    [kind : {"sft", "lora", "dpo", "ppo"},
     multi : BOOLEAN,      \* allow_multi_gpu
     deepspeed : BOOLEAN,  \* there is a DeepSpeed configuration
     devices : {0, 1, NumRanks}, \* visible_devices, 0 if it names none
     resume : BOOLEAN,     \* a checkpoint to be loaded over HTTP
     save : BOOLEAN,       \* save_model
     http : BOOLEAN]       \* the result destination is HTTP

VARIABLES
    config,     \* the training task
    visible,    \* GPUs in CUDA_VISIBLE_DEVICES, left so to later tasks
    pc,         \* where each process is
    checkpoint, \* imported_checkpoint in the output directory
    model,      \* final_model or final_lora
    archive,    \* its zip file, and the process whose file has that name
    seen,       \* what each process has packed
    uploaded,   \* the archive as the orchestrator has it
    url,        \* final_model_archive_url in the payload of each process
    document,   \* responses.json
    outcome     \* what run() returned or raised in the parent

trainingVars == <<config, visible, pc, checkpoint, model, archive, seen, uploaded, url, document, outcome>>
files == <<checkpoint, model, archive, seen, uploaded, url>>
results == <<document, outcome>>

NoDocument == [ok |-> FALSE, url |-> FALSE, saved |-> FALSE]
Failure == NoDocument

TrainingInit ==
    /\ config \in {c \in Configs :
            /\ c.kind # "sft" => ~ c.deepspeed
            /\ c.kind \in {"dpo", "ppo"} => ~ c.multi /\ c.devices = 0 /\ ~ c.resume /\ ~ c.http}
    /\ visible \in {1, NumRanks}
    /\ pc = [p \in Processes |-> IF p = Parent THEN "configure" ELSE "off"]
    /\ checkpoint = "none" /\ model = "none"
    /\ archive = [content |-> "none", by |-> Parent]
    /\ seen = [p \in Processes |-> "none"]
    /\ uploaded = "none" /\ url = [p \in Processes |-> FALSE]
    /\ document = NoDocument /\ outcome = NoDocument

Goto(p, label) == pc' = [pc EXCEPT ![p] = label]

(* An exception in run(): the failure document, and an ExecutionError. *)
Raise(p) == /\ Goto(p, "failed")
            /\ document' = Failure
            /\ outcome' = IF p = Parent THEN Failure ELSE outcome

-----------------------------------------------------------------------------
VisibleAsAsked == IF config.kind \in {"sft", "lora"} /\ ~ config.multi
                  THEN config.devices ELSE visible

(* _configure_devices: the GPUs asked for; without permission for several, *)
(* one of those there are.                                                 *)
VisibleAfter == CASE config.kind \in {"dpo", "ppo"} -> visible
                  [] config.kind \in {"sft", "lora"} /\ config.devices # 0 -> config.devices
                  [] OTHER -> IF config.multi THEN visible ELSE 1

(* The SFT task wants ranks. *)
Distributed == config.kind = "sft" /\ (config.multi \/ config.deepspeed)

ConfigureDevices ==
    /\ pc[Parent] = "configure"
    /\ visible' = VisibleAfter
    /\ Goto(Parent, IF Distributed /\ visible' > 1 THEN "launch" ELSE "resume")
    /\ UNCHANGED <<config, files, results>>

(* The launcher of the ranks; it may be missing. *)
LaunchRanks ==
    /\ pc[Parent] = "launch"
    /\ \/ pc' = [p \in Processes |-> IF p = Parent THEN "launched" ELSE "resume"]
       \/ Goto(Parent, "resume")
    /\ UNCHANGED <<config, visible, files, results>>

SomeRankOver == \E r \in Ranks : pc[r] = "done"

RanksOver == \A r \in Ranks : pc[r] = "done"

(* check_call returns: the document of the ranks is the result. *)
LaunchReturns ==
    /\ pc[Parent] = "launched" /\ RanksOver
    /\ Goto(Parent, "done")
    /\ outcome' = document
    /\ UNCHANGED <<config, visible, files, document>>

(* A rank failed: the launcher ends the others, check_call raises, and the *)
(* parent trains by itself.                                                *)
LaunchFails ==
    /\ pc[Parent] = "launched"
    /\ \E r \in Ranks : pc[r] = "failed"
    /\ pc' = [p \in Processes |-> IF p = Parent THEN "resume" ELSE "off"]
    /\ UNCHANGED <<config, visible, files, results>>

-----------------------------------------------------------------------------
(* determine_resume_path and download_and_unpack, which first removes what *)
(* it finds in the output directory.                                       *)
Resume(p) ==
    /\ pc[p] = "resume"
    /\ IF config.resume
       THEN checkpoint' = "partial" /\ Goto(p, "unpack")
       ELSE UNCHANGED checkpoint /\ Goto(p, "train")
    /\ UNCHANGED <<config, visible, model, archive, seen, uploaded, url, results>>

Unpack(p) ==
    /\ pc[p] = "unpack"
    /\ \/ /\ checkpoint' = "whole" /\ Goto(p, "load")
          /\ UNCHANGED results
       \/ Raise(p) /\ UNCHANGED checkpoint
    /\ UNCHANGED <<config, visible, model, archive, seen, uploaded, url>>

LoadCheckpoint(p) ==
    /\ pc[p] = "load"
    /\ IF checkpoint = "whole" THEN Goto(p, "train") /\ UNCHANGED results
                               ELSE Raise(p)
    /\ UNCHANGED <<config, visible, files>>

(* Model, data set and trainer are set up and the trainer trains. *)
TrainWith(kinds, p) ==
    /\ pc[p] = "train" /\ config.kind \in kinds
    /\ \/ Goto(p, IF config.save THEN "save" ELSE "return") /\ UNCHANGED results
       \/ Raise(p)
    /\ UNCHANGED <<config, visible, files>>

TrainSFT(p) == TrainWith({"sft"}, p)
TrainLora(p) == TrainWith({"lora"}, p)
TrainDPO(p) == TrainWith({"dpo"}, p)
TrainPPO(p) == TrainWith({"ppo"}, p)

(* Where run() goes once the model is saved. *)
AfterSave == IF config.kind = "lora" \/ (config.kind = "sft" /\ config.http)
             THEN "archive" ELSE "return"

SaveInBackground(p) ==
    /\ pc[p] = "save"
    /\ model' = "partial" /\ Goto(p, AfterSave)
    /\ UNCHANGED <<config, visible, checkpoint, archive, seen, uploaded, url, results>>

(* trainer.save_model begins; on other ranks it only passes, and the       *)
(* tokenizer they save makes the directory if there is none yet.           *)
SaveBegin(p) ==
    /\ pc[p] = "save"
    /\ IF IsMain(p) THEN model' = "partial" /\ Goto(p, "saving")
                    ELSE /\ model' = IF model = "none" THEN "partial" ELSE model
                         /\ Goto(p, AfterSave)
    /\ UNCHANGED <<config, visible, checkpoint, archive, seen, uploaded, url, results>>

(* The model is saved; a failure of DPO or PPO to do so is only logged. *)
SaveEnd(p) ==
    /\ pc[p] = "saving"
    /\ \/ /\ model' = "whole" /\ Goto(p, AfterSave)
          /\ UNCHANGED results
       \/ /\ config.kind \in {"dpo", "ppo"}
          /\ Goto(p, "return")
          /\ UNCHANGED <<model, results>>
       \/ /\ config.kind \in {"sft", "lora"}
          /\ Raise(p)
          /\ UNCHANGED model
    /\ UNCHANGED <<config, visible, checkpoint, archive, seen, uploaded, url>>

(* archive_model_dir: the old zip is unlinked, and the directory packed *)
(* into a new one as it is now.                                         *)
ArchiveBegin(p) ==
    /\ pc[p] = "archive"
    /\ archive' = [content |-> "partial", by |-> p]
    /\ seen' = [seen EXCEPT ![p] = model]
    /\ Goto(p, "archiving")
    /\ UNCHANGED <<config, visible, checkpoint, model, uploaded, url, results>>

ArchiveEnd(p) ==
    /\ pc[p] = "archiving"
    /\ archive' = IF archive.by = p THEN [archive EXCEPT !.content = seen[p]] ELSE archive
    /\ Goto(p, IF config.http THEN "upload" ELSE "return")
    /\ UNCHANGED <<config, visible, checkpoint, model, seen, uploaded, url, results>>

UploadNamedFirst(p) ==
    /\ pc[p] = "upload"
    /\ uploaded' \in {archive.content, uploaded}
    /\ url' = [url EXCEPT ![p] = TRUE]
    /\ Goto(p, "return")
    /\ UNCHANGED <<config, visible, checkpoint, model, archive, seen, results>>

(* _upload_model_archive: the url is in the payload if the orchestrator *)
(* took the file; a failure is only logged.                             *)
Upload(p) ==
    /\ pc[p] = "upload"
    /\ \/ /\ uploaded' = archive.content
          /\ url' = [url EXCEPT ![p] = TRUE]
       \/ UNCHANGED <<uploaded, url>>
    /\ Goto(p, "return")
    /\ UNCHANGED <<config, visible, checkpoint, model, archive, seen, results>>

(* run() returns its payload; a rank writes it to responses.json. *)
Payload(p) == [ok |-> TRUE, url |-> url[p],
               saved |-> config.save /\ config.kind \in {"sft", "lora"}]

Return(p) ==
    /\ pc[p] = "return"
    /\ document' = Payload(p)
    /\ outcome' = IF p = Parent THEN Payload(p) ELSE outcome
    /\ Goto(p, "done")
    /\ UNCHANGED <<config, visible, files>>

ProcessStep(p) ==
    \/ Resume(p) \/ Unpack(p) \/ LoadCheckpoint(p)
    \/ TrainSFT(p) \/ TrainLora(p) \/ TrainDPO(p) \/ TrainPPO(p)
    \/ SaveBegin(p) \/ SaveEnd(p) \/ ArchiveBegin(p) \/ ArchiveEnd(p)
    \/ Upload(p) \/ Return(p)

TrainingNext ==
    \/ ConfigureDevices \/ LaunchRanks \/ LaunchReturns \/ LaunchFails
    \/ \E p \in Processes : ProcessStep(p)

TrainingSpec == TrainingInit /\ [][TrainingNext]_trainingVars

-----------------------------------------------------------------------------
Contents == {"none", "partial", "whole"}

TrainingTypeOK ==
    /\ config \in Configs
    /\ visible \in 1 .. NumRanks
    /\ pc \in [Processes -> {"configure", "launch", "launched", "off", "resume", "unpack",
                             "load", "train", "save", "saving", "archive", "archiving",
                             "upload", "return", "done", "failed"}]
    /\ {checkpoint, model, archive.content, uploaded} \subseteq Contents
    /\ archive.by \in Processes
    /\ seen \in [Processes -> Contents]
    /\ url \in [Processes -> BOOLEAN]
    /\ {document, outcome} \subseteq [ok : BOOLEAN, url : BOOLEAN, saved : BOOLEAN]

(* A result that names a saved model is returned only when that model is   *)
(* whole on disk, also when a rank that saves nothing wrote the result, and *)
(* after a launch that failed halfway.                                      *)
SuccessHasModel == outcome.ok /\ outcome.saved => model = "whole"

(* An archive URL in the result means that an upload was accepted. *)
UrlMeansUploaded == outcome.url => uploaded # "none"

(* Without ranks, or when the parent took over from them, the archive at *)
(* that URL is the whole model.                                          *)
AloneUploadsWhole == outcome.url /\ ~ RanksOver => uploaded = "whole"

(* What a training result names exists: the model, and the uploaded archive.*)
TrainingInv ==
    /\ TrainingTypeOK
    /\ SuccessHasModel
    /\ UrlMeansUploaded
    /\ AloneUploadsWhole

(* Violated with several ranks: each packs, replaces and uploads the same *)
(* file, one of them before the first rank has saved (sft_executor.py:278).*)
UploadedWhole == outcome.url => uploaded = "whole"

=============================================================================
