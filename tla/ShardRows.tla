----------------------------- MODULE ShardRows -----------------------------
(***************************************************************************)
(* The rows of one data-parallel inference task, from the split of its     *)
(* data set to the items of its aggregated result: make_shard_messages     *)
(* carves spec.data.split (orchestrator/scheduler.py), the executors cut   *)
(* the data set by spec.shard (_maybe_apply_dataset_shard), aggregation    *)
(* concatenates the shards' items and delivers them over HTTP              *)
(* (orchestrator/aggregation.py).  Retries of shards, and answers that     *)
(* arrive while the others are still published, are ShardAggregation's.    *)
(***************************************************************************)
EXTENDS Naturals, Sequences, FiniteSets

CONSTANTS RowCount,      \* rows of the data set, or items of the list
          ShardCounts,   \* numbers of workers the task may be fanned out to
          Percents,      \* percentages at which a base split may begin and end
          PostRetries    \* destination.retries of the aggregated result

ASSUME RowsAssumption ==
    /\ RowCount \in Nat /\ PostRetries \in Nat
    /\ ShardCounts \subseteq Nat \ {0, 1}
    /\ Percents \subseteq 0..100

VARIABLES
    job,        \* [kind, carved, from, to, total]
    stage,      \* of the parent
    published,  \* how many shards the loop of _try_dispatch_sharded has passed
    fate,       \* of each shard
    answer,     \* rows a shard's result holds, in its order
    merged,     \* how many shards the loop of _build_aggregated_result has passed
    items,      \* rows of the aggregated result
    posts,      \* attempts to deliver it
    delivered   \* did the receiver take it?

rowVars == <<job, stage, published, fate, answer, merged, items, posts, delivered>>

Shards == 1..job.total

-----------------------------------------------------------------------------
(* Which rows a shard works on.  Shards are 1 .. total; the code counts    *)
(* from 0.                                                                 *)

(* The data sets library: a percentage is a row boundary, rounded to the   *)
(* nearest row.                                                            *)
Boundary(percent) == (percent * RowCount + 50) \div 100
RowsBetween(from, to) == [k \in 1..(Boundary(to) - Boundary(from)) |-> Boundary(from) + k]

(* compute_shard_split, where the step is a whole percentage; otherwise    *)
(* make_shard_messages does not override the split.                        *)
Whole(d) == (d.to - d.from) % d.total = 0
Overridden(d) == d.carved /\ Whole(d)
Step(d) == (d.to - d.from) \div d.total

ShardSplit(d, i) == [from |-> d.from + Step(d) * (i - 1), to |-> d.from + Step(d) * i]

(* dataset.shard(num_shards, index, contiguous = True)                     *)
PartSizesEqual(n, total, i) == n \div total             \* a mutant of PartSize
PartSize(n, total, i) == (n \div total) + (IF i <= n % total THEN 1 ELSE 0)
PartStart(n, total, i) ==
    (n \div total) * (i - 1) + (IF i <= n % total THEN i - 1 ELSE n % total)
Part(rows, total, i) ==
    SubSeq(rows, PartStart(Len(rows), total, i) + 1,
           PartStart(Len(rows), total, i) + PartSize(Len(rows), total, i))

(* What the executor loads for shard i, and cuts by spec.shard; a list of  *)
(* items is not cut.                                                       *)
Loaded(d, i) ==
    IF Overridden(d) THEN RowsBetween(ShardSplit(d, i).from, ShardSplit(d, i).to)
    ELSE RowsBetween(d.from, d.to)
Work(d, i) ==
    IF d.kind = "list" THEN RowsBetween(0, 100)
    ELSE Part(Loaded(d, i), d.total, i)

-----------------------------------------------------------------------------
FannedOut == {d \in [kind : {"list", "dataset"}, carved : BOOLEAN,
                 from : Percents, to : Percents, total : ShardCounts] :
            /\ d.from < d.to
            /\ (d.kind = "list" \/ ~d.carved) => d.from = 0 /\ d.to = 100 /\ ~d.carved}

RowsInit ==
    /\ job \in FannedOut
    /\ stage = "publishing" /\ published = 0
    /\ fate = [i \in 1..job.total |-> "new"]
    /\ answer = [i \in 1..job.total |-> <<>>]
    /\ merged = 0 /\ items = <<>> /\ posts = 0 /\ delivered = FALSE

(* One turn of the loop: a shard that no subscriber takes is skipped, one  *)
(* whose publication raises has a FAILED record; neither is a child.       *)
PublishShard ==
    /\ stage = "publishing" /\ published < job.total
    /\ published' = published + 1
    /\ \E f \in {"out", "skipped", "broken"} :
         fate' = [fate EXCEPT ![published + 1] = f]
    /\ UNCHANGED <<job, stage, answer, merged, items, posts, delivered>>

Children == {i \in Shards : fate[i] \in {"out", "answered", "failed"}}

(* The end of the loop: without a child the task goes the single-worker    *)
(* way.                                                                    *)
FanOutEnds ==
    /\ stage = "publishing" /\ published = job.total
    /\ stage' = IF Children = {} THEN "alone" ELSE "gathering"
    /\ UNCHANGED <<job, published, fate, answer, merged, items, posts, delivered>>

(* A shard's executor runs and its result is ingested; one with no rows    *)
(* fails ("No prompts prepared").                                          *)
RunShard(i) ==
    /\ stage = "gathering" /\ fate[i] = "out"
    /\ IF Work(job, i) = <<>>
         THEN /\ fate' = [fate EXCEPT ![i] = "failed"]
              /\ UNCHANGED answer
         ELSE /\ fate' = [fate EXCEPT ![i] = "answered"]
              /\ answer' = [answer EXCEPT ![i] = Work(job, i)]
    /\ UNCHANGED <<job, stage, published, merged, items, posts, delivered>>

(* maybe_aggregate_parent: the payloads are sorted by order_map, whatever  *)
(* came first, and _build_aggregated_result extends the list of items with *)
(* those of one payload after the other.                                   *)
Aggregate ==
    /\ stage = "gathering" /\ \A i \in Children : fate[i] = "answered"
    /\ stage' = "merging"
    /\ UNCHANGED <<job, published, fate, answer, merged, items, posts, delivered>>

ExtendedInFront(more) == more \o items      \* a mutant of Extended
Extended(more) == items \o more
MergeNext ==
    /\ stage = "merging" /\ merged < job.total
    /\ merged' = merged + 1
    /\ items' = Extended(answer[merged + 1])
    /\ UNCHANGED <<job, stage, published, fate, answer, posts, delivered>>

MergeEnds ==
    /\ stage = "merging" /\ merged = job.total
    /\ stage' = "delivering"
    /\ UNCHANGED <<job, published, fate, answer, merged, items, posts, delivered>>

(* _deliver_parent_output: an attempt is accepted, is refused, or times    *)
(* out although the receiver took it.                                      *)
PostAllowedOnceMore == posts <= PostRetries + 1     \* a mutant of PostAllowed
PostAllowed == posts <= PostRetries
PostAttempt ==
    /\ stage = "delivering" /\ ~delivered /\ PostAllowed
    /\ posts' = posts + 1
    /\ delivered' \in BOOLEAN
    /\ UNCHANGED <<job, stage, published, fate, answer, merged, items>>

(* Delivered or not, the parent's bookkeeping is dropped.                  *)
GivesUpEarly == posts >= PostRetries        \* a mutant of GivesUp
GivesUp == posts > PostRetries
Forget ==
    /\ stage = "delivering" /\ (delivered \/ GivesUp)
    /\ stage' = "done"
    /\ UNCHANGED <<job, published, fate, answer, merged, items, posts, delivered>>

RowsNext ==
    \/ PublishShard \/ FanOutEnds
    \/ \E i \in Shards : RunShard(i)
    \/ Aggregate \/ MergeNext \/ MergeEnds \/ PostAttempt \/ Forget

RowsSpec == RowsInit /\ [][RowsNext]_rowVars

-----------------------------------------------------------------------------
(* Every field holds a value the code can store.                           *)
RowsTypeOK ==
    /\ stage \in {"publishing", "alone", "gathering", "merging", "delivering", "done"}
    /\ published \in 0..job.total
    /\ \A i \in Shards : fate[i] \in {"new", "out", "skipped", "broken", "answered", "failed"}
    /\ \A i \in Shards : \A k \in DOMAIN answer[i] : answer[i][k] \in 1..RowCount
    /\ merged \in 0..job.total
    /\ posts \in 0..(PostRetries + 1)

BaseRows == RowsBetween(job.from, job.to)
Gathered == stage \in {"delivering", "done"}

(* The aggregated items of a data set are rows of its base split, each at  *)
(* most once, in the order of the data set: the shards' splits and parts   *)
(* do not overlap, and the items do not depend on which shard answered     *)
(* first.                                                                  *)
RowsInOrder ==
    Gathered /\ job.kind = "dataset" =>
        /\ {items[k] : k \in DOMAIN items} \subseteq {BaseRows[k] : k \in DOMAIN BaseRows}
        /\ \A k \in 1..(Len(items) - 1) : items[k] < items[k + 1]

(* Where the split is left alone, the executors' parts cover it: when      *)
(* every shard was published, the aggregated result has all rows.          *)
UncarvedIsComplete ==
    Gathered /\ job.kind = "dataset" /\ ~Overridden(job) /\ Children = Shards =>
        items = BaseRows

(* A parent is forgotten only after its result was delivered or as many    *)
(* attempts as the destination allows have failed.                         *)
ForgottenAfterDelivery == stage = "done" => delivered \/ posts = PostRetries + 1

(* A gathered data set has rows of its split, in order and none twice, all  *)
(* of them where the split is left alone, and is kept until it is delivered.*)
RowsInv ==
    /\ RowsTypeOK
    /\ RowsInOrder
    /\ UncarvedIsComplete
    /\ ForgottenAfterDelivery

(* What docs/executors.md:62 says of data-parallel tasks, "aggregator      *)
(* validates that all shard results are complete", for the rows: an        *)
(* aggregated result has an item for each row of the split when every      *)
(* shard was published.  Broken: where the split is overridden with whole  *)
(* percentages the executor cuts it a second time by spec.shard.           *)
AllRowsAnswered ==
    Gathered /\ job.kind = "dataset" /\ Children = Shards => items = BaseRows

(* The same when a shard found no subscriber: its rows are left out and    *)
(* nothing tells the aggregator.                                           *)
SkippedIsNoticed ==
    Gathered /\ job.kind = "dataset" /\ ~Overridden(job) => items = BaseRows

(* A list of items is answered once: broken, no shard cuts it.             *)
ListAnsweredOnce == Gathered /\ job.kind = "list" => items = RowsBetween(0, 100)
=============================================================================
