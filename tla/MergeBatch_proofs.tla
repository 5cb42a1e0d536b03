-------------------------- MODULE MergeBatch_proofs ---------------------------
(***************************************************************************)
(* For any number of tasks, of any sizes, merged in batches of any         *)
(* composition: no item is on two workers at the same time, every result   *)
(* is cut where its own items begin, and a DONE task has all of its own.   *)
(***************************************************************************)
EXTENDS MergeBatch, SequenceTheorems, TLAPS

(* The failed attempt of t waits in the queue of the listener.             *)
Failure(t) == [type |-> "failed", task |-> t]
Reported(t, s) == \E i \in DOMAIN s : s[i] = Failure(t)
OnceEach(s) == \A i, j \in DOMAIN s :
    s[i].type = "failed" /\ s[j].type = "failed" /\ s[i].task = s[j].task => i = j
Retrying(t) == listener.step = "requeue" /\ listener.task = t

(* Where a task may be that some worker will still get: in at most one of  *)
(* the pool, the batch that is planned, an attempt, the events, a retry.   *)
Attempted(t) == phase[t] # "ready"
InPlay(t) == \/ t \in pooled \/ t \in plans \/ Attempted(t)
             \/ Reported(t, taskEvents) \/ Retrying(t)
OnePlace(t) ==
    /\ t \in pooled => /\ t \notin plans
                       /\ ~Attempted(t) /\ ~Reported(t, taskEvents) /\ ~Retrying(t)
    /\ t \in plans => ~Attempted(t) /\ ~Reported(t, taskEvents) /\ ~Retrying(t)
    /\ Attempted(t) => ~Reported(t, taskEvents) /\ ~Retrying(t)
    /\ Reported(t, taskEvents) => ~Retrying(t)

Events == [type : {"succeeded", "failed"}, task : Tasks]
PlaceTypes ==
    /\ spec \in [Tasks -> Seq(Tasks)]
    /\ out \in [Tasks -> Seq(Tasks)]
    /\ phase \in [Tasks -> {"ready", "running", "posting", "answered"}]
    /\ pooled \subseteq Tasks
    /\ plans \subseteq Tasks
    /\ taskEvents \in Seq(Events)
    /\ "step" \in DOMAIN listener
    /\ listener.step = "requeue" => listener.task \in Tasks

(* Tasks that a batch has still to look at have their plans, the partner   *)
(* of the next one too.                                                    *)
ScanPlanned ==
    /\ scan \subseteq plans
    /\ scan # {} /\ partner # None => partner \in plans \ scan

OnePlaceEach == OnceEach(taskEvents) /\ \A t \in Tasks : OnePlace(t)

(* An attempt runs on its task's items; no two tasks that are in play have *)
(* an item in common.                                                      *)
OutIsSpec == \A t \in Tasks : out[t] = IF Attempted(t) THEN spec[t] ELSE <<>>
Apart(t, u) == ToSet(spec[t]) \cap ToSet(spec[u]) = {}
ItemsApart == \A t, u \in Tasks : t # u /\ InPlay(t) /\ InPlay(u) => Apart(t, u)

MergeIInv == PlaceTypes /\ ScanPlanned /\ OnePlaceEach /\ OutIsSpec /\ ItemsApart

-----------------------------------------------------------------------------
(* The queue of events. *)

LEMMA ReportAppended ==
    ASSUME NEW s \in Seq(Events), NEW e \in Events
    PROVE  /\ Append(s, e) \in Seq(Events)
           /\ \A t \in Tasks : Reported(t, Append(s, e)) <=> Reported(t, s) \/ e = Failure(t)
           /\ OnceEach(s) /\ ~Reported(e.task, s) => OnceEach(Append(s, e))
  <1> DEFINE a == Append(s, e)
  <1>1. /\ a \in Seq(Events) /\ DOMAIN a = 1 .. Len(s) + 1 /\ DOMAIN s = 1 .. Len(s)
        /\ Len(s) \in Nat
        /\ \A i \in 1 .. Len(s) : a[i] = s[i] /\ s[i] \in Events
        /\ a[Len(s) + 1] = e
    OBVIOUS
  <1> HIDE DEF a
  <1>2. ASSUME NEW t \in Tasks PROVE Reported(t, a) <=> Reported(t, s) \/ e = Failure(t)
    <2>1. \A i \in DOMAIN a : i \in DOMAIN s \/ i = Len(s) + 1
      BY <1>1
    <2>2. \A i \in DOMAIN s : i \in DOMAIN a /\ a[i] = s[i]
      BY <1>1
    <2>3. Len(s) + 1 \in DOMAIN a
      BY <1>1
    <2> QED
      BY <1>1, <2>1, <2>2, <2>3 DEF Reported
  <1>3. ASSUME OnceEach(s), ~Reported(e.task, s) PROVE OnceEach(a)
    <2>1. \A i \in DOMAIN s : s[i].type = "failed" => s[i].task # e.task
      <3> SUFFICES ASSUME NEW i \in DOMAIN s, s[i].type = "failed", s[i].task = e.task
                   PROVE  FALSE
        OBVIOUS
      <3>1. s[i] \in Events
        BY <1>1
      <3>2. s[i] = Failure(e.task)
        BY <3>1 DEF Events, Failure
      <3> QED
        BY <3>2, <1>3 DEF Reported
    <2> SUFFICES ASSUME NEW i \in DOMAIN a, NEW j \in DOMAIN a,
                        a[i].type = "failed", a[j].type = "failed", a[i].task = a[j].task
                 PROVE  i = j
      BY DEF OnceEach
    <2>2. CASE i \in DOMAIN s /\ j \in DOMAIN s
      BY <2>2, <1>1, <1>3 DEF OnceEach
    <2>3. CASE i \in DOMAIN s /\ j = Len(s) + 1
      BY <2>1, <2>3, <1>1
    <2>4. CASE i = Len(s) + 1 /\ j \in DOMAIN s
      BY <2>1, <2>4, <1>1
    <2> QED
      BY <2>2, <2>3, <2>4, <1>1
  <1> QED
    BY <1>1, <1>2, <1>3 DEF a

LEMMA ReportTaken ==
    ASSUME NEW s \in Seq(Events), s # <<>>
    PROVE  /\ Tail(s) \in Seq(Events) /\ Head(s) \in Events
           /\ \A t \in Tasks : Reported(t, Tail(s)) => Reported(t, s)
           /\ OnceEach(s) => OnceEach(Tail(s))
           /\ OnceEach(s) /\ Head(s).type = "failed" =>
                Reported(Head(s).task, s) /\ ~Reported(Head(s).task, Tail(s))
  <1> DEFINE r == Tail(s)
  <1>1. /\ r \in Seq(Events) /\ Head(s) \in Events /\ Head(s) = s[1] /\ 1 \in DOMAIN s
        /\ \A i \in DOMAIN r : i + 1 \in DOMAIN s /\ r[i] = s[i + 1] /\ i \in Nat /\ i # 0
        /\ \A i \in DOMAIN s : s[i] \in Events
    OBVIOUS
  <1> HIDE DEF r
  <1>2. \A t \in Tasks : Reported(t, r) => Reported(t, s)
    BY <1>1 DEF Reported
  <1>3. ASSUME OnceEach(s) PROVE OnceEach(r)
    <2> SUFFICES ASSUME NEW i \in DOMAIN r, NEW j \in DOMAIN r,
                        r[i].type = "failed", r[j].type = "failed", r[i].task = r[j].task
                 PROVE  i = j
      BY DEF OnceEach
    <2>1. i + 1 = j + 1
      BY <1>1, <1>3 DEF OnceEach
    <2> QED
      BY <2>1, <1>1
  <1>4. ASSUME OnceEach(s), Head(s).type = "failed"
        PROVE  Reported(Head(s).task, s) /\ ~Reported(Head(s).task, r)
    <2>1. s[1] = Failure(Head(s).task)
      BY <1>1, <1>4 DEF Events, Failure
    <2>2. ASSUME NEW i \in DOMAIN r PROVE r[i] # Failure(Head(s).task)
      <3> SUFFICES ASSUME r[i] = Failure(Head(s).task) PROVE FALSE
        OBVIOUS
      <3>1. s[i + 1].type = "failed" /\ s[i + 1].task = s[1].task /\ s[1].type = "failed"
        BY <1>1, <2>1 DEF Failure
      <3>2. i + 1 = 1
        BY <3>1, <1>1, <1>4 DEF OnceEach
      <3> QED
        BY <3>2, <1>1
    <2> QED
      BY <2>1, <2>2, <1>1 DEF Reported
  <1> QED
    BY <1>1, <1>2, <1>3, <1>4 DEF r

-----------------------------------------------------------------------------
(* The steps. *)

LEMMA InitPlaces == Init => MergeIInv
  <1> SUFFICES ASSUME Init PROVE MergeIInv
    OBVIOUS
  <1>1. \A t \in Tasks : Own(t) \in Seq(Tasks)
    <2> SUFFICES ASSUME NEW t \in Tasks PROVE Own(t) \in Seq(Tasks)
      OBVIOUS
    <2>1. Size[t] \in Nat
      BY ConstantsAssumption
    <2> QED
      BY <2>1 DEF Own
  <1>2. PlaceTypes
    BY <1>1 DEF Init, PlaceTypes, Idle
  <1>3. ScanPlanned
    BY DEF Init, ScanPlanned
  <1>4. taskEvents = <<>> /\ \A t \in Tasks : ~Reported(t, taskEvents)
    BY DEF Init, Reported
  <1>5. OnePlaceEach
    BY <1>4 DEF Init, OnePlaceEach, OnceEach, OnePlace, Attempted, Retrying, Idle
  <1>6. OutIsSpec
    BY DEF Init, OutIsSpec, Attempted
  <1>7. ItemsApart
    <2>1. \A t \in Tasks : ToSet(spec[t]) \subseteq {t}
      BY DEF Init, Own, ToSet
    <2> QED
      BY <2>1 DEF ItemsApart, Apart
  <1> QED
    BY <1>2, <1>3, <1>5, <1>6, <1>7 DEF MergeIInv

(* A step that changes no items and brings no task into play keeps items   *)
(* apart.                                                                  *)
LEMMA NothingNew ==
    ASSUME MergeIInv, spec' = spec, \A t \in Tasks : InPlay(t)' => InPlay(t)
    PROVE  ItemsApart'
  BY DEF MergeIInv, ItemsApart, Apart

(* Steps that touch neither the places of the tasks nor their items.       *)
LEMMA QuietStep ==
    ASSUME MergeIInv,
           UNCHANGED <<spec, out, pooled, plans, scan, partner, taskEvents>>,
           phase' \in [Tasks -> {"ready", "running", "posting", "answered"}],
           \A t \in Tasks : Attempted(t)' <=> Attempted(t),
           listener' = listener \/ ("step" \in DOMAIN listener' /\ listener'.step # "requeue")
    PROVE  MergeIInv'
  <1>0. \A t \in Tasks : Retrying(t)' => Retrying(t)
    BY DEF Retrying
  <1>1. PlaceTypes'
    BY DEF MergeIInv, PlaceTypes
  <1>2. ScanPlanned'
    BY DEF MergeIInv, ScanPlanned
  <1>3. OnePlaceEach'
    BY <1>0 DEF MergeIInv, OnePlaceEach, OnePlace
  <1>4. OutIsSpec'
    BY DEF MergeIInv, OutIsSpec
  <1>5. \A t \in Tasks : InPlay(t)' => InPlay(t)
    BY <1>0 DEF InPlay
  <1> QED
    BY <1>1, <1>2, <1>3, <1>4, <1>5, NothingNew DEF MergeIInv

LEMMA JoinedItems ==
    ASSUME NEW a \in Seq(Tasks), NEW b \in Seq(Tasks)
    PROVE  ToSet(a \o b) \subseteq ToSet(a) \cup ToSet(b)
  <1> DEFINE j == a \o b
  <1>1. /\ Len(j) = Len(a) + Len(b) /\ j \in Seq(Tasks)
        /\ Len(a) \in Nat /\ Len(b) \in Nat
        /\ DOMAIN j = 1 .. Len(j) /\ DOMAIN a = 1 .. Len(a) /\ DOMAIN b = 1 .. Len(b)
        /\ \A i \in 1 .. Len(a) + Len(b) :
             j[i] = IF i <= Len(a) THEN a[i] ELSE b[i - Len(a)]
    BY ConcatProperties, LenProperties
  <1> HIDE DEF j
  <1> SUFFICES ASSUME NEW i \in DOMAIN j PROVE j[i] \in ToSet(a) \cup ToSet(b)
    BY DEF ToSet, j
  <1>2. CASE i <= Len(a)
    BY <1>1, <1>2 DEF ToSet
  <1>3. CASE ~(i <= Len(a))
    <2>1. i - Len(a) \in DOMAIN b /\ j[i] = b[i - Len(a)]
      BY <1>1, <1>3
    <2> QED
      BY <2>1 DEF ToSet
  <1> QED
    BY <1>2, <1>3

LEMMA TakeBatchPlaces == MergeIInv /\ TakeBatch => MergeIInv'
  <1> SUFFICES ASSUME MergeIInv, TakeBatch PROVE MergeIInv'
    OBVIOUS
  <1>1. PICK B \in SUBSET pooled : scan' = B /\ plans' = B /\ pooled' = pooled \ B
    BY DEF TakeBatch
  <1>2. UNCHANGED <<spec, out, phase, taskEvents, listener>> /\ partner' = None
    BY DEF TakeBatch, records, work
  <1>3. PlaceTypes'
    BY <1>1, <1>2 DEF MergeIInv, PlaceTypes
  <1>4. ScanPlanned'
    BY <1>1, <1>2 DEF MergeIInv, ScanPlanned
  <1>5. OnePlaceEach'
    BY <1>1, <1>2 DEF MergeIInv, OnePlaceEach, OnePlace, Attempted, Retrying
  <1>6. OutIsSpec'
    BY <1>2 DEF MergeIInv, OutIsSpec, Attempted
  <1>7. \A t \in Tasks : InPlay(t)' => InPlay(t)
    BY <1>1, <1>2 DEF InPlay, Attempted, Retrying
  <1> QED
    BY <1>2, <1>3, <1>4, <1>5, <1>6, <1>7, NothingNew DEF MergeIInv

(* A task that joins its partner leaves the batch, with its items.         *)
LEMMA ScanEntryPlaces == MergeIInv /\ ScanEntry => MergeIInv'
  <1> SUFFICES ASSUME MergeIInv, ScanEntry PROVE MergeIInv'
    OBVIOUS
  <1>1. UNCHANGED <<out, phase, pooled, taskEvents, listener>>
    BY DEF ScanEntry, work
  <1>2. PICK t \in Tasks :
            /\ First(t)
            /\ scan' = scan \ {t}
            /\ \/ /\ Mergeable(partner, t) /\ Merge(partner, t)
                  /\ partner' = None /\ plans' = plans \ {t}
               \/ /\ partner' = t /\ UNCHANGED <<spec, plans>>
    BY DEF ScanEntry
  <1>3. t \in scan /\ t \in plans
    BY <1>2 DEF First, MergeIInv, ScanPlanned
  <1>4. CASE partner' = t /\ UNCHANGED <<spec, plans>>
    <2>1. PlaceTypes'
      BY <1>1, <1>4 DEF MergeIInv, PlaceTypes
    <2>2. ScanPlanned'
      BY <1>2, <1>3, <1>4 DEF MergeIInv, ScanPlanned
    <2>3. OnePlaceEach'
      BY <1>1, <1>4 DEF MergeIInv, OnePlaceEach, OnePlace, Attempted, Retrying
    <2>4. OutIsSpec'
      BY <1>1, <1>4 DEF MergeIInv, OutIsSpec, Attempted
    <2>5. \A u \in Tasks : InPlay(u)' => InPlay(u)
      BY <1>1, <1>4 DEF InPlay, Attempted, Retrying
    <2> QED
      BY <1>4, <2>1, <2>2, <2>3, <2>4, <2>5, NothingNew DEF MergeIInv
  <1>5. CASE /\ Mergeable(partner, t) /\ Merge(partner, t)
             /\ partner' = None /\ plans' = plans \ {t}
    <2> DEFINE p == partner
    <2>1. p \in plans \ scan /\ p \in Tasks /\ p # t
      BY <1>3, <1>5 DEF Mergeable, MergeIInv, ScanPlanned, PlaceTypes
    <2>2. spec' = [spec EXCEPT ![p] = @ \o spec[t]]
      BY <1>5 DEF Merge
    <2>3. /\ spec' \in [Tasks -> Seq(Tasks)]
          /\ spec'[p] = spec[p] \o spec[t]
          /\ \A u \in Tasks \ {p} : spec'[u] = spec[u]
      BY <2>1, <2>2 DEF MergeIInv, PlaceTypes
    <2>4. ToSet(spec[p] \o spec[t]) \subseteq ToSet(spec[p]) \cup ToSet(spec[t])
      <3>1. spec[p] \in Seq(Tasks) /\ spec[t] \in Seq(Tasks)
        BY <2>1 DEF MergeIInv, PlaceTypes
      <3> QED
        BY <3>1, JoinedItems
    <2>5. PlaceTypes'
      BY <1>1, <1>5, <2>3 DEF MergeIInv, PlaceTypes
    <2>6. ScanPlanned'
      BY <1>2, <1>5 DEF MergeIInv, ScanPlanned
    <2>7. OnePlaceEach'
      BY <1>1, <1>5 DEF MergeIInv, OnePlaceEach, OnePlace, Attempted, Retrying
    <2>8. OutIsSpec'
      <3>1. ~Attempted(p)
        BY <2>1 DEF MergeIInv, OnePlaceEach, OnePlace
      <3> QED
        BY <1>1, <2>3, <3>1 DEF MergeIInv, OutIsSpec, Attempted
    <2>9. ItemsApart'
      <3>1. /\ InPlay(p) /\ InPlay(t)
            /\ \A u \in Tasks : InPlay(u)' => InPlay(u) /\ u # t
        <4>1. \A u \in Tasks : InPlay(u)' => InPlay(u)
          BY <1>1, <1>5 DEF InPlay, Attempted, Retrying
        <4>2. ~InPlay(t)'
          BY <1>1, <1>3, <1>5
             DEF MergeIInv, OnePlaceEach, OnePlace, InPlay, Attempted, Retrying
        <4> QED
          BY <1>3, <2>1, <4>1, <4>2 DEF InPlay
      <3>2. \A u \in Tasks : InPlay(u) /\ u # p => Apart(u, p) /\ Apart(p, u)
        BY <2>1, <3>1 DEF MergeIInv, ItemsApart
      <3>3. \A u \in Tasks : InPlay(u) /\ u # t => Apart(u, t) /\ Apart(t, u)
        BY <3>1 DEF MergeIInv, ItemsApart
      <3> SUFFICES ASSUME NEW u \in Tasks, NEW v \in Tasks, u # v, InPlay(u)', InPlay(v)'
                   PROVE  Apart(u, v)'
        BY DEF ItemsApart
      <3>4. InPlay(u) /\ InPlay(v) /\ u # t /\ v # t
        BY <3>1
      <3>5. CASE u = p
        BY <2>3, <2>4, <3>2, <3>3, <3>4, <3>5 DEF Apart
      <3>6. CASE v = p
        BY <2>3, <2>4, <3>2, <3>3, <3>4, <3>6 DEF Apart
      <3>7. CASE u # p /\ v # p
        BY <2>3, <3>4, <3>7 DEF Apart, MergeIInv, ItemsApart
      <3> QED
        BY <3>5, <3>6, <3>7
    <2> QED
      BY <2>5, <2>6, <2>7, <2>8, <2>9 DEF MergeIInv
  <1> QED
    BY <1>2, <1>4, <1>5

LEMMA DispatchPlaces == ASSUME MergeIInv, NEW t \in Tasks, Dispatch(t) PROVE MergeIInv'
  <1>1. /\ scan = {} /\ t \in plans /\ plans' = plans \ {t}
        /\ UNCHANGED <<spec, pooled, scan, partner, taskEvents, listener>>
    BY DEF Dispatch
  <1>2. \/ UNCHANGED <<out, phase>>
        \/ out' = [out EXCEPT ![t] = spec[t]] /\ phase' = [phase EXCEPT ![t] = "running"]
    BY DEF Dispatch, work
  <1>3. PlaceTypes'
    <2>1. CASE UNCHANGED <<out, phase>>
      BY <1>1, <2>1 DEF MergeIInv, PlaceTypes
    <2>2. CASE out' = [out EXCEPT ![t] = spec[t]] /\ phase' = [phase EXCEPT ![t] = "running"]
      BY <1>1, <2>2 DEF MergeIInv, PlaceTypes
    <2> QED
      BY <1>2, <2>1, <2>2
  <1>4. ScanPlanned'
    BY <1>1 DEF MergeIInv, ScanPlanned
  <1>5. \A u \in Tasks : Attempted(u)' => Attempted(u) \/ u = t
    BY <1>2 DEF Attempted, MergeIInv, PlaceTypes
  <1>6. OnePlaceEach'
    BY <1>1, <1>5 DEF MergeIInv, OnePlaceEach, OnePlace, Retrying
  <1>7. OutIsSpec'
    <2> SUFFICES ASSUME NEW u \in Tasks
                 PROVE  out'[u] = IF Attempted(u)' THEN spec[u] ELSE <<>>
      BY <1>1 DEF OutIsSpec
    <2>1. CASE UNCHANGED <<out, phase>>
      BY <2>1 DEF MergeIInv, OutIsSpec, Attempted
    <2>2. CASE out' = [out EXCEPT ![t] = spec[t]] /\ phase' = [phase EXCEPT ![t] = "running"]
      BY <2>2 DEF MergeIInv, OutIsSpec, Attempted, PlaceTypes
    <2> QED
      BY <1>2, <2>1, <2>2
  <1>8. \A u \in Tasks : InPlay(u)' => InPlay(u)
    BY <1>1, <1>5 DEF InPlay, Retrying
  <1> QED
    BY <1>1, <1>3, <1>4, <1>6, <1>7, <1>8, NothingNew DEF MergeIInv

LEMMA DeferPlaces == ASSUME MergeIInv, NEW t \in Tasks, Defer(t) PROVE MergeIInv'
  <1>1. /\ scan = {} /\ t \in plans /\ plans' = plans \ {t} /\ pooled' = pooled \cup {t}
        /\ UNCHANGED <<spec, scan, partner, taskEvents, listener, out, phase>>
    BY DEF Defer, Requeue, work
  <1>2. PlaceTypes'
    BY <1>1 DEF MergeIInv, PlaceTypes
  <1>3. ScanPlanned'
    BY <1>1 DEF MergeIInv, ScanPlanned
  <1>4. OnePlaceEach'
    BY <1>1 DEF MergeIInv, OnePlaceEach, OnePlace, Retrying, Attempted
  <1>5. OutIsSpec'
    BY <1>1 DEF MergeIInv, OutIsSpec, Attempted
  <1>6. \A u \in Tasks : InPlay(u)' => InPlay(u)
    BY <1>1 DEF InPlay, Retrying, Attempted
  <1> QED
    BY <1>1, <1>2, <1>3, <1>4, <1>5, <1>6, NothingNew DEF MergeIInv

(* A retry brings back a task that is in play as a retry.                  *)
LEMMA RetryPlaces == ASSUME MergeIInv, RetryTask PROVE MergeIInv'
  <1> DEFINE t == listener.task
  <1>1. /\ listener.step = "requeue" /\ pooled' = pooled \cup {t} /\ listener' = Idle
        /\ UNCHANGED <<spec, plans, scan, partner, taskEvents, out, phase>>
    BY DEF RetryTask, Requeue, At, planner, work
  <1>2. \A u \in Tasks : ~Retrying(u)'
    BY <1>1 DEF Retrying, Idle
  <1>3. \A u \in Tasks : Attempted(u)' <=> Attempted(u)
    BY <1>1 DEF Attempted
  <1>4. t \in Tasks /\ Retrying(t)
    BY <1>1 DEF Retrying, MergeIInv, PlaceTypes
  <1>5. PlaceTypes'
    BY <1>1, <1>4 DEF MergeIInv, PlaceTypes, Idle
  <1>6. ScanPlanned'
    BY <1>1 DEF MergeIInv, ScanPlanned
  <1>7. OnePlaceEach'
    BY <1>1, <1>2, <1>3, <1>4 DEF MergeIInv, OnePlaceEach, OnePlace
  <1>8. OutIsSpec'
    BY <1>1, <1>3 DEF MergeIInv, OutIsSpec
  <1>9. \A u \in Tasks : InPlay(u)' => InPlay(u)
    BY <1>1, <1>2, <1>3, <1>4 DEF InPlay
  <1> QED
    BY <1>1, <1>5, <1>6, <1>7, <1>8, <1>9, NothingNew DEF MergeIInv

LEMMA TaskEventPlaces == ASSUME MergeIInv, TaskSucceeded \/ TaskFailed PROVE MergeIInv'
  <1> DEFINE e == Head(taskEvents)
  <1>1. /\ taskEvents # <<>> /\ taskEvents' = Tail(taskEvents) /\ listener = Idle
        /\ pooled' = pooled \ {e.task}
        /\ UNCHANGED <<spec, plans, scan, partner, out, phase>>
        /\ \/ listener' = listener
           \/ /\ e.type = "failed" /\ listener'.task = e.task
              /\ "step" \in DOMAIN listener'
    BY DEF TaskSucceeded, TaskFailed, planner, work
  <1>2. /\ taskEvents' \in Seq(Events) /\ e \in Events
        /\ \A u \in Tasks : Reported(u, taskEvents)' => Reported(u, taskEvents)
        /\ OnceEach(taskEvents)'
        /\ e.type = "failed" => /\ Reported(e.task, taskEvents)
                               /\ ~Reported(e.task, taskEvents')
    <2>1. taskEvents \in Seq(Events) /\ OnceEach(taskEvents)
      BY DEF MergeIInv, PlaceTypes, OnePlaceEach
    <2>2. /\ Tail(taskEvents) \in Seq(Events) /\ e \in Events
          /\ \A u \in Tasks : Reported(u, Tail(taskEvents)) => Reported(u, taskEvents)
          /\ OnceEach(Tail(taskEvents))
          /\ e.type = "failed" => /\ Reported(e.task, taskEvents)
                                 /\ ~Reported(e.task, Tail(taskEvents))
      BY <1>1, <2>1, ReportTaken
    <2> QED
      BY <1>1, <2>2
  <1> HIDE DEF e
  <1>3. \A u \in Tasks : Attempted(u)' <=> Attempted(u)
    BY <1>1 DEF Attempted
  <1>4. \A u \in Tasks : Retrying(u)' => e.type = "failed" /\ u = e.task
    BY <1>1 DEF Retrying, Idle
  <1>5. PlaceTypes'
    BY <1>1, <1>2 DEF MergeIInv, PlaceTypes, Idle, Events
  <1>6. ScanPlanned'
    BY <1>1 DEF MergeIInv, ScanPlanned
  <1>7. OnePlaceEach'
    BY <1>1, <1>2, <1>3, <1>4 DEF MergeIInv, OnePlaceEach, OnePlace
  <1>8. OutIsSpec'
    BY <1>1, <1>3 DEF MergeIInv, OutIsSpec
  <1>9. \A u \in Tasks : InPlay(u)' => InPlay(u)
    BY <1>1, <1>2, <1>3, <1>4 DEF InPlay
  <1> QED
    BY <1>1, <1>5, <1>6, <1>7, <1>8, <1>9, NothingNew DEF MergeIInv

(* A report ends the attempt; a failure is in play as an event then.       *)
LEMMA ReportPlaces ==
    ASSUME MergeIInv, NEW t \in Tasks, NEW type \in {"succeeded", "failed"},
           Attempted(t), Report(t, type),
           UNCHANGED <<spec, pooled, plans, scan, partner, listener>>
    PROVE  MergeIInv'
  <1> DEFINE e == [type |-> type, task |-> t]
  <1>1. /\ taskEvents' = Append(taskEvents, e)
        /\ out' = [out EXCEPT ![t] = <<>>] /\ phase' = [phase EXCEPT ![t] = "ready"]
    BY DEF Report
  <1>2. e \in Events /\ e.task = t /\ \A u \in Tasks : e = Failure(u) => u = t
    BY DEF Events, Failure
  <1> HIDE DEF e
  <1>3. \A u \in Tasks : Attempted(u)' <=> Attempted(u) /\ u # t
    BY <1>1 DEF Attempted, MergeIInv, PlaceTypes
  <1>4. /\ taskEvents' \in Seq(Events) /\ OnceEach(taskEvents)'
        /\ \A u \in Tasks : Reported(u, taskEvents)' => Reported(u, taskEvents) \/ u = t
    <2>1. taskEvents \in Seq(Events) /\ OnceEach(taskEvents) /\ ~Reported(t, taskEvents)
      BY DEF MergeIInv, PlaceTypes, OnePlaceEach, OnePlace
    <2>2. /\ Append(taskEvents, e) \in Seq(Events) /\ OnceEach(Append(taskEvents, e))
          /\ \A u \in Tasks : Reported(u, Append(taskEvents, e)) =>
                                Reported(u, taskEvents) \/ u = t
      BY <1>2, <2>1, ReportAppended
    <2> QED
      BY <1>1, <2>2
  <1>5. \A u \in Tasks : Retrying(u)' <=> Retrying(u)
    BY DEF Retrying
  <1>6. PlaceTypes'
    BY <1>1, <1>4 DEF MergeIInv, PlaceTypes
  <1>7. ScanPlanned'
    BY DEF MergeIInv, ScanPlanned
  <1>8. OnePlaceEach'
    <2>1. OnePlace(t)'
      BY <1>3, <1>5 DEF MergeIInv, OnePlaceEach, OnePlace
    <2>2. \A u \in Tasks \ {t} : OnePlace(u)'
      BY <1>3, <1>4, <1>5 DEF MergeIInv, OnePlaceEach, OnePlace
    <2> QED
      BY <1>4, <2>1, <2>2 DEF OnePlaceEach
  <1>9. OutIsSpec'
    BY <1>1, <1>3 DEF MergeIInv, OutIsSpec, PlaceTypes
  <1>10. \A u \in Tasks : InPlay(u)' => InPlay(u)
    BY <1>3, <1>4, <1>5 DEF InPlay
  <1> QED
    BY <1>6, <1>7, <1>8, <1>9, <1>10, NothingNew DEF MergeIInv

LEMMA WorkPlaces ==
    ASSUME MergeIInv, NEW t \in Tasks,
           Work(t) \/ ExecutorRaises(t) \/ ResultTimesOut(t)
    PROVE  MergeIInv'
  <1>1. CASE ExecutorReturns(t)
    <2>1. UNCHANGED <<spec, out, pooled, plans, scan, partner, taskEvents, listener>>
      BY <1>1 DEF ExecutorReturns, planner, records
    <2>2. phase[t] = "running" /\ phase' = [phase EXCEPT ![t] = "posting"]
      BY <1>1 DEF ExecutorReturns
    <2>3. /\ phase' \in [Tasks -> {"ready", "running", "posting", "answered"}]
          /\ \A u \in Tasks : Attempted(u)' <=> Attempted(u)
      BY <2>2 DEF MergeIInv, PlaceTypes, Attempted
    <2> QED
      BY <2>1, <2>3, QuietStep
  <1>2. CASE ResultAccepted(t) \/ ExecutorRaises(t) \/ ResultTimesOut(t)
    <2>1. UNCHANGED <<spec, pooled, plans, scan, partner, listener>>
      BY <1>2 DEF ResultAccepted, ExecutorRaises, ResultTimesOut, planner, records
    <2>2. Attempted(t)
      BY <1>2 DEF ResultAccepted, ExecutorRaises, ResultTimesOut, Attempted
    <2>3. Report(t, "succeeded") \/ Report(t, "failed")
      BY <1>2 DEF ResultAccepted, ExecutorRaises, ResultTimesOut
    <2> QED
      BY <2>1, <2>2, <2>3, ReportPlaces
  <1> QED
    BY <1>1, <1>2 DEF Work

(* Ingestion of a result, and what a failed parent's children are told.    *)
LEMMA SettlePlaces ==
    ASSUME MergeIInv,
           \/ IngestResult \/ \E c \in Tasks : SkipChild(c) \/ FailChild(c)
           \/ PassFailureOn \/ ClearFailed
    PROVE  MergeIInv'
  <1>1. UNCHANGED <<spec, out, pooled, plans, scan, partner, taskEvents>>
    BY DEF IngestResult, SplitResult, MarkDone, DetachChildren, ClearFinalized, StoreChild,
           SkipChild, FailChild, PassFailureOn, ClearFailed, records, planner, work
  <1>2. /\ phase' \in [Tasks -> {"ready", "running", "posting", "answered"}]
        /\ \A u \in Tasks : Attempted(u)' <=> Attempted(u)
    <2>1. CASE phase' = phase
      BY <2>1 DEF MergeIInv, PlaceTypes, Attempted
    <2>2. CASE Answer(api.task)
      BY <2>2 DEF Answer, MergeIInv, PlaceTypes, Attempted
    <2> QED
      BY <2>1, <2>2
         DEF IngestResult, SplitResult, MarkDone, DetachChildren, ClearFinalized, StoreChild,
             SkipChild, FailChild, PassFailureOn, ClearFailed, work
  <1>3. listener' = listener \/ ("step" \in DOMAIN listener' /\ listener'.step # "requeue")
    <2>1. CASE PassFailureOn
      <3>1. \/ listener' = Idle
            \/ \E c : listener' = [step |-> "children", task |-> listener.task, todo |-> c]
        BY <2>1 DEF PassFailureOn
      <3> QED
        BY <3>1 DEF Idle
    <2>2. CASE ClearFailed
      BY <2>2 DEF ClearFailed, Idle
    <2>3. CASE \E c \in Tasks : FailChild(c)
      <3>1. \E r, next : /\ next \in {"clear", "children"}
                        /\ listener' = [listener EXCEPT !.todo = r, !.step = next]
        BY <2>3 DEF FailChild
      <3>2. "step" \in DOMAIN listener
        BY DEF MergeIInv, PlaceTypes
      <3> QED
        BY <3>1, <3>2
    <2> QED
      BY <2>1, <2>2, <2>3 DEF IngestResult, SplitResult, MarkDone, DetachChildren,
                              ClearFinalized, StoreChild, SkipChild
  <1> QED
    BY <1>1, <1>2, <1>3, QuietStep

LEMMA NextPlaces == MergeIInv /\ [Next]_vars => MergeIInv'
  <1> SUFFICES ASSUME MergeIInv, [Next]_vars PROVE MergeIInv'
    OBVIOUS
  <1>1. CASE Plan
    BY <1>1, TakeBatchPlaces, ScanEntryPlaces, DispatchPlaces DEF Plan
  <1>2. CASE IngestResult
    BY <1>2, SettlePlaces
  <1>3. CASE Listen
    BY <1>3, TaskEventPlaces, RetryPlaces, SettlePlaces DEF Listen
  <1>4. CASE \E t \in Tasks : Work(t) \/ Trouble(t)
    BY <1>4, WorkPlaces, DeferPlaces, SettlePlaces DEF Trouble
  <1>5. CASE UNCHANGED vars
    <2>1. UNCHANGED <<spec, out, phase, pooled, plans, scan, partner, taskEvents, listener>>
      BY <1>5 DEF vars, records, planner, work
    <2> QED
      BY <2>1, QuietStep DEF Attempted, Retrying, MergeIInv, PlaceTypes
  <1> QED
    BY <1>1, <1>2, <1>3, <1>4, <1>5 DEF Next

LEMMA ApartIsOnce == MergeIInv => ItemsOutOnce
  <1> SUFFICES ASSUME MergeIInv, NEW t \in Tasks, NEW u \in Tasks, t # u
               PROVE  ToSet(out[t]) \cap ToSet(out[u]) = {}
    BY DEF ItemsOutOnce
  <1>1. ToSet(<<>>) = {}
    BY DEF ToSet
  <1>2. CASE Attempted(t) /\ Attempted(u)
    BY <1>2 DEF MergeIInv, OutIsSpec, ItemsApart, InPlay, Apart
  <1>3. CASE ~Attempted(t) \/ ~Attempted(u)
    BY <1>1, <1>3 DEF MergeIInv, OutIsSpec
  <1> QED
    BY <1>2, <1>3

(* No item is on two workers at the same time, whatever batches are merged *)
(* and merged again, and whatever fails, is late or is repeated.           *)
THEOREM ItemsInferredOnce == Spec => []ItemsOutOnce
  BY InitPlaces, NextPlaces, ApartIsOnce, PTL DEF Spec
-----------------------------------------------------------------------------
(* Types.  A slice of a list is a list, wherever its bounds lie.           *)

LEMMA CutItems ==
    ASSUME NEW items \in Seq(Tasks), NEW slice \in Nat \X Nat, NEW top \in Nat,
           top = Least(slice[2], Len(items))
    PROVE  /\ Cut(items, slice) \in Seq(Tasks)
           /\ top <= slice[1] => Cut(items, slice) = <<>>
           /\ top > slice[1] => Len(Cut(items, slice)) = top - slice[1]
           /\ \A i \in 1 .. top - slice[1] : Cut(items, slice)[i] = items[slice[1] + i]
  <1> DEFINE low == slice[1] + 1
             cut == SubSeq(items, low, top)
  <1>1. /\ low \in Int /\ top \in Int /\ low >= 1
        /\ Len(items) \in Nat /\ top <= Len(items)
    BY DEF Least
  <1>2. \A i \in low .. top : items[i] \in Tasks
    BY <1>1
  <1> HIDE DEF low
  <1>3. /\ cut \in Seq(Tasks)
        /\ Len(cut) = IF low <= top THEN top - low + 1 ELSE 0
        /\ \A i \in 1 .. top - low + 1 : cut[i] = items[low + i - 1]
    BY <1>1, <1>2, SubSeqProperties
  <1>4. top < low => cut = <<>>
    BY <1>1, SubSeqEmpty
  <1> HIDE DEF cut
  <1>5. cut = Cut(items, slice)
    BY DEF cut, low, Cut
  <1>6. \A i \in 1 .. top - slice[1] : cut[i] = items[slice[1] + i]
    <2> SUFFICES ASSUME NEW i \in 1 .. top - slice[1] PROVE cut[i] = items[slice[1] + i]
      OBVIOUS
    <2>1. PICK a \in Int : a = slice[1]
      OBVIOUS
    <2>2. low = a + 1 /\ i \in 1 .. top - a
      BY <2>1 DEF low
    <2>3. i \in 1 .. top - low + 1 /\ low + i - 1 = a + i
      BY <2>2
    <2> QED
      BY <1>3, <2>1, <2>3
  <1> QED
    BY <1>1, <1>3, <1>4, <1>5, <1>6 DEF low

LEMMA OwnItems ==
    ASSUME NEW t \in Tasks
    PROVE  /\ Size[t] \in Nat /\ Own(t) \in Seq(Tasks) /\ Len(Own(t)) = Size[t]
           /\ \A i \in 1 .. Size[t] : Own(t)[i] = t
  <1>1. Size[t] \in Nat
    BY ConstantsAssumption
  <1> QED
    BY <1>1 DEF Own

LEMMA InitTypes == Init => TypeOK
  <1> SUFFICES ASSUME Init PROVE TypeOK
    OBVIOUS
  <1>1. \A t \in Tasks : Own(t) \in Seq(Tasks)
    BY OwnItems
  <1>2. spent \in [{"failures", "timeouts", "faults"} -> Nat]
    BY DEF Init
  <1> QED
    BY <1>1, <1>2, ConstantsAssumption DEF Init, TypeOK, NoSlice, Idle, None

LEMMA RetryBounded == \A n \in 0 .. MaxRetries : OneMoreRetry(n) \in 0 .. MaxRetries
  BY ConstantsAssumption DEF OneMoreRetry

LEMMA SpendTypes ==
    ASSUME TypeOK, NEW what \in {"failures", "timeouts", "faults"}, NEW bound \in Nat,
           Spend(what, bound)
    PROVE  spent' \in [{"failures", "timeouts", "faults"} -> Nat]
  BY DEF TypeOK, Spend

LEMMA ReportTypes ==
    ASSUME TypeOK, NEW t \in Tasks, NEW type \in {"succeeded", "failed"}, Report(t, type)
    PROVE  /\ taskEvents' \in Seq([type : {"succeeded", "failed"}, task : Tasks])
           /\ out' \in [Tasks -> Seq(Tasks)]
           /\ phase' \in [Tasks -> {"ready", "running", "posting", "answered"}]
  <1>1. /\ taskEvents' = Append(taskEvents, [type |-> type, task |-> t])
        /\ out' = [out EXCEPT ![t] = <<>>]
        /\ phase' = [phase EXCEPT ![t] = "ready"]
    BY DEF Report
  <1>2. [type |-> type, task |-> t] \in Events
    BY DEF Events
  <1>3. taskEvents \in Seq(Events)
    BY DEF TypeOK, Events
  <1>4. Append(taskEvents, [type |-> type, task |-> t]) \in Seq(Events)
    BY <1>2, <1>3, AppendProperties
  <1>5. out' \in [Tasks -> Seq(Tasks)]
    <2>1. <<>> \in Seq(Tasks)
      OBVIOUS
    <2> QED
      BY <1>1, <2>1 DEF TypeOK
  <1>6. phase' \in [Tasks -> {"ready", "running", "posting", "answered"}]
    BY <1>1 DEF TypeOK
  <1> QED
    BY <1>1, <1>4, <1>5, <1>6 DEF Events

LEMMA PlanTypes == TypeOK /\ Plan => TypeOK'
  <1> SUFFICES ASSUME TypeOK, Plan PROVE TypeOK'
    OBVIOUS
  <1>1. CASE TakeBatch
    <2>1. scan' \subseteq Tasks /\ plans' \subseteq Tasks /\ pooled' \subseteq Tasks
      BY <1>1 DEF TakeBatch, TypeOK
    <2> QED
      BY <1>1, <2>1 DEF TakeBatch, TypeOK, records, work
  <1>2. CASE ScanEntry
    <2>1. PICK t \in Tasks : /\ scan' = scan \ {t}
                            /\ \/ /\ Mergeable(partner, t) /\ Merge(partner, t)
                                  /\ partner' = None /\ plans' = plans \ {t}
                               \/ /\ partner' = t
                                  /\ UNCHANGED <<status, spec, children, parent, slices, plans>>
      BY <1>2 DEF ScanEntry
    <2>2. UNCHANGED <<retries, pooled, api, listener, posts, taskEvents, out, phase, stored,
                      spent>>
      BY <1>2 DEF ScanEntry, work
    <2>3. CASE partner' = t /\ UNCHANGED <<status, spec, children, parent, slices, plans>>
      BY <2>1, <2>2, <2>3 DEF TypeOK
    <2>4. CASE /\ Mergeable(partner, t) /\ Merge(partner, t)
               /\ partner' = None /\ plans' = plans \ {t}
      <3> DEFINE p == partner
                 bound == Len(spec[p])
                 end == bound + Len(spec[t])
      <3>1. p \in Tasks
        BY <2>4 DEF Mergeable, TypeOK
      <3>2. spec[p] \in Seq(Tasks) /\ spec[t] \in Seq(Tasks)
        BY <3>1 DEF TypeOK
      <3>3. bound \in Nat /\ end \in Nat /\ spec[p] \o spec[t] \in Seq(Tasks)
        <4>1. bound \in Nat /\ Len(spec[t]) \in Nat
          BY <3>2, LenProperties
        <4>2. spec[p] \o spec[t] \in Seq(Tasks)
          BY <3>2, ConcatProperties
        <4>3. \A a, b \in Nat : a + b \in Nat
          OBVIOUS
        <4>4. end \in Nat
          BY <4>1, <4>3
        <4> QED
          BY ONLY <4>1, <4>2, <4>4
      <3>4. /\ spec' = [spec EXCEPT ![p] = @ \o spec[t]]
            /\ children' = [children EXCEPT ![p] = @ \cup {t}, ![t] = {}]
            /\ parent' = [parent EXCEPT ![t] = p]
            /\ status' = [status EXCEPT ![t] = "WAITING"]
            /\ slices' = [slices EXCEPT ![p] = [@ EXCEPT ![p] = <<0, bound>>,
                                                         ![t] = <<bound, end>>]]
        BY <2>4 DEF Merge
      <3> HIDE DEF bound, end
      <3>5. spec' \in [Tasks -> Seq(Tasks)]
        BY <3>1, <3>3, <3>4 DEF TypeOK
      <3>6. slices' \in [Tasks -> [Tasks -> Nat \X Nat]]
        <4>1. <<0, bound>> \in Nat \X Nat /\ <<bound, end>> \in Nat \X Nat
          BY <3>3
        <4>2. slices[p] \in [Tasks -> Nat \X Nat]
          BY <3>1 DEF TypeOK
        <4>3. [slices[p] EXCEPT ![p] = <<0, bound>>, ![t] = <<bound, end>>]
                \in [Tasks -> Nat \X Nat]
          BY <4>1, <4>2
        <4> QED
          BY <3>4, <4>3 DEF TypeOK
      <3>7. /\ children' \in [Tasks -> SUBSET Tasks]
            /\ parent' \in [Tasks -> Tasks \cup {None}]
            /\ status' \in [Tasks -> {"PENDING", "DISPATCHED", "WAITING", "DONE", "FAILED"}]
        BY <3>1, <3>4 DEF TypeOK
      <3> QED
        BY <2>1, <2>2, <2>4, <3>5, <3>6, <3>7 DEF TypeOK
    <2> QED
      BY <2>1, <2>3, <2>4
  <1>3. ASSUME NEW t \in Tasks, Dispatch(t) PROVE TypeOK'
    <2>1. /\ status' \in [Tasks -> {"PENDING", "DISPATCHED", "WAITING", "DONE", "FAILED"}]
          /\ out' \in [Tasks -> Seq(Tasks)]
          /\ phase' \in [Tasks -> {"ready", "running", "posting", "answered"}]
          /\ plans' \subseteq Tasks
      <3>1. plans' \subseteq Tasks
        BY <1>3 DEF Dispatch, TypeOK
      <3>2. CASE UNCHANGED <<status, out, phase>>
        BY <3>1, <3>2 DEF TypeOK
      <3>3. CASE /\ status' = [status EXCEPT ![t] = "DISPATCHED"]
                 /\ out' = [out EXCEPT ![t] = spec[t]]
                 /\ phase' = [phase EXCEPT ![t] = "running"]
        <4>1. spec[t] \in Seq(Tasks)
          BY DEF TypeOK
        <4> QED
          BY <3>1, <3>3, <4>1 DEF TypeOK
      <3> QED
        BY <1>3, <3>2, <3>3 DEF Dispatch, work
    <2> QED
      BY <1>3, <2>1 DEF Dispatch, TypeOK
  <1> QED
    BY <1>1, <1>2, <1>3 DEF Plan

LEMMA IngestTypes == TypeOK /\ IngestResult => TypeOK'
  <1> SUFFICES ASSUME TypeOK, IngestResult PROVE TypeOK'
    OBVIOUS
  <1>0. Answer(api.task) => phase' \in [Tasks -> {"ready", "running", "posting", "answered"}]
    <2>1. phase \in [Tasks -> {"ready", "running", "posting", "answered"}]
      BY DEF TypeOK
    <2> QED
      BY <2>1 DEF Answer
  <1>1. ASSUME NEW p \in posts, SplitResult(p) PROVE TypeOK'
    <2> DEFINE t == p.task
               others == {c \in Tasks \ {t} : slices[t][c] # NoSlice}
               cut == [c \in Tasks |-> Cut(p.items, slices[t][c])]
    <2>1. t \in Tasks /\ p.items \in Seq(Tasks) /\ posts' \subseteq posts
      BY <1>1 DEF TypeOK, SplitResult
    <2>2. \A c \in Tasks : Cut(p.items, slices[t][c]) \in Seq(Tasks)
      <3> SUFFICES ASSUME NEW c \in Tasks PROVE Cut(p.items, slices[t][c]) \in Seq(Tasks)
        OBVIOUS
      <3>1. slices[t][c] \in Nat \X Nat
        BY <2>1 DEF TypeOK
      <3>2. Least(slices[t][c][2], Len(p.items)) \in Nat
        BY <2>1, <3>1 DEF Least
      <3> QED
        BY <2>1, <3>1, <3>2, CutItems
    <2>3. /\ api' = [step |-> "done", task |-> t, todo |-> others, cut |-> cut]
          /\ stored' = [stored EXCEPT ![t] = IF slices[t][t] = NoSlice THEN p.items
                                             ELSE Cut(p.items, slices[t][t])]
      BY <1>1 DEF SplitResult
    <2>4. others \subseteq Tasks /\ cut \in [Tasks -> Seq(Tasks)]
      BY <2>2
    <2>5. stored' \in [Tasks -> Seq(Tasks)]
      BY <2>1, <2>2, <2>3 DEF TypeOK
    <2> HIDE DEF t, others, cut
    <2>6. api' \in [step : {"done", "detach", "children", "clear"}, task : Tasks,
                    todo : SUBSET Tasks, cut : [Tasks -> Seq(Tasks)]]
      BY <2>1, <2>3, <2>4
    <2> QED
      BY <1>1, <2>1, <2>5, <2>6 DEF SplitResult, TypeOK, records, planner, work
  <1>2. CASE MarkDone
    <2>1. api # Idle
      BY <1>2 DEF MarkDone, At, Idle
    <2>2. api \in [step : {"done", "detach", "children", "clear"}, task : Tasks,
                   todo : SUBSET Tasks, cut : [Tasks -> Seq(Tasks)]]
      BY <2>1 DEF TypeOK
    <2>3. /\ status' \in [Tasks -> {"PENDING", "DISPATCHED", "WAITING", "DONE", "FAILED"}]
          /\ phase' \in [Tasks -> {"ready", "running", "posting", "answered"}]
      BY <1>0, <1>2, <2>2 DEF MarkDone, TypeOK
    <2>4. api' = Idle \/ api' \in [step : {"done", "detach", "children", "clear"}, task : Tasks,
                   todo : SUBSET Tasks, cut : [Tasks -> Seq(Tasks)]]
      BY <1>2, <2>2 DEF MarkDone
    <2> QED
      BY <1>2, <2>3, <2>4 DEF MarkDone, TypeOK, planner
  <1>3. CASE DetachChildren
    <2>1. api # Idle
      BY <1>3 DEF DetachChildren, At, Idle
    <2>2. api' \in [step : {"done", "detach", "children", "clear"}, task : Tasks,
                   todo : SUBSET Tasks, cut : [Tasks -> Seq(Tasks)]]
      BY <1>3, <2>1 DEF DetachChildren, TypeOK
    <2>3. children' \in [Tasks -> SUBSET Tasks]
      BY <1>3 DEF DetachChildren, TypeOK
    <2> QED
      BY <1>3, <2>2, <2>3 DEF DetachChildren, TypeOK, planner, work
  <1>4. CASE ClearFinalized
    <2>1. slices' \in [Tasks -> [Tasks -> Nat \X Nat]]
      BY <1>4 DEF ClearFinalized, ClearMerge, TypeOK, NoSlice
    <2> QED
      BY <1>0, <1>4, <2>1 DEF ClearFinalized, TypeOK, records, planner
  <1>5. ASSUME NEW c \in Tasks, StoreChild(c) PROVE TypeOK'
    <2>1. api # Idle
      BY <1>5 DEF StoreChild, At, Idle
    <2>2. api' \in [step : {"done", "detach", "children", "clear"}, task : Tasks,
                   todo : SUBSET Tasks, cut : [Tasks -> Seq(Tasks)]]
      BY <1>5, <2>1 DEF StoreChild, NextChild, TypeOK
    <2>3. /\ stored' \in [Tasks -> Seq(Tasks)]
          /\ status' \in [Tasks -> {"PENDING", "DISPATCHED", "WAITING", "DONE", "FAILED"}]
          /\ parent' \in [Tasks -> Tasks \cup {None}]
      BY <1>5, <2>1 DEF StoreChild, TypeOK
    <2> QED
      BY <1>5, <2>2, <2>3 DEF StoreChild, TypeOK, planner, work
  <1> QED
    BY <1>1, <1>2, <1>3, <1>4, <1>5 DEF IngestResult

LEMMA ListenTypes == TypeOK /\ Listen => TypeOK'
  <1> SUFFICES ASSUME TypeOK, Listen PROVE TypeOK'
    OBVIOUS
  <1>0. taskEvents # <<>> => /\ Head(taskEvents).task \in Tasks
                            /\ Tail(taskEvents) \in
                                 Seq([type : {"succeeded", "failed"}, task : Tasks])
    <2> SUFFICES ASSUME taskEvents # <<>>
                 PROVE  /\ Head(taskEvents).task \in Tasks
                        /\ Tail(taskEvents) \in
                             Seq([type : {"succeeded", "failed"}, task : Tasks])
      OBVIOUS
    <2>1. taskEvents \in Seq(Events)
      BY DEF TypeOK, Events
    <2>2. Head(taskEvents) \in Events /\ Tail(taskEvents) \in Seq(Events)
      BY <2>1, ReportTaken
    <2> QED
      BY <2>2 DEF Events
  <1>1. CASE TaskSucceeded
    <2>1. /\ status' \in [Tasks -> {"PENDING", "DISPATCHED", "WAITING", "DONE", "FAILED"}]
          /\ pooled' \subseteq Tasks
      BY <1>1 DEF TaskSucceeded, TypeOK
    <2> QED
      BY <1>0, <1>1, <2>1 DEF TaskSucceeded, TypeOK, planner, work
  <1>2. CASE TaskFailed
    <2>1. PICK t \in Tasks :
             /\ t = Head(taskEvents).task
             /\ pooled' = pooled \ {t}
             /\ status' = [status EXCEPT ![t] = "FAILED"]
             /\ retries' = [retries EXCEPT ![t] = OneMoreRetry(@)]
             /\ \E next \in {"requeue", "detach"} :
                  listener' = [step |-> next, task |-> t, todo |-> {}]
      BY <1>0, <1>2 DEF TaskFailed
    <2>2. retries' \in [Tasks -> 0 .. MaxRetries]
      BY <2>1, RetryBounded DEF TypeOK
    <2>3. /\ status' \in [Tasks -> {"PENDING", "DISPATCHED", "WAITING", "DONE", "FAILED"}]
          /\ pooled' \subseteq Tasks
      BY <2>1 DEF TypeOK
    <2>4. listener' \in [step : {"requeue", "detach", "children", "clear"},
                         task : Tasks, todo : SUBSET Tasks]
      BY <2>1
    <2> QED
      BY <1>0, <1>2, <2>2, <2>3, <2>4 DEF TaskFailed, TypeOK, planner, work
  <1> DEFINE Listener == listener \in [step : {"requeue", "detach", "children", "clear"},
                                       task : Tasks, todo : SUBSET Tasks]
  <1>3. CASE RetryTask
    <2>1. Listener
      BY <1>3 DEF RetryTask, At, Idle, TypeOK
    <2>2. listener.task \in Tasks
      BY <2>1
    <2>3. /\ status' \in [Tasks -> {"PENDING", "DISPATCHED", "WAITING", "DONE", "FAILED"}]
          /\ pooled' \subseteq Tasks
      BY <1>3, <2>2 DEF RetryTask, Requeue, TypeOK
    <2>4. retries' \in [Tasks -> 0 .. MaxRetries]
      BY <1>3, RetryBounded DEF RetryTask, Requeue, TypeOK
    <2> QED
      BY <1>3, <2>3, <2>4 DEF RetryTask, TypeOK, planner, work
  <1>4. CASE PassFailureOn
    <2>1. Listener
      BY <1>4 DEF PassFailureOn, At, Idle, TypeOK
    <2>2. listener.task \in Tasks /\ children[listener.task] \in SUBSET Tasks
      BY <2>1 DEF TypeOK
    <2>3. listener' = Idle \/ Listener'
      BY <1>4, <2>2 DEF PassFailureOn
    <2>4. children' \in [Tasks -> SUBSET Tasks]
      BY <1>4 DEF PassFailureOn, TypeOK
    <2> QED
      BY <1>4, <2>3, <2>4 DEF PassFailureOn, TypeOK, planner, work
  <1>5. CASE ClearFailed
    <2>1. slices' \in [Tasks -> [Tasks -> Nat \X Nat]]
      BY <1>5 DEF ClearFailed, ClearMerge, TypeOK, NoSlice
    <2> QED
      BY <1>5, <2>1 DEF ClearFailed, TypeOK, records, planner, work
  <1>6. ASSUME NEW c \in Tasks, FailChild(c) PROVE TypeOK'
    <2>1. Listener
      BY <1>6 DEF FailChild, At, Idle, TypeOK
    <2>2. Listener'
      BY <1>6, <2>1 DEF FailChild
    <2>3. /\ status' \in [Tasks -> {"PENDING", "DISPATCHED", "WAITING", "DONE", "FAILED"}]
          /\ parent' \in [Tasks -> Tasks \cup {None}]
      BY <1>6 DEF FailChild, TypeOK
    <2> QED
      BY <1>6, <2>2, <2>3 DEF FailChild, TypeOK, planner, work
  <1> QED
    BY <1>1, <1>2, <1>3, <1>4, <1>5, <1>6 DEF Listen

LEMMA WorkTypes == ASSUME TypeOK, NEW t \in Tasks, Work(t) \/ Trouble(t) PROVE TypeOK'
  <1>0. {MaxFailures, MaxTimeouts, MaxFaults} \subseteq Nat
    BY ConstantsAssumption
  <1>1. CASE ExecutorReturns(t)
    <2>1. posts' \subseteq [task : Tasks, items : Seq(Tasks)]
      BY <1>1 DEF ExecutorReturns, TypeOK
    <2>2. phase' \in [Tasks -> {"ready", "running", "posting", "answered"}]
      BY <1>1 DEF ExecutorReturns, TypeOK
    <2> QED
      BY <1>1, <2>1, <2>2 DEF ExecutorReturns, TypeOK, records, planner
  <1>2. CASE ResultAccepted(t)
    BY <1>2, ReportTypes DEF ResultAccepted, TypeOK, records, planner
  <1>3. CASE ExecutorRaises(t)
    BY <1>0, <1>3, ReportTypes, SpendTypes DEF ExecutorRaises, TypeOK, records, planner
  <1>4. CASE ResultTimesOut(t)
    BY <1>0, <1>4, ReportTypes, SpendTypes DEF ResultTimesOut, TypeOK, records, planner
  <1>5. CASE Defer(t)
    <2>1. retries' \in [Tasks -> 0 .. MaxRetries]
      BY <1>5, RetryBounded DEF Defer, Requeue, TypeOK
    <2>2. /\ status' \in [Tasks -> {"PENDING", "DISPATCHED", "WAITING", "DONE", "FAILED"}]
          /\ pooled' \subseteq Tasks /\ plans' \subseteq Tasks
      BY <1>5 DEF Defer, Requeue, TypeOK
    <2> QED
      BY <1>5, <2>1, <2>2 DEF Defer, TypeOK, work
  <1>6. CASE SkipChild(t)
    <2>1. api # Idle
      BY <1>6 DEF SkipChild, At, Idle
    <2>2. api' \in [step : {"done", "detach", "children", "clear"}, task : Tasks,
                   todo : SUBSET Tasks, cut : [Tasks -> Seq(Tasks)]]
      BY <1>6, <2>1 DEF SkipChild, NextChild, TypeOK
    <2>3. spent' \in [{"failures", "timeouts", "faults"} -> Nat]
      BY <1>0, <1>6, SpendTypes DEF SkipChild
    <2> QED
      BY <1>6, <2>2, <2>3 DEF SkipChild, TypeOK, records, planner, work
  <1> QED
    BY <1>1, <1>2, <1>3, <1>4, <1>5, <1>6 DEF Work, Trouble

LEMMA NextTypes == TypeOK /\ [Next]_vars => TypeOK'
  <1> SUFFICES ASSUME TypeOK, [Next]_vars PROVE TypeOK'
    OBVIOUS
  <1>1. CASE UNCHANGED vars
    BY <1>1 DEF TypeOK, vars, records, planner, work
  <1> QED
    BY <1>1, PlanTypes, IngestTypes, ListenTypes, WorkTypes DEF Next

(* The variables have their types, and no task is retried beyond its       *)
(* max_retries, whatever the planner, ingest_result and the listener do.   *)
THEOREM TypeCorrect == Spec => []TypeOK
  BY InitTypes, NextTypes, PTL DEF Spec
-----------------------------------------------------------------------------
(* Whose items are where.  A spec starts with its task's own items and     *)
(* only grows, by whole specs: a slice that is registered keeps holding    *)
(* its child's items, and a result that is posted, whose spec may have     *)
(* grown since, reaches each of them or has nothing of it.                 *)

OwnFirst(t, x) == Len(x) >= Size[t] /\ \A i \in 1 .. Size[t] : x[i] = t
StartsOwn(t, x) == x = <<>> \/ OwnFirst(t, x)
Holds(x, c, slice) ==
    /\ slice[1] + Size[c] <= slice[2] /\ slice[2] <= Len(x)
    /\ \A i \in 1 .. Size[c] : x[slice[1] + i] = c
Earlier(x, s) == Len(x) <= Len(s) /\ \A i \in 1 .. Len(x) : x[i] = s[i]
Reaches(x, c, slice) == slice[1] + Size[c] <= Len(x)
Whole(x, c, slice) == Len(x) <= slice[1] \/ Reaches(x, c, slice)

SpecsOwn == \A t \in Tasks : OwnFirst(t, spec[t])
SlicesHold == \A t, c \in Tasks :
    slices[t][c] # NoSlice => Holds(spec[t], c, slices[t][c])
OwnAtFront == \A t \in Tasks : slices[t][t][1] = 0
Posted(p) ==
    /\ Earlier(p.items, spec[p.task]) /\ OwnFirst(p.task, p.items)
    /\ \A c \in Tasks : slices[p.task][c] # NoSlice => Whole(p.items, c, slices[p.task][c])
PostsWhole == \A p \in posts : Posted(p)
CutsOwn == api # Idle => \A c \in api.todo : StartsOwn(c, api.cut[c])
StoredOwn == \A t \in Tasks : StartsOwn(t, stored[t])

CutInv == SpecsOwn /\ SlicesHold /\ OwnAtFront /\ PostsWhole /\ CutsOwn /\ StoredOwn
CutIInv == TypeOK /\ MergeIInv /\ CutInv

LEMMA PrefixIsOwn ==
    ASSUME NEW t \in Tasks, NEW x \in Seq(Tasks)
    PROVE  IsPrefix(Own(t), x) <=> OwnFirst(t, x)
  <1> DEFINE n == Size[t]
             o == Own(t)
  <1>1. /\ n \in Nat /\ o \in Seq(Tasks) /\ Len(o) = n /\ Len(x) \in Nat
        /\ \A i \in 1 .. n : o[i] = t
    BY OwnItems, LenProperties
  <1>2. SubSeq(o, 1, n) = o
    BY <1>1, SubSeqFull
  <1> HIDE DEF n, o
  <1>3. ASSUME n <= Len(x)
        PROVE  /\ SubSeq(x, 1, n) \in Seq(Tasks) /\ Len(SubSeq(x, 1, n)) = n
               /\ \A i \in 1 .. n : SubSeq(x, 1, n)[i] = x[i]
    <2>1. \A i \in 1 .. n : x[i] \in Tasks
      BY <1>1, <1>3
    <2>2. 1 \in Int /\ n \in Int
      BY <1>1
    <2>3. /\ SubSeq(x, 1, n) \in Seq(Tasks)
          /\ Len(SubSeq(x, 1, n)) = IF 1 <= n THEN n - 1 + 1 ELSE 0
          /\ \A i \in 1 .. n - 1 + 1 : SubSeq(x, 1, n)[i] = x[1 + i - 1]
      BY <2>1, <2>2, SubSeqProperties
    <2> QED
      BY <1>1, <2>3
  <1>4. ASSUME IsPrefix(o, x) PROVE OwnFirst(t, x)
    <2>1. n <= Len(x) /\ SubSeq(x, 1, n) = o
      BY <1>1, <1>2, <1>4 DEF IsPrefix
    <2> QED
      BY <1>1, <1>3, <2>1 DEF OwnFirst, n
  <1>5. ASSUME OwnFirst(t, x) PROVE IsPrefix(o, x)
    <2>1. n <= Len(x) /\ \A i \in 1 .. n : x[i] = t
      BY <1>1, <1>5 DEF OwnFirst, n
    <2>2. SubSeq(x, 1, n) = o
      BY <1>1, <1>3, <2>1, SeqEqual
    <2> QED
      BY <1>1, <1>2, <2>1, <2>2 DEF IsPrefix
  <1> QED
    BY <1>4, <1>5 DEF o

(* What is cut for c from a result of an earlier spec is c's, or nothing.  *)
LEMMA CutIsOwn ==
    ASSUME NEW x \in Seq(Tasks), NEW s \in Seq(Tasks), NEW c \in Tasks,
           NEW slice \in Nat \X Nat,
           Earlier(x, s), Holds(s, c, slice), Whole(x, c, slice)
    PROVE  /\ StartsOwn(c, Cut(x, slice))
           /\ Reaches(x, c, slice) => OwnFirst(c, Cut(x, slice))
  <1> DEFINE top == Least(slice[2], Len(x))
  <1>1. Size[c] \in Nat /\ slice[1] \in Nat /\ slice[2] \in Nat /\ Len(x) \in Nat
    BY OwnItems, LenProperties
  <1>2. top \in Nat /\ top <= slice[2] /\ top <= Len(x) /\ (top = slice[2] \/ top = Len(x))
    BY <1>1 DEF Least
  <1>3. /\ top <= slice[1] => Cut(x, slice) = <<>>
        /\ top > slice[1] => Len(Cut(x, slice)) = top - slice[1]
        /\ \A i \in 1 .. top - slice[1] : Cut(x, slice)[i] = x[slice[1] + i]
    BY <1>2, CutItems
  <1> HIDE DEF top
  <1>4. ASSUME Reaches(x, c, slice) PROVE OwnFirst(c, Cut(x, slice))
    <2>1. slice[1] + Size[c] <= top
      BY <1>1, <1>2, <1>4 DEF Reaches, Holds
    <2>2. Len(Cut(x, slice)) >= Size[c]
      <3>1. CASE top > slice[1]
        BY <1>1, <1>2, <1>3, <2>1, <3>1
      <3>2. CASE top <= slice[1]
        <4>1. Size[c] = 0 /\ Cut(x, slice) = <<>>
          BY <1>1, <1>2, <1>3, <2>1, <3>2
        <4> QED
          BY <4>1
      <3> QED
        BY <1>1, <1>2, <3>1, <3>2
    <2>3. ASSUME NEW i \in 1 .. Size[c] PROVE Cut(x, slice)[i] = c
      <3>1. i \in 1 .. top - slice[1] /\ slice[1] + i \in 1 .. Len(x)
        <4>1. \A a, n, h, l \in Nat : a + n <= h /\ h <= l =>
                \A j \in 1 .. n : j \in 1 .. h - a /\ a + j \in 1 .. l
          OBVIOUS
        <4> QED
          BY <1>1, <1>2, <2>1, <4>1
      <3>2. Cut(x, slice)[i] = x[slice[1] + i]
        BY <1>3, <3>1
      <3>3. x[slice[1] + i] = s[slice[1] + i]
        BY <3>1 DEF Earlier
      <3> QED
        BY <3>2, <3>3 DEF Holds
    <2> QED
      BY <2>2, <2>3 DEF OwnFirst
  <1>5. CASE Len(x) <= slice[1]
    BY <1>1, <1>2, <1>3, <1>4, <1>5 DEF StartsOwn
  <1>6. CASE Reaches(x, c, slice)
    BY <1>4, <1>6 DEF StartsOwn
  <1> QED
    BY <1>4, <1>5, <1>6 DEF Whole

(* Joining a spec to another keeps what the other holds, and puts the      *)
(* joined one's own items right behind.                                    *)
LEMMA JoinKeeps ==
    ASSUME NEW a \in Seq(Tasks), NEW b \in Seq(Tasks)
    PROVE  /\ \A t \in Tasks : OwnFirst(t, a) => OwnFirst(t, a \o b)
           /\ \A c \in Tasks : \A slice \in Nat \X Nat :
                Holds(a, c, slice) => Holds(a \o b, c, slice)
           /\ \A x \in Seq(Tasks) : Earlier(x, a) => Earlier(x, a \o b)
           /\ \A t \in Tasks : OwnFirst(t, b) =>
                Holds(a \o b, t, <<Len(a), Len(a) + Len(b)>>)
  <1> DEFINE j == a \o b
  <1>1. /\ Len(j) = Len(a) + Len(b) /\ Len(a) \in Nat /\ Len(b) \in Nat
        /\ \A i \in 1 .. Len(a) + Len(b) :
             j[i] = IF i <= Len(a) THEN a[i] ELSE b[i - Len(a)]
    BY ConcatProperties, LenProperties
  <1>2. \A i \in 1 .. Len(a) : j[i] = a[i]
    BY <1>1
  <1>3. \A i \in 1 .. Len(b) : j[Len(a) + i] = b[i]
    <2> SUFFICES ASSUME NEW i \in 1 .. Len(b) PROVE j[Len(a) + i] = b[i]
      OBVIOUS
    <2>1. Len(a) + i \in 1 .. Len(a) + Len(b) /\ ~(Len(a) + i <= Len(a))
          /\ Len(a) + i - Len(a) = i
      BY <1>1
    <2> QED
      BY <1>1, <2>1
  <1>4. \A t \in Tasks : Size[t] \in Nat
    BY OwnItems
  <1> HIDE DEF j
  <1>5. ASSUME NEW t \in Tasks, OwnFirst(t, a) PROVE OwnFirst(t, j)
    BY <1>1, <1>2, <1>4, <1>5 DEF OwnFirst
  <1>6. ASSUME NEW c \in Tasks, NEW slice \in Nat \X Nat, Holds(a, c, slice)
        PROVE  Holds(j, c, slice)
    <2>1. slice[1] \in Nat /\ slice[2] \in Nat /\ Size[c] \in Nat
      BY <1>4
    <2>2. \A i \in 1 .. Size[c] : slice[1] + i \in 1 .. Len(a)
      BY <1>1, <1>6, <2>1 DEF Holds
    <2> QED
      <3>1. /\ slice[1] + Size[c] <= slice[2] /\ slice[2] <= Len(a)
            /\ \A i \in 1 .. Size[c] : a[slice[1] + i] = c
        BY <1>6 DEF Holds
      <3>2. slice[2] <= Len(j)
        BY <1>1, <2>1, <3>1
      <3>3. \A i \in 1 .. Size[c] : j[slice[1] + i] = c
        BY <1>2, <2>2, <3>1
      <3> QED
        BY <3>1, <3>2, <3>3 DEF Holds
  <1>7. ASSUME NEW x \in Seq(Tasks), Earlier(x, a) PROVE Earlier(x, j)
    <2>1. Len(x) \in Nat
      BY LenProperties
    <2> QED
      BY <1>1, <1>2, <1>7, <2>1 DEF Earlier
  <1>8. ASSUME NEW t \in Tasks, OwnFirst(t, b)
        PROVE  Holds(j, t, <<Len(a), Len(a) + Len(b)>>)
    <2>1. \A i \in 1 .. Size[t] : j[Len(a) + i] = t
      BY <1>1, <1>3, <1>4, <1>8 DEF OwnFirst
    <2> QED
      BY <1>1, <1>4, <1>8, <2>1 DEF Holds, OwnFirst
  <1> QED
    BY <1>5, <1>6, <1>7, <1>8 DEF j

LEMMA InitCuts == Init => CutInv
  <1> SUFFICES ASSUME Init PROVE CutInv
    OBVIOUS
  <1>1. SpecsOwn
    <2> SUFFICES ASSUME NEW t \in Tasks PROVE OwnFirst(t, spec[t])
      BY DEF SpecsOwn
    <2>1. spec[t] = Own(t)
      BY DEF Init
    <2> QED
      BY <2>1, OwnItems DEF OwnFirst
  <1> QED
    BY <1>1 DEF Init, CutInv, SlicesHold, OwnAtFront, NoSlice, PostsWhole, CutsOwn, StoredOwn,
                StartsOwn

LEMMA QuietCuts ==
    ASSUME CutInv, UNCHANGED <<spec, slices, posts, api, stored>>
    PROVE  CutInv'
  BY DEF CutInv, SpecsOwn, SlicesHold, OwnAtFront, PostsWhole, Posted, CutsOwn, StoredOwn

LEMMA MergeCuts ==
    ASSUME CutIInv, TypeOK',
           NEW p \in Tasks, NEW t \in Tasks, p # t, Merge(p, t),
           UNCHANGED <<posts, api, stored>>
    PROVE  CutInv'
  <1> DEFINE bound == Len(spec[p])
             end == bound + Len(spec[t])
  <1>1. /\ spec[p] \in Seq(Tasks) /\ spec[t] \in Seq(Tasks)
        /\ spec' = [spec EXCEPT ![p] = spec[p] \o spec[t]]
        /\ slices' = [slices EXCEPT ![p] = [slices[p] EXCEPT ![p] = <<0, bound>>,
                                                           ![t] = <<bound, end>>]]
    BY DEF CutIInv, TypeOK, Merge
  <1>0. /\ spec \in [Tasks -> Seq(Tasks)]
        /\ slices \in [Tasks -> [Tasks -> Nat \X Nat]]
    BY DEF CutIInv, TypeOK
  <1>2. /\ spec'[p] = spec[p] \o spec[t]
        /\ \A u \in Tasks \ {p} : spec'[u] = spec[u]
    BY <1>0, <1>1
  <1>3. /\ slices'[p][p] = <<0, bound>> /\ slices'[p][t] = <<bound, end>>
        /\ \A c \in Tasks \ {p, t} : slices'[p][c] = slices[p][c]
        /\ \A u \in Tasks \ {p} : slices'[u] = slices[u]
    <2>1. PICK a, b : a = <<0, bound>> /\ b = <<bound, end>>
      OBVIOUS
    <2>2. slices[p] \in [Tasks -> Nat \X Nat]
      BY <1>0
    <2>3. slices' = [slices EXCEPT ![p] = [slices[p] EXCEPT ![p] = a, ![t] = b]]
      BY <1>1, <2>1
    <2>4. slices'[p] = [slices[p] EXCEPT ![p] = a, ![t] = b]
      BY ONLY p \in Tasks, <1>0, <2>3
    <2>5. \A u \in Tasks \ {p} : slices'[u] = slices[u]
      BY ONLY p \in Tasks, <1>0, <2>3
    <2>6. /\ slices'[p][p] = a /\ slices'[p][t] = b
          /\ \A c \in Tasks \ {p, t} : slices'[p][c] = slices[p][c]
      BY ONLY p \in Tasks, t \in Tasks, p # t, <2>2, <2>4
    <2> QED
      BY ONLY <2>1, <2>5, <2>6
  <1>4. /\ OwnFirst(p, spec[p]) /\ OwnFirst(t, spec[t])
        /\ bound \in Nat /\ Len(spec[t]) \in Nat /\ Size[p] \in Nat /\ Size[t] \in Nat
    BY <1>1, OwnItems, LenProperties DEF CutIInv, CutInv, SpecsOwn
  <1>5. /\ \A u \in Tasks : OwnFirst(u, spec[p]) => OwnFirst(u, spec'[p])
        /\ \A c \in Tasks : \A slice \in Nat \X Nat :
             Holds(spec[p], c, slice) => Holds(spec'[p], c, slice)
        /\ \A x \in Seq(Tasks) : Earlier(x, spec[p]) => Earlier(x, spec'[p])
        /\ Holds(spec'[p], t, <<bound, end>>)
    <2>1. PICK a, b \in Seq(Tasks) : a = spec[p] /\ b = spec[t]
      BY <1>1
    <2>2. spec'[p] = a \o b
      BY <1>2, <2>1
    <2>3. OwnFirst(t, b) /\ bound = Len(a) /\ end = Len(a) + Len(b)
      BY <1>4, <2>1
    <2>4. /\ \A u \in Tasks : OwnFirst(u, a) => OwnFirst(u, a \o b)
          /\ \A c \in Tasks : \A slice \in Nat \X Nat :
               Holds(a, c, slice) => Holds(a \o b, c, slice)
          /\ \A x \in Seq(Tasks) : Earlier(x, a) => Earlier(x, a \o b)
          /\ Holds(a \o b, t, <<Len(a), Len(a) + Len(b)>>)
      BY <2>3, JoinKeeps
    <2> HIDE DEF bound, end
    <2> QED
      BY <2>1, <2>2, <2>3, <2>4
  <1>6. Holds(spec'[p], p, <<0, bound>>)
    <2>1. Holds(spec[p], p, <<0, bound>>)
      BY <1>4 DEF Holds, OwnFirst
    <2>2. <<0, bound>> \in Nat \X Nat
      BY <1>4
    <2> QED
      BY <1>5, <2>1, <2>2
  <1> HIDE DEF bound, end
  <1>7. SpecsOwn'
    BY <1>2, <1>4, <1>5 DEF SpecsOwn, CutIInv, CutInv
  <1>8. SlicesHold'
    <2> SUFFICES ASSUME NEW u \in Tasks, NEW c \in Tasks, slices'[u][c] # NoSlice
                 PROVE  Holds(spec'[u], c, slices'[u][c])
      BY DEF SlicesHold, Holds
    <2>1. CASE u # p
      BY <1>2, <1>3, <2>1 DEF CutIInv, CutInv, SlicesHold
    <2>2. CASE u = p /\ c = p
      BY <1>3, <1>6, <2>2
    <2>3. CASE u = p /\ c = t
      BY <1>3, <1>5, <2>3
    <2>4. CASE u = p /\ c # p /\ c # t
      <3>1. Holds(spec[p], c, slices[p][c])
        BY <1>3, <2>4 DEF CutIInv, CutInv, SlicesHold
      <3>2. slices[p][c] \in Nat \X Nat
        BY DEF CutIInv, TypeOK
      <3> QED
        BY <1>3, <1>5, <2>4, <3>1, <3>2
    <2> QED
      BY <2>1, <2>2, <2>3, <2>4
  <1>9. PostsWhole'
    <2> SUFFICES ASSUME NEW q \in posts PROVE Posted(q)'
      BY DEF PostsWhole
    <2>1. Posted(q) /\ q.task \in Tasks /\ q.items \in Seq(Tasks)
      BY DEF CutIInv, CutInv, PostsWhole, TypeOK
    <2>2. CASE q.task # p
      BY <1>2, <1>3, <2>1, <2>2 DEF Posted
    <2>3. CASE q.task = p
      <3>1. /\ Earlier(q.items, spec[p]) /\ OwnFirst(p, q.items)
            /\ \A c \in Tasks : slices[p][c] # NoSlice => Whole(q.items, c, slices[p][c])
        BY <2>1, <2>3 DEF Posted
      <3>2. Earlier(q.items, spec'[p])
        BY <1>5, <2>1, <3>1
      <3>3. Whole(q.items, p, <<0, bound>>)
        BY <1>4, <3>1 DEF Whole, Reaches, OwnFirst
      <3>4. Whole(q.items, t, <<bound, end>>)
        BY <3>1 DEF Whole, Earlier, bound
      <3>5. \A c \in Tasks : slices'[p][c] # NoSlice => Whole(q.items, c, slices'[p][c])
        <4> SUFFICES ASSUME NEW c \in Tasks, slices'[p][c] # NoSlice
                     PROVE  Whole(q.items, c, slices'[p][c])
          OBVIOUS
        <4>1. CASE c = p
          BY <1>3, <3>3, <4>1
        <4>2. CASE c = t
          BY <1>3, <3>4, <4>2
        <4>3. CASE c # p /\ c # t
          BY <1>3, <3>1, <4>3
        <4> QED
          BY <4>1, <4>2, <4>3
      <3> QED
        BY <2>3, <3>1, <3>2, <3>5 DEF Posted
    <2> QED
      BY <2>2, <2>3
  <1>10. OwnAtFront'
    BY <1>3 DEF OwnAtFront, CutIInv, CutInv
  <1> QED
    BY <1>7, <1>8, <1>9, <1>10 DEF CutInv, CutsOwn, StoredOwn, CutIInv

LEMMA PlanCuts == CutIInv /\ TypeOK' /\ Plan => CutInv'
  <1> SUFFICES ASSUME CutIInv, TypeOK', Plan PROVE CutInv'
    OBVIOUS
  <1>0. CutInv
    BY DEF CutIInv
  <1>1. CASE TakeBatch
    BY <1>0, <1>1, QuietCuts DEF TakeBatch, records
  <1>2. CASE ScanEntry
    <2>1. PICK t \in Tasks : /\ First(t)
                            /\ \/ Mergeable(partner, t) /\ Merge(partner, t)
                               \/ UNCHANGED <<spec, slices>>
      BY <1>2 DEF ScanEntry
    <2>2. UNCHANGED <<posts, api, stored>>
      BY <1>2 DEF ScanEntry
    <2>3. CASE Mergeable(partner, t) /\ Merge(partner, t)
      <3>1. partner \in Tasks /\ partner # t
        BY <2>1, <2>3 DEF Mergeable, First, CutIInv, MergeIInv, ScanPlanned, TypeOK
      <3> QED
        BY <2>2, <2>3, <3>1, MergeCuts
    <2> QED
      BY <1>0, <2>1, <2>2, <2>3, QuietCuts
  <1>3. CASE \E t \in Tasks : Dispatch(t)
    BY <1>0, <1>3, QuietCuts DEF Dispatch
  <1> QED
    BY <1>1, <1>2, <1>3 DEF Plan

(* What SplitResult cuts, of the posted task's result and for the others.  *)
LEMMA SplitCuts ==
    ASSUME CutIInv, NEW p \in posts, SplitResult(p)
    PROVE  /\ StartsOwn(p.task, stored'[p.task]) /\ OwnFirst(p.task, stored'[p.task])
           /\ \A u \in Tasks \ {p.task} : stored'[u] = stored[u]
           /\ api' # Idle /\ api'.step = "done" /\ api'.task = p.task /\ api'.todo \subseteq Tasks
           /\ \A c \in api'.todo :
                /\ slices[p.task][c] # NoSlice /\ StartsOwn(c, api'.cut[c])
                /\ Reaches(p.items, c, slices[p.task][c]) => OwnFirst(c, api'.cut[c])
  <1> DEFINE t == p.task
             x == p.items
             others == {c \in Tasks \ {t} : slices[t][c] # NoSlice}
             cut == [c \in Tasks |-> Cut(x, slices[t][c])]
  <1>1. /\ t \in Tasks /\ x \in Seq(Tasks) /\ spec[t] \in Seq(Tasks)
        /\ \A c \in Tasks : slices[t][c] \in Nat \X Nat
    <2>1. t \in Tasks /\ x \in Seq(Tasks)
      BY DEF CutIInv, TypeOK
    <2>2. \A u \in Tasks : spec[u] \in Seq(Tasks) /\ \A c \in Tasks : slices[u][c] \in Nat \X Nat
      BY DEF CutIInv, TypeOK
    <2> QED
      BY <2>1, <2>2
  <1>2. /\ Earlier(x, spec[t]) /\ OwnFirst(t, x)
        /\ \A c \in Tasks : slices[t][c] # NoSlice => Whole(x, c, slices[t][c])
    BY DEF CutIInv, CutInv, PostsWhole, Posted
  <1>3. /\ api' = [step |-> "done", task |-> t, todo |-> others, cut |-> cut]
        /\ stored' = [stored EXCEPT ![t] = IF slices[t][t] = NoSlice THEN x
                                           ELSE Cut(x, slices[t][t])]
    BY DEF SplitResult
  <1>4. ASSUME NEW c \in Tasks, slices[t][c] # NoSlice
        PROVE  /\ StartsOwn(c, Cut(x, slices[t][c]))
               /\ Reaches(x, c, slices[t][c]) => OwnFirst(c, Cut(x, slices[t][c]))
    <2>1. Holds(spec[t], c, slices[t][c])
      BY <1>1, <1>4 DEF CutIInv, CutInv, SlicesHold
    <2> QED
      BY <1>1, <1>2, <1>4, <2>1, CutIsOwn
  <1>5. OwnFirst(t, stored'[t])
    <2>1. stored'[t] = IF slices[t][t] = NoSlice THEN x ELSE Cut(x, slices[t][t])
      BY <1>1, <1>3 DEF CutIInv, TypeOK
    <2>2. CASE slices[t][t] = NoSlice
      BY <1>2, <2>1, <2>2
    <2>3. CASE slices[t][t] # NoSlice
      <3>1. OwnFirst(t, Cut(x, slices[t][t]))
        <4>1. slices[t][t][1] = 0
          BY <1>1 DEF CutIInv, CutInv, OwnAtFront
        <4>2. Reaches(x, t, slices[t][t])
          BY <1>1, <1>2, <4>1, OwnItems DEF OwnFirst, Reaches
        <4> QED
          BY <1>1, <1>4, <2>3, <4>2
      <3> QED
        BY <2>1, <2>3, <3>1
    <2> QED
      BY <2>2, <2>3
  <1>6. /\ \A u \in Tasks \ {t} : stored'[u] = stored[u]
        /\ api' # Idle /\ api'.step = "done" /\ api'.task = t /\ api'.todo = others
        /\ \A c \in Tasks : api'.cut[c] = Cut(x, slices[t][c])
    BY <1>3 DEF CutIInv, TypeOK, Idle
  <1> HIDE DEF cut
  <1> QED
    BY <1>4, <1>5, <1>6 DEF StartsOwn
(* Steps of ingest_result that only go on to the next child.               *)
LEMMA NextChildCuts ==
    ASSUME CutInv, UNCHANGED <<spec, slices, posts, stored>>,
           \/ api' = Idle \/ api' = api
           \/ api # Idle /\ api'.cut = api.cut /\ api'.todo \subseteq api.todo
    PROVE  CutInv'
  <1>1. CutsOwn'
    BY DEF CutInv, CutsOwn
  <1> QED
    BY <1>1 DEF CutInv, SpecsOwn, SlicesHold, OwnAtFront, PostsWhole, Posted, StoredOwn

LEMMA ClearCuts ==
    ASSUME CutIInv, NEW t \in Tasks, ClearMerge(t), UNCHANGED <<spec, posts, stored>>,
           api' \in {Idle, api}
    PROVE  CutInv'
  <1>1. /\ \A c \in Tasks : slices'[t][c] = NoSlice
        /\ \A u \in Tasks \ {t} : slices'[u] = slices[u]
    BY DEF ClearMerge, CutIInv, TypeOK
  <1>2. \A u, c \in Tasks : slices'[u][c] # NoSlice => slices'[u][c] = slices[u][c]
    BY <1>1
  <1>3. SlicesHold'
    BY <1>2 DEF SlicesHold, CutIInv, CutInv
  <1>4. OwnAtFront'
    BY <1>1 DEF OwnAtFront, CutIInv, CutInv, NoSlice
  <1>5. PostsWhole'
    <2> SUFFICES ASSUME NEW q \in posts PROVE Posted(q)'
      BY DEF PostsWhole
    <2>1. Posted(q) /\ q.task \in Tasks
      BY DEF CutIInv, CutInv, PostsWhole, TypeOK
    <2> QED
      BY <1>2, <2>1 DEF Posted
  <1> QED
    BY <1>3, <1>4, <1>5 DEF CutIInv, CutInv, SpecsOwn, CutsOwn, StoredOwn

LEMMA IngestCuts ==
    CutIInv /\ (IngestResult \/ \E c \in Tasks : SkipChild(c)) => CutInv'
  <1> SUFFICES ASSUME CutIInv, IngestResult \/ \E c \in Tasks : SkipChild(c)
               PROVE  CutInv'
    OBVIOUS
  <1>0. /\ CutInv
        /\ api # Idle =>
             api \in [step : {"done", "detach", "children", "clear"}, task : Tasks,
                      todo : SUBSET Tasks, cut : [Tasks -> Seq(Tasks)]]
    BY DEF CutIInv, TypeOK
  <1>1. ASSUME NEW p \in posts, SplitResult(p) PROVE CutInv'
    <2>1. UNCHANGED <<spec, slices>> /\ posts' \subseteq posts
      BY <1>1 DEF SplitResult, records
    <2>2. StoredOwn'
      BY <1>0, <1>1, SplitCuts DEF StoredOwn, CutInv
    <2>3. CutsOwn'
      BY <1>1, SplitCuts DEF CutsOwn
    <2>4. PostsWhole'
      BY <1>0, <2>1 DEF CutInv, PostsWhole, Posted
    <2> QED
      BY <1>0, <2>1, <2>2, <2>3, <2>4 DEF CutInv, SpecsOwn, SlicesHold, OwnAtFront
  <1>2. CASE MarkDone
    <2>1. api # Idle
      BY <1>2 DEF MarkDone, At, Idle
    <2>2. api' = Idle \/ api' = [api EXCEPT !.step = "detach"]
      BY <1>2 DEF MarkDone
    <2>3. \/ api' = Idle
          \/ api'.cut = api.cut /\ api'.todo \subseteq api.todo
      <3>1. CASE api' = [api EXCEPT !.step = "detach"]
        BY <1>0, <2>1, <3>1
      <3> QED
        BY <2>2, <3>1
    <2>4. UNCHANGED <<spec, slices, posts, stored>>
      BY <1>2 DEF MarkDone
    <2> QED
      BY <1>0, <2>1, <2>3, <2>4, NextChildCuts
  <1>3. CASE DetachChildren
    <2>1. api # Idle
      BY <1>3 DEF DetachChildren, At, Idle
    <2>2. api' = [api EXCEPT !.step = "children"]
      BY <1>3 DEF DetachChildren
    <2>3. api'.cut = api.cut /\ api'.todo \subseteq api.todo
      BY <1>0, <2>1, <2>2
    <2>4. UNCHANGED <<spec, slices, posts, stored>>
      BY <1>3 DEF DetachChildren
    <2> QED
      BY <1>0, <2>1, <2>3, <2>4, NextChildCuts
  <1>4. CASE ClearFinalized
    <2>1. api # Idle
      BY <1>4 DEF ClearFinalized, At, Idle
    <2>2. api.task \in Tasks
      BY <1>0, <2>1
    <2> QED
      BY <1>4, <2>2, ClearCuts DEF ClearFinalized, records
  <1>5. ASSUME NEW c \in Tasks, StoreChild(c) \/ SkipChild(c)
        PROVE  /\ api # Idle /\ c \in api.todo
               /\ api'.cut = api.cut /\ api'.todo \subseteq api.todo
               /\ UNCHANGED <<spec, slices, posts>>
    <2>1. api # Idle /\ c \in api.todo
      BY <1>5 DEF StoreChild, SkipChild, At, Idle
    <2>2. NextChild(c)
      BY <1>5 DEF StoreChild, SkipChild
    <2>3. api'.cut = api.cut /\ api'.todo \subseteq api.todo
      BY <1>0, <2>1, <2>2 DEF NextChild
    <2> QED
      BY <1>5, <2>1, <2>3 DEF StoreChild, SkipChild, records
  <1>6. ASSUME NEW c \in Tasks, SkipChild(c) PROVE CutInv'
    BY <1>0, <1>5, <1>6, NextChildCuts DEF SkipChild
  <1>7. ASSUME NEW c \in Tasks, StoreChild(c) PROVE CutInv'
    <2>1. stored' = [stored EXCEPT ![c] = api.cut[c]]
      BY <1>7 DEF StoreChild
    <2>2. StartsOwn(c, api.cut[c])
      BY <1>0, <1>5, <1>7 DEF CutInv, CutsOwn
    <2>3. StoredOwn'
      BY <1>0, <2>1, <2>2 DEF StoredOwn, CutInv, CutIInv, TypeOK
    <2>4. CutsOwn'
      BY <1>0, <1>5, <1>7 DEF CutInv, CutsOwn
    <2> QED
      BY <1>0, <1>5, <1>7, <2>3, <2>4
         DEF CutInv, SpecsOwn, SlicesHold, OwnAtFront, PostsWhole, Posted
  <1> QED
    BY <1>1, <1>2, <1>3, <1>4, <1>6, <1>7 DEF IngestResult

LEMMA ListenCuts == CutIInv /\ Listen => CutInv'
  <1> SUFFICES ASSUME CutIInv, Listen PROVE CutInv'
    OBVIOUS
  <1>1. CASE ClearFailed
    <2>1. listener # Idle
      BY <1>1 DEF ClearFailed, At, Idle
    <2>2. listener.task \in Tasks
      BY <2>1 DEF CutIInv, TypeOK
    <2> QED
      BY <1>1, <2>2, ClearCuts DEF ClearFailed, records
  <1>2. CASE ~ClearFailed
    <2>1. UNCHANGED <<spec, slices, posts, api, stored>>
      BY <1>2 DEF Listen, TaskSucceeded, TaskFailed, RetryTask, PassFailureOn, FailChild
    <2> QED
      BY <2>1, QuietCuts DEF CutIInv
  <1> QED
    BY <1>1, <1>2

LEMMA WorkCuts ==
    ASSUME CutIInv, NEW t \in Tasks,
           Work(t) \/ Defer(t) \/ ExecutorRaises(t) \/ ResultTimesOut(t)
    PROVE  CutInv'
  <1>1. CASE ExecutorReturns(t)
    <2> DEFINE q == [task |-> t, items |-> out[t]]
    <2>1. posts' = posts \cup {q} /\ UNCHANGED <<spec, slices, api, stored>>
      BY <1>1 DEF ExecutorReturns, records
    <2>2. out[t] = spec[t]
      BY <1>1 DEF ExecutorReturns, CutIInv, MergeIInv, OutIsSpec, Attempted
    <2>3. \A c \in Tasks : slices[t][c] # NoSlice => Whole(spec[t], c, slices[t][c])
      <3> SUFFICES ASSUME NEW c \in Tasks, slices[t][c] # NoSlice
                   PROVE  Whole(spec[t], c, slices[t][c])
        OBVIOUS
      <3>1. Holds(spec[t], c, slices[t][c])
        BY DEF CutIInv, CutInv, SlicesHold
      <3>2. slices[t][c] \in Nat \X Nat /\ spec[t] \in Seq(Tasks)
        BY DEF CutIInv, TypeOK
      <3>3. Len(spec[t]) \in Nat /\ Size[c] \in Nat
        BY <3>2, OwnItems
      <3> QED
        BY <3>1, <3>2, <3>3 DEF Holds, Whole, Reaches
    <2>4. Earlier(spec[t], spec[t]) /\ OwnFirst(t, spec[t])
      <3>1. spec[t] \in Seq(Tasks)
        BY DEF CutIInv, TypeOK
      <3>2. Len(spec[t]) \in Nat
        BY <3>1
      <3> QED
        BY <3>2 DEF Earlier, CutIInv, CutInv, SpecsOwn
    <2>5. Posted(q)
      BY <2>2, <2>3, <2>4 DEF Posted
    <2> HIDE DEF q
    <2>6. PostsWhole'
      BY <2>1, <2>5 DEF PostsWhole, Posted, CutIInv, CutInv
    <2> QED
      BY <2>1, <2>6 DEF CutIInv, CutInv, SpecsOwn, SlicesHold, OwnAtFront, CutsOwn, StoredOwn
  <1>2. CASE ~ExecutorReturns(t)
    <2>1. UNCHANGED <<spec, slices, posts, api, stored>>
      BY <1>2 DEF Work, ResultAccepted, Defer, ExecutorRaises, ResultTimesOut, records
    <2> QED
      BY <2>1, QuietCuts DEF CutIInv
  <1> QED
    BY <1>1, <1>2

LEMMA NextCuts == CutIInv /\ [Next]_vars => CutIInv'
  <1> SUFFICES ASSUME CutIInv, [Next]_vars PROVE CutIInv'
    OBVIOUS
  <1>1. TypeOK' /\ MergeIInv'
    BY NextTypes, NextPlaces DEF CutIInv
  <1>2. CASE UNCHANGED vars
    <2>1. UNCHANGED <<spec, slices, posts, api, stored>>
      BY <1>2 DEF vars, records
    <2> QED
      BY <1>1, <2>1, QuietCuts DEF CutIInv
  <1> QED
    BY <1>1, <1>2, PlanCuts, IngestCuts, ListenCuts, WorkCuts DEF Next, Trouble, CutIInv

LEMMA CutsAreOwn == CutIInv => OwnItemsFirst
  <1> SUFFICES ASSUME CutIInv, NEW t \in Tasks PROVE StartsWithOwn(t, stored[t])
    BY DEF OwnItemsFirst
  <1>1. stored[t] \in Seq(Tasks) /\ StartsOwn(t, stored[t])
    BY DEF CutIInv, TypeOK, CutInv, StoredOwn
  <1> QED
    BY <1>1, PrefixIsOwn DEF StartsWithOwn, StartsOwn

(* No result file has another task's items where its own belong, whenever  *)
(* slices are registered anew while a result is on its way.                *)
THEOREM OwnItemsStored == Spec => []OwnItemsFirst
  <1>1. Init => CutIInv
    BY InitTypes, InitPlaces, InitCuts DEF CutIInv
  <1> QED
    BY <1>1, NextCuts, CutsAreOwn, PTL DEF Spec

-----------------------------------------------------------------------------
(* With PromptIngest a worker waits for its answer.  So a result that is   *)
(* posted, or is being cut, is of its task's spec as it still is, and what *)
(* is cut from it is whole.                                                *)

HasOwn(t) == OwnFirst(t, stored[t])
PostsFresh == \A p \in posts :
    /\ phase[p.task] = "posting" /\ p.items = spec[p.task]
    /\ api # Idle => api.task # p.task
IngestFresh == api # Idle =>
    /\ phase[api.task] = "posting" /\ HasOwn(api.task)
    /\ \A c \in api.todo : OwnFirst(c, api.cut[c])
AnsweredHas == \A t \in Tasks : phase[t] = "answered" => HasOwn(t)
DoneHas == \A t \in Tasks : status[t] = "DONE" => HasOwn(t)
SucceededHas == \A i \in DOMAIN taskEvents :
    taskEvents[i].type = "succeeded" => HasOwn(taskEvents[i].task)

FreshInv == PostsFresh /\ IngestFresh /\ AnsweredHas /\ DoneHas /\ SucceededHas
FreshIInv == CutIInv /\ FreshInv

LEMMA InitFresh == Init => FreshInv
  BY DEF Init, FreshInv, PostsFresh, IngestFresh, AnsweredHas, DoneHas, SucceededHas

(* Steps that post nothing, ingest nothing and finish nothing.             *)
LEMMA QuietFresh ==
    ASSUME FreshIInv, UNCHANGED <<posts, api, stored>>,
           \A t \in Tasks : phase[t] = "posting" => phase'[t] = "posting" /\ spec'[t] = spec[t],
           \A t \in Tasks : phase'[t] = "answered" => phase[t] = "answered",
           \A t \in Tasks : status'[t] = "DONE" => status[t] = "DONE" \/ HasOwn(t),
           SucceededHas'
    PROVE  FreshInv'
  <1>1. /\ \A p \in posts : p.task \in Tasks
        /\ api # Idle => api.task \in Tasks
    BY DEF FreshIInv, CutIInv, TypeOK
  <1>2. PostsFresh'
    BY <1>1 DEF PostsFresh, FreshIInv, FreshInv
  <1>3. IngestFresh'
    BY <1>1 DEF IngestFresh, HasOwn, FreshIInv, FreshInv
  <1>4. AnsweredHas' /\ DoneHas'
    BY DEF AnsweredHas, DoneHas, HasOwn, FreshIInv, FreshInv
  <1> QED
    BY <1>2, <1>3, <1>4 DEF FreshInv
LEMMA PlanFresh == FreshIInv /\ Plan => FreshInv'
  <1> SUFFICES ASSUME FreshIInv, Plan PROVE FreshInv'
    OBVIOUS
  <1>0. /\ UNCHANGED <<posts, api, stored, taskEvents>>
        /\ status \in [Tasks -> {"PENDING", "DISPATCHED", "WAITING", "DONE", "FAILED"}]
        /\ phase \in [Tasks -> {"ready", "running", "posting", "answered"}]
        /\ spec \in [Tasks -> Seq(Tasks)]
    BY DEF Plan, TakeBatch, ScanEntry, Dispatch, FreshIInv, CutIInv, TypeOK
  <1>1. SucceededHas'
    BY <1>0 DEF FreshIInv, FreshInv, SucceededHas, HasOwn
  <1>2. CASE TakeBatch
    <2>1. UNCHANGED <<status, phase, spec>>
      BY <1>2 DEF TakeBatch, records, work
    <2> QED
      BY <1>0, <1>1, <2>1, QuietFresh
  <1>3. CASE ScanEntry
    <2>1. PICK t \in Tasks : /\ First(t)
                            /\ \/ Mergeable(partner, t) /\ Merge(partner, t)
                               \/ UNCHANGED <<spec, status>>
      BY <1>3 DEF ScanEntry
    <2>2. phase' = phase
      BY <1>3 DEF ScanEntry, work
    <2>3. CASE Mergeable(partner, t) /\ Merge(partner, t)
      <3>1. partner \in plans /\ partner \in Tasks
        BY <2>1, <2>3 DEF Mergeable, First, FreshIInv, CutIInv, MergeIInv, ScanPlanned, TypeOK
      <3>2. phase[partner] # "posting"
        BY <3>1 DEF FreshIInv, CutIInv, MergeIInv, OnePlaceEach, OnePlace, Attempted
      <3>3. \A u \in Tasks \ {partner} : spec'[u] = spec[u]
        BY <1>0, <2>3 DEF Merge
      <3>4. \A u \in Tasks : status'[u] = "DONE" => status[u] = "DONE"
        BY <1>0, <2>3 DEF Merge
      <3> QED
        BY <1>0, <1>1, <2>2, <3>2, <3>3, <3>4, QuietFresh
    <2> QED
      BY <1>0, <1>1, <2>1, <2>2, <2>3, QuietFresh
  <1>4. ASSUME NEW t \in Tasks, Dispatch(t) PROVE FreshInv'
    <2>1. \/ UNCHANGED <<status, phase>>
          \/ /\ phase[t] = "ready" /\ phase' = [phase EXCEPT ![t] = "running"]
             /\ status' = [status EXCEPT ![t] = "DISPATCHED"]
      BY <1>4 DEF Dispatch, work
    <2>2. spec' = spec
      BY <1>4 DEF Dispatch
    <2>3. CASE UNCHANGED <<status, phase>>
      BY <1>0, <1>1, <2>2, <2>3, QuietFresh
    <2>4. CASE /\ phase[t] = "ready" /\ phase' = [phase EXCEPT ![t] = "running"]
               /\ status' = [status EXCEPT ![t] = "DISPATCHED"]
      <3>1. /\ \A u \in Tasks : phase[u] = "posting" => phase'[u] = "posting"
            /\ \A u \in Tasks : phase'[u] = "answered" => phase[u] = "answered"
            /\ \A u \in Tasks : status'[u] = "DONE" => status[u] = "DONE"
        BY <1>0, <2>4
      <3> QED
        BY <1>0, <1>1, <2>2, <3>1, QuietFresh
    <2> QED
      BY <2>1, <2>3, <2>4
  <1> QED
    BY <1>2, <1>3, <1>4 DEF Plan

LEMMA ListenFresh == FreshIInv /\ Listen => FreshInv'
  <1> SUFFICES ASSUME FreshIInv, Listen PROVE FreshInv'
    OBVIOUS
  <1>0. /\ UNCHANGED <<posts, api, stored, phase, spec>>
        /\ status \in [Tasks -> {"PENDING", "DISPATCHED", "WAITING", "DONE", "FAILED"}]
    BY DEF Listen, TaskSucceeded, TaskFailed, RetryTask, PassFailureOn, ClearFailed, FailChild,
           records, work, FreshIInv, CutIInv, TypeOK
  <1>1. CASE taskEvents' = taskEvents
    <2>1. SucceededHas'
      BY <1>0, <1>1 DEF FreshIInv, FreshInv, SucceededHas, HasOwn
    <2>2. \A u \in Tasks : status'[u] = "DONE" => status[u] = "DONE" \/ HasOwn(u)
      <3>1. CASE TaskSucceeded \/ TaskFailed
        <4>1. taskEvents # <<>> /\ taskEvents' = Tail(taskEvents)
          BY <3>1 DEF TaskSucceeded, TaskFailed
        <4>2. taskEvents \in Seq(Events)
          BY DEF FreshIInv, CutIInv, TypeOK, Events
        <4>3. Len(Tail(taskEvents)) # Len(taskEvents)
          BY <4>1, <4>2
        <4> QED
          BY <1>1, <4>1, <4>3
      <3>2. CASE ~(TaskSucceeded \/ TaskFailed)
        BY <1>0, <3>2 DEF Listen, RetryTask, Requeue, PassFailureOn, ClearFailed, FailChild, records
      <3> QED
        BY <3>1, <3>2
    <2> QED
      BY <1>0, <2>1, <2>2, QuietFresh
  <1>2. CASE TaskSucceeded \/ TaskFailed
    <2> DEFINE e == Head(taskEvents)
    <2>1. taskEvents # <<>> /\ taskEvents' = Tail(taskEvents) /\ taskEvents \in Seq(Events)
      BY <1>2 DEF TaskSucceeded, TaskFailed, FreshIInv, CutIInv, TypeOK, Events
    <2>2. /\ e = taskEvents[1] /\ 1 \in DOMAIN taskEvents
          /\ \A i \in DOMAIN taskEvents' : /\ i + 1 \in DOMAIN taskEvents
                                           /\ taskEvents'[i] = taskEvents[i + 1]
      BY <2>1
    <2>3. SucceededHas'
      BY <1>0, <2>2 DEF FreshIInv, FreshInv, SucceededHas, HasOwn
    <2>4. e.type = "succeeded" => HasOwn(e.task)
      BY <2>2 DEF FreshIInv, FreshInv, SucceededHas
    <2>5. \/ e.type = "succeeded" /\ status' = [status EXCEPT ![e.task] = "DONE"]
          \/ status' = [status EXCEPT ![e.task] = "FAILED"]
      BY <1>2 DEF TaskSucceeded, TaskFailed
    <2> HIDE DEF e
    <2>6. \A u \in Tasks : status'[u] = "DONE" => status[u] = "DONE" \/ HasOwn(u)
      BY <1>0, <2>4, <2>5
    <2> QED
      BY <1>0, <2>3, <2>6, QuietFresh
  <1>3. TaskSucceeded \/ TaskFailed \/ taskEvents' = taskEvents
    BY DEF Listen, RetryTask, PassFailureOn, ClearFailed, FailChild
  <1> QED
    BY <1>1, <1>2, <1>3

(* A report of success comes from a worker that was answered.              *)
LEMMA ReportFresh ==
    ASSUME FreshIInv, NEW t \in Tasks, NEW type \in {"succeeded", "failed"}, Report(t, type),
           phase[t] # "posting", type = "succeeded" => HasOwn(t),
           UNCHANGED <<spec, status, posts, api, stored>>
    PROVE  FreshInv'
  <1> DEFINE e == [type |-> type, task |-> t]
  <1>1. /\ taskEvents' = Append(taskEvents, e) /\ taskEvents \in Seq(Events)
        /\ phase' = [phase EXCEPT ![t] = "ready"]
        /\ phase \in [Tasks -> {"ready", "running", "posting", "answered"}]
    BY DEF Report, FreshIInv, CutIInv, TypeOK, Events
  <1>2. \A i \in DOMAIN taskEvents' : \/ i \in DOMAIN taskEvents /\ taskEvents'[i] = taskEvents[i]
                                      \/ taskEvents'[i] = e
    BY <1>1
  <1>3. SucceededHas'
    BY <1>2 DEF SucceededHas, HasOwn, FreshIInv, FreshInv
  <1>4. /\ \A u \in Tasks : phase[u] = "posting" => phase'[u] = "posting"
        /\ \A u \in Tasks : phase'[u] = "answered" => phase[u] = "answered"
    BY <1>1
  <1> QED
    BY <1>3, <1>4, QuietFresh

LEMMA WorkFresh ==
    ASSUME PromptIngest, FreshIInv, NEW t \in Tasks,
           Work(t) \/ Defer(t) \/ ExecutorRaises(t) \/ ResultTimesOut(t)
    PROVE  FreshInv'
  <1>0. /\ status \in [Tasks -> {"PENDING", "DISPATCHED", "WAITING", "DONE", "FAILED"}]
        /\ phase \in [Tasks -> {"ready", "running", "posting", "answered"}]
        /\ \A p \in posts : p.task \in Tasks
        /\ api # Idle => api.task \in Tasks
    BY DEF FreshIInv, CutIInv, TypeOK
  <1>1. CASE ExecutorReturns(t)
    <2>1. /\ posts' = posts \cup {[task |-> t, items |-> out[t]]}
          /\ phase[t] = "running" /\ phase' = [phase EXCEPT ![t] = "posting"]
          /\ UNCHANGED <<spec, status, api, stored, taskEvents>>
      BY <1>1 DEF ExecutorReturns, records
    <2>2. out[t] = spec[t]
      BY <2>1 DEF FreshIInv, CutIInv, MergeIInv, OutIsSpec, Attempted
    <2>3. PostsFresh'
      BY <1>0, <2>1, <2>2 DEF PostsFresh, IngestFresh, FreshIInv, FreshInv
    <2>4. IngestFresh'
      BY <1>0, <2>1 DEF IngestFresh, HasOwn, FreshIInv, FreshInv
    <2>5. AnsweredHas' /\ DoneHas' /\ SucceededHas'
      BY <1>0, <2>1 DEF AnsweredHas, DoneHas, SucceededHas, HasOwn, FreshIInv, FreshInv
    <2> QED
      BY <2>3, <2>4, <2>5 DEF FreshInv
  <1>2. CASE ResultAccepted(t) \/ ExecutorRaises(t) \/ ResultTimesOut(t)
    <2>1. UNCHANGED <<spec, status, posts, api, stored>>
      BY <1>2 DEF ResultAccepted, ExecutorRaises, ResultTimesOut, records
    <2>2. \/ phase[t] = "answered" /\ Report(t, "succeeded")
          \/ phase[t] \in {"running", "answered"} /\ Report(t, "failed")
      BY <1>2 DEF ResultAccepted, ExecutorRaises, ResultTimesOut
    <2>3. phase[t] = "answered" => HasOwn(t)
      BY DEF FreshIInv, FreshInv, AnsweredHas
    <2> QED
      BY <2>1, <2>2, <2>3, ReportFresh
  <1>3. CASE Defer(t)
    <2>1. /\ UNCHANGED <<spec, phase, posts, api, stored, taskEvents>>
          /\ status' = [status EXCEPT ![t] = "PENDING"]
      BY <1>3 DEF Defer, Requeue, work
    <2>2. SucceededHas'
      BY <2>1 DEF FreshIInv, FreshInv, SucceededHas, HasOwn
    <2> QED
      BY <1>0, <2>1, <2>2, QuietFresh
  <1> QED
    BY <1>1, <1>2, <1>3 DEF Work

(* The answer of a POST that is ingested: its task has its result then.    *)
LEMMA AnswerFresh ==
    ASSUME FreshIInv, NEW t \in Tasks, t = api.task, api # Idle, api' = Idle, Answer(t),
           UNCHANGED <<spec, posts, stored, taskEvents>>,
           \A u \in Tasks : status'[u] = "DONE" => status[u] = "DONE" \/ HasOwn(u)
    PROVE  FreshInv'
  <1>1. /\ HasOwn(t) /\ phase[t] = "posting"
        /\ phase \in [Tasks -> {"ready", "running", "posting", "answered"}]
        /\ \A p \in posts : p.task \in Tasks /\ p.task # t
    BY DEF FreshIInv, FreshInv, IngestFresh, PostsFresh, CutIInv, TypeOK
  <1>2. phase' = [phase EXCEPT ![t] = "answered"]
    BY <1>1 DEF Answer
  <1>3. PostsFresh'
    BY <1>1, <1>2 DEF PostsFresh, FreshIInv, FreshInv
  <1>4. AnsweredHas' /\ DoneHas' /\ SucceededHas'
    BY <1>1, <1>2 DEF AnsweredHas, DoneHas, SucceededHas, HasOwn, FreshIInv, FreshInv
  <1> QED
    BY <1>3, <1>4 DEF FreshInv, IngestFresh

(* Steps of ingest_result that go on with the same result.                 *)
LEMMA GoOnFresh ==
    ASSUME FreshIInv, api # Idle, api' # Idle,
           api'.task = api.task, api'.cut = api.cut, api'.todo \subseteq api.todo,
           UNCHANGED <<spec, posts, phase, taskEvents>>,
           \A u \in Tasks : HasOwn(u) => HasOwn(u)',
           \A u \in Tasks : status'[u] = "DONE" => status[u] = "DONE" \/ HasOwn(u)'
    PROVE  FreshInv'
  <1>1. api.task \in Tasks /\ \A i \in DOMAIN taskEvents : taskEvents[i].task \in Tasks
    <2>1. api.task \in Tasks /\ taskEvents \in Seq(Events)
      BY DEF FreshIInv, CutIInv, TypeOK, Events
    <2>2. \A i \in DOMAIN taskEvents : taskEvents[i] \in Events
      BY <2>1
    <2> QED
      BY <2>1, <2>2 DEF Events
  <1>2. PostsFresh'
    BY DEF PostsFresh, FreshIInv, FreshInv
  <1>3. IngestFresh'
    BY <1>1 DEF IngestFresh, FreshIInv, FreshInv
  <1>4. AnsweredHas' /\ DoneHas' /\ SucceededHas'
    BY <1>1 DEF AnsweredHas, DoneHas, SucceededHas, FreshIInv, FreshInv
  <1> QED
    BY <1>2, <1>3, <1>4 DEF FreshInv
LEMMA SplitFresh == ASSUME FreshIInv, NEW p \in posts, SplitResult(p) PROVE FreshInv'
  <1> DEFINE t == p.task
  <1>1. /\ UNCHANGED <<spec, status, phase, taskEvents>> /\ posts' = posts \ {p}
        /\ api = Idle
    BY DEF SplitResult, records, work
  <1>2. /\ OwnFirst(t, stored'[t])
        /\ \A u \in Tasks \ {t} : stored'[u] = stored[u]
        /\ api' # Idle /\ api'.task = t /\ api'.todo \subseteq Tasks
    BY SplitCuts DEF FreshIInv
  <1>9. ASSUME NEW c, c \in api'.todo
        PROVE  /\ slices[t][c] # NoSlice
               /\ Reaches(p.items, c, slices[t][c]) => OwnFirst(c, api'.cut[c])
    BY <1>9, SplitCuts DEF FreshIInv
  <1>3. t \in Tasks /\ phase[t] = "posting" /\ p.items = spec[t]
    BY DEF FreshIInv, FreshInv, PostsFresh, CutIInv, TypeOK
  <1>4. \A u \in Tasks : HasOwn(u) => HasOwn(u)'
    BY <1>2 DEF HasOwn, OwnFirst
  <1>5. PostsFresh'
    <2> SUFFICES ASSUME NEW q \in posts, q # p
                 PROVE  phase[q.task] = "posting" /\ q.items = spec[q.task] /\ t # q.task
      BY <1>1, <1>2 DEF PostsFresh
    <2>1. phase[q.task] = "posting" /\ q.items = spec[q.task]
      BY DEF FreshIInv, FreshInv, PostsFresh
    <2>2. /\ p \in [task : Tasks, items : Seq(Tasks)]
          /\ q \in [task : Tasks, items : Seq(Tasks)]
      BY DEF FreshIInv, CutIInv, TypeOK
    <2>3. q.task = t => q = p
      BY <1>3, <2>1, <2>2
    <2> QED
      BY <2>1, <2>3
  <1>6. IngestFresh'
    <2>0. PICK todo, cut : todo = api'.todo /\ cut = api'.cut
      OBVIOUS
    <2> SUFFICES ASSUME NEW c \in todo PROVE OwnFirst(c, cut[c])
      BY <1>1, <1>2, <1>3, <2>0 DEF IngestFresh, HasOwn, OwnFirst
    <2>1. /\ c \in Tasks /\ slices[t][c] # NoSlice
          /\ Reaches(p.items, c, slices[t][c]) => OwnFirst(c, cut[c])
      <3>1. c \in api'.todo
        BY <2>0
      <3>2. c \in Tasks
        BY <1>2, <3>1
      <3>3. slices[t][c] # NoSlice
        BY <1>9, <3>1
      <3>4. Reaches(p.items, c, slices[t][c]) => OwnFirst(c, api'.cut[c])
        BY <1>9, <3>1
      <3> QED
        BY <2>0, <3>2, <3>3, <3>4
    <2>2. Holds(spec[t], c, slices[t][c])
      BY <1>3, <2>1 DEF FreshIInv, CutIInv, CutInv, SlicesHold
    <2>3. slices[t][c] \in Nat \X Nat /\ spec[t] \in Seq(Tasks)
      BY <1>3, <2>1 DEF FreshIInv, CutIInv, TypeOK
    <2>4. Len(spec[t]) \in Nat /\ Size[c] \in Nat
      BY <2>1, <2>3, OwnItems
    <2>5. Reaches(spec[t], c, slices[t][c])
      BY <2>2, <2>3, <2>4 DEF Holds, Reaches
    <2> QED
      BY <1>3, <2>1, <2>5
  <1>7. AnsweredHas' /\ DoneHas'
    BY <1>1, <1>4 DEF AnsweredHas, DoneHas, FreshIInv, FreshInv
  <1>8. SucceededHas'
    <2>1. \A i \in DOMAIN taskEvents : taskEvents[i].task \in Tasks
      <3>1. taskEvents \in Seq(Events)
        BY DEF FreshIInv, CutIInv, TypeOK, Events
      <3>2. \A i \in DOMAIN taskEvents : taskEvents[i] \in Events
        BY <3>1
      <3> QED
        BY <3>2 DEF Events
    <2> QED
      BY <1>1, <1>4, <2>1 DEF SucceededHas, FreshIInv, FreshInv
  <1> QED
    BY <1>5, <1>6, <1>7, <1>8 DEF FreshInv

LEMMA IngestStepFresh ==
    FreshIInv /\ (IngestResult \/ \E c \in Tasks : SkipChild(c)) => FreshInv'
  <1> SUFFICES ASSUME FreshIInv, IngestResult \/ \E c \in Tasks : SkipChild(c)
               PROVE  FreshInv'
    OBVIOUS
  <1>0. /\ status \in [Tasks -> {"PENDING", "DISPATCHED", "WAITING", "DONE", "FAILED"}]
        /\ stored \in [Tasks -> Seq(Tasks)]
        /\ api # Idle =>
             api \in [step : {"done", "detach", "children", "clear"}, task : Tasks,
                      todo : SUBSET Tasks, cut : [Tasks -> Seq(Tasks)]]
        /\ api # Idle => HasOwn(api.task) /\ \A c \in api.todo : OwnFirst(c, api.cut[c])
    BY DEF FreshIInv, CutIInv, TypeOK, FreshInv, IngestFresh
  <1>1. CASE MarkDone
    <2>1. api # Idle
      BY <1>1 DEF MarkDone, At, Idle
    <2>2. api.task \in Tasks /\ HasOwn(api.task)
      BY <1>0, <2>1
    <2>3. /\ UNCHANGED <<spec, posts, stored, taskEvents>>
          /\ status' = [status EXCEPT ![api.task] = "DONE"]
          /\ \/ api' = Idle /\ Answer(api.task)
             \/ api' = [api EXCEPT !.step = "detach"] /\ phase' = phase
      BY <1>1 DEF MarkDone
    <2>4. \A u \in Tasks : status'[u] = "DONE" => status[u] = "DONE" \/ HasOwn(u)
      BY <1>0, <2>2, <2>3
    <2>5. CASE api' = Idle /\ Answer(api.task)
      BY <2>1, <2>2, <2>3, <2>4, <2>5, AnswerFresh
    <2>6. CASE api' = [api EXCEPT !.step = "detach"] /\ phase' = phase
      <3>1. /\ api'.task = api.task /\ api'.cut = api.cut /\ api'.todo \subseteq api.todo
            /\ api'.step = "detach"
        BY <1>0, <2>1, <2>6
      <3>2. api' # Idle
        BY <3>1 DEF Idle
      <3>3. \A u \in Tasks : HasOwn(u)' <=> HasOwn(u)
        BY <2>3 DEF HasOwn
      <3> QED
        BY <2>1, <2>3, <2>4, <2>6, <3>1, <3>2, <3>3, GoOnFresh
    <2> QED
      BY <2>3, <2>5, <2>6
  <1>2. CASE DetachChildren
    <2>1. api # Idle
      BY <1>2 DEF DetachChildren, At, Idle
    <2>2. /\ UNCHANGED <<spec, posts, stored, phase, status, taskEvents>>
          /\ api' = [api EXCEPT !.step = "children"]
      BY <1>2 DEF DetachChildren, work
    <2>3. /\ api'.task = api.task /\ api'.cut = api.cut /\ api'.todo \subseteq api.todo
          /\ api'.step = "children"
      BY <1>0, <2>1, <2>2
    <2>4. api' # Idle
      BY <2>3 DEF Idle
    <2>5. \A u \in Tasks : HasOwn(u)' <=> HasOwn(u)
      BY <2>2 DEF HasOwn
    <2> QED
      BY <2>1, <2>2, <2>3, <2>4, <2>5, GoOnFresh
  <1>3. CASE ClearFinalized
    <2>1. api # Idle
      BY <1>3 DEF ClearFinalized, At, Idle
    <2>2. /\ UNCHANGED <<spec, posts, stored, status, taskEvents>>
          /\ api' = Idle /\ Answer(api.task)
      BY <1>3 DEF ClearFinalized, records
    <2>3. api.task \in Tasks
      BY <1>0, <2>1
    <2> QED
      BY <2>1, <2>2, <2>3, AnswerFresh
  <1>4. ASSUME NEW c \in Tasks, StoreChild(c) \/ SkipChild(c)
        PROVE  /\ api # Idle /\ api' # Idle /\ c \in api.todo
               /\ api'.task = api.task /\ api'.cut = api.cut /\ api'.todo \subseteq api.todo
               /\ UNCHANGED <<spec, posts, phase, taskEvents>>
    <2>1. api # Idle /\ c \in api.todo
      BY <1>4 DEF StoreChild, SkipChild, At, Idle
    <2>2. NextChild(c)
      BY <1>4 DEF StoreChild, SkipChild
    <2>3. /\ api'.task = api.task /\ api'.cut = api.cut /\ api'.todo \subseteq api.todo
          /\ api'.step \in {"clear", "children"}
      BY <1>0, <2>1, <2>2 DEF NextChild
    <2>4. api' # Idle
      BY <2>3 DEF Idle
    <2> QED
      BY <1>4, <2>1, <2>3, <2>4 DEF StoreChild, SkipChild, records, work
  <1>5. ASSUME NEW c \in Tasks, StoreChild(c) PROVE FreshInv'
    <2>1. /\ stored' = [stored EXCEPT ![c] = api.cut[c]]
          /\ status' = [status EXCEPT ![c] = "DONE"]
      BY <1>5 DEF StoreChild
    <2>2. OwnFirst(c, api.cut[c])
      BY <1>0, <1>4, <1>5
    <2>3. stored'[c] = api.cut[c] /\ \A u \in Tasks \ {c} : stored'[u] = stored[u]
      BY <1>0, <2>1
    <2>4. HasOwn(c)' /\ \A u \in Tasks : HasOwn(u) => HasOwn(u)'
      BY <2>2, <2>3 DEF HasOwn, OwnFirst
    <2>5. \A u \in Tasks : status'[u] = "DONE" => status[u] = "DONE" \/ HasOwn(u)'
      BY <1>0, <2>1, <2>4
    <2> QED
      BY <1>4, <1>5, <2>4, <2>5, GoOnFresh
  <1>6. ASSUME NEW c \in Tasks, SkipChild(c) PROVE FreshInv'
    <2>1. UNCHANGED <<stored, status>>
      BY <1>6 DEF SkipChild, records
    <2>2. \A u \in Tasks : HasOwn(u)' <=> HasOwn(u)
      BY <2>1 DEF HasOwn
    <2> QED
      BY <1>4, <1>6, <2>1, <2>2, GoOnFresh
  <1> QED
    BY <1>1, <1>2, <1>3, <1>5, <1>6, SplitFresh DEF IngestResult

LEMMA NextFresh == ASSUME PromptIngest PROVE FreshIInv /\ [Next]_vars => FreshIInv'
  <1> SUFFICES ASSUME FreshIInv, [Next]_vars PROVE FreshIInv'
    OBVIOUS
  <1>1. CutIInv'
    BY NextCuts DEF FreshIInv
  <1>2. CASE UNCHANGED vars
    <2>1. UNCHANGED <<spec, status, phase, posts, api, stored, taskEvents>>
      BY <1>2 DEF vars, records, work
    <2>2. SucceededHas'
      BY <2>1 DEF FreshIInv, FreshInv, SucceededHas, HasOwn
    <2> QED
      BY <1>1, <2>1, <2>2, QuietFresh DEF FreshIInv
  <1> QED
    BY <1>1, <1>2, PlanFresh, IngestStepFresh, ListenFresh, WorkFresh
       DEF Next, Trouble, FreshIInv

(* A DONE task has its results, executed itself or cut for it, provided no *)
(* worker gives up on a POST that is being ingested: it would be retried,  *)
(* its spec would grow, and the slices of the new batch would be cut from  *)
(* the old result.                                                         *)
THEOREM DoneTasksHaveResults ==
    ASSUME PromptIngest
    PROVE  Spec => []DoneHasResult
  <1>1. Init => FreshIInv
    BY InitTypes, InitPlaces, InitCuts, InitFresh DEF FreshIInv, CutIInv
  <1>2. FreshIInv => DoneHasResult
    <2> SUFFICES ASSUME FreshIInv, NEW t \in Tasks, status[t] = "DONE"
                 PROVE  IsPrefix(Own(t), stored[t])
      BY DEF DoneHasResult
    <2>1. OwnFirst(t, stored[t]) /\ stored[t] \in Seq(Tasks)
      BY DEF FreshIInv, FreshInv, DoneHas, HasOwn, CutIInv, TypeOK
    <2> QED
      BY <2>1, PrefixIsOwn
  <1> QED
    BY <1>1, <1>2, NextFresh, PTL DEF Spec
==============================================================================
