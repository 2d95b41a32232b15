-------------------------- MODULE ClusterCollector --------------------------
(***************************************************************************)
(* How AIOps learns the resources of one cluster (kubernetes.py).  A       *)
(* watch per kind and a periodic full list feed one projection; what each  *)
(* changes is appended to a bounded stream, from which AIOps pulls.  The   *)
(* list is read, kind after kind, before, and applied after, what the      *)
(* watches bring in the meantime; the stream drops its oldest items; a     *)
(* restart starts a new epoch with an empty projection.                    *)
(*                                                                         *)
(* One object stands for each kind.  Sequence numbers are kept relative to *)
(* the end of the stream, so that periodic lists need no bound.            *)
(***************************************************************************)
EXTENDS Naturals, FiniteSets, SequencesExt

CONSTANTS
  Objects,      \* the objects of the cluster, one of each kind
  Workloads,    \* those that may be scaled to zero
  Owner,        \* the owners of each object
  ListedBefore, \* RESOURCES: <<p, o>> when the kind of p comes before the kind of o
  Capacity,     \* maximum_bytes of the stream, in items
  Limits,       \* how many items AIOps asks for; at times, all there may be
  MaxUpsets     \* bound: changes of the cluster, expired watches and restarts

ASSUME ClusterCollectorAssumption ==
  /\ IsFiniteSet(Objects)
  /\ Workloads \subseteq Objects /\ Owner \in [Objects -> SUBSET Objects]
  /\ ListedBefore \subseteq Objects \X Objects
  /\ Capacity \in Nat /\ MaxUpsets \in Nat /\ Limits \subseteq Nat /\ Capacity \in Limits

VARIABLES
  cluster,    \* the cluster: each object is "absent", "up" or "stopped"
  upsets,
  watch,      \* each watch: "off" (no resource version), "listed" or "streaming"
  queue,      \* what each watch will call back with, oldest first
  \* the collector
  epoch,
  first,      \* the loop of _run is in its first round
  listed,     \* the objects whose kinds the round has listed so far
  baseline,   \* and what it has read of them
  raw,        \* raw_current
  items,      \* the stream
  appended,   \* items ever appended in this epoch, up to Capacity + 1
  \* AIOps
  reader      \* its epoch, how far it lags behind the end of the stream, its
              \* view, the baseline it is receiving, whether it has missed items

clusterVars == <<cluster, upsets>>
watchVars == <<watch, queue>>
loopVars == <<first, listed, baseline>>
collectorVars ==
  <<clusterVars, watchVars, epoch, loopVars, raw, items, appended, reader>>

States == {"absent", "up", "stopped"}
Assets == [Objects -> States]
Nothing_ == [o \in Objects |-> "absent"]

\* _scaled_to_zero_excluded_uids: the workloads scaled to zero, and, in round after
\* round, what is owned by what is excluded.
ScaledToZero(assets) == {o \in Objects : assets[o] = "stopped"}
WithOwned(assets, some) == some \cup {o \in Objects : assets[o] # "absent" /\ Owner[o] \cap some # {}}
Excluded(assets) ==
  LET round[n \in 0..Cardinality(Objects)] ==
        IF n = 0 THEN ScaledToZero(assets) ELSE WithOwned(assets, round[n - 1])
  IN round[Cardinality(Objects)]

\* _exclude_scaled_to_zero_assets: what AIOps is to see.
Visible(assets) ==
  IF \A o \in Objects : assets[o] # "stopped" THEN assets
  ELSE LET excluded == Excluded(assets)
       IN [o \in Objects |-> IF o \in excluded THEN "absent" ELSE assets[o]]

Capped(n) == IF n > Capacity THEN Capacity + 1 ELSE n
Behind == reader.epoch = epoch

\* CollectionStream.append, for several items: the oldest are dropped.
AppendAll(new) ==
  LET all == items \o new
      over == IF Len(all) > Capacity THEN Len(all) - Capacity ELSE 0
  IN /\ items' = SubSeq(all, over + 1, Len(all))
     /\ appended' = Capped(appended + Len(new))
     /\ reader' = IF Behind THEN [reader EXCEPT !.lag = Capped(@ + Len(new))] ELSE reader

\* _replace_projection: what differs is appended, and everything in a baseline.  The
\* order among them is of no account, for each object is in it once.
Changes(old, new, full) ==
  LET upserts == SetToSeq({o \in Objects : new[o] # "absent" /\ (full \/ old[o] # new[o])})
  IN [i \in DOMAIN upserts |->
       [type |-> IF full THEN "BASELINE" ELSE "CHANGED", object |-> upserts[i], state |-> new[upserts[i]]]]
Deleted(old, new) ==
  LET gone == SetToSeq({o \in Objects : new[o] = "absent" /\ old[o] # "absent"})
  IN [i \in DOMAIN gone |-> [type |-> "CHANGED", object |-> gone[i], state |-> "absent"]]
Differences(old, new, full) == Changes(old, new, full) \o Deleted(old, new)
Present(assets) == Cardinality({o \in Objects : assets[o] # "absent"})
Complete(assets) == <<[type |-> "COMPLETE", expected |-> Present(Visible(assets))]>>

ReplaceProjection(assets, full) ==
  /\ raw' = assets
  /\ \E old \in {Visible(raw)}, new \in {Visible(assets)} :
       \E block \in {Differences(old, new, full) \o (IF full THEN Complete(assets) ELSE <<>>)} :
         AppendAll(block)

NewReader == [epoch |-> 1, lag |-> 0, view |-> Nothing_, base |-> Nothing_, missed |-> FALSE]

CollectorInit ==
  /\ cluster \in Assets /\ (\A o \in Objects : cluster[o] = "stopped" => o \in Workloads)
  /\ upsets = 0
  /\ watch = [o \in Objects |-> "off"] /\ queue = [o \in Objects |-> <<>>]
  /\ epoch = 1 /\ first = TRUE /\ listed = {} /\ baseline = Nothing_
  /\ raw = Nothing_ /\ items = <<>> /\ appended = 0
  /\ reader = NewReader
-----------------------------------------------------------------------------
Upset == upsets < MaxUpsets /\ upsets' = upsets + 1

\* The cluster changes, and the watches that stream will tell of it.
ChangeCluster(o, s) ==
  /\ s # cluster[o] /\ (s = "stopped" => o \in Workloads) /\ Upset
  /\ cluster' = [cluster EXCEPT ![o] = s]
  /\ queue' = IF watch[o] = "off" THEN queue ELSE [queue EXCEPT ![o] = Append(@, s)]
  /\ UNCHANGED <<watch, epoch, loopVars, raw, items, appended, reader>>

\* watch_resource without a resource version: a list, called back as RELIST, from
\* whose version it then streams.
WatchList(o) ==
  /\ ~first /\ watch[o] = "off"
  /\ watch' = [watch EXCEPT ![o] = "listed"]
  /\ queue' = [queue EXCEPT ![o] = <<cluster[o]>>]
  /\ UNCHANGED <<clusterVars, epoch, loopVars, raw, items, appended, reader>>

\* _watch_change: RELIST or one event, under current_lock.
WatchChange(o) ==
  /\ queue[o] # <<>>
  /\ queue' = [queue EXCEPT ![o] = Tail(@)]
  /\ watch' = [watch EXCEPT ![o] = "streaming"]
  /\ ReplaceProjection([raw EXCEPT ![o] = Head(queue[o])], FALSE)
  /\ UNCHANGED <<clusterVars, epoch, loopVars>>

\* 410: the version is too old, and what the watch had yet to bring is lost.  Any
\* other failure keeps the version and costs only time.
WatchExpires(o) ==
  /\ watch[o] = "streaming" /\ Upset
  /\ watch' = [watch EXCEPT ![o] = "off"]
  /\ queue' = [queue EXCEPT ![o] = <<>>]
  /\ UNCHANGED <<cluster, epoch, loopVars, raw, items, appended, reader>>

\* A round of _run that reconciles, because it is the first, was asked for
\* (collection_reconcile, _supervise_watches) or its interval has passed: that may
\* be at any time, so the request itself, which the end of a round may forget,
\* costs only time.  The kinds are listed one after the other, outside the lock.
CollectList(o) ==
  /\ o \notin listed /\ \A p \in Objects : <<p, o>> \in ListedBefore => p \in listed
  /\ listed' = listed \cup {o} /\ baseline' = [baseline EXCEPT ![o] = cluster[o]]
  /\ UNCHANGED <<clusterVars, watchVars, epoch, first, raw, items, appended, reader>>

RoundEnds == listed' = {} /\ baseline' = Nothing_ /\ first' = FALSE

\* A list that lacks a kind changes nothing, and the watches start all the same; after
\* the first round that costs only time.
CollectFails ==
  /\ listed # Objects /\ first
  /\ RoundEnds
  /\ UNCHANGED <<clusterVars, watchVars, epoch, raw, items, appended, reader>>

\* _collect_resources, under current_lock.
CollectApplies ==
  /\ listed = Objects
  /\ RoundEnds
  /\ ReplaceProjection(baseline, TRUE)
  /\ UNCHANGED <<clusterVars, watchVars, epoch>>

\* A restart: a new collector, a new epoch.
RestartCollector ==
  /\ Upset
  /\ epoch' = epoch + 1
  /\ watch' = [o \in Objects |-> "off"] /\ queue' = [o \in Objects |-> <<>>]
  /\ first' = TRUE /\ listed' = {} /\ baseline' = Nothing_
  /\ raw' = Nothing_ /\ items' = <<>> /\ appended' = 0
  /\ reader' = [reader EXCEPT !.lag = 0, !.base = Nothing_]
  /\ UNCHANGED cluster
-----------------------------------------------------------------------------
GapUnlessOne == reader.lag > Len(items) + 1  \* mutant of Gap

\* CollectionStream.read: what was dropped before it was read is a gap.
Gap == reader.lag > Len(items)

\* The items after the cursor (sequence > cursor) that are still there, and at most n of them.
From == IF reader.lag > Len(items) THEN 0 ELSE Len(items) - reader.lag
ReadPastNext(n) == SubSeq(items, From + 2, Len(items))  \* mutant of ReadItems: > cursor + 1
ReadItems(n) == SubSeq(items, From + 1, IF From + n < Len(items) THEN From + n ELSE Len(items))

\* What AIOps does with an item.  A baseline replaces the view when it has arrived
\* as a whole, which the expected count tells.
Take(r, item) ==
  CASE item.type = "CHANGED" -> [r EXCEPT !.view[item.object] = item.state]
    [] item.type = "BASELINE" ->
         [r EXCEPT !.view[item.object] = item.state, !.base[item.object] = item.state]
    [] OTHER ->
         IF Present(r.base) = item.expected
         THEN [r EXCEPT !.view = r.base, !.base = Nothing_, !.missed = FALSE]
         ELSE [r EXCEPT !.base = Nothing_]

TakeAll(r, got) ==
  LET after[i \in 0..Len(got)] == IF i = 0 THEN r ELSE Take(after[i - 1], got[i])
  IN after[Len(got)]

\* collection_pull, at most n items: after a gap AIOps goes on from the oldest.
Pull(n) ==
  /\ Behind /\ reader.lag > 0
  /\ UNCHANGED <<clusterVars, watchVars, epoch, loopVars, raw, items, appended>>
  /\ LET got == ReadItems(n)
         told == IF Gap THEN [reader EXCEPT !.base = Nothing_, !.missed = TRUE] ELSE reader
     IN reader' = [TakeAll(told, got) EXCEPT !.lag = Len(items) - From - Len(got)]

\* The answer carries another epoch: AIOps starts again from its first item.
PullNewEpoch ==
  /\ ~Behind
  /\ reader' = [reader EXCEPT !.epoch = epoch, !.lag = appended, !.base = Nothing_, !.missed = TRUE]
  /\ UNCHANGED <<clusterVars, watchVars, epoch, loopVars, raw, items, appended>>

CollectorNext ==
  \/ \E o \in Objects, s \in States : ChangeCluster(o, s)
  \/ \E o \in Objects : WatchList(o) \/ WatchChange(o) \/ WatchExpires(o)
  \/ (\E o \in Objects : CollectList(o)) \/ CollectApplies \/ CollectFails \/ RestartCollector
  \/ (\E n \in Limits : Pull(n)) \/ PullNewEpoch

\* The loop of the collector goes on and the API server answers it in the end; AIOps
\* goes on pulling all there is.  Of the watches nothing is assumed.
Rounds == (\E o \in Objects : CollectList(o)) \/ CollectApplies
Pulls == Pull(Capacity) \/ PullNewEpoch
CollectorFairness == WF_collectorVars(Rounds) /\ WF_collectorVars(Pulls)
CollectorSpec == CollectorInit /\ [][CollectorNext]_collectorVars /\ CollectorFairness
-----------------------------------------------------------------------------
Items ==
  [type : {"CHANGED", "BASELINE"}, object : Objects, state : States]
    \cup [type : {"COMPLETE"}, expected : Nat]
Readers ==
  [epoch : Nat, lag : 0..Capacity + 1, view : Assets, base : Assets, missed : BOOLEAN]

CollectorTypeOK ==
  /\ cluster \in Assets /\ raw \in Assets /\ baseline \in Assets /\ listed \subseteq Objects
  /\ watch \in [Objects -> {"off", "listed", "streaming"}] /\ queue \in [Objects -> Seq(States)]
  /\ items \in Seq(Items) /\ Len(items) <= Capacity /\ appended \in 0..Capacity + 1
  /\ epoch \in Nat /\ reader \in Readers /\ reader.epoch <= epoch

\* A reader at the end of the stream that knows of nothing it missed sees exactly
\* the projection: every loss of an item, by the bound, by a watch or by a
\* restart, is told to it, and what it is told is in the right order.
ViewIsProjection ==
  Behind /\ reader.lag = 0 /\ ~reader.missed => reader.view = Visible(raw)
CollectorInv == CollectorTypeOK /\ ViewIsProjection

\* What that rests on.  Before and after each item of the stream the projection was
\* something: what a reader that missed nothing sees there, and the baseline that is
\* being sent, if one is.
Marks == [view : Assets, goal : Assets]
Leads(l, item, m) ==
  CASE item.type = "CHANGED" -> m = [l EXCEPT !.view[item.object] = item.state]
    [] item.type = "BASELINE" ->
         /\ m.view = [l.view EXCEPT ![item.object] = item.state]
         /\ m.goal[item.object] = item.state /\ l.goal \in {m.goal, Nothing_}
    [] OTHER ->
         /\ l.view = l.goal /\ item.expected = Present(l.goal)
         /\ m = [view |-> l.goal, goal |-> Nothing_]
Along(line, its) == \A i \in 1..Len(its) : Leads(line[i - 1], its[i], line[i])

\* A reader has of the baseline nothing but what is in it, and the view it should have
\* unless it knows that it missed something.
Fits(r, l) ==
  /\ \A o \in Objects : r.base[o] \in {"absent", l.goal[o]}
  /\ ~r.missed => r.view = l.view
StreamLeads ==
  \E line \in [0..Len(items) -> Marks] :
    /\ Along(line, items)
    /\ line[Len(items)] = [view |-> Visible(raw), goal |-> Nothing_]
    /\ Behind /\ ~Gap => Fits(reader, line[Len(items) - reader.lag])
ReaderInv == CollectorTypeOK /\ StreamLeads

\* When the cluster comes to rest, AIOps comes to see it as it is, whatever the watches
\* do: a list older than what they have brought, an expired watch, dropped items and a
\* restart are all made good by the next rounds.
ViewConverges == <>[](reader.view = Visible(cluster))
=============================================================================
