-------------------------- MODULE ClusterEngine_proofs ---------------------------
(***************************************************************************)
(* Theorems about clustered scans, for any templates, hosts, workers,       *)
(* capacities, limit of the breaker and number of panics: the clusters are a *)
(* partition of the pairs of a template and a host, IInv is an inductive    *)
(* invariant, sharing an answer neither loses nor invents findings, and a   *)
(* clustered scan keeps the promise of ScanPromise.                        *)
(***************************************************************************)
EXTENDS ClusterEngine, SequenceTheorems, FiniteSetTheorems, TLAPS

(***************************************************************************)
(* The clusters.                                                           *)
(***************************************************************************)
\* What the constants are.
LEMMA Constants ==
    /\ Templates \in [DOMAIN Templates -> Template] /\ IsFiniteSet(DOMAIN Templates)
    /\ DOMAIN Templates \subseteq Nat
    /\ IsFiniteSet(ToSet(Hosts)) /\ ToSet(Hosts) \subseteq Targets
<1>1. Templates \in Seq(Template) /\ Hosts \in Seq(Targets)
  BY ClusterAssumption
<1>2. /\ DOMAIN Templates = 1..Len(Templates) /\ Len(Templates) \in Nat
      /\ Templates \in [1..Len(Templates) -> Template]
  BY <1>1, LenProperties
<1>3. /\ DOMAIN Hosts = 1..Len(Hosts) /\ Len(Hosts) \in Nat
      /\ Hosts \in [1..Len(Hosts) -> Targets]
  BY <1>1, LenProperties
<1>4. IsFiniteSet(1..Len(Templates)) /\ IsFiniteSet(1..Len(Hosts))
  BY <1>2, <1>3, FS_Interval
<1>5. ToSet(Hosts) \subseteq Targets
  BY <1>3 DEF ToSet
<1>6. IsFiniteSet(ToSet(Hosts))
  <2>1. Hosts \in Surjection(1..Len(Hosts), ToSet(Hosts))
    BY <1>3 DEF ToSet, Surjection
  <2> QED BY <1>4, <2>1, FS_Surjection
<1> QED BY <1>2, <1>4, <1>5, <1>6

\* There are finitely many clusters: one is made for each pair.
LEMMA ClustersFinite == IsFiniteSet(Clusters) /\ NClusters \in Nat
<1> DEFINE ClusterOf(p) == Cluster(p[2], IF p[1] \in Shareable THEN Sharing(Templates[p[1]].request)
                                         ELSE {p[1]})
           made == [p \in Pairs |-> ClusterOf(p)]
<1>1. IsFiniteSet(Pairs)
  BY Constants, FS_Product DEF Pairs
<1>2. Clusters \subseteq {made[p] : p \in Pairs}
  <2>1. ASSUME NEW h \in ToSet(Hosts), NEW i \in DOMAIN Templates
        PROVE  <<i, h>> \in Pairs /\ made[<<i, h>>] = ClusterOf(<<i, h>>)
    BY DEF Pairs
  <2>2. ASSUME NEW h \in ToSet(Hosts), NEW i \in Shareable
        PROVE  \E p \in Pairs : made[p] = Cluster(h, Sharing(Templates[i].request))
    <3>1. i \in DOMAIN Templates
      BY DEF Shareable
    <3> QED BY <2>1, <3>1
  <2>3. ASSUME NEW h \in ToSet(Hosts), NEW i \in Unshareable
        PROVE  \E p \in Pairs : made[p] = Cluster(h, {i})
    BY <2>1 DEF Unshareable
  <2> HIDE DEF made
  <2>4. Groups \subseteq {made[p] : p \in Pairs}
    <3> SUFFICES ASSUME NEW c \in Groups PROVE \E p \in Pairs : made[p] = c
      OBVIOUS
    <3>1. PICK h \in ToSet(Hosts), i \in Shareable : c = Cluster(h, Sharing(Templates[i].request))
      BY DEF Groups
    <3> QED BY <2>2, <3>1
  <2>5. Singletons \subseteq {made[p] : p \in Pairs}
    <3> SUFFICES ASSUME NEW c \in Singletons PROVE \E p \in Pairs : made[p] = c
      OBVIOUS
    <3>1. PICK h \in ToSet(Hosts), i \in Unshareable : c = Cluster(h, {i})
      BY DEF Singletons, Cluster
    <3> QED BY <2>3, <3>1
  <2> QED BY <2>4, <2>5 DEF Clusters
<1>3. IsFiniteSet({made[p] : p \in Pairs})
  <2> HIDE DEF made
  <2>1. DOMAIN made = Pairs
    BY DEF made
  <2>2. made \in Surjection(Pairs, {made[p] : p \in Pairs})
    <3>1. made \in [Pairs -> {made[p] : p \in Pairs}]
      BY DEF made
    <3> QED BY <3>1 DEF Surjection
  <2> QED BY <1>1, <2>2, FS_Surjection
<1>4. IsFiniteSet(Clusters)
  BY <1>2, <1>3, FS_Subset
<1> QED BY <1>4, FS_CardinalityType DEF NClusters

\* A cluster is on one of the hosts and holds templates.
LEMMA ClusterType ==
    ASSUME NEW c \in Clusters
    PROVE  /\ c.host \in ToSet(Hosts) /\ c.templates \subseteq DOMAIN Templates
           /\ c = Cluster(c.host, c.templates)
BY DEF Clusters, Groups, Singletons, Cluster, Sharing, Shareable, Unshareable

\* No template is in two clusters of a host.
LEMMA ClustersDisjoint ==
    ASSUME NEW c \in Clusters, NEW d \in Clusters, c.host = d.host,
           NEW t \in c.templates, t \in d.templates
    PROVE  c = d
<1>1. ASSUME NEW e \in Clusters, t \in e.templates
      PROVE  \/ t \in Shareable /\ e = Cluster(e.host, Sharing(Templates[t].request))
             \/ t \notin Shareable /\ e = Cluster(e.host, {t})
  <2>1. CASE e \in Groups
    <3>1. PICK h \in ToSet(Hosts), i \in Shareable : e = Cluster(h, Sharing(Templates[i].request))
      BY <2>1 DEF Groups
    <3>2. e.host = h /\ e.templates = Sharing(Templates[i].request)
      BY <3>1 DEF Cluster
    <3>3. t \in Shareable /\ Templates[t].request = Templates[i].request
      BY <1>1, <3>2 DEF Sharing
    <3> QED BY <3>1, <3>2, <3>3
  <2>2. CASE e \in Singletons
    <3>1. PICK h \in ToSet(Hosts), i \in Unshareable : e = Cluster(h, {i})
      BY <2>2 DEF Singletons
    <3>2. e.host = h /\ e.templates = {i}
      BY <3>1 DEF Cluster
    <3> QED BY <1>1, <3>1, <3>2 DEF Unshareable
  <2> QED BY <2>1, <2>2 DEF Clusters
<1> QED BY <1>1

\* Every template is in a cluster of every host.
LEMMA ClustersCover ==
    ASSUME NEW p \in Pairs
    PROVE  \E c \in Clusters : c.host = p[2] /\ p[1] \in c.templates
<1>1. p[1] \in DOMAIN Templates /\ p[2] \in ToSet(Hosts)
  BY DEF Pairs
<1>2. CASE p[1] \in Shareable
  <2>1. Cluster(p[2], Sharing(Templates[p[1]].request)) \in Groups
    BY <1>1, <1>2 DEF Groups
  <2>2. p[1] \in Sharing(Templates[p[1]].request)
    BY <1>2 DEF Sharing
  <2> QED BY <2>1, <2>2 DEF Clusters, Cluster
<1>3. CASE p[1] \notin Shareable
  <2>1. PICK h \in ToSet(Hosts), i \in Unshareable : h = p[2] /\ i = p[1]
    BY <1>1, <1>3 DEF Unshareable
  <2>2. Cluster(h, {i}) \in Singletons
    BY SMT DEF Singletons
  <2>3. Cluster(h, {i}).host = h /\ Cluster(h, {i}).templates = {i}
    BY DEF Cluster
  <2> QED BY <2>1, <2>2, <2>3 DEF Clusters
<1> QED BY <1>2, <1>3

\* Clustering is a partition: each template is run against each host in one cluster
\* and no other (RequestClusterer::cluster).
THEOREM ClustersPartition ==
    \A p \in Pairs :
        /\ \E c \in Clusters : c.host = p[2] /\ p[1] \in c.templates
        /\ \A c, d \in Clusters :
              /\ c.host = p[2] /\ p[1] \in c.templates
              /\ d.host = p[2] /\ p[1] \in d.templates
              => c = d
BY ClustersCover, ClustersDisjoint

\* The vector lists every cluster once.
LEMMA VectorFacts ==
    ASSUME clusters \in Vectors
    PROVE  /\ clusters \in [1..NClusters -> Clusters]
           /\ \A c, d \in 1..NClusters : clusters[c] = clusters[d] => c = d
           /\ \A k \in Clusters : \E c \in 1..NClusters : clusters[c] = k
<1>1. clusters \in Bijection(1..NClusters, Clusters)
  BY DEF Vectors
<1> QED BY <1>1 DEF Bijection, Injection, Surjection, IsInjective

\* So two places of the vector with a host and a template in common are the same.
LEMMA VectorDisjoint ==
    ASSUME clusters \in Vectors, NEW c \in 1..NClusters, NEW d \in 1..NClusters,
           clusters[c].host = clusters[d].host,
           NEW t \in clusters[c].templates, t \in clusters[d].templates
    PROVE  c = d
<1>1. clusters[c] \in Clusters /\ clusters[d] \in Clusters
  BY VectorFacts
<1>2. clusters[c] = clusters[d]
  BY <1>1, ClustersDisjoint
<1> QED BY <1>2, VectorFacts

\* A set of numbers that is not empty has a least one.
LEMMA MinFact ==
    ASSUME NEW S \in SUBSET Nat, S # {}
    PROVE  Min(S) \in S
<1> DEFINE R == {p \in Nat \X Nat : p[1] < p[2]}
<1>1. IsWellFoundedOn(R, Nat)
  BY NatLessThanWellFounded, Zenon DEF OpToRel
<1>2. PICK x \in S : \A y \in S : ~ (<<y, x>> \in R)
  <2> HIDE DEF R
  <2> QED BY <1>1, WFMin
<1>3. \A y \in S : x <= y
  <2>1. ASSUME NEW y \in S, y < x PROVE FALSE
    <3>1. <<y, x>> \in R
      BY <2>1
    <3> QED BY <1>2, <3>1
  <2>2. x \in Int /\ \A y \in S : y \in Int /\ ~(y < x)
    BY <2>1
  <2> QED BY <2>2
<1> QED BY <1>3 DEF Min

(***************************************************************************)
(* The inductive invariant.                                                *)
(***************************************************************************)
Busy == {"received", "limited", "armed", "inflight", "penalizing", "rewarding",
         "evaluating", "emitting"}
Evaluating == {"evaluating", "emitting"}

\* Who holds which cluster: a cluster has at most one worker, taken in order.
HeldInv ==
    /\ \A w \in Workers : pc[w] \in Busy <=> held[w] # 0
    /\ \A w \in Workers : held[w] <= received
    /\ \A v, w \in Workers : held[v] = held[w] /\ held[v] # 0 => v = w

\* Where the worker is within its cluster.
AheadInv ==
    \A w \in Workers :
        /\ held[w] # 0 => ahead[w] \subseteq TemplatesOf(w)
        /\ pc[w] \in {"received", "limited", "armed", "inflight", "rewarding"} =>
              ahead[w] = TemplatesOf(w)
        /\ pc[w] = "emitting" => ahead[w] # {} /\ Reports(At(w), matched[held[w]])

FateInv ==
    /\ \A c \in 1..NClusters : fate[c] = "queued" <=> c > received
    /\ \A c \in 1..NClusters : fate[c] = "running" => \E w \in Workers : held[w] = c
    /\ \A w \in Workers : held[w] # 0 => fate[held[w]] = "running"

LateInv ==
    \A w \in Workers :
        /\ lateFindings[w] <= 1
        /\ pc[w] = "emitting" \/ ~isCancelled => lateFindings[w] = 0

\* When the ends of the two channels may be closed.
ClosingInv ==
    /\ producer = "sending" => sent < NClusters
    /\ producer = "done" => sent = NClusters \/ isCancelled \/ AllGone
    /\ \A w \in Workers : pc[w] = "exited" =>
          isCancelled \/ (producer = "done" /\ sent = NClusters /\ received = NClusters)
    /\ engine = "returned" => AllGone
    /\ report = "done" => engine = "returned" /\ findings = << >>

\* A finding is in one place.
QueueInv ==
    /\ \A i, j \in 1..Len(findings) : findings[i] = findings[j] => i = j
    /\ \A i \in 1..Len(findings) : findings[i] \notin collected

\* What cluster c has raised: nothing before its answer is evaluated, then what the
\* answer calls for of the templates the worker has dealt with.
Raised(c) == {f \in collected \cup Queued :
                 f[2] = clusters[c].host /\ f[1] \in clusters[c].templates}
RaisedInv ==
    /\ \A c \in 1..NClusters : fate[c] = "queued" => Raised(c) = {}
    /\ \A c \in 1..NClusters : Raised(c) \subseteq Expected(c)
    /\ \A c \in 1..NClusters : fate[c] = "completed" => Raised(c) = Expected(c)
    /\ \A w \in Workers : held[w] # 0 =>
          Raised(held[w]) = IF pc[w] \in Evaluating
                            THEN {f \in Expected(held[w]) : f[1] \notin ahead[w]} ELSE {}

IInv ==
    /\ TypeOK
    /\ HeldInv
    /\ AheadInv
    /\ FateInv
    /\ LateInv
    /\ ClosingInv
    /\ QueueInv
    /\ RaisedInv

\* What a step of a worker needs of the types.
LEMMA HeldFacts ==
    ASSUME IInv, NEW w \in Workers, held[w] # 0
    PROVE  /\ held[w] \in 1..NClusters /\ clusters[held[w]] \in Clusters
           /\ TemplatesOf(w) \subseteq DOMAIN Templates /\ HostOf(w) \in ToSet(Hosts)
           /\ HostOf(w) \in Targets
           /\ \A v \in Workers : held[v] = held[w] => v = w
<1>1. TypeOK /\ HeldInv
  BY DEF IInv
<1>2. held[w] \in 1..NClusters /\ clusters \in Vectors
  BY <1>1, ClustersFinite DEF TypeOK
<1>3. clusters[held[w]] \in Clusters
  BY <1>2, VectorFacts
<1> QED BY <1>1, <1>2, <1>3, ClusterType, Constants DEF HeldInv, TemplatesOf, HostOf

\* The counts of the breaker stay counts.
LEMMA BreakerTypes ==
    ASSUME BreakerTypeOK, NEW k \in Targets, RecordError(k) \/ RecordSuccess(k)
    PROVE  BreakerTypeOK'
BY DEF BreakerTypeOK, RecordError, RecordSuccess

\* The worker goes on with its cluster and raises nothing.  What it passes over while it
\* evaluates is not to be reported, and it begins to evaluate with all templates.
LEMMA MoveStep ==
    ASSUME IInv, NEW w \in Workers, NEW next \in Busy, NEW rest,
           pc[w] \in Busy, rest \subseteq ahead[w],
           pc' = [pc EXCEPT ![w] = next], ahead' = [ahead EXCEPT ![w] = rest],
           BreakerTypeOK',
           UNCHANGED <<feed, received, isCancelled, held, output, panics, fate, history>>,
           next \in {"received", "limited", "armed", "inflight", "rewarding"} =>
              rest = TemplatesOf(w),
           next = "emitting" =>
              rest # {} /\ Reports(Min(rest), matched[held[w]]) /\ ~isCancelled,
           pc[w] \in Evaluating =>
              next \in Evaluating /\ \A t \in ahead[w] \ rest : ~Reports(t, matched[held[w]]),
           pc[w] \notin Evaluating /\ next \in Evaluating => rest = TemplatesOf(w)
    PROVE  IInv'
<1>1. TypeOK /\ HeldInv /\ AheadInv /\ FateInv /\ LateInv /\ ClosingInv /\ QueueInv /\ RaisedInv
  BY DEF IInv
<1>2. /\ pc \in [Workers -> WorkerStates] /\ ahead \in [Workers -> SUBSET DOMAIN Templates]
      /\ held[w] # 0
      /\ UNCHANGED <<clusters, producer, sent, received, isCancelled, held, findings, collected,
                     engine, report, panics, fate, matched, lateFindings>>
  BY <1>1 DEF TypeOK, HeldInv, feed, output, history
<1>3. /\ pc'[w] = next /\ ahead'[w] = rest
      /\ \A v \in Workers : v # w => pc'[v] = pc[v] /\ ahead'[v] = ahead[v]
  BY <1>2
<1>4. TypeOK'
  <2>1. pc' \in [Workers -> WorkerStates]
    BY <1>2 DEF WorkerStates, Busy
  <2>2. ahead' \in [Workers -> SUBSET DOMAIN Templates]
    BY <1>2
  <2> QED BY <1>1, <1>2, <2>1, <2>2 DEF TypeOK
<1>5. HeldInv'
  BY <1>1, <1>2, <1>3 DEF HeldInv
<1>6. AheadInv'
  BY <1>1, <1>2, <1>3 DEF AheadInv, TemplatesOf, At
<1>7. FateInv'
  BY <1>1, <1>2 DEF FateInv
<1>8. LateInv'
  BY <1>1, <1>2, <1>3 DEF LateInv
<1>9. ClosingInv'
  <2>1. ~AllGone /\ ~Gone(w) /\ next # "exited"
    BY DEF AllGone, Gone, Busy
  <2> QED BY <1>1, <1>2, <1>3, <2>1 DEF ClosingInv
<1>10. QueueInv'
  BY <1>1, <1>2 DEF QueueInv
<1>11. RaisedInv'
  <2>1. \A c : Raised(c)' = Raised(c) /\ Expected(c)' = Expected(c)
    BY <1>2 DEF Raised, Expected, Queued
  <2>2. Raised(held[w]) = IF next \in Evaluating
                          THEN {f \in Expected(held[w]) : f[1] \notin rest} ELSE {}
    <3>1. \A f \in Expected(held[w]) : /\ f[1] \in TemplatesOf(w)
                                       /\ Reports(f[1], matched[held[w]])
      BY DEF Expected, TemplatesOf, Reports
    <3>2. CASE pc[w] \in Evaluating
      <4>1. Raised(held[w]) = {f \in Expected(held[w]) : f[1] \notin ahead[w]}
        BY <1>1, <1>2, <3>2 DEF RaisedInv
      <4> QED BY <3>1, <3>2, <4>1
    <3>3. CASE pc[w] \notin Evaluating
      <4>1. Raised(held[w]) = {}
        BY <1>1, <1>2, <3>3 DEF RaisedInv
      <4> QED BY <3>1, <3>3, <4>1
    <3> QED BY <3>2, <3>3
  <2>3. \A v \in Workers : held'[v] # 0 =>
          Raised(held[v]) = IF pc'[v] \in Evaluating
                            THEN {f \in Expected(held[v]) : f[1] \notin ahead'[v]} ELSE {}
    BY <1>1, <1>2, <1>3, <2>2 DEF RaisedInv
  <2> QED BY <1>1, <1>2, <2>1, <2>3 DEF RaisedInv
<1> QED BY <1>4, <1>5, <1>6, <1>7, <1>8, <1>9, <1>10, <1>11 DEF IInv

\* A worker that lets go of its cluster, for whatever reason, keeps IInv.
LEMMA LetGoStep ==
    ASSUME IInv, NEW w \in Workers, NEW outcome \in Fates \ {"queued", "running"},
           NEW next \in {"recv", "exited", "crashed"},
           pc[w] \in Busy,
           next = "exited" => isCancelled,
           outcome = "completed" => pc[w] = "evaluating" /\ ahead[w] = {},
           LetGo(w, outcome, next), panics' \in 0..MaxPanics,
           UNCHANGED <<breaker, feed, received, isCancelled, output, history>>
    PROVE  IInv'
<1>1. TypeOK /\ HeldInv /\ AheadInv /\ FateInv /\ LateInv /\ ClosingInv /\ QueueInv /\ RaisedInv
  BY DEF IInv
<1>2. /\ pc \in [Workers -> WorkerStates] /\ held \in [Workers -> 0..NClusters]
      /\ ahead \in [Workers -> SUBSET DOMAIN Templates]
      /\ fate \in [1..NClusters -> Fates] /\ NClusters \in Nat
      /\ received \in 0..sent /\ sent \in 0..NClusters
      /\ UNCHANGED <<breaker, clusters, producer, sent, received, isCancelled, findings,
                     collected, engine, report, matched, lateFindings>>
  BY <1>1, ClustersFinite DEF TypeOK, feed, output, history
<1>3. held[w] # 0
  BY <1>1 DEF HeldInv
<1>4. held[w] \in 1..NClusters /\ \A v \in Workers : held[v] = held[w] => v = w
  BY <1>3, HeldFacts
<1>5. /\ pc' = [pc EXCEPT ![w] = next] /\ held' = [held EXCEPT ![w] = 0]
      /\ ahead' = [ahead EXCEPT ![w] = {}]
      /\ fate' = [fate EXCEPT ![held[w]] = outcome]
  BY DEF LetGo
<1>6. /\ pc'[w] = next /\ held'[w] = 0 /\ ahead'[w] = {} /\ fate'[held[w]] = outcome
      /\ \A v \in Workers : v # w => pc'[v] = pc[v] /\ held'[v] = held[v] /\ ahead'[v] = ahead[v]
      /\ \A c \in 1..NClusters : c # held[w] => fate'[c] = fate[c]
  BY <1>2, <1>4, <1>5
<1>7. TypeOK'
  <2>1. pc' \in [Workers -> WorkerStates]
    BY <1>2, <1>5 DEF WorkerStates
  <2>2. held' \in [Workers -> 0..NClusters] /\ ahead' \in [Workers -> SUBSET DOMAIN Templates]
    BY <1>2, <1>5
  <2>3. fate' \in [1..NClusters -> Fates]
    BY <1>2, <1>5 DEF Fates
  <2> QED BY <1>1, <1>2, <2>1, <2>2, <2>3 DEF TypeOK, BreakerTypeOK, breaker
<1>8. HeldInv'
  <2>1. \A v \in Workers : pc'[v] \in Busy <=> held'[v] # 0
    BY <1>1, <1>6 DEF HeldInv, Busy
  <2>2. \A v \in Workers : held'[v] <= received'
    BY <1>1, <1>2, <1>6 DEF HeldInv
  <2>3. \A u, v \in Workers : held'[u] = held'[v] /\ held'[u] # 0 => u = v
    BY <1>1, <1>6 DEF HeldInv
  <2> QED BY <2>1, <2>2, <2>3 DEF HeldInv
<1>9. AheadInv'
  BY <1>1, <1>2, <1>6 DEF AheadInv, TemplatesOf, At
<1>10. FateInv'
  <2>1. \A c \in 1..NClusters : fate'[c] = "queued" <=> c > received'
    BY <1>1, <1>2, <1>3, <1>4, <1>6 DEF FateInv
  <2>2. \A c \in 1..NClusters : fate'[c] = "running" => \E v \in Workers : held'[v] = c
    BY <1>1, <1>4, <1>6 DEF FateInv
  <2>3. \A v \in Workers : held'[v] # 0 => fate'[held'[v]] = "running"
    BY <1>1, <1>2, <1>4, <1>6 DEF FateInv
  <2> QED BY <2>1, <2>2, <2>3 DEF FateInv
<1>11. LateInv'
  BY <1>1, <1>2, <1>6 DEF LateInv
<1>12. ClosingInv'
  <2>1. ~AllGone
    BY DEF AllGone, Gone, Busy
  <2> QED BY <1>1, <1>2, <1>6, <2>1 DEF ClosingInv
<1>13. QueueInv'
  BY <1>1, <1>2 DEF QueueInv
<1>14. RaisedInv'
  <2>1. \A c : Raised(c)' = Raised(c) /\ Expected(c)' = Expected(c)
    BY <1>2 DEF Raised, Expected, Queued
  <2>2. outcome = "completed" => Raised(held[w]) = Expected(held[w])
    BY <1>1, <1>3 DEF RaisedInv, Evaluating
  <2>3. \A c \in 1..NClusters : fate'[c] = "queued" => Raised(c) = {}
    BY <1>1, <1>6 DEF RaisedInv
  <2>4. \A c \in 1..NClusters : fate'[c] = "completed" => Raised(c) = Expected(c)
    BY <1>1, <1>6, <2>2 DEF RaisedInv
  <2>5. \A v \in Workers : held'[v] # 0 =>
          Raised(held'[v]) = IF pc'[v] \in Evaluating
                             THEN {f \in Expected(held'[v]) : f[1] \notin ahead'[v]} ELSE {}
    BY <1>1, <1>6 DEF RaisedInv
  <2> QED BY <1>1, <2>1, <2>3, <2>4, <2>5 DEF RaisedInv
<1> QED BY <1>7, <1>8, <1>9, <1>10, <1>11, <1>12, <1>13, <1>14 DEF IInv

(***************************************************************************)
(* The steps of a worker.                                                  *)
(***************************************************************************)
\* The next cluster out of the channel.
LEMMA RecvStep ==
    ASSUME IInv, NEW w \in Workers, Recv(w)
    PROVE  IInv'
<1>1. TypeOK /\ HeldInv /\ AheadInv /\ FateInv /\ LateInv /\ ClosingInv /\ QueueInv /\ RaisedInv
  BY DEF IInv
<1> DEFINE c == received + 1
<1>2. /\ pc[w] = "recv" /\ received < sent /\ received' = c
      /\ held' = [held EXCEPT ![w] = c] /\ pc' = [pc EXCEPT ![w] = "received"]
      /\ ahead' = [ahead EXCEPT ![w] = clusters[c].templates]
      /\ fate' = [fate EXCEPT ![c] = "running"]
      /\ UNCHANGED <<errorCounts, droppedHosts, clusters, producer, sent, isCancelled,
                     findings, collected, engine, report, panics, matched, lateFindings>>
  BY DEF Recv, breaker, feed, output, history
<1>3. /\ pc \in [Workers -> WorkerStates] /\ held \in [Workers -> 0..NClusters]
      /\ ahead \in [Workers -> SUBSET DOMAIN Templates]
      /\ fate \in [1..NClusters -> Fates] /\ NClusters \in Nat
      /\ received \in 0..sent /\ sent \in 0..NClusters
  BY <1>1, ClustersFinite DEF TypeOK
<1>4. c \in 1..NClusters /\ c <= sent /\ c > received /\ held[w] = 0 /\ c # 0
  <2>1. held[w] = 0
    BY <1>1, <1>2 DEF HeldInv, Busy
  <2>2. c \in 1..NClusters /\ c <= sent /\ c > received /\ c # 0
    BY <1>2, <1>3
  <2> QED BY <2>1, <2>2
<1>5. fate[c] = "queued" /\ \A v \in Workers : held[v] # c
  BY <1>1, <1>3, <1>4 DEF FateInv, HeldInv
<1> HIDE DEF c
<1>6. /\ pc'[w] = "received" /\ held'[w] = c /\ ahead'[w] = clusters[c].templates
      /\ fate'[c] = "running"
      /\ \A v \in Workers : v # w => pc'[v] = pc[v] /\ held'[v] = held[v] /\ ahead'[v] = ahead[v]
      /\ \A d \in 1..NClusters : d # c => fate'[d] = fate[d]
  BY <1>2, <1>3, <1>4
<1>7. TypeOK'
  <2>1. clusters[c].templates \subseteq DOMAIN Templates
    BY <1>1, <1>4, VectorFacts, ClusterType DEF TypeOK
  <2>2. pc' \in [Workers -> WorkerStates] /\ held' \in [Workers -> 0..NClusters]
    BY <1>2, <1>3, <1>4 DEF WorkerStates
  <2>3. ahead' \in [Workers -> SUBSET DOMAIN Templates] /\ fate' \in [1..NClusters -> Fates]
    BY <1>2, <1>3, <2>1 DEF Fates
  <2>4. received' \in 0..sent
    BY <1>2, <1>3, <1>4
  <2> QED BY <1>1, <1>2, <2>2, <2>3, <2>4 DEF TypeOK, BreakerTypeOK
<1>8. HeldInv'
  <2>1. \A v \in Workers : pc'[v] \in Busy <=> held'[v] # 0
    BY <1>1, <1>4, <1>6 DEF HeldInv, Busy
  <2>2. \A v \in Workers : held'[v] <= received'
    <3>1. \A v \in Workers : held[v] <= received /\ held[v] \in Int
      BY <1>1, <1>3 DEF HeldInv
    <3> QED BY <1>2, <1>3, <1>4, <1>6, <3>1
  <2>3. \A u, v \in Workers : held'[u] = held'[v] /\ held'[u] # 0 => u = v
    BY <1>1, <1>5, <1>6 DEF HeldInv
  <2> QED BY <2>1, <2>2, <2>3 DEF HeldInv
<1>9. AheadInv'
  BY <1>1, <1>2, <1>6 DEF AheadInv, TemplatesOf, At
<1>10. FateInv'
  <2>1. \A d \in 1..NClusters : fate'[d] = "queued" <=> d > received'
    <3> SUFFICES ASSUME NEW d \in 1..NClusters PROVE fate'[d] = "queued" <=> d > c
      BY <1>2
    <3>1. fate[d] = "queued" <=> d > received
      BY <1>1 DEF FateInv
    <3> QED BY <1>3, <1>4, <1>6, <3>1 DEF c
  <2>2. \A d \in 1..NClusters : fate'[d] = "running" => \E v \in Workers : held'[v] = d
    BY <1>1, <1>4, <1>5, <1>6 DEF FateInv
  <2>3. \A v \in Workers : held'[v] # 0 => fate'[held'[v]] = "running"
    BY <1>1, <1>3, <1>4, <1>5, <1>6 DEF FateInv
  <2> QED BY <2>1, <2>2, <2>3 DEF FateInv
<1>11. LateInv'
  BY <1>1, <1>2, <1>6 DEF LateInv
<1>12. ClosingInv'
  <2>1. ~AllGone /\ engine # "returned" /\ report # "done"
    BY <1>1, <1>2 DEF AllGone, Gone, ClosingInv
  <2>2. ~(received = NClusters)
    BY <1>2, <1>3
  <2> QED BY <1>1, <1>2, <1>6, <2>1, <2>2 DEF ClosingInv
<1>13. QueueInv'
  BY <1>1, <1>2 DEF QueueInv
<1>14. RaisedInv'
  <2>1. \A d : Raised(d)' = Raised(d) /\ Expected(d)' = Expected(d)
    BY <1>2 DEF Raised, Expected, Queued
  <2>2. Raised(c) = {}
    BY <1>1, <1>4, <1>5 DEF RaisedInv
  <2>3. \A v \in Workers : held'[v] # 0 =>
          Raised(held'[v]) = IF pc'[v] \in Evaluating
                             THEN {f \in Expected(held'[v]) : f[1] \notin ahead'[v]} ELSE {}
    BY <1>1, <1>6, <2>2 DEF RaisedInv, Evaluating
  <2>4. \A d \in 1..NClusters : /\ fate'[d] = "queued" => fate[d] = "queued"
                                /\ fate'[d] = "completed" => fate[d] = "completed"
    BY <1>6
  <2> QED BY <1>1, <2>1, <2>3, <2>4 DEF RaisedInv
<1> QED BY <1>7, <1>8, <1>9, <1>10, <1>11, <1>12, <1>13, <1>14 DEF IInv

\* The channel is closed and empty.
LEMMA RecvClosedStep ==
    ASSUME IInv, NEW w \in Workers, RecvClosed(w)
    PROVE  IInv'
<1>1. TypeOK /\ HeldInv /\ AheadInv /\ FateInv /\ LateInv /\ ClosingInv /\ QueueInv /\ RaisedInv
  BY DEF IInv
<1>2. /\ pc[w] = "recv" /\ received = sent /\ producer = "done"
      /\ pc' = [pc EXCEPT ![w] = "exited"]
      /\ UNCHANGED <<errorCounts, droppedHosts, clusters, producer, sent, received, isCancelled,
                     held, ahead, findings, collected, engine, report, panics, fate, matched,
                     lateFindings>>
  BY DEF RecvClosed, breaker, feed, output, history
<1>3. /\ pc \in [Workers -> WorkerStates]
      /\ pc'[w] = "exited" /\ \A v \in Workers : v # w => pc'[v] = pc[v]
  BY <1>1, <1>2 DEF TypeOK
<1>4. TypeOK'
  <2>1. pc' \in [Workers -> WorkerStates]
    BY <1>2, <1>3 DEF WorkerStates
  <2> QED BY <1>1, <1>2, <2>1 DEF TypeOK, BreakerTypeOK
<1>5. HeldInv'
  BY <1>1, <1>2, <1>3 DEF HeldInv, Busy
<1>6. AheadInv' /\ FateInv' /\ LateInv' /\ QueueInv'
  BY <1>1, <1>2, <1>3 DEF AheadInv, FateInv, LateInv, QueueInv, TemplatesOf, At
<1>7. ClosingInv'
  <2>1. ~AllGone /\ engine # "returned" /\ report # "done"
    BY <1>1, <1>2 DEF AllGone, Gone, ClosingInv
  <2>2. isCancelled \/ sent = NClusters
    BY <1>1, <1>2, <2>1 DEF ClosingInv
  <2> QED BY <1>1, <1>2, <1>3, <2>1, <2>2 DEF ClosingInv
<1>8. RaisedInv'
  <2>1. \A d : Raised(d)' = Raised(d) /\ Expected(d)' = Expected(d)
    BY <1>2 DEF Raised, Expected, Queued
  <2>2. held[w] = 0
    BY <1>1, <1>2 DEF HeldInv, Busy
  <2>3. \A v \in Workers : held[v] # 0 => pc'[v] = pc[v]
    BY <1>3, <2>2
  <2> QED BY <1>1, <1>2, <2>1, <2>3 DEF RaisedInv
<1> QED BY <1>4, <1>5, <1>6, <1>7, <1>8 DEF IInv

\* The steps that leave the breaker, the findings and the answers alone: the worker lets
\* go or moves on.
LEMMA QuietStep ==
    ASSUME IInv, NEW w \in Workers,
           CheckCancelled(w) \/ ExecuteClustered(w) \/ Send(w)
    PROVE  IInv'
<1>1. TypeOK /\ HeldInv /\ AheadInv /\ pc[w] \in Busy
  BY DEF IInv, CheckCancelled, ExecuteClustered, Send, Busy
<1>2. /\ ahead[w] = TemplatesOf(w) /\ pc[w] \notin Evaluating
      /\ ahead \in [Workers -> SUBSET DOMAIN Templates]
  BY <1>1 DEF AheadInv, CheckCancelled, ExecuteClustered, Send, Evaluating, TypeOK
<1>3. UNCHANGED <<breaker, feed, received, isCancelled, output, panics, history>> /\ BreakerTypeOK'
  BY <1>1 DEF CheckCancelled, ExecuteClustered, Send, TypeOK, BreakerTypeOK, breaker
<1>4. \/ \E outcome \in {"cut", "unsent"}, next \in {"recv", "exited"} :
           LetGo(w, outcome, next) /\ (next = "exited" => isCancelled)
      \/ \E next \in {"limited", "armed", "inflight"} : GoTo(w, next) /\ UNCHANGED ahead
  BY DEF CheckCancelled, ExecuteClustered, Send
<1>5. ASSUME NEW outcome \in {"cut", "unsent"}, NEW next \in {"recv", "exited"},
             LetGo(w, outcome, next), next = "exited" => isCancelled
      PROVE  IInv'
  <2>1. panics' \in 0..MaxPanics
    BY <1>1, <1>3 DEF TypeOK
  <2> QED BY <1>1, <1>3, <1>5, <2>1, LetGoStep DEF Fates
<1>6. ASSUME NEW next \in {"limited", "armed", "inflight"}, GoTo(w, next), UNCHANGED ahead
      PROVE  IInv'
  <2>1. ahead' = [ahead EXCEPT ![w] = ahead[w]]
    BY <1>2, <1>6
  <2>2. /\ next \in Busy /\ next \notin Evaluating /\ next # "emitting"
        /\ pc' = [pc EXCEPT ![w] = next] /\ UNCHANGED <<held, fate>>
    BY <1>6 DEF GoTo, Busy, Evaluating
  <2> QED BY <1>1, <1>2, <1>3, <2>1, <2>2, MoveStep
<1> QED BY <1>4, <1>5, <1>6

\* The steps that write to the breaker.
LEMMA BreakerStep ==
    ASSUME IInv, NEW w \in Workers, Fail(w) \/ Penalize(w) \/ Reward(w)
    PROVE  IInv'
<1>1. TypeOK /\ HeldInv /\ AheadInv /\ pc[w] \in Busy /\ BreakerTypeOK
  BY DEF IInv, Fail, Penalize, Reward, Busy, TypeOK
<1>2. /\ held[w] # 0 /\ HostOf(w) \in Targets
      /\ pc \in [Workers -> WorkerStates] /\ ahead \in [Workers -> SUBSET DOMAIN Templates]
  BY <1>1, HeldFacts DEF HeldInv, TypeOK
<1>3. UNCHANGED <<feed, received, isCancelled, output, panics, history>>
  BY DEF Fail, Penalize, Reward
<1>4. CASE Penalize(w) /\ ahead[w] = {}
  <2>1. LetGo(w, "failed", "recv") /\ UNCHANGED breaker
    BY <1>4 DEF Penalize
  <2>2. panics' \in 0..MaxPanics
    BY <1>1, <1>3 DEF TypeOK
  <2> QED BY <1>1, <1>3, <2>1, <2>2, LetGoStep DEF Fates
<1>5. CASE Penalize(w) /\ ahead[w] # {}
  <2> DEFINE rest == ahead[w] \ {At(w)}
  <2>1. /\ RecordError(HostOf(w)) /\ pc[w] = "penalizing" /\ UNCHANGED <<pc, held, fate>>
        /\ ahead' = [ahead EXCEPT ![w] = rest]
    BY <1>5 DEF Penalize, NextTemplate
  <2>2. pc' = [pc EXCEPT ![w] = "penalizing"] /\ "penalizing" \in Busy
    BY <1>2, <2>1 DEF Busy
  <2>3. BreakerTypeOK' /\ pc[w] \notin Evaluating /\ "penalizing" \notin Evaluating
    BY <1>1, <1>2, <2>1, BreakerTypes DEF Evaluating
  <2>4. rest \subseteq ahead[w]
    OBVIOUS
  <2> HIDE DEF rest
  <2> QED BY <1>1, <1>3, <2>1, <2>2, <2>3, <2>4, MoveStep
<1>6. CASE Fail(w)
  <2>1. /\ RecordError(HostOf(w)) /\ pc[w] = "inflight" /\ UNCHANGED <<ahead, held, fate>>
        /\ pc' = [pc EXCEPT ![w] = "penalizing"] /\ "penalizing" \in Busy
    BY <1>6 DEF Fail, GoTo, Busy
  <2>2. ahead' = [ahead EXCEPT ![w] = ahead[w]]
    BY <1>2, <2>1
  <2>3. BreakerTypeOK' /\ pc[w] \notin Evaluating /\ "penalizing" \notin Evaluating
    BY <1>1, <1>2, <2>1, BreakerTypes DEF Evaluating
  <2> QED BY <1>1, <1>3, <2>1, <2>2, <2>3, MoveStep
<1>7. CASE Reward(w)
  <2>1. /\ RecordSuccess(HostOf(w)) /\ pc[w] = "rewarding" /\ UNCHANGED <<ahead, held, fate>>
        /\ pc' = [pc EXCEPT ![w] = "evaluating"] /\ "evaluating" \in Busy
    BY <1>7 DEF Reward, GoTo, Busy
  <2>2. ahead' = [ahead EXCEPT ![w] = ahead[w]] /\ ahead[w] = TemplatesOf(w)
    BY <1>1, <1>2, <2>1 DEF AheadInv
  <2>3. BreakerTypeOK' /\ pc[w] \notin Evaluating
    BY <1>1, <1>2, <2>1, BreakerTypes DEF Evaluating
  <2>4. \E rest : /\ rest = TemplatesOf(w) /\ rest \subseteq ahead[w]
                  /\ ahead' = [ahead EXCEPT ![w] = rest]
    BY <2>2
  <2> QED BY <1>1, <1>3, <2>1, <2>3, <2>4, MoveStep
<1> QED BY <1>4, <1>5, <1>6, <1>7

\* The answer settles which templates match; nothing of the cluster was raised before.
LEMMA AnswerStep ==
    ASSUME IInv, NEW w \in Workers, Answer(w)
    PROVE  IInv'
<1>1. TypeOK /\ HeldInv /\ AheadInv /\ FateInv /\ LateInv /\ ClosingInv /\ QueueInv /\ RaisedInv
  BY DEF IInv
<1>2. PICK S \in SUBSET TemplatesOf(w) : matched' = [matched EXCEPT ![held[w]] = S]
  BY DEF Answer
<1>3. /\ pc[w] = "inflight" /\ RecordSuccess(HostOf(w)) /\ pc' = [pc EXCEPT ![w] = "rewarding"]
      /\ UNCHANGED <<clusters, producer, sent, received, isCancelled, held, ahead, findings,
                     collected, engine, report, panics, fate, lateFindings>>
  BY DEF Answer, GoTo, feed, output
<1>4. /\ held[w] \in 1..NClusters /\ held[w] # 0 /\ HostOf(w) \in Targets
      /\ TemplatesOf(w) \subseteq DOMAIN Templates
      /\ \A v \in Workers : held[v] = held[w] => v = w
  BY <1>1, <1>3, HeldFacts DEF HeldInv, Busy
<1>5. /\ pc \in [Workers -> WorkerStates] /\ matched \in [1..NClusters -> SUBSET DOMAIN Templates]
  BY <1>1 DEF TypeOK
<1>6. /\ pc'[w] = "rewarding" /\ \A v \in Workers : v # w => pc'[v] = pc[v]
      /\ \A c \in 1..NClusters : c # held[w] => matched'[c] = matched[c]
  BY <1>2, <1>3, <1>4, <1>5
<1>7. TypeOK'
  <2>1. pc' \in [Workers -> WorkerStates]
    BY <1>3, <1>5 DEF WorkerStates
  <2>2. matched' \in [1..NClusters -> SUBSET DOMAIN Templates]
    BY <1>2, <1>4, <1>5
  <2>3. BreakerTypeOK'
    BY <1>1, <1>3, <1>4, BreakerTypes DEF TypeOK
  <2> QED BY <1>1, <1>3, <2>1, <2>2, <2>3 DEF TypeOK
<1>8. HeldInv'
  BY <1>1, <1>3, <1>6 DEF HeldInv, Busy
<1>9. AheadInv'
  <2>1. \A v \in Workers : pc[v] = "emitting" => held[v] # held[w] /\ held[v] \in 1..NClusters
    BY <1>1, <1>3, <1>4, HeldFacts DEF HeldInv, Busy
  <2> QED BY <1>1, <1>3, <1>6, <2>1 DEF AheadInv, TemplatesOf, At
<1>10. FateInv' /\ LateInv' /\ QueueInv'
  BY <1>1, <1>3, <1>6 DEF FateInv, LateInv, QueueInv
<1>11. ClosingInv'
  <2>1. ~AllGone
    BY <1>3 DEF AllGone, Gone
  <2> QED BY <1>1, <1>3, <1>6, <2>1 DEF ClosingInv
<1>12. RaisedInv'
  <2>1. \A c : Raised(c)' = Raised(c)
    BY <1>3 DEF Raised, Queued
  <2>2. \A c \in 1..NClusters : c # held[w] => Expected(c)' = Expected(c)
    BY <1>3, <1>6 DEF Expected
  <2>3. Raised(held[w]) = {} /\ fate[held[w]] = "running"
    BY <1>1, <1>3, <1>4 DEF RaisedInv, FateInv, Evaluating
  <2>4. \A v \in Workers : held[v] # 0 =>
          Raised(held[v]) = IF pc'[v] \in Evaluating
                            THEN {f \in Expected(held[v])' : f[1] \notin ahead[v]} ELSE {}
    <3> SUFFICES ASSUME NEW v \in Workers, held[v] # 0
                 PROVE  Raised(held[v]) = IF pc'[v] \in Evaluating
                            THEN {f \in Expected(held[v])' : f[1] \notin ahead[v]} ELSE {}
      OBVIOUS
    <3>1. CASE v = w
      BY <1>6, <2>3, <3>1 DEF Evaluating
    <3>2. CASE v # w
      <4>1. held[v] \in 1..NClusters /\ held[v] # held[w]
        BY <1>4, <3>2, HeldFacts
      <4> QED BY <1>1, <1>3, <1>6, <2>2, <3>2, <4>1 DEF RaisedInv
    <3> QED BY <3>1, <3>2
  <2>5. \A c \in 1..NClusters : Raised(c) \subseteq Expected(c)'
    BY <1>1, <2>2, <2>3 DEF RaisedInv
  <2>6. \A c \in 1..NClusters : fate[c] = "completed" => Raised(c) = Expected(c)'
    BY <1>1, <2>2, <2>3 DEF RaisedInv
  <2> QED BY <1>1, <1>3, <2>1, <2>4, <2>5, <2>6 DEF RaisedInv
<1> QED BY <1>7, <1>8, <1>9, <1>10, <1>11, <1>12 DEF IInv

\* The loop over the templates: done, cut short, or on to the next template.
LEMMA EvaluateStep ==
    ASSUME IInv, NEW w \in Workers, Evaluate(w)
    PROVE  IInv'
<1>1. TypeOK /\ HeldInv /\ AheadInv /\ pc[w] = "evaluating" /\ pc[w] \in Busy
      /\ pc[w] \in Evaluating
  BY DEF IInv, Evaluate, Busy, Evaluating
<1>2. /\ pc \in [Workers -> WorkerStates] /\ ahead \in [Workers -> SUBSET DOMAIN Templates]
      /\ panics \in 0..MaxPanics /\ BreakerTypeOK
  BY <1>1 DEF TypeOK
<1>3. UNCHANGED <<breaker, feed, received, isCancelled, output, panics, history>> /\ BreakerTypeOK'
  BY <1>2 DEF Evaluate, BreakerTypeOK, breaker
<1>4. ASSUME NEW outcome \in {"completed", "cut", "ignored"}, LetGo(w, outcome, "recv"),
             outcome = "completed" => ahead[w] = {}
      PROVE  IInv'
  BY <1>1, <1>2, <1>3, <1>4, LetGoStep DEF Fates
<1>5. ASSUME ahead[w] # {}, ~isCancelled, Reports(At(w), matched[held[w]]),
             GoTo(w, "emitting"), UNCHANGED ahead
      PROVE  IInv'
  <2>1. ahead' = [ahead EXCEPT ![w] = ahead[w]]
    BY <1>2, <1>5
  <2>2. /\ "emitting" \in Busy /\ "emitting" \in Evaluating
        /\ pc' = [pc EXCEPT ![w] = "emitting"] /\ UNCHANGED <<held, fate>>
        /\ Reports(Min(ahead[w]), matched[held[w]])
    BY <1>5 DEF GoTo, Busy, Evaluating, At
  <2> QED BY <1>1, <1>3, <1>5, <2>1, <2>2, MoveStep
<1>6. ASSUME ahead[w] # {}, ~Reports(At(w), matched[held[w]]), GoTo(w, "evaluating"),
             NextTemplate(w)
      PROVE  IInv'
  <2> DEFINE rest == ahead[w] \ {At(w)}
  <2>1. ahead' = [ahead EXCEPT ![w] = rest] /\ rest \subseteq ahead[w]
    BY <1>6 DEF NextTemplate
  <2>2. \A t \in ahead[w] \ rest : ~Reports(t, matched[held[w]])
    BY <1>6
  <2>3. pc' = [pc EXCEPT ![w] = "evaluating"] /\ UNCHANGED <<held, fate>>
    BY <1>6 DEF GoTo
  <2> QED BY <1>1, <1>3, <2>1, <2>2, <2>3, MoveStep
<1> QED BY <1>4, <1>5, <1>6 DEF Evaluate

\* What Append adds to a channel of findings.
LEMMA AppendFacts ==
    ASSUME findings \in Seq(Pairs), NEW f \in Pairs, findings' = Append(findings, f)
    PROVE  /\ findings' \in Seq(Pairs) /\ Queued' = Queued \cup {f}
           /\ Len(findings) \in Nat /\ Len(findings') = Len(findings) + 1
           /\ \A i \in 1..Len(findings) : findings'[i] = findings[i]
           /\ findings'[Len(findings) + 1] = f
<1>1. /\ findings' \in Seq(Pairs) /\ Len(findings') = Len(findings) + 1 /\ Len(findings) \in Nat
      /\ \A i \in 1..Len(findings) : findings'[i] = findings[i]
      /\ findings'[Len(findings) + 1] = f
  BY AppendProperties, LenProperties
<1>2. DOMAIN findings = 1..Len(findings) /\ DOMAIN findings' = 1..Len(findings')
  BY <1>1, LenProperties
<1>3. Queued' = Queued \cup {f}
  <2>1. Queued' \subseteq Queued \cup {f}
    BY <1>1, <1>2 DEF Queued, ToSet
  <2>2. Queued \cup {f} \subseteq Queued'
    BY <1>1, <1>2 DEF Queued, ToSet
  <2> QED BY <2>1, <2>2
<1> QED BY <1>1, <1>3

\* What a worker raises is expected of its cluster, of no other, and new.
LEMMA EmitFacts ==
    ASSUME IInv, NEW w \in Workers, pc[w] = "emitting"
    PROVE  /\ At(w) \in ahead[w] /\ At(w) \in TemplatesOf(w)
           /\ <<At(w), HostOf(w)>> \in Pairs
           /\ <<At(w), HostOf(w)>> \in Expected(held[w])
           /\ <<At(w), HostOf(w)>> \notin collected \cup Queued
<1> DEFINE f == <<At(w), HostOf(w)>>
<1>1. TypeOK /\ HeldInv /\ AheadInv /\ RaisedInv
  BY DEF IInv
<1>2. held[w] # 0
  BY <1>1 DEF HeldInv, Busy
<1>3. ahead[w] \subseteq TemplatesOf(w) /\ ahead[w] # {} /\ Reports(At(w), matched[held[w]])
  BY <1>1, <1>2 DEF AheadInv
<1>4. TemplatesOf(w) \subseteq DOMAIN Templates /\ HostOf(w) \in ToSet(Hosts)
  BY <1>2, HeldFacts
<1>5. At(w) \in ahead[w]
  BY <1>3, <1>4, Constants, MinFact DEF At
<1>6. f \in Expected(held[w])
  BY <1>3, <1>5 DEF Expected, Reports, TemplatesOf, HostOf
<1>7. f \notin collected \cup Queued
  <2>1. Raised(held[w]) = {g \in Expected(held[w]) : g[1] \notin ahead[w]}
    BY <1>1, <1>2 DEF RaisedInv, Evaluating
  <2>2. f \notin Raised(held[w])
    BY <1>5, <2>1
  <2>3. f[2] = clusters[held[w]].host /\ f[1] \in clusters[held[w]].templates
    BY <1>3, <1>5 DEF HostOf, TemplatesOf
  <2> HIDE DEF f
  <2> QED BY <2>2, <2>3 DEF Raised
<1> QED BY <1>3, <1>4, <1>5, <1>6, <1>7 DEF Pairs

\* A finding goes into the channel.
LEMMA EmitStep ==
    ASSUME IInv, NEW w \in Workers, Emit(w)
    PROVE  IInv'
<1> DEFINE f == <<At(w), HostOf(w)>>
           rest == ahead[w] \ {At(w)}
<1>1. TypeOK /\ HeldInv /\ AheadInv /\ FateInv /\ LateInv /\ ClosingInv /\ QueueInv /\ RaisedInv
  BY DEF IInv
<1>2. /\ pc[w] = "emitting" /\ findings' = Append(findings, f)
      /\ lateFindings' = [lateFindings EXCEPT ![w] = IF isCancelled THEN @ + 1 ELSE @]
      /\ pc' = [pc EXCEPT ![w] = "evaluating"] /\ ahead' = [ahead EXCEPT ![w] = rest]
      /\ UNCHANGED <<errorCounts, droppedHosts, clusters, producer, sent, received, isCancelled,
                     held, collected, engine, report, panics, fate, matched>>
  BY DEF Emit, GoTo, NextTemplate, breaker, feed
<1>3. /\ At(w) \in ahead[w] /\ f \in Pairs /\ f \in Expected(held[w])
      /\ f \notin collected \cup Queued /\ f = <<At(w), HostOf(w)>>
      /\ f[1] = At(w) /\ f[2] = HostOf(w) /\ At(w) \in TemplatesOf(w)
  BY <1>2, EmitFacts
<1>4. rest = ahead[w] \ {At(w)}
  OBVIOUS
<1> HIDE DEF f, rest
<1>5. /\ findings' \in Seq(Pairs) /\ Queued' = Queued \cup {f}
      /\ Len(findings) \in Nat /\ Len(findings') = Len(findings) + 1
      /\ \A i \in 1..Len(findings) : findings'[i] = findings[i]
      /\ findings'[Len(findings) + 1] = f
  BY <1>1, <1>2, <1>3, AppendFacts DEF TypeOK
<1>6. /\ pc \in [Workers -> WorkerStates] /\ ahead \in [Workers -> SUBSET DOMAIN Templates]
      /\ lateFindings \in [Workers -> Nat]
      /\ held[w] # 0 /\ held[w] \in 1..NClusters /\ clusters \in Vectors
      /\ \A v \in Workers : held[v] = held[w] => v = w
      /\ \A v \in Workers : held[v] # 0 => held[v] \in 1..NClusters
  BY <1>1, <1>2, HeldFacts DEF TypeOK, HeldInv, Busy
<1>7. /\ pc'[w] = "evaluating" /\ ahead'[w] = rest
      /\ \A v \in Workers : v # w => /\ pc'[v] = pc[v] /\ ahead'[v] = ahead[v]
                                     /\ lateFindings'[v] = lateFindings[v]
      /\ lateFindings'[w] = IF isCancelled THEN lateFindings[w] + 1 ELSE lateFindings[w]
  BY <1>2, <1>6
<1>8. TypeOK'
  <2>1. pc' \in [Workers -> WorkerStates]
    BY <1>2, <1>6 DEF WorkerStates
  <2>2. ahead' \in [Workers -> SUBSET DOMAIN Templates] /\ lateFindings' \in [Workers -> Nat]
    BY <1>2, <1>4, <1>6
  <2> QED BY <1>1, <1>2, <1>5, <2>1, <2>2 DEF TypeOK, BreakerTypeOK
<1>9. HeldInv'
  BY <1>1, <1>2, <1>7 DEF HeldInv, Busy
<1>10. AheadInv'
  BY <1>1, <1>2, <1>4, <1>7 DEF AheadInv, TemplatesOf, At
<1>11. FateInv'
  BY <1>1, <1>2 DEF FateInv
<1>12. LateInv'
  <2>1. lateFindings[w] = 0
    BY <1>1, <1>2 DEF LateInv
  <2> QED BY <1>1, <1>2, <1>7, <2>1 DEF LateInv
<1>13. ClosingInv'
  <2>1. ~AllGone /\ engine # "returned" /\ report # "done"
    BY <1>1, <1>2 DEF AllGone, Gone, ClosingInv
  <2> QED BY <1>1, <1>2, <1>7, <2>1 DEF ClosingInv
<1>14. QueueInv'
  <2>1. \A i \in 1..Len(findings) : findings[i] \in Queued
    BY <1>1, LenProperties DEF Queued, ToSet, TypeOK
  <2>2. \A i, j \in 1..Len(findings') : findings'[i] = findings'[j] => i = j
    BY <1>1, <1>3, <1>5, <2>1 DEF QueueInv
  <2>3. \A i \in 1..Len(findings') : findings'[i] \notin collected
    BY <1>1, <1>3, <1>5 DEF QueueInv
  <2> QED BY <1>2, <2>2, <2>3 DEF QueueInv
<1>15. RaisedInv'
  <2>1. \A c : Expected(c)' = Expected(c)
    BY <1>2 DEF Expected
  <2>2. \A c \in 1..NClusters : c # held[w] => Raised(c)' = Raised(c)
    <3> SUFFICES ASSUME NEW c \in 1..NClusters, c # held[w]
                 PROVE  ~(f[2] = clusters[c].host /\ f[1] \in clusters[c].templates)
      BY <1>2, <1>5 DEF Raised
    <3> QED BY <1>3, <1>6, VectorDisjoint DEF HostOf, TemplatesOf
  <2>3. Raised(held[w])' = Raised(held[w]) \cup {f}
    BY <1>2, <1>3, <1>5 DEF Raised, HostOf, TemplatesOf
  <2>4. Raised(held[w])' = {g \in Expected(held[w]) : g[1] \notin rest}
    <3>1. Raised(held[w]) = {g \in Expected(held[w]) : g[1] \notin ahead[w]}
      BY <1>1, <1>2, <1>6 DEF RaisedInv, Evaluating
    <3>2. ASSUME NEW g \in Expected(held[w]), g[1] = At(w)
          PROVE  g = f
      BY <1>3, <3>2 DEF Expected, HostOf
    <3> QED BY <1>3, <1>4, <2>3, <3>1, <3>2
  <2>5. fate[held[w]] = "running"
    BY <1>1, <1>6 DEF FateInv
  <2>6. \A v \in Workers : held[v] # 0 =>
          Raised(held[v])' = IF pc'[v] \in Evaluating
                             THEN {g \in Expected(held[v]) : g[1] \notin ahead'[v]} ELSE {}
    <3> SUFFICES ASSUME NEW v \in Workers, held[v] # 0
                 PROVE  Raised(held[v])' = IF pc'[v] \in Evaluating
                          THEN {g \in Expected(held[v]) : g[1] \notin ahead'[v]} ELSE {}
      OBVIOUS
    <3>1. CASE v = w
      BY <1>7, <2>4, <3>1 DEF Evaluating
    <3>2. CASE v # w
      BY <1>1, <1>2, <1>6, <1>7, <2>2, <3>2 DEF RaisedInv
    <3> QED BY <3>1, <3>2
  <2>7. \A c \in 1..NClusters : Raised(c)' \subseteq Expected(c)
    BY <1>1, <1>2, <2>2, <2>4 DEF RaisedInv
  <2>8. \A c \in 1..NClusters : /\ fate[c] = "queued" => Raised(c)' = {}
                                /\ fate[c] = "completed" => Raised(c)' = Expected(c)
    BY <1>1, <1>2, <2>2, <2>5 DEF RaisedInv
  <2> QED BY <1>2, <2>1, <2>6, <2>7, <2>8 DEF RaisedInv
<1> QED BY <1>8, <1>9, <1>10, <1>11, <1>12, <1>13, <1>14, <1>15 DEF IInv

(***************************************************************************)
(* The other steps.                                                        *)
(***************************************************************************)
\* A panic unwinds the worker.
LEMMA PanicStep ==
    ASSUME IInv, NEW w \in Workers, Panic(w)
    PROVE  IInv'
<1>1. TypeOK /\ ClusterAssumption /\ pc[w] \in WorkerStates
  BY ClusterAssumption DEF IInv, TypeOK
<1>2. /\ pc[w] \in Busy /\ LetGo(w, "lost", "crashed") /\ panics' \in 0..MaxPanics
      /\ UNCHANGED <<breaker, feed, received, isCancelled, output, history>>
  BY <1>1 DEF Panic, Busy, WorkerStates, TypeOK, ClusterAssumption
<1> QED BY <1>2, LetGoStep DEF Fates

\* What Head and Tail leave of a channel of findings.
LEMMA TailFacts ==
    ASSUME findings \in Seq(Pairs), findings # << >>, findings' = Tail(findings)
    PROVE  /\ findings' \in Seq(Pairs) /\ Head(findings) \in Pairs
           /\ Len(findings) \in Nat /\ Len(findings) # 0 /\ Head(findings) = findings[1]
           /\ Len(findings') = Len(findings) - 1
           /\ \A i \in 1..Len(findings') : findings'[i] = findings[i + 1]
           /\ Queued = Queued' \cup {Head(findings)}
<1>1. /\ findings' \in Seq(Pairs) /\ Head(findings) \in Pairs
      /\ Len(findings) \in Nat /\ Len(findings) # 0 /\ Head(findings) = findings[1]
      /\ Len(findings') = Len(findings) - 1
      /\ \A i \in 1..Len(findings') : findings'[i] = findings[i + 1]
  BY HeadTailProperties, ElementOfSeq, EmptySeq, LenProperties
<1>2. DOMAIN findings = 1..Len(findings) /\ DOMAIN findings' = 1..Len(findings')
  BY <1>1, LenProperties
<1>3. Queued \subseteq Queued' \cup {findings[1]}
  <2>1. \A i \in 1..Len(findings) : i # 1 =>
          i - 1 \in 1..Len(findings') /\ findings'[i - 1] = findings[i]
    BY <1>1
  <2> SUFFICES ASSUME NEW i \in 1..Len(findings), findings[i] # findings[1]
               PROVE  findings[i] \in Queued'
    BY <1>2 DEF Queued, ToSet
  <2>2. i - 1 \in DOMAIN (findings') /\ findings'[i - 1] = findings[i]
    BY <1>2, <2>1
  <2> QED BY <2>2 DEF Queued, ToSet
<1>4. Queued' \cup {findings[1]} \subseteq Queued
  BY <1>1, <1>2 DEF Queued, ToSet
<1> QED BY <1>1, <1>3, <1>4

\* The report loop takes a finding out of the channel.
LEMMA ConsumeStep ==
    ASSUME IInv, Consume
    PROVE  IInv'
<1>1. TypeOK /\ HeldInv /\ AheadInv /\ FateInv /\ LateInv /\ ClosingInv /\ QueueInv /\ RaisedInv
  BY DEF IInv
<1>2. /\ report = "running" /\ findings # << >> /\ findings' = Tail(findings)
      /\ collected' = collected \cup {Head(findings)}
      /\ UNCHANGED <<errorCounts, droppedHosts, clusters, producer, sent, received, isCancelled,
                     pc, held, ahead, engine, report, panics, fate, matched, lateFindings>>
  BY DEF Consume, breaker, feed, workers, history
<1>3. /\ findings' \in Seq(Pairs) /\ Head(findings) \in Pairs
      /\ Len(findings) \in Nat /\ Len(findings) # 0 /\ Head(findings) = findings[1]
      /\ Len(findings') = Len(findings) - 1
      /\ \A i \in 1..Len(findings') : findings'[i] = findings[i + 1]
      /\ Queued = Queued' \cup {Head(findings)}
  BY <1>1, <1>2, TailFacts DEF TypeOK
<1>4. TypeOK'
  BY <1>1, <1>2, <1>3 DEF TypeOK, BreakerTypeOK
<1>5. HeldInv' /\ AheadInv' /\ FateInv' /\ LateInv'
  BY <1>1, <1>2 DEF HeldInv, AheadInv, FateInv, LateInv, TemplatesOf, At
<1>6. ClosingInv'
  BY <1>1, <1>2 DEF ClosingInv, AllGone, Gone
<1>7. QueueInv'
  <2>1. \A i \in 1..Len(findings') :
          /\ i + 1 \in 1..Len(findings) /\ i + 1 # 1 /\ i \in Int
          /\ findings'[i] = findings[i + 1]
    BY <1>3
  <2>2. 1 \in 1..Len(findings)
    BY <1>3
  <2>3. \A i, j \in 1..Len(findings') : findings'[i] = findings'[j] => i = j
    <3> SUFFICES ASSUME NEW i \in 1..Len(findings'), NEW j \in 1..Len(findings'),
                        findings'[i] = findings'[j]
                 PROVE  i = j
      OBVIOUS
    <3>1. i + 1 = j + 1
      BY <1>1, <2>1 DEF QueueInv
    <3> QED BY <2>1, <3>1
  <2>4. \A i \in 1..Len(findings') : findings'[i] \notin collected'
    BY <1>1, <1>2, <1>3, <2>1, <2>2 DEF QueueInv
  <2> QED BY <2>3, <2>4 DEF QueueInv
<1>8. RaisedInv'
  <2>1. (collected \cup Queued)' = collected \cup Queued
    BY <1>2, <1>3
  <2>2. \A c : Raised(c)' = Raised(c) /\ Expected(c)' = Expected(c)
    BY <1>2, <2>1 DEF Raised, Expected
  <2> QED BY <1>1, <1>2, <2>2 DEF RaisedInv
<1> QED BY <1>4, <1>5, <1>6, <1>7, <1>8 DEF IInv

\* The producer, the joining of the workers, the end of the report loop and Ctrl-C.
LEMMA OtherSteps ==
    ASSUME IInv, \/ ProducerCheck \/ ProducerSend \/ JoinWorkers \/ ReportDone \/ Cancel
                 \/ UNCHANGED vars
    PROVE  IInv'
<1>1. TypeOK /\ HeldInv /\ AheadInv /\ FateInv /\ LateInv /\ ClosingInv /\ QueueInv /\ RaisedInv
  BY DEF IInv
<1>2. /\ UNCHANGED <<errorCounts, droppedHosts, clusters, received, pc, held, ahead, findings,
                     collected, panics, fate, matched, lateFindings>>
      /\ isCancelled => isCancelled'
  BY DEF ProducerCheck, ProducerSend, JoinWorkers, ReportDone, Cancel, vars, breaker, feed,
         workers, output, history
<1>3. /\ NClusters \in Nat /\ sent \in 0..NClusters /\ received \in 0..sent
  BY <1>1, ClustersFinite DEF TypeOK
<1>4. /\ producer' \in {"checking", "sending", "done"} /\ sent' \in {sent, sent + 1}
      /\ sent' = sent + 1 => producer = "sending"
      /\ engine' \in {"joining", "returned"} /\ report' \in {"running", "done"}
      /\ isCancelled' \in BOOLEAN
  <2>1. CASE ProducerCheck
    BY <1>1, <1>3, <2>1 DEF ProducerCheck, output, TypeOK
  <2>2. CASE ProducerSend
    BY <1>1, <1>3, <2>2 DEF ProducerSend, output, TypeOK
  <2>3. CASE JoinWorkers
    BY <1>1, <1>3, <2>3 DEF JoinWorkers, feed, TypeOK
  <2>4. CASE ReportDone
    BY <1>1, <1>3, <2>4 DEF ReportDone, feed, TypeOK
  <2>5. CASE Cancel
    BY <1>1, <1>3, <2>5 DEF Cancel, feed, output, TypeOK
  <2>6. CASE UNCHANGED vars
    BY <1>1, <1>3, <2>6 DEF vars, feed, output, TypeOK
  <2> QED BY <2>1, <2>2, <2>3, <2>4, <2>5, <2>6
<1>5. TypeOK'
  <2>1. sent' \in 0..NClusters /\ received' \in 0..sent'
    BY <1>1, <1>2, <1>3, <1>4 DEF ClosingInv
  <2> QED BY <1>1, <1>2, <1>4, <2>1 DEF TypeOK, BreakerTypeOK
<1>6. HeldInv' /\ AheadInv' /\ FateInv' /\ QueueInv'
  BY <1>1, <1>2 DEF HeldInv, AheadInv, FateInv, QueueInv, TemplatesOf, At
<1>7. LateInv'
  BY <1>1, <1>2 DEF LateInv
<1>8. RaisedInv'
  <2>1. \A c : Raised(c)' = Raised(c) /\ Expected(c)' = Expected(c)
    BY <1>2 DEF Raised, Expected, Queued
  <2> QED BY <1>1, <1>2, <2>1 DEF RaisedInv
<1>9. ClosingInv'
  <2>1. AllGone' = AllGone
    BY <1>2 DEF AllGone, Gone
  <2>2. CASE ProducerCheck
    <3>1. /\ producer = "checking" /\ UNCHANGED <<sent, isCancelled, engine, report>>
          /\ producer' = IF sent = NClusters \/ isCancelled THEN "done" ELSE "sending"
      BY <2>2 DEF ProducerCheck, output
    <3> QED BY <1>1, <1>2, <1>3, <2>1, <3>1 DEF ClosingInv
  <2>3. CASE ProducerSend
    <3>1. /\ producer = "sending" /\ UNCHANGED <<isCancelled, engine, report>>
          /\ producer' = "checking" \/ (AllGone /\ producer' = "done")
      BY <2>3 DEF ProducerSend, output
    <3> QED BY <1>1, <1>2, <2>1, <3>1 DEF ClosingInv
  <2>4. CASE JoinWorkers \/ ReportDone
    <3>1. /\ UNCHANGED <<producer, sent, isCancelled>>
          /\ \/ AllGone /\ engine' = "returned" /\ report' = report /\ engine = "joining"
             \/ engine' = engine /\ engine = "returned" /\ findings = << >>
      BY <2>4 DEF JoinWorkers, ReportDone, feed
    <3> QED BY <1>1, <1>2, <2>1, <3>1 DEF ClosingInv
  <2>5. CASE Cancel
    <3>1. isCancelled' = TRUE /\ UNCHANGED <<producer, sent, engine, report>>
      BY <2>5 DEF Cancel, feed, output
    <3> QED BY <1>1, <1>2, <2>1, <3>1 DEF ClosingInv
  <2>6. CASE UNCHANGED vars
    BY <1>1, <1>2, <2>1, <2>6 DEF ClosingInv, vars, feed, output
  <2> QED BY <2>2, <2>3, <2>4, <2>5, <2>6
<1> QED BY <1>5, <1>6, <1>7, <1>8, <1>9 DEF IInv

\* The first state.
LEMMA InitIInv == Init => IInv
<1> SUFFICES ASSUME Init PROVE IInv
  OBVIOUS
<1> USE DEF Init
<1>1. NClusters \in Nat
  BY ClustersFinite
<1>2. TypeOK
  <2>1. BreakerTypeOK
    BY DEF BreakerTypeOK, BreakerInit
  <2>2. findings \in Seq(Pairs) /\ collected \subseteq Pairs
    BY EmptySeq
  <2>3. /\ pc \in [Workers -> WorkerStates] /\ held \in [Workers -> 0..NClusters]
        /\ ahead \in [Workers -> SUBSET DOMAIN Templates]
        /\ fate \in [1..NClusters -> Fates]
        /\ matched \in [1..NClusters -> SUBSET DOMAIN Templates]
        /\ lateFindings \in [Workers -> Nat]
    BY <1>1 DEF WorkerStates, Fates
  <2>4. sent \in 0..NClusters /\ received \in 0..sent /\ panics \in 0..MaxPanics
    BY <1>1, ClusterAssumption
  <2> QED BY <2>1, <2>2, <2>3, <2>4 DEF TypeOK
<1>3. HeldInv /\ AheadInv /\ LateInv
  BY DEF HeldInv, AheadInv, LateInv, Busy
<1>4. FateInv
  BY <1>1 DEF FateInv
<1>5. ClosingInv /\ QueueInv
  BY DEF ClosingInv, QueueInv
<1>6. RaisedInv
  <2>1. Queued = {}
    BY DEF Queued, ToSet
  <2>2. \A c : Raised(c) = {}
    BY <2>1 DEF Raised
  <2> QED BY <2>2 DEF RaisedInv
<1> QED BY <1>2, <1>3, <1>4, <1>5, <1>6 DEF IInv

\* IInv is an inductive invariant of the clustered scan.
THEOREM ClusterInvariance == Spec => []IInv
<1>1. IInv /\ [Next]_vars => IInv'
  <2> SUFFICES ASSUME IInv, [Next]_vars PROVE IInv'
    OBVIOUS
  <2>1. CASE ProducerCheck \/ ProducerSend \/ JoinWorkers \/ ReportDone \/ Cancel
             \/ UNCHANGED vars
    BY <2>1, OtherSteps
  <2>2. ASSUME NEW w \in Workers, WorkerStep(w)
        PROVE  IInv'
    BY <2>2, RecvStep, RecvClosedStep, QuietStep, BreakerStep, AnswerStep, EvaluateStep,
       EmitStep DEF WorkerStep
  <2>3. ASSUME NEW w \in Workers, Panic(w)
        PROVE  IInv'
    BY <2>3, PanicStep
  <2>4. CASE Consume
    BY <2>4, ConsumeStep
  <2> QED BY <2>1, <2>2, <2>3, <2>4 DEF Next, Terminated
<1> QED BY <1>1, InitIInv, PTL DEF Spec

\* Every variable keeps its type.
THEOREM ClusterTypeCorrect == Spec => []TypeOK
<1>1. IInv => TypeOK
  BY DEF IInv
<1> QED BY <1>1, ClusterInvariance, PTL

\* Each finding a cluster raised is one its answer calls for, and a cluster that went
\* through has raised all of them.
THEOREM SharedAnswerHolds == Spec => []SharedAnswer
<1>1. IInv => SharedAnswer
  BY DEF IInv, RaisedInv, SharedAnswer, Raised
<1> QED BY <1>1, ClusterInvariance, PTL

\* After Ctrl-C a worker sends at most the finding it has in hand.
THEOREM CancelStopsFindingsHolds == Spec => []CancelStopsFindings
<1>1. IInv => CancelStopsFindings
  BY DEF IInv, LateInv, CancelStopsFindings
<1> QED BY <1>1, ClusterInvariance, PTL

(***************************************************************************)
(* A clustered scan implements ScanPromise.  The state of the promise under *)
(* the refinement mapping of ClusterEngine:                                *)
(***************************************************************************)
Todo == {clusters[c] : c \in received + 1 .. NClusters}
Active == {clusters[held[w]] : w \in {v \in Workers : held[v] # 0}}
Ended == report = "done"

\* What a cluster may raise.
MayRaise == [c \in Clusters |-> {<<t, c.host>> : t \in c.templates}]

\* The end of the report loop finds every cluster taken and none in hand.
LEMMA EndState ==
    ASSUME IInv, engine = "returned"
    PROVE  /\ \A w \in Workers : held[w] = 0
           /\ Interrupted \/ received = NClusters
<1>1. HeldInv /\ ClosingInv /\ AllGone
  BY DEF IInv, ClosingInv
<1>2. \A w \in Workers : held[w] = 0
  BY <1>1 DEF HeldInv, AllGone, Gone, Busy
<1>3. ASSUME ~Interrupted PROVE received = NClusters
  <2>1. PICK w \in Workers : pc[w] # "crashed"
    BY <1>3 DEF Interrupted
  <2>2. pc[w] = "exited" /\ ~isCancelled
    BY <1>1, <1>3, <2>1 DEF AllGone, Gone, Interrupted
  <2> QED BY <1>1, <2>2 DEF ClosingInv
<1> QED BY <1>2, <1>3

\* The initial state is one of ScanPromise.
LEMMA InitPromise == Init => Promise!PInit
<1> SUFFICES ASSUME Init PROVE Promise!PInit
  OBVIOUS
<1>1. Todo = Clusters
  <2>1. received + 1 .. NClusters = 1..NClusters /\ clusters \in Vectors
    BY ClustersFinite DEF Init
  <2>2. Todo = {clusters[c] : c \in 1..NClusters}
    BY <2>1 DEF Todo
  <2>3. /\ \A c \in 1..NClusters : clusters[c] \in Clusters
        /\ \A k \in Clusters : \E c \in 1..NClusters : clusters[c] = k
    BY <2>1, VectorFacts
  <2> QED BY <2>2, <2>3
<1>2. Active = {} /\ Queued = {} /\ collected = {} /\ ~Ended
  BY DEF Init, Active, Queued, ToSet, Ended
<1>3. Interrupted = FALSE
  BY ClusterAssumption DEF Init, Interrupted
<1> QED BY <1>1, <1>2, <1>3 DEF Promise!PInit, Todo, Active, Ended

\* A step that changes none of the mapped variables is a stutter.
LEMMA Stutter ==
    ASSUME UNCHANGED <<clusters, received, held, findings, collected, report>>,
           Interrupted' = Interrupted
    PROVE  UNCHANGED Promise!pvars
BY DEF Promise!pvars, Queued

\* Letting go of a cluster retires it.
LEMMA LetGoRetires ==
    ASSUME IInv, NEW w \in Workers, NEW outcome, NEW next, pc[w] \in Busy,
           LetGo(w, outcome, next),
           UNCHANGED <<clusters, received, findings, collected, report>>,
           Interrupted' \in {Interrupted, TRUE}
    PROVE  Promise!PNext
<1>1. TypeOK /\ HeldInv
  BY DEF IInv
<1>2. /\ held[w] # 0 /\ held \in [Workers -> 0..NClusters] /\ clusters \in Vectors
      /\ NClusters \in Nat
  BY <1>1, ClustersFinite DEF TypeOK, HeldInv
<1>3. /\ clusters[held[w]] \in Clusters
      /\ \A v \in Workers : held[v] = held[w] => v = w
  BY <1>2, HeldFacts
<1>4. \A v \in Workers : held[v] # 0 /\ v # w => clusters[held[v]] # clusters[held[w]]
  <2> SUFFICES ASSUME NEW v \in Workers, held[v] # 0, v # w,
                      clusters[held[v]] = clusters[held[w]]
               PROVE  FALSE
    OBVIOUS
  <2>1. held[v] \in 1..NClusters /\ held[w] \in 1..NClusters
    BY <1>2
  <2>2. held[v] = held[w]
    BY <1>2, <2>1, VectorFacts
  <2> QED BY <1>3, <2>2
<1>5. held' = [held EXCEPT ![w] = 0]
  BY DEF LetGo
<1>6. held'[w] = 0 /\ \A v \in Workers : v # w => held'[v] = held[v]
  BY <1>2, <1>5
<1>7. Active' = Active \ {clusters[held[w]]} /\ clusters[held[w]] \in Active
  <2>1. Active' = {clusters[held'[v]] : v \in {u \in Workers : held'[u] # 0}}
    BY DEF Active
  <2>2. Active' = {clusters[held[v]] : v \in {u \in Workers : held[u] # 0 /\ u # w}}
    BY <1>6, <2>1
  <2> QED BY <1>2, <1>4, <2>2 DEF Active
<1>8. PICK c \in Clusters : c = clusters[held[w]]
  BY <1>3
<1>9. Promise!Retire(c)
  BY <1>7, <1>8 DEF Promise!Retire, Active, Queued
<1> QED BY <1>9 DEF Promise!PNext

\* Taking a cluster out of the channel begins it.
LEMMA RecvBegins ==
    ASSUME IInv, NEW w \in Workers, Recv(w)
    PROVE  Promise!PNext
<1>1. TypeOK /\ HeldInv
  BY DEF IInv
<1>2. /\ pc[w] = "recv" /\ received < sent /\ received' = received + 1
      /\ held' = [held EXCEPT ![w] = received + 1] /\ pc' = [pc EXCEPT ![w] = "received"]
      /\ UNCHANGED <<clusters, isCancelled, findings, collected, report>>
  BY DEF Recv, feed, output
<1>3. /\ held \in [Workers -> 0..NClusters] /\ pc \in [Workers -> WorkerStates]
      /\ sent \in 0..NClusters /\ received \in 0..sent /\ NClusters \in Nat
      /\ clusters \in Vectors
  BY <1>1, ClustersFinite DEF TypeOK
<1> DEFINE k == received + 1
<1>4. k \in 1..NClusters /\ received \in Nat /\ k # 0
  BY <1>2, <1>3
<1>5. held[w] = 0
  BY <1>1, <1>2 DEF HeldInv, Busy
<1>6. held'[w] = k /\ \A v \in Workers : v # w => held'[v] = held[v]
  BY <1>2, <1>3
<1>7. Interrupted' = Interrupted
  BY <1>2, <1>3 DEF Interrupted
<1>8. Active' = Active \cup {clusters[k]}
  <2>1. Active' = {clusters[held'[v]] : v \in {u \in Workers : held'[u] # 0}}
    BY <1>2 DEF Active
  <2> HIDE DEF k
  <2>2. ASSUME NEW v \in Workers, held'[v] # 0
        PROVE  clusters[held'[v]] \in Active \cup {clusters[k]}
    <3>1. CASE v = w
      BY <1>6, <3>1
    <3>2. CASE v # w
      <4>1. held'[v] = held[v] /\ held[v] # 0
        BY <1>6, <2>2, <3>2
      <4> QED
        BY <4>1 DEF Active
    <3> QED
      BY <3>1, <3>2
  <2>3. Active \cup {clusters[k]} \subseteq Active'
    BY <1>4, <1>5, <1>6, <2>1, SMTT(20) DEF Active
  <2> QED BY <2>1, <2>2, <2>3
<1>9. Todo' = Todo \ {clusters[k]} /\ clusters[k] \in Todo
  <2>1. received + 1 .. NClusters = (received' + 1 .. NClusters) \cup {k}
    BY <1>2, <1>4
  <2>2. \A c \in received' + 1 .. NClusters : c \in 1..NClusters /\ c # k
    BY <1>2, <1>4
  <2>3. \A c \in received' + 1 .. NClusters : clusters[c] # clusters[k]
    BY <1>3, <1>4, <2>2, VectorFacts
  <2>4. NClusters' = NClusters
    BY DEF NClusters, Clusters
  <2>5. Todo' = {clusters[c] : c \in received' + 1 .. NClusters}
    BY <1>2, <2>4 DEF Todo
  <2> HIDE DEF k
  <2> QED BY <2>1, <2>3, <2>5 DEF Todo
<1>10. PICK c \in Clusters : c = clusters[k]
  BY <1>3, <1>4, VectorFacts
<1>11. Promise!Begin(c)
  BY <1>2, <1>7, <1>8, <1>9, <1>10 DEF Promise!Begin, Active, Todo, Queued
<1> QED BY <1>11 DEF Promise!PNext

\* A finding goes into the channel.
LEMMA EmitFinds ==
    ASSUME IInv, NEW w \in Workers, Emit(w)
    PROVE  Promise!PNext
<1> DEFINE f == <<At(w), HostOf(w)>>
<1>1. TypeOK /\ HeldInv
  BY DEF IInv
<1>2. /\ pc[w] = "emitting" /\ findings' = Append(findings, f)
      /\ pc' = [pc EXCEPT ![w] = "evaluating"]
      /\ UNCHANGED <<clusters, received, held, collected, report, isCancelled>>
  BY DEF Emit, GoTo, feed
<1>3. /\ held[w] # 0 /\ pc \in [Workers -> WorkerStates] /\ findings \in Seq(Pairs)
      /\ clusters[held[w]] \in Clusters
  BY <1>1, <1>2, HeldFacts DEF HeldInv, Busy, TypeOK
<1>4. f \in Pairs /\ f \notin collected \cup Queued /\ At(w) \in TemplatesOf(w)
  BY <1>2, EmitFacts
<1>5. f \in MayRaise[clusters[held[w]]]
  BY <1>3, <1>4 DEF MayRaise, TemplatesOf, HostOf
<1>6. clusters[held[w]] \in Active
  BY <1>3 DEF Active
<1> HIDE DEF f
<1>7. Queued' = Queued \cup {f}
  BY <1>2, <1>3, <1>4, AppendFacts
<1>8. Interrupted' = Interrupted
  BY <1>2, <1>3 DEF Interrupted
<1>9. Promise!Find(clusters[held[w]], f)
  BY <1>2, <1>4, <1>5, <1>6, <1>7, <1>8 DEF Promise!Find, Active, MayRaise
<1> QED BY <1>3, <1>5, <1>9 DEF Promise!PNext, MayRaise

\* The report loop takes a finding out of it.
LEMMA ConsumeDelivers ==
    ASSUME IInv, Consume
    PROVE  Promise!PNext
<1> DEFINE f == Head(findings)
<1>1. TypeOK /\ QueueInv
  BY DEF IInv
<1>2. /\ findings # << >> /\ findings' = Tail(findings) /\ collected' = collected \cup {f}
      /\ UNCHANGED <<clusters, received, held, report, isCancelled, pc>>
  BY DEF Consume, feed, workers
<1>3. /\ findings \in Seq(Pairs) /\ findings' \in Seq(Pairs) /\ f \in Pairs
      /\ Len(findings) \in Nat /\ Len(findings) # 0
      /\ f = findings[1] /\ Len(findings') = Len(findings) - 1
      /\ \A i \in 1..Len(findings') : findings'[i] = findings[i + 1]
      /\ Queued = Queued' \cup {f}
  BY <1>1, <1>2, TailFacts DEF TypeOK
<1> HIDE DEF f
<1>4. Queued' = Queued \ {f}
  <2>1. \A i \in 1..Len(findings') : findings'[i] # f
    BY <1>1, <1>3 DEF QueueInv
  <2>2. f \notin Queued'
    BY <1>3, <2>1, LenProperties DEF Queued, ToSet
  <2> QED BY <1>3, <2>2
<1>5. PICK c \in Clusters : c.host = f[2] /\ f[1] \in c.templates
  BY <1>3, ClustersCover
<1>6. f \in MayRaise[c]
  BY <1>3, <1>5 DEF MayRaise, Pairs
<1>7. Interrupted' = Interrupted
  BY <1>2 DEF Interrupted
<1>8. Promise!Deliver(f)
  BY <1>2, <1>3, <1>4, <1>7 DEF Promise!Deliver
<1> QED BY <1>5, <1>6, <1>8 DEF Promise!PNext, MayRaise

\* Every step of a clustered scan is a step of ScanPromise or stutters.
LEMMA StepPromise == IInv /\ [Next]_vars => [Promise!PNext]_(Promise!pvars)
<1> SUFFICES ASSUME IInv, [Next]_vars
             PROVE  Promise!PNext \/ UNCHANGED Promise!pvars
  OBVIOUS
<1>1. TypeOK /\ HeldInv /\ pc \in [Workers -> WorkerStates]
  BY DEF IInv, TypeOK
<1>2. CASE ProducerCheck \/ ProducerSend \/ JoinWorkers \/ UNCHANGED vars
  <2>1. UNCHANGED <<clusters, received, held, findings, collected, report, isCancelled, pc>>
    BY <1>2 DEF ProducerCheck, ProducerSend, JoinWorkers, vars, feed, workers, output
  <2> QED BY <2>1, Stutter DEF Interrupted
<1>3. ASSUME NEW w \in Workers,
             \/ RecvClosed(w) \/ CheckCancelled(w) \/ ExecuteClustered(w) \/ Send(w)
             \/ Fail(w) \/ Penalize(w) \/ Answer(w) \/ Reward(w) \/ Evaluate(w)
      PROVE  Promise!PNext \/ UNCHANGED Promise!pvars
  <2>1. /\ UNCHANGED <<clusters, received, findings, collected, report, isCancelled>>
        /\ pc[w] # "crashed"
    BY <1>3 DEF RecvClosed, CheckCancelled, ExecuteClustered, Send, Fail, Penalize, Answer,
                Reward, Evaluate, feed, output
  <2>2. \/ /\ pc[w] \in Busy
           /\ \E outcome \in Fates, next \in {"recv", "exited"} : LetGo(w, outcome, next)
        \/ /\ held' = held
           /\ \E next \in WorkerStates \ {"crashed"} : pc' = [pc EXCEPT ![w] = next]
    <3>1. CASE RecvClosed(w)
      BY <3>1 DEF RecvClosed, WorkerStates
    <3>2. CASE CheckCancelled(w) \/ ExecuteClustered(w)
      BY <3>2 DEF CheckCancelled, ExecuteClustered, GoTo, WorkerStates, Busy, Fates
    <3>3. CASE Send(w) \/ Fail(w) \/ Answer(w) \/ Reward(w)
      BY <3>3 DEF Send, Fail, Answer, Reward, GoTo, WorkerStates
    <3>4. CASE Penalize(w)
      <4>1. pc' = pc => pc' = [pc EXCEPT ![w] = "penalizing"]
        BY <1>1, <3>4 DEF Penalize
      <4> QED BY <3>4, <4>1 DEF Penalize, WorkerStates, Busy, Fates
    <3>5. CASE Evaluate(w)
      BY <3>5 DEF Evaluate, GoTo, WorkerStates, Busy, Fates
    <3> QED BY <1>3, <3>1, <3>2, <3>3, <3>4, <3>5
  <2>3. ASSUME NEW outcome \in Fates, NEW next \in {"recv", "exited"}, pc[w] \in Busy,
               LetGo(w, outcome, next)
        PROVE  Promise!PNext
    <3>1. pc' = [pc EXCEPT ![w] = next]
      BY <2>3 DEF LetGo
    <3>2. Interrupted' = Interrupted
      BY <1>1, <2>1, <3>1 DEF Interrupted
    <3> QED BY <2>1, <2>3, <3>2, LetGoRetires
  <2>4. ASSUME held' = held, NEW next \in WorkerStates \ {"crashed"},
               pc' = [pc EXCEPT ![w] = next]
        PROVE  UNCHANGED Promise!pvars
    <3>1. Interrupted' = Interrupted
      BY <1>1, <2>1, <2>4 DEF Interrupted
    <3> QED BY <2>1, <2>4, <3>1, Stutter
  <2> QED BY <2>2, <2>3, <2>4
<1>4. ASSUME NEW w \in Workers, Panic(w)
      PROVE  Promise!PNext
  <2>1. /\ pc[w] \in WorkerStates \ {"recv", "received", "exited", "crashed"}
        /\ LetGo(w, "lost", "crashed") /\ pc' = [pc EXCEPT ![w] = "crashed"]
        /\ UNCHANGED <<clusters, received, findings, collected, report, isCancelled>>
    BY <1>1, <1>4 DEF Panic, LetGo, feed, output
  <2>2. pc[w] \in Busy /\ Interrupted \in BOOLEAN /\ Interrupted' \in BOOLEAN
    BY <1>1, <2>1 DEF Busy, WorkerStates, Interrupted, TypeOK
  <2>3. Interrupted => Interrupted'
    BY <1>1, <2>1 DEF Interrupted
  <2> QED BY <2>1, <2>2, <2>3, LetGoRetires
<1>5. CASE ReportDone
  <2>1. /\ report = "running" /\ findings = << >> /\ engine = "returned" /\ report' = "done"
        /\ UNCHANGED <<clusters, received, held, findings, collected, isCancelled, pc>>
    BY <1>5 DEF ReportDone, feed, workers
  <2>2. Interrupted' = Interrupted
    BY <2>1 DEF Interrupted
  <2>3. Queued = {} /\ Queued' = {}
    BY <2>1 DEF Queued, ToSet
  <2>4. /\ \A w \in Workers : held[w] = 0
        /\ Interrupted \/ received = NClusters
    BY <2>1, EndState
  <2>5. Active = {}
    BY <2>4 DEF Active
  <2>6. Todo = {} \/ Interrupted
    BY <2>4, ClustersFinite DEF Todo
  <2>7. Promise!End
    BY <2>1, <2>2, <2>3, <2>5, <2>6 DEF Promise!End, Active, Todo
  <2> QED BY <2>7 DEF Promise!PNext
<1>6. CASE Cancel
  <2>1. /\ report = "running" /\ isCancelled' = TRUE
        /\ UNCHANGED <<clusters, received, held, findings, collected, report, pc>>
    BY <1>6 DEF Cancel, feed, workers, output
  <2>2. CASE Interrupted
    BY <2>1, <2>2, Stutter DEF Interrupted
  <2>3. CASE ~Interrupted
    <3>1. Interrupted' = TRUE
      BY <2>1 DEF Interrupted
    <3>2. Promise!Interrupt
      BY <2>1, <2>3, <3>1 DEF Promise!Interrupt, Queued
    <3> QED BY <3>2 DEF Promise!PNext
  <2> QED BY <2>2, <2>3
<1> QED BY <1>2, <1>3, <1>4, <1>5, <1>6, RecvBegins, EmitFinds, ConsumeDelivers
           DEF Next, WorkerStep, Terminated

\* No finding is lost or duplicated, each cluster is worked on at most once, and the
\* stream of findings ends only when the scan has.
THEOREM ClusterRefinement == Spec => KeepsPromise
<1> QED BY InitPromise, StepPromise, ClusterInvariance, PTL
        DEF Spec, KeepsPromise, Promise!PSpec
=============================================================================
