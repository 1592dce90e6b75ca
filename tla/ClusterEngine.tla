------------------------------ MODULE ClusterEngine ------------------------------
(***************************************************************************)
(* Clustered scans (--cluster-requests): RequestClusterer::cluster groups   *)
(* the templates that share a request (src/src/engine/clustering.rs), and   *)
(* EngineRunner::run_clustered has a pool of workers send each request once *)
(* and evaluate all templates of its cluster against the one answer         *)
(* (src/src/engine/runner/mod.rs).  The pool, its channels and Ctrl-C are   *)
(* those of ScanEngine; what a worker does with a cluster differs, and how  *)
(* it treats the circuit breaker of HostErrors.  A finding is a pair of a   *)
(* template and a host.  The interactsh poller is outside this module.     *)
(***************************************************************************)
EXTENDS HostErrors, Sequences, FiniteSets, SequencesExt, FiniteSetsExt

CONSTANTS
    Workers,        \* --concurrency workers
    Templates,      \* the loaded templates, in order
    Hosts,          \* the targets, in order
    TaskCap,        \* capacity of the channel of clusters (concurrency * 4)
    FindingCap,     \* capacity of the finding channel (1000)
    MaxPanics       \* bound: how many workers may panic

\* request: method and path of the first request of the first http block, or
\* "none" without an http block; shareable: what is_clusterable_http says;
\* matchers: whether that block has matchers, and one that is not internal.
Template == [request : STRING, shareable : BOOLEAN,
             matchers : {"none", "internal", "public"}]

ASSUME ClusterAssumption ==
    /\ Workers # {} /\ IsFiniteSet(Workers)
    /\ Templates \in Seq(Template)
    /\ Hosts \in Seq(Targets) /\ IsInjective(Hosts)
    /\ {TaskCap, FindingCap} \subseteq Nat \ {0}
    /\ MaxPanics \in Nat

(***************************************************************************)
(* RequestClusterer::cluster.  A cluster is a host and a set of templates;  *)
(* the vector in the code has them in the order they were loaded, the order *)
(* of their numbers.                                                       *)
(***************************************************************************)
Cluster(h, ts) == [host |-> h, templates |-> ts]
Shareable == {i \in DOMAIN Templates : Templates[i].shareable}
Unshareable == DOMAIN Templates \ Shareable

\* The templates that share request r.
Sharing(r) == {i \in Shareable : Templates[i].request = r}

Groups == {Cluster(h, Sharing(Templates[i].request)) : h \in ToSet(Hosts), i \in Shareable}

\* All others, for each host.
Singletons == {Cluster(h, {i}) : h \in ToSet(Hosts), i \in Unshareable}

Clusters == Groups \cup Singletons
NClusters == Cardinality(Clusters)

\* The groups come out of a hash map, in any order, before the singletons, which are
\* pushed template by template for each host in turn.
Place(h) == CHOOSE i \in DOMAIN Hosts : Hosts[i] = h
Before(c, d) ==
    \/ c \in Groups
    \/ /\ c \in Singletons /\ d \in Singletons
       /\ \/ Place(c.host) < Place(d.host)
          \/ c.host = d.host /\ \A i \in c.templates, j \in d.templates : i < j

Vectors == {v \in Bijection(1..NClusters, Clusters) :
               \A i, j \in 1..NClusters : i < j => Before(v[i], v[j])}

Pairs == (DOMAIN Templates) \X ToSet(Hosts)

VARIABLES
    clusters,       \* the vector main hands to run_clustered
    producer,       \* the feeding task: "checking", "sending" or "done"
    sent,           \* clusters put into the channel
    received,       \* clusters taken out of it
    isCancelled,    \* the flag is_cancelled
    pc,             \* per worker: where it stands
    held,           \* per worker: the cluster in hand, 0 for none
    ahead,          \* per worker: the templates of its cluster it has yet to deal with
    findings,       \* the channel of findings
    collected,      \* the findings the report loop has consumed
    engine,         \* run_clustered: "joining" its workers, then "returned"
    report,         \* the report loop of main: "running", then "done"
    panics,         \* workers lost to a panic
    \* history, read by the properties only:
    fate,           \* per cluster: what has become of it
    matched,        \* per cluster: the templates its answer matches
    lateFindings    \* per worker: findings sent after the cancellation

feed == <<clusters, producer, sent>>
workers == <<pc, held, ahead>>
output == <<findings, collected, engine, report>>
history == <<matched, lateFindings>>
vars == <<breaker, feed, received, isCancelled, workers, output, panics, fate, history>>

Fates == {"queued", "running", "unsent", "failed", "ignored", "completed", "cut", "lost"}
WorkerStates == {"recv", "received", "limited", "armed", "inflight", "penalizing",
                 "rewarding", "evaluating", "emitting", "exited", "crashed"}

TypeOK ==
    /\ BreakerTypeOK
    /\ clusters \in Vectors
    /\ producer \in {"checking", "sending", "done"}
    /\ sent \in 0..NClusters
    /\ received \in 0..sent
    /\ isCancelled \in BOOLEAN
    /\ pc \in [Workers -> WorkerStates]
    /\ held \in [Workers -> 0..NClusters]
    /\ ahead \in [Workers -> SUBSET DOMAIN Templates]
    /\ findings \in Seq(Pairs)
    /\ collected \subseteq Pairs
    /\ engine \in {"joining", "returned"}
    /\ report \in {"running", "done"}
    /\ panics \in 0..MaxPanics
    /\ fate \in [1..NClusters -> Fates]
    /\ matched \in [1..NClusters -> SUBSET DOMAIN Templates]
    /\ lateFindings \in [Workers -> Nat]

Init ==
    /\ BreakerInit
    /\ clusters \in Vectors
    /\ producer = "checking" /\ sent = 0 /\ received = 0
    /\ isCancelled = FALSE
    /\ pc = [w \in Workers |-> "recv"]
    /\ held = [w \in Workers |-> 0]
    /\ ahead = [w \in Workers |-> {}]
    /\ findings = << >> /\ collected = {}
    /\ engine = "joining" /\ report = "running"
    /\ panics = 0
    /\ fate = [c \in 1..NClusters |-> "queued"]
    /\ matched = [c \in 1..NClusters |-> {}]
    /\ lateFindings = [w \in Workers |-> 0]

Gone(w) == pc[w] \in {"exited", "crashed"}
AllGone == \A w \in Workers : Gone(w)
HostOf(w) == clusters[held[w]].host
TemplatesOf(w) == clusters[held[w]].templates
At(w) == Min(ahead[w])
NextTemplate(w) == ahead' = [ahead EXCEPT ![w] = @ \ {At(w)}]

(***************************************************************************)
(* The producer and the worker loop of run_clustered.                      *)
(***************************************************************************)
ProducerCheck ==
    /\ producer = "checking"
    /\ producer' = IF sent = NClusters \/ isCancelled THEN "done" ELSE "sending"
    /\ UNCHANGED <<breaker, clusters, sent, received, isCancelled, workers, output,
                   panics, fate, history>>

ProducerSend ==
    /\ producer = "sending"
    /\ \/ /\ ~AllGone
          /\ sent - received < TaskCap
          /\ sent' = sent + 1
          /\ producer' = "checking"
       \/ /\ AllGone
          /\ producer' = "done"
          /\ UNCHANGED sent
    /\ UNCHANGED <<breaker, clusters, received, isCancelled, workers, output, panics,
                   fate, history>>

Recv(w) ==
    /\ pc[w] = "recv"
    /\ received < sent
    /\ received' = received + 1
    /\ held' = [held EXCEPT ![w] = received + 1]
    /\ pc' = [pc EXCEPT ![w] = "received"]
    /\ ahead' = [ahead EXCEPT ![w] = clusters[received + 1].templates]
    /\ fate' = [fate EXCEPT ![received + 1] = "running"]
    /\ UNCHANGED <<breaker, feed, isCancelled, output, panics, history>>

\* Mutant of RecvClosed: waits for clusters a cancelled producer never sends.
RecvClosedAllSent(w) ==
    /\ pc[w] = "recv"
    /\ received = NClusters
    /\ producer = "done"
    /\ pc' = [pc EXCEPT ![w] = "exited"]
    /\ UNCHANGED <<breaker, feed, received, isCancelled, held, ahead, output, panics,
                   fate, history>>

RecvClosed(w) ==
    /\ pc[w] = "recv"
    /\ received = sent
    /\ producer = "done"
    /\ pc' = [pc EXCEPT ![w] = "exited"]
    /\ UNCHANGED <<breaker, feed, received, isCancelled, held, ahead, output, panics,
                   fate, history>>

\* The worker lets go of its cluster, which ended as `outcome`.
LetGo(w, outcome, next) ==
    /\ pc' = [pc EXCEPT ![w] = next]
    /\ held' = [held EXCEPT ![w] = 0]
    /\ ahead' = [ahead EXCEPT ![w] = {}]
    /\ fate' = [fate EXCEPT ![held[w]] = outcome]

\* The worker goes on with its cluster.
GoTo(w, next) ==
    /\ pc' = [pc EXCEPT ![w] = next]
    /\ UNCHANGED <<held, fate>>

CheckCancelled(w) ==
    /\ pc[w] = "received"
    /\ IF isCancelled THEN LetGo(w, "cut", "exited")
                      ELSE GoTo(w, "limited") /\ UNCHANGED ahead
    /\ UNCHANGED <<breaker, feed, received, isCancelled, output, panics, history>>

(***************************************************************************)
(* execute_clustered.                                                      *)
(***************************************************************************)
\* The flag is looked at again; a first template without an http block, or a
\* request with an unresolved variable, ends the cluster.  The breaker is not
\* asked.
ExecuteClustered(w) ==
    /\ pc[w] = "limited"
    /\ \/ isCancelled /\ LetGo(w, "cut", "recv")
       \/ /\ ~isCancelled
          /\ LetGo(w, "unsent", "recv")
       \/ /\ ~isCancelled
          /\ Templates[At(w)].request # "none"
          /\ GoTo(w, "armed") /\ UNCHANGED ahead
    /\ UNCHANGED <<breaker, feed, received, isCancelled, output, panics, history>>

Send(w) ==
    /\ pc[w] = "armed"
    /\ GoTo(w, "inflight") /\ UNCHANGED ahead
    /\ UNCHANGED <<breaker, feed, received, isCancelled, output, panics, history>>

\* The request fails: send_http_one records the error.
Fail(w) ==
    /\ pc[w] = "inflight"
    /\ RecordError(HostOf(w))
    /\ GoTo(w, "penalizing") /\ UNCHANGED ahead
    /\ UNCHANGED <<feed, received, isCancelled, output, panics, history>>

\* ... and execute_clustered records it once more for each of its templates.
Penalize(w) ==
    /\ pc[w] = "penalizing"
    /\ IF ahead[w] = {}
       THEN LetGo(w, "failed", "recv") /\ UNCHANGED breaker
       ELSE /\ RecordError(HostOf(w))
            /\ NextTemplate(w)
            /\ UNCHANGED <<pc, held, fate>>
    /\ UNCHANGED <<feed, received, isCancelled, output, panics, history>>

\* The request is answered: send_http_one records the success.
Answer(w) ==
    /\ pc[w] = "inflight"
    /\ RecordSuccess(HostOf(w))
    /\ \E S \in SUBSET TemplatesOf(w) : matched' = [matched EXCEPT ![held[w]] = S]
    /\ GoTo(w, "rewarding") /\ UNCHANGED ahead
    /\ UNCHANGED <<feed, received, isCancelled, output, panics, lateFindings>>

\* ... and execute_clustered records it again.
Reward(w) ==
    /\ pc[w] = "rewarding"
    /\ RecordSuccess(HostOf(w))
    /\ GoTo(w, "evaluating") /\ UNCHANGED ahead
    /\ UNCHANGED <<feed, received, isCancelled, output, panics, history>>

\* Mutant of Reports: a block of internal matchers reports, too.
ReportsInternal(t, hit) == Templates[t].matchers = "none" \/ t \in hit

\* A template without matchers reports every answer.
Reports(t, hit) ==
    \/ Templates[t].matchers = "none"
    \/ Templates[t].matchers = "public" /\ t \in hit

\* Mutant of Evaluate: the flag is not looked at between templates.
EvaluateUnchecked(w) ==
    /\ pc[w] = "evaluating"
    /\ \/ ahead[w] = {} /\ LetGo(w, "completed", "recv")
       \/ ahead[w] # {} /\ IsDropped(HostOf(w)) /\ LetGo(w, "ignored", "recv")
       \/ /\ ahead[w] # {} /\ ~IsDropped(HostOf(w))
          /\ IF Reports(At(w), matched[held[w]])
             THEN GoTo(w, "emitting") /\ UNCHANGED ahead
             ELSE GoTo(w, "evaluating") /\ NextTemplate(w)
    /\ UNCHANGED <<breaker, feed, received, isCancelled, output, panics, history>>

\* The top of the loop over templates; a dropped host ends it.
Evaluate(w) ==
    /\ pc[w] = "evaluating"
    /\ \/ ahead[w] = {} /\ LetGo(w, "completed", "recv")
       \/ ahead[w] # {} /\ isCancelled /\ LetGo(w, "cut", "recv")
       \/ ahead[w] # {} /\ ~isCancelled /\ IsDropped(HostOf(w)) /\ LetGo(w, "ignored", "recv")
       \/ /\ ahead[w] # {} /\ ~isCancelled /\ ~IsDropped(HostOf(w))
          /\ IF Reports(At(w), matched[held[w]])
             THEN GoTo(w, "emitting") /\ UNCHANGED ahead
             ELSE GoTo(w, "evaluating") /\ NextTemplate(w)
    /\ UNCHANGED <<breaker, feed, received, isCancelled, output, panics, history>>

\* Mutant of Emit: the loop stays at the template that reported.
EmitAgain(w) ==
    /\ pc[w] = "emitting"
    /\ Len(findings) < FindingCap
    /\ findings' = Append(findings, <<At(w), HostOf(w)>>)
    /\ GoTo(w, "evaluating") /\ UNCHANGED ahead
    /\ UNCHANGED <<breaker, feed, received, isCancelled, collected, engine, report,
                   panics, matched, lateFindings>>

\* result_tx.send(finding).await waits for room in the channel.
Emit(w) ==
    /\ pc[w] = "emitting"
    /\ Len(findings) < FindingCap
    /\ findings' = Append(findings, <<At(w), HostOf(w)>>)
    /\ lateFindings' = [lateFindings EXCEPT ![w] = IF isCancelled THEN @ + 1 ELSE @]
    /\ GoTo(w, "evaluating") /\ NextTemplate(w)
    /\ UNCHANGED <<breaker, feed, received, isCancelled, collected, engine, report,
                   panics, matched>>

\* A panic inside execute_clustered unwinds the worker.
Panic(w) ==
    /\ pc[w] \notin {"recv", "received", "exited", "crashed"}
    /\ panics < MaxPanics
    /\ panics' = panics + 1
    /\ LetGo(w, "lost", "crashed")
    /\ UNCHANGED <<breaker, feed, received, isCancelled, output, history>>

(***************************************************************************)
(* run_clustered's end, the report loop and Ctrl-C.                        *)
(***************************************************************************)
JoinWorkers ==
    /\ engine = "joining"
    /\ AllGone
    /\ engine' = "returned"
    /\ UNCHANGED <<breaker, feed, received, isCancelled, workers, findings, collected,
                   report, panics, fate, history>>

Consume ==
    /\ report = "running"
    /\ findings # << >>
    /\ collected' = collected \cup {Head(findings)}
    /\ findings' = Tail(findings)
    /\ UNCHANGED <<breaker, feed, received, isCancelled, workers, engine, report,
                   panics, fate, history>>

ReportDone ==
    /\ report = "running"
    /\ findings = << >>
    /\ engine = "returned"
    /\ report' = "done"
    /\ UNCHANGED <<breaker, feed, received, isCancelled, workers, findings, collected,
                   engine, panics, fate, history>>

Cancel ==
    /\ ~isCancelled
    /\ report = "running"
    /\ isCancelled' = TRUE
    /\ UNCHANGED <<breaker, feed, received, workers, output, panics, fate, history>>

Terminated == report = "done" /\ UNCHANGED vars

WorkerStep(w) ==
    \/ Recv(w) \/ RecvClosed(w) \/ CheckCancelled(w) \/ ExecuteClustered(w)
    \/ Send(w) \/ Fail(w) \/ Penalize(w) \/ Answer(w) \/ Reward(w)
    \/ Evaluate(w) \/ Emit(w)

Next ==
    \/ ProducerCheck
    \/ ProducerSend
    \/ \E w \in Workers : WorkerStep(w) \/ Panic(w)
    \/ JoinWorkers
    \/ Consume
    \/ ReportDone
    \/ Cancel
    \/ Terminated

Spec == Init /\ [][Next]_vars

\* Every spawned task is polled; the http client has a timeout.
Fairness ==
    /\ WF_vars(ProducerCheck)
    /\ WF_vars(ProducerSend)
    /\ \A w \in Workers : WF_vars(WorkerStep(w))
    /\ WF_vars(JoinWorkers)
    /\ WF_vars(Consume)
    /\ WF_vars(ReportDone)

FairSpec == Spec /\ Fairness

(***************************************************************************)
(* Properties.                                                             *)
(***************************************************************************)
Queued == ToSet(findings)
Interrupted == isCancelled \/ \A w \in Workers : pc[w] = "crashed"

\* The pairs that report the answer a cluster was given.
Expected(c) ==
    {<<t, clusters[c].host>> : t \in {u \in clusters[c].templates :
        Templates[u].matchers = "none"
        \/ (Templates[u].matchers = "public" /\ u \in matched[c])}}

\* Sharing an answer neither loses nor invents a finding: a cluster that went
\* through has raised exactly the findings its answer calls for, and the
\* others none beyond those, whatever other clusters of the host did meanwhile.
SharedAnswer ==
    \A c \in 1..NClusters :
        LET raised == {f \in collected \cup Queued :
                         f[2] = clusters[c].host /\ f[1] \in clusters[c].templates}
        IN  /\ raised \subseteq Expected(c)
            /\ fate[c] = "completed" => raised = Expected(c)

\* After Ctrl-C a worker sends at most the one finding it had in hand, though
\* it may have to wait for room, and more templates match.
CancelStopsFindings == \A w \in Workers : lateFindings[w] <= 1

\* The scan ends, cancelled or not, with or without panics.
Terminates == <>(report = "done")

\* A clustered scan keeps the promise of ScanPromise, with clusters as tasks:
\* each is taken at most once, each finding delivered once, and the end of the
\* findings is the end of the scan.
Promise == INSTANCE ScanPromise WITH
    Tasks <- Clusters,
    FindingsOf <- [c \in Clusters |-> {<<t, c.host>> : t \in c.templates}],
    todo <- {clusters[c] : c \in received + 1 .. NClusters},
    active <- {clusters[held[w]] : w \in {v \in Workers : held[v] # 0}},
    undelivered <- Queued,
    delivered <- collected,
    interrupted <- Interrupted,
    ended <- report = "done"

KeepsPromise == Promise!PSpec
================================================================================
