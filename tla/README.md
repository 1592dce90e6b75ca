# A TLA+ model of nuclei-run

nuclei-run is a vulnerability scanner: it loads YAML templates, pairs them with
targets, sends the requests the templates describe and reports the answers that
match.  This directory holds a model of the parts of it in which order,
concurrency and failure matter, the TLC runs that check small instances of the
model, and TLAPS proofs about its core, its tasks, its clients, its UI bridge, its cache
and its reports.

Source paths are relative to the repository (`src/` is its crate).  The
correspondence of single definitions to lines is in `PROJECT.json` under `map`.

## 1. The system

| component | state it keeps | operations | talks to |
|---|---|---|---|
| scan pipeline (`engine/runner/mod.rs`, `runner/protocols.rs`, `main.rs`) | task channel, worker pool, `is_cancelled`, finding channel, report loop | `run`, the worker loop, `execute_task`, one `execute_*` per protocol, `cancel` | breaker, clients, interactsh, report loop |
| circuit breaker (`engine/host_errors.rs`) | failures since the last success and dropped targets, each behind a lock | `is_dropped`, `record_error`, `record_success` | called by all workers |
| interactsh client (`engine/interactsh/`) | session, backoff, table of requests and of early interactions | `register`, `ensure_registered`, `generate_url`, `add_request`, `poll_loop`, `deregister` | workers, a background poller, an external server |
| UI bridge (`ui_bridge.rs`) | `is_paused`, cancel channel, counters, one event channel | `start_scan`, `pause_scan`, `resume_scan`, `cancel_scan`, three forwarding tasks | the pipeline, a UI |
| template resolver and cache (`parser/template_resolver/`) | a directory per repository and branch, with a metadata file | `resolve_template_path`, `check_cache`, download, extraction | file system, GitHub, `main` |
| request clustering (`engine/clustering.rs`, `run_clustered`) | none of its own | groups templates with equal requests | pipeline, breaker |
| flow templates (`engine/flow.rs`, `runner/flow_exec.rs`) | variables that blocks hand on | parses and evaluates `flow:` expressions, running the blocks they call | pipeline |
| workflows (`engine/workflow.rs`, `runner/workflow_exec.rs`) | matches and names captured per step | runs subtemplates behind the gates of their step | pipeline |
| HTTP client (`engine/http_client.rs`) | clients pooled by policy, a cookie jar each | `send`, `send_raw` with redirects and retries | workers, servers |
| other protocol clients (`dns`, `network`, `ssl`, `websocket`, `whois`, `file`, `code`, `headless`) | none between requests | one conversation each | network, processes, a browser |
| JavaScript runtime (`engine/js_client/`) | connections and buffers in tables of the thread | runs a script, `Open`, `Close`, `Buffer` | the pool of blocking threads |
| matchers, DSL, fuzzing (`engine/matcher/`, `engine/dsl/`, `engine/fuzzing.rs`) | none | pure evaluation over answers and text | workers |
| extractors, variables (`engine/extractor/`, `engine/variables.rs`) | none | text to text | workers |
| template loader and signatures (`parser/yaml_loader/`, `engine/crypto_signer.rs`) | the signing key, digests in the files | reads, verifies, filters; `sign_file` | file system, `main` |
| uncover (`engine/uncover.rs`) | none | one query to a search service | `main` |
| honeypot detector (`engine/honeypot.rs`) | template ids and a flag per host | `record_match`, `is_flagged` | report loop |
| reports, exporters, trackers (`output/`) | open files | one write or call per finding, reports at the end | file system, services |

What is hard about it:

* **Concurrency.**  Workers, the producer, the interactsh poller, the report loop
  and (in the UI) four forwarding tasks run concurrently and are tied together by
  bounded channels; shutdown is expressed only by the dropping of senders.
* **Cancellation.**  One flag, polled in a dozen loops, by tasks that may be
  waiting for a channel, a token or an answer when it is raised.
* **Partial failure.**  Requests fail, workers panic (the join error is thrown
  away), calls to the interactsh server fail and are retried after a backoff.
* **Rendezvous.**  An interaction may be fetched before or after the request
  that caused it is registered.
* **Crash and restart.**  The template cache survives runs that were killed
  between any two operations on the file system.
* **Repeated code.**  Ten protocols each carry a copy of the logic of
  stop-at-first-match and cancellation.

What makes each component correct:

* pipeline: no task and no finding lost or taken twice; cancellation is prompt;
  the end of the stream of findings means the end of the scan; it ends;
* breaker: no target is skipped without `max_errors` failures to justify it;
* interactsh: an interaction that arrived in time is evaluated exactly once;
* UI bridge: completion comes last and with the right total; pause and cancel
  do what they say;
* cache: what is loaded is one version of the branch, whole and not too old;
* clustering: sharing an answer changes neither the findings it calls for nor
  what the breaker makes of a host;
* flow, workflows: blocks and subtemplates run exactly when their gates are open;
* HTTP client: redirects and cookies stay within the policy of the request;
* protocol clients: what a matcher sees is what the peer sent, and a silent peer
  lets go of the worker;
* JavaScript: scripts that share a thread do not share objects;
* matchers, DSL, flow: an expression means what is written;
* fuzzing: every combination of an attack is tried;
* loader and signatures: what is scanned was asked for and, with verification, is
  what was signed;
* honeypot detector and reports: a suppressed host stays suppressed, no other
  host is, and all reports tell the same story.

## 2. Modules

| module | models | composed with |
|---|---|---|
| `HostErrors` | the breaker: its two tables and three operations | extended by `ScanEngine`, `ClusterEngine` |
| `ScanEngine` | `EngineRunner::run` and everything it spawns, `execute_task`, the protocol blocks, the report loop, Ctrl-C | `HostErrors` |
| `ScanPromise` | abstract: what the reader of the finding channel may rely on | implemented by `ScanEngine`, and by `ClusterEngine` with clusters for tasks |
| `ClusterEngine` | `RequestClusterer::cluster`, `run_clustered` and what it spawns, `execute_clustered` | `HostErrors` |
| `TaskExec` | one task from `execute_task` to its end: plain templates over all ten protocols, flows, workflows | stands alone: the breaker and the channels are in `ScanEngine` |
| `HttpClient` | `HttpClient`: pool, jars, redirects, retries, body; several workers on one client | extended by `Helpers` |
| `DnsClient` | `DnsClient::execute` | extended by `Helpers` |
| `Conversation` | the clients of network, ssl, whois, websocket, code and headless blocks | extended by `Helpers` |
| `JsRuntime` | the threads and tables of scripts | extended by `Helpers` |
| `Expressions` | the parser of flows and the evaluator of DSL expressions, as operators | extended by `Helpers` |
| `Matching` | word matchers and the evaluation of a block's matchers, as operators; a behaviour is one call | extended by `Helpers` |
| `Fuzzing` | `fuzzing.rs`, as operators | extended by `Helpers` |
| `Helpers` | what workers call and what shares no state: picks one of these, or an input for one of the operators | `HttpClient`, `DnsClient`, `Conversation`, `JsRuntime`, `Expressions`, `Matching`, `Fuzzing` |
| `Main` | `main`: signing, targets, loader and filters, tasks, honeypot detector, report loop, reports, exit code | sees the engine as the channel of findings that `ScanPromise` describes |
| `Interactsh` | the interactsh client, the steps of a worker that use it, the poller and the end of `run` | stands alone |
| `UiBridge` | `NucleiUiEngine`: a session from `start_scan` to its completion, with pause, resume and cancel | stands alone; sees the engine as a source of requests and findings |
| `TemplateCache` | `resolve_template_path` over many runs of the program | stands alone |
| `MC*` | small instances: tasks, probes, URLs, versions | extends its component |
| `ScanEngine_proofs` | inductive invariant, safety theorems, refinement | extends `ScanEngine`, TLAPS |
| `ClusterEngine_proofs` | clusters partition the work; inductive invariant, safety, refinement | extends `ClusterEngine`, TLAPS |
| `TaskExec_proofs` | inductive invariants, cancellation, gates, stop-at-first-match, what a flow means | extends `TaskExec`, TLAPS |
| `Clients_proofs` | redirects and cookies stay within the policy; an answer in time is heard; a conversation is a transcript; handles of scripts stay their own; word matchers and names tell the truth | extends `HttpClient`, `DnsClient`, `Conversation`, `JsRuntime`, `Matching`, TLAPS |
| `Interactsh_proofs` | the rendezvous, where interactions are, which are evaluated, what the calls that meet the cooldown decide | extends `Interactsh`, TLAPS |
| `UiBridge_proofs` | where findings are, what completion says, what a pause lets through | extends `UiBridge`, TLAPS |
| `TemplateCache_proofs` | what is loaded is whole and not stale | extends `TemplateCache`, TLAPS |
| `Main_proofs` | what is scanned was asked for; the reports agree | extends `Main`, TLAPS |

### ScanEngine

A *task* is a (template, target) pair, a number: its place in the vector `main`
builds.  The task channel has one producer and is first-in first-out, so its
contents are always `received + 1 .. sent`; workers share the receiving end, as
they do with `async_channel`.  A task's work is a sequence of *probes*, the
requests of its protocol blocks in the order in which `execute_protocols` runs
them.  A probe records what the control depends on: the protocol, what kind of
matchers its block has, the block's own stop-at-first-match, where the block
ends, and whether its client has a timeout.

| `pc[w]` | where the worker stands in the code |
|---|---|
| `recv` | `worker_rx.recv().await` |
| `received` | before the check of `is_cancelled` in the worker loop |
| `limited` | past the rate limiter, before `execute_task` asks the breaker |
| `probing` | top of the loop over blocks or requests: the check of `is_cancelled` |
| `armed` | the check is passed, the request not yet sent |
| `inflight` | awaiting the answer |
| `emitting` | `result_tx.send(finding).await` on a bounded channel |
| `exited`, `crashed` | out of the loop; unwound by a panic |

The step from `armed` to `inflight` is apart from the check because anything may
happen in between: Ctrl-C, a drop of the host by another worker.  What the
remote side answers is a free choice among failing, not matching and matching.

### ClusterEngine

A cluster is a host and a set of templates.  `main` hands `run_clustered` the
clusters of all hosts: the groups, which come out of a hash map in any order, then the
templates that cannot share a request, one cluster each, in their order (`Before`;
`Vectors` are the orders that respect it).  The pool, its channels and Ctrl-C are
those of `ScanEngine`; the states from `inflight` on differ:

| `pc[w]` | where the worker stands in the code |
|---|---|
| `limited` | before the check of `is_cancelled` in `execute_clustered` |
| `armed`, `inflight` | before and during `send_http_one` |
| `penalizing` | in the loop that records an error per template; `ahead[w]` are the templates still to come |
| `rewarding` | after the success `send_http_one` recorded, before the second one |
| `evaluating`, `emitting` | in the loop over the templates, at the first of `ahead[w]` |

Each recording of an error is a step, since the lock is released in between.
Which templates an answer matches is a free choice, made when it arrives
(`matched`).

### Interactsh

Time is counted in ticks.  Each timer of the code (poll interval, cooldown,
keepalive, backoff, timeout of a call) is a countdown; `Pass` advances them all
and no timer that is due is passed over.  Interactions are numbered as they come, the
server has them as a set and hands them out in that order; of the table of early ones
and of the evaluations the model keeps, per interaction, how often it is in there.
`add_request` and `poll_once` hold the
write lock from end to end and are one action each; the call that precedes the
lock in `poll_once` is what `polling` stands for.  A worker's registration and
the final deregistration are taken to be instantaneous: of what their duration
could do, two registrations of one session at once, nothing is modelled.  The answer of a
poll is what the server had when it asked for it.  `slow` is history: the ticks of the
longest call that the cooldown has met.

### UiBridge

One session with its four tasks.  The receiver of the cancel channel is kept in
`_cancel_rx` and nobody reads it, so in the model, as in the code, no action
reads `cancelSignal` except to count.  The error forwarder compares messages; the
model lets an error past the free ones be held back or not.

### TemplateCache

One repository and branch, hence one directory.  A run resolves its arguments in
order (`check`, `download`, `wipe`, `extract`, `stamp`) and then loads them all.
`remove_dir_all` and the extraction take an entry per step, in any order, and
`Crash` may come between any two.  A run may be a forced update, may ask for several
paths, and its removals may fail part of the way.  `kept` and `spoiled` are history: the
paths a run has resolved and not removed since, and whether a removal that was cut short
has left something behind (fresh metadata over part of its files, or files to extract
over).  The clock stands still while a run is under way and never goes back.

### TaskExec

`execute_task` calls itself through flows and workflows; the stack of calls is
`agenda`, the innermost call first, and an item of it is where a function stands:

| item | where the task stands |
|---|---|
| `task`, `topstep`, `step`, `template`, `subs`, `gate` | `execute_task`, and `execute_workflow` with the parts of `run_workflow_step` in their order; `template` holds the templates the step has still to run |
| `block` | the head of a protocol's loop: the flags |
| `probe` | awaiting the answer of a block that is not http |
| `http`, `armed`, `answers` | head of the loop over requests; check passed; answers to evaluate |
| `eval`, `negate`, `and`, `or` | `eval_flow_node`, and what is left to do with the left operand |
| `flowhttp`, `flowsend` | the loop of `flow_http_block` |
| `verdict` | `execute_flow`, `execute_flow_capture` after the expression |

Ctrl-C may fall between any two items.  `sends`, `lateSends` and `lateLeaves` are history:
what blocks of any protocol sent, what of it after Ctrl-C, and what of that by blocks of a
flow that look at no flag; `allowed` is what the task had passed the check for at that
moment; `reported` are the protocols of the blocks that reported.  Variables are a set of names: which have a
value matters (a request that needs others is skipped), the value does not.  What
a block's matchers and extractors make of an answer is a free choice within what
the block has.

### HttpClient

A request is at `state[r]`: `parsing`, `pool`, `attempt`, `waiting`, `reading`,
`done` or `failed`.  `reqwest` is external: `Redirected` asks the redirect policy
that `build_client` installs and follows with the cookies of the jar.  `chain` is
`attempt.previous()` and the URL under way.  `given`, `carried` and `due` are
history.

### DnsClient, Conversation, JsRuntime

`DnsClient` has the socket as a queue of datagrams that can be read, or not; any
question sent may still be answered later.  `Conversation` compiles a block into
the list of what its client awaits, each with or without a timeout and with or
without an error (`skip` stands for what an input of the block does not have), and
lets the peer send numbered bytes, close, or do nothing.  A write to a TLS stream goes to
its buffer and has a timeout; the `flush` after it is where the peer is waited for, and
has none.  What a headless block does is one step per action, and an ssl block whose
cipher suites allow none of its versions does not connect.
`JsRuntime` has threads that run scripts one after another and end when idle;
ids are per thread and table, as the `thread_local!` tables are.

### Expressions, Matching, Fuzzing

Operators written after the functions of the same names, compared with
definitions from the outside: an expression tree is rendered with the fewest
parentheses and has to be read back; a parser of tokens
must have read them all; what a word matcher reports must be in the text; an
attack must make, for each combination it promises, a request that carries it.
`||` ranks above `&&` in the DSL and below it in flows; `DslRank` and `FlowRank`
say so: that the two differ is taken from the code and judged by no property.
In `Fuzzing` texts are sequences of letters, so that a key may lie within another key, a
payload or a body (`Inside`), as `contains` and `replace` see it; a letter in `Wide` takes
two bytes, and a cut through the middle of one panics: `Mutate` yields a set, which is empty then.

### Main

The engine is `todo` (pairs of a template and a target) and a bounded channel; it
may find or miss in any order, stop early (Ctrl-C or a panic), and closes the
channel when nothing is left.  A task of a template with an untimed block may hang, and
others behind it (`Hang`, `stuck`); so may the query of uncover, which has no timeout.  A
line of JSONL may fail to be written, which the report loop ignores (`unwritten`).  A
finding without a URL or template id does not count for the detector (`Counts`).  Each statement of the
report loop that waits is a step: a receiver that
is awaited, one after the other.  A file is a version and whether blank lines end
it; a digest remembers both and who made it.

## 3. Runs

Passing runs:

| run | instance | shows |
|---|---|---|
| `engine` | 2 workers, 3 tasks, 2 hosts, 5 probes, channels of 1, breaker at 2, up to 2 panics, Ctrl-C at any time | the safety properties below, `KeepsPromise` (refinement of `ScanPromise`), `Terminates` |
| `cluster` | 2 workers, 4 templates in 3 clusters (one of two templates, one of internal matchers, one that cannot share), 1 host, channels of 1, breaker at 3, 1 panic, Ctrl-C | `SharedAnswer`, `CancelStopsFindings`, `KeepsPromise`, `Terminates` |
| `interactsh` | a request with 2 URLs, 2 interactions, 1 failing call; interval, cooldown and timeout of 2, 3 and 6 ticks, where the code has 5 s, 7 s and 15 s | the rendezvous, the final poll, termination |
| `ui` | 2 raw templates, 2 requests, every channel of 1, a pause, cancels, other scans started, a heartbeat | the order and totals of the event stream |
| `cache` | 3 versions of a branch, the branch itself and a directory, alone and in one run, forced updates, any number of runs, crashes, errors, and removals that fail half way | `LoadsComplete`, `NotStale` |
| `task` | 6 templates (all protocols, public, internal and no matchers, races, own stop), two flows of 6 and 9 nodes, a workflow of 6 steps three levels deep that also selects itself; Ctrl-C | `FlowAsWritten`, `GatesRespected`, `CancelStopsTask`, `StopsUnlessJavascript` |
| `helpers` | 3 HTTP requests at once, 3 pairings of policies, 3 places to be redirected to, 1 retry; a DNS query over 2 rounds and up to 2 resolvers; 12 blocks and 4 bytes of a peer; 3 scripts on a thread; expressions of up to three operators and all sequences of up to 5 tokens; 2 words over 2 letters; 2 matchers; 2 payload lists over nested, plain and wide texts | `RedirectsAsAsked`, `CookiesByPolicy`, `Ends` and the properties of the other helpers |
| `main` | 6 template files, 3 targets on one host, 5 command lines, 2 signings or edits, hanging tasks and lines that cannot be written | `ReportsAgree`, `SelectionHolds`, `EverythingReported` |

Properties they check:

* `CancelStopsSending`: after Ctrl-C a worker sends at most one more request.
* `SkippedOnlyAfterErrors`: a skipped task's breaker key has collected
  `MaxErrors` failures, none of them the task's own.
* `AllTasksAccounted`: an uninterrupted scan that ends has run, skipped or lost
  to a panic each of its tasks.
* `StopsUnlessJavascript` (task): with the global flag, nothing is sent for a template
  of which a block that is not a javascript block has reported, whatever its protocol
  (`execute_js` never sets `spm_stop`: see below).
* `FlowAsWritten`: a flow reports exactly if its expression is true of what its
  blocks returned, and runs the blocks that evaluation from left to right calls for.
* `GatesRespected`: below the top of a workflow a step runs only behind an open
  gate and, if nothing is cancelled, each step behind one does.
* `CancelStopsTask`: after Ctrl-C a task sends, in whatever protocol, at most the block,
  request or race whose check it had passed, however deep it was, and blocks of flows
  other than http (see below).
* `RedirectsAsAsked`, `CookiesByPolicy`, `Ends` (HTTP): redirects within flow, host
  and cap; a cookie is carried exactly if it was set under the same policy; every
  request ends.
* `AnswerHeard` (DNS): no answer that comes while the client waits is lost.
* `RawIsTranscript`: what a client keeps is the stream of the peer without a gap.
* `SilentPeerLetsGo`: a DNS query, and the blocks whose steps all have a timeout
  (`Bounded`: no `read-all`, no TLS write to flush, no websocket send or code),
  end whatever the other side does.
* `HandlesStayOwn` (JavaScript): what a handle reaches was made by its script.
* `ExpressionsRead`, `MatchersTell`: see the operators above.
* `AttacksCover`: an attack panics on wide letters only (and then tries nothing), makes
  one request per combination it promises, and each combination is carried by one, unless
  a payload is lost on the way: to a key within it, to the replacement of the whole body
  (`Overwritten`), or to a parameter whose name ends with the key (`Shadowed`).
* `ReportsAgree`, `SelectionHolds`, `EverythingReported` (`main`): terminal, SARIF and
  Markdown hold the same findings in the same order, without those of flagged hosts, JSONL
  too if each line could be written, and otherwise some of them, as the receivers have;
  what is scanned was asked for and was not edited since it was signed; everything that
  was raised gets reported, and the program ends unless the query of uncover or a task
  of the engine never does.
* `KeepsPromise`: findings are delivered exactly once, tasks taken at most once,
  and the stream ends only when all is done.
* `Terminates` (engine): the scan ends or a worker hangs in a client without a
  timeout.
* `SharedAnswer` (cluster): a cluster that went through has raised exactly the
  findings its answer calls for, any other none beyond those.
* `CancelStopsFindings`: after Ctrl-C a worker sends at most the finding in hand.
* `NobodyStranded`, `FetchedOnce`, `Terminates` (interactsh): no request and interaction
  wait for each other; each fetched interaction is in one place; the poller goes away.
* `FinalPollUnlessSlow`, `FirstHitEvaluated` (interactsh): a poll starts after the last
  registration unless a call that the cooldown meets takes half of the cooldown; a URL
  called in time is evaluated if no call fails and the interval and two such calls fit
  into the cooldown.  What calls take is observed (`slow`), not assumed of the constants.
* `CompletionIsExact`, `PauseHoldsFindings`, `CompletionAnnounced` (UI):
  completion comes after all findings, with their number; a pause lets
  through at most the finding in hand; completion is
  announced unless the scan is left paused.
* `LoadsComplete`, `NotStale` (cache): a loaded path is one version, whole; no version is
  served that was superseded longer than the time to live ago.  Both speak of what is
  `intact`: not removed again by the same run, and not left behind by a removal that was
  cut short (what happens then is in `cache_two_paths` and `cache_half_removed`).

Runs that find what the source says and does not do (details and quotations under
`findings` in `PROJECT.json`):

| run | disagreement |
|---|---|
| `interactsh_slow_poll` | a poll under way at the last registration may outlast the cooldown, and no other one starts |
| `interactsh_second_hit` | the first interaction of a URL (often the DNS lookup) removes its request; the HTTP call the matchers want is set aside for ever |
| `cache_two_paths` | the second path of a branch wipes the directory the first one was resolved to, before anything is loaded |
| `cache_half_removed` | a forced update killed while it removes a fresh cache leaves metadata that the next run believes over part of the files |

Behaviours of the model that a reader may not expect, without a run of their own:

* One failed request of a cluster of N templates counts N + 1 errors
  (`ClusterEngine`, `Penalize`): with the default limit of 30, one failure of 29
  templates that share a request drops the host.
* `cancel_scan` reaches nobody: no action of `UiBridge` but `CancelScan` and
  `StartAnother` has anything to do with `cancelSignal`.
* Internal matchers of whois, file, code, websocket and headless blocks report findings
  (`Reports` in `ScanEngine`, `Reporting` in `TaskExec`), though `models/template.rs:829`
  says that they do not.
* A javascript block that reports does not stop the blocks after it under
  `--stop-at-first-match` ("across all protocols", `main.rs:186`): `StopsUnlessJavascript`
  with javascript blocks counted fails.
* A flow goes on to its dns, network, ssl, code and javascript blocks after Ctrl-C
  (`flow_exec.rs:153`): `CancelStopsTask` without `lateLeaves` fails.
* A cancelled or failed http block of a flow returns false, which a negation turns into a
  match.
* An http block of internal matchers only sets `spm_stop` without having reported.
* `sign_file` signs a file that ends in blank lines so that it fails verification
  (`SelectionHolds` excepts it); the finding that has a host flagged as a honeypot
  is the first to be suppressed; SARIF written to the path of JSONL replaces it;
  in clusters a self-contained template runs per target.
* Word matchers with `and` may miss words that overlap (`MatchersTell` goes in one
  direction only); an injected `id=` also takes the place in `uid=`, and a key is
  replaced wherever its letters stand in a body (`Overwritten` and `Shadowed` in `Fuzzing`
  name what is lost); `CutsWide` names the texts an infix panics on.

### Bounds, and why they are enough

Capacities of 1 make every `send().await` wait; larger channels only have fewer
waiting states.  Two workers are enough for each pairwise race on a channel, the
breaker or the flag (no step involves more than two workers), and three tasks
make a worker come back for another one while the other is still busy.  In
`interactsh` a request with two URLs registers the second while the poller may be at the
interactions of the first, and may go out with one of them missing; one failing call meets
each of the calls.  A tick is two and a half seconds: polls every 5 s, a cooldown of 7.5 s for
the 7 s of the code, calls of up to 15 s; keepalive and backoff are shortened from 60 s to 10 s,
so that a keepalive falls into the cooldown.  Calls that take no tick, one tick and more than
one are on the two sides of what both timing properties ask.
`interactsh_slow_poll` has all five constants of the code, in half seconds.  In
`cluster` one host is enough, since the breaker keeps hosts apart; its limit of 3
is met by the failure of the large cluster alone or by the two small ones
together.  In `ui` two requests give two findings, two errors or one of each.  In
`cache` the versions differ in their files, one file staying, one coming and one
going, and a version without the directory; `MaxTime` is past two expiries; a path within
the branch and the branch itself share the files of one directory, as two paths of one run and
of two.

In `task` each protocol has at least one block, in a plain template or a flow or
both, and blocks that stop, race and need variables stand before and after blocks
that fill them; three levels of steps pass a gate that hangs on a gated step.  In
`helpers` three HTTP requests make two that share a client and one that does not; caps of 1
and 2 and three hosts make chains that stop at the cap, at the host and not at all;
a peer of four bytes fills each read of the three-input block and
leaves one; six tokens would only nest deeper.  In `main` a threshold of two, two
targets that share a key of the detector and one with an explicit port make hosts
flagged and not; two changes are a signing and an edit in either order, two
signings, or two edits.

The inputs of `Fuzzing` are those a template can mean: keys are not empty, the lists of
payloads name none twice, and no value or payload holds a parameter of its own (`id=...`).

Bounds that have no counterpart in the code: `MaxPanics`, `MaxHits`,
`MaxFailures`, `MaxRequests`, `MaxTicks`, `MaxPauses`, `MaxTime`, `MaxVersions`,
`MaxBytes`, `MaxObjects`, `MaxChanges`, and the number of `Scripts`.  `MaxBody`,
`DefaultMax` and `Threshold` are constants of the code, scaled.

Every property of a passing run has a *mutant*: an operator next to the
definition it replaces (its comment starts with "Mutant of"), a plausible slip in
the code.  With it, the same run violates the property; so the run would notice.

### Fairness, and why the code justifies it

* All concurrent parts are tokio tasks: one that can go on is polled again, which
  is weak fairness of its steps.  Ctrl-C, panics, pauses, crashes and what the
  remote side does are under no fairness.
* A request in flight ends because its client has a timeout.  Code blocks
  (`cmd.output()`), javascript blocks (`spawn_blocking`) and the sends of
  websocket blocks have none: their probes are not `timed`, `Hanging` exempts
  them from fairness, and `Terminates` is stated accordingly.
* Senders that wait for room in a channel are served in order of arrival by tokio
  and async_channel: hence strong fairness of the sends in `UiBridge`.
* `select!` chooses among ready branches at random, so a stop signal that is
  ready again and again is taken: strong fairness of `PollStop`.
* Time passes, and the UI reads its events.
* `Helpers`: `reqwest` gives each attempt a timeout, so an HTTP request moves on; else what
  a client does alone, and `TimedOut` of steps that have a timeout;
  nothing is asked of peers and resolvers.
* `Main`: resolving targets and loading are local; the engine finishes the tasks that end
  (`Terminates` of `ScanEngine`); a receiver is awaited for ten seconds (`exporter.rs`,
  `issue_tracker.rs`).  Nothing is asked of the query of uncover, whose client has no
  timeout, or of tasks that hang.

## 4. Proofs

`ScanEngine_proofs` proves, for any set of workers (finite, not empty), any number
of tasks, any capacities, any sequences of probes and any number of panics:

| theorem | states |
|---|---|
| `Invariance` | `Spec => []IInv` |
| `TypeCorrect` | `Spec => []TypeOK` |
| `CancelStopsSendingHolds` | `Spec => []CancelStopsSending` |
| `SkippedOnlyAfterErrorsHolds` | `Spec => []SkippedOnlyAfterErrors` |
| `AllTasksAccountedHolds` | `Spec => []AllTasksAccounted` |
| `Refinement` | `Spec => KeepsPromise` |

The assumptions are those on the constants: `EngineAssumption`,
`WorkersAssumption`, `ProbesAssumption` (a block's probes are contiguous and in
the order of the protocols) and `MaxErrorsAssumption`.

None of the properties is inductive.  That a task is lost only with its worker
needs to know who holds what, that a finding is not raised twice needs the
position of the worker within its task, and that the stream ends in time needs
the order in which senders are dropped.  `IInv` is the conjunction of

* `HeldInv`: busy workers hold distinct tasks, all of them already received;
* `PosInv`: a worker between the check and the answer is at a probe of its task;
* `FateInv`: the history of a task agrees with who holds it;
* `LateInv`: a worker that has passed the check since the cancellation has not
  sent since then;
* `BreakerInv`: counts never exceed the failures that happened; a dropped key has
  had its share; who was skipped has not failed;
* `ClosingInv`: each end of a channel closes only when the ends before it have;
* `FindingInv`: findings are distinct, come from received tasks, and a task still
  held is past the probe of each of its findings.

Each action has a lemma; actions of a shape share one (`LetGoStep` for those that
end a task, `AdvanceStep` for those that go on within one).  `Refinement` maps
`received + 1 .. NTasks` to the abstract `todo`, the held tasks to `active` and
the channel to `undelivered`, and shows each step to be a step of `ScanPromise`
or a stutter, with `IInv` before and after.

The other proof modules:

| module | theorem | states |
|---|---|---|
| `ClusterEngine_proofs` | `ClustersPartition` | each template meets each host in exactly one cluster |
| | `ClusterInvariance` | `Spec => []IInv` |
| | `ClusterTypeCorrect` | `Spec => []TypeOK` |
| | `SharedAnswerHolds` | `Spec => []SharedAnswer` |
| | `CancelStopsFindingsHolds` | `Spec => []CancelStopsFindings` |
| | `ClusterRefinement` | `Spec => KeepsPromise` |
| `TaskExec_proofs` | `TaskInvariance` | `Spec => []IInv` |
| | `TaskTypeCorrect` | `Spec => []TypeOK` |
| | `CancelStopsTaskHolds` | `Spec => []CancelStopsTask` |
| | `GatesRespectedHolds` | `Spec => []GatesRespected` |
| | `StopsUnlessJavascriptHolds` | `Spec => StopsUnlessJavascript` |
| | `FlowInvariance` | `Spec => [](IInv /\ FlowInv)` |
| | `FlowAsWrittenHolds` | `Spec => []FlowAsWritten` |
| `Clients_proofs` | `HttpTypeCorrect` | `HttpSpec => []HttpTypeOK` |
| | `RedirectsStayInPolicy` | `HttpSpec => []RedirectsAsAsked` |
| | `CookiesStayInPolicy` | `HttpSpec => []CookiesByPolicy` |
| | `AnswerHeardHolds` | `DnsSpec => []AnswerHeard` |
| | `RawIsTranscriptHolds` | `TalkSpec => []RawIsTranscript` |
| | `HandlesStayOwnHolds` | `JsSpec => []HandlesStayOwn` |
| | `MatchersTellHolds` | `MatchSpec => []MatchersTell` |
| `Interactsh_proofs` | `InteractshTypeCorrect` | `Spec => []TypeOK` |
| | `NobodyStrandedHolds` | `Spec => []NobodyStranded` |
| | `FetchedOnceHolds` | `Spec => []FetchedOnce` |
| | `FinalPollUnlessSlowHolds` | `Spec => []FinalPollUnlessSlow` |
| | `FirstHitEvaluatedHolds` | `Spec => []FirstHitEvaluated` |
| `UiBridge_proofs` | `UiInvariance` | `Spec => []IInv` |
| | `UiTypeCorrect` | `Spec => []TypeOK` |
| | `CompletionIsExactHolds` | `Spec => []CompletionIsExact` |
| | `PauseHoldsFindingsHolds` | `Spec => []PauseHoldsFindings` |
| `TemplateCache_proofs` | `CacheTypeCorrect` | `Spec => []TypeOK` |
| | `LoadsCompleteHolds` | `Spec => []LoadsComplete` |
| | `NotStaleHolds` | `Spec => []NotStale` |
| `Main_proofs` | `MainInvariance` | `Spec => []IInv` |
| | `MainTypeCorrect` | `Spec => []MainTypeOK` |
| | `SelectionHoldsThroughout` | `Spec => []SelectionHolds` |
| | `ReportsAgreeThroughout` | `Spec => []ReportsAgree` |

For `ClusterEngine`, from `ClusterAssumption` and `MaxErrorsAssumption`, any templates,
hosts, workers and answers.  That a cluster raises exactly what its answer calls for
needs to know where its worker is in it (`AheadInv`) and that no finding can come from
two clusters, which is what `ClustersPartition` is for: `RaisedInv` then says of the
cluster a worker evaluates that it has raised what is called for of the templates dealt
with.  `HeldInv`, `FateInv`, `ClosingInv` are as in `ScanEngine`; `QueueInv` has a
finding in one place; `LateInv` lets a worker be late with one finding only while it
holds none.  The refinement takes clusters for the tasks of `ScanPromise`.

For `TaskExec`, from `TaskAssumption` (what templates, steps and nodes are made of: the
operands of a node come before it, blocks are in the order of the protocols), any
templates and workflows, also ones that select themselves.  What may be below what on
the agenda is `NestedInv` (`Below`): a template is worked through by blocks or by a flow,
and below what works for a step lie the calls that will look at its result
(`Support`).  A check that was passed is at most one and on top, hence `LateInv`: what was
sent late and what may still be sent without another check come to no more than the check
allowed when Ctrl-C fell, and what blocks of flows sent that look at no flag.  `StopInv`:
once a block other than a javascript block has reported under the global flag, `spmStop` is
set and all that is left of the template are blocks, whose heads look at it.  `DueInv`: only steps are
called that the workflow begins with or that an
open gate of a step that ran leads to.  `HandInv`: unless cancelled, such a step has run
or its call is left, but for those whose gate has yet to be looked at; results change
only while the step's own gates are still to come.  The proof goes by actions; what
actions of a running template have in common is in one lemma (`Working`), what those of
the executor have in common in another (`ControlKeeps`).

What a flow means is proved from `FlowsAreTrees` as well: no node is an operand twice,
as a `FlowNode` owns its operands in boxes.  `Worth` and `Touched`, which say what an
expression is worth and which blocks it calls for, are recursive functions over its
nodes; that they satisfy their equations (`WorthEquation`, `TouchedEquation`) is shown
by the least node at which a solution would fail (`WFMin`; operands come before their
node), an induction rule being out of reach.  The expression at a node is the least set
closed under operands (`Under`), and with trees the expressions at two operands are
disjoint, so what one returns changes nothing of the other (`WorthIsLocal`).  `FlowInv`
adds to `IInv` what the agenda says of a flow under way: `FlowAt` goes down from the item
on top to the `verdict`, each item lying under the left operand of those below it and
being what that operand ends with (`Awaited`, `LastOf`); nothing under a right operand
that is still open has been called; and if an operator or the verdict is next, what it
waits for is done (`Done`).  A step of the flow then changes one node: a block returns,
a negation applies, or an operator goes to its right operand or skips it when the left
one decides.

For `UiBridge`, from `UiAssumption`, any capacities, templates, requests and pauses:
`PlaceInv` has every finding raised in one place, once (the engine's hand, the channel,
the forwarder's hand, or the stream), `CountInv` has `finding_count` ahead of the stream
by at most the finding about to be sent, `PhaseInv` ends the forwarder after the engine,
`CompleteInv` keeps what was true when completion was announced, and `PauseInv` counts a
finding past the check as let through.  `BoundInv` is what the types of the counters rest
on.

For `HttpClient`, from `HttpAssumption` (what requests and URLs are records of), any
workers, retries and bounds: a chain begins at the URL of its request (`ChainInv`),
which makes a hop that is allowed from the first URL allowed from the request; a
request that sends holds the client the pool has for its key (`HeldInv`); and the
jar of a client has exactly what was given under its key, no two keys sharing a
client (`JarInv`), which is why `client_for` must look into the pool and under the
whole key.  For `JsRuntime`, from `JsAssumption` (scripts are numbered from 1): a
script is on one thread and starts with no handles (`OneThread`), and the tables
and handles of a thread know only ids already given (`IdsBelow`), so a new object
meets no old handle and a script starting on a used thread reaches nothing left
there.  For `DnsClient`: after a readable answer in time the client
waits with something to receive.  For `Conversation`, from `ConversationAssumption`:
a read that goes on (`readAll`, `readToEnd`) is the last step of every block
(`Orderly`), so what the last read makes of the stream is a tail of all that was read
(`DataInv`), and all that was read is what was consumed, in order and, but in a
websocket, without a gap (`RawInv`).  For `Matching`, from `MatchingAssumption` (what
words, texts and matchers are made of; no word is empty), any words, texts and blocks:
the search goes on behind each match, so `Found` has a solution (`SearchEnds`, from the
end of the text to its beginning); a match ends where a word of the text ends
(`FoundStep`), and one is found as soon as there is one (`FoundIsPresent`).  `HttpSpec`, `JsSpec`,
`DnsSpec`, `TalkSpec` and `MatchSpec` are the parts of `Helpers!Spec` about them;
`Helpers` itself reaches recursive operators and can hold no theorem.

For `Interactsh`, from `InteractshAssumption`: a request enters the table only when
its URL has no early interaction, and a poll that leaves it there had none for it
(`TableInv`, which needs to know that markers are URLs, `NextInv`).  An
interaction is with the server, evaluated, or set aside, and counted once (`HitInv`).
The timing is proved for any interval, any cooldown that exceeds it (the code adds two
seconds) and any timeout: what calls take is `slow`, measured while the cooldown lasts.
`SoonInv`: while no poll has started since the last registration, the cooldown has lasted
no longer than what the interval and the calls under way account for (`Waited`: a poll that
was running when it began, or a keepalive with a poll behind it), so that a cooldown that
ends without a poll was filled by two calls.  For `FirstHitEvaluatedHolds` the poll must be over
as well: while no call failed, what came in time is with the server, which will be asked
before the cooldown is over (`AnswerDue`), or has been fetched, or the interval and two
calls filled the cooldown (`ArrivalInv`); and a URL that is registered waits until one of
its interactions is evaluated (`AnswerInv`, for which the first interaction of the URL in a
poll is the least of a set of numbers).  With the constants of the code this is so if
calls take less than 3.5 seconds for the first theorem, and less than one for the second.

For `TemplateCache`, from `CacheAssumption` (the constants have their types), with forced
updates, any sequences of paths and removals that fail half way: believable metadata lies
in a whole directory of a version that was the head when it was written or later, unless
the directory is `spoiled` (`DiskInv`); a removal that gets past the metadata, and a
directory found empty, end that.  From the removal of the old directory to the stamp of an
unspoiled one there is no metadata, so a run that is killed there leaves nothing a later one
believes; while a run extracts into an empty directory, each file is there exactly if it has
been reached (`ExtractInv`).  What a run has resolved and not removed since (`kept`) is
one path, that of the metadata, which is still believable when it loads; hence what it
loads there is whole.

For `Main`, from `MainAssumption`, any templates, targets, command lines, threshold and
receivers: what is loaded is what the checks of `load_single_template` let pass and no
later step touches a signature (`SelectInv`, `StageInv`).  The reports are compared with
`Taken`, the findings that have left the channel, so the channel has to be the end of
what was raised (`QueueInv`).  That the detector suppresses a finding exactly if its host
has matched enough different templates by then is `DetectInv`: of the findings that count (`Counts`), a
host that is not flagged
has the ids of all the templates that matched it, a flagged one has met the threshold.
From it follows which places of `Taken` are kept when a finding is received, and `LogInv`
has the finding at the i-th kept place at place i of the log.  `LinesInv` follows the
terminal and the JSONL file, which has all of the log while no line was lost
(`unwritten`) and some of it in order otherwise, `DeliverInv` says of receivers before the one that is awaited that
they may have the finding under way and of the others that they have not, and `EndInv`
that report files and exit code are made when the log is complete.  The assumption says
of a command line that it names an exporter once (`main` makes at most one of each kind)
and that its output goes to one of three paths: two the user may name and the default of
SARIF, so that reports may share a file or not.

Only model-checked: liveness (out of the prover's reach); `ExpressionsRead`, as the
parser and the evaluator call themselves and each other (recursive operators); and
`AttacksCover`, as the requests of a fuzzing block are folds with an operator as a
parameter, whose facts are inductions over the payloads.  Every other property of the
passing runs is stated by a theorem, as it stands in the run.

## 5. Not modelled

* Within modelled components: the rate of the limiter, a `println!` that panics on a closed
  terminal (`Main`), a finding of the poller that waits for room in the finding channel
  while the poller is stopped (`Interactsh`), the client that `client_for` falls back to where the
  pooled one cannot be built (`HttpClient`: building the fallback panics for the same reasons), payload iteration
  (`ScanEngine`, `TaskExec`); targets given twice, the interactsh poller in
  clustered scans (`ClusterEngine`); the encryption (`Interactsh`); the
  events of a second scan started during a session (`UiBridge`); two invocations at
  once, a clock that goes back, the syntax of URLs (`TemplateCache`); headers, proxies and TLS of
  `HttpClient`; records, certificates and pages that answers are formatted to; the
  values headless steps extract; the word `""`; regular expressions, XPath and the functions of
  the DSL; the formats of reports.
* Extractors and variables: text to text, single calls with unit tests of their own;
  `TaskExec` takes their result as a free choice.
* Interpreter, browser, sockets, TLS, ed25519 and YAML are external.

## 6. Plan

Done: the modules above, their runs, and the proofs of section 4.  What is left, in
the order of its worth:

1. What a clustered scan leaves out against one task per template (further paths,
   other protocols, flow): `ClusterEngine` over tasks of `TaskExec`.
2. The rate limiter: a token per task against requests per second.
