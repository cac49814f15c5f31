# kubedns-shepherd in TLA+

A verification project for kubedns-shepherd: a Kubernetes controller that
reconciles `DNSClass` objects and a webhook that writes their DNS settings into
pods. The modules model the controller, the admission of classes, the pod webhook
and the cache they share, the manager in its replicas, the installation of the
chart and the load generator of the DNS demo. TLC checks small instances; TLAPS
proves, for every instance, the safety properties of all of these, the parser of DNS
packets included, and that the controller implements what a class promises its users.
What remains to TLC alone is liveness.

## The system

| Part | State | Operations | Talks to |
|---|---|---|---|
| DNSClass API (`api/v1alpha1`) | spec and status of a class | `ExtractTemplateKeysRegex` | – |
| DNSClass webhooks (`internal/webhook/v1alpha1`) | none | `Default`, `validate` | called by the API server before a class is stored |
| Controller (`internal/controller`) | workqueue, backoff, locals of each `Reconcile` | `Reconcile`, discovery, `updateStatus`, `writeStatus`, the event predicate | reads the cache, asks kubelets through the API server, writes status |
| Pod webhook (`internal/webhook/pods`) | none | `Handle`, `getDNSClass`, `configureDNSForPod` | reads the cache, answers the API server |
| Manager (`cmd/main.go`) | the informer cache, how far the process has come, its place in the election | set-up, probes, webhooks, caches, election, exit | wires the others; the lease in the API server |
| Readiness job and class of the chart (`chart/templates/dnsclass`) | calls made, pods failed | a wait loop; then the class is applied | `/readyz` of the manager; its webhooks through the API server |
| Load generator (`docs/dns-demo/loadgen`) | a worker pool, two counters, a tracker of DNS messages | lookups, recording, the report; a parser of DNS packets | Go's resolver and its connections |

Hard behaviours: the controller and the webhook read a cache that lags behind
the store; a status is computed from one version of a class and written onto
another; writes meet conflicts and their errors are only logged; discovery
consists of two separate requests to kubelets that may differ, fail or change;
a failed call comes back after a backoff; restarts and broken watches lose and
merge events; pods are admitted, again with each update, in the middle of all
of it; a leader learns late that its lease ran out, and its successor starts from
another cache; probes are answered before the webhooks are; lookups share a
resolution, outlive their deadline and are still counted while the report is made.
`PROJECT.json` lists each hazard at its line.

What makes each part correct:

- controller: a ready status has what the webhook needs of it; a status never
  goes back to an older computation; nothing is forgotten; it converges;
- DNSClass webhooks: what they admit, controller and pod webhook can use;
- pod webhook: a pod is patched whole or not at all, patched the same way again,
  and never kept from being admitted for longer than a reconcile takes;
- manager: one controller at a time, and again and again one; where two overlap
  all the same, their writes still leave each class with its own status;
- chart: the installation ends;
- load generator: its report adds up and matches what was seen; it ends; its parser
  reads each packet as the format says, whatever follows or is missing.

## Modules

`DNSClassAPI` – values of a class and what admission does to a spec. A search
entry is the record of what its two readers see: the keys the regular expression
finds, the keys the template engine uses, and whether it parses. A list of
nameservers is a set; `{}` is a list sent empty, `Nil` one left out. Conditions
are kept by type and by the fields their message names, which is also what
decides whether a status write changes anything. Of `Policies`, `""` and `"Bogus"`
stand for what a user may write and admission fills in or refuses.

`DNSClassController` – the controller. How its state corresponds to the code:

| Variable | Code |
|---|---|
| `api`, `rv`, `watch` | the API server: stored objects, resource versions, watch events under way |
| `cache` | the manager's informer cache, behind both `r.Get` calls |
| `dirty`, `backoff` | the workqueue, and its rate-limited requeues |
| `w[c]` | the locals of the running `Reconcile` of class c; a queue never gives one key to two workers |
| `kubelet` | what `/configz` of each node would answer |
| `basis` | history: the object the stored status was computed from |
| `lost` | history: a status write or a wake-up that was dropped since the last reconcile began |
| `budget` | bounds of the exploration |

A `Reconcile` call is `StartReconcile` (read, lines 76-92), `DiscoverClusterDomain`
and `DiscoverNameservers` (one request each, lines 179-191; the second ends with
the check of lines 110-128 and `updateStatus`), then `GetForUpdate` and one of
`UpdateSucceeds`, `UpdateConflict`, `UpdateNotFound`, `UpdateFails` (lines 291-309,
`RetrySteps` attempts). `Return` is the end of the deferred function: an error of
`Reconcile` is queued again, an error of the status write is dropped. Details worth
knowing: the "initializing" state is computed but never stored; the fields of a
failed discovery are stored when the status already had a `DiscoveredFields`
object, which `discoverFields` writes into; a write that changes nothing makes
no new version; an answer lost after the write was stored equals success, since
both only log; `UpdateFails` covers an error of the Get of `writeStatus` as well.
`Enqueues` is the event predicate. The periodic resync of the informer is not an
action: both of its objects have one generation, so the predicate drops it.

`DNSClassControllerProps` – its properties, the inductive invariant `IInv`, and what a
class still owes in versions (`Owed`).
`DNSClassController_proofs` – their proofs. `MCDNSClassController` – small values.

`DNSClassLifecycle` – the abstract specification: what a user of a class may rely on,
without informers, queues, workers or resource versions. Users publish versions of
a class; each report on it is about a version that was really published, explained
by it, and never about an older one than the report before. `DNSClassRefinement`
adds one history variable to the controller, the versions ever stored, and a
mapping; `ImplementsLifecycle` is the abstract specification under it.
`MCDNSClassRefinement` puts the small values beside it.
`DNSClassRefinement_proofs` holds the proofs about histories of versions: which spec a
version has, why there is one, and the refinement.

`DNSClassReplicas` – two controllers on one API server: one is the controller of
`DNSClassController`, the other an instance of the same module with a watch, a
cache, a queue and workers of its own. Without `--leader-elect` both reconcile; with
it the peer is a standby whose informer fills a cache that wakes nobody, and
`TakeOver` starts its controller from whatever that cache holds. `Hears` gives each
replica the events of what the other stores. `MCDNSClassReplicas` holds small values,
`DNSClassReplicas_proofs` the proofs.

`PodMutator` – the pod webhook as a function of the pod and of the cached
classes. `getDNSClass` yields every class that may be first in the list, for the
cache lists in no fixed order. A pod is its namespace, policy, DNS config and
annotation. A nil `DiscoveredFields` makes `configureDNSForPod` panic; the
webhook server recovers and answers with an error, which is a refusal, not a
failed call that `failurePolicy=ignore` would forgive. Decoding, listing and marshalling
errors, and a webhook that cannot be reached, all leave the pod as it is.

`Shepherd` – controller and pod webhook together: pods are created and updated
while the controller runs, and the webhook reads the same `cache`. The API server's
part is external: policy None needs nameservers, and DNS settings of a pod are
immutable. `ShepherdProps` (properties), `Shepherd_proofs` (proofs) and
`MCShepherd` (small values) go with it.

`Manager` – the process in its replicas. `stage` is how far main has come: set-up
(lines 186-317), then what `mgr.Start` starts in turn: probes, webhooks, caches,
and the controller, at once or when elected. A step of main that fails, a kill and a
dead node are all `Crash`. Leader election is client-go's, used with the three
durations of the flags: a leader renews every `RetryPeriod` and exits when a renewal
did not succeed within `RenewDeadline`; a candidate takes a lease it saw unchanged
for `LeaseDuration`. Each clock counts from what its own process did or saw; time
moves in ticks, and not past a deadline the leader has to meet, so that a process
that is stopped and goes on later is not covered (client-go says the same of
itself). The lease is not given back at exit, since `LeaderElectionReleaseOnCancel` is
not set. `Manager_proofs` holds its theorems and those of `ChartInstall`.

`ChartInstall` – the manager's replicas with the chart around them: kubelet probes
and endpoints, the CA of the webhook configurations, the job's loop of calls and its
pods (`maxRetries`, `backoffLimit`), and the DNSClass that helm applies behind it.
It is checked as the composition, so its run has the manager's properties too.

`DNSMessage` – the load generator's parser, byte by byte: `decodeDNSName` as the
iteration of `NameStep` (128 steps at most in the code, 16 in the run, more than its packets have labels and enough for loops to run out), and `parseDNSMessage` on it. The packet
grows by a byte a step, so each packet is read cut off at each of its bytes.
`MCDNSMessage` gives the alphabet: headers, label bytes and pointers that lead back,
to themselves and into the header. `DNSMessage_proofs` holds the theorems.

`LoadGen` – main, its workers and their channel, the tracker under its mutex, and
the report. Go's resolver is external; of its ways those matter that lookups of one
name at one time share one resolution (singleflight), that a lookup which is given up
leaves its resolution running, that a truncated answer is asked for again over TCP,
and that over TCP length and body are read apart, so that the tracker counts no
response there. `LoadGenInv` is its inductive invariant. `MCLoadGen` holds its small
values, `LoadGen_proofs` the theorems, and `Folding_proofs` the facts about sums and folds
that these and the parser's need.

Operators whose comment begins with "Mutant" are plausible bugs, one per checked
property: with it in place of the definition it varies, the run finds the
property violated. No specification uses them.

## Runs

| Run | Question | Bounds |
|---|---|---|
| `ControllerSafety` | may a stored status mislead, go back, or be forgotten? is `IInv` an invariant? do users see a `DNSClassLifecycle`? | 1 class, 1 node; 3 edits, and one each of failed call, relist, restart, kubelet change, early retry |
| `ControllerConverges` | does a class left alone come to rest with its own status, beside another on the same worker? does each version have a cause, and is that inductive (`OwedIsProvoked`)? | 2 classes, 1 slot; 2 edits, one each of failed call, relist, restart, kubelet change, early retry |
| `ControllerStuck` | does a class reach ready when every node serves it? No. | 1 edit, no failed call |
| `ControllerRecreated` | is each new object validated? No. | 3 edits, 1 relist |
| `Replicas` | do two replicas, both active or one after the other, still leave each class usable, explained and not forgotten, and at rest? | 1 class, 2 edits, 1 failed call, 1 restart or takeover |
| `ChartInstalls` | one controller at a time? some controller again and again? does the installation end? | 2 replicas, durations 4/2/1, 2 crashes, 2 calls for each of 2 pods |
| `ChartTooEarly` | do the webhooks answer when the job says the API is ready? No. | as before |
| `ParserPackets` | names, loops of pointers, frames in pieces, bodies read alone | 6 headers followed by every string over 5 bytes, up to 20 bytes |
| `LoadGenReports` | does the report add up, with answers still coming in? is `LoadGenInv` an invariant? does the program end? | 2 workers, up to 3 queries, 2 names, 1 attempt |
| `ShepherdSafety` | whole pods, usable ready classes, refusals that have a cause and end, stable patches | 2 classes, 6 specs, 2 edits, 2 pod requests, 1 failed call, 1 kubelet change |
| `PodDenied` | is a missing cluster domain handled? No. | 1 class, 2 edits, 1 pod |
| `PodUpdateRefused` | are existing pods left alone? No. | 1 class, 2 pod requests |

Three edits are enough for create, change, change and for create, delete, create
with every disruption between; one relist is enough to merge them. `RetrySteps` is 2
(5 in client-go): one repeated conflict and one that exhausts the attempts. One
early retry is enough for a reconcile that starts from the status of before the
last. `MaxRV` is never reached in the liveness runs: retries that write nothing new
make no version. One node suffices for safety, where a change of it between
two fetches is what two nodes that differ would show (the theorems hold for any
number). It is more than a shortcut for liveness: with two nodes that differ for
good, each retry may meet the other one, and the status alternates with every
backoff; TLC shows that, and nothing in the code is against it. Two edits for two
classes are one each, or two of one while the other waits. In `LoadGenReports` a
server failure is left out: the resolver treats it as an answer that is lost, and
the tracker as any other response code. Deadlock is not checked where users stop
acting (edits used up, a system at rest is what should be) or a packet is complete.

Fairness: the informer delivers, backoffs end, a running call goes on (weak
fairness). `StartReconcile` has strong fairness: the workqueue is first in, first
out, so a class that waits while slots come free is reached. Users, kubelets,
faults, relists and restarts are not fair. A conflict or success is decided by
the versions, not by fairness. `Converges` excludes a class whose last status or
wake-up was dropped (`lost`), which the two violation runs show to be real.

`FairPairSpec` is the same for each replica that reconciles. `ManagerFairness`: clocks
run, kubelets restart containers, main goes from stage to stage, cert-manager writes
its secret; nothing makes a renewal succeed. `ChartFairness`: the job's pod runs
on and so does helm; nothing makes a probe or a call succeed. `LoadGen`: main, its
workers and the timers of lookups; nothing is asked of the network.

An early retry is bounded because the code's backoff (5 ms, doubled per failure up
to 1000 s) outgrows the delay of the watch. `VersionsAreProvoked` is the reason why
that is enough: versions of a class come from edits, from kubelets that change and
from such retries, and from nothing else, so two statuses cannot go on replacing each
other once retries wait longer than the watch.

## What the runs found

1. `ControllerStuck`: the status write's error is only logged
   (`dnsclass_controller.go:96`). After a retry that started from a lagging cache,
   its Ready status meets conflicts until the attempts are used up, `Reconcile`
   returns nil, and the class stays in error until it is edited.
2. `ControllerRecreated`: delete and create merged by a relist compare equal by
   generation (`dnsclass_controller.go:333`): the new class is never reconciled.
3. `PodDenied`: a ready class with policy ClusterFirst is changed to None; until
   it is reconciled, each pod it selects makes the handler dereference nil
   (`pods_webhook.go:145`) and is refused.
4. `PodUpdateRefused`: the webhook also patches updates (`pods_webhook.go:51`); a
   pod older than its class, or whose class changed, can no longer be updated.
5. `ChartTooEarly`: `/readyz` is a ping (`main.go:313`) and says nothing of the
   webhook server or the CA; the job's "API is ready to respond!" may be followed
   by a refusal of the chart's class.

What else modelling showed, without a run of its own:

- `nameservers: []` is not nil (`pods_webhook.go:172-178`): nothing is filled in and the
  API server refuses the pods. `InvalidIsAnEmptyList` says it is the only such way.
- `{{- .env }}` passes admission, whose regular expression knows no trim markers
  (`dnsclass_types.go:91`), and the webhook then fails for each pod. `ReadyConfigures`
  assumes requests whose templates both parsers read alike (`WellWritten`), and would
  be false without.
- Over TCP the load generator counts no response (`loadgen/main.go:260-266`).
  `SuccessesWereAnswered` is for UDP therefore, and `BodiesAreNoResponses`
  says that a body read without its length is not taken for something else.
- `StatusNeverRegresses` and `VersionsAreProvoked` do not hold for two replicas: the
  status of one may replace a newer one of the other. Nothing is forgotten all the same.

## Proofs

`DNSClassController_proofs` proves, for all constants that satisfy
`ConstantsAssumption` (types of requests and kubelet answers, `Nil` and the other
markers being no values, bounds being numbers), for any number of classes,
nodes and worker slots:

- `TypeCorrect`: `Spec => []TypeOK`;
- `ReadyIsUsable`, `StatesAreExplained`: `ReadyMeansUsable` and `StateIsExplained`.
  They need what a worker knows at each point of its call (`WorkerExplained`) and
  that no object on its way through store, watch and cache ever carries an
  "initializing" condition (`AllClean`);
- `NoRegress`: `StatusNeverRegresses`. It needs that versions grow along the way
  from the store through the watch to the cache (`InformerOrdered`), and that the
  stored status is no newer than the base of a running worker, and both no newer
  than what the informer has (`StatusOrdered`);
- `NoneForgotten`: `NothingForgotten`. It needs that the last event under way is
  what is stored (`TipIsStored`), and that somebody answers for each cached object
  (`NobodyForgotten`: a worker that read its spec, the queue, a backoff, or a Ready
  status of that spec);
- `Inductive`: all of it, `Spec => []IInv`.

Each proof has one step per action. Lemmas about operators come first, then what
a step may do to the store and the informer (`InformerSteps`) and to a worker
(`WorkerSteps`), so that the invariants about versions are proved over a handful of
cases.

`Shepherd_proofs` proves, under `PodAssumption` as well (pods are submitted without
the annotation, `Nil` is no pod, class, namespace, config or view of a class):

- `ControllerInside`: `ShepherdSpec => Spec`, every behaviour of the whole is one of
  the controller, so all of the above holds there too (`ControllerPromises`);
- `ShepherdTypeCorrect` and `WholePods`: `ShepherdSpec => []PodsAreWhole`. The
  invariant (`PodInv`) adds that a stored pod passes the API server's validation,
  which an accepted update needs: it leaves the DNS settings as they were.

- `ReadyConfigures` and `DenialsEnd`: `ReadyClassConfigures` (for requests that are
  `WellWritten`) and `DenialIsTransient`. A status that is computed from a version with the
  uid and generation of the cached one must have been computed from its spec:
  that is `GenerationsSuffice`;
- `InvalidIsEmpty`: `InvalidIsAnEmptyList`;
- `PatchesAreStable`: `PatchIsStable`. The invariant keeps of a patched pod the very config
  its class, as it was read then, gives to the pod's namespace (`ConfigFor`), so that a class
  which still looks the same (`SameView`) gives it again.

`DNSClassRefinement_proofs` proves `GenerationsSuffice`: whatever store, watch, cache and
workers hold belongs to one history of versions, in which resource versions go with uid
and generation (`OrderedIn`, `KnownIn`), so that a version has one spec. The history is
quantified over, so that the controller needs no variable for it.

It proves `HistoryIsKept` (what was stored is such a history)
and `Refines`: `HistorySpec => ImplementsLifecycle`. Initial states map to initial states;
an edit is a `Publish`, the write of a status a `Report` on the version its worker read, which
was stored (history), explains it (`IInv`) and is not older than the last (`NoRegress`'s
invariant); every other action maps to a stutter. `VersionsAssumption` says that `Nil` is no
version.

`DNSClassReplicas_proofs` proves of two replicas (`PairSpec`), under `ConstantsAssumption`:

- `PairReadyIsUsable`, `PairStatesAreExplained`: `ReadyMeansUsable` and
  `StateIsExplained` whoever of the two writes;
- `PairNoneForgotten`: `PairForgetsNothing`. The argument of `NoneForgotten` does not go
  over: a replica that did all it had to may see its status replaced. The invariant is
  that a class is settled (Ready, for the spec it has), or pending in a replica that
  reconciles: queued, to be retried, being reconciled for that spec, or not seen by its
  cache yet (`AnsweredByPair`). A write that unsettles a class leaves it pending at the
  writer, for its worker is current or called again (`WorkerCurrent`);
- `PairInductive`: all of it, `PairSpec => []PairIInv`.

`DNSClassController_proofs` ends with what these need of one controller's own steps without
its being the only one that writes (`OwnStepAnswers`, `GenerationsStayOrdered`). The peer is an
instance of the same module, so the lemmas hold of it (`PeerIsController`); and what one
replica stores reaches the informer of the other like a write of its own (`ThisIsHeard`,
`PeerIsHeard`).

`Manager_proofs` proves, under `ManagerAssumption`, for any number of replicas:
`ManagerTypeCorrect`; `LeaseIsLeaders`, the invariant: the leader holds the lease,
and no candidate saw it earlier than the leader wrote it last; and `OneAtATime` from it. The
assumption that matters is `RetryPeriod + RenewDeadline < LeaseDuration`. The defaults of
the flags (2 + 10 < 15, in seconds) satisfy it; client-go itself only asks for
`RenewDeadline < LeaseDuration`.

`ChartRunsReplicas` shows that the chart around them adds no step to the replicas,
`ChartSpec => ManagerSpec`, so that their theorems hold of an installation too;
`ChartTypeCorrect` is its own.

### Versions have causes

`DNSClassRefinement_proofs` also proves `OwedAreProvoked` and from it `VersionsProvoked`:
a class has no more versions than edits, changes of nodes and early retries account for.
That formula alone is not inductive, since what was accounted for may be written much
later. `OwedIsProvoked` adds to the versions what a class still owes: one if its running
call will write something else than is stored, one if a queued call may (not if it would
repeat the status that everybody sees), one for each event on the way that calls for
another status, and one if a restart would find something undone; but a restart and the
events ahead of it owe the same thing, so that these are not added but the larger is taken
(`Debt`). An edit, a change of a node or an early retry pays what it adds to this; every other
step, a failed call, a restart, a relist, a conflict or a write, adds nothing. The lemma behind
it is idempotence: a status computed from a spec and the answers of the nodes, computed again
from itself, does not change (`ComputedAgain`).

The hypothesis is `[]NodesAlike`: the nodes that are listed answer alike, though they may
change. With two that differ for good the formula is false (see the runs). With one node it
always holds (`OneNodeProvokes`).

### The load generator

`LoadGen_proofs` proves, for any numbers of workers, queries, names and attempts,
`LoadGenInvariant`, and from it `LoadGenTypes`, `ReportsAddUp`, `ResponsesAskedFor` and
`SuccessesAnswered`. The invariant has four parts:

- `MainInv`: how far main is says what it has; once there is a report nobody looks up, and
  the report has the present counts, while the tracker goes on;
- `FlightsInv`: who looks up waits for exactly one resolution; a shared one has not ended;
- `Expected`: for each name, the responses counted and the requests under way are together no
  more than the requests;
- `Covered`: successes, addresses that were found but not collected yet, and resolutions that
  went on to TCP are `Claims`. A resolution that goes to TCP counts for every worker, because any
  of them may still join it, and there the tracker sees no answer any more. Each answer without
  error pays for as many claims as there are workers.

The totals of the tracker are folds over names and response codes. `Folding_proofs` says
what such a fold is: the recursive function it stands for exists and there is only one,
which is shown by looking at a smallest set for which it might not be so, since the
library's induction theorems are out of the provers' reach. `SumIsNat`, `SumOfZeros` and
`SumGrows` follow; `AllNaturals` is induction on naturals put the same way.

### The parser

`DNSMessage_proofs` proves for packets of any length and any bytes:

- `FramesAreRead`, `BodiesAreNotCounted`: `FramesReadAsTheirMessages` and `BodiesAreNoResponses`;
- `LaterBytesAreIgnored`: `LaterBytesChangeNothing`. A walk that ended looked at no byte
  behind the packet, so the same walk is taken in a longer one, round by round;
- `NamesAreSolved`: `NamesSolveTheirEquations`, for packets of fewer bytes than there are
  rounds (`Len(packet) < NameSteps`, 128 in the code). Walks that meet at one place go on
  together and append the same labels (`GoTogether`), hence a name is its first label and the
  name behind it, a pointer the name it points to. But each of them has a round less than the
  name it is part of, so it must be shown that the last round is never needed: a walk that ends
  was nowhere twice (`NoReturn`), and there are fewer places than rounds (`EndsEarlier`, by
  the pigeonhole principle).

  The hypothesis is not an artefact. In a longer packet a chain of 128 labels or pointers is an
  error although what lies behind its first one is a name. RFC 1035 allows 255 bytes for a name, so
  that no name of labels alone comes to that; a chain of pointers may, and the bound of the code is
  there to refuse it.

### What is only model-checked

Liveness: `Converges`, `PairConverges`, `FailsOver`, `ReleaseEnds` and `AlwaysExits`. They
need fairness, and so ENABLED, which is out of the prover's reach. Every other property
that a passing run checks is stated by a theorem, for all values of the constants.

## Not modelled, and why

- A status write that is still on the wire when its process dies, in the single
  controller; in `DNSClassReplicas` without leader election the peer's writes are just that.
  A list served from an old API-server cache would need the API server split from its storage.
- A process that is stopped for longer than a lease and then goes on: client-go does
  not fence against it either. What two controllers then do is the first case of `Replicas`.
- `ENABLE_WEBHOOKS=false`, for development without webhooks.
- Kubernetes events, logs, metrics, TLS and the values of flags: configuration, on which no
  property depends. A step of main that fails ends the process, whatever failed.
- Pod DNS options, owner references and the wording of messages.
- Durations and rates in the load generator's report.
- Generated deep copies and the registration of types: values in the models are immutable.

## Plan

Done: all components the source names, the abstract specification of a class and the
refinement, two replicas, the chart's installation, the load generator and its parser, and
proofs of every safety property the runs check. Next:

1. Two replicas seen by users: which part of `DNSClassLifecycle` still holds when each may
   replace the other's status by an older one, as an abstract specification that both
   `PairSpec` and the lifecycle imply, with its refinement.
2. The steps of a leads-to argument for `Converges` that need no ENABLED: that each fair step
   of a class left alone lowers what it still has to do, and that no other step raises it.
3. An abstract specification of the tracker (a request is answered at most once), implemented
   by `LoadGen`.
