------------------------- MODULE DNSClassController -------------------------
(***************************************************************************)
(* The DNSClass controller: one manager process, its informer cache, its   *)
(* workqueue and its reconcile workers, against the API server that stores *)
(* the classes and the kubelets that are asked for their DNS settings.     *)
(*                                                                         *)
(* What makes it hard: Reconcile reads from a cache that lags behind the   *)
(* API server, asks kubelets, and only then writes the status it computed  *)
(* onto whatever object the cache holds by then.  A write whose resource   *)
(* version is out of date is refused and tried again a bounded number of   *)
(* times; the error of the write itself is logged and dropped.             *)
(*                                                                         *)
(* Names of one class never interact: the workqueue never gives one key to *)
(* two workers.  Worker slots are what the classes share.                  *)
(***************************************************************************)
EXTENDS DNSClassAPI, Integers, Sequences, FiniteSets

CONSTANTS Classes,      \* names of DNSClass objects (the scope is Cluster)
          Requests,     \* the specs users submit
          Nodes,        \* names of nodes
          NodeConfigs,  \* what /configz of a node may answer, see KubeletConfig
          Gone,         \* kubelet[n] = Gone: node n is not in the node list
          Unreachable,  \* kubelet[n] = Unreachable: no usable answer from n
          MaxConcurrentReconciles,  \* --max-concurrent-reconciles-for-dnsclass-reconciler
          RetrySteps    \* attempts of retry.DefaultRetry (5 in client-go)

\* Bounds of the exploration: how often the environment may act; how many
\* backoffs may end early, before the class is at rest and the cache has seen
\* its last write (the backoff doubles with each failure up to 1000 s, so it
\* outgrows a reconcile and the delay of the watch); and how far the resource
\* version of a class may grow before retries stop.
CONSTANTS MaxEdits, MaxFaults, MaxRelists, MaxRestarts, MaxKubeletChanges,
          MaxEarlyRetries, MaxRV

\* The kubeletconfig object of a usable answer; Nil is a field that is missing.
\* "nameservers" is its clusterDNS, by the name discoverFields stores it under.
KubeletConfig == [clusterDomain : Domains \cup {Nil}, nameservers : NSLists \cup {Nil}]

VARIABLES
    api,      \* the stored object of each class, Nil when there is none
    rv,       \* the last resource version of each class; deletion keeps it
    watch,    \* watch events on their way to the informer: objects, Nil = deleted
    cache,    \* the informer cache of the manager
    dirty,    \* the class is in the workqueue (or to be queued when Done)
    backoff,  \* a rate-limited requeue of the class is pending
    w,        \* the worker that reconciles the class, Nil when there is none
    kubelet,  \* what each node would answer
    budget,   \* what is left of the bounds of the exploration
    basis,    \* history: the object the stored status was computed from
    lost      \* history: what was dropped, without anyone being told, since
              \* the last reconcile of the class began: a "status" or an "event"

vars == <<api, rv, watch, cache, dirty, backoff, w, kubelet, budget, basis, lost>>

-----------------------------------------------------------------------------
\* A stored object.  uid is the resource version of its creation.
Objects == [uid : Nat, gen : Nat, rv : Nat, spec : DNSClassSpec, status : DNSClassStatus]

\* What a status was computed from: the object Reconcile read.
Bases == [uid : Nat, gen : Nat, rv : Nat, spec : DNSClassSpec]

BasisOf(obj) == [uid |-> obj.uid, gen |-> obj.gen, rv |-> obj.rv, spec |-> obj.spec]

\* The local state of one Reconcile call, by the call it is about to make:
\* the two configz fetches of discoverFields, then the Get and the
\* Status().Update of writeStatus.
Workers == [pc           : {"clusterDomain", "nameservers", "get", "update"},
            basis        : Bases,            \* the dnsclass read at the start
            status       : DNSClassStatus,   \* dnsclass.Status
            fields       : DiscoveredFields, \* *discoveredFields
            undiscovered : SUBSET FieldNames,
            failed       : BOOLEAN,          \* err # nil
            attempts     : Nat,              \* conflicts met by writeStatus
            dcrv         : Nat]              \* dc.ResourceVersion in writeStatus

Budgets == [edits : Nat, faults : Nat, relists : Nat, restarts : Nat, kubelet : Nat,
            early : Nat]

ASSUME ConstantsAssumption ==
    /\ Requests \subseteq DNSClassSpec
    /\ NodeConfigs \subseteq KubeletConfig \cup {Gone, Unreachable}
    /\ Gone \notin KubeletConfig /\ Unreachable \notin KubeletConfig
    /\ Nil \notin Domains /\ (\A m \in SUBSET FieldNames : m # Nil)
    /\ Nil \notin DiscoveredFields /\ Nil \notin Objects /\ Nil \notin Bases /\ Nil \notin Workers
    /\ MaxConcurrentReconciles \in Nat \ {0} /\ RetrySteps \in Nat \ {0}
    /\ {MaxEdits, MaxFaults, MaxRelists, MaxRestarts, MaxKubeletChanges,
        MaxEarlyRetries, MaxRV} \subseteq Nat

TypeOK ==
    /\ api \in [Classes -> Objects \cup {Nil}]
    /\ rv \in [Classes -> Nat]
    /\ watch \in [Classes -> Seq(Objects \cup {Nil})]
    /\ cache \in [Classes -> Objects \cup {Nil}]
    /\ dirty \in [Classes -> BOOLEAN]
    /\ backoff \in [Classes -> BOOLEAN]
    /\ w \in [Classes -> Workers \cup {Nil}]
    /\ kubelet \in [Nodes -> NodeConfigs]
    /\ budget \in Budgets
    /\ basis \in [Classes -> Bases \cup {Nil}]
    /\ lost \in [Classes -> SUBSET {"status", "event"}]

\* The manager starts with no class in the cluster.
Init ==
    /\ api = [c \in Classes |-> Nil]
    /\ rv = [c \in Classes |-> 0]
    /\ watch = [c \in Classes |-> <<>>]
    /\ cache = [c \in Classes |-> Nil]
    /\ dirty = [c \in Classes |-> FALSE]
    /\ backoff = [c \in Classes |-> FALSE]
    /\ w = [c \in Classes |-> Nil]
    /\ kubelet \in [Nodes -> NodeConfigs]
    /\ budget = [edits |-> MaxEdits, faults |-> MaxFaults, relists |-> MaxRelists,
                 restarts |-> MaxRestarts, kubelet |-> MaxKubeletChanges,
                 early |-> MaxEarlyRetries]
    /\ basis = [c \in Classes |-> Nil]
    /\ lost = [c \in Classes |-> {}]

-----------------------------------------------------------------------------
(* The API server, as its users drive it. *)

Spend(what) == budget[what] > 0 /\ budget' = [budget EXCEPT ![what] = @ - 1]

\* The API server stores obj (Nil: deletes) under the next resource version.
Store(c, obj) ==
    /\ api' = [api EXCEPT ![c] = obj]
    /\ rv' = [rv EXCEPT ![c] = @ + 1]
    /\ watch' = [watch EXCEPT ![c] = Append(@, obj)]

CreateClass(c) ==
    /\ api[c] = Nil /\ Spend("edits")
    /\ \E request \in Requests :
         /\ Admitted(request)
         /\ Store(c, [uid |-> rv[c] + 1, gen |-> 1, rv |-> rv[c] + 1,
                      spec |-> Default(request), status |-> NoStatus])
    /\ basis' = [basis EXCEPT ![c] = Nil]
    /\ UNCHANGED <<cache, dirty, backoff, w, kubelet, lost>>

\* An edit that leaves the spec alone (a label) does not change the generation.
UpdateClass(c) ==
    /\ api[c] # Nil /\ Spend("edits")
    /\ \E request \in Requests :
         /\ Admitted(request)
         /\ Store(c, [api[c] EXCEPT !.spec = Default(request), !.rv = rv[c] + 1,
                                    !.gen = IF Default(request) = api[c].spec THEN @ ELSE @ + 1])
    /\ UNCHANGED <<cache, dirty, backoff, w, kubelet, basis, lost>>

DeleteClass(c) ==
    /\ api[c] # Nil /\ Spend("edits")
    /\ Store(c, Nil)
    /\ basis' = [basis EXCEPT ![c] = Nil]
    /\ UNCHANGED <<cache, dirty, backoff, w, kubelet, lost>>

\* A node joins, leaves, stops answering, or its kubelet is reconfigured.
ChangeKubelet(n) ==
    /\ Spend("kubelet")
    /\ \E config \in NodeConfigs \ {kubelet[n]} : kubelet' = [kubelet EXCEPT ![n] = config]
    /\ UNCHANGED <<api, rv, watch, cache, dirty, backoff, w, basis, lost>>

-----------------------------------------------------------------------------
(* The informer: events reach the cache, and through dnsClassPredicate the *)
(* workqueue.                                                              *)

\* Mutant: updates are filtered like deletions.
EnqueuesCreateOnly(old, new) == old = Nil /\ new # Nil

\* Mutant: every update counts, the controller's own writes included.
EnqueuesEveryUpdate(old, new) == new # Nil /\ new # old

\* dnsClassPredicate on the event that replaces old by new in the cache.
Enqueues(old, new) ==
    \/ old = Nil /\ new # Nil                            \* Create: always
    \/ old # Nil /\ new # Nil /\ new.gen # old.gen       \* Update: generation
                                                         \* Delete: never
\* The event replaces a deleted class by a new one of its name, and no worker
\* hears of it: the informer saw one update, and both generations are equal.
Conceals(old, new) ==
    old # Nil /\ new # Nil /\ old.uid # new.uid /\ ~Enqueues(old, new)

\* Mutant: the newest event overtakes the others.
DeliverNewest(c) ==
    /\ watch[c] # <<>>
    /\ LET last == Len(watch[c])
           new  == watch[c][last]
       IN /\ dirty' = [dirty EXCEPT ![c] = @ \/ Enqueues(cache[c], new)]
          /\ lost' = [lost EXCEPT ![c] = IF Conceals(cache[c], new) THEN @ \cup {"event"} ELSE @]
          /\ cache' = [cache EXCEPT ![c] = new]
          /\ watch' = [watch EXCEPT ![c] = SubSeq(@, 1, last - 1)]
    /\ UNCHANGED <<api, rv, backoff, w, kubelet, budget, basis>>

Deliver(c) ==
    /\ watch[c] # <<>>
    /\ LET new == Head(watch[c])
       IN /\ dirty' = [dirty EXCEPT ![c] = @ \/ Enqueues(cache[c], new)]
          /\ lost' = [lost EXCEPT ![c] = IF Conceals(cache[c], new) THEN @ \cup {"event"} ELSE @]
          /\ cache' = [cache EXCEPT ![c] = new]
    /\ watch' = [watch EXCEPT ![c] = Tail(@)]
    /\ UNCHANGED <<api, rv, backoff, w, kubelet, budget, basis>>

\* The watch breaks and the reflector lists again: of the events it has not
\* seen only the outcome reaches the cache.
Relist ==
    /\ Spend("relists")
    /\ watch' = [c \in Classes |-> IF watch[c] = <<>> THEN <<>> ELSE <<api[c]>>]
    /\ UNCHANGED <<api, rv, cache, dirty, backoff, w, kubelet, basis, lost>>

\* The manager dies and starts again: calls in progress, queue and backoff are
\* gone; the new cache starts from a list, and each listed class is a Create
\* event.
Restart ==
    /\ Spend("restarts")
    /\ cache' = api
    /\ watch' = [c \in Classes |-> <<>>]
    /\ dirty' = [c \in Classes |-> api[c] # Nil]
    /\ backoff' = [c \in Classes |-> FALSE]
    /\ w' = [c \in Classes |-> Nil]
    /\ lost' = [c \in Classes |-> {}]
    /\ UNCHANGED <<api, rv, kubelet, basis>>

-----------------------------------------------------------------------------
(* Reconcile.  A call returns through its deferred updateStatus.            *)

Active == {c \in Classes : w[c] # Nil}

\* Mutant: an error does not set the state.
updateStatusKeepsState(status, failed, message) ==
    [status EXCEPT !.conditions[IF failed THEN StateError
                                ELSE IF status.state = StateReady THEN StateReady ELSE StateInit] = message]

\* updateStatus: the state and the condition the status gets.
updateStatus(status, failed, message) ==
    LET state == IF failed THEN StateError ELSE status.state
        type  == IF state \in {StateError, StateReady} THEN state ELSE StateInit
    IN [status EXCEPT !.state = state, !.conditions[type] = message]

\* Mutant: the state is spelled like its message, "Ready".
ReadyStatusMessage(status, discovered) ==
    [updateStatus([status EXCEPT !.state = StateReady, !.discovered = discovered], FALSE, {})
       EXCEPT !.state = "Ready"]

\* The status of a call that found nothing missing; updateStatus included.
ReadyStatus(status, discovered) ==
    updateStatus([status EXCEPT !.state = StateReady, !.discovered = discovered], FALSE, {})

\* The worker of a call that has just read obj.
Started(obj) ==
    LET none == obj.spec.dnsPolicy = "None"
        read == [obj.status EXCEPT !.state = IF @ = "" THEN StateInit ELSE @]
    IN [pc |-> IF none THEN "clusterDomain" ELSE "get",
        basis |-> BasisOf(obj),
        status |-> IF none THEN read ELSE ReadyStatus(read, read.discovered),
        fields |-> IF read.discovered = Nil THEN NoFields ELSE read.discovered,
        undiscovered |-> {}, failed |-> FALSE, attempts |-> 0, dcrv |-> 0]

\* A worker takes the class off the queue and reads it from the cache.
StartReconcile(c) ==
    /\ dirty[c] /\ w[c] = Nil /\ Cardinality(Active) < MaxConcurrentReconciles
    /\ dirty' = [dirty EXCEPT ![c] = FALSE]
    /\ w' = [w EXCEPT ![c] = IF cache[c] = Nil THEN Nil ELSE Started(cache[c])]
    /\ lost' = [lost EXCEPT ![c] = {}]
    /\ UNCHANGED <<api, rv, watch, cache, backoff, kubelet, budget, basis>>

\* The read fails: the error is returned, and the class is queued again later.
GetFails(c) ==
    /\ dirty[c] /\ w[c] = Nil /\ Cardinality(Active) < MaxConcurrentReconciles
    /\ Spend("faults")
    /\ dirty' = [dirty EXCEPT ![c] = FALSE]
    /\ backoff' = [backoff EXCEPT ![c] = TRUE]
    /\ UNCHANGED <<api, rv, watch, cache, w, kubelet, basis, lost>>

\* The backoff of a failed call ends: early, or when the class is at rest.
RetryFires(c) ==
    /\ backoff[c] /\ rv[c] < MaxRV
    /\ IF watch[c] = <<>> /\ ~dirty[c] /\ w[c] = Nil THEN UNCHANGED budget ELSE Spend("early")
    /\ backoff' = [backoff EXCEPT ![c] = FALSE]
    /\ dirty' = [dirty EXCEPT ![c] = TRUE]
    /\ UNCHANGED <<api, rv, watch, cache, w, kubelet, basis, lost>>

-----------------------------------------------------------------------------
(* discoverFields: each field is fetched by a call of its own.             *)

\* fetchNodeProxyConfigz asks the first node of a list in no fixed order; of
\* its answer extractField takes one field.  Nil is every way of failing.
Fetched(field) ==
    LET listed == {n \in Nodes : kubelet[n] # Gone}
    IN IF listed = {} THEN {Nil}
       ELSE {IF kubelet[n] = Unreachable THEN Nil ELSE kubelet[n][field] : n \in listed}

\* The worker after its fetch of field returned value.
AfterFetch(wk, field, value) ==
    IF value = Nil THEN [wk EXCEPT !.undiscovered = @ \cup {field}]
                   ELSE [wk EXCEPT !.fields[field] = value]

\* Mutant: a missing field fails no call.
AfterDiscoveryUnchecked(wk) ==
    [wk EXCEPT !.pc = "get", !.status = ReadyStatus(wk.status, wk.fields)]

\* Mutant: a call waits in its worker until the fields it needs are there.
AfterDiscoveryWaits(wk) ==
    IF ExtractTemplateKeysRegex(wk.basis.spec) \cap wk.undiscovered # {}
      THEN [wk EXCEPT !.pc = "clusterDomain", !.undiscovered = {}]
      ELSE [wk EXCEPT !.pc = "get", !.status = ReadyStatus(wk.status, wk.fields)]

\* The worker after discoverFields returned: a missing key the spec names
\* fails the call.  Then the fields are still stored when status already had
\* a DiscoveredFields object, since discoverFields wrote into that object.
AfterDiscovery(wk) ==
    LET failed == ExtractTemplateKeysRegex(wk.basis.spec) \cap wk.undiscovered # {}
        shared == wk.status.discovered # Nil
        kept   == [wk.status EXCEPT !.discovered = IF shared THEN wk.fields ELSE Nil]
    IN [wk EXCEPT !.pc = "get", !.failed = failed,
                  !.status = IF failed THEN updateStatus(kept, TRUE, wk.undiscovered)
                                       ELSE ReadyStatus(wk.status, wk.fields)]

DiscoverClusterDomain(c) ==
    /\ w[c] # Nil /\ w[c].pc = "clusterDomain"
    /\ \E value \in Fetched("clusterDomain") :
         w' = [w EXCEPT ![c] = [AfterFetch(w[c], "clusterDomain", value) EXCEPT !.pc = "nameservers"]]
    /\ UNCHANGED <<api, rv, watch, cache, dirty, backoff, kubelet, budget, basis, lost>>

DiscoverNameservers(c) ==
    /\ w[c] # Nil /\ w[c].pc = "nameservers"
    /\ \E value \in Fetched("nameservers") :
         w' = [w EXCEPT ![c] = AfterDiscovery(AfterFetch(w[c], "nameservers", value))]
    /\ UNCHANGED <<api, rv, watch, cache, dirty, backoff, kubelet, budget, basis, lost>>

-----------------------------------------------------------------------------
(* writeStatus, under RetryOnConflict.                                     *)

\* Mutant: Reconcile returns nil for its error too.
ReturnNil(c, dropped) ==
    /\ w' = [w EXCEPT ![c] = Nil]
    /\ lost' = [lost EXCEPT ![c] = IF dropped THEN @ \cup {"status"} ELSE @]
    /\ UNCHANGED backoff

\* Reconcile returns; a call that failed is queued again after its backoff.
\* An error of writeStatus is not returned: dropped says there was one.
Return(c, dropped) ==
    /\ w' = [w EXCEPT ![c] = Nil]
    /\ backoff' = [backoff EXCEPT ![c] = @ \/ w[c].failed]
    /\ lost' = [lost EXCEPT ![c] = IF dropped THEN @ \cup {"status"} ELSE @]

\* The Get of writeStatus reads the cache too.
GetForUpdate(c) ==
    /\ w[c] # Nil /\ w[c].pc = "get"
    /\ \/ cache[c] = Nil /\ Return(c, FALSE)
       \/ /\ cache[c] # Nil
          /\ w' = [w EXCEPT ![c].pc = "update", ![c].dcrv = cache[c].rv]
          /\ UNCHANGED <<backoff, lost>>
    /\ UNCHANGED <<api, rv, watch, cache, dirty, kubelet, budget, basis>>

\* The class is gone: NotFound is no error of writeStatus.
UpdateNotFound(c) ==
    /\ w[c] # Nil /\ w[c].pc = "update" /\ api[c] = Nil
    /\ Return(c, FALSE)
    /\ UNCHANGED <<api, rv, watch, cache, dirty, kubelet, budget, basis>>

\* The object was written since: try again, or give up and drop the conflict.
UpdateConflict(c) ==
    /\ w[c] # Nil /\ w[c].pc = "update" /\ api[c] # Nil /\ api[c].rv # w[c].dcrv
    /\ IF w[c].attempts + 1 < RetrySteps
         THEN /\ w' = [w EXCEPT ![c].pc = "get", ![c].attempts = @ + 1]
              /\ UNCHANGED <<backoff, lost>>
         ELSE Return(c, TRUE)
    /\ UNCHANGED <<api, rv, watch, cache, dirty, kubelet, budget, basis>>

\* The status is stored, whatever spec the object has by now.  A write that
\* changes nothing makes no new version.
UpdateSucceeds(c) ==
    /\ w[c] # Nil /\ w[c].pc = "update" /\ api[c] # Nil /\ api[c].rv = w[c].dcrv
    /\ IF api[c].status = w[c].status
         THEN UNCHANGED <<api, rv, watch>>
         ELSE Store(c, [api[c] EXCEPT !.status = w[c].status, !.rv = rv[c] + 1])
    /\ basis' = [basis EXCEPT ![c] = w[c].basis]
    /\ Return(c, FALSE)
    /\ UNCHANGED <<cache, dirty, kubelet, budget>>

\* The API server refuses or does not answer: the error is dropped.
UpdateFails(c) ==
    /\ w[c] # Nil /\ w[c].pc = "update"
    /\ Spend("faults")
    /\ Return(c, TRUE)
    /\ UNCHANGED <<api, rv, watch, cache, dirty, kubelet, basis>>

-----------------------------------------------------------------------------
Step(c) ==
    \/ StartReconcile(c)
    \/ DiscoverClusterDomain(c)
    \/ DiscoverNameservers(c)
    \/ GetForUpdate(c)
    \/ UpdateNotFound(c)
    \/ UpdateConflict(c)
    \/ UpdateSucceeds(c)

Next ==
    \/ \E c \in Classes :
         \/ CreateClass(c) \/ UpdateClass(c) \/ DeleteClass(c)
         \/ Deliver(c) \/ RetryFires(c) \/ GetFails(c) \/ UpdateFails(c)
         \/ Step(c)
    \/ \E n \in Nodes : ChangeKubelet(n)
    \/ Relist
    \/ Restart

Spec == Init /\ [][Next]_vars

\* The informer delivers, timers fire, and a worker that runs goes on.  The
\* queue is first-in first-out, so a class that keeps coming up while worker
\* slots keep coming free is started: strong fairness for StartReconcile.
Fairness ==
    \A c \in Classes :
      /\ WF_vars(Deliver(c))
      /\ WF_vars(RetryFires(c))
      /\ SF_vars(StartReconcile(c))
      /\ WF_vars(DiscoverClusterDomain(c))
      /\ WF_vars(DiscoverNameservers(c))
      /\ WF_vars(GetForUpdate(c))
      /\ WF_vars(UpdateNotFound(c) \/ UpdateConflict(c) \/ UpdateSucceeds(c))

FairSpec == Spec /\ Fairness
=============================================================================
