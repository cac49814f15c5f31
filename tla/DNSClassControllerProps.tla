---------------------- MODULE DNSClassControllerProps ----------------------
(***************************************************************************)
(* What the DNSClass controller promises about the status it writes.       *)
(***************************************************************************)
EXTENDS DNSClassController

\* The stored status was computed from the spec that is stored now.
Current(c) ==
    /\ basis[c] # Nil
    /\ basis[c].uid = api[c].uid /\ basis[c].gen = api[c].gen

\* Nothing is under way that could still look at the class.
Quiet(c) == watch[c] = <<>> /\ ~dirty[c] /\ ~backoff[c] /\ w[c] = Nil

-----------------------------------------------------------------------------
\* Reconcile, dnsclass_controller.go:101-126.  A ready status carries what the
\* spec it was computed from needs: a DiscoveredFields object, and the cluster
\* domain when a search names it, kept from an earlier call or found by this.
ReadyMeansUsable ==
    \A c \in Classes :
      api[c] # Nil /\ api[c].status.state = StateReady =>
         basis[c] # Nil /\ Supports(api[c].status, basis[c].spec)

\* Reconcile and updateStatus, dnsclass_controller.go:89-92, 110-116, 252-289.
\* A stored status is never "initializing"; the state's own condition is there;
\* an error names a field that a template of the spec it was computed from
\* needs, and a spec whose policy is not None never gets one.
StateIsExplained ==
    \A c \in Classes :
      api[c] # Nil =>
        LET status == api[c].status
        IN /\ status.state # StateInit /\ status.conditions[StateInit] = Nil
           /\ status.state = "" => status = NoStatus
           /\ status.state # "" => basis[c] # Nil /\ status.conditions[status.state] # Nil
           /\ status.state = StateError =>
                /\ basis[c].spec.dnsPolicy = "None"
                /\ ExtractTemplateKeysRegex(basis[c].spec) \cap status.conditions[StateError] # {}

\* dnsClassPredicate, Reconcile and the workqueue together,
\* dnsclass_controller.go:72-132, 326-339.  When nothing is left to do for a
\* class that exists, its status is Ready and was computed from the spec it has
\* now, unless a status or a wake-up was dropped since its last reconcile began.
NothingForgotten ==
    \A c \in Classes :
      api[c] # Nil /\ Quiet(c) /\ lost[c] = {} => Current(c) /\ api[c].status.state = StateReady

\* writeStatus, dnsclass_controller.go:291-309.  The worker writes what it
\* computed earlier onto the object it reads now; still the status of a class that
\* exists never goes back to one computed from an older version than the last.
StatusNeverRegresses ==
    [][\A c \in Classes :
         basis[c] # Nil /\ basis'[c] # Nil => basis'[c].rv >= basis[c].rv]_vars

\* The versions a class may have after what users, nodes and early retries did.
Provocations ==
    2 * (MaxEdits - budget.edits) + 2 * (MaxKubeletChanges - budget.kubelet)
      + (MaxEarlyRetries - budget.early)

\* dnsClassPredicate, writeStatus and RetryFires, dnsclass_controller.go:291-334.
\* A controller that reads a cache behind its own last write may compute the
\* status before last from it, and write that.  The two do not go on replacing
\* each other: every version of a class has a cause, and retries of a class at
\* rest, restarts, relists and refused calls are none.  An edit makes one
\* version and one status; a change of a kubelet, which two fetches may see on
\* either side, two statuses; a retry that overtakes the watch, one.  (For
\* nodes that answer alike; else each retry may meet another node.)
VersionsAreProvoked == \A c \in Classes : rv[c] <= Provocations

-----------------------------------------------------------------------------
\* The class waits for something only the cluster can give: it is in error, for
\* the spec it has now, and some node would still not answer what it needs.
Undiscoverable(c) ==
    /\ api[c].status.state = StateError
    /\ Nil \in Fetched("clusterDomain")

\* The whole retry loop: queue, rate-limited requeue and status write.  Once
\* users and nodes leave it alone, every class comes to rest with a status for
\* the spec it has, Ready or an error that is true, unless its last status or
\* wake-up was dropped.
Converges ==
    \A c \in Classes :
      <>[](api[c] # Nil /\ lost[c] = {} =>
              Current(c) /\ (api[c].status.state = StateReady \/ Undiscoverable(c)))

\* dnsclass_controller_test.go:136, "Continuously check that the DNSClass
\* reaches 'Ready' state": a class whose fields every node serves gets there.
\* The API server refuses nothing in the run that checks it (MaxFaults = 0).
ReachesReady ==
    \A c \in Classes :
      (<>[](\A f \in FieldNames : Nil \notin Fetched(f)))
         => <>[](api[c] # Nil => api[c].status.state = StateReady)

\* dnsclass_controller.go:332, "If resources updated, we need to validate for
\* DNS Configuration": a class all of whose statuses were stored is not left at
\* rest with a status that was computed for another object, or with none.
UpdatesAreValidated ==
    \A c \in Classes : api[c] # Nil /\ Quiet(c) /\ "status" \notin lost[c] => Current(c)

-----------------------------------------------------------------------------
(* The inductive invariant behind the safety properties.                   *)

CleanObjects == {o \in Objects : Clean(o.status)}

\* Every object a worker may read, now or later, is clean.
AllClean ==
    /\ api \in [Classes -> CleanObjects \cup {Nil}]
    /\ cache \in [Classes -> CleanObjects \cup {Nil}]
    /\ watch \in [Classes -> Seq(CleanObjects \cup {Nil})]

\* What a worker knows at each point of its call.
WorkerExplained(wk) ==
    /\ Clean(wk.status)
    /\ wk.pc \in {"clusterDomain", "nameservers"} => wk.basis.spec.dnsPolicy = "None"
    /\ wk.pc = "nameservers" => "clusterDomain" \in wk.undiscovered \/ wk.fields.clusterDomain # Nil
    /\ wk.pc \in {"get", "update"} =>
         /\ Explained(wk.status, wk.basis)
         /\ wk.status.state = (IF wk.failed THEN StateError ELSE StateReady)

AllExplained ==
    \A c \in Classes :
      /\ w[c] # Nil => WorkerExplained(w[c])
      /\ api[c] # Nil =>
           /\ Explained(api[c].status, basis[c])
           /\ api[c].status.state # "" => basis[c] # Nil

\* Version n of class c is no newer than what the informer has and will have.
Floor(c, n) ==
    /\ n <= rv[c]
    /\ cache[c] # Nil => n <= cache[c].rv
    /\ \A i \in DOMAIN watch[c] : watch[c][i] # Nil => n <= watch[c][i].rv

\* Versions only grow along the way of an object from the store to the cache.
InformerOrdered(c) ==
    /\ api[c] # Nil => api[c].uid <= rv[c] /\ api[c].rv = rv[c]
    /\ cache[c] # Nil => cache[c].uid <= rv[c] /\ Floor(c, cache[c].rv)
    /\ \A i \in DOMAIN watch[c] :
         watch[c][i] # Nil => watch[c][i].uid <= rv[c] /\ watch[c][i].rv <= rv[c]
    /\ \A i, j \in DOMAIN watch[c] :
         i < j /\ watch[c][i] # Nil /\ watch[c][j] # Nil => watch[c][i].rv <= watch[c][j].rv

\* The stored status comes from a version no newer than the running worker's,
\* and both from versions no newer than the informer's.
StatusOrdered(c) ==
    /\ w[c] # Nil => Floor(c, w[c].basis.rv)
    /\ basis[c] # Nil => Floor(c, basis[c].rv)
    /\ basis[c] # Nil /\ w[c] # Nil => basis[c].rv <= w[c].basis.rv

VersionsOrdered == \A c \in Classes : InformerOrdered(c) /\ StatusOrdered(c)

\* The last event on its way, or else the cache, is what is stored.
TipIsStored ==
    \A c \in Classes :
      api[c] = IF watch[c] = <<>> THEN cache[c] ELSE watch[c][Len(watch[c])]

SameSpec(x, y) == x.uid = y.uid /\ x.gen = y.gen

\* Somebody answers for the cached object while it exists: the running worker
\* read its spec, or the class is queued, or is to be retried, or its status is
\* Ready for that spec.
Answered(c) ==
    IF w[c] # Nil THEN dirty[c] \/ SameSpec(w[c].basis, cache[c])
    ELSE \/ dirty[c] \/ backoff[c]
         \/ /\ basis[c] # Nil /\ SameSpec(basis[c], cache[c])
            /\ api[c].status.state = StateReady

NobodyForgotten ==
    \A c \in Classes :
      /\ lost[c] = {} /\ api[c] # Nil /\ cache[c] # Nil /\ cache[c].uid = api[c].uid
      => Answered(c)

\* The order of versions: uid, then generation.
NotOlder(v, u) == u.uid < v.uid \/ (u.uid = v.uid /\ u.gen <= v.gen)

\* All that a worker of class c may read, or has read, is in history.
KnownIn(c, history) ==
    /\ api[c] # Nil => BasisOf(api[c]) \in history
    /\ cache[c] # Nil => BasisOf(cache[c]) \in history
    /\ \A i \in DOMAIN watch[c] : watch[c][i] # Nil => BasisOf(watch[c][i]) \in history
    /\ w[c] # Nil => w[c].basis \in history
    /\ basis[c] # Nil => basis[c] \in history

\* By resource version a history is in the order of versions, the present
\* object is the newest, and a version has one spec.
OrderedIn(c, history) ==
    /\ history \subseteq Bases
    /\ \A x, y \in history : x.rv <= y.rv => NotOlder(y, x)
    /\ \A x \in history : x.uid <= x.rv /\ x.rv <= rv[c]
    /\ api[c] # Nil =>
         \A x \in history :
           /\ NotOlder(api[c], x)
           /\ x.uid = api[c].uid /\ x.gen = api[c].gen => x.spec = api[c].spec

-----------------------------------------------------------------------------
(* Why every version has a cause: what is under way still owes versions,    *)
(* and all that it owes has been paid for.                                  *)

\* The nodes that are listed answer alike, and this is what they answer.
NodesAlike == \A field \in FieldNames : \E value \in Fetched(field) : Fetched(field) = {value}
Found == [field \in FieldNames |-> CHOOSE value \in Fetched(field) : TRUE]

\* The status a call will write if each of its fetches finds what found has.
Outcome(wk, found) ==
    LET next == [AfterFetch(wk, "clusterDomain", found["clusterDomain"]) EXCEPT !.pc = "nameservers"]
        last == IF wk.pc = "clusterDomain" THEN next ELSE wk
    IN IF last.pc = "nameservers"
         THEN AfterDiscovery(AfterFetch(last, "nameservers", found["nameservers"])).status
         ELSE last.status

\* Another call for obj would change nothing.
Lasts(obj, found) == Outcome(Started(obj), found) = obj.status

\* The event calls for another status.
Renews(old, new) == new # Nil /\ (old = Nil \/ old.gen # new.gen \/ old.spec # new.spec)

\* The events on their way to old that do, by their places in the queue.
Renewals(old, events) ==
    {i \in DOMAIN events : Renews(IF i = 1 THEN old ELSE events[i - 1], events[i])}

\* Users see one status of the class, and a call for the cached object repeats it.
Repeats(c) ==
    /\ w[c] = Nil /\ api[c] # Nil /\ cache[c].status = api[c].status /\ Lasts(cache[c], Found)
    /\ \A i \in DOMAIN watch[c] : watch[c][i] # Nil => watch[c][i].status = api[c].status

\* The running call will make a version, the queued one may, a restart would
\* find something undone, and would still when the running call has written.
Running(c) == w[c] # Nil /\ (api[c] = Nil \/ Outcome(w[c], Found) # api[c].status)
Queued(c)  == dirty[c] /\ cache[c] # Nil /\ ~Repeats(c)
Undone(c)  == api[c] # Nil /\ ~Lasts(api[c], Found)
Left(c)    == /\ w[c] # Nil /\ api[c] # Nil
              /\ ~Lasts([api[c] EXCEPT !.status = Outcome(w[c], Found)], Found)

One(p) == IF p THEN 1 ELSE 0
Larger(m, n) == IF m > n THEN m ELSE n

\* The versions these may still make, whether or not the running call gets to
\* write: one each, but what a restart finds undone is undone by what is ahead.
Debt(running, ahead, left, undone) ==
    Larger(One(running) + Larger(ahead, One(left)), Larger(ahead, One(undone)))

Ahead(c) == One(Queued(c)) + Cardinality(Renewals(cache[c], watch[c]))
Owed(c)  == Debt(Running(c), Ahead(c), Left(c), Undone(c))

\* dnsClassPredicate, Reconcile and writeStatus, dnsclass_controller.go:72-132, 291-339.
\* The versions there are, and those that running calls, queue, events and a
\* restart still owe, are paid for: a call repeated for the same spec and the same
\* answers of the nodes changes nothing, so no retry provokes another version.
OwedIsProvoked == \A c \in Classes : rv[c] + Owed(c) <= Provocations

\* All that Reconcile and the informer keep true (dnsclass_controller.go:72-339).
IInv == TypeOK /\ AllClean /\ AllExplained /\ VersionsOrdered /\ TipIsStored /\ NobodyForgotten
=============================================================================
