---------------------- MODULE DNSClassController_proofs ----------------------
(***************************************************************************)
(* Proofs about the DNSClass controller, for every set of classes, nodes   *)
(* and requests and every bound.                                           *)
(***************************************************************************)
EXTENDS DNSClassControllerProps, SequenceTheorems, TLAPS

(* Types of the operators the actions are built from. *)

\* The defaulting webhook returns a spec.
LEMMA DefaultType ==
    ASSUME NEW request \in DNSClassSpec PROVE Default(request) \in DNSClassSpec
  BY DEF Default, DNSClassSpec, DefaultDNSPolicies, Policies, ValidDNSPolicies

\* updateStatus of a status is a status.
LEMMA UpdateStatusType ==
    ASSUME NEW status \in DNSClassStatus, NEW failed \in BOOLEAN,
           NEW message \in SUBSET FieldNames
    PROVE  updateStatus(status, failed, message) \in DNSClassStatus
  BY DEF updateStatus, DNSClassStatus, Conditions, ConditionTypes, States,
         StateInit, StateReady, StateError

\* The status of a call that found nothing missing is a status.
LEMMA ReadyStatusType ==
    ASSUME NEW status \in DNSClassStatus, NEW discovered \in DiscoveredFields \cup {Nil}
    PROVE  ReadyStatus(status, discovered) \in DNSClassStatus
<1> DEFINE s == [status EXCEPT !.state = StateReady, !.discovered = discovered]
<1>1. s \in DNSClassStatus
  BY DEF DNSClassStatus, States, StateReady
<1>2. updateStatus(s, FALSE, {}) \in DNSClassStatus
  BY <1>1, UpdateStatusType
<1> QED
  BY <1>2 DEF ReadyStatus

\* The worker of a call that has just read an object is a worker.
LEMMA StartedType ==
    ASSUME NEW obj \in Objects PROVE Started(obj) \in Workers
<1> DEFINE read == [obj.status EXCEPT !.state = IF @ = "" THEN StateInit ELSE @]
           fields == IF read.discovered = Nil THEN NoFields ELSE read.discovered
           none == obj.spec.dnsPolicy = "None"
<1>1. read \in DNSClassStatus
  BY DEF Objects, DNSClassStatus, States, StateInit
<1>2. fields \in DiscoveredFields
  <2>1. read.discovered \in DiscoveredFields \cup {Nil}
    BY <1>1 DEF DNSClassStatus
  <2> QED
    BY <2>1 DEF NoFields, DiscoveredFields
<1>3. ReadyStatus(read, read.discovered) \in DNSClassStatus
  BY <1>1, ReadyStatusType DEF DNSClassStatus
<1>4. BasisOf(obj) \in Bases
  BY DEF BasisOf, Bases, Objects
<1>5. Started(obj) = [pc |-> IF none THEN "clusterDomain" ELSE "get",
        basis |-> BasisOf(obj),
        status |-> IF none THEN read ELSE ReadyStatus(read, read.discovered),
        fields |-> fields,
        undiscovered |-> {}, failed |-> FALSE, attempts |-> 0, dcrv |-> 0]
  BY DEF Started
<1> HIDE DEF read, fields, none
<1> QED
  BY <1>1, <1>2, <1>3, <1>4, <1>5 DEF Workers

\* What a fetch yields is missing or a value of the field.
LEMMA FetchedType ==
    ASSUME kubelet \in [Nodes -> NodeConfigs]
    PROVE  /\ Fetched("clusterDomain") \subseteq Domains \cup {Nil}
           /\ Fetched("nameservers") \subseteq NSLists \cup {Nil}
<1>1. ASSUME NEW n \in Nodes, kubelet[n] # Gone, kubelet[n] # Unreachable
      PROVE  kubelet[n] \in KubeletConfig
  BY <1>1, ConstantsAssumption
<1>2. ASSUME NEW n \in Nodes, kubelet[n] # Gone, kubelet[n] # Unreachable
      PROVE  /\ kubelet[n]["clusterDomain"] \in Domains \cup {Nil}
             /\ kubelet[n]["nameservers"] \in NSLists \cup {Nil}
  BY <1>1, <1>2 DEF KubeletConfig
<1> QED
  BY <1>2 DEF Fetched

\* A worker that fetched a field is a worker.
LEMMA AfterFetchType ==
    ASSUME NEW wk \in Workers
    PROVE  /\ \A value \in Domains \cup {Nil} : AfterFetch(wk, "clusterDomain", value) \in Workers
           /\ \A value \in NSLists \cup {Nil} : AfterFetch(wk, "nameservers", value) \in Workers
<1>1. ASSUME NEW value \in Domains \cup {Nil}
      PROVE  AfterFetch(wk, "clusterDomain", value) \in Workers
  BY DEF AfterFetch, Workers, DiscoveredFields, FieldNames
<1>2. ASSUME NEW value \in NSLists \cup {Nil}
      PROVE  AfterFetch(wk, "nameservers", value) \in Workers
  BY DEF AfterFetch, Workers, DiscoveredFields, FieldNames
<1> QED
  BY <1>1, <1>2

\* A worker that has discovered is a worker.
LEMMA AfterDiscoveryType ==
    ASSUME NEW wk \in Workers PROVE AfterDiscovery(wk) \in Workers
<1> DEFINE failed == ExtractTemplateKeysRegex(wk.basis.spec) \cap wk.undiscovered # {}
           shared == wk.status.discovered # Nil
           kept   == [wk.status EXCEPT !.discovered = IF shared THEN wk.fields ELSE Nil]
           result == IF failed THEN updateStatus(kept, TRUE, wk.undiscovered)
                               ELSE ReadyStatus(wk.status, wk.fields)
<1>1. kept \in DNSClassStatus
  BY DEF Workers, DNSClassStatus
<1>2. updateStatus(kept, TRUE, wk.undiscovered) \in DNSClassStatus
  BY <1>1, UpdateStatusType DEF Workers
<1>3. ReadyStatus(wk.status, wk.fields) \in DNSClassStatus
  BY ReadyStatusType DEF Workers
<1>4. result \in DNSClassStatus
  BY <1>2, <1>3
<1>5. AfterDiscovery(wk) = [wk EXCEPT !.pc = "get", !.failed = failed, !.status = result]
  BY DEF AfterDiscovery
<1>6. failed \in BOOLEAN
  OBVIOUS
<1> HIDE DEF failed, result
<1> QED
  BY <1>4, <1>5, <1>6 DEF Workers

-----------------------------------------------------------------------------
(* Type correctness.                                                       *)

\* Spending from a budget leaves a budget.
LEMMA SpendType ==
    ASSUME budget \in Budgets,
           NEW what \in {"edits", "faults", "relists", "restarts", "kubelet", "early"},
           Spend(what)
    PROVE  budget' \in Budgets
<1>1. budget[what] \in Nat /\ budget[what] > 0
  BY DEF Spend, Budgets
<1>2. budget[what] - 1 \in Nat
  BY <1>1
<1> QED
  BY <1>2 DEF Spend, Budgets

\* Storing an object, or a deletion, keeps the types of the store.
LEMMA StoreType ==
    ASSUME TypeOK, NEW c \in Classes, NEW obj \in Objects \cup {Nil}, Store(c, obj)
    PROVE  /\ api' \in [Classes -> Objects \cup {Nil}]
           /\ rv' \in [Classes -> Nat]
           /\ watch' \in [Classes -> Seq(Objects \cup {Nil})]
<1>1. api' \in [Classes -> Objects \cup {Nil}] /\ rv' \in [Classes -> Nat]
  BY DEF TypeOK, Store
<1>2. Append(watch[c], obj) \in Seq(Objects \cup {Nil})
  BY DEF TypeOK
<1> QED
  BY <1>1, <1>2 DEF TypeOK, Store

\* A call that returns leaves the types of worker, backoff and history.
LEMMA ReturnType ==
    ASSUME TypeOK, NEW c \in Classes, w[c] # Nil, NEW dropped \in BOOLEAN, Return(c, dropped)
    PROVE  /\ w' \in [Classes -> Workers \cup {Nil}]
           /\ backoff' \in [Classes -> BOOLEAN]
           /\ lost' \in [Classes -> SUBSET {"status", "event"}]
<1>1. w' \in [Classes -> Workers \cup {Nil}]
  BY DEF TypeOK, Return
<1>2. w[c].failed \in BOOLEAN
  BY DEF TypeOK, Workers
<1>3. (backoff[c] \/ w[c].failed) \in BOOLEAN
  OBVIOUS
<1>4. backoff' \in [Classes -> BOOLEAN]
  BY <1>3, Zenon DEF TypeOK, Return
<1>5. lost' \in [Classes -> SUBSET {"status", "event"}]
  BY DEF TypeOK, Return
<1> QED
  BY <1>1, <1>4, <1>5

\* The initial state is well typed.
LEMMA InitType == Init => TypeOK
<1> SUFFICES ASSUME Init PROVE TypeOK
  OBVIOUS
<1>1. budget \in Budgets
  BY ConstantsAssumption DEF Init, Budgets
<1>2. watch \in [Classes -> Seq(Objects \cup {Nil})]
  BY DEF Init
<1> QED
  BY <1>1, <1>2 DEF Init, TypeOK

\* Every step keeps the types.
LEMMA NextType == TypeOK /\ [Next]_vars => TypeOK'
<1> SUFFICES ASSUME TypeOK, [Next]_vars PROVE TypeOK'
  OBVIOUS
<1>1. ASSUME NEW c \in Classes, CreateClass(c) PROVE TypeOK'
  <2>1. PICK request \in Requests :
          Store(c, [uid |-> rv[c] + 1, gen |-> 1, rv |-> rv[c] + 1,
                    spec |-> Default(request), status |-> NoStatus])
    BY <1>1 DEF CreateClass
  <2>2. Default(request) \in DNSClassSpec
    BY ConstantsAssumption, DefaultType
  <2>3. NoStatus \in DNSClassStatus
    BY DEF NoStatus, DNSClassStatus, States, Conditions
  <2>4. [uid |-> rv[c] + 1, gen |-> 1, rv |-> rv[c] + 1,
         spec |-> Default(request), status |-> NoStatus] \in Objects
    BY <2>2, <2>3 DEF TypeOK, Objects
  <2> QED
    BY <1>1, <2>1, <2>4, StoreType, SpendType DEF TypeOK, CreateClass
<1>2. ASSUME NEW c \in Classes, UpdateClass(c) PROVE TypeOK'
  <2> DEFINE new(request) ==
        [api[c] EXCEPT !.spec = Default(request), !.rv = rv[c] + 1,
                       !.gen = IF Default(request) = api[c].spec THEN @ ELSE @ + 1]
  <2>1. PICK request \in Requests : Store(c, new(request))
    BY <1>2 DEF UpdateClass
  <2>2. Default(request) \in DNSClassSpec
    BY ConstantsAssumption, DefaultType
  <2>3. api[c] \in Objects
    BY <1>2 DEF TypeOK, UpdateClass
  <2>4. rv[c] + 1 \in Nat /\ api[c].gen \in Nat /\ api[c].gen + 1 \in Nat
    BY <2>3 DEF TypeOK, Objects
  <2>5. new(request) \in Objects
    BY <2>2, <2>3, <2>4 DEF Objects
  <2> QED
    BY <1>2, <2>1, <2>5, StoreType, SpendType DEF TypeOK, UpdateClass
<1>3. ASSUME NEW c \in Classes, DeleteClass(c) PROVE TypeOK'
  BY <1>3, StoreType, SpendType DEF TypeOK, DeleteClass
<1>4. ASSUME NEW n \in Nodes, ChangeKubelet(n) PROVE TypeOK'
  BY <1>4, SpendType DEF TypeOK, ChangeKubelet
<1>5. ASSUME NEW c \in Classes, Deliver(c) PROVE TypeOK'
  <2>1. Head(watch[c]) \in Objects \cup {Nil} /\ Tail(watch[c]) \in Seq(Objects \cup {Nil})
    BY <1>5 DEF TypeOK, Deliver
  <2>2. cache' \in [Classes -> Objects \cup {Nil}] /\ watch' \in [Classes -> Seq(Objects \cup {Nil})]
    BY <1>5, <2>1 DEF TypeOK, Deliver
  <2>3. dirty' \in [Classes -> BOOLEAN]
    BY <1>5, Zenon DEF TypeOK, Deliver, Enqueues
  <2>4. lost' \in [Classes -> SUBSET {"status", "event"}]
    BY <1>5 DEF TypeOK, Deliver
  <2> QED
    BY <1>5, <2>2, <2>3, <2>4 DEF TypeOK, Deliver
<1>6. ASSUME Relist PROVE TypeOK'
  <2>1. ASSUME NEW c \in Classes
        PROVE  (IF watch[c] = <<>> THEN <<>> ELSE <<api[c]>>) \in Seq(Objects \cup {Nil})
    <3>1. api[c] \in Objects \cup {Nil}
      BY DEF TypeOK
    <3>2. <<api[c]>> \in Seq(Objects \cup {Nil}) /\ <<>> \in Seq(Objects \cup {Nil})
      BY <3>1
    <3> QED
      BY <3>2
  <2>2. watch' \in [Classes -> Seq(Objects \cup {Nil})]
    BY <1>6, <2>1 DEF Relist
  <2> QED
    BY <1>6, <2>2, SpendType DEF TypeOK, Relist
<1>7. ASSUME Restart PROVE TypeOK'
  <2>1. watch' \in [Classes -> Seq(Objects \cup {Nil})]
    BY <1>7 DEF TypeOK, Restart
  <2> QED
    BY <1>7, <2>1, SpendType DEF TypeOK, Restart
<1>8. ASSUME NEW c \in Classes, StartReconcile(c) PROVE TypeOK'
  <2>1. (IF cache[c] = Nil THEN Nil ELSE Started(cache[c])) \in Workers \cup {Nil}
    BY StartedType DEF TypeOK
  <2>2. w' \in [Classes -> Workers \cup {Nil}]
    BY <1>8, <2>1 DEF TypeOK, StartReconcile
  <2> QED
    BY <1>8, <2>2 DEF TypeOK, StartReconcile
<1>9. ASSUME NEW c \in Classes, GetFails(c) PROVE TypeOK'
  BY <1>9, SpendType DEF TypeOK, GetFails
<1>10. ASSUME NEW c \in Classes, RetryFires(c) PROVE TypeOK'
  <2>1. budget' \in Budgets
    BY <1>10, SpendType DEF TypeOK, RetryFires
  <2> QED
    BY <1>10, <2>1 DEF TypeOK, RetryFires
<1>11. ASSUME NEW c \in Classes, DiscoverClusterDomain(c) PROVE TypeOK'
  <2>1. PICK value \in Fetched("clusterDomain") :
          w' = [w EXCEPT ![c] = [AfterFetch(w[c], "clusterDomain", value) EXCEPT !.pc = "nameservers"]]
    BY <1>11 DEF DiscoverClusterDomain
  <2>2. AfterFetch(w[c], "clusterDomain", value) \in Workers
    BY <1>11, FetchedType, AfterFetchType DEF TypeOK, DiscoverClusterDomain
  <2>3. [AfterFetch(w[c], "clusterDomain", value) EXCEPT !.pc = "nameservers"] \in Workers
    BY <2>2 DEF Workers
  <2> QED
    BY <1>11, <2>1, <2>3 DEF TypeOK, DiscoverClusterDomain
<1>12. ASSUME NEW c \in Classes, DiscoverNameservers(c) PROVE TypeOK'
  <2>1. PICK value \in Fetched("nameservers") :
          w' = [w EXCEPT ![c] = AfterDiscovery(AfterFetch(w[c], "nameservers", value))]
    BY <1>12 DEF DiscoverNameservers
  <2>2. AfterFetch(w[c], "nameservers", value) \in Workers
    BY <1>12, FetchedType, AfterFetchType DEF TypeOK, DiscoverNameservers
  <2>3. AfterDiscovery(AfterFetch(w[c], "nameservers", value)) \in Workers
    BY <2>2, AfterDiscoveryType
  <2> QED
    BY <1>12, <2>1, <2>3 DEF TypeOK, DiscoverNameservers
<1>13. ASSUME NEW c \in Classes, GetForUpdate(c) PROVE TypeOK'
  <2>1. CASE cache[c] = Nil /\ Return(c, FALSE)
    BY <1>13, <2>1, ReturnType DEF TypeOK, GetForUpdate
  <2>2. CASE cache[c] # Nil /\ w' = [w EXCEPT ![c].pc = "update", ![c].dcrv = cache[c].rv]
                            /\ UNCHANGED <<backoff, lost>>
    <3>1. w[c] \in Workers /\ cache[c].rv \in Nat
      BY <1>13, <2>2 DEF TypeOK, GetForUpdate, Objects
    <3>2. [w[c] EXCEPT !.pc = "update", !.dcrv = cache[c].rv] \in Workers
      BY <3>1 DEF Workers
    <3>3. w' \in [Classes -> Workers \cup {Nil}]
      BY <2>2, <3>2 DEF TypeOK
    <3> QED
      BY <1>13, <2>2, <3>3 DEF TypeOK, GetForUpdate
  <2> QED
    BY <1>13, <2>1, <2>2 DEF GetForUpdate
<1>14. ASSUME NEW c \in Classes, UpdateNotFound(c) PROVE TypeOK'
  BY <1>14, ReturnType DEF TypeOK, UpdateNotFound
<1>15. ASSUME NEW c \in Classes, UpdateConflict(c) PROVE TypeOK'
  <2>1. CASE Return(c, TRUE)
    BY <1>15, <2>1, ReturnType DEF TypeOK, UpdateConflict
  <2>2. CASE w' = [w EXCEPT ![c].pc = "get", ![c].attempts = @ + 1] /\ UNCHANGED <<backoff, lost>>
    <3>1. w[c] \in Workers
      BY <1>15 DEF TypeOK, UpdateConflict
    <3>2. w[c].attempts + 1 \in Nat
      BY <3>1 DEF Workers
    <3>3. [w[c] EXCEPT !.pc = "get", !.attempts = @ + 1] \in Workers
      BY <3>1, <3>2 DEF Workers
    <3>4. w' \in [Classes -> Workers \cup {Nil}]
      BY <2>2, <3>3 DEF TypeOK
    <3> QED
      BY <1>15, <2>2, <3>4 DEF TypeOK, UpdateConflict
  <2> QED
    BY <1>15, <2>1, <2>2 DEF UpdateConflict
<1>16. ASSUME NEW c \in Classes, UpdateSucceeds(c) PROVE TypeOK'
  <2> DEFINE new == [api[c] EXCEPT !.status = w[c].status, !.rv = rv[c] + 1]
  <2>1. api[c] \in Objects /\ w[c] \in Workers
    BY <1>16 DEF TypeOK, UpdateSucceeds
  <2>2. new \in Objects
    <3>1. rv[c] + 1 \in Nat /\ w[c].status \in DNSClassStatus
      BY <2>1 DEF TypeOK, Workers
    <3> QED
      BY <2>1, <3>1 DEF Objects
  <2>3. /\ api' \in [Classes -> Objects \cup {Nil}]
        /\ rv' \in [Classes -> Nat]
        /\ watch' \in [Classes -> Seq(Objects \cup {Nil})]
    <3>1. CASE UNCHANGED <<api, rv, watch>>
      BY <3>1 DEF TypeOK
    <3>2. CASE Store(c, new)
      BY <3>2, <2>2, StoreType
    <3> QED
      BY <1>16, <3>1, <3>2 DEF UpdateSucceeds
  <2>4. basis' \in [Classes -> Bases \cup {Nil}]
    BY <1>16, <2>1 DEF TypeOK, UpdateSucceeds, Workers
  <2> QED
    BY <1>16, <2>3, <2>4, ReturnType DEF TypeOK, UpdateSucceeds
<1>17. ASSUME NEW c \in Classes, UpdateFails(c) PROVE TypeOK'
  BY <1>17, ReturnType, SpendType DEF TypeOK, UpdateFails
<1>18. CASE UNCHANGED vars
  BY <1>18 DEF TypeOK, vars
<1> QED
  BY <1>1, <1>2, <1>3, <1>4, <1>5, <1>6, <1>7, <1>8, <1>9, <1>10, <1>11, <1>12,
     <1>13, <1>14, <1>15, <1>16, <1>17, <1>18 DEF Next, Step

\* The state of the controller, the API server and the informer always has its
\* type: objects, queues and the locals of every Reconcile call.
THEOREM TypeCorrect == Spec => []TypeOK
<1> QED
  BY InitType, NextType, PTL DEF Spec

-----------------------------------------------------------------------------
(* Steps that leave the store and the informer alone.                      *)

\* A step changes objects only through the API server or the informer.
LEMMA QuietSteps ==
    ASSUME [Next]_vars
    PROVE  \/ \E c \in Classes : \/ CreateClass(c) \/ UpdateClass(c) \/ DeleteClass(c)
                                 \/ Deliver(c) \/ UpdateSucceeds(c)
           \/ Relist \/ Restart
           \/ UNCHANGED <<api, rv, watch, cache, basis>>
  BY Zenon DEF Next, Step, vars, ChangeKubelet, StartReconcile, GetFails, RetryFires,
     DiscoverClusterDomain, DiscoverNameservers, GetForUpdate, UpdateNotFound,
     UpdateConflict, UpdateFails

-----------------------------------------------------------------------------
(* No condition "initializing".                                            *)

\* The defaulted object of a creation is clean.
LEMMA NoStatusClean == NoStatus \in DNSClassStatus /\ Clean(NoStatus)
<1>1. NoStatus \in DNSClassStatus
  BY DEF NoStatus, DNSClassStatus, States, Conditions
<1>2. Clean(NoStatus)
  BY DEF NoStatus, Clean, ConditionTypes
<1> QED
  BY <1>1, <1>2

\* Storing a clean object keeps every object clean.
LEMMA StoreClean ==
    ASSUME TypeOK, AllClean, NEW c \in Classes, NEW obj \in CleanObjects \cup {Nil},
           Store(c, obj), UNCHANGED cache
    PROVE  AllClean'
<1>1. Append(watch[c], obj) \in Seq(CleanObjects \cup {Nil})
  BY DEF AllClean
<1> QED
  BY <1>1 DEF AllClean, Store

\* Every step keeps every stored, travelling and cached object clean.
LEMMA NextClean ==
    ASSUME TypeOK, AllClean, AllExplained, [Next]_vars
    PROVE  AllClean'
<1>1. ASSUME NEW c \in Classes, CreateClass(c) PROVE AllClean'
  <2>1. PICK request \in Requests :
          Store(c, [uid |-> rv[c] + 1, gen |-> 1, rv |-> rv[c] + 1,
                    spec |-> Default(request), status |-> NoStatus])
    BY <1>1 DEF CreateClass
  <2>2. Default(request) \in DNSClassSpec /\ rv[c] + 1 \in Nat
    BY ConstantsAssumption, DefaultType DEF TypeOK
  <2>3. [uid |-> rv[c] + 1, gen |-> 1, rv |-> rv[c] + 1,
         spec |-> Default(request), status |-> NoStatus] \in CleanObjects
    BY <2>2, NoStatusClean DEF CleanObjects, Objects
  <2> QED
    BY <1>1, <2>1, <2>3, StoreClean DEF CreateClass
<1>2. ASSUME NEW c \in Classes, UpdateClass(c) PROVE AllClean'
  <2> DEFINE new(request) ==
        [api[c] EXCEPT !.spec = Default(request), !.rv = rv[c] + 1,
                       !.gen = IF Default(request) = api[c].spec THEN @ ELSE @ + 1]
  <2>1. PICK request \in Requests : Store(c, new(request))
    BY <1>2 DEF UpdateClass
  <2>2. Default(request) \in DNSClassSpec
    BY ConstantsAssumption, DefaultType
  <2>3. api[c] \in CleanObjects
    BY <1>2 DEF AllClean, UpdateClass
  <2>4. rv[c] + 1 \in Nat /\ api[c].gen \in Nat /\ api[c].gen + 1 \in Nat
    BY <2>3 DEF TypeOK, CleanObjects, Objects
  <2>5. new(request) \in Objects /\ new(request).status = api[c].status
    BY <2>2, <2>3, <2>4 DEF Objects, CleanObjects
  <2>6. new(request) \in CleanObjects
    BY <2>3, <2>5 DEF CleanObjects
  <2> QED
    BY <1>2, <2>1, <2>6, StoreClean DEF UpdateClass
<1>3. ASSUME NEW c \in Classes, DeleteClass(c) PROVE AllClean'
  BY <1>3, StoreClean DEF DeleteClass
<1>4. ASSUME NEW c \in Classes, Deliver(c) PROVE AllClean'
  <2>1. Head(watch[c]) \in CleanObjects \cup {Nil} /\ Tail(watch[c]) \in Seq(CleanObjects \cup {Nil})
    BY <1>4 DEF AllClean, Deliver
  <2> QED
    BY <1>4, <2>1 DEF AllClean, Deliver
<1>5. ASSUME NEW c \in Classes, UpdateSucceeds(c) PROVE AllClean'
  <2> DEFINE new == [api[c] EXCEPT !.status = w[c].status, !.rv = rv[c] + 1]
  <2>1. CASE UNCHANGED <<api, rv, watch>>
    BY <1>5, <2>1 DEF AllClean, UpdateSucceeds
  <2>2. CASE Store(c, new)
    <3>1. api[c] \in Objects /\ w[c] \in Workers /\ Clean(w[c].status)
      BY <1>5 DEF TypeOK, AllExplained, WorkerExplained, UpdateSucceeds
    <3>2. rv[c] + 1 \in Nat /\ w[c].status \in DNSClassStatus
      BY <3>1 DEF TypeOK, Workers
    <3>3. new \in Objects /\ new.status = w[c].status
      BY <3>1, <3>2 DEF Objects
    <3>4. new \in CleanObjects
      BY <3>1, <3>3 DEF CleanObjects
    <3> QED
      BY <1>5, <2>2, <3>4, StoreClean DEF UpdateSucceeds
  <2> QED
    BY <1>5, <2>1, <2>2 DEF UpdateSucceeds
<1>6. ASSUME Relist PROVE AllClean'
  <2>1. ASSUME NEW c \in Classes
        PROVE  (IF watch[c] = <<>> THEN <<>> ELSE <<api[c]>>) \in Seq(CleanObjects \cup {Nil})
    <3>1. api[c] \in CleanObjects \cup {Nil}
      BY DEF AllClean
    <3>2. <<api[c]>> \in Seq(CleanObjects \cup {Nil}) /\ <<>> \in Seq(CleanObjects \cup {Nil})
      BY <3>1
    <3> QED
      BY <3>2
  <2>2. watch' \in [Classes -> Seq(CleanObjects \cup {Nil})]
    BY <1>6, <2>1 DEF Relist
  <2> QED
    BY <1>6, <2>2 DEF AllClean, Relist
<1>7. ASSUME Restart PROVE AllClean'
  BY <1>7 DEF AllClean, Restart
<1>8. CASE UNCHANGED <<api, rv, watch, cache, basis>>
  BY <1>8 DEF AllClean
<1> QED
  BY <1>1, <1>2, <1>3, <1>4, <1>5, <1>6, <1>7, <1>8, QuietSteps

-----------------------------------------------------------------------------
(* Every stored status is explained by the object it was computed from.    *)

\* What updateStatus makes of a status: the state, and the condition under it.
LEMMA UpdateStatusFields ==
    ASSUME NEW status \in DNSClassStatus, NEW failed \in BOOLEAN,
           NEW message \in SUBSET FieldNames,
           failed \/ status.state = StateReady
    PROVE  LET new == updateStatus(status, failed, message)
           IN /\ new.state = (IF failed THEN StateError ELSE StateReady)
              /\ new.conditions[new.state] = message
              /\ Clean(status) => Clean(new)
              /\ new.discovered = status.discovered
  BY DEF updateStatus, DNSClassStatus, Conditions, ConditionTypes, Clean,
         StateInit, StateReady, StateError

\* A ready status of a clean status is explained when its fields support the spec.
LEMMA ReadyStatusExplained ==
    ASSUME NEW status \in DNSClassStatus, Clean(status), NEW b \in Bases,
           NEW discovered \in DiscoveredFields \cup {Nil},
           b.spec.dnsPolicy = "None" =>
             /\ discovered # Nil
             /\ "clusterDomain" \in ExtractTemplateKeysRegex(b.spec) => discovered.clusterDomain # Nil
    PROVE  LET new == ReadyStatus(status, discovered)
           IN new.state = StateReady /\ Clean(new) /\ Explained(new, b)
<1> DEFINE s == [status EXCEPT !.state = StateReady, !.discovered = discovered]
           new == ReadyStatus(status, discovered)
<1>1. /\ s \in DNSClassStatus /\ s.state = StateReady
      /\ s.discovered = discovered /\ s.conditions = status.conditions
  BY DEF DNSClassStatus, States, StateReady
<1>2. new = updateStatus(s, FALSE, {})
  BY DEF ReadyStatus
<1>3. Clean(s)
  BY <1>1 DEF Clean
<1> HIDE DEF s, new
<1>4. new.state = StateReady /\ new.conditions[new.state] = {} /\ Clean(new) /\ new.discovered = discovered
  BY <1>1, <1>2, <1>3, UpdateStatusFields
<1>5. {} # Nil
  BY ConstantsAssumption
<1>6. Supports(new, b.spec)
  BY <1>4 DEF Supports
<1> QED
  BY <1>4, <1>5, <1>6 DEF Explained, StateInit, StateReady, StateError, new

\* A call that has just read a clean object.
LEMMA StartedExplained ==
    ASSUME NEW obj \in CleanObjects PROVE WorkerExplained(Started(obj))
<1> DEFINE none == obj.spec.dnsPolicy = "None"
           read == [obj.status EXCEPT !.state = IF @ = "" THEN StateInit ELSE @]
           wk == Started(obj)
<1>1. obj \in Objects /\ Clean(obj.status) /\ obj.status \in DNSClassStatus
  BY DEF CleanObjects, Objects
<1>2. read \in DNSClassStatus /\ Clean(read)
  BY <1>1 DEF DNSClassStatus, States, StateInit, Clean
<1>3. BasisOf(obj) \in Bases /\ BasisOf(obj).spec = obj.spec
  BY <1>1 DEF BasisOf, Bases, Objects
<1>4. /\ wk.pc = (IF none THEN "clusterDomain" ELSE "get")
      /\ wk.basis = BasisOf(obj)
      /\ wk.status = (IF none THEN read ELSE ReadyStatus(read, read.discovered))
      /\ wk.failed = FALSE
  BY DEF Started
<1>5. read.discovered \in DiscoveredFields \cup {Nil}
  BY <1>2 DEF DNSClassStatus
<1> HIDE DEF read, wk
<1>6. CASE none
  BY <1>2, <1>3, <1>4, <1>6 DEF WorkerExplained, wk
<1>7. CASE ~none
  <2>1. LET new == ReadyStatus(read, read.discovered)
        IN new.state = StateReady /\ Clean(new) /\ Explained(new, BasisOf(obj))
    BY <1>2, <1>3, <1>5, <1>7, ReadyStatusExplained
  <2> QED
    BY <2>1, <1>3, <1>4, <1>7 DEF WorkerExplained, wk
<1> QED
  BY <1>6, <1>7

\* A call after its first fetch.
LEMMA DomainExplained ==
    ASSUME NEW wk \in Workers, WorkerExplained(wk), wk.pc = "clusterDomain",
           NEW value \in Domains \cup {Nil}
    PROVE  WorkerExplained([AfterFetch(wk, "clusterDomain", value) EXCEPT !.pc = "nameservers"])
<1> DEFINE new == [AfterFetch(wk, "clusterDomain", value) EXCEPT !.pc = "nameservers"]
<1>1. /\ new.pc = "nameservers" /\ new.status = wk.status /\ new.basis = wk.basis
      /\ "clusterDomain" \in new.undiscovered \/ new.fields.clusterDomain # Nil
  BY DEF AfterFetch, Workers, DiscoveredFields
<1> HIDE DEF new
<1>2. WorkerExplained(new)
  BY <1>1 DEF WorkerExplained
<1> QED
  BY <1>2 DEF new

\* A call after its second fetch and the check of the keys its spec names.
LEMMA DiscoveryExplained ==
    ASSUME NEW wk \in Workers, Clean(wk.status), wk.basis.spec.dnsPolicy = "None",
           "clusterDomain" \in wk.undiscovered \/ wk.fields.clusterDomain # Nil
    PROVE  WorkerExplained(AfterDiscovery(wk))
<1> DEFINE keys   == ExtractTemplateKeysRegex(wk.basis.spec)
           failed == keys \cap wk.undiscovered # {}
           shared == wk.status.discovered # Nil
           kept   == [wk.status EXCEPT !.discovered = IF shared THEN wk.fields ELSE Nil]
           error  == updateStatus(kept, TRUE, wk.undiscovered)
           ready  == ReadyStatus(wk.status, wk.fields)
           new    == AfterDiscovery(wk)
<1>1. /\ new.pc = "get" /\ new.failed = failed /\ new.basis = wk.basis
      /\ new.status = IF failed THEN error ELSE ready
  BY DEF AfterDiscovery, Workers
<1>2. /\ wk.status \in DNSClassStatus /\ wk.basis \in Bases /\ wk.fields \in DiscoveredFields
      /\ wk.undiscovered \in SUBSET FieldNames
  BY DEF Workers
<1>3. kept \in DNSClassStatus /\ Clean(kept)
  BY <1>2 DEF DNSClassStatus, Clean
<1> HIDE DEF kept, new
<1>4. CASE failed
  <2>1. error.state = StateError /\ error.conditions[StateError] = wk.undiscovered /\ Clean(error)
    BY <1>2, <1>3 DEF updateStatus, DNSClassStatus, Conditions, ConditionTypes, Clean,
                      StateInit, StateReady, StateError
  <2>2. wk.undiscovered # Nil
    BY <1>2, ConstantsAssumption
  <2>3. Explained(error, wk.basis)
    BY <1>4, <2>1, <2>2 DEF Explained, StateInit, StateReady, StateError
  <2>4. WorkerExplained(new)
    BY <1>1, <1>4, <2>1, <2>3 DEF WorkerExplained
  <2> QED
    BY <2>4 DEF new
<1>5. CASE ~failed
  <2>1. "clusterDomain" \in keys => wk.fields.clusterDomain # Nil
    BY <1>5
  <2>2. wk.fields # Nil
    BY <1>2, ConstantsAssumption
  <2>3. ready.state = StateReady /\ Clean(ready) /\ Explained(ready, wk.basis)
    BY <1>2, <2>1, <2>2, ReadyStatusExplained
  <2>4. WorkerExplained(new)
    BY <1>1, <1>5, <2>3 DEF WorkerExplained
  <2> QED
    BY <2>4 DEF new
<1> QED
  BY <1>4, <1>5

\* The part of AllExplained that is about one class.
ClassExplained(c) ==
    /\ w[c] # Nil => WorkerExplained(w[c])
    /\ api[c] # Nil =>
         /\ Explained(api[c].status, basis[c])
         /\ api[c].status.state # "" => basis[c] # Nil

\* A step that touches the worker of one class only.
LEMMA WorkerStepExplained ==
    ASSUME TypeOK, AllExplained, NEW c \in Classes, NEW wk \in Workers \cup {Nil},
           w' = [w EXCEPT ![c] = wk], UNCHANGED <<api, basis>>,
           wk # Nil => WorkerExplained(wk)
    PROVE  AllExplained'
<1>1. ASSUME NEW d \in Classes PROVE ClassExplained(d)'
  <2>1. w'[d] = IF d = c THEN wk ELSE w[d]
    BY DEF TypeOK
  <2>2. w'[d] # Nil => WorkerExplained(w'[d])
    BY <2>1 DEF AllExplained
  <2> QED
    BY <2>2 DEF ClassExplained, AllExplained
<1> QED
  BY <1>1 DEF AllExplained, ClassExplained

\* Every step keeps the stored statuses explained, and what workers know true.
LEMMA NextExplained ==
    ASSUME TypeOK, AllClean, AllExplained, [Next]_vars
    PROVE  AllExplained'
<1>1. ASSUME NEW c \in Classes, CreateClass(c) PROVE AllExplained'
  <2>1. PICK request \in Requests :
          api' = [api EXCEPT ![c] = [uid |-> rv[c] + 1, gen |-> 1, rv |-> rv[c] + 1,
                                     spec |-> Default(request), status |-> NoStatus]]
    BY <1>1 DEF CreateClass, Store
  <2>2. api'[c].status = NoStatus
    BY <2>1 DEF TypeOK
  <2>3. ASSUME NEW b PROVE Explained(NoStatus, b) /\ NoStatus.state = ""
    BY NoStatusClean DEF Explained, NoStatus, StateInit, StateReady, StateError
  <2>4. ASSUME NEW d \in Classes PROVE ClassExplained(d)'
    <3>1. CASE d = c
      BY <1>1, <2>2, <2>3, <3>1 DEF CreateClass, ClassExplained, AllExplained
    <3>2. CASE d # c
      BY <1>1, <2>1, <3>2 DEF TypeOK, CreateClass, ClassExplained, AllExplained
    <3> QED
      BY <3>1, <3>2
  <2> QED
    BY <2>4 DEF AllExplained, ClassExplained
<1>2. ASSUME NEW c \in Classes, UpdateClass(c) PROVE AllExplained'
  <2>1. PICK request \in Requests :
          api' = [api EXCEPT ![c] = [api[c] EXCEPT !.spec = Default(request), !.rv = rv[c] + 1,
                                       !.gen = IF Default(request) = api[c].spec THEN @ ELSE @ + 1]]
    BY <1>2 DEF UpdateClass, Store
  <2>2. api[c] \in Objects /\ api[c] # Nil
    BY <1>2 DEF UpdateClass, TypeOK
  <2>3. api'[c].status = api[c].status
    BY <2>1, <2>2 DEF TypeOK, Objects
  <2>4. ASSUME NEW d \in Classes PROVE ClassExplained(d)'
    <3>1. CASE d = c
      BY <1>2, <2>2, <2>3, <3>1 DEF UpdateClass, ClassExplained, AllExplained
    <3>2. CASE d # c
      BY <1>2, <2>1, <3>2 DEF TypeOK, UpdateClass, ClassExplained, AllExplained
    <3> QED
      BY <3>1, <3>2
  <2> QED
    BY <2>4 DEF AllExplained, ClassExplained
<1>3. ASSUME NEW c \in Classes, DeleteClass(c) PROVE AllExplained'
  <2>1. ASSUME NEW d \in Classes PROVE ClassExplained(d)'
    <3>1. CASE d = c
      BY <1>3, <3>1 DEF TypeOK, DeleteClass, Store, ClassExplained, AllExplained
    <3>2. CASE d # c
      BY <1>3, <3>2 DEF TypeOK, DeleteClass, Store, ClassExplained, AllExplained
    <3> QED
      BY <3>1, <3>2
  <2> QED
    BY <2>1 DEF AllExplained, ClassExplained
<1>4. ASSUME UNCHANGED <<api, w, basis>> PROVE AllExplained'
  BY <1>4 DEF AllExplained
<1>5. ASSUME Restart PROVE AllExplained'
  BY <1>5 DEF Restart, AllExplained
<1>6. ASSUME NEW c \in Classes, StartReconcile(c) PROVE AllExplained'
  <2> DEFINE wk == IF cache[c] = Nil THEN Nil ELSE Started(cache[c])
  <2>1. wk \in Workers \cup {Nil}
    BY StartedType DEF TypeOK
  <2>2. wk # Nil => WorkerExplained(wk)
    BY StartedExplained DEF AllClean
  <2>3. w' = [w EXCEPT ![c] = wk] /\ UNCHANGED <<api, basis>>
    BY <1>6 DEF StartReconcile
  <2> HIDE DEF wk
  <2> QED
    BY <2>1, <2>2, <2>3, WorkerStepExplained
<1>7. ASSUME NEW c \in Classes, DiscoverClusterDomain(c) PROVE AllExplained'
  <2>1. PICK value \in Fetched("clusterDomain") :
          w' = [w EXCEPT ![c] = [AfterFetch(w[c], "clusterDomain", value) EXCEPT !.pc = "nameservers"]]
    BY <1>7 DEF DiscoverClusterDomain
  <2> DEFINE wk == [AfterFetch(w[c], "clusterDomain", value) EXCEPT !.pc = "nameservers"]
  <2>2. w[c] \in Workers /\ WorkerExplained(w[c]) /\ value \in Domains \cup {Nil}
    BY <1>7, FetchedType DEF TypeOK, AllExplained, DiscoverClusterDomain
  <2>3. AfterFetch(w[c], "clusterDomain", value) \in Workers
    BY <2>2, AfterFetchType
  <2>4. wk \in Workers
    BY <2>3 DEF Workers
  <2>5. WorkerExplained(wk)
    BY <1>7, <2>2, DomainExplained DEF DiscoverClusterDomain
  <2> HIDE DEF wk
  <2>6. w' = [w EXCEPT ![c] = wk] /\ UNCHANGED <<api, basis>>
    BY <1>7, <2>1 DEF DiscoverClusterDomain, wk
  <2> QED
    BY <2>4, <2>5, <2>6, WorkerStepExplained
<1>8. ASSUME NEW c \in Classes, DiscoverNameservers(c) PROVE AllExplained'
  <2>1. PICK value \in Fetched("nameservers") :
          w' = [w EXCEPT ![c] = AfterDiscovery(AfterFetch(w[c], "nameservers", value))]
    BY <1>8 DEF DiscoverNameservers
  <2> DEFINE fetched == AfterFetch(w[c], "nameservers", value)
             wk == AfterDiscovery(fetched)
  <2>2. /\ w[c] \in Workers /\ WorkerExplained(w[c]) /\ value \in NSLists \cup {Nil}
        /\ w[c].pc = "nameservers"
    BY <1>8, FetchedType DEF TypeOK, AllExplained, DiscoverNameservers
  <2>3. fetched \in Workers
    BY <2>2, AfterFetchType
  <2>4. /\ fetched.status = w[c].status /\ fetched.basis = w[c].basis
        /\ w[c].undiscovered \subseteq fetched.undiscovered
        /\ fetched.fields.clusterDomain = w[c].fields.clusterDomain
    BY <2>2 DEF AfterFetch, Workers, DiscoveredFields
  <2>5. /\ Clean(fetched.status) /\ fetched.basis.spec.dnsPolicy = "None"
        /\ "clusterDomain" \in fetched.undiscovered \/ fetched.fields.clusterDomain # Nil
    BY <2>2, <2>4 DEF WorkerExplained
  <2> HIDE DEF fetched
  <2>6. wk \in Workers /\ WorkerExplained(wk)
    BY <2>3, <2>5, AfterDiscoveryType, DiscoveryExplained
  <2> HIDE DEF wk
  <2>7. w' = [w EXCEPT ![c] = wk] /\ UNCHANGED <<api, basis>>
    BY <1>8, <2>1 DEF DiscoverNameservers, wk, fetched
  <2> QED
    BY <2>6, <2>7, WorkerStepExplained
<1>9. ASSUME NEW c \in Classes, w[c] # Nil, w' = [w EXCEPT ![c] = Nil], UNCHANGED <<api, basis>>
      PROVE  AllExplained'
  BY <1>9, WorkerStepExplained
<1>10. ASSUME NEW c \in Classes, GetForUpdate(c) PROVE AllExplained'
  <2>1. CASE Return(c, FALSE)
    BY <1>9, <1>10, <2>1 DEF GetForUpdate, Return
  <2>2. CASE cache[c] # Nil /\ w' = [w EXCEPT ![c].pc = "update", ![c].dcrv = cache[c].rv]
    <3> DEFINE wk == [w[c] EXCEPT !.pc = "update", !.dcrv = cache[c].rv]
    <3>1. w[c] \in Workers /\ WorkerExplained(w[c]) /\ w[c].pc = "get" /\ cache[c].rv \in Nat
      BY <1>10, <2>2 DEF TypeOK, AllExplained, GetForUpdate, Objects
    <3>2. wk \in Workers /\ WorkerExplained(wk)
      BY <3>1 DEF Workers, WorkerExplained
    <3>3. w' = [w EXCEPT ![c] = wk] /\ UNCHANGED <<api, basis>>
      BY <1>10, <2>2 DEF GetForUpdate, TypeOK
    <3> HIDE DEF wk
    <3> QED
      BY <3>2, <3>3, WorkerStepExplained
  <2> QED
    BY <1>10, <2>1, <2>2 DEF GetForUpdate
<1>11. ASSUME NEW c \in Classes, UpdateConflict(c) PROVE AllExplained'
  <2>1. CASE Return(c, TRUE)
    BY <1>9, <1>11, <2>1 DEF UpdateConflict, Return
  <2>2. CASE w' = [w EXCEPT ![c].pc = "get", ![c].attempts = @ + 1]
    <3> DEFINE wk == [w[c] EXCEPT !.pc = "get", !.attempts = @ + 1]
    <3>1. /\ w[c] \in Workers /\ WorkerExplained(w[c]) /\ w[c].pc = "update"
      BY <1>11 DEF TypeOK, AllExplained, UpdateConflict
    <3>2. w[c].attempts + 1 \in Nat
      BY <3>1 DEF Workers
    <3>3. wk \in Workers /\ WorkerExplained(wk)
      BY <3>1, <3>2 DEF Workers, WorkerExplained
    <3>4. w' = [w EXCEPT ![c] = wk] /\ UNCHANGED <<api, basis>>
      BY <1>11, <2>2 DEF UpdateConflict, TypeOK
    <3> HIDE DEF wk
    <3> QED
      BY <3>3, <3>4, WorkerStepExplained
  <2> QED
    BY <1>11, <2>1, <2>2 DEF UpdateConflict
<1>12. ASSUME NEW c \in Classes, UpdateSucceeds(c) PROVE AllExplained'
  <2>1. /\ api[c] \in Objects /\ w[c] \in Workers /\ w[c] # Nil
        /\ WorkerExplained(w[c]) /\ w[c].pc = "update"
    BY <1>12 DEF UpdateSucceeds, TypeOK, AllExplained
  <2>2. /\ api'[c].status = w[c].status
        /\ \A d \in Classes \ {c} : api'[d] = api[d]
    <3>1. CASE api[c].status = w[c].status /\ UNCHANGED <<api, rv, watch>>
      BY <3>1
    <3>2. CASE Store(c, [api[c] EXCEPT !.status = w[c].status, !.rv = rv[c] + 1])
      BY <2>1, <3>2 DEF Store, TypeOK, Objects
    <3> QED
      BY <1>12, <3>1, <3>2 DEF UpdateSucceeds
  <2>3. /\ basis'[c] = w[c].basis /\ w'[c] = Nil
        /\ \A d \in Classes \ {c} : basis'[d] = basis[d] /\ w'[d] = w[d]
    BY <1>12 DEF UpdateSucceeds, Return, TypeOK
  <2>4. basis'[c] # Nil /\ Explained(w[c].status, w[c].basis)
    BY <2>1, <2>3, ConstantsAssumption DEF Workers, WorkerExplained
  <2>5. ASSUME NEW d \in Classes PROVE ClassExplained(d)'
    <3>1. CASE d = c
      BY <2>2, <2>3, <2>4, <3>1 DEF ClassExplained
    <3>2. CASE d # c
      BY <2>2, <2>3, <3>2 DEF ClassExplained, AllExplained
    <3> QED
      BY <3>1, <3>2
  <2> QED
    BY <2>5 DEF AllExplained, ClassExplained
<1>13. ASSUME NEW c \in Classes, UpdateNotFound(c) PROVE AllExplained'
  BY <1>9, <1>13 DEF UpdateNotFound, Return
<1>14. ASSUME NEW c \in Classes, UpdateFails(c) PROVE AllExplained'
  BY <1>9, <1>14 DEF UpdateFails, Return
<1>15. ASSUME \/ UNCHANGED vars
              \/ \E c \in Classes : Deliver(c) \/ RetryFires(c) \/ GetFails(c)
              \/ \E n \in Nodes : ChangeKubelet(n)
              \/ Relist
       PROVE  UNCHANGED <<api, w, basis>>
  BY <1>15 DEF vars, Deliver, RetryFires, GetFails, ChangeKubelet, Relist
<1> QED
  BY <1>1, <1>2, <1>3, <1>4, <1>5, <1>6, <1>7, <1>8, <1>10, <1>11, <1>12, <1>13, <1>14,
     <1>15 DEF Next, Step

\* The initial state has no object at all.
LEMMA InitExplained == Init => AllClean /\ AllExplained
  BY DEF Init, AllClean, AllExplained

\* Objects stay clean and statuses explained.
LEMMA ExplainedAlways == Spec => [](TypeOK /\ AllClean /\ AllExplained)
<1>1. Init => TypeOK /\ AllClean /\ AllExplained
  BY InitType, InitExplained
<1>2. TypeOK /\ AllClean /\ AllExplained /\ [Next]_vars => (TypeOK /\ AllClean /\ AllExplained)'
  BY NextType, NextClean, NextExplained
<1> QED
  BY <1>1, <1>2, PTL DEF Spec

\* A ready status carries the DiscoveredFields object and the cluster domain
\* that the spec it was computed from needs (Reconcile, lines 101-126).
THEOREM ReadyIsUsable == Spec => []ReadyMeansUsable
<1>1. AllExplained => ReadyMeansUsable
  BY DEF AllExplained, Explained, ReadyMeansUsable, StateReady
<1> QED
  BY <1>1, ExplainedAlways, PTL

\* A stored status is never "initializing", carries the condition of its state,
\* and an error names a field its spec needs (updateStatus, lines 252-289).
THEOREM StatesAreExplained == Spec => []StateIsExplained
<1>1. AllExplained => StateIsExplained
  BY DEF AllExplained, Explained, Clean, StateIsExplained, StateError
<1> QED
  BY <1>1, ExplainedAlways, PTL

-----------------------------------------------------------------------------
(* Versions only grow on their way from the store to the status.           *)

\* What a step may do to the store and the informer of one class.
Stores(c) ==
    \E obj \in Objects \cup {Nil} :
      /\ Store(c, obj) /\ UNCHANGED cache
      /\ obj # Nil => /\ obj.rv = rv[c] + 1
                      /\ obj.uid = rv[c] + 1 \/ (api[c] # Nil /\ obj.uid = api[c].uid)

Delivers(c) ==
    /\ watch[c] # <<>>
    /\ cache' = [cache EXCEPT ![c] = Head(watch[c])]
    /\ watch' = [watch EXCEPT ![c] = Tail(@)]
    /\ UNCHANGED <<api, rv>>

Relists == UNCHANGED <<api, rv, cache>> /\ watch' = [c \in Classes |-> IF watch[c] = <<>> THEN <<>> ELSE <<api[c]>>]

Restarts == UNCHANGED <<api, rv>> /\ cache' = api /\ watch' = [c \in Classes |-> <<>>]

\* A step leaves the store, the events on their way and the cache of a class
\* alone, appends one event, delivers one, or starts the cache over.
LEMMA InformerSteps ==
    ASSUME TypeOK, [Next]_vars
    PROVE  \/ \E c \in Classes : Stores(c) \/ Delivers(c)
           \/ Relists \/ Restarts
           \/ UNCHANGED <<api, rv, watch, cache>>
<1>1. ASSUME NEW c \in Classes, CreateClass(c) PROVE Stores(c)
  <2>1. PICK request \in Requests :
          Store(c, [uid |-> rv[c] + 1, gen |-> 1, rv |-> rv[c] + 1,
                    spec |-> Default(request), status |-> NoStatus])
    BY <1>1 DEF CreateClass
  <2>2. Default(request) \in DNSClassSpec /\ rv[c] + 1 \in Nat
    BY ConstantsAssumption, DefaultType DEF TypeOK
  <2>3. [uid |-> rv[c] + 1, gen |-> 1, rv |-> rv[c] + 1,
         spec |-> Default(request), status |-> NoStatus] \in Objects
    BY <2>2, NoStatusClean DEF Objects
  <2> QED
    BY <1>1, <2>1, <2>3 DEF CreateClass, Stores
<1>2. ASSUME NEW c \in Classes, UpdateClass(c) PROVE Stores(c)
  <2> DEFINE new(request) ==
        [api[c] EXCEPT !.spec = Default(request), !.rv = rv[c] + 1,
                       !.gen = IF Default(request) = api[c].spec THEN @ ELSE @ + 1]
  <2>1. PICK request \in Requests : Store(c, new(request))
    BY <1>2 DEF UpdateClass
  <2>2. Default(request) \in DNSClassSpec
    BY ConstantsAssumption, DefaultType
  <2>3. api[c] \in Objects /\ api[c] # Nil
    BY <1>2 DEF TypeOK, UpdateClass
  <2>4. rv[c] + 1 \in Nat /\ api[c].gen \in Nat /\ api[c].gen + 1 \in Nat
    BY <2>3 DEF TypeOK, Objects
  <2>5. new(request) \in Objects /\ new(request).rv = rv[c] + 1 /\ new(request).uid = api[c].uid
    BY <2>2, <2>3, <2>4 DEF Objects
  <2> HIDE DEF new
  <2> QED
    BY <1>2, <2>1, <2>3, <2>5 DEF UpdateClass, Stores
<1>3. ASSUME NEW c \in Classes, DeleteClass(c) PROVE Stores(c)
  BY <1>3 DEF DeleteClass, Stores
<1>4. ASSUME NEW c \in Classes, UpdateSucceeds(c)
      PROVE  Stores(c) \/ UNCHANGED <<api, rv, watch, cache>>
  <2> DEFINE new == [api[c] EXCEPT !.status = w[c].status, !.rv = rv[c] + 1]
  <2>1. CASE UNCHANGED <<api, rv, watch>>
    BY <1>4, <2>1 DEF UpdateSucceeds
  <2>2. CASE Store(c, new)
    <3>1. api[c] \in Objects /\ api[c] # Nil /\ w[c] \in Workers
      BY <1>4 DEF TypeOK, UpdateSucceeds
    <3>2. rv[c] + 1 \in Nat /\ w[c].status \in DNSClassStatus
      BY <3>1 DEF TypeOK, Workers
    <3>3. new \in Objects /\ new.rv = rv[c] + 1 /\ new.uid = api[c].uid
      BY <3>1, <3>2 DEF Objects
    <3> HIDE DEF new
    <3> QED
      BY <1>4, <2>2, <3>1, <3>3 DEF UpdateSucceeds, Stores
  <2> QED
    BY <1>4, <2>1, <2>2 DEF UpdateSucceeds
<1>5. ASSUME NEW c \in Classes, Deliver(c) PROVE Delivers(c)
  BY <1>5 DEF Deliver, Delivers
<1>6. Relist => Relists
  BY DEF Relist, Relists
<1>7. Restart => Restarts
  BY DEF Restart, Restarts
<1> QED
  BY <1>1, <1>2, <1>3, <1>4, <1>5, <1>6, <1>7, QuietSteps

\* The events of a class after one more was stored.
LEMMA AppendWatch ==
    ASSUME TypeOK, NEW c \in Classes, NEW obj \in Objects \cup {Nil}, Store(c, obj)
    PROVE  /\ DOMAIN watch[c] = 1 .. Len(watch[c]) /\ Len(watch[c]) \in Nat
           /\ DOMAIN watch'[c] = 1 .. (Len(watch[c]) + 1)
           /\ \A i \in DOMAIN watch[c] : watch'[c][i] = watch[c][i]
           /\ watch'[c][Len(watch[c]) + 1] = obj
           /\ Len(watch'[c]) = Len(watch[c]) + 1 /\ watch'[c] # <<>>
<1>1. watch[c] \in Seq(Objects \cup {Nil}) /\ watch'[c] = Append(watch[c], obj)
  BY DEF TypeOK, Store
<1> QED
  BY <1>1

\* The events of a class after the first was delivered.
LEMMA TailWatch ==
    ASSUME TypeOK, NEW c \in Classes, Delivers(c)
    PROVE  /\ DOMAIN watch[c] = 1 .. Len(watch[c]) /\ Len(watch[c]) \in Nat /\ Len(watch[c]) >= 1
           /\ DOMAIN watch'[c] = 1 .. (Len(watch[c]) - 1)
           /\ \A i \in DOMAIN watch'[c] : watch'[c][i] = watch[c][i + 1]
           /\ Len(watch'[c]) = Len(watch[c]) - 1
           /\ cache'[c] = watch[c][1]
           /\ Len(watch[c]) = 1 <=> watch'[c] = <<>>
<1>1. /\ watch[c] \in Seq(Objects \cup {Nil}) /\ watch[c] # <<>>
      /\ watch'[c] = Tail(watch[c]) /\ cache'[c] = Head(watch[c])
  BY DEF TypeOK, Delivers
<1> DEFINE s == watch[c]
<1>2. /\ Len(s) \in Nat /\ Len(s) >= 1 /\ DOMAIN s = 1 .. Len(s) /\ Head(s) = s[1]
      /\ Len(Tail(s)) = Len(s) - 1
      /\ Tail(s) \in Seq(Objects \cup {Nil})
  BY <1>1
<1>3. DOMAIN Tail(s) = 1 .. (Len(s) - 1)
  BY <1>2
<1>4. \A i \in 1 .. (Len(s) - 1) : Tail(s)[i] = s[i + 1]
  BY <1>1, <1>2
<1>5. Len(s) = 1 <=> Tail(s) = <<>>
  <2> DEFINE t == Tail(s)
  <2>1. t # <<>> => Len(t) \in Nat \ {0}
    BY <1>2, EmptySeq
  <2>2. t = <<>> => Len(t) = 0
    BY EmptySeq
  <2>3. Len(t) = Len(s) - 1 /\ Len(s) \in Nat
    BY <1>2
  <2> HIDE DEF t, s
  <2>4. Len(s) = 1 <=> t = <<>>
    BY <2>1, <2>2, <2>3
  <2> QED
    BY <2>4 DEF t
<1> QED
  BY <1>1, <1>2, <1>3, <1>4, <1>5

\* One of the ways a step moves the store and the informer.
InformerStep ==
    \/ \E c \in Classes : Stores(c) \/ Delivers(c)
    \/ Relists \/ Restarts
    \/ UNCHANGED <<api, rv, watch, cache>>

\* A floor under the versions of a class stays one.
LEMMA FloorStays ==
    ASSUME TypeOK, InformerStep, NEW c \in Classes, InformerOrdered(c), NEW n \in Nat, Floor(c, n)
    PROVE  Floor(c, n)'
<1>1. rv[c] \in Nat
  BY DEF TypeOK
<1>2. ASSUME NEW d \in Classes, Stores(d) PROVE Floor(c, n)'
  <2>1. PICK obj \in Objects \cup {Nil} :
          Store(d, obj) /\ UNCHANGED cache /\ (obj # Nil => obj.rv = rv[d] + 1)
    BY <1>2 DEF Stores
  <2>2. CASE d = c
    <3>1. rv'[c] = rv[c] + 1 /\ cache'[c] = cache[c]
      BY <2>1, <2>2 DEF TypeOK, Store
    <3>2. \A i \in DOMAIN watch'[c] : watch'[c][i] # Nil => n <= watch'[c][i].rv
      BY <1>1, <2>1, <2>2, AppendWatch DEF Floor
    <3> QED
      BY <1>1, <3>1, <3>2 DEF Floor
  <2>3. CASE d # c
    BY <2>1, <2>3 DEF TypeOK, Store, Floor
  <2> QED
    BY <2>2, <2>3
<1>3. ASSUME NEW d \in Classes, Delivers(d) PROVE Floor(c, n)'
  <2>1. CASE d = c
    <3>1. \A i \in DOMAIN watch'[c] : watch'[c][i] # Nil => n <= watch'[c][i].rv
      BY <1>3, <2>1, TailWatch DEF Floor
    <3>2. cache'[c] # Nil => n <= cache'[c].rv
      BY <1>3, <2>1, TailWatch DEF Floor
    <3> QED
      BY <1>3, <3>1, <3>2 DEF Floor, Delivers
  <2>2. CASE d # c
    BY <1>3, <2>2 DEF TypeOK, Delivers, Floor
  <2> QED
    BY <2>1, <2>2
<1>4. ASSUME Relists PROVE Floor(c, n)'
  <2>1. watch'[c] = <<>> \/ watch'[c] = <<api[c]>>
    BY <1>4 DEF Relists
  <2>2. \A i \in DOMAIN watch'[c] : watch'[c][i] # Nil => n <= watch'[c][i].rv
    BY <1>1, <2>1 DEF Floor, InformerOrdered
  <2> QED
    BY <1>4, <2>2 DEF Floor, Relists
<1>5. ASSUME Restarts PROVE Floor(c, n)'
  <2>1. watch'[c] = <<>> /\ cache'[c] = api[c] /\ rv'[c] = rv[c]
    BY <1>5 DEF Restarts
  <2>2. DOMAIN watch'[c] = {}
    BY <2>1
  <2> QED
    BY <1>1, <2>1, <2>2 DEF Floor, InformerOrdered
<1>6. CASE UNCHANGED <<api, rv, watch, cache>>
  BY <1>6 DEF Floor
<1> QED
  BY <1>2, <1>3, <1>4, <1>5, <1>6 DEF InformerStep

\* The informer stays ordered.
LEMMA InformerStaysOrdered ==
    ASSUME TypeOK, InformerStep, NEW c \in Classes, InformerOrdered(c)
    PROVE  InformerOrdered(c)'
<1>1. rv[c] \in Nat
  BY DEF TypeOK
<1>2. \A i \in DOMAIN watch[c] : watch[c][i] \in Objects \cup {Nil}
  BY ElementOfSeq, LenProperties DEF TypeOK
<1>3. ASSUME NEW d \in Classes, Stores(d) PROVE InformerOrdered(c)'
  <2>1. PICK obj \in Objects \cup {Nil} :
          /\ Store(d, obj) /\ UNCHANGED cache
          /\ obj # Nil => /\ obj.rv = rv[d] + 1
                          /\ obj.uid = rv[d] + 1 \/ (api[d] # Nil /\ obj.uid = api[d].uid)
    BY <1>3 DEF Stores
  <2>2. CASE d = c
    <3>1. rv'[c] = rv[c] + 1 /\ cache'[c] = cache[c] /\ api'[c] = obj
      BY <2>1, <2>2 DEF TypeOK, Store
    <3>2. api[c] # Nil => api[c].uid \in Nat
      BY DEF TypeOK, Objects
    <3>3. obj # Nil => obj.uid <= rv[c] + 1 /\ obj.rv = rv[c] + 1
      BY <1>1, <2>1, <2>2, <3>2 DEF InformerOrdered
    <3>4. ASSUME cache'[c] # Nil PROVE cache'[c].uid <= rv'[c] /\ Floor(c, cache[c].rv)'
      <4>1. cache[c] \in Objects /\ cache[c].rv \in Nat /\ cache[c].uid \in Nat /\ Floor(c, cache[c].rv)
        BY <3>1, <3>4 DEF TypeOK, Objects, InformerOrdered
      <4>2. PICK n \in Nat : n = cache[c].rv
        BY <4>1
      <4>3. Floor(c, n)'
        BY <1>3, <4>1, <4>2, FloorStays DEF InformerStep
      <4>4. cache[c].uid <= rv[c]
        BY <3>1, <3>4 DEF InformerOrdered
      <4> QED
        BY <1>1, <3>1, <4>1, <4>2, <4>3, <4>4 DEF Floor
    <3>5. \A i \in DOMAIN watch'[c] :
            watch'[c][i] # Nil => watch'[c][i].uid <= rv'[c] /\ watch'[c][i].rv <= rv'[c]
      <4>1. ASSUME NEW i \in DOMAIN watch[c], watch[c][i] # Nil
            PROVE  watch[c][i].uid <= rv[c] + 1 /\ watch[c][i].rv <= rv[c] + 1
        BY <1>1, <1>2, <4>1 DEF InformerOrdered, Objects
      <4>2. /\ DOMAIN watch'[c] = 1..(Len(watch[c]) + 1) /\ DOMAIN watch[c] = 1..Len(watch[c])
            /\ Len(watch[c]) \in Nat /\ watch'[c][Len(watch[c]) + 1] = obj
            /\ \A i \in DOMAIN watch[c] : watch'[c][i] = watch[c][i]
        BY <1>1, <2>1, <2>2, AppendWatch
      <4>3. ASSUME NEW i \in DOMAIN watch'[c], watch'[c][i] # Nil
            PROVE  watch'[c][i].uid <= rv'[c] /\ watch'[c][i].rv <= rv'[c]
        <5>1. CASE i \in DOMAIN watch[c]
          BY <3>1, <4>1, <4>2, <4>3, <5>1
        <5>2. CASE i = Len(watch[c]) + 1
          <6>1. rv[c] + 1 <= rv[c] + 1
            BY <1>1 DEF TypeOK
          <6> QED
            BY <3>1, <3>3, <4>2, <4>3, <5>2, <6>1
        <5> QED
          BY <4>2, <4>3, <5>1, <5>2
      <4> QED
        BY <4>3
    <3>6. \A i, j \in DOMAIN watch'[c] :
            i < j /\ watch'[c][i] # Nil /\ watch'[c][j] # Nil => watch'[c][i].rv <= watch'[c][j].rv
      <4>1. ASSUME NEW i \in DOMAIN watch[c], watch[c][i] # Nil PROVE watch[c][i].rv <= rv[c] + 1
        BY <1>1, <1>2, <4>1 DEF InformerOrdered, Objects
      <4> QED
        BY <1>1, <2>1, <2>2, <3>3, <4>1, AppendWatch DEF InformerOrdered
    <3> QED
      BY <3>1, <3>3, <3>4, <3>5, <3>6 DEF InformerOrdered
  <2>3. CASE d # c
    BY <2>1, <2>3 DEF TypeOK, Store, Floor, InformerOrdered
  <2> QED
    BY <2>2, <2>3
<1>4. ASSUME NEW d \in Classes, Delivers(d) PROVE InformerOrdered(c)'
  <2>1. CASE d = c
    <3>1. UNCHANGED <<api, rv>>
      BY <1>4 DEF Delivers
    <3>0. ASSUME NEW i \in DOMAIN watch'[c]
          PROVE  /\ i \in Nat /\ i + 1 \in DOMAIN watch[c] /\ 1 \in DOMAIN watch[c] /\ 1 < i + 1
                 /\ watch'[c][i] = watch[c][i + 1] /\ watch'[c][i] \in Objects \cup {Nil}
      BY <1>2, <1>4, <2>1, TailWatch
    <3>2. ASSUME cache'[c] # Nil PROVE cache'[c].uid <= rv'[c] /\ Floor(c, cache[c].rv)'
      <4>1. /\ 1 \in DOMAIN watch[c] /\ cache'[c] = watch[c][1] /\ cache'[c] \in Objects
        BY <1>2, <1>4, <2>1, <3>2, TailWatch
      <4>2. cache'[c].rv \in Nat /\ cache'[c].uid <= rv[c] /\ cache'[c].rv <= rv[c]
        BY <3>2, <4>1 DEF InformerOrdered, Objects
      <4>3. ASSUME NEW i \in DOMAIN watch'[c], watch'[c][i] # Nil PROVE cache'[c].rv <= watch'[c][i].rv
        BY <3>0, <3>2, <4>1, <4>3 DEF InformerOrdered
      <4> QED
        BY <1>1, <3>1, <4>2, <4>3 DEF Floor
    <3>3. \A i \in DOMAIN watch'[c] :
            watch'[c][i] # Nil => watch'[c][i].uid <= rv'[c] /\ watch'[c][i].rv <= rv'[c]
      BY <3>0, <3>1 DEF InformerOrdered
    <3>4. ASSUME NEW i \in DOMAIN watch'[c], NEW j \in DOMAIN watch'[c],
                 i < j, watch'[c][i] # Nil, watch'[c][j] # Nil
          PROVE  watch'[c][i].rv <= watch'[c][j].rv
      <4>1. i + 1 \in DOMAIN watch[c] /\ j + 1 \in DOMAIN watch[c] /\ i + 1 < j + 1
        BY <3>0, <3>4
      <4>2. watch'[c][i] = watch[c][i + 1] /\ watch'[c][j] = watch[c][j + 1]
        BY <3>0
      <4> QED
        BY <3>4, <4>1, <4>2 DEF InformerOrdered
    <3> QED
      BY <3>1, <3>2, <3>3, <3>4 DEF InformerOrdered
  <2>2. CASE d # c
    BY <1>4, <2>2 DEF TypeOK, Delivers, Floor, InformerOrdered
  <2> QED
    BY <2>1, <2>2
<1>5. ASSUME Relists PROVE InformerOrdered(c)'
  <2>1. UNCHANGED <<api, rv, cache>> /\ (watch'[c] = <<>> \/ watch'[c] = <<api[c]>>)
    BY <1>5 DEF Relists
  <2>2. \A i \in DOMAIN watch'[c] : i = 1 /\ watch'[c][i] = api[c]
    BY <2>1
  <2>3. cache[c] # Nil => cache[c].rv <= rv[c]
    BY DEF InformerOrdered, Floor
  <2>4. ASSUME cache'[c] # Nil PROVE Floor(c, cache[c].rv)'
    BY <2>1, <2>2, <2>3, <2>4 DEF InformerOrdered, Floor
  <2>5. api[c] # Nil => api[c].rv \in Nat
    BY DEF TypeOK, Objects
  <2> QED
    BY <1>1, <2>1, <2>2, <2>4, <2>5 DEF InformerOrdered
<1>6. ASSUME Restarts PROVE InformerOrdered(c)'
  <2>1. watch'[c] = <<>> /\ cache'[c] = api[c] /\ UNCHANGED <<api, rv>>
    BY <1>6 DEF Restarts
  <2>2. DOMAIN watch'[c] = {}
    BY <2>1
  <2> QED
    BY <1>1, <2>1, <2>2 DEF Floor, InformerOrdered
<1>7. CASE UNCHANGED <<api, rv, watch, cache>>
  BY <1>7 DEF InformerOrdered, Floor
<1> QED
  BY <1>3, <1>4, <1>5, <1>6, <1>7 DEF InformerStep

\* What a step may do to the worker of a class and to the origin of its status.
Keeps(c) ==
    /\ basis'[c] \in {basis[c], Nil}
    /\ w'[c] # Nil => w[c] # Nil /\ w'[c].basis = w[c].basis

Starts(c) ==
    /\ basis'[c] = basis[c] /\ w[c] = Nil /\ cache[c] # Nil /\ cache'[c] = cache[c]
    /\ w'[c] = Started(cache[c])

Writes(c) == w[c] # Nil /\ w'[c] = Nil /\ basis'[c] = w[c].basis

\* What a step may do to the base of a class's worker and of its status.
LEMMA WorkerSteps ==
    ASSUME TypeOK, [Next]_vars, NEW c \in Classes
    PROVE  Keeps(c) \/ Starts(c) \/ Writes(c)
<1>1. ASSUME UNCHANGED w, basis'[c] \in {basis[c], Nil} PROVE Keeps(c)
  BY <1>1 DEF Keeps
<1>2. ASSUME NEW d \in Classes, CreateClass(d) \/ UpdateClass(d) \/ DeleteClass(d) PROVE Keeps(c)
  <2>1. UNCHANGED w /\ (UNCHANGED basis \/ basis' = [basis EXCEPT ![d] = Nil])
    BY <1>2 DEF CreateClass, UpdateClass, DeleteClass
  <2>2. basis'[c] \in {basis[c], Nil}
    BY <2>1 DEF TypeOK
  <2> QED
    BY <1>1, <2>1, <2>2
<1>3. ASSUME \/ UNCHANGED vars
             \/ \E d \in Classes : Deliver(d) \/ RetryFires(d) \/ GetFails(d)
             \/ \E n \in Nodes : ChangeKubelet(n)
             \/ Relist
      PROVE  Keeps(c)
  <2>1. UNCHANGED <<w, basis>>
    BY <1>3 DEF vars, Deliver, RetryFires, GetFails, ChangeKubelet, Relist
  <2> QED
    BY <1>1, <2>1
<1>4. ASSUME Restart PROVE Keeps(c)
  BY <1>4 DEF Restart, Keeps
<1>5. ASSUME NEW d \in Classes, StartReconcile(d) PROVE Keeps(c) \/ Starts(c)
  <2>1. /\ w[d] = Nil /\ UNCHANGED <<basis, cache>>
        /\ w' = [w EXCEPT ![d] = IF cache[d] = Nil THEN Nil ELSE Started(cache[d])]
    BY <1>5 DEF StartReconcile
  <2>2. CASE d = c
    BY <2>1, <2>2 DEF TypeOK, Keeps, Starts
  <2>3. CASE d # c
    BY <2>1, <2>3 DEF TypeOK, Keeps
  <2> QED
    BY <2>2, <2>3
<1>6. ASSUME NEW d \in Classes, NEW wk, w[d] # Nil, w' = [w EXCEPT ![d] = wk], UNCHANGED basis,
             wk # Nil => wk.basis = w[d].basis
      PROVE  Keeps(c)
  BY <1>6 DEF TypeOK, Keeps
<1>7. ASSUME NEW d \in Classes, DiscoverClusterDomain(d) PROVE Keeps(c)
  <2>1. PICK value \in Fetched("clusterDomain") :
          w' = [w EXCEPT ![d] = [AfterFetch(w[d], "clusterDomain", value) EXCEPT !.pc = "nameservers"]]
    BY <1>7 DEF DiscoverClusterDomain
  <2> DEFINE wk == [AfterFetch(w[d], "clusterDomain", value) EXCEPT !.pc = "nameservers"]
  <2>2. w[d] \in Workers /\ w[d] # Nil /\ UNCHANGED basis
    BY <1>7 DEF TypeOK, DiscoverClusterDomain
  <2>3. wk.basis = w[d].basis
    BY <2>2 DEF AfterFetch, Workers
  <2> HIDE DEF wk
  <2>4. w' = [w EXCEPT ![d] = wk]
    BY <2>1 DEF wk
  <2> QED
    BY <1>6, <2>2, <2>3, <2>4
<1>8. ASSUME NEW d \in Classes, DiscoverNameservers(d) PROVE Keeps(c)
  <2>1. PICK value \in Fetched("nameservers") :
          w' = [w EXCEPT ![d] = AfterDiscovery(AfterFetch(w[d], "nameservers", value))]
    BY <1>8 DEF DiscoverNameservers
  <2> DEFINE fetched == AfterFetch(w[d], "nameservers", value)
             wk == AfterDiscovery(fetched)
  <2>2. w[d] \in Workers /\ w[d] # Nil /\ UNCHANGED basis /\ value \in NSLists \cup {Nil}
    BY <1>8, FetchedType DEF TypeOK, DiscoverNameservers
  <2>3. fetched \in Workers /\ fetched.basis = w[d].basis
    BY <2>2, AfterFetchType DEF AfterFetch, Workers
  <2> HIDE DEF fetched
  <2>4. wk.basis = w[d].basis
    BY <2>3 DEF AfterDiscovery, Workers
  <2> HIDE DEF wk
  <2>5. w' = [w EXCEPT ![d] = wk]
    BY <2>1 DEF wk, fetched
  <2> QED
    BY <1>6, <2>2, <2>4, <2>5
<1>9. ASSUME NEW d \in Classes, NEW dropped \in BOOLEAN, w[d] # Nil, Return(d, dropped), UNCHANGED basis
      PROVE  Keeps(c)
  BY <1>6, <1>9 DEF Return
<1>10. ASSUME NEW d \in Classes, GetForUpdate(d) PROVE Keeps(c)
  <2>1. CASE Return(d, FALSE)
    BY <1>9, <1>10, <2>1 DEF GetForUpdate
  <2>2. CASE w' = [w EXCEPT ![d].pc = "update", ![d].dcrv = cache[d].rv]
    <3> DEFINE wk == [w[d] EXCEPT !.pc = "update", !.dcrv = cache[d].rv]
    <3>1. w[d] \in Workers /\ w[d] # Nil /\ UNCHANGED basis
      BY <1>10 DEF TypeOK, GetForUpdate
    <3>2. wk.basis = w[d].basis /\ w' = [w EXCEPT ![d] = wk]
      BY <2>2, <3>1 DEF Workers, TypeOK
    <3> HIDE DEF wk
    <3> QED
      BY <1>6, <3>1, <3>2
  <2> QED
    BY <1>10, <2>1, <2>2 DEF GetForUpdate
<1>11. ASSUME NEW d \in Classes, UpdateConflict(d) PROVE Keeps(c)
  <2>1. CASE Return(d, TRUE)
    BY <1>9, <1>11, <2>1 DEF UpdateConflict
  <2>2. CASE w' = [w EXCEPT ![d].pc = "get", ![d].attempts = @ + 1]
    <3> DEFINE wk == [w[d] EXCEPT !.pc = "get", !.attempts = @ + 1]
    <3>1. w[d] \in Workers /\ w[d] # Nil /\ UNCHANGED basis
      BY <1>11 DEF TypeOK, UpdateConflict
    <3>2. wk.basis = w[d].basis /\ w' = [w EXCEPT ![d] = wk]
      BY <2>2, <3>1 DEF Workers, TypeOK
    <3> HIDE DEF wk
    <3> QED
      BY <1>6, <3>1, <3>2
  <2> QED
    BY <1>11, <2>1, <2>2 DEF UpdateConflict
<1>12. ASSUME NEW d \in Classes, UpdateNotFound(d) PROVE Keeps(c)
  BY <1>9, <1>12 DEF UpdateNotFound
<1>13. ASSUME NEW d \in Classes, UpdateFails(d) PROVE Keeps(c)
  BY <1>9, <1>13 DEF UpdateFails
<1>14. ASSUME NEW d \in Classes, UpdateSucceeds(d) PROVE Keeps(c) \/ Writes(c)
  <2>1. w[d] # Nil /\ w' = [w EXCEPT ![d] = Nil] /\ basis' = [basis EXCEPT ![d] = w[d].basis]
    BY <1>14 DEF UpdateSucceeds, Return
  <2>2. CASE d = c
    BY <2>1, <2>2 DEF TypeOK, Writes
  <2>3. CASE d # c
    BY <2>1, <2>3 DEF TypeOK, Keeps
  <2> QED
    BY <2>2, <2>3
<1> QED
  BY <1>2, <1>3, <1>4, <1>5, <1>7, <1>8, <1>10, <1>11, <1>12, <1>13, <1>14 DEF Next, Step

\* The stored status stays behind the worker, and both behind the informer.
LEMMA StatusStaysOrdered ==
    ASSUME TypeOK, [Next]_vars, NEW c \in Classes, InformerOrdered(c), StatusOrdered(c)
    PROVE  StatusOrdered(c)'
<1>1. InformerStep
  BY InformerSteps DEF InformerStep
<1>2. /\ w[c] # Nil => w[c].basis.rv \in Nat
      /\ basis[c] # Nil => basis[c].rv \in Nat
      /\ cache[c] # Nil => cache[c].rv \in Nat
  BY DEF TypeOK, Workers, Bases, Objects
<1>3. ASSUME w[c] # Nil PROVE \A n \in Nat : n = w[c].basis.rv => Floor(c, n)'
  BY <1>1, <1>3, FloorStays DEF StatusOrdered
<1>4. ASSUME basis[c] # Nil PROVE \A n \in Nat : n = basis[c].rv => Floor(c, n)'
  BY <1>1, <1>4, FloorStays DEF StatusOrdered
<1>5. ASSUME cache[c] # Nil PROVE \A n \in Nat : n = cache[c].rv => Floor(c, n)'
  BY <1>1, <1>5, FloorStays DEF InformerOrdered
<1>6. CASE Keeps(c)
  BY <1>2, <1>3, <1>4, <1>6 DEF Keeps, StatusOrdered, Floor
<1>7. CASE Starts(c)
  <2>1. w'[c].basis.rv = cache[c].rv
    <3>1. ASSUME NEW obj PROVE Started(obj).basis = BasisOf(obj)
      BY DEF Started
    <3>2. w'[c].basis = BasisOf(cache[c])
      BY <1>7, <3>1 DEF Starts
    <3> QED
      BY <3>2 DEF BasisOf
  <2>2. basis[c] # Nil => basis[c].rv <= cache[c].rv
    BY <1>7 DEF Starts, StatusOrdered, Floor
  <2> QED
    BY <1>2, <1>4, <1>5, <1>7, <2>1, <2>2 DEF Starts, StatusOrdered, Floor
<1>8. CASE Writes(c)
  BY <1>2, <1>3, <1>8 DEF Writes, StatusOrdered, Floor
<1> QED
  BY <1>6, <1>7, <1>8, WorkerSteps

\* Versions stay ordered.
LEMMA OrderedAlways == Spec => [](TypeOK /\ VersionsOrdered)
<1>1. Init => TypeOK /\ VersionsOrdered
  <2>1. ASSUME Init, NEW c \in Classes PROVE InformerOrdered(c) /\ StatusOrdered(c)
    BY <2>1 DEF Init, InformerOrdered, StatusOrdered
  <2> QED
    BY <2>1, InitType DEF VersionsOrdered
<1>2. TypeOK /\ VersionsOrdered /\ [Next]_vars => (TypeOK /\ VersionsOrdered)'
  <2> SUFFICES ASSUME TypeOK, VersionsOrdered, [Next]_vars PROVE (TypeOK /\ VersionsOrdered)'
    OBVIOUS
  <2>1. InformerStep
    BY InformerSteps DEF InformerStep
  <2>2. ASSUME NEW c \in Classes PROVE (InformerOrdered(c) /\ StatusOrdered(c))'
    BY <2>1, InformerStaysOrdered, StatusStaysOrdered DEF VersionsOrdered
  <2> QED
    BY <2>2, NextType DEF VersionsOrdered
<1> QED
  BY <1>1, <1>2, PTL DEF Spec

\* While a class exists, its status never goes back to one computed from an
\* older version than the last (writeStatus, lines 291-309).
THEOREM NoRegress == Spec => StatusNeverRegresses
<1>1. TypeOK /\ VersionsOrdered /\ [Next]_vars =>
        [\A c \in Classes :
           basis[c] # Nil /\ basis'[c] # Nil => basis'[c].rv >= basis[c].rv]_vars
  <2> SUFFICES ASSUME TypeOK, VersionsOrdered, [Next]_vars, NEW c \in Classes,
                      basis[c] # Nil, basis'[c] # Nil
               PROVE  basis'[c].rv >= basis[c].rv
    OBVIOUS
  <2>1. basis[c].rv \in Nat /\ (w[c] # Nil => w[c].basis.rv \in Nat)
    BY DEF TypeOK, Bases, Workers
  <2>2. CASE Keeps(c) \/ Starts(c)
    BY <2>1, <2>2 DEF Keeps, Starts
  <2>3. CASE Writes(c)
    BY <2>1, <2>3 DEF Writes, VersionsOrdered, StatusOrdered
  <2> QED
    BY <2>2, <2>3, WorkerSteps
<1> QED
  BY <1>1, OrderedAlways, PTL DEF Spec, StatusNeverRegresses

-----------------------------------------------------------------------------
(* No wake-up is lost but the ones the history counts.                     *)

\* The last event on its way, or else the cache, stays what is stored.
LEMMA TipStays ==
    ASSUME TypeOK, TipIsStored, InformerStep
    PROVE  TipIsStored'
<1> DEFINE Tip(c) == api[c] = IF watch[c] = <<>> THEN cache[c] ELSE watch[c][Len(watch[c])]
<1>1. ASSUME NEW c \in Classes, NEW d \in Classes, Stores(d) PROVE Tip(c)'
  <2>1. PICK obj \in Objects \cup {Nil} : Store(d, obj) /\ UNCHANGED cache
    BY <1>1 DEF Stores
  <2>2. CASE d = c
    <3>1. api'[c] = obj
      BY <2>1, <2>2 DEF TypeOK, Store
    <3>2. watch'[c] # <<>> /\ watch'[c][Len(watch'[c])] = obj
      BY <2>1, <2>2, AppendWatch
    <3> QED
      BY <3>1, <3>2
  <2>3. CASE d # c
    BY <2>1, <2>3 DEF TypeOK, Store, TipIsStored
  <2> QED
    BY <2>2, <2>3
<1>2. ASSUME NEW c \in Classes, NEW d \in Classes, Delivers(d) PROVE Tip(c)'
  <2>1. CASE d = c
    <3>1. api'[c] = api[c] /\ api[c] = watch[c][Len(watch[c])]
      BY <1>2, <2>1 DEF Delivers, TipIsStored
    <3>2. CASE Len(watch[c]) = 1
      <4>1. watch'[c] = <<>> /\ cache'[c] = watch[c][1]
        BY <1>2, <2>1, <3>2, TailWatch
      <4> QED
        BY <3>1, <3>2, <4>1
    <3>3. CASE Len(watch[c]) # 1
      <4>1. /\ watch'[c] # <<>> /\ Len(watch'[c]) = Len(watch[c]) - 1
            /\ Len(watch[c]) - 1 \in DOMAIN watch'[c]
        BY <1>2, <2>1, <3>3, TailWatch
      <4>2. watch'[c][Len(watch[c]) - 1] = watch[c][Len(watch[c])]
        BY <1>2, <2>1, <4>1, TailWatch
      <4> QED
        BY <3>1, <4>1, <4>2
    <3> QED
      BY <3>2, <3>3
  <2>2. CASE d # c
    BY <1>2, <2>2 DEF TypeOK, Delivers, TipIsStored
  <2> QED
    BY <2>1, <2>2
<1>3. ASSUME NEW c \in Classes, Relists PROVE Tip(c)'
  <2>1. UNCHANGED <<api, cache>> /\ watch'[c] = IF watch[c] = <<>> THEN <<>> ELSE <<api[c]>>
    BY <1>3 DEF Relists
  <2>2. Len(<<api[c]>>) = 1 /\ <<api[c]>>[1] = api[c] /\ <<api[c]>> # <<>>
    OBVIOUS
  <2> QED
    BY <2>1, <2>2 DEF TipIsStored
<1>4. ASSUME NEW c \in Classes, Restarts PROVE Tip(c)'
  BY <1>4 DEF Restarts
<1>5. ASSUME UNCHANGED <<api, rv, watch, cache>> PROVE TipIsStored'
  BY <1>5 DEF TipIsStored
<1> QED
  BY <1>1, <1>2, <1>3, <1>4, <1>5 DEF InformerStep, TipIsStored

\* The part of NobodyForgotten that is about one class.
Remembered(c) ==
    lost[c] = {} /\ api[c] # Nil /\ cache[c] # Nil /\ cache[c].uid = api[c].uid => Answered(c)

\* A step about another class does not matter.
LEMMA RememberedElsewhere ==
    ASSUME NEW c \in Classes, Remembered(c),
           api'[c] = api[c], cache'[c] = cache[c], dirty'[c] = dirty[c], backoff'[c] = backoff[c],
           w'[c] = w[c], basis'[c] = basis[c], lost'[c] = lost[c]
    PROVE  Remembered(c)'
  BY DEF Remembered, Answered

\* A worker that goes on does not matter either.
LEMMA RememberedGoesOn ==
    ASSUME NEW c \in Classes, Remembered(c),
           UNCHANGED <<api, cache, dirty, basis, lost>>,
           w[c] # Nil, w'[c] # Nil, w'[c].basis = w[c].basis
    PROVE  Remembered(c)'
  BY DEF Remembered, Answered, SameSpec

\* The delivery of an event: it queues the class, or is counted as lost, or is
\* about the spec that was answered for before.
LEMMA RememberedDeliver ==
    ASSUME TypeOK, NEW c \in Classes, Remembered(c), Deliver(c)
    PROVE  Remembered(c)'
<1> DEFINE old == cache[c]
           new == Head(watch[c])
<1>1. cache'[c] = new /\ UNCHANGED <<api, w, backoff, basis>>
  BY DEF Deliver, TypeOK
<1>2. dirty'[c] = (dirty[c] \/ Enqueues(old, new))
  BY Zenon DEF Deliver, TypeOK
<1>3. lost'[c] = IF Conceals(old, new) THEN lost[c] \cup {"event"} ELSE lost[c]
  BY DEF Deliver, TypeOK
<1> SUFFICES ASSUME lost'[c] = {}, api[c] # Nil, new # Nil, new.uid = api[c].uid
             PROVE  Answered(c)'
  BY <1>1 DEF Remembered
<1>4. lost[c] = {} /\ ~Conceals(old, new)
  BY <1>3
<1>5. CASE Enqueues(old, new)
  BY <1>2, <1>5 DEF Answered
<1>6. CASE ~Enqueues(old, new)
  <2>1. old # Nil /\ old.gen = new.gen /\ old.uid = new.uid
    BY <1>4, <1>6 DEF Enqueues, Conceals
  <2>2. Answered(c)
    BY <1>4, <2>1 DEF Remembered
  <2> QED
    BY <1>1, <1>2, <2>1, <2>2 DEF Answered, SameSpec
<1> QED
  BY <1>5, <1>6

\* The write of a status: Ready for the spec the worker read, or to be retried.
LEMMA RememberedWrite ==
    ASSUME TypeOK, AllExplained, NEW c \in Classes, Remembered(c), UpdateSucceeds(c)
    PROVE  Remembered(c)'
<1>1. /\ api[c] \in Objects /\ api[c] # Nil /\ w[c] \in Workers /\ w[c] # Nil
      /\ w[c].pc = "update" /\ WorkerExplained(w[c])
  BY DEF UpdateSucceeds, TypeOK, AllExplained
<1>2. /\ UNCHANGED <<cache, dirty>> /\ w'[c] = Nil /\ lost'[c] = lost[c]
      /\ basis'[c] = w[c].basis
  BY DEF UpdateSucceeds, Return, TypeOK
<1>3. backoff'[c] = (backoff[c] \/ w[c].failed)
  BY Zenon DEF UpdateSucceeds, Return, TypeOK
<1>4. api'[c].status = w[c].status /\ api'[c].uid = api[c].uid
  <2>1. CASE api[c].status = w[c].status /\ UNCHANGED <<api, rv, watch>>
    BY <2>1
  <2>2. CASE Store(c, [api[c] EXCEPT !.status = w[c].status, !.rv = rv[c] + 1])
    BY <1>1, <2>2 DEF Store, TypeOK, Objects
  <2> QED
    BY <2>1, <2>2 DEF UpdateSucceeds
<1>5. w[c].failed \/ w[c].status.state = StateReady
  BY <1>1 DEF WorkerExplained, Workers
<1>6. basis'[c] # Nil
  BY <1>1, <1>2, ConstantsAssumption DEF Workers
<1> SUFFICES ASSUME lost[c] = {}, cache[c] # Nil, cache[c].uid = api[c].uid
             PROVE  Answered(c)'
  BY <1>1, <1>2, <1>4 DEF Remembered
<1>7. dirty[c] \/ SameSpec(w[c].basis, cache[c])
  BY <1>1 DEF Remembered, Answered
<1>8. CASE dirty[c]
  BY <1>2, <1>8 DEF Answered
<1>9. CASE w[c].failed
  BY <1>2, <1>3, <1>9 DEF Answered
<1>10. CASE SameSpec(w[c].basis, cache[c]) /\ w[c].status.state = StateReady
  BY <1>2, <1>4, <1>6, <1>10 DEF Answered, SameSpec
<1> QED
  BY <1>5, <1>7, <1>8, <1>9, <1>10

\* Every step keeps somebody answering for each class that exists.
LEMMA NextRemembered ==
    ASSUME TypeOK, AllExplained, VersionsOrdered, NobodyForgotten, [Next]_vars
    PROVE  NobodyForgotten'
<1> SUFFICES ASSUME NEW c \in Classes PROVE Remembered(c)'
  BY DEF NobodyForgotten, Remembered
<1>1. Remembered(c)
  BY DEF NobodyForgotten, Remembered
<1>2. ASSUME NEW d \in Classes, CreateClass(d) PROVE Remembered(c)'
  <2>1. UNCHANGED <<cache, dirty, backoff, w, lost>> /\ basis' = [basis EXCEPT ![d] = Nil]
    BY <1>2 DEF CreateClass
  <2>2. PICK request \in Requests :
          api' = [api EXCEPT ![d] = [uid |-> rv[d] + 1, gen |-> 1, rv |-> rv[d] + 1,
                                     spec |-> Default(request), status |-> NoStatus]]
    BY <1>2 DEF CreateClass, Store
  <2>3. CASE d = c
    <3>1. cache[c] # Nil => cache[c].uid <= rv[c] /\ cache[c].uid \in Nat /\ rv[c] \in Nat
      BY DEF VersionsOrdered, InformerOrdered, TypeOK, Objects
    <3>2. api'[c].uid = rv[c] + 1
      BY <2>2, <2>3 DEF TypeOK
    <3> QED
      BY <2>1, <3>1, <3>2 DEF Remembered
  <2>4. CASE d # c
    BY <1>1, <2>1, <2>2, <2>4, RememberedElsewhere DEF TypeOK
  <2> QED
    BY <2>3, <2>4
<1>3. ASSUME NEW d \in Classes, UpdateClass(d) PROVE Remembered(c)'
  <2>1. UNCHANGED <<cache, dirty, backoff, w, basis, lost>>
    BY <1>3 DEF UpdateClass
  <2>2. PICK request \in Requests :
          api' = [api EXCEPT ![d] = [api[d] EXCEPT !.spec = Default(request), !.rv = rv[d] + 1,
                                       !.gen = IF Default(request) = api[d].spec THEN @ ELSE @ + 1]]
    BY <1>3 DEF UpdateClass, Store
  <2>3. CASE d = c
    <3>1. api[c] \in Objects /\ api[c] # Nil
      BY <1>3, <2>3 DEF UpdateClass, TypeOK
    <3>2. api'[c].uid = api[c].uid /\ api'[c].status = api[c].status
      BY <2>2, <2>3, <3>1 DEF TypeOK, Objects
    <3> QED
      BY <1>1, <2>1, <3>1, <3>2 DEF Remembered, Answered
  <2>4. CASE d # c
    BY <1>1, <2>1, <2>2, <2>4, RememberedElsewhere DEF TypeOK
  <2> QED
    BY <2>3, <2>4
<1>4. ASSUME NEW d \in Classes, DeleteClass(d) PROVE Remembered(c)'
  <2>1. /\ UNCHANGED <<cache, dirty, backoff, w, lost>>
        /\ api' = [api EXCEPT ![d] = Nil] /\ basis' = [basis EXCEPT ![d] = Nil]
    BY <1>4 DEF DeleteClass, Store
  <2>2. CASE d = c
    BY <2>1, <2>2 DEF TypeOK, Remembered
  <2>3. CASE d # c
    BY <1>1, <2>1, <2>3, RememberedElsewhere DEF TypeOK
  <2> QED
    BY <2>2, <2>3
<1>5. ASSUME NEW d \in Classes, Deliver(d) PROVE Remembered(c)'
  <2>1. CASE d = c
    BY <1>1, <1>5, <2>1, RememberedDeliver
  <2>2. CASE d # c
    BY <1>1, <1>5, <2>2, RememberedElsewhere DEF TypeOK, Deliver
  <2> QED
    BY <2>1, <2>2
<1>6. ASSUME \/ UNCHANGED vars \/ Relist \/ \E n \in Nodes : ChangeKubelet(n)
      PROVE  Remembered(c)'
  <2>1. UNCHANGED <<api, cache, dirty, backoff, w, basis, lost>>
    BY <1>6 DEF vars, Relist, ChangeKubelet
  <2> QED
    BY <1>1, <2>1, RememberedElsewhere
<1>7. ASSUME Restart PROVE Remembered(c)'
  <2>1. api' = api /\ w'[c] = Nil /\ dirty'[c] = (api[c] # Nil)
    BY <1>7 DEF Restart
  <2> QED
    BY <2>1 DEF Remembered, Answered
<1>8. ASSUME NEW d \in Classes, StartReconcile(d) PROVE Remembered(c)'
  <2>1. /\ UNCHANGED <<api, cache, backoff, basis>>
        /\ w' = [w EXCEPT ![d] = IF cache[d] = Nil THEN Nil ELSE Started(cache[d])]
        /\ dirty' = [dirty EXCEPT ![d] = FALSE] /\ lost' = [lost EXCEPT ![d] = {}]
    BY <1>8 DEF StartReconcile
  <2>2. CASE d = c
    <3>1. SUFFICES ASSUME cache[c] # Nil PROVE Answered(c)'
      BY <2>1 DEF Remembered
    <3>2. w'[c] = Started(cache[c])
      BY <2>1, <2>2, <3>1 DEF TypeOK
    <3>3. ASSUME NEW obj PROVE Started(obj).basis = BasisOf(obj)
      BY DEF Started
    <3>4. w'[c].basis = BasisOf(cache[c])
      BY <3>2, <3>3
    <3>5. w'[c] # Nil
      BY <3>1, <3>2, StartedType, ConstantsAssumption DEF TypeOK
    <3> QED
      BY <2>1, <3>4, <3>5 DEF Answered, SameSpec, BasisOf
  <2>3. CASE d # c
    BY <1>1, <2>1, <2>3, RememberedElsewhere DEF TypeOK
  <2> QED
    BY <2>2, <2>3
<1>9. ASSUME NEW d \in Classes, GetFails(d) PROVE Remembered(c)'
  <2>1. CASE d = c
    <3>1. w'[c] = Nil /\ backoff'[c] = TRUE
      BY <1>9, <2>1 DEF GetFails, TypeOK
    <3> QED
      BY <3>1 DEF Remembered, Answered
  <2>2. CASE d # c
    BY <1>1, <1>9, <2>2, RememberedElsewhere DEF TypeOK, GetFails
  <2> QED
    BY <2>1, <2>2
<1>10. ASSUME NEW d \in Classes, RetryFires(d) PROVE Remembered(c)'
  <2>1. CASE d = c
    <3>1. dirty'[c] = TRUE
      BY <1>10, <2>1 DEF RetryFires, TypeOK
    <3> QED
      BY <3>1 DEF Remembered, Answered
  <2>2. CASE d # c
    BY <1>1, <1>10, <2>2, RememberedElsewhere DEF TypeOK, RetryFires
  <2> QED
    BY <2>1, <2>2
<1>11. ASSUME NEW d \in Classes, NEW wk \in Workers, w[d] # Nil, wk.basis = w[d].basis,
              w' = [w EXCEPT ![d] = wk], UNCHANGED <<api, cache, dirty, backoff, basis, lost>>
       PROVE  Remembered(c)'
  <2>1. CASE d = c
    <3>1. w'[c] = wk /\ wk # Nil
      BY <1>11, <2>1, ConstantsAssumption DEF TypeOK
    <3> QED
      BY <1>1, <1>11, <2>1, <3>1, RememberedGoesOn
  <2>2. CASE d # c
    BY <1>1, <1>11, <2>2, RememberedElsewhere DEF TypeOK
  <2> QED
    BY <2>1, <2>2
<1>12. ASSUME NEW d \in Classes, DiscoverClusterDomain(d) PROVE Remembered(c)'
  <2>1. PICK value \in Fetched("clusterDomain") :
          w' = [w EXCEPT ![d] = [AfterFetch(w[d], "clusterDomain", value) EXCEPT !.pc = "nameservers"]]
    BY <1>12 DEF DiscoverClusterDomain
  <2> DEFINE fetched == AfterFetch(w[d], "clusterDomain", value)
             wk == [fetched EXCEPT !.pc = "nameservers"]
  <2>2. w[d] \in Workers /\ w[d] # Nil /\ value \in Domains \cup {Nil}
    BY <1>12, FetchedType DEF TypeOK, DiscoverClusterDomain
  <2>3. fetched \in Workers /\ fetched.basis = w[d].basis
    BY <2>2, AfterFetchType DEF AfterFetch, Workers
  <2> HIDE DEF fetched
  <2>4. wk \in Workers /\ wk.basis = w[d].basis
    BY <2>3 DEF Workers
  <2>5. w' = [w EXCEPT ![d] = wk] /\ UNCHANGED <<api, cache, dirty, backoff, basis, lost>>
    BY <1>12, <2>1 DEF DiscoverClusterDomain, fetched
  <2> HIDE DEF wk
  <2> QED
    BY <1>11, <2>2, <2>4, <2>5
<1>13. ASSUME NEW d \in Classes, DiscoverNameservers(d) PROVE Remembered(c)'
  <2>1. PICK value \in Fetched("nameservers") :
          w' = [w EXCEPT ![d] = AfterDiscovery(AfterFetch(w[d], "nameservers", value))]
    BY <1>13 DEF DiscoverNameservers
  <2> DEFINE fetched == AfterFetch(w[d], "nameservers", value)
             wk == AfterDiscovery(fetched)
  <2>2. w[d] \in Workers /\ w[d] # Nil /\ value \in NSLists \cup {Nil}
    BY <1>13, FetchedType DEF TypeOK, DiscoverNameservers
  <2>3. fetched \in Workers /\ fetched.basis = w[d].basis
    BY <2>2, AfterFetchType DEF AfterFetch, Workers
  <2> HIDE DEF fetched
  <2>4. wk \in Workers
    BY <2>3, AfterDiscoveryType
  <2>5. wk.basis = w[d].basis
    BY <2>3 DEF AfterDiscovery, Workers
  <2>6. w' = [w EXCEPT ![d] = wk] /\ UNCHANGED <<api, cache, dirty, backoff, basis, lost>>
    BY <1>13, <2>1 DEF DiscoverNameservers, fetched
  <2> HIDE DEF wk
  <2> QED
    BY <1>11, <2>2, <2>4, <2>5, <2>6
<1>14. ASSUME NEW d \in Classes, NEW dropped \in BOOLEAN, Return(d, dropped),
              UNCHANGED <<api, cache, dirty, basis>>,
              dropped \/ api[d] = Nil \/ cache[d] = Nil
       PROVE  Remembered(c)'
  <2>1. CASE d = c
    <3>1. dropped => lost'[c] # {}
      BY <1>14, <2>1 DEF Return, TypeOK
    <3> QED
      BY <1>14, <2>1, <3>1 DEF Remembered
  <2>2. CASE d # c
    BY <1>1, <1>14, <2>2, RememberedElsewhere DEF TypeOK, Return
  <2> QED
    BY <2>1, <2>2
<1>15. ASSUME NEW d \in Classes, GetForUpdate(d) PROVE Remembered(c)'
  <2>1. CASE cache[d] = Nil /\ Return(d, FALSE)
    BY <1>14, <1>15, <2>1 DEF GetForUpdate
  <2>2. CASE cache[d] # Nil /\ w' = [w EXCEPT ![d].pc = "update", ![d].dcrv = cache[d].rv]
                            /\ UNCHANGED <<backoff, lost>>
    <3> DEFINE wk == [w[d] EXCEPT !.pc = "update", !.dcrv = cache[d].rv]
    <3>1. w[d] \in Workers /\ w[d] # Nil /\ cache[d].rv \in Nat
      BY <1>15, <2>2 DEF TypeOK, GetForUpdate, Objects
    <3>2. wk \in Workers /\ wk.basis = w[d].basis
      BY <3>1 DEF Workers
    <3>3. w' = [w EXCEPT ![d] = wk] /\ UNCHANGED <<api, cache, dirty, backoff, basis, lost>>
      BY <1>15, <2>2 DEF GetForUpdate, TypeOK
    <3> HIDE DEF wk
    <3> QED
      BY <1>11, <3>1, <3>2, <3>3
  <2> QED
    BY <1>15, <2>1, <2>2 DEF GetForUpdate
<1>16. ASSUME NEW d \in Classes, UpdateNotFound(d) PROVE Remembered(c)'
  BY <1>14, <1>16 DEF UpdateNotFound
<1>17. ASSUME NEW d \in Classes, UpdateConflict(d) PROVE Remembered(c)'
  <2>1. CASE Return(d, TRUE)
    BY <1>14, <1>17, <2>1 DEF UpdateConflict
  <2>2. CASE w' = [w EXCEPT ![d].pc = "get", ![d].attempts = @ + 1] /\ UNCHANGED <<backoff, lost>>
    <3> DEFINE wk == [w[d] EXCEPT !.pc = "get", !.attempts = @ + 1]
    <3>1. w[d] \in Workers /\ w[d] # Nil
      BY <1>17 DEF TypeOK, UpdateConflict
    <3>2. w[d].attempts + 1 \in Nat
      BY <3>1 DEF Workers
    <3>3. wk \in Workers /\ wk.basis = w[d].basis
      BY <3>1, <3>2 DEF Workers
    <3>4. w' = [w EXCEPT ![d] = wk] /\ UNCHANGED <<api, cache, dirty, backoff, basis, lost>>
      BY <1>17, <2>2 DEF UpdateConflict, TypeOK
    <3> HIDE DEF wk
    <3> QED
      BY <1>11, <3>1, <3>3, <3>4
  <2> QED
    BY <1>17, <2>1, <2>2 DEF UpdateConflict
<1>18. ASSUME NEW d \in Classes, UpdateSucceeds(d) PROVE Remembered(c)'
  <2>1. CASE d = c
    BY <1>1, <1>18, <2>1, RememberedWrite
  <2>2. CASE d # c
    <3>1. /\ UNCHANGED <<cache, dirty>> /\ w'[c] = w[c] /\ basis'[c] = basis[c]
          /\ backoff'[c] = backoff[c] /\ lost'[c] = lost[c]
      BY <1>18, <2>2 DEF UpdateSucceeds, Return, TypeOK
    <3>2. api'[c] = api[c]
      BY <1>18, <2>2 DEF UpdateSucceeds, Store, TypeOK
    <3> QED
      BY <1>1, <3>1, <3>2, RememberedElsewhere
  <2> QED
    BY <2>1, <2>2
<1>19. ASSUME NEW d \in Classes, UpdateFails(d) PROVE Remembered(c)'
  BY <1>14, <1>19 DEF UpdateFails
<1> QED
  BY <1>2, <1>3, <1>4, <1>5, <1>6, <1>7, <1>8, <1>9, <1>10, <1>12, <1>13, <1>15, <1>16,
     <1>17, <1>18, <1>19 DEF Next, Step

\* The inductive invariant holds in every state.
THEOREM Inductive == Spec => []IInv
<1>1. Init => TipIsStored /\ NobodyForgotten
  BY DEF Init, TipIsStored, NobodyForgotten
<1>2. /\ TypeOK /\ AllExplained /\ VersionsOrdered /\ TipIsStored /\ NobodyForgotten /\ [Next]_vars
      => (TipIsStored /\ NobodyForgotten)'
  <2> SUFFICES ASSUME TypeOK, AllExplained, VersionsOrdered, TipIsStored, NobodyForgotten, [Next]_vars
               PROVE  (TipIsStored /\ NobodyForgotten)'
    OBVIOUS
  <2>1. TipIsStored'
    BY InformerSteps, TipStays DEF InformerStep
  <2> QED
    BY <2>1, NextRemembered
<1> QED
  BY <1>1, <1>2, ExplainedAlways, OrderedAlways, PTL DEF Spec, IInv

\* When nothing is left to do for a class, its status is Ready for the spec it
\* has now, unless a write was dropped or a recreation concealed since its last
\* reconcile began (Reconcile, the predicate and the workqueue together).
THEOREM NoneForgotten == Spec => []NothingForgotten
<1>1. IInv => NothingForgotten
  <2> SUFFICES ASSUME IInv, NEW c \in Classes, api[c] # Nil, Quiet(c), lost[c] = {}
               PROVE  Current(c) /\ api[c].status.state = StateReady
    BY DEF NothingForgotten
  <2>1. cache[c] = api[c]
    BY DEF IInv, TipIsStored, Quiet
  <2>2. Answered(c)
    BY <2>1 DEF IInv, NobodyForgotten
  <2> QED
    BY <2>1, <2>2 DEF Answered, Quiet, SameSpec, Current
<1> QED
  BY <1>1, Inductive, PTL

-----------------------------------------------------------------------------
(* What one controller does for a class when it may not be alone: facts     *)
(* about its own steps that do not need it to be the only one that writes.  *)

(* Generations on their way from the store to the cache. *)

\* The stored generation of an object is the newest.
GenerationsOrdered(c) ==
    api[c] # Nil =>
      /\ cache[c] # Nil /\ cache[c].uid = api[c].uid => cache[c].gen <= api[c].gen
      /\ \A i \in DOMAIN watch[c] :
           watch[c][i] # Nil /\ watch[c][i].uid = api[c].uid => watch[c][i].gen <= api[c].gen

Grows(c) ==
    api[c] # Nil /\ api'[c] # Nil /\ api'[c].uid = api[c].uid => api[c].gen <= api'[c].gen

\* A generation is never taken back.
LEMMA GenerationGrows ==
    ASSUME TypeOK, [Next]_vars, NEW c \in Classes
    PROVE  Grows(c)
<1>1. api[c] # Nil => api[c] \in Objects /\ api[c].gen \in Nat
  BY DEF TypeOK, Objects
<1>2. ASSUME NEW d \in Classes, CreateClass(d) PROVE Grows(c)
  <2>1. api[d] = Nil /\ (d # c => api'[c] = api[c])
    BY <1>2 DEF CreateClass, Store, TypeOK
  <2> QED
    BY <1>1, <2>1 DEF Grows
<1>3. ASSUME NEW d \in Classes, UpdateClass(d) PROVE Grows(c)
  <2>1. PICK request \in Requests :
          api' = [api EXCEPT ![d] = [api[d] EXCEPT !.spec = Default(request), !.rv = rv[d] + 1,
                                       !.gen = IF Default(request) = api[d].spec THEN @ ELSE @ + 1]]
    BY <1>3 DEF UpdateClass, Store
  <2>2. CASE d = c
    <3>1. api[c] \in Objects /\ api[c] # Nil /\ api[c].gen \in Nat
      BY <1>1, <1>3, <2>2 DEF UpdateClass
    <3>2. api'[c].gen \in {api[c].gen, api[c].gen + 1}
      BY <2>1, <2>2, <3>1 DEF TypeOK, Objects
    <3> QED
      BY <3>1, <3>2 DEF Grows
  <2>3. CASE d # c
    BY <1>1, <2>1, <2>3 DEF TypeOK, Grows
  <2> QED
    BY <2>2, <2>3
<1>4. ASSUME NEW d \in Classes, DeleteClass(d) PROVE Grows(c)
  BY <1>1, <1>4 DEF DeleteClass, Store, TypeOK, Grows
<1>5. ASSUME NEW d \in Classes, UpdateSucceeds(d) PROVE Grows(c)
  <2>1. CASE UNCHANGED <<api, rv, watch>>
    BY <1>1, <2>1 DEF Grows
  <2>2. CASE Store(d, [api[d] EXCEPT !.status = w[d].status, !.rv = rv[d] + 1])
    <3>1. api[d] \in Objects
      BY <1>5 DEF UpdateSucceeds, TypeOK
    <3>2. api[c] # Nil => api'[c].gen = api[c].gen
      BY <2>2, <3>1 DEF Store, TypeOK, Objects
    <3> QED
      BY <1>1, <3>2 DEF Grows
  <2> QED
    BY <1>5, <2>1, <2>2 DEF UpdateSucceeds
<1>6. ASSUME UNCHANGED api PROVE Grows(c)
  BY <1>1, <1>6 DEF Grows
<1> QED
  BY <1>2, <1>3, <1>4, <1>5, <1>6, QuietSteps DEF Deliver, Relist, Restart

\* So the generations stay ordered.
LEMMA GenerationsStayOrdered ==
    ASSUME TypeOK, InformerStep, NEW c \in Classes, InformerOrdered(c), GenerationsOrdered(c), Grows(c)
    PROVE  GenerationsOrdered(c)'
<1> USE DEF GenerationsOrdered
<1>1. rv[c] \in Nat /\ (api[c] # Nil => api[c].gen \in Nat)
  BY DEF TypeOK, Objects
<1>2. ASSUME NEW d \in Classes, Stores(d) PROVE GenerationsOrdered(c)'
  <2>1. PICK obj \in Objects \cup {Nil} :
          /\ Store(d, obj) /\ UNCHANGED cache
          /\ obj # Nil => obj.uid = rv[d] + 1 \/ (api[d] # Nil /\ obj.uid = api[d].uid)
    BY <1>2 DEF Stores
  <2>2. CASE d = c
    <3>1. api'[c] = obj /\ cache'[c] = cache[c]
      BY <2>1, <2>2 DEF TypeOK, Store
    <3> SUFFICES ASSUME obj # Nil PROVE GenerationsOrdered(c)'
      BY <3>1
    <3>2. obj.gen \in Nat
      BY DEF Objects
    <3>3. ASSUME NEW o \in Objects, o.uid <= rv[c], o.uid = obj.uid,
                 api[c] # Nil /\ o.uid = api[c].uid => o.gen <= api[c].gen
          PROVE  o.gen <= obj.gen
      <4>1. o.uid \in Nat /\ o.gen \in Nat
        BY DEF Objects
      <4>2. api[c] # Nil /\ obj.uid = api[c].uid
        BY <1>1, <2>1, <2>2, <3>3, <4>1
      <4> QED
        BY <1>1, <3>1, <3>2, <3>3, <4>1, <4>2 DEF Grows
    <3>4. cache[c] # Nil /\ cache[c].uid = obj.uid => cache[c].gen <= obj.gen
      BY <3>3 DEF InformerOrdered, TypeOK
    <3>5. \A i \in DOMAIN watch[c] :
            watch[c][i] # Nil /\ watch[c][i].uid = obj.uid => watch[c][i].gen <= obj.gen
      <4>1. \A i \in DOMAIN watch[c] : watch[c][i] # Nil => watch[c][i] \in Objects
        BY DEF TypeOK
      <4> QED
        BY <3>3, <4>1 DEF InformerOrdered
    <3>6. \A i \in DOMAIN watch'[c] :
            watch'[c][i] # Nil /\ watch'[c][i].uid = obj.uid => watch'[c][i].gen <= obj.gen
      BY <2>1, <2>2, <3>2, <3>5, AppendWatch
    <3> QED
      BY <3>1, <3>4, <3>6
  <2>3. CASE d # c
    BY <2>1, <2>3 DEF TypeOK, Store
  <2> QED
    BY <2>2, <2>3
<1>3. ASSUME NEW d \in Classes, Delivers(d) PROVE GenerationsOrdered(c)'
  <2>1. CASE d = c
    <3>1. api' = api
      BY <1>3 DEF Delivers
    <3> QED
      BY <1>3, <2>1, <3>1, TailWatch
  <2>2. CASE d # c
    BY <1>3, <2>2 DEF TypeOK, Delivers
  <2> QED
    BY <2>1, <2>2
<1>4. ASSUME Relists PROVE GenerationsOrdered(c)'
  <2>1. /\ watch'[c] = <<>> \/ watch'[c] = <<api[c]>>
        /\ UNCHANGED <<api, cache>>
    BY <1>4 DEF Relists
  <2> QED
    BY <1>1, <2>1
<1>5. ASSUME Restarts PROVE GenerationsOrdered(c)'
  <2>1. watch'[c] = <<>> /\ cache'[c] = api[c] /\ api' = api
    BY <1>5 DEF Restarts
  <2> QED
    BY <1>1, <2>1
<1>6. CASE UNCHANGED <<api, rv, watch, cache>>
  BY <1>6
<1> QED
  BY <1>2, <1>3, <1>4, <1>5, <1>6 DEF InformerStep

-----------------------------------------------------------------------------
(* Who answers for a class that exists.                                    *)

\* This controller still has something to do for the class, or to hear of it.
Pending(c) ==
    \/ dirty[c] \/ backoff[c]
    \/ cache[c] = Nil \/ ~SameSpec(cache[c], api[c])
    \/ w[c] # Nil /\ SameSpec(w[c].basis, api[c])

\* The stored status is Ready, for the spec the class has now.
Settled(c) ==
    basis[c] # Nil /\ SameSpec(basis[c], api[c]) /\ api[c].status.state = StateReady

\* A worker that read another spec than the cache has is called again.
WorkerCurrent(c) ==
    lost[c] = {} /\ w[c] # Nil /\ cache[c] # Nil => dirty[c] \/ SameSpec(w[c].basis, cache[c])

\* While a worker of class c runs, only an event changes what it is held against.
LEMMA RunningWorker ==
    ASSUME TypeOK, [Next]_vars, NEW c \in Classes, w[c] # Nil, w'[c] # Nil
    PROVE  \/ Deliver(c)
           \/ /\ cache'[c] = cache[c] /\ lost'[c] = lost[c]
              /\ dirty[c] => dirty'[c]
<1>1. ASSUME NEW d \in Classes, CreateClass(d) \/ UpdateClass(d) \/ DeleteClass(d)
                                \/ DiscoverClusterDomain(d) \/ DiscoverNameservers(d)
      PROVE  UNCHANGED <<cache, dirty, lost>>
  BY <1>1 DEF CreateClass, UpdateClass, DeleteClass, DiscoverClusterDomain, DiscoverNameservers
<1>2. ASSUME UNCHANGED vars \/ Relist \/ \E n \in Nodes : ChangeKubelet(n)
      PROVE  UNCHANGED <<cache, dirty, lost>>
  BY <1>2 DEF vars, Relist, ChangeKubelet
<1>3. ASSUME Restart PROVE FALSE
  BY <1>3 DEF Restart
<1>4. ASSUME NEW d \in Classes, Deliver(d), d # c
      PROVE  cache'[c] = cache[c] /\ lost'[c] = lost[c] /\ dirty'[c] = dirty[c]
  BY <1>4 DEF Deliver, TypeOK
<1>5. ASSUME NEW d \in Classes, StartReconcile(d) \/ GetFails(d)
      PROVE  cache'[c] = cache[c] /\ lost'[c] = lost[c] /\ dirty'[c] = dirty[c]
  BY <1>5 DEF StartReconcile, GetFails, TypeOK
<1>6. ASSUME NEW d \in Classes, RetryFires(d)
      PROVE  cache'[c] = cache[c] /\ lost'[c] = lost[c] /\ (dirty[c] => dirty'[c])
  BY <1>6 DEF RetryFires, TypeOK
<1>7. ASSUME NEW d \in Classes, NEW dropped \in BOOLEAN, Return(d, dropped)
      PROVE  lost'[c] = lost[c]
  BY <1>7 DEF Return, TypeOK
<1>8. ASSUME NEW d \in Classes, GetForUpdate(d) \/ UpdateNotFound(d) \/ UpdateConflict(d)
                                \/ UpdateSucceeds(d) \/ UpdateFails(d)
      PROVE  UNCHANGED <<cache, dirty>> /\ lost'[c] = lost[c]
  BY <1>7, <1>8 DEF GetForUpdate, UpdateNotFound, UpdateConflict, UpdateSucceeds, UpdateFails
<1> QED
  BY <1>1, <1>2, <1>3, <1>4, <1>5, <1>6, <1>8 DEF Next, Step

\* So a running worker stays one that is current, or is called again.
LEMMA WorkerStaysCurrent ==
    ASSUME TypeOK, [Next]_vars, NEW c \in Classes, WorkerCurrent(c)
    PROVE  WorkerCurrent(c)'
<1> SUFFICES ASSUME lost'[c] = {}, w'[c] # Nil, cache'[c] # Nil
             PROVE  dirty'[c] \/ SameSpec(w'[c].basis, cache'[c])
  BY DEF WorkerCurrent
<1>1. CASE Starts(c)
  <2>1. ASSUME NEW obj PROVE Started(obj).basis = BasisOf(obj)
    BY DEF Started
  <2>2. w'[c].basis = BasisOf(cache'[c])
    BY <1>1, <2>1 DEF Starts
  <2> QED
    BY <2>2 DEF SameSpec, BasisOf
<1>2. CASE Keeps(c) /\ ~Deliver(c)
  BY <1>2, RunningWorker DEF Keeps, WorkerCurrent
<1>3. CASE Deliver(c)
  <2> DEFINE old == cache[c]
             new == Head(watch[c])
  <2>1. cache'[c] = new /\ w' = w
    BY <1>3 DEF Deliver, TypeOK
  <2>2. dirty'[c] = (dirty[c] \/ Enqueues(old, new))
    BY <1>3, Zenon DEF Deliver, TypeOK
  <2>3. lost[c] = {} /\ ~Conceals(old, new)
    BY <1>3 DEF Deliver, TypeOK
  <2>4. CASE ~Enqueues(old, new)
    <3>1. old # Nil /\ old.gen = new.gen /\ old.uid = new.uid
      BY <2>1, <2>3, <2>4 DEF Enqueues, Conceals
    <3> QED
      BY <2>1, <2>2, <2>3, <3>1 DEF WorkerCurrent, SameSpec
  <2> QED
    BY <2>2, <2>4
<1> QED
  BY <1>1, <1>2, <1>3, WorkerSteps DEF Writes

\* The step neither takes the class from those who answer for it, nor matters
\* to anyone else who does.
LeavesAnswered(c) ==
    /\ api[c] # Nil /\ SameSpec(api'[c], api[c]) /\ lost[c] = {}
    /\ Pending(c) => Pending(c)'
    /\ Settled(c) => Settled(c)'

\* Between its two fetches and after them, a worker goes on.
LEMMA WorkerGoesOn ==
    ASSUME TypeOK, NEW c \in Classes, DiscoverClusterDomain(c) \/ DiscoverNameservers(c)
    PROVE  w'[c] # Nil
<1>1. w[c] \in Workers
  BY DEF TypeOK, DiscoverClusterDomain, DiscoverNameservers
<1>2. CASE DiscoverClusterDomain(c)
  <2>1. PICK value \in Fetched("clusterDomain") :
          w' = [w EXCEPT ![c] = [AfterFetch(w[c], "clusterDomain", value) EXCEPT !.pc = "nameservers"]]
    BY <1>2 DEF DiscoverClusterDomain
  <2> DEFINE fetched == AfterFetch(w[c], "clusterDomain", value)
  <2>2. fetched \in Workers
    <3>1. value \in Domains \cup {Nil}
      BY FetchedType DEF TypeOK
    <3> QED
      BY <1>1, <3>1, AfterFetchType
  <2> HIDE DEF fetched
  <2>3. [fetched EXCEPT !.pc = "nameservers"] \in Workers
    BY <2>2 DEF Workers
  <2> QED
    BY <2>1, <2>3, ConstantsAssumption DEF TypeOK, fetched
<1>3. CASE DiscoverNameservers(c)
  <2>1. PICK value \in Fetched("nameservers") :
          w' = [w EXCEPT ![c] = AfterDiscovery(AfterFetch(w[c], "nameservers", value))]
    BY <1>3 DEF DiscoverNameservers
  <2>2. AfterDiscovery(AfterFetch(w[c], "nameservers", value)) \in Workers
    <3>1. value \in NSLists \cup {Nil}
      BY FetchedType DEF TypeOK
    <3>2. AfterFetch(w[c], "nameservers", value) \in Workers
      BY <1>1, <3>1, AfterFetchType
    <3> QED
      BY <3>2, AfterDiscoveryType
  <2> QED
    BY <2>1, <2>2, ConstantsAssumption DEF TypeOK
<1> QED
  BY <1>2, <1>3

\* A stored status is Ready for the spec the worker read; if the class has
\* another by now, or the call failed, the class is to be looked at again.
LEMMA OwnWriteAnswers ==
    ASSUME TypeOK, AllExplained, NEW c \in Classes, WorkerCurrent(c), UpdateSucceeds(c),
           lost'[c] = {}
    PROVE  Pending(c)' \/ Settled(c)'
<1>1. /\ api[c] \in Objects /\ api[c] # Nil /\ w[c] \in Workers /\ w[c] # Nil
      /\ w[c].pc = "update" /\ WorkerExplained(w[c])
  BY DEF UpdateSucceeds, TypeOK, AllExplained
<1>2. /\ UNCHANGED <<cache, dirty>> /\ w'[c] = Nil /\ lost'[c] = lost[c]
      /\ basis'[c] = w[c].basis
  BY DEF UpdateSucceeds, Return, TypeOK
<1>3. backoff'[c] = (backoff[c] \/ w[c].failed)
  BY Zenon DEF UpdateSucceeds, Return, TypeOK
<1>4. api'[c].status = w[c].status /\ api'[c].uid = api[c].uid /\ api'[c].gen = api[c].gen
  <2>1. CASE api[c].status = w[c].status /\ UNCHANGED <<api, rv, watch>>
    BY <2>1
  <2>2. CASE Store(c, [api[c] EXCEPT !.status = w[c].status, !.rv = rv[c] + 1])
    BY <1>1, <2>2 DEF Store, TypeOK, Objects
  <2> QED
    BY <2>1, <2>2 DEF UpdateSucceeds
<1>5. w[c].failed \/ w[c].status.state = StateReady
  BY <1>1 DEF WorkerExplained, Workers
<1>6. basis'[c] # Nil
  BY <1>1, <1>2, ConstantsAssumption DEF Workers
<1>7. CASE w[c].failed \/ dirty[c] \/ cache[c] = Nil
  BY <1>2, <1>3, <1>7 DEF Pending
<1>8. CASE SameSpec(w[c].basis, cache[c]) /\ w[c].status.state = StateReady
  BY <1>2, <1>4, <1>6, <1>8 DEF Pending, Settled, SameSpec
<1> QED
  BY <1>1, <1>2, <1>5, <1>7, <1>8 DEF WorkerCurrent

\* After a step of this controller, it answers for the class itself, or
\* whoever did still does.
LEMMA OwnStepAnswers ==
    ASSUME TypeOK, AllExplained, [Next]_vars, NEW c \in Classes,
           InformerOrdered(c), GenerationsOrdered(c), WorkerCurrent(c),
           api'[c] # Nil, lost'[c] = {}
    PROVE  Pending(c)' \/ Settled(c)' \/ LeavesAnswered(c)
<1>1. ASSUME api'[c] = api[c], cache'[c] = cache[c], dirty'[c] = dirty[c],
             backoff'[c] = backoff[c], w'[c] = w[c], basis'[c] = basis[c], lost'[c] = lost[c]
      PROVE  LeavesAnswered(c)
  BY <1>1 DEF LeavesAnswered, Pending, Settled, SameSpec
<1>2. ASSUME NEW d \in Classes, CreateClass(d) PROVE Pending(c)' \/ LeavesAnswered(c)
  <2>1. UNCHANGED <<cache, dirty, backoff, w, lost>> /\ basis' = [basis EXCEPT ![d] = Nil]
    BY <1>2 DEF CreateClass
  <2>2. PICK request \in Requests :
          api' = [api EXCEPT ![d] = [uid |-> rv[d] + 1, gen |-> 1, rv |-> rv[d] + 1,
                                     spec |-> Default(request), status |-> NoStatus]]
    BY <1>2 DEF CreateClass, Store
  <2>3. CASE d = c
    <3>1. cache[c] # Nil => cache[c].uid <= rv[c] /\ cache[c].uid \in Nat /\ rv[c] \in Nat
      BY DEF InformerOrdered, TypeOK, Objects
    <3>2. api'[c].uid = rv[c] + 1
      BY <2>2, <2>3 DEF TypeOK
    <3> QED
      BY <2>1, <3>1, <3>2 DEF Pending, SameSpec
  <2>4. CASE d # c
    BY <1>1, <2>1, <2>2, <2>4 DEF TypeOK
  <2> QED
    BY <2>3, <2>4
<1>3. ASSUME NEW d \in Classes, UpdateClass(d) PROVE Pending(c)' \/ LeavesAnswered(c)
  <2>1. UNCHANGED <<cache, dirty, backoff, w, basis, lost>>
    BY <1>3 DEF UpdateClass
  <2>2. PICK request \in Requests :
          api' = [api EXCEPT ![d] = [api[d] EXCEPT !.spec = Default(request), !.rv = rv[d] + 1,
                                       !.gen = IF Default(request) = api[d].spec THEN @ ELSE @ + 1]]
    BY <1>3 DEF UpdateClass, Store
  <2>3. CASE d = c
    <3>1. api[c] \in Objects /\ api[c] # Nil /\ api[c].gen \in Nat
      BY <1>3, <2>3 DEF UpdateClass, TypeOK, Objects
    <3>2. /\ api'[c].uid = api[c].uid /\ api'[c].status = api[c].status
          /\ api'[c].gen \in {api[c].gen, api[c].gen + 1}
      BY <2>2, <2>3, <3>1 DEF TypeOK, Objects
    <3>3. CASE api'[c].gen = api[c].gen
      BY <2>1, <3>1, <3>2, <3>3 DEF LeavesAnswered, Pending, Settled, SameSpec
    <3>4. CASE api'[c].gen = api[c].gen + 1
      <4>1. cache[c] # Nil => cache[c].gen \in Nat
        BY DEF TypeOK, Objects
      <4> QED
        BY <2>1, <3>1, <3>2, <3>4, <4>1 DEF GenerationsOrdered, Pending, SameSpec
    <3> QED
      BY <3>2, <3>3, <3>4
  <2>4. CASE d # c
    BY <1>1, <2>1, <2>2, <2>4 DEF TypeOK
  <2> QED
    BY <2>3, <2>4
<1>4. ASSUME NEW d \in Classes, DeleteClass(d) PROVE LeavesAnswered(c)
  <2>1. /\ UNCHANGED <<cache, dirty, backoff, w, lost>>
        /\ api' = [api EXCEPT ![d] = Nil] /\ basis' = [basis EXCEPT ![d] = Nil]
    BY <1>4 DEF DeleteClass, Store
  <2>2. d # c
    BY <2>1 DEF TypeOK
  <2> QED
    BY <1>1, <2>1, <2>2 DEF TypeOK
<1>5. ASSUME NEW d \in Classes, Deliver(d) PROVE Pending(c)' \/ LeavesAnswered(c)
  <2>1. CASE d = c
    <3> DEFINE old == cache[c]
               new == Head(watch[c])
    <3>1. cache'[c] = new /\ UNCHANGED <<api, w, backoff, basis>>
      BY <1>5, <2>1 DEF Deliver, TypeOK
    <3>2. dirty'[c] = (dirty[c] \/ Enqueues(old, new))
      BY <1>5, <2>1, Zenon DEF Deliver, TypeOK
    <3>3. lost[c] = {} /\ ~Conceals(old, new)
      BY <1>5, <2>1 DEF Deliver, TypeOK
    <3>4. CASE Enqueues(old, new) \/ new = Nil
      BY <3>1, <3>2, <3>4 DEF Pending
    <3>5. CASE ~Enqueues(old, new) /\ new # Nil
      <4>1. old # Nil /\ old.gen = new.gen /\ old.uid = new.uid
        BY <3>3, <3>5 DEF Enqueues, Conceals
      <4> QED
        BY <3>1, <3>2, <3>3, <4>1 DEF LeavesAnswered, Pending, Settled, SameSpec
    <3> QED
      BY <3>4, <3>5
  <2>2. CASE d # c
    BY <1>1, <1>5, <2>2 DEF TypeOK, Deliver
  <2> QED
    BY <2>1, <2>2
<1>6. ASSUME \/ UNCHANGED vars \/ Relist \/ \E n \in Nodes : ChangeKubelet(n)
      PROVE  LeavesAnswered(c)
  <2>1. UNCHANGED <<api, cache, dirty, backoff, w, basis, lost>>
    BY <1>6 DEF vars, Relist, ChangeKubelet
  <2> QED
    BY <1>1, <2>1
<1>7. ASSUME Restart PROVE Pending(c)'
  BY <1>7 DEF Restart, Pending
<1>8. ASSUME NEW d \in Classes, StartReconcile(d) PROVE Pending(c)' \/ LeavesAnswered(c)
  <2>1. /\ UNCHANGED <<api, cache, backoff, basis>>
        /\ w' = [w EXCEPT ![d] = IF cache[d] = Nil THEN Nil ELSE Started(cache[d])]
        /\ dirty' = [dirty EXCEPT ![d] = FALSE] /\ lost' = [lost EXCEPT ![d] = {}]
    BY <1>8 DEF StartReconcile
  <2>2. CASE d = c
    <3> SUFFICES ASSUME cache[c] # Nil PROVE Pending(c)'
      BY <2>1 DEF Pending
    <3>1. w'[c] = Started(cache[c])
      BY <2>1, <2>2 DEF TypeOK
    <3>2. ASSUME NEW obj PROVE Started(obj).basis = BasisOf(obj)
      BY DEF Started
    <3>3. w'[c].basis = BasisOf(cache[c])
      BY <3>1, <3>2
    <3>4. w'[c] # Nil
      BY <3>1, StartedType, ConstantsAssumption DEF TypeOK
    <3> QED
      BY <2>1, <3>3, <3>4 DEF Pending, SameSpec, BasisOf
  <2>3. CASE d # c
    BY <1>1, <2>1, <2>3 DEF TypeOK
  <2> QED
    BY <2>2, <2>3
<1>9. ASSUME NEW d \in Classes, GetFails(d) PROVE Pending(c)' \/ LeavesAnswered(c)
  <2>1. CASE d = c
    BY <1>9, <2>1 DEF GetFails, TypeOK, Pending
  <2>2. CASE d # c
    BY <1>1, <1>9, <2>2 DEF TypeOK, GetFails
  <2> QED
    BY <2>1, <2>2
<1>10. ASSUME NEW d \in Classes, RetryFires(d) PROVE Pending(c)' \/ LeavesAnswered(c)
  <2>1. CASE d = c
    BY <1>10, <2>1 DEF RetryFires, TypeOK, Pending
  <2>2. CASE d # c
    BY <1>1, <1>10, <2>2 DEF TypeOK, RetryFires
  <2> QED
    BY <2>1, <2>2
<1>11. ASSUME UNCHANGED <<api, cache, dirty, backoff, basis, lost>>,
              w[c] # Nil, w'[c] # Nil, w'[c].basis = w[c].basis
       PROVE  LeavesAnswered(c)
  BY <1>11 DEF LeavesAnswered, Pending, Settled, SameSpec
<1>12. ASSUME NEW d \in Classes, DiscoverClusterDomain(d) \/ DiscoverNameservers(d)
       PROVE  Pending(c)' \/ LeavesAnswered(c)
  <2>1. UNCHANGED <<api, cache, dirty, backoff, basis, lost>>
    BY <1>12 DEF DiscoverClusterDomain, DiscoverNameservers
  <2>2. (d # c => w'[c] = w[c]) /\ (w[c] = Nil => w'[c] = Nil)
    BY <1>12 DEF DiscoverClusterDomain, DiscoverNameservers, TypeOK
  <2>3. CASE d # c \/ w[c] = Nil
    BY <1>1, <2>1, <2>2, <2>3
  <2>4. CASE d = c /\ w[c] # Nil
    <3>1. w'[c] # Nil
      BY <1>12, <2>4, WorkerGoesOn
    <3> QED
      BY <1>11, <2>1, <2>4, <3>1, WorkerSteps, ConstantsAssumption DEF Keeps, Starts, Writes
  <2> QED
    BY <2>3, <2>4
<1>13. ASSUME NEW d \in Classes, NEW dropped \in BOOLEAN, Return(d, dropped),
              UNCHANGED <<api, cache, dirty, basis>>,
              dropped \/ api[d] = Nil \/ cache[d] = Nil
       PROVE  Pending(c)' \/ LeavesAnswered(c)
  <2>1. CASE d = c
    <3>1. dropped => lost'[c] # {}
      BY <1>13, <2>1 DEF Return, TypeOK
    <3> QED
      BY <1>13, <2>1, <3>1 DEF Pending
  <2>2. CASE d # c
    BY <1>1, <1>13, <2>2 DEF TypeOK, Return
  <2> QED
    BY <2>1, <2>2
<1>14. ASSUME NEW d \in Classes, GetForUpdate(d) PROVE Pending(c)' \/ LeavesAnswered(c)
  <2>1. CASE cache[d] = Nil /\ Return(d, FALSE)
    BY <1>13, <1>14, <2>1 DEF GetForUpdate
  <2>2. CASE cache[d] # Nil /\ w' = [w EXCEPT ![d].pc = "update", ![d].dcrv = cache[d].rv]
                            /\ UNCHANGED <<backoff, lost>>
    <3> DEFINE wk == [w[d] EXCEPT !.pc = "update", !.dcrv = cache[d].rv]
    <3>1. w[d] \in Workers /\ w[d] # Nil /\ cache[d].rv \in Nat
      BY <1>14, <2>2 DEF TypeOK, GetForUpdate, Objects
    <3>2. wk \in Workers /\ wk.basis = w[d].basis
      BY <3>1 DEF Workers
    <3>3. w' = [w EXCEPT ![d] = wk] /\ UNCHANGED <<api, cache, dirty, backoff, basis, lost>>
      BY <1>14, <2>2 DEF GetForUpdate, TypeOK
    <3> HIDE DEF wk
    <3>4. (d = c => w'[c] = wk /\ wk # Nil) /\ (d # c => w'[c] = w[c])
      BY <3>2, <3>3, ConstantsAssumption DEF TypeOK
    <3> QED
      BY <1>1, <1>11, <3>1, <3>2, <3>3, <3>4
  <2> QED
    BY <1>14, <2>1, <2>2 DEF GetForUpdate
<1>15. ASSUME NEW d \in Classes, UpdateNotFound(d) PROVE Pending(c)' \/ LeavesAnswered(c)
  BY <1>13, <1>15 DEF UpdateNotFound
<1>16. ASSUME NEW d \in Classes, UpdateConflict(d) PROVE Pending(c)' \/ LeavesAnswered(c)
  <2>1. CASE Return(d, TRUE)
    BY <1>13, <1>16, <2>1 DEF UpdateConflict
  <2>2. CASE w' = [w EXCEPT ![d].pc = "get", ![d].attempts = @ + 1] /\ UNCHANGED <<backoff, lost>>
    <3> DEFINE wk == [w[d] EXCEPT !.pc = "get", !.attempts = @ + 1]
    <3>1. w[d] \in Workers /\ w[d] # Nil
      BY <1>16 DEF TypeOK, UpdateConflict
    <3>2. w[d].attempts + 1 \in Nat
      BY <3>1 DEF Workers
    <3>3. wk \in Workers /\ wk.basis = w[d].basis
      BY <3>1, <3>2 DEF Workers
    <3>4. w' = [w EXCEPT ![d] = wk] /\ UNCHANGED <<api, cache, dirty, backoff, basis, lost>>
      BY <1>16, <2>2 DEF UpdateConflict, TypeOK
    <3> HIDE DEF wk
    <3>5. (d = c => w'[c] = wk /\ wk # Nil) /\ (d # c => w'[c] = w[c])
      BY <3>3, <3>4, ConstantsAssumption DEF TypeOK
    <3> QED
      BY <1>1, <1>11, <3>1, <3>3, <3>4, <3>5
  <2> QED
    BY <1>16, <2>1, <2>2 DEF UpdateConflict
<1>17. ASSUME NEW d \in Classes, UpdateSucceeds(d)
       PROVE  Pending(c)' \/ Settled(c)' \/ LeavesAnswered(c)
  <2>1. CASE d = c
    BY <1>17, <2>1, OwnWriteAnswers
  <2>2. CASE d # c
    <3>1. /\ UNCHANGED <<cache, dirty>> /\ w'[c] = w[c] /\ basis'[c] = basis[c]
          /\ backoff'[c] = backoff[c] /\ lost'[c] = lost[c]
      BY <1>17, <2>2 DEF UpdateSucceeds, Return, TypeOK
    <3>2. api'[c] = api[c]
      BY <1>17, <2>2 DEF UpdateSucceeds, Store, TypeOK
    <3> QED
      BY <1>1, <3>1, <3>2
  <2> QED
    BY <2>1, <2>2
<1>18. ASSUME NEW d \in Classes, UpdateFails(d) PROVE Pending(c)' \/ LeavesAnswered(c)
  BY <1>13, <1>18 DEF UpdateFails
<1> QED
  BY <1>2, <1>3, <1>4, <1>5, <1>6, <1>7, <1>8, <1>9, <1>10, <1>12, <1>14, <1>15, <1>16,
     <1>17, <1>18 DEF Next, Step

=============================================================================
