------------------------ MODULE DNSClassReplicas_proofs ------------------------
(***************************************************************************)
(* Proofs about two replicas, for every set of classes, nodes and requests *)
(* and every bound.  What is proved of one controller's own steps holds of *)
(* each of the two; what the other one stores, it gets as events.          *)
(***************************************************************************)
EXTENDS DNSClassReplicas, DNSClassController_proofs

Other == INSTANCE DNSClassController_proofs
           WITH watch <- peerWatch, cache <- peerCache, dirty <- peerDirty,
                backoff <- peerBackoff, w <- peerW, lost <- peerLost

-----------------------------------------------------------------------------
(* The peer is the controller of the lemmas, and speaks of the same data.  *)

\* A step of the peer is a step of a controller with the peer's variables.
LEMMA PeerIsController ==
    ASSUME PeerStep
    PROVE  Other!Next
<1>1. ASSUME Peer!Restart PROVE Other!Restart
  BY <1>1 DEF Peer!Restart, Peer!Spend, Other!Restart, Other!Spend
<1>2. ASSUME NEW c \in Classes, Peer!Deliver(c) PROVE Other!Deliver(c)
  BY <1>2 DEF Peer!Conceals, Peer!Deliver, Peer!Enqueues, Other!Conceals, Other!Deliver, Other!Enqueues
<1>3. ASSUME NEW c \in Classes, Peer!RetryFires(c) PROVE Other!RetryFires(c)
  BY <1>3 DEF Peer!RetryFires, Peer!Spend, Other!RetryFires, Other!Spend
<1>4. ASSUME NEW c \in Classes, Peer!GetFails(c) PROVE Other!GetFails(c)
  BY <1>4 DEF Peer!Active, Peer!GetFails, Peer!Spend, Peer!Cardinality, Other!Active, Other!GetFails,
     Other!Spend, Other!Cardinality
<1>5. ASSUME NEW c \in Classes, Peer!UpdateFails(c) PROVE Other!UpdateFails(c)
  BY <1>5 DEF Peer!Return, Peer!Spend, Peer!UpdateFails, Other!Return, Other!Spend, Other!UpdateFails
<1>6. ASSUME NEW c \in Classes, Peer!StartReconcile(c) PROVE Other!StartReconcile(c)
  BY <1>6 DEF Peer!Active, Peer!BasisOf, Peer!NoFields, Peer!ReadyStatus, Peer!StartReconcile,
     Peer!Started, Peer!StateError, Peer!StateInit, Peer!StateReady, Peer!updateStatus,
     Peer!Cardinality, Other!Active, Other!BasisOf, Other!NoFields, Other!ReadyStatus,
     Other!StartReconcile, Other!Started, Other!StateError, Other!StateInit, Other!StateReady,
     Other!updateStatus, Other!Cardinality
<1>7. ASSUME NEW c \in Classes, Peer!DiscoverClusterDomain(c) PROVE Other!DiscoverClusterDomain(c)
  BY <1>7 DEF Peer!AfterFetch, Peer!DiscoverClusterDomain, Peer!Fetched, Other!AfterFetch,
     Other!DiscoverClusterDomain, Other!Fetched
<1>8. ASSUME NEW c \in Classes, Peer!DiscoverNameservers(c) PROVE Other!DiscoverNameservers(c)
  BY <1>8 DEF Peer!AfterDiscovery, Peer!AfterFetch, Peer!DiscoverNameservers,
     Peer!ExtractTemplateKeysRegex, Peer!Fetched, Peer!ReadyStatus, Peer!StateError,
     Peer!StateInit, Peer!StateReady, Peer!updateStatus, Other!AfterDiscovery, Other!AfterFetch,
     Other!DiscoverNameservers, Other!ExtractTemplateKeysRegex, Other!Fetched, Other!ReadyStatus,
     Other!StateError, Other!StateInit, Other!StateReady, Other!updateStatus
<1>9. ASSUME NEW c \in Classes, Peer!GetForUpdate(c) PROVE Other!GetForUpdate(c)
  BY <1>9 DEF Peer!GetForUpdate, Peer!Return, Other!GetForUpdate, Other!Return
<1>10. ASSUME NEW c \in Classes, Peer!UpdateNotFound(c) PROVE Other!UpdateNotFound(c)
  BY <1>10 DEF Peer!Return, Peer!UpdateNotFound, Other!Return, Other!UpdateNotFound
<1>11. ASSUME NEW c \in Classes, Peer!UpdateConflict(c) PROVE Other!UpdateConflict(c)
  BY <1>11 DEF Peer!Return, Peer!UpdateConflict, Other!Return, Other!UpdateConflict
<1>12. ASSUME NEW c \in Classes, Peer!UpdateSucceeds(c) PROVE Other!UpdateSucceeds(c)
  BY <1>12 DEF Peer!Return, Peer!Store, Peer!UpdateSucceeds, Other!Return, Other!Store,
     Other!UpdateSucceeds
<1> QED
  BY <1>1, <1>2, <1>3, <1>4, <1>5, <1>6, <1>7, <1>8, <1>9, <1>10, <1>11, <1>12
     DEF PeerStep, Peer!Step, Other!Next, Other!Step

\* The two controllers have one idea of what the data are.
LEMMA SameData ==
    /\ Other!Objects = Objects /\ Other!Bases = Bases /\ Other!Workers = Workers
    /\ Other!CleanObjects = CleanObjects /\ Other!Budgets = Budgets
  BY DEF Bases, Budgets, Clean, CleanObjects, ConditionTypes, Conditions, DNSClassSpec,
     DNSClassStatus, DNSConfigs, DiscoveredFields, FieldNames, NSLists, Objects, Policies,
     SearchEntries, StateError, StateInit, StateReady, States, TemplateKeys, ValidDNSPolicies,
     ValidTemplateKeys, Workers, Other!Bases, Other!Budgets, Other!Clean, Other!CleanObjects,
     Other!ConditionTypes, Other!Conditions, Other!DNSClassSpec, Other!DNSClassStatus,
     Other!DNSConfigs, Other!DiscoveredFields, Other!FieldNames, Other!NSLists, Other!Objects,
     Other!Policies, Other!SearchEntries, Other!StateError, Other!StateInit, Other!StateReady,
     Other!States, Other!TemplateKeys, Other!ValidDNSPolicies, Other!ValidTemplateKeys,
     Other!Workers

\* And they are under the same assumption.
LEMMA SameAssumption == Other!ConstantsAssumption
  BY ConstantsAssumption DEF Bases, ConditionTypes, Conditions, DNSClassSpec, DNSClassStatus, DNSConfigs,
     DiscoveredFields, FieldNames, KubeletConfig, NSLists, Objects, Policies, SearchEntries,
     StateError, StateInit, StateReady, States, TemplateKeys, ValidDNSPolicies, ValidTemplateKeys,
     Workers, Other!ConstantsAssumption, Other!Bases, Other!ConditionTypes, Other!Conditions,
     Other!DNSClassSpec, Other!DNSClassStatus, Other!DNSConfigs, Other!DiscoveredFields,
     Other!FieldNames, Other!KubeletConfig, Other!NSLists, Other!Objects, Other!Policies,
     Other!SearchEntries, Other!StateError, Other!StateInit, Other!StateReady, Other!States,
     Other!TemplateKeys, Other!ValidDNSPolicies, Other!ValidTemplateKeys, Other!Workers

\* And one of what a status may say.
LEMMA SameMeaning ==
    /\ \A status, b : Other!Explained(status, b) <=> Explained(status, b)
    /\ \A wk : Other!WorkerExplained(wk) <=> WorkerExplained(wk)
  BY DEF Clean, ConditionTypes, Explained, ExtractTemplateKeysRegex, NoStatus, StateError,
     StateInit, StateReady, Supports, WorkerExplained, Other!Clean, Other!ConditionTypes,
     Other!Explained, Other!ExtractTemplateKeysRegex, Other!NoStatus, Other!StateError,
     Other!StateInit, Other!StateReady, Other!Supports, Other!WorkerExplained

-----------------------------------------------------------------------------
(* Types.                                                                  *)

PairTypes == TypeOK /\ Other!TypeOK /\ leaderElect \in BOOLEAN

PeerTypes ==
    /\ peerWatch \in [Classes -> Seq(Objects \cup {Nil})]
    /\ peerCache \in [Classes -> Objects \cup {Nil}]
    /\ peerDirty \in [Classes -> BOOLEAN]
    /\ peerBackoff \in [Classes -> BOOLEAN]
    /\ peerW \in [Classes -> Workers \cup {Nil}]
    /\ peerLost \in [Classes -> SUBSET {"status", "event"}]

ThisTypes ==
    /\ watch \in [Classes -> Seq(Objects \cup {Nil})]
    /\ cache \in [Classes -> Objects \cup {Nil}]
    /\ dirty \in [Classes -> BOOLEAN]
    /\ backoff \in [Classes -> BOOLEAN]
    /\ w \in [Classes -> Workers \cup {Nil}]
    /\ lost \in [Classes -> SUBSET {"status", "event"}]

SharedTypes ==
    /\ api \in [Classes -> Objects \cup {Nil}]
    /\ rv \in [Classes -> Nat]
    /\ kubelet \in [Nodes -> NodeConfigs]
    /\ budget \in Budgets
    /\ basis \in [Classes -> Bases \cup {Nil}]

\* The types are those of what is shared, and of each side; also after a step.
LEMMA TypesSplit ==
    /\ TypeOK <=> SharedTypes /\ ThisTypes
    /\ Other!TypeOK <=> SharedTypes /\ PeerTypes
    /\ TypeOK' <=> SharedTypes' /\ ThisTypes'
    /\ Other!TypeOK' <=> SharedTypes' /\ PeerTypes'
<1>1. (TypeOK <=> SharedTypes /\ ThisTypes) /\ (TypeOK' <=> SharedTypes' /\ ThisTypes')
  BY DEF TypeOK, SharedTypes, ThisTypes
<1>2. /\ Other!TypeOK <=> SharedTypes /\ PeerTypes
      /\ Other!TypeOK' <=> SharedTypes' /\ PeerTypes'
  BY SameData DEF Other!TypeOK, SharedTypes, PeerTypes
<1> QED
  BY <1>1, <1>2

\* Queues of events to which events were added are queues of events.
LEMMA HearsType ==
    ASSUME NEW S, api' \in [Classes -> S], NEW queues \in [Classes -> Seq(S)]
    PROVE  Hears(queues) \in [Classes -> Seq(S)]
  BY DEF Hears

\* A queue of events, with its first event taken.
LEMMA TakeEvent ==
    ASSUME NEW S, NEW queues \in [Classes -> Seq(S)], NEW c \in Classes, queues[c] # <<>>
    PROVE  /\ Head(queues[c]) \in S
           /\ [queues EXCEPT ![c] = Tail(@)] \in [Classes -> Seq(S)]
<1>1. Head(queues[c]) \in S /\ Tail(queues[c]) \in Seq(S)
  OBVIOUS
<1> QED
  BY <1>1

\* Each step of either replica keeps the types of both.
LEMMA PairTypesStay == PairTypes /\ [PairNext]_pairVars => PairTypes'
<1> SUFFICES ASSUME TypeOK, Other!TypeOK, leaderElect \in BOOLEAN, [PairNext]_pairVars
             PROVE  TypeOK' /\ Other!TypeOK' /\ leaderElect' \in BOOLEAN
  BY DEF PairTypes
<1>1. SharedTypes /\ ThisTypes /\ PeerTypes
  BY TypesSplit
<1>2. CASE ThisStep
  <2>1. TypeOK'
    BY <1>2, NextType DEF ThisStep
  <2>2. SharedTypes' /\ ThisTypes'
    BY <2>1, TypesSplit
  <2>3. peerWatch' \in [Classes -> Seq(Objects \cup {Nil})]
    BY <1>1, <1>2, <2>2, HearsType DEF ThisStep, SharedTypes, PeerTypes
  <2>4. PeerTypes' /\ leaderElect' \in BOOLEAN
    BY <1>1, <1>2, <2>3 DEF ThisStep, PeerTypes
  <2> QED
    BY <2>1, <2>2, <2>4, TypesSplit
<1>3. CASE PeerStep
  <2>1. Other!TypeOK'
    BY <1>3, PeerIsController, SameAssumption, Other!NextType
  <2>2. SharedTypes' /\ PeerTypes'
    BY <2>1, TypesSplit
  <2>3. watch' \in [Classes -> Seq(Objects \cup {Nil})]
    BY <1>1, <1>3, <2>2, HearsType DEF PeerStep, SharedTypes, ThisTypes
  <2>4. ThisTypes' /\ leaderElect' \in BOOLEAN
    BY <1>1, <1>3, <2>3 DEF PeerStep, ThisTypes
  <2> QED
    BY <2>1, <2>2, <2>4, TypesSplit
<1>4. ASSUME NEW c \in Classes, StandbyDelivers(c)
      PROVE  TypeOK' /\ Other!TypeOK' /\ leaderElect' \in BOOLEAN
  <2>1. SharedTypes' /\ ThisTypes' /\ leaderElect' \in BOOLEAN
    BY <1>1, <1>4 DEF StandbyDelivers, SharedTypes, ThisTypes, vars
  <2>2. peerCache' \in [Classes -> Objects \cup {Nil}]
    BY <1>1, <1>4, TakeEvent DEF StandbyDelivers, PeerTypes
  <2>3. peerWatch' \in [Classes -> Seq(Objects \cup {Nil})]
    BY <1>1, <1>4, TakeEvent DEF StandbyDelivers, PeerTypes
  <2>4. PeerTypes'
    BY <1>1, <1>4, <2>2, <2>3 DEF StandbyDelivers, PeerTypes
  <2> QED
    BY <2>1, <2>4, TypesSplit
<1>5. CASE TakeOver
  <2>1. budget' \in Budgets
    BY <1>1, <1>5, SpendType DEF TakeOver, SharedTypes
  <2>2. SharedTypes' /\ ThisTypes' /\ leaderElect' \in BOOLEAN
    BY <1>1, <1>5, <2>1 DEF TakeOver, SharedTypes, ThisTypes, PeerTypes
  <2>3. PeerTypes'
    BY <1>1, <1>5 DEF TakeOver, SharedTypes, PeerTypes
  <2> QED
    BY <2>2, <2>3, TypesSplit
<1>6. CASE UNCHANGED pairVars
  <2>1. SharedTypes' /\ ThisTypes' /\ PeerTypes' /\ leaderElect' \in BOOLEAN
    BY <1>1, <1>6 DEF pairVars, vars, peerVars, SharedTypes, ThisTypes, PeerTypes
  <2> QED
    BY <2>1, TypesSplit
<1> QED
  BY <1>2, <1>3, <1>4, <1>5, <1>6 DEF PairNext

-----------------------------------------------------------------------------
(* Objects are clean and statuses explained, whoever writes them.          *)

PairExplained == AllClean /\ Other!AllClean /\ AllExplained /\ Other!AllExplained

PeerClean ==
    /\ peerCache \in [Classes -> CleanObjects \cup {Nil}]
    /\ peerWatch \in [Classes -> Seq(CleanObjects \cup {Nil})]

ThisClean ==
    /\ cache \in [Classes -> CleanObjects \cup {Nil}]
    /\ watch \in [Classes -> Seq(CleanObjects \cup {Nil})]

SharedClean == api \in [Classes -> CleanObjects \cup {Nil}]

PeerExplained == \A c \in Classes : peerW[c] # Nil => WorkerExplained(peerW[c])

ThisExplained == \A c \in Classes : w[c] # Nil => WorkerExplained(w[c])

SharedExplained ==
    \A c \in Classes :
      api[c] # Nil =>
        /\ Explained(api[c].status, basis[c])
        /\ api[c].status.state # "" => basis[c] # Nil

\* Again, of what is shared and of each side; also after a step.
LEMMA ExplainedSplit ==
    LET split == /\ SharedClean /\ ThisClean /\ PeerClean
                 /\ SharedExplained /\ ThisExplained /\ PeerExplained
    IN /\ PairExplained <=> split
       /\ PairExplained' <=> split'
       /\ AllClean' /\ AllExplained' => SharedClean' /\ ThisClean' /\ SharedExplained' /\ ThisExplained'
       /\ Other!AllClean' /\ Other!AllExplained'
             => SharedClean' /\ PeerClean' /\ SharedExplained' /\ PeerExplained'
<1>1. /\ AllClean <=> SharedClean /\ ThisClean
      /\ AllClean' <=> SharedClean' /\ ThisClean'
  BY DEF AllClean, SharedClean, ThisClean
<1>2. /\ Other!AllClean <=> SharedClean /\ PeerClean
      /\ Other!AllClean' <=> SharedClean' /\ PeerClean'
  BY SameData DEF Other!AllClean, SharedClean, PeerClean
<1>3. /\ AllExplained <=> SharedExplained /\ ThisExplained
      /\ AllExplained' <=> SharedExplained' /\ ThisExplained'
  BY DEF AllExplained, SharedExplained, ThisExplained
<1>4. /\ Other!AllExplained <=> SharedExplained /\ PeerExplained
      /\ Other!AllExplained' <=> SharedExplained' /\ PeerExplained'
  BY SameMeaning DEF Other!AllExplained, SharedExplained, PeerExplained
<1> QED
  BY <1>1, <1>2, <1>3, <1>4 DEF PairExplained

\* A status that one replica writes is explained for the other too.
LEMMA PairExplainedStays ==
    ASSUME PairTypes, PairExplained, [PairNext]_pairVars
    PROVE  PairExplained'
<1>1. /\ SharedClean /\ ThisClean /\ PeerClean
      /\ SharedExplained /\ ThisExplained /\ PeerExplained
  BY ExplainedSplit
<1> SUFFICES /\ SharedClean' /\ ThisClean' /\ PeerClean'
             /\ SharedExplained' /\ ThisExplained' /\ PeerExplained'
  BY ExplainedSplit
<1>2. CASE ThisStep
  <2>1. AllClean' /\ AllExplained'
    BY <1>2, NextClean, NextExplained DEF ThisStep, PairTypes, PairExplained
  <2>2. SharedClean' /\ ThisClean' /\ SharedExplained' /\ ThisExplained'
    BY <2>1, ExplainedSplit
  <2>3. peerWatch' \in [Classes -> Seq(CleanObjects \cup {Nil})]
    BY <1>1, <1>2, <2>2, HearsType DEF ThisStep, SharedClean, PeerClean
  <2>4. PeerClean' /\ PeerExplained'
    BY <1>1, <1>2, <2>3 DEF ThisStep, PeerClean, PeerExplained
  <2> QED
    BY <2>2, <2>4
<1>3. CASE PeerStep
  <2>1. Other!AllClean' /\ Other!AllExplained'
    BY <1>3, PeerIsController, SameAssumption, Other!NextClean, Other!NextExplained
       DEF PairTypes, PairExplained
  <2>2. SharedClean' /\ PeerClean' /\ SharedExplained' /\ PeerExplained'
    BY <2>1, ExplainedSplit
  <2>3. watch' \in [Classes -> Seq(CleanObjects \cup {Nil})]
    BY <1>1, <1>3, <2>2, HearsType DEF PeerStep, SharedClean, ThisClean
  <2>4. ThisClean' /\ ThisExplained'
    BY <1>1, <1>3, <2>3 DEF PeerStep, ThisClean, ThisExplained
  <2> QED
    BY <2>2, <2>4
<1>4. ASSUME NEW c \in Classes, StandbyDelivers(c)
      PROVE  /\ SharedClean' /\ ThisClean' /\ PeerClean'
             /\ SharedExplained' /\ ThisExplained' /\ PeerExplained'
  <2>1. /\ SharedClean' /\ ThisClean'
        /\ SharedExplained' /\ ThisExplained' /\ PeerExplained'
    BY <1>1, <1>4 DEF StandbyDelivers, vars, SharedClean, ThisClean, SharedExplained, ThisExplained,
       PeerExplained
  <2>2. peerCache' \in [Classes -> CleanObjects \cup {Nil}]
    BY <1>1, <1>4, TakeEvent DEF StandbyDelivers, PeerClean
  <2>3. peerWatch' \in [Classes -> Seq(CleanObjects \cup {Nil})]
    BY <1>1, <1>4, TakeEvent DEF StandbyDelivers, PeerClean
  <2> QED
    BY <2>1, <2>2, <2>3 DEF PeerClean
<1>5. CASE TakeOver
  <2>1. SharedClean' /\ ThisClean' /\ PeerClean'
    BY <1>1, <1>5 DEF TakeOver, SharedClean, ThisClean, PeerClean
  <2>2. SharedExplained' /\ ThisExplained' /\ PeerExplained'
    BY <1>1, <1>5 DEF TakeOver, SharedExplained, ThisExplained, PeerExplained
  <2> QED
    BY <2>1, <2>2
<1>6. CASE UNCHANGED pairVars
  BY <1>1, <1>6 DEF pairVars, vars, peerVars, SharedClean, ThisClean, PeerClean,
     SharedExplained, ThisExplained, PeerExplained
<1> QED
  BY <1>2, <1>3, <1>4, <1>5, <1>6 DEF PairNext

\* Both replicas begin with nothing.
LEMMA PairInitExplained == PairInit => PairTypes /\ PairExplained
<1> SUFFICES ASSUME PairInit PROVE PairTypes /\ PairExplained
  OBVIOUS
<1>1. TypeOK /\ AllClean /\ AllExplained
  BY InitType, InitExplained DEF PairInit
<1>2. Other!Init
  BY DEF PairInit, Peer!Init, Other!Init
<1>3. Other!TypeOK /\ Other!AllClean /\ Other!AllExplained
  BY <1>2, SameAssumption, Other!InitType, Other!InitExplained
<1> QED
  BY <1>1, <1>3 DEF PairInit, PairTypes, PairExplained

\* Two replicas keep the types and the statuses explained.
LEMMA PairExplainedAlways == PairSpec => [](PairTypes /\ PairExplained)
<1>1. PairTypes /\ PairExplained /\ [PairNext]_pairVars => (PairTypes /\ PairExplained)'
  BY PairTypesStay, PairExplainedStays
<1> QED
  BY <1>1, PairInitExplained, PTL DEF PairSpec

\* A ready status carries what the spec it was computed from needs, though two
\* replicas write it (Reconcile, lines 101-126).
THEOREM PairReadyIsUsable == PairSpec => []ReadyMeansUsable
<1>1. AllExplained => ReadyMeansUsable
  BY DEF AllExplained, Explained, ReadyMeansUsable, StateReady
<1>2. PairExplained => ReadyMeansUsable
  BY <1>1 DEF PairExplained
<1> QED
  BY <1>2, PairExplainedAlways, PTL

\* A stored status is explained, though two replicas write it (updateStatus,
\* lines 252-289).
THEOREM PairStatesAreExplained == PairSpec => []StateIsExplained
<1>1. AllExplained => StateIsExplained
  BY DEF AllExplained, Explained, Clean, StateIsExplained, StateError
<1>2. PairExplained => StateIsExplained
  BY <1>1 DEF PairExplained
<1> QED
  BY <1>2, PairExplainedAlways, PTL

-----------------------------------------------------------------------------
(* Each replica hears of everything, in order.                             *)

\* What this replica, a user or a node does reaches the peer's informer like a
\* step of its own.
LEMMA ThisIsHeard == ASSUME PairTypes, ThisStep PROVE InformerStep /\ Other!InformerStep
<1>1. InformerStep
  BY InformerSteps DEF ThisStep, PairTypes, InformerStep
<1>2. ASSUME NEW d \in Classes, Stores(d) PROVE Other!Stores(d)
  <2>1. PICK obj \in Objects \cup {Nil} :
          /\ Store(d, obj)
          /\ obj # Nil => /\ obj.rv = rv[d] + 1
                          /\ obj.uid = rv[d] + 1 \/ (api[d] # Nil /\ obj.uid = api[d].uid)
    BY <1>2 DEF Stores
  <2>2. /\ api'[d] = obj /\ rv'[d] # rv[d]
        /\ \A c \in Classes \ {d} : rv'[c] = rv[c]
    BY <2>1 DEF Store, PairTypes, TypeOK
  <2>3. peerWatch' = [peerWatch EXCEPT ![d] = Append(@, obj)] /\ peerCache' = peerCache
    BY <2>2 DEF ThisStep, Hears, PairTypes, Other!TypeOK
  <2>4. Other!Store(d, obj)
    BY <2>1, <2>3 DEF Store, Other!Store
  <2> QED
    BY <2>1, <2>3, <2>4, SameData DEF Other!Stores
<1>3. ASSUME UNCHANGED <<api, rv>> PROVE UNCHANGED <<api, rv, peerWatch, peerCache>>
  BY <1>3 DEF ThisStep, Hears, PairTypes, Other!TypeOK
<1> QED
  BY <1>1, <1>2, <1>3 DEF InformerStep, Other!InformerStep, Delivers, Relists, Restarts

\* What the peer stores reaches this replica's informer.
LEMMA PeerIsHeard == ASSUME PairTypes, PeerStep PROVE InformerStep /\ Other!InformerStep
<1>1. Other!InformerStep
  BY PeerIsController, SameAssumption, Other!InformerSteps DEF PairTypes, Other!InformerStep
<1>2. ASSUME NEW d \in Classes, Other!Stores(d) PROVE Stores(d)
  <2>1. PICK obj \in Objects \cup {Nil} :
          /\ Other!Store(d, obj)
          /\ obj # Nil => /\ obj.rv = rv[d] + 1
                          /\ obj.uid = rv[d] + 1 \/ (api[d] # Nil /\ obj.uid = api[d].uid)
    BY <1>2, SameData DEF Other!Stores
  <2>2. /\ api'[d] = obj /\ rv'[d] # rv[d]
        /\ \A c \in Classes \ {d} : rv'[c] = rv[c]
    BY <2>1 DEF Other!Store, PairTypes, TypeOK
  <2>3. watch' = [watch EXCEPT ![d] = Append(@, obj)] /\ cache' = cache
    BY <2>2 DEF PeerStep, Hears, PairTypes, TypeOK
  <2>4. Store(d, obj)
    BY <2>1, <2>3 DEF Store, Other!Store
  <2> QED
    BY <2>1, <2>3, <2>4 DEF Stores
<1>3. ASSUME UNCHANGED <<api, rv>> PROVE UNCHANGED <<api, rv, watch, cache>>
  BY <1>3 DEF PeerStep, Hears, PairTypes, TypeOK
<1> QED
  BY <1>1, <1>2, <1>3
     DEF InformerStep, Other!InformerStep, Other!Delivers, Other!Relists, Other!Restarts

\* The informer of a standby works like that of a controller.
LEMMA StandbyHears ==
    ASSUME NEW c \in Classes, StandbyDelivers(c) PROVE InformerStep /\ Other!InformerStep
  BY DEF StandbyDelivers, vars, InformerStep, Other!InformerStep, Other!Delivers

ThisInformer(c) == InformerOrdered(c) /\ GenerationsOrdered(c)
PeerInformer(c) == Other!InformerOrdered(c) /\ Other!GenerationsOrdered(c)

PairInformed ==
    /\ TipIsStored /\ Other!TipIsStored
    /\ \A c \in Classes : ThisInformer(c) /\ PeerInformer(c)

\* What both replicas have heard stays in order.
LEMMA PairStaysInformed ==
    ASSUME PairTypes, PairInformed, [PairNext]_pairVars
    PROVE  PairInformed'
<1>1. ASSUME InformerStep, Other!InformerStep, \A c \in Classes : Grows(c)
      PROVE  PairInformed'
  <2>1. TipIsStored' /\ Other!TipIsStored'
    BY <1>1, SameAssumption, TipStays, Other!TipStays DEF PairTypes, PairInformed
  <2>2. ASSUME NEW c \in Classes PROVE ThisInformer(c)'
    BY <1>1, InformerStaysOrdered, GenerationsStayOrdered DEF PairTypes, PairInformed, ThisInformer
  <2>3. ASSUME NEW c \in Classes PROVE PeerInformer(c)'
    <3>1. Other!Grows(c)
      BY <1>1 DEF Grows, Other!Grows
    <3> QED
      BY <1>1, <3>1, SameAssumption, Other!InformerStaysOrdered, Other!GenerationsStayOrdered
         DEF PairTypes, PairInformed, PeerInformer
  <2> QED
    BY <2>1, <2>2, <2>3 DEF PairInformed
<1>2. ASSUME UNCHANGED api, NEW c \in Classes PROVE Grows(c)
  BY <1>2 DEF Grows, PairTypes, TypeOK, Objects
<1>3. CASE ThisStep
  <2>1. \A c \in Classes : Grows(c)
    BY <1>3, GenerationGrows DEF ThisStep, PairTypes
  <2> QED
    BY <1>1, <1>3, <2>1, ThisIsHeard
<1>4. CASE PeerStep
  <2>1. \A c \in Classes : Other!Grows(c)
    BY <1>4, PeerIsController, SameAssumption, Other!GenerationGrows DEF PairTypes
  <2>2. \A c \in Classes : Grows(c)
    BY <2>1 DEF Grows, Other!Grows
  <2> QED
    BY <1>1, <1>4, <2>2, PeerIsHeard
<1>5. ASSUME NEW c \in Classes, StandbyDelivers(c) PROVE PairInformed'
  <2>1. UNCHANGED api
    BY <1>5 DEF StandbyDelivers, vars
  <2> QED
    BY <1>1, <1>2, <1>5, <2>1, StandbyHears
<1>6. CASE TakeOver
  <2>1. cache' = peerCache /\ watch' = peerWatch /\ UNCHANGED <<api, rv>>
    BY <1>6 DEF TakeOver
  <2>2. TipIsStored' /\ \A c \in Classes : ThisInformer(c)'
    BY <2>1 DEF PairInformed, TipIsStored, Other!TipIsStored, ThisInformer, PeerInformer,
       InformerOrdered, Other!InformerOrdered, Floor, Other!Floor,
       GenerationsOrdered, Other!GenerationsOrdered
  <2>3. Other!InformerStep
    BY <1>6 DEF TakeOver, Other!InformerStep, Other!Restarts
  <2>4. Other!TipIsStored'
    BY <2>3, SameAssumption, Other!TipStays DEF PairTypes, PairInformed
  <2>5. ASSUME NEW c \in Classes PROVE PeerInformer(c)'
    <3>1. Other!Grows(c)
      BY <1>2, <2>1 DEF Grows, Other!Grows
    <3> QED
      BY <2>3, <3>1, SameAssumption, Other!InformerStaysOrdered, Other!GenerationsStayOrdered
         DEF PairTypes, PairInformed, PeerInformer
  <2> QED
    BY <2>2, <2>4, <2>5 DEF PairInformed
<1>7. CASE UNCHANGED pairVars
  <2>1. UNCHANGED <<api, rv, watch, cache, peerWatch, peerCache>>
    BY <1>7 DEF pairVars, vars, peerVars
  <2> QED
    BY <1>1, <1>2, <2>1 DEF InformerStep, Other!InformerStep
<1> QED
  BY <1>3, <1>4, <1>5, <1>6, <1>7 DEF PairNext

-----------------------------------------------------------------------------
(* Nothing is forgotten between the two.                                   *)

\* Of a class that exists the status is Ready for the spec it has, or a
\* replica that reconciles still has something to do for it, or to hear of it.
AnsweredByPair(c) ==
    api[c] # Nil /\ lost[c] \cup peerLost[c] = {} =>
      Settled(c) \/ Pending(c) \/ (~leaderElect /\ Other!Pending(c))

StandbyIsIdle == leaderElect => \A c \in Classes : peerW[c] = Nil /\ peerLost[c] = {}

PairRemembers ==
    /\ StandbyIsIdle
    /\ \A c \in Classes : WorkerCurrent(c) /\ Other!WorkerCurrent(c) /\ AnsweredByPair(c)

PairIInv == PairTypes /\ PairExplained /\ PairInformed /\ PairRemembers

\* A step of this replica leaves what is pending at the other pending, or makes
\* the class pending here, or settles it.
LEMMA ThisRemembers ==
    ASSUME PairIInv, ThisStep PROVE PairRemembers'
<1>1. UNCHANGED <<peerCache, peerDirty, peerBackoff, peerW, peerLost, leaderElect>> /\ [Next]_vars
  BY DEF ThisStep
<1>2. StandbyIsIdle'
  BY <1>1 DEF PairIInv, PairRemembers, StandbyIsIdle
<1>3. ASSUME NEW c \in Classes PROVE WorkerCurrent(c)' /\ Other!WorkerCurrent(c)'
  <2>1. WorkerCurrent(c)'
    BY <1>1, WorkerStaysCurrent DEF PairIInv, PairTypes, PairRemembers
  <2> QED
    BY <1>1, <2>1 DEF PairIInv, PairRemembers, Other!WorkerCurrent, Other!SameSpec
<1>4. ASSUME NEW c \in Classes, api'[c] # Nil, lost'[c] = {}, peerLost'[c] = {}
      PROVE  Settled(c)' \/ Pending(c)' \/ (~leaderElect' /\ Other!Pending(c)')
  <2>1. Pending(c)' \/ Settled(c)' \/ LeavesAnswered(c)
    BY <1>1, <1>4, OwnStepAnswers
       DEF PairIInv, PairTypes, PairExplained, PairInformed, ThisInformer, PairRemembers
  <2>2. CASE LeavesAnswered(c)
    <3>1. Settled(c) \/ Pending(c) \/ (~leaderElect /\ Other!Pending(c))
      BY <1>1, <1>4, <2>2 DEF LeavesAnswered, PairIInv, PairRemembers, AnsweredByPair
    <3>2. Other!Pending(c) => Other!Pending(c)'
      BY <1>1, <2>2 DEF LeavesAnswered, Other!Pending, SameSpec, Other!SameSpec
    <3> QED
      BY <1>1, <2>2, <3>1, <3>2 DEF LeavesAnswered
  <2> QED
    BY <2>1, <2>2
<1> QED
  BY <1>2, <1>3, <1>4 DEF PairRemembers, AnsweredByPair

\* So does a step of the peer.
LEMMA PeerRemembers ==
    ASSUME PairIInv, PeerStep PROVE PairRemembers'
<1>1. UNCHANGED <<cache, dirty, backoff, w, lost, leaderElect>> /\ ~leaderElect /\ Other!Next
  BY PeerIsController DEF PeerStep
<1>2. StandbyIsIdle'
  BY <1>1 DEF StandbyIsIdle
<1>3. ASSUME NEW c \in Classes PROVE WorkerCurrent(c)' /\ Other!WorkerCurrent(c)'
  <2>1. Other!WorkerCurrent(c)'
    BY <1>1, SameAssumption, Other!WorkerStaysCurrent DEF PairIInv, PairTypes, PairRemembers
  <2> QED
    BY <1>1, <2>1 DEF PairIInv, PairRemembers, WorkerCurrent, SameSpec
<1>4. ASSUME NEW c \in Classes, api'[c] # Nil, lost'[c] = {}, peerLost'[c] = {}
      PROVE  Settled(c)' \/ Pending(c)' \/ (~leaderElect' /\ Other!Pending(c)')
  <2>1. Other!Pending(c)' \/ Other!Settled(c)' \/ Other!LeavesAnswered(c)
    BY <1>1, <1>4, SameAssumption, Other!OwnStepAnswers
       DEF PairIInv, PairTypes, PairExplained, PairInformed, PeerInformer, PairRemembers
  <2>2. (Settled(c) <=> Other!Settled(c)) /\ (Settled(c)' <=> Other!Settled(c)')
    BY DEF Settled, Other!Settled, SameSpec, Other!SameSpec, StateReady, Other!StateReady
  <2>3. CASE Other!LeavesAnswered(c)
    <3>1. Settled(c) \/ Pending(c) \/ Other!Pending(c)
      BY <1>1, <1>4, <2>3 DEF Other!LeavesAnswered, PairIInv, PairRemembers, AnsweredByPair
    <3>2. Pending(c) => Pending(c)'
      BY <1>1, <2>3 DEF Other!LeavesAnswered, Pending, SameSpec, Other!SameSpec
    <3> QED
      BY <1>1, <2>2, <2>3, <3>1, <3>2 DEF Other!LeavesAnswered
  <2> QED
    BY <1>1, <2>1, <2>2, <2>3
<1> QED
  BY <1>2, <1>3, <1>4 DEF PairRemembers, AnsweredByPair

\* A standby that hears, or takes over, forgets nothing either.
LEMMA PairStillRemembers ==
    ASSUME PairIInv, [PairNext]_pairVars PROVE PairRemembers'
<1>1. ASSUME NEW c \in Classes, StandbyDelivers(c) PROVE PairRemembers'
  <2>1. UNCHANGED <<api, cache, dirty, backoff, w, basis, lost>>
    BY <1>1 DEF StandbyDelivers, vars
  <2>2. leaderElect /\ leaderElect' /\ UNCHANGED <<peerW, peerLost>>
    BY <1>1 DEF StandbyDelivers
  <2>3. StandbyIsIdle' /\ \A d \in Classes : Other!WorkerCurrent(d)'
    BY <2>2 DEF PairIInv, PairRemembers, StandbyIsIdle, Other!WorkerCurrent
  <2> QED
    BY <2>1, <2>2, <2>3 DEF PairIInv, PairRemembers, WorkerCurrent, AnsweredByPair, Settled, Pending,
       SameSpec
<1>2. CASE TakeOver
  <2>1. leaderElect /\ leaderElect' /\ UNCHANGED <<peerW, peerLost>>
    BY <1>2 DEF TakeOver
  <2>2. StandbyIsIdle' /\ \A c \in Classes : Other!WorkerCurrent(c)'
    BY <2>1 DEF PairIInv, PairRemembers, StandbyIsIdle, Other!WorkerCurrent
  <2>3. ASSUME NEW c \in Classes PROVE WorkerCurrent(c)' /\ Pending(c)'
    BY <1>2 DEF TakeOver, WorkerCurrent, Pending
  <2> QED
    BY <2>2, <2>3 DEF PairRemembers, AnsweredByPair
<1>3. CASE UNCHANGED pairVars
  BY <1>3 DEF pairVars, vars, peerVars, PairIInv, PairRemembers, StandbyIsIdle, WorkerCurrent,
     Other!WorkerCurrent, AnsweredByPair, Settled, Pending, Other!Pending, SameSpec, Other!SameSpec
<1> QED
  BY <1>1, <1>2, <1>3, ThisRemembers, PeerRemembers DEF PairNext

\* The inductive invariant of two replicas.
THEOREM PairInductive == PairSpec => []PairIInv
<1>1. PairInit => PairInformed /\ PairRemembers
  <2> SUFFICES ASSUME PairInit PROVE PairInformed /\ PairRemembers
    OBVIOUS
  <2>1. Init /\ Other!Init
    BY DEF PairInit, Peer!Init, Other!Init
  <2>2. TipIsStored /\ \A c \in Classes : ThisInformer(c) /\ WorkerCurrent(c) /\ AnsweredByPair(c)
    BY <2>1 DEF Init, TipIsStored, ThisInformer, InformerOrdered, GenerationsOrdered, WorkerCurrent,
       AnsweredByPair
  <2>3. Other!TipIsStored /\ \A c \in Classes : PeerInformer(c) /\ Other!WorkerCurrent(c)
    BY <2>1 DEF Other!Init, Other!TipIsStored, PeerInformer, Other!InformerOrdered,
       Other!GenerationsOrdered, Other!WorkerCurrent
  <2>4. StandbyIsIdle
    BY <2>1 DEF Other!Init, StandbyIsIdle
  <2> QED
    BY <2>2, <2>3, <2>4 DEF PairInformed, PairRemembers
<1>2. PairIInv /\ [PairNext]_pairVars => PairIInv'
  BY PairTypesStay, PairExplainedStays, PairStaysInformed, PairStillRemembers DEF PairIInv
<1>3. PairInit => PairIInv
  BY <1>1, PairInitExplained DEF PairIInv
<1> QED
  BY <1>2, <1>3, PTL DEF PairSpec

\* When nothing is left to do for a class in either replica, its status is
\* Ready for the spec it has now, unless one of them dropped a write or missed
\* a recreation (writeStatus, Reconcile and the predicate in two processes).
THEOREM PairNoneForgotten == PairSpec => []PairForgetsNothing
<1>1. PairIInv => PairForgetsNothing
  <2> SUFFICES ASSUME PairIInv, NEW c \in Classes, api[c] # Nil, PairQuiet(c),
                      lost[c] \cup peerLost[c] = {}
               PROVE  Current(c) /\ api[c].status.state = StateReady
    BY DEF PairForgetsNothing
  <2>1. Settled(c) \/ Pending(c) \/ (~leaderElect /\ Other!Pending(c))
    BY DEF PairIInv, PairRemembers, AnsweredByPair
  <2>2. ~Pending(c)
    BY DEF PairQuiet, Quiet, Pending, PairIInv, PairInformed, TipIsStored, SameSpec
  <2>3. ~leaderElect => ~Other!Pending(c)
    BY DEF PairQuiet, Other!Pending, PairIInv, PairInformed, Other!TipIsStored, Other!SameSpec
  <2> QED
    BY <2>1, <2>2, <2>3 DEF Settled, SameSpec, Current
<1> QED
  BY <1>1, PairInductive, PTL
================================================================================
