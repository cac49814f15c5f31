---------------------- MODULE DNSClassRefinement_proofs ----------------------
(***************************************************************************)
(* The versions of a class: what the controller may still read of them,    *)
(* the order they are in, and that the controller implements the           *)
(* lifecycle, for every set of classes, requests, nodes and bounds.        *)
(* Last, why each version of a class has a cause: versions, together with  *)
(* those that calls, queue and events may still make, are paid for.        *)
(***************************************************************************)
EXTENDS DNSClassRefinement, DNSClassController_proofs, FiniteSetTheorems,
        WellFoundedInduction

-----------------------------------------------------------------------------
(* The steps that users see. *)

\* The specs that pass admission.
AdmittedSpecs == {Default(request) : request \in {r \in Requests : Admitted(r)}}

\* The API server stores obj for class c, and the origin of its status is b.
Puts(c, obj, b) ==
    /\ api' = [api EXCEPT ![c] = obj] /\ rv' = [rv EXCEPT ![c] = @ + 1]
    /\ basis' = [basis EXCEPT ![c] = b]

Creates(c) ==
    \E obj \in Objects :
      /\ api[c] = Nil /\ Puts(c, obj, Nil)
      /\ obj.uid = rv[c] + 1 /\ obj.gen = 1 /\ obj.rv = rv[c] + 1
      /\ obj.spec \in AdmittedSpecs /\ obj.status = NoStatus

Edits(c) ==
    \E obj \in Objects :
      /\ api[c] # Nil /\ Puts(c, obj, basis[c])
      /\ obj.uid = api[c].uid /\ obj.rv = rv[c] + 1 /\ obj.status = api[c].status
      /\ \/ obj.gen = api[c].gen /\ obj.spec = api[c].spec
         \/ obj.gen = api[c].gen + 1 /\ obj.spec \in AdmittedSpecs

Deletes(c) == api[c] # Nil /\ Puts(c, Nil, Nil)

Rewrites(c) ==
    \E obj \in Objects :
      /\ Puts(c, obj, w[c].basis)
      /\ obj.uid = api[c].uid /\ obj.gen = api[c].gen /\ obj.spec = api[c].spec
      /\ obj.rv = rv[c] + 1 /\ obj.status = w[c].status

Confirms(c) == UNCHANGED <<api, rv>> /\ basis' = [basis EXCEPT ![c] = w[c].basis] /\ api[c].status = w[c].status

Reports(c) ==
    /\ w[c] # Nil /\ api[c] # Nil /\ w[c].pc = "update"
    /\ Rewrites(c) \/ Confirms(c)

\* Every step is one of these, or users see nothing of it.
LEMMA VisibleSteps ==
    ASSUME TypeOK, [Next]_vars
    PROVE  \/ \E c \in Classes : Creates(c) \/ Edits(c) \/ Deletes(c) \/ Reports(c)
           \/ UNCHANGED <<api, rv, basis>>
<1>1. ASSUME NEW c \in Classes, CreateClass(c) PROVE Creates(c)
  <2>1. PICK request \in Requests :
          /\ Admitted(request)
          /\ Store(c, [uid |-> rv[c] + 1, gen |-> 1, rv |-> rv[c] + 1,
                       spec |-> Default(request), status |-> NoStatus])
    BY <1>1 DEF CreateClass
  <2> DEFINE obj == [uid |-> rv[c] + 1, gen |-> 1, rv |-> rv[c] + 1,
                     spec |-> Default(request), status |-> NoStatus]
  <2>2. Default(request) \in DNSClassSpec /\ rv[c] + 1 \in Nat
    BY ConstantsAssumption, DefaultType DEF TypeOK
  <2>3. /\ obj \in Objects /\ obj.uid = rv[c] + 1 /\ obj.gen = 1 /\ obj.rv = rv[c] + 1
        /\ obj.spec = Default(request) /\ obj.status = NoStatus
    BY <2>2, NoStatusClean DEF Objects
  <2>4. Store(c, obj) /\ Default(request) \in AdmittedSpecs
    BY <2>1 DEF AdmittedSpecs
  <2> HIDE DEF obj
  <2> QED
    BY <1>1, <2>3, <2>4 DEF CreateClass, Store, Puts, Creates
<1>2. ASSUME NEW c \in Classes, UpdateClass(c) PROVE Edits(c)
  <2> DEFINE new(request) ==
        [api[c] EXCEPT !.spec = Default(request), !.rv = rv[c] + 1,
                       !.gen = IF Default(request) = api[c].spec THEN @ ELSE @ + 1]
  <2>1. PICK request \in Requests : Admitted(request) /\ Store(c, new(request))
    BY <1>2 DEF UpdateClass
  <2>2. Default(request) \in DNSClassSpec /\ Default(request) \in AdmittedSpecs
    BY <2>1, ConstantsAssumption, DefaultType DEF AdmittedSpecs
  <2>3. api[c] \in Objects /\ api[c] # Nil
    BY <1>2 DEF TypeOK, UpdateClass
  <2>4. rv[c] + 1 \in Nat /\ api[c].gen \in Nat /\ api[c].gen + 1 \in Nat
    BY <2>3 DEF TypeOK, Objects
  <2>5. /\ new(request) \in Objects /\ new(request).rv = rv[c] + 1 /\ new(request).uid = api[c].uid
        /\ new(request).status = api[c].status /\ new(request).spec = Default(request)
        /\ new(request).gen = IF Default(request) = api[c].spec THEN api[c].gen ELSE api[c].gen + 1
    BY <2>2, <2>3, <2>4 DEF Objects
  <2>6. basis' = [basis EXCEPT ![c] = basis[c]]
    BY <1>2 DEF TypeOK, UpdateClass
  <2> HIDE DEF new
  <2> QED
    BY <2>1, <2>2, <2>3, <2>5, <2>6 DEF Store, Puts, Edits
<1>3. ASSUME NEW c \in Classes, DeleteClass(c) PROVE Deletes(c)
  BY <1>3 DEF DeleteClass, Store, Puts, Deletes
<1>4. ASSUME NEW c \in Classes, UpdateSucceeds(c) PROVE Reports(c)
  <2> DEFINE new == [api[c] EXCEPT !.status = w[c].status, !.rv = rv[c] + 1]
  <2>0. /\ api[c] \in Objects /\ api[c] # Nil /\ w[c] \in Workers /\ w[c] # Nil /\ w[c].pc = "update"
        /\ basis' = [basis EXCEPT ![c] = w[c].basis]
    BY <1>4 DEF TypeOK, UpdateSucceeds
  <2>1. CASE api[c].status = w[c].status
    BY <1>4, <2>0, <2>1 DEF UpdateSucceeds, Reports, Confirms
  <2>2. CASE api[c].status # w[c].status
    <3>1. rv[c] + 1 \in Nat /\ w[c].status \in DNSClassStatus
      BY <2>0 DEF TypeOK, Workers
    <3>2. /\ new \in Objects /\ new.rv = rv[c] + 1 /\ new.uid = api[c].uid /\ new.gen = api[c].gen
          /\ new.spec = api[c].spec /\ new.status = w[c].status
      BY <2>0, <3>1 DEF Objects
    <3>3. Store(c, new)
      BY <1>4, <2>2 DEF UpdateSucceeds
    <3> HIDE DEF new
    <3> QED
      BY <2>0, <3>2, <3>3 DEF Store, Puts, Reports, Rewrites
  <2> QED
    BY <2>1, <2>2
<1>5. \/ \E c \in Classes : CreateClass(c) \/ UpdateClass(c) \/ DeleteClass(c) \/ UpdateSucceeds(c)
      \/ UNCHANGED <<api, rv, basis>>
  BY Zenon DEF Next, Step, vars, ChangeKubelet, StartReconcile, GetFails, RetryFires, Deliver, Relist,
     Restart, DiscoverClusterDomain, DiscoverNameservers, GetForUpdate, UpdateNotFound,
     UpdateConflict, UpdateFails
<1> QED
  BY <1>1, <1>2, <1>3, <1>4, <1>5

\* Stored classes have passed admission.
AllAdmitted == \A c \in Classes : api[c] # Nil => api[c].spec \in AdmittedSpecs

\* They always have.
LEMMA AdmittedAlways == Spec => []AllAdmitted
<1>1. Init => AllAdmitted
  BY DEF Init, AllAdmitted
<1>2. TypeOK /\ AllAdmitted /\ [Next]_vars => AllAdmitted'
  <2> SUFFICES ASSUME TypeOK, AllAdmitted, [Next]_vars, NEW c \in Classes, api'[c] # Nil
               PROVE  api'[c].spec \in AdmittedSpecs
    BY DEF AllAdmitted
  <2>1. ASSUME NEW d \in Classes, NEW obj, NEW b, Puts(d, obj, b),
               d = c => obj.spec \in AdmittedSpecs
        PROVE  api'[c].spec \in AdmittedSpecs
    <3>1. api'[c] = IF d = c THEN obj ELSE api[c]
      BY <2>1 DEF TypeOK, Puts
    <3> QED
      BY <2>1, <3>1 DEF AllAdmitted
  <2>2. CASE UNCHANGED api
    BY <2>2 DEF AllAdmitted
  <2>3. ASSUME NEW d \in Classes, Creates(d) PROVE api'[c].spec \in AdmittedSpecs
    BY <2>1, <2>3 DEF Creates
  <2>4. ASSUME NEW d \in Classes, Edits(d) PROVE api'[c].spec \in AdmittedSpecs
    BY <2>1, <2>4 DEF Edits, AllAdmitted
  <2>5. ASSUME NEW d \in Classes, Deletes(d) PROVE api'[c].spec \in AdmittedSpecs
    <3>1. api'[d] = Nil
      BY <2>5 DEF TypeOK, Deletes, Puts
    <3> QED
      BY <2>1, <2>5, <3>1 DEF Deletes
  <2>6. ASSUME NEW d \in Classes, Reports(d) PROVE api'[c].spec \in AdmittedSpecs
    BY <2>1, <2>2, <2>6 DEF Reports, Rewrites, Confirms, AllAdmitted
  <2> QED
    BY <2>2, <2>3, <2>4, <2>5, <2>6, VisibleSteps
<1> QED
  BY <1>1, <1>2, TypeCorrect, PTL DEF Spec

-----------------------------------------------------------------------------
(* The history. *)

\* Whatever a worker may read or has read stays in a history that gets what is
\* stored.
LEMMA KnownStays ==
    ASSUME TypeOK, [Next]_vars, NEW c \in Classes, NEW S, KnownIn(c, S),
           api'[c] # Nil => BasisOf(api'[c]) \in S
    PROVE  KnownIn(c, S)'
<1> DEFINE In(obj) == obj = Nil \/ BasisOf(obj) \in S
<1>1. /\ In(api'[c]) /\ In(api[c]) /\ In(cache[c])
      /\ \A i \in DOMAIN watch[c] : In(watch[c][i])
  BY DEF KnownIn
<1>2. InformerStep
  BY InformerSteps DEF InformerStep
<1> HIDE DEF In
<1>3. /\ In(cache'[c])
      /\ \A i \in DOMAIN watch'[c] : In(watch'[c][i])
  <2>1. ASSUME NEW d \in Classes, Stores(d) PROVE <1>3!1 /\ <1>3!2
    <3>1. PICK obj \in Objects \cup {Nil} : Store(d, obj) /\ UNCHANGED cache
      BY <2>1 DEF Stores
    <3>2. CASE d = c
      <4>1. api'[c] = obj
        BY <3>1, <3>2 DEF TypeOK, Store
      <4> QED
        BY <1>1, <3>1, <3>2, <4>1, AppendWatch
    <3>3. CASE d # c
      BY <1>1, <3>1, <3>3 DEF TypeOK, Store
    <3> QED
      BY <3>2, <3>3
  <2>2. ASSUME NEW d \in Classes, Delivers(d) PROVE <1>3!1 /\ <1>3!2
    <3>1. CASE d = c
      BY <1>1, <2>2, <3>1, TailWatch
    <3>2. CASE d # c
      BY <1>1, <2>2, <3>2 DEF TypeOK, Delivers
    <3> QED
      BY <3>1, <3>2
  <2>3. ASSUME Relists PROVE <1>3!1 /\ <1>3!2
    <3>1. UNCHANGED <<api, cache>> /\ (watch'[c] = <<>> \/ watch'[c] = <<api[c]>>)
      BY <2>3 DEF Relists
    <3>2. \A i \in DOMAIN watch'[c] : watch'[c][i] = api[c]
      BY <3>1
    <3> QED
      BY <1>1, <3>1, <3>2
  <2>4. ASSUME Restarts PROVE <1>3!1 /\ <1>3!2
    <3>1. watch'[c] = <<>> /\ cache'[c] = api[c]
      BY <2>4 DEF Restarts
    <3>2. DOMAIN watch'[c] = {}
      BY <3>1
    <3> QED
      BY <1>1, <3>1, <3>2
  <2>5. CASE UNCHANGED <<api, rv, watch, cache>>
    BY <1>1, <2>5
  <2> QED
    BY <1>2, <2>1, <2>2, <2>3, <2>4, <2>5 DEF InformerStep
<1>4. /\ w'[c] # Nil => w'[c].basis \in S
      /\ basis'[c] # Nil => basis'[c] \in S
  <2>1. ASSUME NEW obj PROVE Started(obj).basis = BasisOf(obj)
    BY DEF Started
  <2>2. CASE Starts(c)
    <3>1. w'[c].basis = BasisOf(cache[c]) /\ cache[c] # Nil
      BY <2>1, <2>2 DEF Starts
    <3> QED
      BY <2>2, <3>1 DEF Starts, KnownIn
  <2>3. CASE Keeps(c)
    BY <2>3 DEF Keeps, KnownIn
  <2>4. CASE Writes(c)
    BY <2>4 DEF Writes, KnownIn
  <2> QED
    BY <2>2, <2>3, <2>4, WorkerSteps
<1> QED
  BY <1>1, <1>3, <1>4 DEF KnownIn, In

\* The history S of class c, and the object of this step if there is one.
Extended(c, S, T) == T = S \cup (IF api'[c] = Nil THEN {} ELSE {BasisOf(api'[c])})

\* A newer object keeps the history of its class ordered.
LEMMA NewestKeepsOrder ==
    ASSUME TypeOK, NEW c \in Classes, NEW S, NEW T, OrderedIn(c, S), NEW obj \in Objects,
           api'[c] = obj, rv'[c] = rv[c] + 1, obj.rv = rv[c] + 1, obj.uid <= obj.rv,
           T = S \cup {BasisOf(obj)},
           \A x \in S :
             /\ NotOlder(BasisOf(obj), x)
             /\ x.uid = obj.uid /\ x.gen = obj.gen => x.spec = obj.spec
    PROVE  OrderedIn(c, T)'
<1> DEFINE b == BasisOf(obj)
<1>1. /\ b \in Bases /\ b.rv = rv[c] + 1 /\ b.uid = obj.uid /\ b.gen = obj.gen /\ b.spec = obj.spec
      /\ b.uid \in Nat /\ b.gen \in Nat /\ rv[c] \in Nat /\ b.uid <= b.rv
  BY DEF TypeOK, Objects, Bases, BasisOf
<1>2. \A x \in S : x \in Bases /\ x.uid \in Nat /\ x.gen \in Nat /\ x.rv \in Nat
                            /\ x.uid <= x.rv /\ x.rv <= rv[c]
  BY DEF OrderedIn, Bases
<1>3. \A x \in S : NotOlder(b, x) /\ (x.uid = b.uid /\ x.gen = b.gen => x.spec = b.spec)
  BY <1>1
<1>4. NotOlder(b, b)
  BY <1>1 DEF NotOlder
<1>5. \A x, y \in S : x.rv <= y.rv => NotOlder(y, x)
  BY DEF OrderedIn
<1>6. \A x : NotOlder(obj, x) <=> NotOlder(b, x)
  BY <1>1 DEF NotOlder
<1>7. api'[c] = obj /\ T = S \cup {b} /\ rv'[c] = rv[c] + 1
  OBVIOUS
<1> HIDE DEF b
<1>8. \A x, y \in T : x.rv <= y.rv => NotOlder(y, x)
  <2>1. \A x \in S : ~(b.rv <= x.rv)
    BY <1>1, <1>2
  <2> QED
    BY <1>3, <1>4, <1>5, <1>7, <2>1
<1>9. \A x \in T : x \in Bases /\ x.uid <= x.rv /\ x.rv <= rv'[c]
  BY <1>1, <1>2, <1>7
<1>10. \A x \in T : /\ NotOlder(api'[c], x)
                    /\ x.uid = api'[c].uid /\ x.gen = api'[c].gen => x.spec = api'[c].spec
  BY <1>1, <1>3, <1>4, <1>6, <1>7
<1> QED
  BY <1>8, <1>9, <1>10 DEF OrderedIn, NotOlder

\* A history that gets what is stored stays in the order of versions.
LEMMA OrderStays ==
    ASSUME TypeOK, [Next]_vars, NEW c \in Classes, NEW S, NEW T,
           KnownIn(c, S), OrderedIn(c, S), Extended(c, S, T)
    PROVE  OrderedIn(c, T)'
<1>1. S \subseteq T
  BY DEF Extended
<1>2. T = S \cup (IF api'[c] = Nil THEN {} ELSE {BasisOf(api'[c])})
  BY DEF Extended
<1>3. rv[c] \in Nat /\ (api[c] # Nil => api[c] \in Objects)
  BY DEF TypeOK
<1>4. ASSUME api[c] # Nil
      PROVE  api[c].uid \in Nat /\ api[c].gen \in Nat /\ api[c].uid <= rv[c] + 1
  <2>1. BasisOf(api[c]) \in S /\ S \subseteq Bases /\ api[c].uid \in Nat /\ api[c].gen \in Nat
    BY <1>3, <1>4 DEF KnownIn, OrderedIn, Objects
  <2>2. BasisOf(api[c]).rv \in Nat /\ BasisOf(api[c]).uid = api[c].uid
    BY <2>1 DEF BasisOf, Bases
  <2>3. api[c].uid <= BasisOf(api[c]).rv /\ BasisOf(api[c]).rv <= rv[c]
    BY <2>1, <2>2 DEF OrderedIn
  <2> QED
    BY <1>3, <2>1, <2>2, <2>3
<1>5. \A x \in S : x.uid \in Nat /\ x.gen \in Nat /\ x.rv \in Nat /\ x.uid <= x.rv /\ x.rv <= rv[c]
  BY DEF OrderedIn, Bases
<1>6. ASSUME api'[c] = api[c], rv'[c] = rv[c] PROVE OrderedIn(c, T)'
  <2>1. T = S
    BY <1>2, <1>6 DEF KnownIn
  <2> QED
    BY <1>6, <2>1 DEF OrderedIn, NotOlder
<1>7. ASSUME NEW obj \in Objects, NEW b, Puts(c, obj, b), obj.rv = rv[c] + 1, obj.uid <= rv[c] + 1,
             \A x \in S :
               /\ NotOlder(obj, x)
               /\ x.uid = obj.uid /\ x.gen = obj.gen => x.spec = obj.spec
      PROVE  OrderedIn(c, T)'
  <2>1. api'[c] = obj /\ rv'[c] = rv[c] + 1 /\ obj # Nil
    BY <1>7, ConstantsAssumption DEF TypeOK, Puts
  <2>2. T = S \cup {BasisOf(obj)}
    BY <1>2, <2>1
  <2>3. \A x : NotOlder(BasisOf(obj), x) <=> NotOlder(obj, x)
    BY DEF BasisOf, NotOlder
  <2>4. obj.uid <= obj.rv
    BY <1>7
  <2> QED
    BY <1>7, <2>1, <2>2, <2>3, <2>4, NewestKeepsOrder
<1>8. ASSUME NEW d \in Classes, d # c, NEW obj, NEW b, Puts(d, obj, b) PROVE OrderedIn(c, T)'
  BY <1>6, <1>8 DEF TypeOK, Puts
<1>9. ASSUME Creates(c) PROVE OrderedIn(c, T)'
  <2>1. PICK obj \in Objects : /\ Puts(c, obj, Nil) /\ obj.uid = rv[c] + 1 /\ obj.rv = rv[c] + 1
    BY <1>9 DEF Creates
  <2>2. \A x \in S : x.uid < obj.uid
    BY <1>3, <1>5, <2>1
  <2>3. \A x \in S : NotOlder(obj, x) /\ x.uid # obj.uid
    BY <1>3, <1>5, <2>1, <2>2 DEF NotOlder
  <2> QED
    BY <1>3, <1>7, <2>1, <2>3
<1>10. ASSUME Edits(c) PROVE OrderedIn(c, T)'
  <2>1. PICK obj \in Objects :
          /\ api[c] # Nil /\ Puts(c, obj, basis[c]) /\ obj.uid = api[c].uid /\ obj.rv = rv[c] + 1
          /\ \/ obj.gen = api[c].gen /\ obj.spec = api[c].spec
             \/ obj.gen = api[c].gen + 1
    BY <1>10 DEF Edits
  <2>2. \A x \in S :
          /\ NotOlder(api[c], x)
          /\ x.uid = api[c].uid /\ x.gen = api[c].gen => x.spec = api[c].spec
    BY <2>1 DEF OrderedIn
  <2>3. \A x \in S :
          /\ NotOlder(obj, x)
          /\ x.uid = obj.uid /\ x.gen = obj.gen => x.spec = obj.spec
    <3>1. CASE obj.gen = api[c].gen /\ obj.spec = api[c].spec
      BY <2>1, <2>2, <3>1 DEF NotOlder
    <3>2. CASE obj.gen = api[c].gen + 1
      BY <1>4, <1>5, <2>1, <2>2, <3>2 DEF NotOlder
    <3> QED
      BY <2>1, <3>1, <3>2
  <2> QED
    BY <1>4, <1>7, <2>1, <2>3
<1>11. ASSUME Deletes(c) PROVE OrderedIn(c, T)'
  <2>1. api'[c] = Nil /\ rv'[c] = rv[c] + 1
    BY <1>11 DEF TypeOK, Deletes, Puts
  <2>2. T = S
    BY <1>2, <2>1
  <2>3. \A x \in T : x.uid <= x.rv /\ x.rv <= rv'[c]
    BY <1>3, <1>5, <2>1, <2>2
  <2> QED
    BY <2>1, <2>2, <2>3 DEF OrderedIn, NotOlder
<1>12. ASSUME Reports(c) PROVE OrderedIn(c, T)'
  <2>1. CASE Rewrites(c)
    <3>1. PICK obj \in Objects :
            /\ Puts(c, obj, w[c].basis) /\ obj.uid = api[c].uid /\ obj.gen = api[c].gen
            /\ obj.spec = api[c].spec /\ obj.rv = rv[c] + 1
      BY <2>1 DEF Rewrites
    <3>2. \A x \in S :
            /\ NotOlder(obj, x)
            /\ x.uid = obj.uid /\ x.gen = obj.gen => x.spec = obj.spec
      BY <1>12, <3>1 DEF Reports, OrderedIn, NotOlder
    <3> QED
      BY <1>4, <1>7, <1>12, <3>1, <3>2 DEF Reports
  <2>2. CASE Confirms(c)
    BY <1>6, <2>2 DEF Confirms
  <2> QED
    BY <1>12, <2>1, <2>2 DEF Reports
<1>13. ASSUME NEW d \in Classes, d # c, Creates(d) \/ Edits(d) \/ Deletes(d) \/ Reports(d)
       PROVE  OrderedIn(c, T)'
  BY <1>6, <1>8, <1>13 DEF Creates, Edits, Deletes, Reports, Rewrites, Confirms
<1>14. CASE UNCHANGED <<api, rv, basis>>
  BY <1>6, <1>14
<1> QED
  BY <1>9, <1>10, <1>11, <1>12, <1>13, <1>14, VisibleSteps

\* The versions of a class that are still known are in order.
VersionsKnown == \A c \in Classes : \E S \in SUBSET Bases : KnownIn(c, S) /\ OrderedIn(c, S)

\* They always are.
LEMMA KnownAlways == Spec => []VersionsKnown
<1>1. Init => VersionsKnown
  <2> SUFFICES ASSUME Init, NEW c \in Classes PROVE KnownIn(c, {}) /\ OrderedIn(c, {})
    BY DEF VersionsKnown
  <2> QED
    BY DEF Init, KnownIn, OrderedIn
<1>2. TypeOK /\ VersionsKnown /\ [Next]_vars => VersionsKnown'
  <2> SUFFICES ASSUME TypeOK, VersionsKnown, [Next]_vars, NEW c \in Classes
               PROVE  \E T \in SUBSET Bases : KnownIn(c, T)' /\ OrderedIn(c, T)'
    BY DEF VersionsKnown
  <2>1. PICK S \in SUBSET Bases : KnownIn(c, S) /\ OrderedIn(c, S)
    BY DEF VersionsKnown
  <2>2. PICK T : Extended(c, S, T)
    BY DEF Extended
  <2>3. OrderedIn(c, T)'
    BY <2>1, <2>2, OrderStays
  <2>4. KnownIn(c, T)
    BY <2>1, <2>2 DEF KnownIn, Extended
  <2>5. KnownIn(c, T)'
    BY <2>2, <2>4, KnownStays DEF Extended
  <2>6. T \in SUBSET Bases
    BY <2>3 DEF OrderedIn
  <2> QED
    BY <2>3, <2>5, <2>6
<1> QED
  BY <1>1, <1>2, TypeCorrect, PTL DEF Spec

\* A status computed from the uid and the generation that a class has now was
\* computed from the spec it has now.
CurrentIsExact == \A c \in Classes : api[c] # Nil /\ Current(c) => basis[c].spec = api[c].spec

\* Generations tell specs apart, through edits, recreations and stale reads: the
\* predicate of the controller (lines 332-334) may go by them.
THEOREM GenerationsSuffice == Spec => []CurrentIsExact
<1>1. VersionsKnown => CurrentIsExact
  BY DEF VersionsKnown, CurrentIsExact, Current, KnownIn, OrderedIn
<1> QED
  BY <1>1, KnownAlways, PTL

-----------------------------------------------------------------------------
(* The lifecycle.                                                           *)

\* The two copies of the admission rules, and of what a status may say, agree.
LEMMA SameRules ==
    /\ Lifecycle!DNSClassSpec = DNSClassSpec /\ Lifecycle!NoStatus = NoStatus
    /\ Lifecycle!StateReady = StateReady /\ Lifecycle!StateError = StateError
    /\ \A spec \in AdmittedSpecs : Lifecycle!Valid(spec)
    /\ \A status, b : Lifecycle!Explained(status, b) <=> Explained(status, b)
<1>1. /\ Lifecycle!DNSClassSpec = DNSClassSpec /\ Lifecycle!NoStatus = NoStatus
      /\ Lifecycle!StateReady = StateReady /\ Lifecycle!StateError = StateError
  BY DEF Lifecycle!DNSClassSpec, DNSClassSpec, Lifecycle!Policies, Policies, Lifecycle!ValidDNSPolicies,
     ValidDNSPolicies, Lifecycle!DNSConfigs, DNSConfigs, Lifecycle!NSLists, NSLists,
     Lifecycle!SearchEntries, SearchEntries, Lifecycle!TemplateKeys, TemplateKeys, Lifecycle!FieldNames,
     FieldNames, Lifecycle!ValidTemplateKeys, ValidTemplateKeys, Lifecycle!NoStatus, NoStatus,
     Lifecycle!ConditionTypes, ConditionTypes, Lifecycle!StateInit, StateInit, Lifecycle!StateReady,
     StateReady, Lifecycle!StateError, StateError
<1>2. \A spec : Lifecycle!ExtractTemplateKeysRegex(spec) = ExtractTemplateKeysRegex(spec)
  BY DEF Lifecycle!ExtractTemplateKeysRegex, ExtractTemplateKeysRegex
<1>3. \A spec : Lifecycle!Valid(spec) <=> Valid(spec)
  BY <1>2 DEF Lifecycle!Valid, Valid, Lifecycle!ValidDNSPolicies, ValidDNSPolicies,
     Lifecycle!ValidTemplateKeys, ValidTemplateKeys
<1>4. \A status, b : Lifecycle!Explained(status, b) <=> Explained(status, b)
  BY <1>1, <1>2 DEF Lifecycle!Explained, Explained, Lifecycle!Supports, Supports, Lifecycle!Clean, Clean,
     Lifecycle!StateInit, StateInit
<1>5. \A spec \in AdmittedSpecs : Valid(spec)
  BY DEF AdmittedSpecs, Admitted
<1> QED
  BY <1>1, <1>3, <1>4, <1>5

-----------------------------------------------------------------------------
\* The controller with its history is the controller.
LEMMA HistoryIsHarmless == HistorySpec => Spec
<1>1. [HistoryNext]_historyVars => [Next]_vars
  BY DEF HistoryNext, historyVars
<1> QED
  BY <1>1, PTL DEF HistorySpec, HistoryInit, Spec

\* The history is the one the invariant describes, in every state.
THEOREM HistoryIsKept == HistorySpec => [](IInv /\ HistoryInv)
<1>1. HistoryInit => HistoryInv
  BY DEF HistoryInit, Init, HistoryInv, KnownIn, OrderedIn
<1>2. TypeOK /\ HistoryInv /\ [HistoryNext]_historyVars => HistoryInv'
  <2> SUFFICES ASSUME TypeOK, HistoryInv, [HistoryNext]_historyVars, NEW c \in Classes
               PROVE  (KnownIn(c, stored[c]) /\ OrderedIn(c, stored[c]))'
    BY DEF HistoryInv
  <2>1. PICK S : S = stored[c]
    OBVIOUS
  <2>2. PICK T : T = stored'[c]
    OBVIOUS
  <2>3. [Next]_vars /\ KnownIn(c, S) /\ OrderedIn(c, S)
    BY <2>1 DEF HistoryNext, historyVars, HistoryInv
  <2>4. Extended(c, S, T)
    <3>1. CASE UNCHANGED historyVars
      BY <2>1, <2>2, <2>3, <3>1 DEF historyVars, vars, KnownIn, Extended
    <3>2. CASE HistoryNext
      BY <2>1, <2>2, <3>2 DEF HistoryNext, Recorded, Extended
    <3> QED
      BY <3>1, <3>2
  <2>5. KnownIn(c, T)
    BY <2>3, <2>4 DEF KnownIn, Extended
  <2>6. KnownIn(c, T)' /\ OrderedIn(c, T)'
    BY <2>3, <2>4, <2>5, KnownStays, OrderStays DEF Extended
  <2> QED
    BY <2>2, <2>6 DEF KnownIn, OrderedIn, NotOlder
<1>3. IInv => TypeOK
  BY DEF IInv
<1> QED
  BY <1>1, <1>2, <1>3, HistoryIsHarmless, Inductive, PTL DEF HistorySpec

-----------------------------------------------------------------------------
(* Each step of the controller is a step of the lifecycle, or a stutter.   *)

\* Nil is no version, and the version of an object is one.
LEMMA VersionFacts ==
    /\ \A b \in Bases : VersionOf(b) \in Lifecycle!Versions /\ VersionOf(b) # Nil
    /\ \A obj \in Objects : VersionOf(obj) \in Lifecycle!Versions /\ VersionOf(BasisOf(obj)) = VersionOf(obj)
    /\ \A b : /\ VersionOf(b).uid = b.uid /\ VersionOf(b).gen = b.gen /\ VersionOf(b).spec = b.spec
<1>1. \A b : VersionOf(b).uid = b.uid /\ VersionOf(b).gen = b.gen /\ VersionOf(b).spec = b.spec
  BY DEF VersionOf
<1>2. \A b \in Bases : VersionOf(b) \in Lifecycle!Versions
  BY SameRules DEF Bases, VersionOf, Lifecycle!Versions
<1>3. \A obj \in Objects : VersionOf(obj) \in Lifecycle!Versions /\ VersionOf(BasisOf(obj)) = VersionOf(obj)
  BY SameRules DEF Objects, BasisOf, VersionOf, Lifecycle!Versions
<1> QED
  BY <1>1, <1>2, <1>3, VersionsAssumption

\* The history of a class that a step leaves alone.
LEMMA StoredStays ==
    ASSUME [HistoryNext]_historyVars, NEW c \in Classes, KnownIn(c, stored[c]), api'[c] = api[c]
    PROVE  stored'[c] = stored[c]
<1>1. CASE UNCHANGED historyVars
  BY <1>1 DEF historyVars
<1>2. CASE HistoryNext
  <2>1. stored'[c] = stored[c] \cup (IF api'[c] = Nil THEN {} ELSE {BasisOf(api'[c])})
    BY <1>2 DEF HistoryNext, Recorded
  <2> QED
    BY <2>1 DEF KnownIn
<1> QED
  BY <1>1, <1>2

\* What users see of a class that a step leaves alone.
LEMMA UntouchedMaps ==
    ASSUME [HistoryNext]_historyVars, NEW c \in Classes, KnownIn(c, stored[c]),
           api'[c] = api[c], basis'[c] = basis[c]
    PROVE  /\ publishedOf'[c] = publishedOf[c] /\ classOf'[c] = classOf[c]
           /\ statusOf'[c] = statusOf[c] /\ sourceOf'[c] = sourceOf[c]
  BY StoredStays DEF publishedOf, classOf, statusOf, sourceOf

\* What users see of a class that the API server stored.
LEMMA PutsMaps ==
    ASSUME TypeOK, HistoryInv, [HistoryNext]_historyVars, NEW c \in Classes,
           NEW obj, NEW b, Puts(c, obj, b)
    PROVE  /\ publishedOf' = [publishedOf EXCEPT ![c] = @ \cup (IF obj = Nil THEN {} ELSE {VersionOf(BasisOf(obj))})]
           /\ classOf' = [classOf EXCEPT ![c] = IF obj = Nil THEN Nil ELSE VersionOf(obj)]
           /\ statusOf' = [statusOf EXCEPT ![c] = IF obj = Nil THEN Nil ELSE obj.status]
           /\ sourceOf' = [sourceOf EXCEPT ![c] = IF b = Nil THEN Nil ELSE VersionOf(b)]
<1>1. api'[c] = obj /\ basis'[c] = b /\ rv'[c] # rv[c]
  BY DEF TypeOK, Puts
<1>2. \A d \in Classes : d # c => api'[d] = api[d] /\ basis'[d] = basis[d]
  BY DEF TypeOK, Puts
<1>3. stored'[c] = stored[c] \cup (IF obj = Nil THEN {} ELSE {BasisOf(obj)})
  <2>1. ~UNCHANGED historyVars
    BY <1>1 DEF historyVars, vars
  <2> QED
    BY <1>1, <2>1 DEF HistoryNext, Recorded
<1>4. \A d \in Classes : d # c => /\ publishedOf'[d] = publishedOf[d] /\ classOf'[d] = classOf[d]
                                  /\ statusOf'[d] = statusOf[d] /\ sourceOf'[d] = sourceOf[d]
  BY <1>2, UntouchedMaps DEF HistoryInv
<1>5. publishedOf'[c] = publishedOf[c] \cup (IF obj = Nil THEN {} ELSE {VersionOf(BasisOf(obj))})
  BY <1>3 DEF publishedOf
<1>6. /\ classOf'[c] = IF obj = Nil THEN Nil ELSE VersionOf(obj)
      /\ statusOf'[c] = IF obj = Nil THEN Nil ELSE obj.status
      /\ sourceOf'[c] = IF b = Nil THEN Nil ELSE VersionOf(b)
  BY <1>1 DEF classOf, statusOf, sourceOf
<1>7. publishedOf' = [publishedOf EXCEPT ![c] = @ \cup (IF obj = Nil THEN {} ELSE {VersionOf(BasisOf(obj))})]
  BY <1>4, <1>5 DEF publishedOf
<1>8. classOf' = [classOf EXCEPT ![c] = IF obj = Nil THEN Nil ELSE VersionOf(obj)]
  BY <1>4, <1>6 DEF classOf
<1>9. statusOf' = [statusOf EXCEPT ![c] = IF obj = Nil THEN Nil ELSE obj.status]
  BY <1>4, <1>6 DEF statusOf
<1>10. sourceOf' = [sourceOf EXCEPT ![c] = IF b = Nil THEN Nil ELSE VersionOf(b)]
  BY <1>4, <1>6 DEF sourceOf
<1> QED
  BY <1>7, <1>8, <1>9, <1>10

\* An object of the present version changes neither the history nor the class.
LEMMA SameVersionMaps ==
    ASSUME TypeOK, HistoryInv, [HistoryNext]_historyVars, NEW c \in Classes, api[c] # Nil,
           NEW obj \in Objects, NEW b, Puts(c, obj, b),
           obj.uid = api[c].uid, obj.gen = api[c].gen, obj.spec = api[c].spec
    PROVE  UNCHANGED <<publishedOf, classOf>>
<1>1. VersionOf(obj) = VersionOf(api[c])
  BY DEF VersionOf
<1>2. obj # Nil /\ api[c] \in Objects
  BY ConstantsAssumption DEF TypeOK
<1>3. BasisOf(api[c]) \in stored[c]
  BY DEF HistoryInv, KnownIn
<1>4. VersionOf(BasisOf(obj)) \in publishedOf[c]
  BY <1>1, <1>2, <1>3, VersionFacts DEF publishedOf
<1>5. classOf[c] = VersionOf(obj)
  BY <1>1 DEF classOf
<1>6. publishedOf' = publishedOf
  <2>1. publishedOf' = [publishedOf EXCEPT ![c] = @ \cup {VersionOf(BasisOf(obj))}]
    BY <1>2, PutsMaps
  <2> QED
    BY <1>4, <2>1 DEF publishedOf
<1>7. classOf' = classOf
  <2>1. classOf' = [classOf EXCEPT ![c] = VersionOf(obj)]
    BY <1>2, PutsMaps
  <2> QED
    BY <1>5, <2>1 DEF classOf
<1> QED
  BY <1>6, <1>7

\* Creating a class creates it.
LEMMA CreateMaps ==
    ASSUME TypeOK, HistoryInv, [HistoryNext]_historyVars, NEW c \in Classes, Creates(c)
    PROVE  Lifecycle!Create(c)
<1>1. PICK obj \in Objects :
        /\ api[c] = Nil /\ Puts(c, obj, Nil) /\ obj.uid = rv[c] + 1 /\ obj.gen = 1
        /\ obj.spec \in AdmittedSpecs /\ obj.status = NoStatus
  BY DEF Creates
<1> DEFINE v == VersionOf(obj)
<1>2. obj # Nil /\ VersionOf(BasisOf(obj)) = v /\ v \in Lifecycle!Versions /\ v.uid = obj.uid
      /\ v.gen = 1 /\ v.spec = obj.spec
  BY <1>1, ConstantsAssumption, VersionFacts
<1> HIDE DEF v
<1>3. /\ publishedOf' = [publishedOf EXCEPT ![c] = @ \cup {v}]
      /\ classOf' = [classOf EXCEPT ![c] = v]
      /\ statusOf' = [statusOf EXCEPT ![c] = NoStatus]
      /\ sourceOf' = [sourceOf EXCEPT ![c] = Nil]
  BY <1>1, <1>2, PutsMaps DEF v
<1>4. classOf'[c] = v /\ classOf[c] = Nil
  BY <1>1, <1>3 DEF classOf
<1>5. \A u \in publishedOf[c] : ~Lifecycle!NotOlder(u, v)
  <2>1. ASSUME NEW x \in stored[c] PROVE ~Lifecycle!NotOlder(VersionOf(x), v)
    <3>1. x.uid \in Nat /\ x.rv \in Nat /\ x.uid <= x.rv /\ x.rv <= rv[c] /\ rv[c] \in Nat
      BY DEF TypeOK, HistoryInv, OrderedIn, Bases
    <3>2. x.uid < v.uid /\ VersionOf(x).uid = x.uid /\ v.uid \in Nat
      BY <1>1, <1>2, <3>1, VersionFacts
    <3> QED
      BY <3>1, <3>2 DEF NotOlder, Lifecycle!NotOlder
  <2> QED
    BY <2>1 DEF publishedOf
<1> QED
  BY <1>1, <1>2, <1>3, <1>4, <1>5, SameRules DEF Lifecycle!Create, Lifecycle!Publish

\* An edit is a new version, or is not seen.
LEMMA EditMaps ==
    ASSUME TypeOK, HistoryInv, [HistoryNext]_historyVars, NEW c \in Classes, Edits(c)
    PROVE  Lifecycle!Edit(c) \/ UNCHANGED <<publishedOf, classOf, statusOf, sourceOf>>
<1>1. PICK obj \in Objects :
        /\ api[c] # Nil /\ Puts(c, obj, basis[c])
        /\ obj.uid = api[c].uid /\ obj.status = api[c].status
        /\ \/ obj.gen = api[c].gen /\ obj.spec = api[c].spec
           \/ obj.gen = api[c].gen + 1 /\ obj.spec \in AdmittedSpecs
  BY DEF Edits
<1> DEFINE v == VersionOf(obj)
<1>2. obj # Nil /\ VersionOf(BasisOf(obj)) = v /\ v \in Lifecycle!Versions /\ v.uid = obj.uid
      /\ v.gen = obj.gen /\ v.spec = obj.spec
  BY <1>1, ConstantsAssumption, VersionFacts
<1>3. UNCHANGED <<statusOf, sourceOf>>
  <2>1. statusOf' = [statusOf EXCEPT ![c] = obj.status] /\ obj.status = statusOf[c]
    BY <1>1, <1>2, PutsMaps DEF statusOf
  <2>2. sourceOf' = [sourceOf EXCEPT ![c] = IF basis[c] = Nil THEN Nil ELSE VersionOf(basis[c])]
    BY <1>1, PutsMaps
  <2> QED
    BY <2>1, <2>2 DEF statusOf, sourceOf
<1>4. CASE obj.gen = api[c].gen /\ obj.spec = api[c].spec
  BY <1>1, <1>3, <1>4, SameVersionMaps
<1>5. CASE obj.gen = api[c].gen + 1 /\ obj.spec \in AdmittedSpecs
  <2>1. /\ publishedOf' = [publishedOf EXCEPT ![c] = @ \cup {v}]
        /\ classOf' = [classOf EXCEPT ![c] = v]
    BY <1>1, <1>2, PutsMaps
  <2>2. classOf'[c] = v /\ classOf[c] # Nil /\ classOf[c].uid = obj.uid
    <3>1. api[c] \in Objects
      BY <1>1 DEF TypeOK
    <3>2. VersionOf(api[c]) # Nil /\ VersionOf(api[c]).uid = api[c].uid
      BY <3>1, VersionFacts, VersionsAssumption
    <3> QED
      BY <1>1, <2>1, <3>2 DEF classOf
  <2>3. \A u \in publishedOf[c] : ~Lifecycle!NotOlder(u, v)
    <3>1. ASSUME NEW x \in stored[c] PROVE ~Lifecycle!NotOlder(VersionOf(x), v)
      <4>1. x.uid \in Nat /\ x.gen \in Nat /\ api[c].uid \in Nat /\ api[c].gen \in Nat
        BY <1>1 DEF TypeOK, Objects, HistoryInv, OrderedIn, Bases
      <4>2. NotOlder(api[c], x)
        BY <1>1 DEF HistoryInv, OrderedIn
      <4>3. VersionOf(x).uid = x.uid /\ VersionOf(x).gen = x.gen
        BY VersionFacts
      <4>4. v.uid = api[c].uid /\ v.gen = api[c].gen + 1
        BY <1>1, <1>2, <1>5
      <4> HIDE DEF v
      <4> QED
        BY <4>1, <4>2, <4>3, <4>4 DEF NotOlder, Lifecycle!NotOlder
    <3> QED
      BY <3>1 DEF publishedOf
  <2> HIDE DEF v
  <2> QED
    BY <1>1, <1>2, <1>3, <1>5, <2>1, <2>2, <2>3, SameRules DEF Lifecycle!Edit, Lifecycle!Publish
<1> QED
  BY <1>1, <1>4, <1>5

\* Deleting a class deletes it.
LEMMA DeleteMaps ==
    ASSUME TypeOK, HistoryInv, [HistoryNext]_historyVars, NEW c \in Classes, Deletes(c)
    PROVE  Lifecycle!Delete(c)
<1>1. api[c] # Nil /\ api[c] \in Objects /\ Puts(c, Nil, Nil)
  BY DEF TypeOK, Deletes
<1>2. classOf[c] # Nil
  BY <1>1, VersionFacts, VersionsAssumption DEF classOf
<1>3. /\ publishedOf' = [publishedOf EXCEPT ![c] = @ \cup {}]
      /\ classOf' = [classOf EXCEPT ![c] = Nil]
      /\ statusOf' = [statusOf EXCEPT ![c] = Nil]
      /\ sourceOf' = [sourceOf EXCEPT ![c] = Nil]
  BY <1>1, PutsMaps
<1>4. publishedOf' = publishedOf
  BY <1>3 DEF publishedOf
<1> QED
  BY <1>2, <1>3, <1>4 DEF Lifecycle!Delete

\* A status that is written reports on the version the worker read.
LEMMA ReportMaps ==
    ASSUME IInv, HistoryInv, [HistoryNext]_historyVars, NEW c \in Classes, Reports(c)
    PROVE  Lifecycle!Report(c)
<1>1. TypeOK /\ w[c] # Nil /\ api[c] # Nil /\ api[c] \in Objects /\ w[c] \in Workers
      /\ w[c].pc = "update" /\ w[c].basis \in Bases
  BY DEF IInv, TypeOK, Reports, Workers
<1> DEFINE v == VersionOf(w[c].basis)
<1>2. v \in publishedOf[c] /\ v \in Lifecycle!Versions /\ w[c].basis # Nil
  BY <1>1, VersionFacts, ConstantsAssumption DEF HistoryInv, KnownIn, publishedOf
<1>3. sourceOf[c] # Nil => Lifecycle!NotOlder(v, sourceOf[c])
  <2> SUFFICES ASSUME basis[c] # Nil PROVE Lifecycle!NotOlder(v, VersionOf(basis[c]))
    BY DEF sourceOf
  <2>1. basis[c].rv <= w[c].basis.rv
    BY <1>1 DEF IInv, VersionsOrdered, StatusOrdered
  <2>2. basis[c] \in stored[c] /\ w[c].basis \in stored[c]
    BY <1>1 DEF HistoryInv, KnownIn
  <2>3. NotOlder(w[c].basis, basis[c])
    BY <2>1, <2>2 DEF HistoryInv, OrderedIn
  <2> QED
    BY <2>3, VersionFacts DEF NotOlder, Lifecycle!NotOlder
<1>4. Explained(w[c].status, v) /\ w[c].status.state \in {StateReady, StateError}
  <2>1. WorkerExplained(w[c])
    BY <1>1 DEF IInv, AllExplained
  <2>2. Explained(w[c].status, w[c].basis) /\ w[c].status.state \in {StateReady, StateError}
    BY <1>1, <2>1 DEF WorkerExplained
  <2>3. v.spec = w[c].basis.spec
    BY VersionFacts
  <2> HIDE DEF v
  <2> QED
    BY <2>2, <2>3 DEF Explained
<1>5. classOf[c] # Nil
  BY <1>1, VersionFacts, VersionsAssumption DEF classOf
<1>6. /\ UNCHANGED <<publishedOf, classOf>>
      /\ sourceOf' = [sourceOf EXCEPT ![c] = v]
      /\ statusOf' = [statusOf EXCEPT ![c] = w[c].status]
  <2>1. CASE Rewrites(c)
    <3>1. PICK obj \in Objects :
            /\ Puts(c, obj, w[c].basis) /\ obj.uid = api[c].uid /\ obj.gen = api[c].gen
            /\ obj.spec = api[c].spec /\ obj.status = w[c].status
      BY <2>1 DEF Rewrites
    <3>2. UNCHANGED <<publishedOf, classOf>>
      BY <1>1, <3>1, SameVersionMaps
    <3>3. obj # Nil
      BY ConstantsAssumption
    <3>4. /\ sourceOf' = [sourceOf EXCEPT ![c] = v]
          /\ statusOf' = [statusOf EXCEPT ![c] = obj.status]
      BY <1>1, <1>2, <3>1, <3>3, PutsMaps
    <3> QED
      BY <3>1, <3>2, <3>4
  <2>2. CASE Confirms(c)
    <3>1. api' = api /\ basis' = [basis EXCEPT ![c] = w[c].basis] /\ api[c].status = w[c].status
      BY <2>2 DEF Confirms
    <3>2. basis'[c] = w[c].basis /\ \A d \in Classes : d # c => basis'[d] = basis[d]
      BY <1>1, <3>1 DEF TypeOK
    <3>3. \A d \in Classes : stored'[d] = stored[d]
      BY <3>1, StoredStays DEF HistoryInv
    <3>4. UNCHANGED <<publishedOf, classOf, statusOf>>
      BY <3>1, <3>3 DEF publishedOf, classOf, statusOf
    <3>5. statusOf[c] = w[c].status
      BY <1>1, <3>1 DEF statusOf
    <3>6. statusOf' = [statusOf EXCEPT ![c] = w[c].status]
      BY <3>4, <3>5 DEF statusOf
    <3>7. sourceOf' = [sourceOf EXCEPT ![c] = v]
      BY <1>2, <3>2 DEF sourceOf
    <3> QED
      BY <3>4, <3>6, <3>7
  <2> QED
    BY <2>1, <2>2 DEF Reports
<1>7. statusOf'[c] = w[c].status
  BY <1>6 DEF statusOf
<1> HIDE DEF v
<1> QED
  BY <1>2, <1>3, <1>4, <1>5, <1>6, <1>7, SameRules DEF Lifecycle!Report

\* The controller implements the lifecycle: through stale reads, conflicts,
\* retries, crashes and recreations, each status that users see is explained by
\* a version that was published, and none is older than the one before
\* (Reconcile and writeStatus, lines 72-132 and 291-309).
THEOREM Refines == HistorySpec => ImplementsLifecycle
<1>1. HistoryInit => Lifecycle!Init
  BY DEF HistoryInit, Init, Lifecycle!Init, publishedOf, classOf, statusOf, sourceOf
<1>2. IInv /\ HistoryInv /\ [HistoryNext]_historyVars => [Lifecycle!Next]_(Lifecycle!lifecycleVars)
  <2> SUFFICES ASSUME IInv, HistoryInv, [HistoryNext]_historyVars
               PROVE  \/ \E c \in Classes : \/ Lifecycle!Create(c) \/ Lifecycle!Edit(c)
                                            \/ Lifecycle!Delete(c) \/ Lifecycle!Report(c)
                      \/ UNCHANGED <<publishedOf, classOf, statusOf, sourceOf>>
    BY DEF Lifecycle!Next, Lifecycle!lifecycleVars
  <2>1. TypeOK /\ [Next]_vars
    BY DEF IInv, HistoryNext, historyVars
  <2>2. ASSUME UNCHANGED <<api, rv, basis>> PROVE UNCHANGED <<publishedOf, classOf, statusOf, sourceOf>>
    <3>1. \A c \in Classes : /\ publishedOf'[c] = publishedOf[c] /\ classOf'[c] = classOf[c]
                             /\ statusOf'[c] = statusOf[c] /\ sourceOf'[c] = sourceOf[c]
      BY <2>2, UntouchedMaps DEF HistoryInv
    <3> QED
      BY <3>1 DEF publishedOf, classOf, statusOf, sourceOf
  <2> QED
    BY <2>1, <2>2, VisibleSteps, CreateMaps, EditMaps, DeleteMaps, ReportMaps
<1> QED
  BY <1>1, <1>2, HistoryIsKept, PTL DEF HistorySpec, ImplementsLifecycle, Lifecycle!Spec

-----------------------------------------------------------------------------
(* Every version has a cause.                                               *)

\* A non-empty set of naturals has a least member.
LEMMA LeastNatural ==
    ASSUME NEW S \in SUBSET Nat, S # {}
    PROVE  \E m \in S : \A n \in S : m <= n
<1>1. PICK m \in S : \A n \in S : ~(<<n, m>> \in OpToRel(<, Nat))
  BY NatLessThanWellFounded, WFMin
<1>2. \A n \in S : ~(n < m)
  BY <1>1 DEF OpToRel
<1> QED
  BY <1>2

\* If no event on the way to old calls for another status, the last does not.
LEMMA NothingRenewed ==
    ASSUME NEW S, NEW old \in S, NEW events \in Seq(S), events # <<>>,
           Renewals(old, events) = {}
    PROVE  ~Renews(old, events[Len(events)])
<1> DEFINE n == Len(events)
           Same(x, y) == x # Nil /\ x.gen = y.gen /\ x.spec = y.spec
           Others == {i \in 0 .. n - 1 : ~Same(events[n - i], events[n])}
<1>0. n \in Nat /\ n >= 1 /\ DOMAIN events = 1 .. n
  BY EmptySeq
<1> SUFFICES ASSUME events[n] # Nil PROVE ~Renews(old, events[n])
  BY DEF Renews
<1>1. \A i \in DOMAIN events : ~Renews(IF i = 1 THEN old ELSE events[i - 1], events[i])
  BY DEF Renewals
<1>2. Others = {}
  <2> SUFFICES ASSUME Others # {} PROVE FALSE
    OBVIOUS
  <2>1. Others \in SUBSET Nat
    BY <1>0
  <2>2. PICK i \in Others : \A j \in Others : i <= j
    <3> HIDE DEF Others
    <3> QED
      BY <2>1, LeastNatural
  <2>3. i \in 0 .. n - 1 /\ ~Same(events[n - i], events[n])
    OBVIOUS
  <2>4. i # 0
    <3>1. Same(events[n], events[n]) /\ n - 0 = n
      BY <1>0
    <3> QED
      BY <2>3, <3>1
  <2>5. i - 1 \in 0 .. n - 1 /\ i - 1 \notin Others
    <3>1. i - 1 \in 0 .. n - 1 /\ ~(i <= i - 1)
      BY <1>0, <2>3, <2>4
    <3> QED
      BY <2>2, <3>1
  <2>6. n - (i - 1) \in DOMAIN events /\ n - (i - 1) # 1 /\ (n - (i - 1)) - 1 = n - i
    BY <1>0, <2>3, <2>4
  <2>7. Same(events[n - (i - 1)], events[n])
    BY <2>5
  <2>8. ~Renews(events[n - i], events[n - (i - 1)])
    BY <1>1, <2>6
  <2> QED
    BY <2>3, <2>7, <2>8 DEF Renews
<1>3. Same(events[1], events[n])
  <2>1. n - 1 \in 0 .. n - 1 /\ n - (n - 1) = 1
    BY <1>0
  <2> QED
    BY <1>2, <2>1
<1>4. ~Renews(old, events[1])
  <2>1. 1 \in DOMAIN events
    BY <1>0
  <2> QED
    BY <1>1, <2>1
<1> QED
  BY <1>3, <1>4 DEF Renews

\* The events that call for another status are finitely many.
LEMMA RenewalsFinite ==
    ASSUME NEW S, NEW old, NEW events \in Seq(S)
    PROVE  /\ IsFiniteSet(Renewals(old, events)) /\ Cardinality(Renewals(old, events)) \in Nat
           /\ Renewals(old, events) = {} <=> Cardinality(Renewals(old, events)) = 0
<1>1. DOMAIN events = 1 .. Len(events) /\ Len(events) \in Nat
  OBVIOUS
<1>2. IsFiniteSet(1 .. Len(events))
  BY <1>1, FS_Interval
<1>3. Renewals(old, events) \in SUBSET (1 .. Len(events))
  BY <1>1 DEF Renewals
<1> QED
  BY <1>2, <1>3, FS_Subset, FS_CardinalityType, FS_EmptySet

\* An event that is stored is one more, when it calls for another status than
\* the last event, or else the cache.
LEMMA RenewalsAppend ==
    ASSUME NEW S, NEW old, NEW events \in Seq(S), NEW new \in S
    PROVE  Cardinality(Renewals(old, Append(events, new)))
             = Cardinality(Renewals(old, events))
                 + One(Renews(IF events = <<>> THEN old ELSE events[Len(events)], new))
<1> DEFINE n == Len(events)
           longer == Append(events, new)
           tip == IF events = <<>> THEN old ELSE events[n]
           R == Renewals(old, events)
<1>1. n \in Nat /\ DOMAIN events = 1 .. n /\ (events = <<>> <=> n = 0)
  BY EmptySeq
<1>2. /\ DOMAIN longer = 1 .. n + 1 /\ longer[n + 1] = new
      /\ \A i \in 1 .. n : longer[i] = events[i]
  BY <1>1, AppendProperties
<1> HIDE DEF longer
<1>3. Renewals(old, longer) = R \cup (IF Renews(tip, new) THEN {n + 1} ELSE {})
  <2>1. ASSUME NEW i \in 1 .. n PROVE i \in Renewals(old, longer) <=> i \in R
    <3>1. CASE i = 1
      BY <1>1, <1>2, <3>1 DEF Renewals
    <3>2. CASE i # 1
      <4>1. i - 1 \in 1 .. n /\ i \in 1 .. n + 1
        BY <1>1, <3>2
      <4> QED
        BY <1>1, <1>2, <3>2, <4>1 DEF Renewals
    <3> QED
      BY <3>1, <3>2
  <2>2. n + 1 \in Renewals(old, longer) <=> Renews(tip, new)
    <3>1. CASE n = 0
      BY <1>1, <1>2, <3>1 DEF Renewals
    <3>2. CASE n # 0
      <4>1. n \in 1 .. n /\ n + 1 \in 1 .. n + 1 /\ n + 1 # 1 /\ (n + 1) - 1 = n /\ events # <<>>
        BY <1>1, <3>2
      <4> QED
        BY <1>1, <1>2, <4>1 DEF Renewals
    <3> QED
      BY <3>1, <3>2
  <2>3. 1 .. n + 1 = (1 .. n) \cup {n + 1}
    BY <1>1
  <2>4. Renewals(old, longer) \subseteq 1 .. n + 1 /\ R \subseteq 1 .. n
    BY <1>1, <1>2 DEF Renewals
  <2> HIDE DEF R, tip, n
  <2> QED
    BY <2>1, <2>2, <2>3, <2>4
<1>4. IsFiniteSet(R) /\ Cardinality(R) \in Nat
  BY RenewalsFinite
<1>5. n + 1 \notin R
  BY <1>1 DEF Renewals
<1>6. Cardinality(R \cup {n + 1}) = Cardinality(R) + 1 /\ R \cup {} = R
  BY <1>4, <1>5, FS_AddElement
<1>7. Cardinality(Renewals(old, longer)) = Cardinality(R) + One(Renews(tip, new))
  <2> HIDE DEF R, tip, n
  <2>1. CASE Renews(tip, new)
    BY <1>3, <1>6, <2>1 DEF One
  <2>2. CASE ~Renews(tip, new)
    BY <1>3, <1>4, <1>6, <2>2 DEF One
  <2> QED
    BY <2>1, <2>2
<1> QED
  BY <1>7 DEF longer

\* An event that is delivered is one less, if it called for another status.
LEMMA RenewalsTail ==
    ASSUME NEW S, NEW old, NEW events \in Seq(S), events # <<>>
    PROVE  Cardinality(Renewals(Head(events), Tail(events))) + One(Renews(old, Head(events)))
             <= Cardinality(Renewals(old, events))
<1> DEFINE n == Len(events)
           rest == Tail(events)
           R == Renewals(old, events)
           T == Renewals(Head(events), rest)
           next == [i \in T |-> i + 1]
<1>1. n \in Nat /\ n >= 1 /\ DOMAIN events = 1 .. n /\ Head(events) = events[1]
  BY EmptySeq
<1>2. /\ rest \in Seq(S) /\ DOMAIN rest = 1 .. n - 1
      /\ \A i \in 1 .. n - 1 : rest[i] = events[i + 1]
  BY <1>1, HeadTailProperties
<1> HIDE DEF rest
<1>3. ASSUME NEW i \in T PROVE i \in Nat /\ i + 1 \in R /\ i + 1 # 1
  <2>1. i \in 1 .. n - 1 /\ Renews(IF i = 1 THEN Head(events) ELSE rest[i - 1], rest[i])
    BY <1>2 DEF Renewals
  <2>2. i + 1 \in 1 .. n /\ i + 1 # 1 /\ (i + 1) - 1 = i /\ rest[i] = events[i + 1]
    BY <1>1, <1>2, <2>1
  <2>3. (IF i = 1 THEN Head(events) ELSE rest[i - 1]) = events[i]
    <3>1. CASE i = 1
      BY <1>1, <3>1
    <3>2. CASE i # 1
      <4>1. i - 1 \in 1 .. n - 1 /\ (i - 1) + 1 = i
        BY <1>1, <2>1, <3>2
      <4> QED
        BY <1>2, <3>2, <4>1
    <3> QED
      BY <3>1, <3>2
  <2> QED
    BY <1>1, <2>1, <2>2, <2>3 DEF Renewals
<1>4. /\ IsFiniteSet(R) /\ Cardinality(R) \in Nat
      /\ IsFiniteSet(T) /\ Cardinality(T) \in Nat
  BY <1>2, RenewalsFinite
<1>5. /\ IsFiniteSet(R \ {1})
      /\ Cardinality(R \ {1}) = IF 1 \in R THEN Cardinality(R) - 1 ELSE Cardinality(R)
  BY <1>4, FS_RemoveElement
<1>6. next \in Injection(T, R \ {1})
  <2>1. next \in [T -> R \ {1}]
    BY <1>3
  <2>2. \A i, j \in T : next[i] = next[j] => i = j
    BY <1>3
  <2> QED
    BY <2>1, <2>2 DEF Injection, IsInjective
<1>7. Cardinality(T) <= Cardinality(R \ {1})
  <2> HIDE DEF T, R, next
  <2> QED
    BY <1>5, <1>6, FS_Injection
<1>8. Renews(old, Head(events)) => 1 \in R
  BY <1>1 DEF Renewals
<1> HIDE DEF R, T
<1>9. Cardinality(T) + One(Renews(old, Head(events))) <= Cardinality(R)
  BY <1>4, <1>5, <1>7, <1>8 DEF One
<1> QED
  BY <1>9 DEF R, T, rest

-----------------------------------------------------------------------------
(* What a call makes of a status, when it finds found.                     *)

\* found has for each field a value of it, or nothing.
Findable(found) ==
    found["clusterDomain"] \in Domains \cup {Nil} /\ found["nameservers"] \in NSLists \cup {Nil}

\* The status a call starts from, the fields it has then, those it ends with,
\* and those it does not find.
Read(status) == [status EXCEPT !.state = IF @ = "" THEN StateInit ELSE @]
Had(status)  == IF status.discovered = Nil THEN NoFields ELSE status.discovered
Has(status, found) ==
    [clusterDomain |-> IF found["clusterDomain"] = Nil THEN Had(status).clusterDomain ELSE found["clusterDomain"],
     nameservers   |-> IF found["nameservers"] = Nil THEN Had(status).nameservers ELSE found["nameservers"]]
Missed(found) == {f \in FieldNames : found[f] = Nil}

\* The status it ends with: of the object only spec and status matter.
Computed(spec, status, found) ==
    IF spec.dnsPolicy # "None" THEN ReadyStatus(Read(status), status.discovered)
    ELSE IF ExtractTemplateKeysRegex(spec) \cap Missed(found) # {}
      THEN updateStatus([Read(status) EXCEPT !.discovered = IF @ # Nil THEN Has(status, found) ELSE Nil],
                        TRUE, Missed(found))
      ELSE ReadyStatus(Read(status), Has(status, found))

\* What AfterFetch does to the locals of a call, for either field.
FetchesDomain(new, wk, value) ==
    /\ new.basis = wk.basis /\ new.status = wk.status
    /\ new.fields.nameservers = wk.fields.nameservers
    /\ new.fields.clusterDomain = IF value = Nil THEN wk.fields.clusterDomain ELSE value
    /\ new.undiscovered = wk.undiscovered \cup (IF value = Nil THEN {"clusterDomain"} ELSE {})

FetchesNameservers(new, wk, value) ==
    /\ new.basis = wk.basis /\ new.status = wk.status
    /\ new.fields.clusterDomain = wk.fields.clusterDomain
    /\ new.fields.nameservers = IF value = Nil THEN wk.fields.nameservers ELSE value
    /\ new.undiscovered = wk.undiscovered \cup (IF value = Nil THEN {"nameservers"} ELSE {})

\* What the two fetches change of a worker.
LEMMA FetchFields ==
    ASSUME NEW wk \in Workers, NEW value
    PROVE  /\ FetchesDomain(AfterFetch(wk, "clusterDomain", value), wk, value)
           /\ FetchesNameservers(AfterFetch(wk, "nameservers", value), wk, value)
  BY DEF FetchesDomain, FetchesNameservers, AfterFetch, Workers, DiscoveredFields

\* A call is on its way to the status it computes.
LEMMA OutcomeIsComputed ==
    ASSUME NEW obj \in Objects, NEW found, Findable(found)
    PROVE  Outcome(Started(obj), found) = Computed(obj.spec, obj.status, found)
<1> DEFINE wk   == Started(obj)
           one  == AfterFetch(wk, "clusterDomain", found["clusterDomain"])
           two  == [one EXCEPT !.pc = "nameservers"]
           last == AfterFetch(two, "nameservers", found["nameservers"])
           none == obj.spec.dnsPolicy = "None"
<1>0. obj.status \in DNSClassStatus /\ Read(obj.status) \in DNSClassStatus
  BY DEF Objects, Read, DNSClassStatus, States, StateInit
<1>1. /\ wk \in Workers
      /\ wk.pc = IF none THEN "clusterDomain" ELSE "get"
      /\ wk.status = IF none THEN Read(obj.status) ELSE ReadyStatus(Read(obj.status), obj.status.discovered)
      /\ wk.fields = Had(obj.status) /\ wk.undiscovered = {}
      /\ wk.basis.spec = obj.spec
  <2> DEFINE read == Read(obj.status)
             status == IF none THEN read ELSE ReadyStatus(read, read.discovered)
  <2>1. read.discovered = obj.status.discovered
    BY <1>0 DEF Read, DNSClassStatus
  <2>2. wk = [pc |-> IF none THEN "clusterDomain" ELSE "get", basis |-> BasisOf(obj), status |-> status,
              fields |-> Had(obj.status),
              undiscovered |-> {}, failed |-> FALSE, attempts |-> 0, dcrv |-> 0]
    BY <2>1 DEF Started, Read, Had
  <2>3. BasisOf(obj).spec = obj.spec
    BY DEF BasisOf
  <2>4. wk \in Workers
    BY StartedType
  <2> HIDE DEF wk, read
  <2> QED
    BY <2>1, <2>2, <2>3, <2>4 DEF read
<1> HIDE DEF wk
<1>2. CASE ~none
  <2>1. Outcome(wk, found) = wk.status
    BY <1>1, <1>2 DEF Outcome
  <2> QED
    BY <1>1, <1>2, <2>1 DEF Computed, wk
<1>3. CASE none
  <2>1. one \in Workers
    BY <1>1, AfterFetchType DEF Findable
  <2>2. /\ one.basis = wk.basis /\ one.status = wk.status
        /\ one.fields.nameservers = wk.fields.nameservers
        /\ one.fields.clusterDomain =
             IF found["clusterDomain"] = Nil THEN wk.fields.clusterDomain ELSE found["clusterDomain"]
        /\ one.undiscovered = wk.undiscovered \cup (IF found["clusterDomain"] = Nil THEN {"clusterDomain"} ELSE {})
    <3>1. FetchesDomain(one, wk, found["clusterDomain"])
      BY <1>1, FetchFields
    <3> QED
      BY <3>1 DEF FetchesDomain
  <2> HIDE DEF one
  <2>3. /\ two \in Workers /\ two.pc = "nameservers" /\ two.basis = one.basis /\ two.status = one.status
        /\ two.fields = one.fields /\ two.undiscovered = one.undiscovered
    BY <2>1 DEF Workers
  <2>4. Outcome(wk, found) = AfterDiscovery(last).status
    BY <1>1, <1>3, <2>3 DEF Outcome, one
  <2> HIDE DEF two
  <2>5. last \in Workers
    BY <2>3, AfterFetchType DEF Findable
  <2>6. /\ last.basis = two.basis /\ last.status = two.status
        /\ last.fields.clusterDomain = two.fields.clusterDomain
        /\ last.fields.nameservers =
             IF found["nameservers"] = Nil THEN two.fields.nameservers ELSE found["nameservers"]
        /\ last.undiscovered = two.undiscovered \cup (IF found["nameservers"] = Nil THEN {"nameservers"} ELSE {})
    <3>1. FetchesNameservers(last, two, found["nameservers"])
      BY <2>3, FetchFields
    <3> QED
      BY <3>1 DEF FetchesNameservers
  <2> HIDE DEF last
  <2>7. last.undiscovered = Missed(found)
    BY <1>1, <2>2, <2>3, <2>6 DEF Missed, FieldNames
  <2>8. last.fields = Has(obj.status, found)
    <3>1. last.fields \in DiscoveredFields
      BY <2>5 DEF Workers
    <3> QED
      BY <1>1, <2>2, <2>3, <2>6, <3>1 DEF Has, DiscoveredFields
  <2>9. last.status = Read(obj.status) /\ last.basis.spec = obj.spec
    BY <1>1, <1>3, <2>2, <2>3, <2>6
  <2>10. AfterDiscovery(last).status =
           IF ExtractTemplateKeysRegex(obj.spec) \cap Missed(found) # {}
             THEN updateStatus([Read(obj.status) EXCEPT !.discovered =
                     IF Read(obj.status).discovered # Nil THEN Has(obj.status, found) ELSE Nil],
                     TRUE, Missed(found))
             ELSE ReadyStatus(Read(obj.status), Has(obj.status, found))
    BY <2>5, <2>7, <2>8, <2>9 DEF AfterDiscovery, Workers
  <2> QED
    BY <1>3, <2>4, <2>10 DEF Computed, wk
<1> QED
  BY <1>2, <1>3

\* A status that is ready, with its condition, stays as it is when it is made
\* ready again; likewise an error.
LEMMA UpdatedAgain ==
    ASSUME NEW status \in DNSClassStatus
    PROVE  /\ status.state = StateReady /\ status.conditions[StateReady] = {}
                => ReadyStatus(status, status.discovered) = status
           /\ \A message \in SUBSET FieldNames :
                status.state = StateError /\ status.conditions[StateError] = message
                  => updateStatus(status, TRUE, message) = status
<1>1. ASSUME status.state = StateReady, status.conditions[StateReady] = {}
      PROVE  ReadyStatus(status, status.discovered) = status
  <2>1. [status EXCEPT !.state = StateReady, !.discovered = status.discovered] = status
    BY <1>1 DEF DNSClassStatus
  <2>2. [status.conditions EXCEPT ![StateReady] = {}] = status.conditions
    BY <1>1 DEF DNSClassStatus, Conditions
  <2>3. updateStatus(status, FALSE, {})
          = [status EXCEPT !.state = status.state, !.conditions[StateReady] = {}]
    BY <1>1 DEF updateStatus, StateInit, StateReady, StateError
  <2> QED
    BY <2>1, <2>2, <2>3 DEF ReadyStatus, DNSClassStatus
<1>2. ASSUME NEW message \in SUBSET FieldNames,
             status.state = StateError, status.conditions[StateError] = message
      PROVE  updateStatus(status, TRUE, message) = status
  <2>1. [status.conditions EXCEPT ![StateError] = message] = status.conditions
    BY <1>2 DEF DNSClassStatus, Conditions
  <2>2. updateStatus(status, TRUE, message)
          = [status EXCEPT !.state = StateError, !.conditions[StateError] = message]
    BY DEF updateStatus, StateInit, StateReady, StateError
  <2> QED
    <3>1. [status EXCEPT !.state = status.state, !.conditions = status.conditions] = status
      BY DEF DNSClassStatus
    <3>2. [status EXCEPT !.state = StateError, !.conditions[StateError] = message]
            = [status EXCEPT !.state = status.state, !.conditions = status.conditions]
      BY <1>2, <2>1 DEF DNSClassStatus
    <3> QED
      BY <2>2, <3>1, <3>2
<1> QED
  BY <1>1, <1>2

\* What a call computes from a status is a status, and is computed from itself.
LEMMA ComputedAgain ==
    ASSUME NEW spec \in DNSClassSpec, NEW status \in DNSClassStatus, NEW found, Findable(found)
    PROVE  /\ Computed(spec, status, found) \in DNSClassStatus
           /\ Computed(spec, Computed(spec, status, found), found) = Computed(spec, status, found)
<1> DEFINE result == Computed(spec, status, found)
           read == Read(status)
<1>0. read \in DNSClassStatus /\ read.discovered = status.discovered
  BY DEF Read, DNSClassStatus, States, StateInit
<1>1. Had(status) \in DiscoveredFields
  BY DEF Had, NoFields, DiscoveredFields, DNSClassStatus
<1>2. Has(status, found) \in DiscoveredFields /\ Has(status, found) # Nil
  BY <1>1, ConstantsAssumption DEF Has, DiscoveredFields, Findable
<1>3. Missed(found) \in SUBSET FieldNames
  BY DEF Missed
<1>4. \A t \in DNSClassStatus : t.state # "" => Read(t) = t
  BY DEF Read, DNSClassStatus
<1>5. ASSUME NEW d \in DiscoveredFields \cup {Nil}
      PROVE  /\ ReadyStatus(read, d) \in DNSClassStatus
             /\ ReadyStatus(read, d).state = StateReady
             /\ ReadyStatus(read, d).conditions[StateReady] = {}
             /\ ReadyStatus(read, d).discovered = d
  <2> DEFINE s == [read EXCEPT !.state = StateReady, !.discovered = d]
  <2>1. s \in DNSClassStatus /\ s.state = StateReady /\ s.discovered = d
    BY <1>0 DEF DNSClassStatus, States, StateReady
  <2>2. ReadyStatus(read, d) = updateStatus(s, FALSE, {})
    BY DEF ReadyStatus
  <2> HIDE DEF s
  <2>3. PICK no \in BOOLEAN : no = FALSE
    OBVIOUS
  <2>4. updateStatus(s, no, {}) \in DNSClassStatus /\ updateStatus(s, no, {}).state = StateReady
        /\ updateStatus(s, no, {}).conditions[StateReady] = {}
        /\ updateStatus(s, no, {}).discovered = d
    BY <2>1, <2>3, UpdateStatusType, UpdateStatusFields
  <2> QED
    BY <2>2, <2>3, <2>4
<1>6. CASE spec.dnsPolicy # "None"
  <2>1. result = ReadyStatus(read, status.discovered)
    BY <1>6 DEF Computed
  <2>2. /\ result \in DNSClassStatus /\ result.state = StateReady
        /\ result.conditions[StateReady] = {} /\ result.discovered = status.discovered
    BY <1>5, <2>1 DEF DNSClassStatus
  <2> HIDE DEF result
  <2>3. Read(result) = result
    BY <1>4, <2>2 DEF StateReady
  <2>4. Computed(spec, result, found) = result
    BY <1>6, <2>2, <2>3, UpdatedAgain DEF Computed
  <2> QED
    BY <2>2, <2>4 DEF result
<1>7. CASE /\ spec.dnsPolicy = "None"
           /\ ExtractTemplateKeysRegex(spec) \cap Missed(found) = {}
  <2>1. result = ReadyStatus(read, Has(status, found))
    BY <1>7 DEF Computed
  <2>2. /\ result \in DNSClassStatus /\ result.state = StateReady
        /\ result.conditions[StateReady] = {} /\ result.discovered = Has(status, found)
    BY <1>2, <1>5, <2>1
  <2> HIDE DEF result
  <2>3. Read(result) = result
    BY <1>4, <2>2 DEF StateReady
  <2>4. Has(result, found) = result.discovered
    BY <1>2, <2>2 DEF Has, Had, DiscoveredFields
  <2>5. Computed(spec, result, found) = result
    BY <1>7, <2>2, <2>3, <2>4, UpdatedAgain DEF Computed
  <2> QED
    BY <2>2, <2>5 DEF result
<1>8. CASE /\ spec.dnsPolicy = "None"
           /\ ExtractTemplateKeysRegex(spec) \cap Missed(found) # {}
  <2> DEFINE d == IF read.discovered # Nil THEN Has(status, found) ELSE Nil
             kept == [read EXCEPT !.discovered = d]
  <2>1. kept \in DNSClassStatus /\ kept.discovered = d /\ d \in DiscoveredFields \cup {Nil}
    BY <1>0, <1>2 DEF DNSClassStatus
  <2>2. result = updateStatus(kept, TRUE, Missed(found))
    BY <1>8 DEF Computed
  <2> HIDE DEF kept
  <2>3. /\ result \in DNSClassStatus /\ result.state = StateError
        /\ result.conditions[StateError] = Missed(found) /\ result.discovered = d
    <3>1. PICK yes \in BOOLEAN : yes = TRUE
      OBVIOUS
    <3> DEFINE u == updateStatus(kept, yes, Missed(found))
    <3>2. u \in DNSClassStatus
      BY <1>3, <2>1, UpdateStatusType
    <3>3. u.state = StateError /\ u.conditions[u.state] = Missed(found) /\ u.discovered = d
      BY <1>3, <2>1, <3>1, UpdateStatusFields
    <3>4. result = u
      BY <2>2, <3>1
    <3> QED
      BY <3>2, <3>3, <3>4
  <2> HIDE DEF result
  <2>4. Read(result) = result
    BY <1>4, <2>3 DEF StateError
  <2>5. d # Nil => Has(result, found) = d
    BY <1>2, <2>3 DEF Has, Had, DiscoveredFields
  <2>6. [result EXCEPT !.discovered = IF @ # Nil THEN Has(result, found) ELSE Nil] = result
    <3>1. (IF result.discovered # Nil THEN Has(result, found) ELSE Nil) = result.discovered
      BY <2>3, <2>5
    <3> QED
      BY <2>3, <3>1 DEF DNSClassStatus
  <2>7. Computed(spec, result, found) = updateStatus(result, TRUE, Missed(found))
    BY <1>8, <2>4, <2>6 DEF Computed
  <2>8. Computed(spec, result, found) = result
    BY <1>3, <2>3, <2>7, UpdatedAgain
  <2> QED
    BY <2>3, <2>8 DEF result
<1> QED
  BY <1>6, <1>7, <1>8

-----------------------------------------------------------------------------
(* What each step makes of what is owed for one class.                     *)

\* What the nodes answer is a value of the field or nothing; each fetch finds it.
LEMMA FoundByFetch ==
    ASSUME TypeOK, NodesAlike
    PROVE  /\ Findable(Found)
           /\ \A field \in FieldNames : \A value \in Fetched(field) : value = Found[field]
<1>1. ASSUME NEW field \in FieldNames
      PROVE  Found[field] \in Fetched(field) /\ \A value \in Fetched(field) : value = Found[field]
  <2>1. PICK value \in Fetched(field) : Fetched(field) = {value}
    BY DEF NodesAlike
  <2>2. Found[field] = CHOOSE v \in Fetched(field) : TRUE
    BY DEF Found
  <2> QED
    BY <2>1, <2>2
<1>2. "clusterDomain" \in FieldNames /\ "nameservers" \in FieldNames
  BY DEF FieldNames
<1>3. /\ Found["clusterDomain"] \in Domains \cup {Nil}
      /\ Found["nameservers"] \in NSLists \cup {Nil}
  BY <1>1, <1>2, FetchedType DEF TypeOK
<1> QED
  BY <1>1, <1>3 DEF Findable

\* While no node changes, neither does what they answer.
LEMMA FoundStays == ASSUME kubelet' = kubelet PROVE Found' = Found
  BY DEF Found, Fetched

\* The status of a call is a status.
LEMMA OutcomeType ==
    ASSUME NEW wk \in Workers, NEW found, Findable(found)
    PROVE  Outcome(wk, found) \in DNSClassStatus
<1> DEFINE one  == AfterFetch(wk, "clusterDomain", found["clusterDomain"])
           next == [one EXCEPT !.pc = "nameservers"]
           last == IF wk.pc = "clusterDomain" THEN next ELSE wk
           done == AfterDiscovery(AfterFetch(last, "nameservers", found["nameservers"]))
<1>1. one \in Workers
  BY AfterFetchType DEF Findable
<1>2. next \in Workers
  <2> HIDE DEF one
  <2> QED
    BY <1>1 DEF Workers
<1>3. last \in Workers
  BY <1>2
<1>4. Outcome(wk, found) = IF last.pc = "nameservers" THEN done.status ELSE last.status
  BY DEF Outcome
<1> HIDE DEF last
<1>5. done \in Workers
  BY <1>3, AfterFetchType, AfterDiscoveryType DEF Findable
<1> HIDE DEF done
<1> QED
  BY <1>3, <1>4, <1>5 DEF Workers

\* Whether another call changes anything depends on spec and status alone.
LEMMA LastsIs ==
    ASSUME NEW obj \in Objects, NEW found, Findable(found)
    PROVE  Lasts(obj, found) <=> Computed(obj.spec, obj.status, found) = obj.status
  BY OutcomeIsComputed DEF Lasts

\* Nothing is owed anew by a step that is not about the class.
LEMMA OwedElsewhere ==
    ASSUME NEW c \in Classes, api'[c] = api[c], cache'[c] = cache[c], watch'[c] = watch[c],
           dirty'[c] = dirty[c], w'[c] = w[c], kubelet' = kubelet
    PROVE  Owed(c)' = Owed(c)
<1>1. Found' = Found
  BY FoundStays
<1>2. Repeats(c)' <=> Repeats(c)
  BY <1>1 DEF Repeats
<1>3. (Running(c)' <=> Running(c)) /\ (Queued(c)' <=> Queued(c)) /\ (Undone(c)' <=> Undone(c))
      /\ (Left(c)' <=> Left(c))
  BY <1>1, <1>2 DEF Running, Queued, Undone, Left
<1>4. Ahead(c)' = Ahead(c)
  BY <1>3 DEF Ahead, One
<1> QED
  BY <1>3, <1>4 DEF Owed, Debt, Larger, One

\* What is ahead is counted by naturals.
LEMMA AheadType ==
    ASSUME TypeOK, NEW c \in Classes
    PROVE  /\ Cardinality(Renewals(cache[c], watch[c])) \in Nat
           /\ Ahead(c) = Cardinality(Renewals(cache[c], watch[c])) + (IF Queued(c) THEN 1 ELSE 0)
           /\ Ahead(c) \in Nat
<1>1. watch[c] \in Seq(Objects \cup {Nil})
  BY DEF TypeOK
<1>2. Cardinality(Renewals(cache[c], watch[c])) \in Nat
  BY <1>1, RenewalsFinite
<1> QED
  BY <1>2 DEF Ahead, One

\* The call returns, whatever became of its status.
LEMMA ReturnOwes ==
    ASSUME TypeOK, NEW c \in Classes, w[c] # Nil, w'[c] = Nil, api'[c] = api[c], cache'[c] = cache[c],
           watch'[c] = watch[c], dirty'[c] = dirty[c], kubelet' = kubelet
    PROVE  Owed(c)' <= Owed(c)
<1>1. Found' = Found
  BY FoundStays
<1>2. ~Running(c)' /\ ~Left(c)' /\ (Undone(c)' <=> Undone(c))
  BY <1>1 DEF Running, Left, Undone
<1>3. Queued(c)' => Queued(c)
  BY DEF Queued, Repeats
<1>4. Cardinality(Renewals(cache[c], watch[c]))' = Cardinality(Renewals(cache[c], watch[c]))
  OBVIOUS
<1>5. Ahead(c)' \in Nat /\ Ahead(c) \in Nat /\ Ahead(c)' <= Ahead(c)
  BY <1>3, <1>4, AheadType DEF Ahead, One
<1> QED
  BY <1>2, <1>5 DEF Owed, Debt, Larger, One

\* The call goes on to the status it was on its way to.
LEMMA CallOwes ==
    ASSUME NEW c \in Classes, w[c] # Nil, w'[c] # Nil, Outcome(w'[c], Found) = Outcome(w[c], Found),
           api'[c] = api[c], cache'[c] = cache[c],
           watch'[c] = watch[c], dirty'[c] = dirty[c], kubelet' = kubelet
    PROVE  Owed(c)' = Owed(c)
<1>1. Found' = Found
  BY FoundStays
<1>2. ~Repeats(c)' /\ ~Repeats(c)
  BY DEF Repeats
<1>3. (Running(c)' <=> Running(c)) /\ (Queued(c)' <=> Queued(c)) /\ (Undone(c)' <=> Undone(c))
      /\ (Left(c)' <=> Left(c))
  BY <1>1, <1>2 DEF Running, Queued, Undone, Left
<1>4. Ahead(c)' = Ahead(c)
  BY <1>3 DEF Ahead, One
<1> QED
  BY <1>3, <1>4 DEF Owed, Debt, Larger, One

\* An object, or a deletion, is stored.
LEMMA StoreOwes ==
    ASSUME TypeOK, TipIsStored, NEW c \in Classes, NEW obj \in Objects \cup {Nil},
           Store(c, obj), UNCHANGED cache
    PROVE  /\ api'[c] = obj /\ rv'[c] = rv[c] + 1 /\ rv[c] \in Nat
           /\ Cardinality(Renewals(cache[c], watch[c]))'
                = Cardinality(Renewals(cache[c], watch[c])) + (IF Renews(api[c], obj) THEN 1 ELSE 0)
           /\ \A i \in DOMAIN watch'[c] : watch'[c][i] = obj \/ \E j \in DOMAIN watch[c] : watch'[c][i] = watch[c][j]
<1>1. watch[c] \in Seq(Objects \cup {Nil}) /\ watch'[c] = Append(watch[c], obj)
  BY DEF TypeOK, Store
<1>2. (IF watch[c] = <<>> THEN cache[c] ELSE watch[c][Len(watch[c])]) = api[c]
  BY DEF TipIsStored
<1>3. Cardinality(Renewals(cache[c], Append(watch[c], obj)))
        = Cardinality(Renewals(cache[c], watch[c])) + One(Renews(api[c], obj))
  <2>1. Cardinality(Renewals(cache[c], Append(watch[c], obj)))
        = Cardinality(Renewals(cache[c], watch[c]))
            + One(Renews(IF watch[c] = <<>> THEN cache[c] ELSE watch[c][Len(watch[c])], obj))
    BY <1>1, RenewalsAppend
  <2> QED
    BY <1>2, <2>1
<1>4. \A i \in DOMAIN watch'[c] : watch'[c][i] = obj \/ \E j \in DOMAIN watch[c] : watch'[c][i] = watch[c][j]
  <2>1. /\ DOMAIN watch[c] = 1 .. Len(watch[c]) /\ Len(watch[c]) \in Nat
        /\ DOMAIN watch'[c] = 1 .. (Len(watch[c]) + 1)
        /\ \A i \in DOMAIN watch[c] : watch'[c][i] = watch[c][i]
        /\ watch'[c][Len(watch[c]) + 1] = obj
    BY AppendWatch
  <2>2. \A i \in 1 .. (Len(watch[c]) + 1) : i \in 1 .. Len(watch[c]) \/ i = Len(watch[c]) + 1
    BY <2>1
  <2> QED
    BY <2>1, <2>2
<1>5. api'[c] = obj /\ rv'[c] = rv[c] + 1 /\ rv[c] \in Nat
  BY DEF TypeOK, Store
<1>6. Cardinality(Renewals(cache[c], watch[c]))' = Cardinality(Renewals(cache[c], Append(watch[c], obj)))
  BY <1>1
<1> QED
  BY <1>3, <1>4, <1>5, <1>6 DEF One

-----------------------------------------------------------------------------
(* The steps, one by one: versions made and owed against what is paid.     *)

\* A creation is one version, and owes one.
LEMMA CreateOwes ==
    ASSUME TypeOK, TipIsStored, NEW c \in Classes, CreateClass(c)
    PROVE  rv'[c] + Owed(c)' <= rv[c] + Owed(c) + 2
<1>1. PICK request \in Requests :
        Store(c, [uid |-> rv[c] + 1, gen |-> 1, rv |-> rv[c] + 1,
                  spec |-> Default(request), status |-> NoStatus])
  BY DEF CreateClass
<1> DEFINE obj == [uid |-> rv[c] + 1, gen |-> 1, rv |-> rv[c] + 1,
                   spec |-> Default(request), status |-> NoStatus]
<1>2. obj \in Objects /\ obj # Nil
  <2>1. Default(request) \in DNSClassSpec /\ rv[c] + 1 \in Nat
    BY ConstantsAssumption, DefaultType DEF TypeOK
  <2>2. obj \in Objects
    BY <2>1, NoStatusClean DEF Objects
  <2> QED
    BY <2>2, ConstantsAssumption
<1>3. Store(c, obj)
  BY <1>1
<1> HIDE DEF obj
<1>4. api[c] = Nil /\ UNCHANGED <<cache, dirty, w, kubelet>>
  BY DEF CreateClass
<1>5. Renews(api[c], obj)
  BY <1>2, <1>4 DEF Renews
<1>6. /\ api'[c] = obj /\ rv'[c] = rv[c] + 1 /\ rv[c] \in Nat
      /\ Cardinality(Renewals(cache[c], watch[c]))' = Cardinality(Renewals(cache[c], watch[c])) + 1
  BY <1>2, <1>3, <1>4, <1>5, StoreOwes
<1>7. ~Left(c) /\ ~Undone(c) /\ (Running(c)' => Running(c)) /\ (Queued(c)' => Queued(c))
  BY <1>4 DEF Left, Undone, Running, Queued, Repeats
<1>8. Ahead(c)' \in Nat /\ Ahead(c) \in Nat /\ Ahead(c)' <= Ahead(c) + 1 /\ Ahead(c)' >= 1
  BY <1>6, <1>7, AheadType DEF Ahead, One
<1> QED
  BY <1>6, <1>7, <1>8 DEF Owed, Debt, Larger, One

\* An edit is one version, and owes one if it changes the spec.
LEMMA UpdateOwes ==
    ASSUME TypeOK, TipIsStored, NodesAlike, NEW c \in Classes, UpdateClass(c)
    PROVE  rv'[c] + Owed(c)' <= rv[c] + Owed(c) + 2
<1> DEFINE new(request) ==
      [api[c] EXCEPT !.spec = Default(request), !.rv = rv[c] + 1,
                     !.gen = IF Default(request) = api[c].spec THEN @ ELSE @ + 1]
<1>1. PICK request \in Requests : Store(c, new(request))
  BY DEF UpdateClass
<1> DEFINE obj == new(request)
<1>2. api[c] # Nil /\ api[c] \in Objects /\ UNCHANGED <<cache, dirty, w, kubelet>>
  BY DEF UpdateClass, TypeOK
<1>3. /\ obj \in Objects /\ obj # Nil /\ obj.status = api[c].status
      /\ obj.spec = api[c].spec => obj.gen = api[c].gen
  <2>1. Default(request) \in DNSClassSpec
    BY ConstantsAssumption, DefaultType
  <2>2. rv[c] + 1 \in Nat /\ api[c].gen \in Nat /\ api[c].gen + 1 \in Nat
    BY <1>2 DEF TypeOK, Objects
  <2>3. /\ obj \in Objects /\ obj.status = api[c].status
        /\ obj.spec = api[c].spec => obj.gen = api[c].gen
    BY <1>2, <2>1, <2>2 DEF Objects
  <2> QED
    BY <2>3, ConstantsAssumption
<1>4. Store(c, obj)
  BY <1>1
<1> HIDE DEF obj
<1>5. /\ api'[c] = obj /\ rv'[c] = rv[c] + 1 /\ rv[c] \in Nat
      /\ Cardinality(Renewals(cache[c], watch[c]))'
           = Cardinality(Renewals(cache[c], watch[c])) + (IF Renews(api[c], obj) THEN 1 ELSE 0)
      /\ \A i \in DOMAIN watch'[c] : watch'[c][i] = obj \/ \E j \in DOMAIN watch[c] : watch'[c][i] = watch[c][j]
  BY <1>2, <1>3, <1>4, StoreOwes
<1>6. Found' = Found /\ Findable(Found)
  BY <1>2, FoundStays, FoundByFetch
<1>7. (Running(c)' <=> Running(c)) /\ (Queued(c)' => Queued(c))
  <2>1. Repeats(c) => Repeats(c)'
    BY <1>2, <1>3, <1>5, <1>6 DEF Repeats
  <2> QED
    BY <1>2, <1>3, <1>5, <1>6, <2>1 DEF Running, Queued
<1>8. CASE Renews(api[c], obj)
  <2>1. Ahead(c)' \in Nat /\ Ahead(c) \in Nat /\ Ahead(c)' <= Ahead(c) + 1 /\ Ahead(c)' >= 1
    BY <1>5, <1>7, <1>8, AheadType DEF Ahead, One
  <2> QED
    BY <1>5, <1>7, <2>1 DEF Owed, Debt, Larger, One
<1>9. CASE ~Renews(api[c], obj)
  <2>1. obj.spec = api[c].spec
    BY <1>2, <1>3, <1>9 DEF Renews
  <2>2. Undone(c)' <=> Undone(c)
    BY <1>2, <1>3, <1>5, <1>6, <2>1, LastsIs DEF Undone
  <2>3. Left(c)' <=> Left(c)
    <3>1. CASE w[c] = Nil
      BY <1>2, <3>1 DEF Left
    <3>2. CASE w[c] # Nil
      <4> DEFINE out == Outcome(w[c], Found)
                 before == [api[c] EXCEPT !.status = out]
                 after == [obj EXCEPT !.status = out]
      <4>1. out \in DNSClassStatus
        BY <1>6, <3>2, OutcomeType DEF TypeOK
      <4> HIDE DEF out
      <4>2. /\ before \in Objects /\ before.spec = api[c].spec /\ before.status = out
            /\ after \in Objects /\ after.spec = obj.spec /\ after.status = out
        BY <1>2, <1>3, <4>1 DEF Objects
      <4> HIDE DEF before, after
      <4>3. Lasts(before, Found) <=> Lasts(after, Found)
        BY <1>6, <2>1, <4>2, LastsIs
      <4> QED
        BY <1>2, <1>3, <1>5, <1>6, <3>2, <4>3 DEF Left, before, after, out
    <3> QED
      BY <3>1, <3>2
  <2>4. Ahead(c)' \in Nat /\ Ahead(c) \in Nat /\ Ahead(c)' <= Ahead(c)
    BY <1>5, <1>7, <1>9, AheadType DEF Ahead, One
  <2> QED
    BY <1>5, <1>7, <2>2, <2>3, <2>4 DEF Owed, Debt, Larger, One
<1> QED
  BY <1>8, <1>9

\* A deletion is one version, and the running call may owe one to the next class
\* of the name.
LEMMA DeleteOwes ==
    ASSUME TypeOK, TipIsStored, NEW c \in Classes, DeleteClass(c)
    PROVE  rv'[c] + Owed(c)' <= rv[c] + Owed(c) + 2
<1>1. Store(c, Nil) /\ api[c] # Nil /\ UNCHANGED <<cache, dirty, w, kubelet>>
  BY DEF DeleteClass
<1>2. ~Renews(api[c], Nil)
  BY DEF Renews
<1>3. /\ api'[c] = Nil /\ rv'[c] = rv[c] + 1 /\ rv[c] \in Nat
      /\ Cardinality(Renewals(cache[c], watch[c]))' = Cardinality(Renewals(cache[c], watch[c]))
  <2>1. /\ api'[c] = Nil /\ rv'[c] = rv[c] + 1 /\ rv[c] \in Nat
        /\ Cardinality(Renewals(cache[c], watch[c]))'
             = Cardinality(Renewals(cache[c], watch[c])) + (IF Renews(api[c], Nil) THEN 1 ELSE 0)
    BY <1>1, StoreOwes
  <2>2. Cardinality(Renewals(cache[c], watch[c])) \in Nat
    BY AheadType
  <2> QED
    BY <1>2, <2>1, <2>2
<1>4. /\ ~Left(c)' /\ ~Undone(c)'
      /\ w[c] # Nil => (Queued(c)' <=> Queued(c))
      /\ w[c] = Nil => ~Running(c)'
  BY <1>1, <1>3 DEF Left, Undone, Running, Queued, Repeats
<1>5. Ahead(c)' \in Nat /\ Ahead(c) \in Nat /\ Ahead(c)' <= Ahead(c) + (IF w[c] = Nil THEN 1 ELSE 0)
  BY <1>3, <1>4, AheadType DEF Ahead, One
<1> QED
  BY <1>3, <1>4, <1>5 DEF Owed, Debt, Larger, One

\* A status that is written was owed.
LEMMA WriteOwes ==
    ASSUME TypeOK, TipIsStored, NodesAlike, NEW c \in Classes, UpdateSucceeds(c)
    PROVE  rv'[c] + Owed(c)' <= rv[c] + Owed(c)
<1>0. /\ w[c] # Nil /\ w[c] \in Workers /\ w[c].pc = "update" /\ api[c] # Nil /\ api[c] \in Objects
      /\ UNCHANGED <<cache, dirty, kubelet>> /\ w'[c] = Nil
  BY DEF UpdateSucceeds, Return, TypeOK
<1>1. Outcome(w[c], Found) = w[c].status
  BY <1>0 DEF Outcome
<1>2. CASE api[c].status = w[c].status
  <2>1. UNCHANGED <<api, rv, watch>> /\ rv[c] \in Nat
    BY <1>2 DEF UpdateSucceeds, TypeOK
  <2>2. Owed(c)' <= Owed(c)
    BY <1>0, <2>1, ReturnOwes
  <2>3. Ahead(c) \in Nat /\ Ahead(c)' \in Nat
    <3>1. Cardinality(Renewals(cache[c], watch[c]))' = Cardinality(Renewals(cache[c], watch[c]))
      BY <1>0, <2>1
    <3> QED
      BY <3>1, AheadType DEF Ahead, One
  <2>4. Owed(c) \in Nat /\ Owed(c)' \in Nat
    BY <2>3 DEF Owed, Debt, Larger, One
  <2> QED
    BY <2>1, <2>2, <2>4
<1>3. CASE api[c].status # w[c].status
  <2> DEFINE obj == [api[c] EXCEPT !.status = w[c].status, !.rv = rv[c] + 1]
             left == [api[c] EXCEPT !.status = w[c].status]
  <2>1. w[c].status \in DNSClassStatus /\ rv[c] + 1 \in Nat
    BY <1>0 DEF Workers, TypeOK
  <2>2. /\ obj \in Objects /\ obj.spec = api[c].spec /\ obj.gen = api[c].gen /\ obj.status = w[c].status
        /\ left \in Objects /\ left.spec = api[c].spec /\ left.status = w[c].status
    BY <1>0, <2>1 DEF Objects
  <2>3. Store(c, obj)
    BY <1>3 DEF UpdateSucceeds
  <2> HIDE DEF obj, left
  <2>4. obj # Nil /\ ~Renews(api[c], obj)
    BY <1>0, <2>2, ConstantsAssumption DEF Renews
  <2>5. /\ api'[c] = obj /\ rv'[c] = rv[c] + 1 /\ rv[c] \in Nat
        /\ Cardinality(Renewals(cache[c], watch[c]))' = Cardinality(Renewals(cache[c], watch[c]))
    <3>1. /\ api'[c] = obj /\ rv'[c] = rv[c] + 1 /\ rv[c] \in Nat
          /\ Cardinality(Renewals(cache[c], watch[c]))'
               = Cardinality(Renewals(cache[c], watch[c])) + (IF Renews(api[c], obj) THEN 1 ELSE 0)
      BY <1>0, <2>2, <2>3, StoreOwes
    <3>2. Cardinality(Renewals(cache[c], watch[c])) \in Nat
      BY AheadType
    <3> QED
      BY <2>4, <3>1, <3>2
  <2>6. Found' = Found /\ Findable(Found)
    BY <1>0, FoundStays, FoundByFetch
  <2>7. Running(c) /\ ~Running(c)' /\ ~Left(c)' /\ (Queued(c)' => Queued(c))
    BY <1>0, <1>1, <1>3, <2>5 DEF Running, Left, Queued, Repeats
  <2>8. Undone(c)' <=> Left(c)
    <3>1. Lasts(obj, Found) <=> Lasts(left, Found)
      BY <2>2, <2>6, LastsIs
    <3> QED
      BY <1>0, <1>1, <2>4, <2>5, <2>6, <3>1 DEF Undone, Left, left
  <2>9. Ahead(c)' \in Nat /\ Ahead(c) \in Nat /\ Ahead(c)' <= Ahead(c)
    BY <2>5, <2>7, AheadType DEF Ahead, One
  <2> QED
    BY <2>5, <2>7, <2>8, <2>9 DEF Owed, Debt, Larger, One
<1> QED
  BY <1>2, <1>3

\* An event is delivered: what it called for is now queued.
LEMMA DeliverOwes ==
    ASSUME TypeOK, NodesAlike, NEW c \in Classes, Deliver(c)
    PROVE  Owed(c)' <= Owed(c)
<1> DEFINE new == Head(watch[c])
           n == Cardinality(Renewals(cache[c], watch[c]))
<1>1. /\ watch[c] # <<>> /\ watch[c] \in Seq(Objects \cup {Nil})
      /\ cache'[c] = new /\ watch'[c] = Tail(watch[c]) /\ dirty'[c] = (dirty[c] \/ Enqueues(cache[c], new))
      /\ cache[c] \in Objects \cup {Nil}
      /\ UNCHANGED <<api, w, kubelet>>
  BY DEF Deliver, TypeOK
<1>2. new \in Objects \cup {Nil} /\ new = watch[c][1] /\ 1 \in DOMAIN watch[c]
  BY <1>1, EmptySeq
<1>3. \A i \in DOMAIN watch'[c] : \E j \in DOMAIN watch[c] : watch'[c][i] = watch[c][j]
  <2>1. Delivers(c)
    BY DEF Deliver, Delivers
  <2>2. /\ DOMAIN watch[c] = 1 .. Len(watch[c]) /\ Len(watch[c]) \in Nat
        /\ DOMAIN watch'[c] = 1 .. (Len(watch[c]) - 1)
        /\ \A i \in DOMAIN watch'[c] : watch'[c][i] = watch[c][i + 1]
    BY <2>1, TailWatch
  <2>3. \A i \in 1 .. (Len(watch[c]) - 1) : i + 1 \in 1 .. Len(watch[c])
    BY <2>2
  <2> QED
    BY <2>2, <2>3
<1>4. /\ n \in Nat /\ Cardinality(Renewals(new, Tail(watch[c]))) \in Nat
      /\ Cardinality(Renewals(new, Tail(watch[c]))) + One(Renews(cache[c], new)) <= n
  <2>1. Tail(watch[c]) \in Seq(Objects \cup {Nil})
    BY <1>1, HeadTailProperties
  <2> QED
    BY <1>1, <2>1, RenewalsFinite, RenewalsTail
<1>5. Cardinality(Renewals(cache[c], watch[c]))' = Cardinality(Renewals(new, Tail(watch[c])))
  BY <1>1
<1>6. Found' = Found /\ Findable(Found)
  BY <1>1, FoundStays, FoundByFetch
<1> HIDE DEF new, n
<1>7. (Running(c)' <=> Running(c)) /\ (Left(c)' <=> Left(c)) /\ (Undone(c)' <=> Undone(c))
  BY <1>1, <1>6 DEF Running, Left, Undone
<1>8. ~Renews(cache[c], new) => (Queued(c)' => Queued(c))
  <2> SUFFICES ASSUME ~Renews(cache[c], new), Queued(c)', ~Queued(c) PROVE FALSE
    OBVIOUS
  <2>1. new # Nil /\ cache[c] # Nil /\ cache[c].spec = new.spec /\ cache[c].gen = new.gen
    BY <1>1 DEF Queued, Renews
  <2>2. dirty[c] /\ Repeats(c)
    BY <1>1, <2>1 DEF Queued, Enqueues
  <2>3. new.status = api[c].status /\ cache[c].status = api[c].status
    BY <1>2, <2>1, <2>2 DEF Repeats
  <2>4. Lasts(new, Found)
    BY <1>1, <1>2, <1>6, <2>1, <2>2, <2>3, LastsIs DEF Repeats
  <2>5. Repeats(c)'
    BY <1>1, <1>3, <1>6, <2>2, <2>3, <2>4 DEF Repeats
  <2> QED
    BY <2>5 DEF Queued
<1>9. Ahead(c)' \in Nat /\ Ahead(c) \in Nat /\ Ahead(c)' <= Ahead(c)
  <2>1. CASE Renews(cache[c], new)
    BY <1>4, <1>5, <2>1 DEF Ahead, One, n
  <2>2. CASE ~Renews(cache[c], new)
    BY <1>4, <1>5, <1>8, <2>2 DEF Ahead, One, n
  <2> QED
    BY <2>1, <2>2
<1> QED
  BY <1>7, <1>9 DEF Owed, Debt, Larger, One

\* The next call for the cached object starts: its status was owed, and will last
\* unless events are still to come.
LEMMA StartOwes ==
    ASSUME TypeOK, TipIsStored, NodesAlike, NEW c \in Classes, StartReconcile(c)
    PROVE  Owed(c)' <= Owed(c)
<1> DEFINE n == Cardinality(Renewals(cache[c], watch[c]))
<1>1. /\ dirty[c] /\ w[c] = Nil /\ ~dirty'[c] /\ UNCHANGED <<api, watch, cache, kubelet>>
      /\ w'[c] = IF cache[c] = Nil THEN Nil ELSE Started(cache[c])
      /\ cache[c] \in Objects \cup {Nil} /\ api[c] \in Objects \cup {Nil}
      /\ watch[c] \in Seq(Objects \cup {Nil})
  BY DEF StartReconcile, TypeOK
<1>2. Found' = Found /\ Findable(Found)
  BY <1>1, FoundStays, FoundByFetch
<1>3. n \in Nat /\ Cardinality(Renewals(cache[c], watch[c]))' = n
  BY <1>1, AheadType
<1>4. ~Queued(c)' /\ ~Running(c) /\ ~Left(c) /\ (Undone(c)' <=> Undone(c))
  BY <1>1, <1>2 DEF Queued, Running, Left, Undone
<1> HIDE DEF n
<1>5. Ahead(c)' = n /\ Ahead(c) = n + (IF Queued(c) THEN 1 ELSE 0)
  BY <1>3, <1>4 DEF Ahead, One, n
<1>6. CASE cache[c] = Nil
  <2>1. ~Running(c)' /\ ~Left(c)'
    BY <1>1, <1>6 DEF Running, Left
  <2> QED
    BY <1>3, <1>4, <1>5, <2>1 DEF Owed, Debt, Larger, One
<1>7. CASE cache[c] # Nil
  <2> DEFINE out == Computed(cache[c].spec, cache[c].status, Found)
             left == [api[c] EXCEPT !.status = out]
  <2>1. Outcome(w'[c], Found) = out /\ w'[c] # Nil
    <3>1. Started(cache[c]) # Nil
      BY <1>1, <1>7, StartedType, ConstantsAssumption
    <3> QED
      BY <1>1, <1>2, <1>7, <3>1, OutcomeIsComputed
  <2>2. cache[c].spec \in DNSClassSpec /\ cache[c].status \in DNSClassStatus
    BY <1>1, <1>7 DEF Objects
  <2>3. /\ out \in DNSClassStatus
        /\ Computed(cache[c].spec, out, Found) = out
    BY <1>2, <2>2, ComputedAgain
  <2> HIDE DEF out
  <2>4. api[c] # Nil => left \in Objects /\ left.spec = api[c].spec /\ left.status = out
    BY <1>1, <2>3 DEF Objects
  <2> HIDE DEF left
  <2>5. Left(c)' <=> api[c] # Nil /\ Computed(api[c].spec, out, Found) # out
    <3>1. Left(c)' <=> api[c] # Nil /\ ~Lasts(left, Found)
      BY <1>1, <1>2, <2>1 DEF Left, left
    <3> QED
      BY <1>2, <2>4, <3>1, LastsIs
  <2>6. CASE Repeats(c)
    <3>1. out = cache[c].status /\ out = api[c].status /\ api[c] # Nil
      BY <1>1, <1>2, <1>7, <2>6, LastsIs DEF Repeats, out
    <3>2. ~Running(c)'
      BY <1>1, <1>2, <2>1, <3>1 DEF Running
    <3>3. Left(c)' <=> Undone(c)
      BY <1>1, <1>2, <2>5, <3>1, LastsIs DEF Undone
    <3>4. ~Queued(c)
      BY <2>6 DEF Queued
    <3> QED
      BY <1>3, <1>4, <1>5, <3>2, <3>3, <3>4 DEF Owed, Debt, Larger, One
  <2>7. CASE ~Repeats(c)
    <3>1. Queued(c)
      BY <1>1, <1>7, <2>7 DEF Queued
    <3>2. CASE n > 0
      BY <1>3, <1>4, <1>5, <3>1, <3>2 DEF Owed, Debt, Larger, One
    <3>3. CASE n = 0
      <4>1. Renewals(cache[c], watch[c]) = {}
        BY <1>1, <3>3, RenewalsFinite DEF n
      <4>2. ~Renews(cache[c], api[c])
        <5>1. CASE watch[c] = <<>>
          BY <5>1 DEF TipIsStored, Renews
        <5>2. CASE watch[c] # <<>>
          BY <1>1, <4>1, <5>2, NothingRenewed DEF TipIsStored
        <5> QED
          BY <5>1, <5>2
      <4>3. api[c] # Nil => api[c].spec = cache[c].spec
        BY <4>2 DEF Renews
      <4>4. ~Left(c)'
        BY <2>3, <2>5, <4>3
      <4> QED
        BY <1>3, <1>4, <1>5, <3>1, <4>4 DEF Owed, Debt, Larger, One
    <3> QED
      BY <1>3, <3>2, <3>3
  <2> QED
    BY <2>6, <2>7
<1> QED
  BY <1>6, <1>7

\* A queued call that is taken off the queue for nothing owes nothing.
LEMMA DropOwes ==
    ASSUME TypeOK, NEW c \in Classes, ~dirty'[c], UNCHANGED <<api, watch, cache, w, kubelet>>
    PROVE  Owed(c)' <= Owed(c)
<1>1. Found' = Found
  BY FoundStays
<1>2. (Running(c)' <=> Running(c)) /\ (Left(c)' <=> Left(c)) /\ (Undone(c)' <=> Undone(c)) /\ ~Queued(c)'
  BY <1>1 DEF Running, Left, Undone, Queued
<1>3. Ahead(c)' \in Nat /\ Ahead(c) \in Nat /\ Ahead(c)' <= Ahead(c)
  BY <1>2, AheadType DEF Ahead, One
<1> QED
  BY <1>2, <1>3 DEF Owed, Debt, Larger, One

\* A retry of a class at rest owes only what was undone; an early one may owe one more.
LEMMA RetryOwes ==
    ASSUME TypeOK, TipIsStored, NEW c \in Classes, RetryFires(c)
    PROVE  Owed(c)' <= Owed(c) + (IF watch[c] = <<>> /\ ~dirty[c] /\ w[c] = Nil THEN 0 ELSE 1)
<1>1. dirty'[c] /\ UNCHANGED <<api, watch, cache, w, kubelet>>
  BY DEF RetryFires, TypeOK
<1>2. Found' = Found
  BY <1>1, FoundStays
<1>3. (Running(c)' <=> Running(c)) /\ (Left(c)' <=> Left(c)) /\ (Undone(c)' <=> Undone(c))
  BY <1>1, <1>2 DEF Running, Left, Undone
<1>4. Ahead(c)' \in Nat /\ Ahead(c) \in Nat /\ Ahead(c)' <= Ahead(c) + (IF Queued(c)' /\ ~Queued(c) THEN 1 ELSE 0)
  BY <1>1, AheadType DEF Ahead, One
<1>5. CASE watch[c] = <<>> /\ ~dirty[c] /\ w[c] = Nil
  <2>1. cache[c] = api[c]
    BY <1>5 DEF TipIsStored
  <2>2. DOMAIN watch[c] = {}
    BY <1>5
  <2>3. Queued(c)' => Undone(c)
    BY <1>1, <1>2, <1>5, <2>1, <2>2 DEF Queued, Undone, Repeats
  <2>4. ~Running(c) /\ ~Left(c) /\ ~Queued(c)
    BY <1>5 DEF Running, Left, Queued
  <2>5. Cardinality(Renewals(cache[c], watch[c])) = 0
    BY <1>5, FS_EmptySet DEF Renewals
  <2>6. Ahead(c) = 0 /\ Ahead(c)' = IF Queued(c)' THEN 1 ELSE 0
    BY <1>1, <2>4, <2>5 DEF Ahead, One
  <2> QED
    BY <1>3, <1>5, <2>3, <2>4, <2>6 DEF Owed, Debt, Larger, One
<1>6. CASE ~(watch[c] = <<>> /\ ~dirty[c] /\ w[c] = Nil)
  BY <1>3, <1>4, <1>6 DEF Owed, Debt, Larger, One
<1> QED
  BY <1>5, <1>6

\* A fetch that finds what every fetch finds, a Get and a conflict that is tried
\* again leave the call on its way to the same status.
LEMMA WorkerOwes ==
    ASSUME TypeOK, NodesAlike, NEW c \in Classes,
           \/ DiscoverClusterDomain(c) \/ DiscoverNameservers(c)
           \/ GetForUpdate(c) /\ w'[c] # Nil
           \/ UpdateConflict(c) /\ w'[c] # Nil
    PROVE  Owed(c)' = Owed(c)
<1>1. w[c] # Nil /\ w[c] \in Workers /\ UNCHANGED <<api, watch, cache, dirty, kubelet>>
  BY DEF DiscoverClusterDomain, DiscoverNameservers, GetForUpdate, UpdateConflict, TypeOK
<1>2. /\ Findable(Found)
      /\ \A field \in FieldNames : \A value \in Fetched(field) : value = Found[field]
  BY FoundByFetch
<1>3. "clusterDomain" \in FieldNames /\ "nameservers" \in FieldNames
  BY DEF FieldNames
<1>4. CASE DiscoverClusterDomain(c)
  <2> DEFINE one  == AfterFetch(w[c], "clusterDomain", Found["clusterDomain"])
             next == [one EXCEPT !.pc = "nameservers"]
  <2>1. w[c].pc = "clusterDomain" /\ w'[c] = next
    BY <1>2, <1>3, <1>4 DEF DiscoverClusterDomain, TypeOK
  <2>2. one \in Workers
    BY <1>1, <1>2, AfterFetchType DEF Findable
  <2>3. next.pc = "nameservers" /\ next \in Workers
    <3> HIDE DEF one
    <3> QED
      BY <2>2 DEF Workers
  <2>4. next # Nil
    BY <2>3, ConstantsAssumption
  <2>5. Outcome(w[c], Found) = AfterDiscovery(AfterFetch(next, "nameservers", Found["nameservers"])).status
    <3> DEFINE last == IF w[c].pc = "clusterDomain" THEN next ELSE w[c]
    <3>1. Outcome(w[c], Found) =
            IF last.pc = "nameservers"
              THEN AfterDiscovery(AfterFetch(last, "nameservers", Found["nameservers"])).status ELSE last.status
      BY DEF Outcome
    <3>2. last = next
      BY <2>1
    <3> HIDE DEF last, next
    <3> QED
      BY <2>3, <3>1, <3>2
  <2> HIDE DEF next
  <2>6. Outcome(next, Found) = AfterDiscovery(AfterFetch(next, "nameservers", Found["nameservers"])).status
    BY <2>3 DEF Outcome
  <2> QED
    BY <1>1, <2>1, <2>4, <2>5, <2>6, CallOwes
<1>5. CASE DiscoverNameservers(c)
  <2> DEFINE done == AfterDiscovery(AfterFetch(w[c], "nameservers", Found["nameservers"]))
  <2>1. w[c].pc = "nameservers" /\ w'[c] = done
    BY <1>2, <1>3, <1>5 DEF DiscoverNameservers, TypeOK
  <2>2. done \in Workers /\ done.pc = "get"
    <3>1. AfterFetch(w[c], "nameservers", Found["nameservers"]) \in Workers
      BY <1>1, <1>2, AfterFetchType DEF Findable
    <3> HIDE DEF done
    <3>2. done \in Workers
      BY <3>1, AfterDiscoveryType DEF done
    <3>3. done.pc = "get"
      BY <3>1 DEF done, AfterDiscovery, Workers
    <3> QED
      BY <3>2, <3>3
  <2>3. done # Nil
    BY <2>2, ConstantsAssumption
  <2>4. Outcome(w[c], Found) = done.status
    BY <2>1 DEF Outcome
  <2> HIDE DEF done
  <2>5. Outcome(done, Found) = done.status
    BY <2>2 DEF Outcome
  <2> QED
    BY <1>1, <2>1, <2>3, <2>4, <2>5, CallOwes
<1>6. CASE \/ GetForUpdate(c) /\ w'[c] # Nil
           \/ UpdateConflict(c) /\ w'[c] # Nil
  <2>1. /\ w[c].pc \in {"get", "update"} /\ w'[c].pc \in {"get", "update"} /\ w'[c].status = w[c].status
        /\ w'[c] # Nil
    BY <1>1, <1>6 DEF GetForUpdate, UpdateConflict, Return, TypeOK, Workers
  <2>2. Outcome(w[c], Found) = w[c].status /\ Outcome(w'[c], Found) = w'[c].status
    BY <2>1 DEF Outcome
  <2> QED
    BY <1>1, <2>1, <2>2, CallOwes
<1> QED
  BY <1>4, <1>5, <1>6

\* What the nodes answer has changed: the running call and the one after it may
\* each write another status.
LEMMA KubeletOwes ==
    ASSUME TypeOK, NEW c \in Classes, UNCHANGED <<api, watch, cache, dirty, w>>
    PROVE  Owed(c)' <= Owed(c) + 2
<1>1. w[c] # Nil => (Queued(c)' <=> Queued(c))
  BY DEF Queued, Repeats
<1>2. w[c] = Nil => ~Running(c)' /\ ~Left(c)'
  BY DEF Running, Left
<1>3. Ahead(c)' \in Nat /\ Ahead(c) \in Nat /\ Ahead(c)' <= Ahead(c) + (IF w[c] = Nil THEN 1 ELSE 0)
  BY <1>1, AheadType DEF Ahead, One
<1> QED
  BY <1>2, <1>3 DEF Owed, Debt, Larger, One

\* The list that replaces the events calls for no more than they did.
LEMMA RelistOwes ==
    ASSUME TypeOK, TipIsStored, NEW c \in Classes, Relist
    PROVE  Owed(c)' <= Owed(c)
<1> DEFINE n == Cardinality(Renewals(cache[c], watch[c]))
<1>1. /\ UNCHANGED <<api, cache, dirty, w, kubelet>>
      /\ watch'[c] = IF watch[c] = <<>> THEN <<>> ELSE <<api[c]>>
      /\ watch[c] \in Seq(Objects \cup {Nil}) /\ api[c] \in Objects \cup {Nil}
      /\ cache[c] \in Objects \cup {Nil}
  BY DEF Relist, TypeOK
<1>2. n \in Nat
  BY AheadType
<1>3. Cardinality(Renewals(cache[c], watch[c]))' \in Nat /\ Cardinality(Renewals(cache[c], watch[c]))' <= n
  <2>1. CASE watch[c] = <<>>
    BY <1>1, <1>2, <2>1
  <2>2. CASE watch[c] # <<>>
    <3>1. Cardinality(Renewals(cache[c], <<api[c]>>)) = One(Renews(cache[c], api[c]))
      <4>1. <<>> \in Seq(Objects \cup {Nil}) /\ Append(<<>>, api[c]) = <<api[c]>> /\ DOMAIN <<>> = {}
        BY EmptySeq
      <4>2. Renewals(cache[c], <<>>) = {}
        BY <4>1 DEF Renewals
      <4>3. Cardinality(Renewals(cache[c], Append(<<>>, api[c])))
              = Cardinality(Renewals(cache[c], <<>>)) + One(Renews(cache[c], api[c]))
        <5>1. PICK none \in Seq(Objects \cup {Nil}) : none = <<>>
          BY <4>1
        <5>2. Cardinality(Renewals(cache[c], Append(none, api[c])))
              = Cardinality(Renewals(cache[c], none))
                  + One(Renews(IF none = <<>> THEN cache[c] ELSE none[Len(none)], api[c]))
          BY <1>1, RenewalsAppend
        <5> QED
          BY <5>1, <5>2
      <4>4. Cardinality(Renewals(cache[c], <<>>)) = 0
        BY <4>2, FS_EmptySet
      <4>5. One(Renews(cache[c], api[c])) \in Nat
        BY DEF One
      <4> QED
        BY <4>1, <4>3, <4>4, <4>5
    <3>2. Renews(cache[c], api[c]) => n >= 1
      <4> SUFFICES ASSUME n = 0 PROVE ~Renews(cache[c], api[c])
        BY <1>2
      <4>1. Renewals(cache[c], watch[c]) = {}
        BY <1>1, RenewalsFinite
      <4> QED
        BY <1>1, <2>2, <4>1, NothingRenewed DEF TipIsStored
    <3>3. Cardinality(Renewals(cache[c], watch[c]))' = Cardinality(Renewals(cache[c], <<api[c]>>))
      BY <1>1, <2>2
    <3> HIDE DEF n
    <3> QED
      BY <1>2, <3>1, <3>2, <3>3 DEF One
  <2> QED
    BY <2>1, <2>2
<1>4. Found' = Found
  BY <1>1, FoundStays
<1>5. \A i \in DOMAIN watch'[c] : watch'[c][i] = api[c]
  BY <1>1
<1>6. Repeats(c) => Repeats(c)'
  BY <1>1, <1>4, <1>5 DEF Repeats
<1>7. /\ (Running(c)' <=> Running(c)) /\ (Left(c)' <=> Left(c)) /\ (Undone(c)' <=> Undone(c))
      /\ Queued(c)' => Queued(c)
  BY <1>1, <1>4, <1>6 DEF Running, Left, Undone, Queued
<1>8. Ahead(c)' \in Nat /\ Ahead(c) \in Nat /\ Ahead(c)' <= Ahead(c)
  BY <1>2, <1>3, <1>7 DEF Ahead, One
<1> QED
  BY <1>7, <1>8 DEF Owed, Debt, Larger, One

\* A restart forgets what was under way, and finds what is undone.
LEMMA RestartOwes ==
    ASSUME TypeOK, NEW c \in Classes, Restart
    PROVE  Owed(c)' <= Owed(c)
<1>1. /\ UNCHANGED <<api, kubelet>> /\ cache'[c] = api[c] /\ watch'[c] = <<>>
      /\ w'[c] = Nil /\ dirty'[c] = (api[c] # Nil)
  BY DEF Restart
<1>2. Found' = Found
  BY <1>1, FoundStays
<1>3. DOMAIN watch'[c] = {}
  BY <1>1
<1>4. ~Running(c)' /\ ~Left(c)' /\ (Undone(c)' <=> Undone(c)) /\ (Queued(c)' => Undone(c))
  BY <1>1, <1>2, <1>3 DEF Running, Left, Undone, Queued, Repeats
<1>5. Cardinality(Renewals(cache[c], watch[c]))' = 0
  <2>1. Renewals(cache[c], watch[c])' = {}
    BY <1>3 DEF Renewals
  <2> QED
    BY <2>1, FS_EmptySet
<1>6. Ahead(c)' = (IF Queued(c)' THEN 1 ELSE 0) /\ Ahead(c) \in Nat
  BY <1>5, AheadType DEF Ahead, One
<1> QED
  BY <1>4, <1>6 DEF Owed, Debt, Larger, One

-----------------------------------------------------------------------------
(* All steps.                                                               *)

\* What is owed is a number.
LEMMA OwedType == TypeOK => \A c \in Classes : Owed(c) \in Nat /\ rv[c] \in Nat
<1> SUFFICES ASSUME TypeOK, NEW c \in Classes PROVE Owed(c) \in Nat /\ rv[c] \in Nat
  OBVIOUS
<1>1. Ahead(c) \in Nat
  BY AheadType
<1> QED
  BY <1>1 DEF Owed, Debt, Larger, One, TypeOK

\* Users, nodes and early retries pay; nothing is ever paid back.
LEMMA Payments ==
    ASSUME TypeOK
    PROVE  /\ Provocations \in Int
           /\ UNCHANGED budget => Provocations' = Provocations
           /\ Spend("edits") => Provocations' = Provocations + 2
           /\ Spend("kubelet") => Provocations' = Provocations + 2
           /\ Spend("early") => Provocations' = Provocations + 1
           /\ Spend("faults") \/ Spend("relists") \/ Spend("restarts") => Provocations' = Provocations
<1>1. budget \in Budgets
  BY DEF TypeOK
<1>2. /\ budget.edits \in Nat /\ budget.kubelet \in Nat /\ budget.early \in Nat
      /\ MaxEdits \in Nat /\ MaxKubeletChanges \in Nat /\ MaxEarlyRetries \in Nat
  BY <1>1, ConstantsAssumption DEF Budgets
<1>3. Provocations \in Int
  BY <1>2 DEF Provocations
<1>4. Spend("edits") => /\ budget'.edits = budget.edits - 1
                        /\ budget'.kubelet = budget.kubelet /\ budget'.early = budget.early
  BY <1>1 DEF Spend, Budgets
<1>5. Spend("kubelet") => /\ budget'.kubelet = budget.kubelet - 1
                          /\ budget'.edits = budget.edits /\ budget'.early = budget.early
  BY <1>1 DEF Spend, Budgets
<1>6. Spend("early") => /\ budget'.early = budget.early - 1
                        /\ budget'.edits = budget.edits /\ budget'.kubelet = budget.kubelet
  BY <1>1 DEF Spend, Budgets
<1>7. Spend("faults") \/ Spend("relists") \/ Spend("restarts")
        => /\ budget'.edits = budget.edits /\ budget'.kubelet = budget.kubelet
           /\ budget'.early = budget.early
  BY <1>1 DEF Spend, Budgets
<1>8. UNCHANGED budget => Provocations' = Provocations
  BY DEF Provocations
<1>0. \A m, b, x, y \in Int : /\ 2 * (m - (b - 1)) + x + y = (2 * (m - b) + x + y) + 2
                              /\ x + 2 * (m - (b - 1)) + y = (x + 2 * (m - b) + y) + 2
  OBVIOUS
<1> DEFINE edits == 2 * (MaxEdits - budget.edits)
           nodes == 2 * (MaxKubeletChanges - budget.kubelet)
           early == MaxEarlyRetries - budget.early
<1>a. edits \in Int /\ nodes \in Int /\ early \in Int
  BY <1>2
<1>9. Spend("edits") => Provocations' = Provocations + 2
  <2>1. 2 * (MaxEdits - (budget.edits - 1)) + nodes + early = (edits + nodes + early) + 2
    BY <1>0, <1>2, <1>a
  <2> QED
    BY <1>4, <2>1 DEF Provocations
<1>10. Spend("kubelet") => Provocations' = Provocations + 2
  <2>1. edits + 2 * (MaxKubeletChanges - (budget.kubelet - 1)) + early = (edits + nodes + early) + 2
    BY <1>0, <1>2, <1>a
  <2> QED
    BY <1>5, <2>1 DEF Provocations
<1>11. Spend("early") => Provocations' = Provocations + 1
  BY <1>2, <1>6 DEF Provocations
<1>12. Spend("faults") \/ Spend("relists") \/ Spend("restarts") => Provocations' = Provocations
  BY <1>2, <1>7 DEF Provocations
<1> QED
  BY <1>3, <1>8, <1>9, <1>10, <1>11, <1>12

\* What is there and what is owed stays paid for.
LEMMA StaysProvoked ==
    ASSUME TypeOK, TipIsStored, NodesAlike, OwedIsProvoked, [Next]_vars, NEW c \in Classes,
           Owed(c)' \in Nat
    PROVE  rv'[c] + Owed(c)' <= Provocations'
<1>0. /\ Owed(c) \in Nat /\ rv[c] \in Nat /\ Provocations \in Int
      /\ rv[c] + Owed(c) <= Provocations
  BY OwedType, Payments DEF OwedIsProvoked
<1>1. ASSUME NEW d \in Classes, CreateClass(d) \/ UpdateClass(d) \/ DeleteClass(d)
      PROVE  rv'[c] + Owed(c)' <= Provocations'
  <2>1. Provocations' = Provocations + 2
    BY <1>1, Payments DEF CreateClass, UpdateClass, DeleteClass
  <2>2. CASE d = c
    <3>1. rv'[c] + Owed(c)' <= rv[c] + Owed(c) + 2
      BY <1>1, <2>2, CreateOwes, UpdateOwes, DeleteOwes
    <3>2. rv'[c] = rv[c] + 1
      BY <1>1, <2>2 DEF CreateClass, UpdateClass, DeleteClass, Store, TypeOK
    <3> QED
      BY <1>0, <2>1, <3>1, <3>2
  <2>3. CASE d # c
    <3>1. /\ api'[c] = api[c] /\ cache'[c] = cache[c] /\ watch'[c] = watch[c]
          /\ dirty'[c] = dirty[c] /\ w'[c] = w[c] /\ kubelet' = kubelet /\ rv'[c] = rv[c]
      BY <1>1, <2>3 DEF CreateClass, UpdateClass, DeleteClass, Store, TypeOK
    <3>2. Owed(c)' = Owed(c)
      BY <3>1, OwedElsewhere
    <3> QED
      BY <1>0, <2>1, <3>1, <3>2
  <2> QED
    BY <2>2, <2>3
<1>2. ASSUME NEW d \in Classes, UpdateSucceeds(d)
      PROVE  rv'[c] + Owed(c)' <= Provocations'
  <2>1. Provocations' = Provocations
    BY <1>2, Payments DEF UpdateSucceeds
  <2>2. CASE d = c
    <3>1. rv'[c] + Owed(c)' <= rv[c] + Owed(c)
      BY <1>2, <2>2, WriteOwes
    <3>2. rv'[c] \in Nat
      BY <1>0, <1>2, <2>2 DEF UpdateSucceeds, Store, TypeOK
    <3> QED
      BY <1>0, <2>1, <3>1, <3>2
  <2>3. CASE d # c
    <3>1. /\ api'[c] = api[c] /\ cache'[c] = cache[c] /\ watch'[c] = watch[c]
          /\ dirty'[c] = dirty[c] /\ w'[c] = w[c] /\ kubelet' = kubelet /\ rv'[c] = rv[c]
      BY <1>2, <2>3 DEF UpdateSucceeds, Store, Return, TypeOK
    <3>2. Owed(c)' = Owed(c)
      BY <3>1, OwedElsewhere
    <3> QED
      BY <1>0, <2>1, <3>1, <3>2
  <2> QED
    BY <2>2, <2>3
<1>3. ASSUME NEW d \in Classes, Deliver(d)
      PROVE  rv'[c] + Owed(c)' <= Provocations'
  <2>1. Provocations' = Provocations /\ rv' = rv
    BY <1>3, Payments DEF Deliver
  <2>2. CASE d = c
    BY <1>0, <1>3, <2>1, <2>2, DeliverOwes
  <2>3. CASE d # c
    <3>1. /\ api'[c] = api[c] /\ cache'[c] = cache[c] /\ watch'[c] = watch[c]
          /\ dirty'[c] = dirty[c] /\ w'[c] = w[c] /\ kubelet' = kubelet
      BY <1>3, <2>3 DEF Deliver, TypeOK
    <3> QED
      BY <1>0, <2>1, <3>1, OwedElsewhere
  <2> QED
    BY <2>2, <2>3
<1>4. ASSUME NEW d \in Classes, StartReconcile(d) \/ GetFails(d)
      PROVE  rv'[c] + Owed(c)' <= Provocations'
  <2>1. Provocations' = Provocations /\ rv' = rv
    BY <1>4, Payments DEF StartReconcile, GetFails
  <2>2. CASE d = c
    <3>1. CASE StartReconcile(d)
      BY <1>0, <2>1, <2>2, <3>1, StartOwes
    <3>2. CASE GetFails(d)
      <4>1. ~dirty'[c] /\ UNCHANGED <<api, watch, cache, w, kubelet>>
        BY <2>2, <3>2 DEF GetFails, TypeOK
      <4> QED
        BY <1>0, <2>1, <4>1, DropOwes
    <3> QED
      BY <1>4, <3>1, <3>2
  <2>3. CASE d # c
    <3>1. /\ api'[c] = api[c] /\ cache'[c] = cache[c] /\ watch'[c] = watch[c]
          /\ dirty'[c] = dirty[c] /\ w'[c] = w[c] /\ kubelet' = kubelet
      BY <1>4, <2>3 DEF StartReconcile, GetFails, TypeOK
    <3> QED
      BY <1>0, <2>1, <3>1, OwedElsewhere
  <2> QED
    BY <2>2, <2>3
<1>5. ASSUME NEW d \in Classes, RetryFires(d)
      PROVE  rv'[c] + Owed(c)' <= Provocations'
  <2>1. rv' = rv
    BY <1>5 DEF RetryFires
  <2>2. CASE d = c
    <3>1. CASE watch[c] = <<>> /\ ~dirty[c] /\ w[c] = Nil
      <4>1. Provocations' = Provocations
        BY <1>5, <2>2, <3>1, Payments DEF RetryFires
      <4>2. Owed(c)' <= Owed(c) + 0
        BY <1>5, <2>2, <3>1, RetryOwes
      <4> QED
        BY <1>0, <2>1, <4>1, <4>2
    <3>2. CASE ~(watch[c] = <<>> /\ ~dirty[c] /\ w[c] = Nil)
      <4>1. Provocations' = Provocations + 1
        BY <1>5, <2>2, <3>2, Payments DEF RetryFires
      <4>2. Owed(c)' <= Owed(c) + 1
        BY <1>5, <2>2, <3>2, RetryOwes
      <4> QED
        BY <1>0, <2>1, <4>1, <4>2
    <3> QED
      BY <3>1, <3>2
  <2>3. CASE d # c
    <3>1. /\ api'[c] = api[c] /\ cache'[c] = cache[c] /\ watch'[c] = watch[c]
          /\ dirty'[c] = dirty[c] /\ w'[c] = w[c] /\ kubelet' = kubelet
      BY <1>5, <2>3 DEF RetryFires, TypeOK
    <3>2. UNCHANGED budget \/ Spend("early")
      BY <1>5 DEF RetryFires
    <3>3. Provocations' >= Provocations
      BY <1>0, <3>2, Payments
    <3>4. Provocations' \in Int
      BY <1>0, <3>2, Payments
    <3> QED
      BY <1>0, <2>1, <3>1, <3>3, <3>4, OwedElsewhere
  <2> QED
    BY <2>2, <2>3
<1>6. ASSUME NEW d \in Classes,
             \/ DiscoverClusterDomain(d) \/ DiscoverNameservers(d) \/ GetForUpdate(d)
             \/ UpdateNotFound(d) \/ UpdateConflict(d) \/ UpdateFails(d)
      PROVE  rv'[c] + Owed(c)' <= Provocations'
  <2>1. Provocations' = Provocations /\ rv' = rv
    BY <1>6, Payments DEF DiscoverClusterDomain, DiscoverNameservers, GetForUpdate, UpdateNotFound,
       UpdateConflict, UpdateFails
  <2>2. w[d] # Nil /\ UNCHANGED <<api, cache, watch, dirty, kubelet>>
    BY <1>6 DEF DiscoverClusterDomain, DiscoverNameservers, GetForUpdate, UpdateNotFound,
       UpdateConflict, UpdateFails
  <2>3. CASE d = c
    <3>1. CASE w'[c] = Nil
      BY <1>0, <2>1, <2>2, <2>3, <3>1, ReturnOwes
    <3>2. CASE w'[c] # Nil
      <4>1. ~UpdateNotFound(c) /\ ~UpdateFails(c)
        BY <3>2 DEF UpdateNotFound, UpdateFails, Return, TypeOK
      <4> QED
        BY <1>0, <1>6, <2>1, <2>3, <3>2, <4>1, WorkerOwes
    <3> QED
      BY <3>1, <3>2
  <2>4. CASE d # c
    <3>1. w'[c] = w[c]
      BY <1>6, <2>4 DEF DiscoverClusterDomain, DiscoverNameservers, GetForUpdate, UpdateNotFound,
         UpdateConflict, UpdateFails, Return, TypeOK
    <3> QED
      BY <1>0, <2>1, <2>2, <3>1, OwedElsewhere
  <2> QED
    BY <2>3, <2>4
<1>7. ASSUME NEW n \in Nodes, ChangeKubelet(n)
      PROVE  rv'[c] + Owed(c)' <= Provocations'
  <2>1. Provocations' = Provocations + 2 /\ rv' = rv
    BY <1>7, Payments DEF ChangeKubelet
  <2>2. UNCHANGED <<api, watch, cache, dirty, w>>
    BY <1>7 DEF ChangeKubelet
  <2> QED
    BY <1>0, <2>1, <2>2, KubeletOwes
<1>8. ASSUME Relist \/ Restart PROVE rv'[c] + Owed(c)' <= Provocations'
  <2>1. Provocations' = Provocations /\ rv' = rv
    BY <1>8, Payments DEF Relist, Restart
  <2> QED
    BY <1>0, <1>8, <2>1, RelistOwes, RestartOwes
<1>9. ASSUME UNCHANGED vars PROVE rv'[c] + Owed(c)' <= Provocations'
  <2>1. Provocations' = Provocations /\ rv' = rv
    BY <1>9, Payments DEF vars
  <2>2. UNCHANGED <<api, cache, watch, dirty, w, kubelet>>
    BY <1>9 DEF vars
  <2> QED
    BY <1>0, <2>1, <2>2, OwedElsewhere
<1> QED
  BY <1>1, <1>2, <1>3, <1>4, <1>5, <1>6, <1>7, <1>8, <1>9 DEF Next, Step

\* While the nodes that are listed answer alike, every version of a class is paid
\* for by an edit, a change of a node or an early retry, and so is every version
\* that calls, queue and events may still make (dnsClassPredicate, Reconcile and
\* writeStatus).
THEOREM OwedAreProvoked == Spec /\ []NodesAlike => []OwedIsProvoked
<1>1. Init => OwedIsProvoked
  <2> SUFFICES ASSUME Init, NEW c \in Classes PROVE rv[c] + Owed(c) <= Provocations
    BY DEF OwedIsProvoked
  <2>1. ~Running(c) /\ ~Queued(c) /\ ~Left(c) /\ ~Undone(c)
    BY DEF Init, Running, Queued, Left, Undone
  <2>2. Cardinality(Renewals(cache[c], watch[c])) = 0
    <3>1. DOMAIN watch[c] = {}
      BY DEF Init
    <3>2. Renewals(cache[c], watch[c]) = {}
      BY <3>1 DEF Renewals
    <3> QED
      BY <3>2, FS_EmptySet
  <2>3. Owed(c) = 0
    BY <2>1, <2>2 DEF Owed, Ahead, Debt, Larger, One
  <2>4. rv[c] = 0 /\ Provocations = 0
    BY ConstantsAssumption DEF Init, Provocations
  <2> QED
    BY <2>3, <2>4
<1>2. /\ TypeOK /\ TipIsStored /\ NodesAlike /\ OwedIsProvoked /\ [Next]_vars
      /\ (\A c \in Classes : Owed(c) \in Nat /\ rv[c] \in Nat)'
      => OwedIsProvoked'
  BY StaysProvoked DEF OwedIsProvoked
<1>3. IInv => TypeOK /\ TipIsStored
  BY DEF IInv
<1> QED
  BY <1>1, <1>2, <1>3, OwedType, Inductive, PTL DEF Spec

\* So then every version of a class has a cause: retries of a class at rest,
\* restarts, relists and refused calls are none.
THEOREM VersionsProvoked == Spec /\ []NodesAlike => []VersionsAreProvoked
<1>1. TypeOK /\ OwedIsProvoked => VersionsAreProvoked
  <2> SUFFICES ASSUME TypeOK, OwedIsProvoked, NEW c \in Classes PROVE rv[c] <= Provocations
    BY DEF VersionsAreProvoked
  <2>1. Owed(c) \in Nat /\ rv[c] \in Nat /\ Provocations \in Int /\ rv[c] + Owed(c) <= Provocations
    BY OwedType, Payments DEF OwedIsProvoked
  <2> QED
    BY <2>1
<1> QED
  BY <1>1, OwedAreProvoked, TypeCorrect, PTL

\* A cluster with one node always answers as it does.
THEOREM OneNodeProvokes ==
    ASSUME \A m, n \in Nodes : m = n
    PROVE  Spec => []VersionsAreProvoked
<1>1. NodesAlike
  <2> SUFFICES ASSUME NEW field \in FieldNames
               PROVE  \E value \in Fetched(field) : Fetched(field) = {value}
    BY DEF NodesAlike
  <2> DEFINE listed == {n \in Nodes : kubelet[n] # Gone}
             of(n) == IF kubelet[n] = Unreachable THEN Nil ELSE kubelet[n][field]
  <2>1. CASE listed = {}
    BY <2>1 DEF Fetched
  <2>2. CASE listed # {}
    <3>1. PICK n \in listed : TRUE
      BY <2>2
    <3>2. listed = {n}
      BY <3>1
    <3>3. Fetched(field) = {of(m) : m \in listed}
      BY <2>2 DEF Fetched
    <3> HIDE DEF listed, of
    <3>4. Fetched(field) = {of(n)}
      BY <3>2, <3>3
    <3> QED
      BY <3>4
  <2> QED
    BY <2>1, <2>2
<1> QED
  BY <1>1, VersionsProvoked, PTL
=============================================================================
