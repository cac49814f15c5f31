---------------------------- MODULE Shepherd_proofs ----------------------------
(***************************************************************************)
(* Proofs about the manager as a whole: what is proved of the controller   *)
(* still holds beside the pod webhook, pods are patched whole, what is     *)
(* Ready can be used, and refusals end with the reconcile.                 *)
(***************************************************************************)
EXTENDS ShepherdProps, DNSClassRefinement_proofs

allVars == <<vars, podVars>>

\* The pod webhook leaves the controller alone: every behaviour of the manager
\* is one of the controller (cmd/main.go:268-290, they share only the cache).
THEOREM ControllerInside == ShepherdSpec => Spec
<1>1. ShepherdInit => Init
  BY DEF ShepherdInit
<1>2. [ShepherdNext]_<<vars, podVars>> => [Next]_vars
  BY DEF ShepherdNext, CreatePod, UpdatePod, DeletePod
<1> QED
  BY <1>1, <1>2, PTL DEF ShepherdSpec, Spec

\* So a class is still never forgotten, nor its status misleading.
THEOREM ControllerPromises ==
    ShepherdSpec => [](TypeOK /\ ReadyMeansUsable /\ NothingForgotten)
  BY ControllerInside, TypeCorrect, ReadyIsUsable, NoneForgotten, PTL

-----------------------------------------------------------------------------
(* The pod webhook.                                                         *)

\* The values a template gets are values.
LEMMA ParameterValues ==
    ASSUME NEW pod \in Pods(Classes), NEW discovered \in DiscoveredFields,
           NEW key \in DOMAIN parameterMap(pod, discovered)
    PROVE  /\ parameterMap(pod, discovered)[key] \in Namespaces \cup Domains
           /\ parameterMap(pod, discovered)[key] # Nil
<1>1. key = "podNamespace" \/ discovered.clusterDomain # Nil
  BY DEF parameterMap
<1>2. parameterMap(pod, discovered)[key] =
        IF key = "podNamespace" THEN pod.namespace ELSE discovered.clusterDomain
  BY DEF parameterMap
<1>3. pod.namespace \in Namespaces /\ discovered.clusterDomain \in Domains \cup {Nil}
  BY DEF Pods, DiscoveredFields
<1> QED
  BY <1>1, <1>2, <1>3, ConstantsAssumption, PodAssumption

\* s is the entry with a value for each key it uses.
Filled(s, entry) ==
    /\ s \in Searches
    /\ s.entry = entry /\ DOMAIN s.values = entry.uses
    /\ \A key \in DOMAIN s.values : s.values[key] # Nil

\* A rendered entry has a value for each key it uses.
LEMMA RenderedWhole ==
    ASSUME NEW pod \in Pods(Classes), NEW discovered \in DiscoveredFields,
           NEW entry \in SearchEntries, Renders(entry, parameterMap(pod, discovered))
    PROVE  Filled(Rendered(entry, parameterMap(pod, discovered)), entry)
<1> DEFINE s == Rendered(entry, parameterMap(pod, discovered))
<1>1. s.entry = entry /\ s.values = [key \in entry.uses |-> parameterMap(pod, discovered)[key]]
  BY DEF Rendered
<1>2. entry.uses \subseteq DOMAIN parameterMap(pod, discovered)
  BY DEF Renders
<1>3. \A key \in entry.uses : /\ parameterMap(pod, discovered)[key] \in Namespaces \cup Domains
                              /\ parameterMap(pod, discovered)[key] # Nil
  BY <1>2, ParameterValues
<1>4. s.values \in [entry.uses -> Namespaces \cup Domains]
  BY <1>1, <1>3
<1>5. entry.uses \in SUBSET TemplateKeys
  BY DEF SearchEntries
<1>6. s \in Searches
  BY <1>1, <1>4, <1>5 DEF Searches, Rendered
<1>7. DOMAIN s.values = entry.uses /\ \A key \in DOMAIN s.values : s.values[key] # Nil
  BY <1>1, <1>3
<1> HIDE DEF s
<1> QED
  BY <1>1, <1>6, <1>7 DEF Filled, s

\* The DNS config of a class with policy None, for a pod.
ConfigFor(namespace, class) ==
    [nameservers |-> ChosenNameservers(class),
     searches    |-> {Rendered(entry, parameterMap([namespace |-> namespace], class.status.discovered)) :
                        entry \in Entries(class)}]

\* What configureDNSForPod makes of a pod: the policy of the class, and with
\* policy None its config, in which each entry of the class is rendered.
WholeFor(pod, class) ==
    /\ pod.dnsPolicy = class.spec.dnsPolicy
    /\ pod.dnsPolicy = "None" =>
         /\ pod.dnsConfig # Nil
         /\ pod.dnsConfig = ConfigFor(pod.namespace, class)
         /\ {s.entry : s \in pod.dnsConfig.searches} = Entries(class)
         /\ \A s \in pod.dnsConfig.searches :
              /\ DOMAIN s.values = s.entry.uses
              /\ \A key \in DOMAIN s.values : s.values[key] # Nil

\* The two facts about a class that does not make configureDNSForPod fail.
LEMMA Configured ==
    ASSUME NEW pod \in Pods(Classes), NEW c \in Classes, NEW class \in Objects,
           ~Panics(class), ~ConfigFails(pod, class)
    PROVE  /\ configureDNSForPod(pod, c, class) \in Pods(Classes)
           /\ WholeFor(configureDNSForPod(pod, c, class), class)
<1> DEFINE new == configureDNSForPod(pod, c, class)
           config == [nameservers |-> ChosenNameservers(class),
                      searches |-> {Rendered(entry, parameterMap(pod, class.status.discovered)) :
                                      entry \in Entries(class)}]
<1>1. /\ class.spec \in DNSClassSpec /\ class.status \in DNSClassStatus
      /\ class.status.discovered \in DiscoveredFields \cup {Nil}
  BY DEF Objects, DNSClassStatus
<1>2. class.spec.dnsPolicy \in Policies
  BY <1>1 DEF DNSClassSpec
<1>3. new = [pod EXCEPT !.dnsPolicy = class.spec.dnsPolicy,
                        !.dnsConfig = IF class.spec.dnsPolicy = "None" THEN config ELSE pod.dnsConfig,
                        !.class = c]
  BY DEF configureDNSForPod, Pods
<1>4. CASE class.spec.dnsPolicy # "None"
  BY <1>2, <1>3, <1>4 DEF WholeFor, Pods
<1>5. CASE class.spec.dnsPolicy = "None"
  <2>1. class.status.discovered \in DiscoveredFields
    BY <1>1, <1>5 DEF Panics
  <2>2. Entries(class) \subseteq SearchEntries
    BY <1>1 DEF Entries, DNSClassSpec, DNSConfigs
  <2>3. \A entry \in Entries(class) : Renders(entry, parameterMap(pod, class.status.discovered))
    BY <1>5 DEF ConfigFails
  <2>4. \A entry \in Entries(class) :
          Filled(Rendered(entry, parameterMap(pod, class.status.discovered)), entry)
    BY <2>1, <2>2, <2>3, RenderedWhole
  <2>5. ChosenNameservers(class) \in NSLists \cup {Nil}
    BY <1>1, <2>1 DEF ChosenNameservers, DNSClassSpec, DNSConfigs, DiscoveredFields
  <2>6. config \in PodDNSConfigs
    BY <2>4, <2>5 DEF PodDNSConfigs, Filled
  <2>7. new \in Pods(Classes) /\ new.dnsPolicy = "None" /\ new.dnsConfig = config
    BY <1>2, <1>3, <1>5, <2>6 DEF Pods
  <2>8. config # Nil
    BY <2>6, PodAssumption
  <2>9. {s.entry : s \in config.searches} = Entries(class)
    BY <2>4 DEF Filled
  <2>10. \A s \in config.searches :
              /\ DOMAIN s.values = s.entry.uses
              /\ \A key \in DOMAIN s.values : s.values[key] # Nil
    BY <2>4 DEF Filled
  <2>11. config = ConfigFor(new.namespace, class)
    <3>1. new.namespace = pod.namespace
      BY <1>3 DEF Pods
    <3>2. ASSUME NEW discovered
          PROVE  parameterMap(pod, discovered) = parameterMap([namespace |-> new.namespace], discovered)
      BY <3>1 DEF parameterMap
    <3> HIDE DEF new
    <3> QED
      BY <3>2 DEF ConfigFor
  <2> HIDE DEF config
  <2> QED
    BY <1>5, <2>7, <2>8, <2>9, <2>10, <2>11 DEF WholeFor
<1> QED
  BY <1>4, <1>5

\* pod was patched for the class it is annotated with, as classes had it.
PatchedBy(pod, classes) ==
    /\ pod.class \in Classes /\ classes[pod.class] # Nil
    /\ classes[pod.class].status.state = StateReady
    /\ Covers(classes[pod.class].spec, pod.namespace)
    /\ WholeFor(pod, classes[pod.class])

\* The webhook answers with the pod as it is, or patched.
LEMMA HandleAnswers ==
    ASSUME NEW pod \in Pods(Classes), NEW classes \in [Classes -> Objects \cup {Nil}],
           NEW response \in Handle(pod, classes)
    PROVE  /\ response.pod \in Pods(Classes)
           /\ response.pod = pod \/ PatchedBy(response.pod, classes)
<1>1. CASE response.pod = pod
  BY <1>1
<1>2. CASE response.pod # pod
  <2>1. PICK c \in getDNSClass(classes, pod) : response = Answer(pod, c, classes[c])
    BY <1>2 DEF Handle, Unpatched
  <2>2. c \in Classes /\ classes[c] \in Objects /\ classes[c] # Nil /\ Selects(classes[c].spec, pod)
    BY <2>1 DEF getDNSClass
  <2>3. /\ classes[c].status.state = StateReady
        /\ ~Panics(classes[c]) /\ ~ConfigFails(pod, classes[c])
        /\ response.pod = configureDNSForPod(pod, c, classes[c])
    BY <1>2, <2>1 DEF Answer, Unpatched, Denied
  <2>4. response.pod \in Pods(Classes) /\ WholeFor(response.pod, classes[c])
    BY <2>2, <2>3, Configured
  <2>5. response.pod.class = c /\ response.pod.namespace = pod.namespace
    BY <2>3 DEF configureDNSForPod, Pods
  <2>6. Covers(classes[c].spec, pod.namespace)
    BY <2>2 DEF Selects, Covers
  <2> QED
    BY <2>2, <2>3, <2>4, <2>5, <2>6 DEF PatchedBy
<1> QED
  BY <1>1, <1>2

-----------------------------------------------------------------------------
\* A pod that is stored is valid, and as submitted or patched.
PodExplained(p) ==
    pods[p] # Nil =>
      /\ PodValid(pods[p])
      /\ pods[p] = asked[p] \/ (seen[p] # Nil /\ PatchedBy(pods[p], seen[p]))

PodInv == ShepherdTypeOK /\ \A p \in PodNames : PodExplained(p)

\* A step that leaves a pod alone leaves it explained.
LEMMA ExplainedElsewhere ==
    ASSUME NEW p \in PodNames, PodExplained(p),
           pods'[p] = pods[p], asked'[p] = asked[p], seen'[p] = seen[p]
    PROVE  PodExplained(p)'
  BY DEF PodExplained, PodValid, PatchedBy, WholeFor, Covers, Entries

\* Storing the answer to a request about a pod.
LEMMA StoreExplained ==
    ASSUME TypeOK, PodInv, NEW p \in PodNames, NEW old \in Pods(Classes),
           NEW response \in Handle(old, cache), StorePod(p, response, old),
           PodValid(response.pod), asked' \in [PodNames -> PodRequests \cup {Nil}],
           \A q \in PodNames \ {p} : asked'[q] = asked[q],
           \/ old = asked'[p]
           \/ old = pods[p] /\ asked'[p] = asked[p]
    PROVE  /\ pods' \in [PodNames -> Pods(Classes) \cup {Nil}]
           /\ outcome' \in Outcomes
           /\ seen' \in [PodNames -> [Classes -> Objects \cup {Nil}] \cup {Nil}]
           /\ \A q \in PodNames : PodExplained(q)'
<1>1. cache \in [Classes -> Objects \cup {Nil}]
  BY DEF TypeOK
<1>2. /\ response.pod \in Pods(Classes)
      /\ response.pod = old \/ PatchedBy(response.pod, cache)
  BY <1>1, HandleAnswers
<1>3. /\ pods \in [PodNames -> Pods(Classes) \cup {Nil}]
      /\ seen \in [PodNames -> [Classes -> Objects \cup {Nil}] \cup {Nil}]
  BY DEF PodInv, ShepherdTypeOK
<1>4. /\ pods' = [pods EXCEPT ![p] = response.pod]
      /\ seen' = [seen EXCEPT ![p] = IF response.pod = old THEN seen[p] ELSE cache]
      /\ outcome' = [pod |-> p, became |-> "stored"]
  BY <1>3 DEF StorePod
<1>5. PodExplained(p)'
  <2>1. pods'[p] = response.pod /\ PodValid(response.pod)
    BY <1>3, <1>4
  <2>2. CASE response.pod = old /\ old = asked'[p]
    BY <2>1, <2>2 DEF PodExplained, PodValid
  <2>3. CASE response.pod = old /\ old = pods[p] /\ asked'[p] = asked[p]
    <3>1. pods'[p] = pods[p] /\ seen'[p] = seen[p]
      BY <1>3, <1>4, <2>1, <2>3
    <3> QED
      BY <2>3, <3>1, ExplainedElsewhere DEF PodInv
  <2>4. CASE response.pod # old
    <3>1. cache # Nil
      BY <1>1, PodAssumption
    <3>2. seen'[p] = cache /\ PatchedBy(response.pod, cache)
      BY <1>2, <1>3, <1>4, <2>4
    <3> QED
      BY <2>1, <3>1, <3>2 DEF PodExplained, PodValid, PatchedBy, WholeFor, Covers, Entries
  <2> QED
    BY <2>2, <2>3, <2>4
<1>6. ASSUME NEW q \in PodNames \ {p} PROVE PodExplained(q)'
  <2>1. pods'[q] = pods[q] /\ seen'[q] = seen[q] /\ asked'[q] = asked[q]
    BY <1>3, <1>4
  <2> QED
    BY <2>1, ExplainedElsewhere DEF PodInv
<1>7. outcome' \in Outcomes
  BY <1>4 DEF Outcomes
<1>8. pods' \in [PodNames -> Pods(Classes) \cup {Nil}]
  BY <1>2, <1>3, <1>4
<1>9. seen' \in [PodNames -> [Classes -> Objects \cup {Nil}] \cup {Nil}]
  BY <1>1, <1>3, <1>4
<1> QED
  BY <1>5, <1>6, <1>7, <1>8, <1>9

\* Every step keeps the types, and the stored pods explained.
LEMMA NextPods ==
    ASSUME TypeOK, PodInv, [ShepherdNext]_allVars
    PROVE  PodInv'
<1>1. /\ pods \in [PodNames -> Pods(Classes) \cup {Nil}] /\ podEdits \in 0..MaxPodEdits
      /\ asked \in [PodNames -> PodRequests \cup {Nil}]
      /\ seen \in [PodNames -> [Classes -> Objects \cup {Nil}] \cup {Nil}]
      /\ outcome \in Outcomes \cup {Nil}
  BY DEF PodInv, ShepherdTypeOK
<1>2. CASE UNCHANGED podVars
  <2>1. ShepherdTypeOK'
    BY <1>1, <1>2 DEF podVars, ShepherdTypeOK
  <2>2. \A p \in PodNames : PodExplained(p)'
    BY <1>2, ExplainedElsewhere DEF podVars, PodInv
  <2> QED
    BY <2>1, <2>2 DEF PodInv
<1>3. ASSUME NEW p \in PodNames, podEdits > 0, podEdits' = podEdits - 1, NEW why, Refuse(p, why),
             why \in {"denied", "invalid", "immutable"}
      PROVE  PodInv'
  <2>1. ShepherdTypeOK'
    <3>1. podEdits' \in 0..MaxPodEdits
      BY <1>1, <1>3, PodAssumption
    <3>2. outcome' \in Outcomes
      BY <1>3 DEF Refuse, Outcomes
    <3> QED
      BY <1>1, <1>3, <3>1, <3>2 DEF Refuse, ShepherdTypeOK
  <2>2. \A q \in PodNames : PodExplained(q)'
    BY <1>3, ExplainedElsewhere DEF Refuse, PodInv
  <2> QED
    BY <2>1, <2>2 DEF PodInv
<1>4. ASSUME NEW p \in PodNames, CreatePod(p) PROVE PodInv'
  <2>1. podEdits > 0 /\ podEdits' = podEdits - 1
    BY <1>4 DEF CreatePod
  <2>2. PICK request \in PodRequests : \E response \in Handle(request, cache) :
         \/ Refuse(p, "denied")
         \/ Refuse(p, "invalid")
         \/ /\ PodValid(response.pod) /\ StorePod(p, response, request)
            /\ asked' = [asked EXCEPT ![p] = request]
    BY <1>4 DEF CreatePod
  <2>3. PICK response \in Handle(request, cache) :
         \/ Refuse(p, "denied")
         \/ Refuse(p, "invalid")
         \/ /\ PodValid(response.pod) /\ StorePod(p, response, request)
            /\ asked' = [asked EXCEPT ![p] = request]
    BY <2>2
  <2>4. CASE Refuse(p, "denied") \/ Refuse(p, "invalid")
    BY <1>3, <2>1, <2>4
  <2>5. CASE /\ PodValid(response.pod) /\ StorePod(p, response, request)
             /\ asked' = [asked EXCEPT ![p] = request]
    <3>1. request \in Pods(Classes)
      BY PodAssumption
    <3>2. /\ asked' \in [PodNames -> PodRequests \cup {Nil}] /\ request = asked'[p]
          /\ \A q \in PodNames \ {p} : asked'[q] = asked[q]
      BY <1>1, <2>5
    <3>3. podEdits' \in 0..MaxPodEdits
      BY <1>1, <2>1, PodAssumption
    <3> QED
      BY <2>5, <3>1, <3>2, <3>3, StoreExplained DEF PodInv, ShepherdTypeOK
  <2> QED
    BY <2>3, <2>4, <2>5
<1>5. ASSUME NEW p \in PodNames, UpdatePod(p) PROVE PodInv'
  <2>1. podEdits > 0 /\ podEdits' = podEdits - 1 /\ pods[p] # Nil
    BY <1>5 DEF UpdatePod
  <2>2. PICK response \in Handle(pods[p], cache) :
         \/ Refuse(p, "denied")
         \/ Refuse(p, "immutable")
         \/ SameDNS(response.pod, pods[p]) /\ StorePod(p, response, pods[p]) /\ UNCHANGED asked
    BY <1>5 DEF UpdatePod
  <2>3. CASE Refuse(p, "denied") \/ Refuse(p, "immutable")
    BY <1>3, <2>1, <2>3
  <2>4. CASE SameDNS(response.pod, pods[p]) /\ StorePod(p, response, pods[p]) /\ UNCHANGED asked
    <3>1. pods[p] \in Pods(Classes)
      BY <1>1, <2>1
    <3>2. PodValid(response.pod)
      BY <2>1, <2>4 DEF PodInv, PodExplained, PodValid, SameDNS
    <3>3. podEdits' \in 0..MaxPodEdits
      BY <1>1, <2>1, PodAssumption
    <3>4. asked' \in [PodNames -> PodRequests \cup {Nil}] /\ \A q \in PodNames : asked'[q] = asked[q]
      BY <1>1, <2>4
    <3> QED
      BY <2>2, <2>4, <3>1, <3>2, <3>3, <3>4, StoreExplained DEF PodInv, ShepherdTypeOK
  <2> QED
    BY <2>2, <2>3, <2>4
<1>6. ASSUME NEW p \in PodNames, DeletePod(p) PROVE PodInv'
  <2>1. ShepherdTypeOK'
    BY <1>1, <1>6 DEF DeletePod, ShepherdTypeOK
  <2>2. PodExplained(p)'
    BY <1>1, <1>6 DEF DeletePod, PodExplained
  <2>3. ASSUME NEW q \in PodNames \ {p} PROVE PodExplained(q)'
    <3>1. pods'[q] = pods[q] /\ asked'[q] = asked[q] /\ seen'[q] = seen[q]
      BY <1>1, <1>6 DEF DeletePod
    <3> QED
      BY <3>1, ExplainedElsewhere DEF PodInv
  <2> QED
    BY <2>1, <2>2, <2>3 DEF PodInv
<1> QED
  BY <1>2, <1>4, <1>5, <1>6 DEF ShepherdNext, allVars

\* The manager's types and its pods, in every state.
LEMMA PodsExplained == ShepherdSpec => []PodInv
<1>1. ShepherdInit => PodInv
  BY PodAssumption DEF ShepherdInit, PodInv, ShepherdTypeOK, PodExplained
<1>2. TypeOK /\ PodInv /\ [ShepherdNext]_<<vars, podVars>> => PodInv'
  BY NextPods DEF allVars
<1> QED
  BY <1>1, <1>2, ControllerPromises, PTL DEF ShepherdSpec

\* Type correctness of pods, requests and history.
THEOREM ShepherdTypeCorrect == ShepherdSpec => []ShepherdTypeOK
  BY PodsExplained, PTL DEF PodInv

\* No pod is stored half-configured, however classes change while it is admitted
\* and updated: it is as it was submitted, or patched whole by a class that was
\* Ready and for its namespace (Handle, configureDNSForPod, updateAnnotation).
THEOREM WholePods == ShepherdSpec => []PodsAreWhole
<1>1. PodInv => PodsAreWhole
  <2> SUFFICES ASSUME PodInv, NEW p \in PodNames, pods[p] # Nil, pods[p] # asked[p]
               PROVE  seen[p] # Nil /\ PodValid(pods[p]) /\ PatchedBy(pods[p], seen[p])
    BY PodAssumption DEF PodsAreWhole, PodValid, PatchedBy, WholeFor
  <2> QED
    BY DEF PodInv, PodExplained
<1> QED
  BY <1>1, PodsExplained, PTL

-----------------------------------------------------------------------------
(* Controller and webhook.                                                  *)

\* What is proved of the controller, beside the pod webhook.
ControllerKnows == TypeOK /\ IInv /\ ReadyMeansUsable /\ NothingForgotten /\ VersionsKnown /\ AllAdmitted
                     /\ CurrentIsExact

\* It holds there too.
LEMMA KnownInside == ShepherdSpec => []ControllerKnows
  BY ControllerInside, TypeCorrect, Inductive, ReadyIsUsable, NoneForgotten, KnownAlways, AdmittedAlways,
     GenerationsSuffice, PTL DEF ControllerKnows

\* Each template of spec parses and uses only keys that ExtractTemplateKeysRegex
\* finds in it.
WellWritten(spec) ==
    spec.dnsConfig # Nil => \A entry \in spec.dnsConfig.searches : entry.parses /\ entry.uses \subseteq entry.keys

\* If users write their templates so that the regular expression reads them, the
\* controller and the webhook agree: what is Ready for its present spec can be
\* used for every pod it selects (Reconcile and configureDNSForPod).
THEOREM ReadyConfigures ==
    ASSUME \A request \in Requests : WellWritten(request)
    PROVE  ShepherdSpec => []ReadyClassConfigures
<1>1. ControllerKnows => ReadyClassConfigures
  <2> SUFFICES ASSUME ControllerKnows, NEW c \in Classes, cache[c] # Nil, cache[c] = api[c],
                      cache[c].status.state = StateReady, Current(c),
                      NEW pod \in PodRequests, cache[c].spec.dnsPolicy = "None"
               PROVE  /\ ~Panics(cache[c])
                      /\ \A entry \in Entries(cache[c]) :
                           Renders(entry, parameterMap(pod, cache[c].status.discovered))
    BY DEF ReadyClassConfigures
  <2> DEFINE spec == cache[c].spec
             discovered == cache[c].status.discovered
  <2>1. spec = basis[c].spec /\ spec \in AdmittedSpecs
    BY DEF ControllerKnows, CurrentIsExact, AllAdmitted
  <2>2. discovered # Nil
        /\ ("clusterDomain" \in ExtractTemplateKeysRegex(spec) => discovered.clusterDomain # Nil)
    BY <2>1 DEF ControllerKnows, ReadyMeansUsable, Supports
  <2>3. PICK request \in Requests : spec = Default(request) /\ Valid(spec)
    BY <2>1 DEF AdmittedSpecs, Admitted
  <2>4. request \in DNSClassSpec /\ spec.dnsConfig = request.dnsConfig
    BY <2>3, ConstantsAssumption DEF Default, DNSClassSpec
  <2>5. ASSUME NEW entry \in Entries(cache[c])
        PROVE  Renders(entry, parameterMap(pod, discovered))
    <3>1. spec.dnsConfig # Nil /\ entry \in spec.dnsConfig.searches
      BY DEF Entries
    <3>2. entry.parses /\ entry.uses \subseteq entry.keys
      BY <2>4, <3>1 DEF WellWritten
    <3>3. entry.keys \subseteq ExtractTemplateKeysRegex(spec)
      BY <3>1 DEF ExtractTemplateKeysRegex
    <3>4. ExtractTemplateKeysRegex(spec) \subseteq {"podNamespace", "clusterDomain"}
      BY <2>3 DEF Valid, ValidTemplateKeys
    <3>5. DOMAIN parameterMap(pod, discovered) =
            {"podNamespace"} \cup (IF discovered.clusterDomain = Nil THEN {} ELSE {"clusterDomain"})
      BY DEF parameterMap
    <3>6. entry.uses \subseteq DOMAIN parameterMap(pod, discovered)
      <4> HIDE DEF discovered, spec
      <4> QED
        BY <2>2, <3>2, <3>3, <3>4, <3>5
    <3> QED
      BY <3>2, <3>6 DEF Renders
  <2> QED
    BY <2>2, <2>5 DEF Panics
<1> QED
  BY <1>1, KnownInside, PTL

\* Only a class that makes configureDNSForPod panic refuses a pod.
LEMMA OnlyPanicsDeny ==
    ASSUME NEW pod, NEW classes \in [Classes -> Objects \cup {Nil}],
           NEW response \in Handle(pod, classes), ~response.allowed
    PROVE  \E c \in Classes :
             classes[c] # Nil /\ Panics(classes[c]) /\ classes[c].status.state = StateReady
<1>1. response # Unpatched(pod)
  BY DEF Unpatched
<1>2. PICK c \in getDNSClass(classes, pod) : response = Answer(pod, c, classes[c])
  BY <1>1 DEF Handle
<1>3. c \in Classes /\ classes[c] # Nil
  BY <1>2 DEF getDNSClass
<1>4. Panics(classes[c]) /\ classes[c].status.state = StateReady
  <2> DEFINE patched == [allowed |-> TRUE, pod |-> configureDNSForPod(pod, c, classes[c])]
  <2>1. Unpatched(pod).allowed /\ patched.allowed
    BY DEF Unpatched
  <2>2. response = IF classes[c].status.state # StateReady THEN Unpatched(pod)
                   ELSE IF Panics(classes[c]) THEN Denied(pod)
                   ELSE IF ConfigFails(pod, classes[c]) THEN Unpatched(pod)
                   ELSE patched
    BY <1>2 DEF Answer
  <2> HIDE DEF patched
  <2> QED
    BY <2>1, <2>2
<1> QED
  BY <1>3, <1>4

\* A pod is denied only while some class is still to be brought up to date, or
\* its status or wake-up was dropped: the controller mends what makes the
\* webhook panic (pods_webhook.go:145).
THEOREM DenialsEnd == ShepherdSpec => DenialIsTransient
<1>1. ControllerKnows /\ [ShepherdNext]_<<vars, podVars>> =>
        [\A p \in PodNames :
           Became(p, "denied") =>
             \E c \in Classes :
               /\ cache[c] # Nil /\ Panics(cache[c]) /\ cache[c].status.state = StateReady
               /\ ~Quiet(c) \/ lost[c] # {}]_<<vars, podVars>>
  <2> SUFFICES ASSUME ControllerKnows, ShepherdNext, NEW p \in PodNames, Became(p, "denied")
               PROVE  \E c \in Classes :
                        /\ cache[c] # Nil /\ Panics(cache[c]) /\ cache[c].status.state = StateReady
                        /\ ~Quiet(c) \/ lost[c] # {}
    OBVIOUS
  <2>1. podEdits' # podEdits /\ outcome'.became = "denied"
    BY DEF Became
  <2>2. PICK q \in PodNames : CreatePod(q) \/ UpdatePod(q)
    BY <2>1 DEF ShepherdNext, DeletePod, podVars
  <2>3. ASSUME NEW pod, NEW response, StorePod(q, response, pod) PROVE FALSE
    BY <2>1, <2>3 DEF StorePod
  <2>4. ~Refuse(q, "invalid") /\ ~Refuse(q, "immutable")
    BY <2>1 DEF Refuse
  <2>5. \E pod : \E response \in Handle(pod, cache) : ~response.allowed
    BY <2>2, <2>3, <2>4 DEF CreatePod, UpdatePod
  <2>6. PICK c \in Classes : cache[c] # Nil /\ Panics(cache[c]) /\ cache[c].status.state = StateReady
    BY <2>5, OnlyPanicsDeny DEF ControllerKnows, TypeOK
  <2>7. ASSUME Quiet(c), lost[c] = {} PROVE FALSE
    <3>1. api[c] = cache[c]
      BY <2>7 DEF ControllerKnows, IInv, TipIsStored, Quiet
    <3>2. basis[c].spec = cache[c].spec
      BY <2>6, <2>7, <3>1 DEF ControllerKnows, NothingForgotten, CurrentIsExact
    <3>3. Supports(cache[c].status, cache[c].spec)
      BY <2>6, <3>1, <3>2 DEF ControllerKnows, ReadyMeansUsable
    <3> QED
      BY <2>6, <3>3 DEF Panics, Supports
  <2> QED
    BY <2>6, <2>7
<1> QED
  BY <1>1, KnownInside, PTL DEF ShepherdSpec, DenialIsTransient

-----------------------------------------------------------------------------
\* A valid pod is made invalid only by a Ready class with policy None whose list
\* of nameservers is there and empty.
LEMMA OnlyEmptyListsSpoil ==
    ASSUME NEW pod \in Pods(Classes), NEW classes \in [Classes -> Objects \cup {Nil}],
           NEW response \in Handle(pod, classes),
           PodValid(pod), ~PodValid(response.pod)
    PROVE  \E c \in Classes :
             /\ classes[c] # Nil /\ classes[c].status.state = StateReady
             /\ classes[c].spec.dnsPolicy = "None" /\ ChosenNameservers(classes[c]) = {}
<1>1. PICK c \in getDNSClass(classes, pod) : response = Answer(pod, c, classes[c])
  BY DEF Handle, Unpatched
<1>2. c \in Classes /\ classes[c] \in Objects /\ classes[c] # Nil
  BY <1>1 DEF getDNSClass
<1>3. /\ classes[c].status.state = StateReady
      /\ ~Panics(classes[c]) /\ ~ConfigFails(pod, classes[c])
      /\ response.pod = configureDNSForPod(pod, c, classes[c])
  BY <1>1 DEF Answer, Unpatched, Denied
<1>4. WholeFor(response.pod, classes[c])
  BY <1>2, <1>3, Configured
<1>5. response.pod.dnsPolicy = "None" /\ classes[c].spec.dnsPolicy = "None"
  BY <1>4 DEF PodValid, WholeFor
<1>6. response.pod.dnsConfig # Nil /\ response.pod.dnsConfig.nameservers = ChosenNameservers(classes[c])
  <2>1. response.pod.dnsConfig.nameservers = ChosenNameservers(classes[c])
    BY <1>3, <1>5 DEF configureDNSForPod, Pods
  <2> QED
    BY <1>4, <1>5, <2>1 DEF WholeFor
<1>7. ChosenNameservers(classes[c]) # Nil
  BY <1>3, <1>5 DEF ConfigFails
<1> QED
  BY <1>2, <1>3, <1>5, <1>6, <1>7 DEF PodValid

\* The API server refuses what the webhook made of a pod only for an empty list
\* of nameservers (pods_webhook.go:172-178).
THEOREM InvalidIsEmpty == ShepherdSpec => InvalidIsAnEmptyList
<1>1. ControllerKnows /\ [ShepherdNext]_<<vars, podVars>> =>
        [\A p \in PodNames :
           Became(p, "invalid") =>
             \E c \in Classes :
               /\ cache[c] # Nil /\ cache[c].status.state = StateReady
               /\ cache[c].spec.dnsPolicy = "None" /\ ChosenNameservers(cache[c]) = {}]_<<vars, podVars>>
  <2> SUFFICES ASSUME ControllerKnows, ShepherdNext, NEW p \in PodNames, Became(p, "invalid")
               PROVE  \E c \in Classes :
                        /\ cache[c] # Nil /\ cache[c].status.state = StateReady
                        /\ cache[c].spec.dnsPolicy = "None" /\ ChosenNameservers(cache[c]) = {}
    OBVIOUS
  <2>1. podEdits' # podEdits /\ outcome'.became = "invalid"
    BY DEF Became
  <2>2. ASSUME NEW q, NEW pod, NEW response, StorePod(q, response, pod) PROVE FALSE
    BY <2>1, <2>2 DEF StorePod
  <2>3. \A q : ~Refuse(q, "denied") /\ ~Refuse(q, "immutable")
    BY <2>1 DEF Refuse
  <2>4. PICK q \in PodNames : CreatePod(q)
    BY <2>1, <2>2, <2>3 DEF ShepherdNext, UpdatePod, DeletePod, podVars
  <2>5. PICK pod \in PodRequests : \E response \in Handle(pod, cache) :
          PodValid(pod) /\ ~PodValid(response.pod)
    BY <2>2, <2>3, <2>4 DEF CreatePod
  <2>6. pod \in Pods(Classes)
    BY PodAssumption
  <2> QED
    BY <2>5, <2>6, OnlyEmptyListsSpoil DEF ControllerKnows, TypeOK
<1> QED
  BY <1>1, KnownInside, PTL DEF ShepherdSpec, InvalidIsAnEmptyList

-----------------------------------------------------------------------------
\* Classes that look the same to the webhook give a pod the same config.
LEMMA SameView ==
    ASSUME NEW x \in Objects, NEW y \in Objects \cup {Nil}, x # Nil, View(x) = View(y)
    PROVE  /\ y # Nil /\ y.spec = x.spec
           /\ \A namespace : ConfigFor(namespace, y) = ConfigFor(namespace, x)
<1>1. View(x) = [spec |-> x.spec, state |-> x.status.state, discovered |-> x.status.discovered]
  BY DEF View
<1>2. View(x) \in [spec : DNSClassSpec, state : States, discovered : DiscoveredFields \cup {Nil}]
  BY <1>1 DEF Objects, DNSClassStatus
<1>3. y # Nil
  BY <1>2, PodAssumption DEF View
<1>4. View(y) = [spec |-> y.spec, state |-> y.status.state, discovered |-> y.status.discovered]
  BY <1>3 DEF View
<1>5. y.spec = x.spec /\ y.status.discovered = x.status.discovered
  <2>1. View(x).spec = x.spec /\ View(x).discovered = x.status.discovered
    BY <1>1
  <2>2. View(y).spec = y.spec /\ View(y).discovered = y.status.discovered
    BY <1>4
  <2> QED
    BY <2>1, <2>2
<1>6. ChosenNameservers(y) = ChosenNameservers(x) /\ Entries(y) = Entries(x)
  BY <1>5 DEF ChosenNameservers, Entries
<1> QED
  BY <1>3, <1>5, <1>6 DEF ConfigFor

\* A pod that a class had patched comes out of the next update as it was, while
\* the webhook reads the same classes and no two are for its namespace: its
\* class patches it as before, and no other does (Handle, configureDNSForPod).
THEOREM PatchesAreStable == ShepherdSpec => PatchIsStable
<1>1. ControllerKnows /\ PodInv /\ [ShepherdNext]_<<vars, podVars>> =>
        [\A p \in PodNames :
           Became(p, "immutable") /\ pods[p].class # Nil =>
             \/ Overlap(pods[p].namespace)
             \/ \E c \in Classes : View(seen[p][c]) # View(cache[c])]_<<vars, podVars>>
  <2> SUFFICES ASSUME ControllerKnows, PodInv, ShepherdNext, NEW p \in PodNames,
                      Became(p, "immutable"), pods[p].class # Nil,
                      \A c \in Classes : View(seen[p][c]) = View(cache[c])
               PROVE  Overlap(pods[p].namespace)
    OBVIOUS
  <2> DEFINE pod == pods[p]
             d   == pod.class
  <2>1. podEdits' # podEdits /\ outcome'.became = "immutable" /\ outcome'.pod = p
    BY DEF Became
  <2>2. ASSUME NEW q, NEW old, NEW response, StorePod(q, response, old) PROVE FALSE
    BY <2>1, <2>2 DEF StorePod
  <2>3. ASSUME NEW q, Refuse(q, "denied") \/ Refuse(q, "invalid") PROVE FALSE
    BY <2>1, <2>3 DEF Refuse
  <2>4. PICK q \in PodNames : UpdatePod(q)
    BY <2>1, <2>2, <2>3 DEF ShepherdNext, CreatePod, DeletePod, podVars
  <2>5. PICK response \in Handle(pods[q], cache) :
          ~SameDNS(response.pod, pods[q]) /\ Refuse(q, "immutable")
    BY <2>2, <2>3, <2>4 DEF UpdatePod
  <2>6. q = p /\ pod # Nil
    BY <2>1, <2>4, <2>5 DEF Refuse, UpdatePod
  <2>7. /\ pod \in Pods(Classes) /\ cache \in [Classes -> Objects \cup {Nil}]
        /\ seen[p] \in [Classes -> Objects \cup {Nil}] \cup {Nil}
        /\ asked[p] \in PodRequests \cup {Nil}
    BY <2>6 DEF ControllerKnows, TypeOK, PodInv, ShepherdTypeOK
  <2>8. seen[p] # Nil /\ PatchedBy(pod, seen[p])
    BY <2>6, <2>7, PodAssumption DEF PodInv, PodExplained
  <2>9. /\ d \in Classes /\ seen[p][d] \in Objects /\ seen[p][d] # Nil
        /\ Covers(seen[p][d].spec, pod.namespace) /\ WholeFor(pod, seen[p][d])
    BY <2>7, <2>8 DEF PatchedBy
  <2>10. /\ cache[d] # Nil /\ cache[d].spec = seen[p][d].spec
         /\ \A namespace : ConfigFor(namespace, cache[d]) = ConfigFor(namespace, seen[p][d])
    BY <2>7, <2>9, SameView
  <2>11. PICK c \in getDNSClass(cache, pod) : response = Answer(pod, c, cache[c])
    BY <2>5, <2>6 DEF Handle, Unpatched, SameDNS
  <2>12. c \in Classes /\ cache[c] \in Objects /\ cache[c] # Nil /\ Covers(cache[c].spec, pod.namespace)
    BY <2>7, <2>11 DEF getDNSClass, Selects, Covers
  <2>13. CASE c # d
    BY <2>9, <2>10, <2>12, <2>13 DEF Overlap
  <2>14. CASE c = d
    <3>1. /\ ~Panics(cache[d]) /\ ~ConfigFails(pod, cache[d])
          /\ response.pod = configureDNSForPod(pod, d, cache[d])
      BY <2>5, <2>6, <2>11, <2>14 DEF Answer, Unpatched, Denied, SameDNS
    <3>2. WholeFor(response.pod, cache[d])
      BY <2>7, <2>12, <2>14, <3>1, Configured
    <3>3. /\ response.pod.namespace = pod.namespace
          /\ cache[d].spec.dnsPolicy # "None" => response.pod.dnsConfig = pod.dnsConfig
      BY <2>7, <3>1 DEF configureDNSForPod, Pods
    <3>4. SameDNS(response.pod, pod)
      BY <2>9, <2>10, <3>2, <3>3 DEF WholeFor, SameDNS
    <3> QED
      BY <2>5, <2>6, <3>4
  <2> QED
    BY <2>13, <2>14
<1> QED
  BY <1>1, KnownInside, PodsExplained, PTL DEF ShepherdSpec, PatchIsStable
================================================================================
