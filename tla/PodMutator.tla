------------------------------ MODULE PodMutator ------------------------------
(***************************************************************************)
(* The pod webhook: which DNSClass it picks for a pod, what it makes of    *)
(* the pod's DNS settings, and how it answers the API server.              *)
(*                                                                         *)
(* It is a function of the pod and of the classes in the manager's cache,  *)
(* except for the order in which the cache lists the classes.              *)
(***************************************************************************)
EXTENDS DNSClassAPI

\* A search list as a pod has it: each entry with the values put into it.
Searches == [entry  : SearchEntries,
             values : UNION {[keys -> Namespaces \cup Domains] : keys \in SUBSET TemplateKeys}]

PodDNSConfigs == [nameservers : NSLists \cup {Nil}, searches : SUBSET Searches]

\* What matters of a pod; class is the annotation dns-class-name.
Pods(names) == [namespace : Namespaces,
                dnsPolicy : Policies,
                dnsConfig : PodDNSConfigs \cup {Nil},
                class     : names \cup {Nil}]

\* The answer to an admission request: the pod with the patch applied.
Responses(names) == [allowed : BOOLEAN, pod : Pods(names)]

Unpatched(pod) == [allowed |-> TRUE, pod |-> pod]
Denied(pod)    == [allowed |-> FALSE, pod |-> pod]

-----------------------------------------------------------------------------
\* Mutant: the disabled namespaces are not skipped.
SelectsDisabled(spec, pod) ==
    /\ spec.allowedDNSPolicies # Nil /\ pod.dnsPolicy \in spec.allowedDNSPolicies
    /\ spec.allowedNamespaces = {} \/ pod.namespace \in spec.allowedNamespaces

\* Mutant: the allowed namespaces are not looked at.
SelectsAnywhere(spec, pod) ==
    /\ pod.namespace \notin spec.disabledNamespaces
    /\ spec.allowedDNSPolicies # Nil /\ pod.dnsPolicy \in spec.allowedDNSPolicies

\* getDNSClass: spec is for this pod.
Selects(spec, pod) ==
    /\ pod.namespace \notin spec.disabledNamespaces
    /\ spec.allowedDNSPolicies # Nil /\ pod.dnsPolicy \in spec.allowedDNSPolicies
    /\ spec.allowedNamespaces = {} \/ pod.namespace \in spec.allowedNamespaces

\* The classes getDNSClass may return.  It takes the first that selects the
\* pod, and the cache lists its objects in no fixed order.
getDNSClass(classes, pod) ==
    {c \in DOMAIN classes : classes[c] # Nil /\ Selects(classes[c].spec, pod)}

\* What the templates of a class may name, for one pod.
parameterMap(pod, discovered) ==
    [key \in {"podNamespace"} \cup (IF discovered.clusterDomain = Nil THEN {} ELSE {"clusterDomain"})
       |-> IF key = "podNamespace" THEN pod.namespace ELSE discovered.clusterDomain]

\* The template parses, and with missingkey=error every key has a value.
Renders(entry, parameters) == entry.parses /\ entry.uses \subseteq DOMAIN parameters

Rendered(entry, parameters) ==
    [entry |-> entry, values |-> [key \in entry.uses |-> parameters[key]]]

\* configureDNSForPod reads DiscoveredFields of a class with policy None: a nil
\* pointer when nothing was ever discovered for the class.
Panics(class) == class.spec.dnsPolicy = "None" /\ class.status.discovered = Nil

\* The DNS settings of a class with policy None that did not panic.
Entries(class) == IF class.spec.dnsConfig = Nil THEN {} ELSE class.spec.dnsConfig.searches

ChosenNameservers(class) ==
    IF class.spec.dnsConfig # Nil /\ class.spec.dnsConfig.nameservers # Nil
      THEN class.spec.dnsConfig.nameservers
      ELSE class.status.discovered.nameservers

\* Mutant: that there is no list of nameservers is not noticed.
ConfigFailsOnTemplates(pod, class) ==
    /\ class.spec.dnsPolicy = "None"
    /\ \E entry \in Entries(class) :
         ~Renders(entry, parameterMap(pod, class.status.discovered))

\* configureDNSForPod returns an error: a template fails, or there is no list
\* of nameservers.
ConfigFails(pod, class) ==
    /\ class.spec.dnsPolicy = "None"
    /\ \/ ChosenNameservers(class) = Nil
       \/ \E entry \in Entries(class) :
            ~Renders(entry, parameterMap(pod, class.status.discovered))

\* Mutant: the annotation is given the policy for its value.
configureDNSForPodMislabels(pod, name, class) ==
    [pod EXCEPT !.dnsPolicy = class.spec.dnsPolicy, !.class = class.spec.dnsPolicy]

\* The pod configureDNSForPod leaves when it returns no error, annotated.
configureDNSForPod(pod, name, class) ==
    LET config == [nameservers |-> ChosenNameservers(class),
                   searches    |-> {Rendered(entry, parameterMap(pod, class.status.discovered)) :
                                      entry \in Entries(class)}]
    IN [pod EXCEPT !.dnsPolicy = class.spec.dnsPolicy,
                   !.dnsConfig = IF class.spec.dnsPolicy = "None" THEN config ELSE @,
                   !.class     = name]

\* Mutant: the state of the class is not checked.
AnswerInAnyState(pod, name, class) ==
    IF Panics(class) THEN Denied(pod)
    ELSE IF ConfigFails(pod, class) THEN Unpatched(pod)
    ELSE [allowed |-> TRUE, pod |-> configureDNSForPod(pod, name, class)]

\* The answer when getDNSClass returned the class of this name.  A panic in the
\* handler is recovered by the webhook server, which answers with an error: a
\* refusal, since failurePolicy=ignore is about calls that do not come back.
Answer(pod, name, class) ==
    IF class.status.state # StateReady THEN Unpatched(pod)
    ELSE IF Panics(class) THEN Denied(pod)
    ELSE IF ConfigFails(pod, class) THEN Unpatched(pod)
    ELSE [allowed |-> TRUE, pod |-> configureDNSForPod(pod, name, class)]

\* Handle: no class, one of the classes, or an error of decoding, listing or
\* marshalling, after which the pod passes as it is.
Handle(pod, classes) ==
    {Unpatched(pod)} \cup {Answer(pod, c, classes[c]) : c \in getDNSClass(classes, pod)}
===============================================================================
