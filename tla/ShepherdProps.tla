---------------------------- MODULE ShepherdProps ----------------------------
(***************************************************************************)
(* What the manager promises to pods, across controller, cache and webhook.*)
(***************************************************************************)
EXTENDS Shepherd

\* In this step the last request about pod p became what.
Became(p, what) == podEdits' # podEdits /\ outcome' = [pod |-> p, became |-> what]

\* What the webhook reads of a class.
View(class) == IF class = Nil THEN Nil
               ELSE [spec |-> class.spec, state |-> class.status.state,
                     discovered |-> class.status.discovered]

Covers(spec, namespace) ==
    /\ namespace \notin spec.disabledNamespaces
    /\ spec.allowedNamespaces = {} \/ namespace \in spec.allowedNamespaces

\* Two cached classes are for one namespace: "a Pod must have one unambiguous
\* cluster DNS policy", docs/dns-query-amplification.md:157-158.
Overlap(namespace) ==
    \E c, d \in Classes :
      /\ c # d /\ cache[c] # Nil /\ cache[d] # Nil
      /\ Covers(cache[c].spec, namespace) /\ Covers(cache[d].spec, namespace)

-----------------------------------------------------------------------------
\* Handle and configureDNSForPod, pods_webhook.go:53-100, 134-185.  A stored
\* pod is as it was submitted, or it is whole: annotated with a class that was
\* Ready and is for its namespace, and with policy None it has nameservers and
\* each entry of the class, every key of it replaced by a value.
PodsAreWhole ==
    \A p \in PodNames :
      pods[p] # Nil =>
        LET pod == pods[p]
        IN \/ pod = asked[p]
           \/ /\ pod.class # Nil /\ seen[p] # Nil
              /\ LET class == seen[p][pod.class]
                 IN /\ class # Nil /\ class.status.state = StateReady
                    /\ Covers(class.spec, pod.namespace)
                    /\ pod.dnsPolicy = class.spec.dnsPolicy
                    /\ pod.dnsPolicy = "None" =>
                         /\ pod.dnsConfig.nameservers \notin {Nil, {}}
                         /\ {s.entry : s \in pod.dnsConfig.searches} = Entries(class)
                         /\ \A s \in pod.dnsConfig.searches :
                              /\ DOMAIN s.values = s.entry.uses
                              /\ \A key \in DOMAIN s.values : s.values[key] # Nil

\* Handle on an update, pods_webhook.go:51, 102-132.  The webhook patches a pod
\* again with each update, and a pod it patched before comes out the same as
\* long as the classes it reads are the same, if no two are for the namespace.
PatchIsStable ==
    [][\A p \in PodNames :
         Became(p, "immutable") /\ pods[p].class # Nil =>
           \/ Overlap(pods[p].namespace)
           \/ \E c \in Classes : View(seen[p][c]) # View(cache[c])]_<<vars, podVars>>

\* Reconcile against configureDNSForPod, dnsclass_controller.go:101-126 and
\* pods_webhook.go:144-167.  What the controller calls Ready for the spec the
\* class has now, the webhook can use: no nil DiscoveredFields, no template that
\* fails for a pod the class selects.
ReadyClassConfigures ==
    \A c \in Classes :
      cache[c] # Nil /\ cache[c] = api[c] /\ cache[c].status.state = StateReady /\ Current(c) =>
        \A pod \in PodRequests :
          Selects(cache[c].spec, pod) /\ cache[c].spec.dnsPolicy = "None" =>
            /\ ~Panics(cache[c])
            /\ \A entry \in Entries(cache[c]) :
                 Renders(entry, parameterMap(pod, cache[c].status.discovered))

\* The window of pods_webhook.go:145.  A pod is denied only while the status of
\* a class lags behind its spec: some event, queue entry, backoff or worker is
\* still to bring it up to date, or its status or wake-up was dropped.
DenialIsTransient ==
    [][\A p \in PodNames :
         Became(p, "denied") =>
           \E c \in Classes :
             /\ cache[c] # Nil /\ Panics(cache[c]) /\ cache[c].status.state = StateReady
             /\ ~Quiet(c) \/ lost[c] # {}]_<<vars, podVars>>

\* configureDNSForPod, pods_webhook.go:172-178, and what was discovered for the
\* class by then, dnsclass_controller.go:186-191.  Where the class brings no
\* nameservers and none were discovered, the pod passes as it came.  The API
\* server refuses a patched pod only for a list of nameservers that is there and
\* empty, which nothing replaces (README.md:85 speaks of lists not defined).
InvalidIsAnEmptyList ==
    [][\A p \in PodNames :
         Became(p, "invalid") =>
           \E c \in Classes :
             /\ cache[c] # Nil /\ cache[c].status.state = StateReady
             /\ cache[c].spec.dnsPolicy = "None" /\ ChosenNameservers(cache[c]) = {}]_<<vars, podVars>>

-----------------------------------------------------------------------------
\* pods_webhook.go:144, "Add clusterDomain if it exists": a pod is not refused
\* because there is no cluster domain.
MissingDomainIsHandled == outcome # Nil => outcome.became # "denied"

\* docs/dns-query-amplification.md:145, "Existing Pods do not change in place":
\* an update that leaves a pod's DNS alone is not turned into one that changes it.
ExistingPodsAreLeftAlone == outcome # Nil => outcome.became # "immutable"
==============================================================================
