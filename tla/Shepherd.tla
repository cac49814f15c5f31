------------------------------- MODULE Shepherd -------------------------------
(***************************************************************************)
(* The manager as a whole: the DNSClass controller and the pod webhook     *)
(* share one cache, and pods are admitted while classes come, change, are  *)
(* reconciled and go.                                                      *)
(***************************************************************************)
EXTENDS DNSClassControllerProps, PodMutator

CONSTANTS PodNames,     \* names of pods
          PodRequests,  \* the pods users submit
          MaxPodEdits   \* bound: how many requests about pods are made

VARIABLES
    pods,     \* the stored pods, Nil when there is none
    podEdits, \* requests about pods still to come
    outcome,  \* the last request about a pod: which pod, and what became of it
    asked,    \* history: the pod as it was submitted
    seen      \* history: the cache when the webhook last patched the pod

podVars == <<pods, podEdits, outcome, asked, seen>>

Outcomes == [pod : PodNames, became : {"stored", "denied", "invalid", "immutable"}]

ASSUME PodAssumption ==
    /\ PodRequests \subseteq {pod \in Pods(Classes) : pod.class = Nil}
    /\ Nil \notin Pods(Classes) /\ Nil \notin Classes /\ Nil \notin Namespaces
    /\ Nil \notin PodDNSConfigs /\ Nil \notin [Classes -> Objects \cup {Nil}]
    /\ Nil \notin [spec : DNSClassSpec, state : States, discovered : DiscoveredFields \cup {Nil}]
    /\ MaxPodEdits \in Nat

ShepherdTypeOK ==
    /\ pods \in [PodNames -> Pods(Classes) \cup {Nil}]
    /\ podEdits \in 0..MaxPodEdits
    /\ outcome \in Outcomes \cup {Nil}
    /\ asked \in [PodNames -> PodRequests \cup {Nil}]
    /\ seen \in [PodNames -> [Classes -> Objects \cup {Nil}] \cup {Nil}]

ShepherdInit ==
    /\ Init
    /\ pods = [p \in PodNames |-> Nil]
    /\ podEdits = MaxPodEdits
    /\ outcome = Nil
    /\ asked = [p \in PodNames |-> Nil]
    /\ seen = [p \in PodNames |-> Nil]

-----------------------------------------------------------------------------
\* What the API server demands of the DNS settings of a pod.
PodValid(pod) ==
    pod.dnsPolicy = "None" => pod.dnsConfig # Nil /\ pod.dnsConfig.nameservers \notin {Nil, {}}

\* What it does not let an update change.
SameDNS(x, y) == x.dnsPolicy = y.dnsPolicy /\ x.dnsConfig = y.dnsConfig

\* The API server stores the pod as answered; old is the pod as it came.
StorePod(p, response, old) ==
    /\ outcome' = [pod |-> p, became |-> "stored"]
    /\ pods' = [pods EXCEPT ![p] = response.pod]
    /\ seen' = [seen EXCEPT ![p] = IF response.pod = old THEN @ ELSE cache]

Refuse(p, why) == outcome' = [pod |-> p, became |-> why] /\ UNCHANGED <<pods, asked, seen>>

\* The API server admits a new pod; a webhook it cannot reach counts as one
\* that answers without a patch.
CreatePod(p) ==
    /\ pods[p] = Nil /\ podEdits > 0
    /\ podEdits' = podEdits - 1
    /\ \E request \in {r \in PodRequests : PodValid(r)} : \E response \in Handle(request, cache) :
         \/ ~response.allowed /\ Refuse(p, "denied")
         \/ response.allowed /\ ~PodValid(response.pod) /\ Refuse(p, "invalid")
         \/ /\ response.allowed /\ PodValid(response.pod)
            /\ StorePod(p, response, request)
            /\ asked' = [asked EXCEPT ![p] = request]
    /\ UNCHANGED vars

\* An update that has nothing to do with DNS: a label, an owner, a finalizer.
\* The webhook sees it too.
UpdatePod(p) ==
    /\ pods[p] # Nil /\ podEdits > 0
    /\ podEdits' = podEdits - 1
    /\ \E response \in Handle(pods[p], cache) :
         \/ ~response.allowed /\ Refuse(p, "denied")
         \/ response.allowed /\ ~SameDNS(response.pod, pods[p]) /\ Refuse(p, "immutable")
         \/ /\ response.allowed /\ SameDNS(response.pod, pods[p])
            /\ StorePod(p, response, pods[p])
            /\ UNCHANGED asked
    /\ UNCHANGED vars

DeletePod(p) ==
    /\ pods[p] # Nil
    /\ pods' = [pods EXCEPT ![p] = Nil]
    /\ asked' = [asked EXCEPT ![p] = Nil]
    /\ seen' = [seen EXCEPT ![p] = Nil]
    /\ UNCHANGED <<vars, podEdits, outcome>>

ShepherdNext ==
    \/ Next /\ UNCHANGED podVars
    \/ \E p \in PodNames : CreatePod(p) \/ UpdatePod(p) \/ DeletePod(p)

ShepherdSpec == ShepherdInit /\ [][ShepherdNext]_<<vars, podVars>>
===============================================================================
