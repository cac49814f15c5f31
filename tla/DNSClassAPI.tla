---------------------------- MODULE DNSClassAPI ----------------------------
(***************************************************************************)
(* The DNSClass custom resource: the values of its spec and status, the    *)
(* template keys a spec names, and what admission (the defaulting and the  *)
(* validating webhook) does to a spec before the API server stores it.     *)
(*                                                                         *)
(* A search entry is a Go template.  Two readers look into it and do not   *)
(* agree, so it is the record of what each of them sees:                   *)
(*   keys   the keys the regular expression of ExtractTemplateKeysRegex    *)
(*          finds, e.g. {"clusterDomain"} for "svc.{{ .clusterDomain }}"   *)
(*          and {} for "svc.{{- .clusterDomain }}"                         *)
(*   uses   the keys text/template reads when the entry is executed        *)
(*   parses whether text/template parses the entry                         *)
(***************************************************************************)

CONSTANTS Nil,          \* Go's nil, a missing map key, an absent object
          Namespaces,   \* pod namespaces
          Domains,      \* cluster domains a kubelet may be configured with
          Nameservers   \* addresses of DNS servers

StateInit  == "initializing"
StateReady == "ready"
StateError == "error"

\* status.state; "" is a status nobody has written
States == {"", StateInit, StateReady, StateError}

\* Condition types: updateStatus names each condition after a state.
ConditionTypes == {StateInit, StateReady, StateError}

ValidDNSPolicies   == {"Default", "ClusterFirst", "ClusterFirstWithHostNet", "None"}
DefaultDNSPolicies == {"ClusterFirst", "ClusterFirstWithHostNet", "None"}
ValidTemplateKeys  == {"podNamespace", "clusterDomain"}

\* The two fields discoverFields looks for; one more key a user may misspell.
FieldNames   == {"clusterDomain", "nameservers"}
TemplateKeys == ValidTemplateKeys \cup FieldNames \cup {"otherKey"}

SearchEntries == [keys : SUBSET TemplateKeys, uses : SUBSET TemplateKeys, parses : BOOLEAN]

\* A list of nameservers is kept as a set: {} is a list sent empty, Nil one
\* that was left out.
NSLists == SUBSET Nameservers

DNSConfigs == [nameservers : NSLists \cup {Nil}, searches : SUBSET SearchEntries]

\* A policy as a user may write it: "" is left out, "Bogus" is misspelled.
Policies == ValidDNSPolicies \cup {"", "Bogus"}

DNSClassSpec == [allowedNamespaces  : SUBSET Namespaces,
                 disabledNamespaces : SUBSET Namespaces,
                 allowedDNSPolicies : (SUBSET Policies) \cup {Nil},
                 dnsPolicy          : Policies,
                 dnsConfig          : DNSConfigs \cup {Nil}]

DiscoveredFields == [clusterDomain : Domains \cup {Nil}, nameservers : NSLists \cup {Nil}]

NoFields == [clusterDomain |-> Nil, nameservers |-> Nil]

\* A condition is kept by its message, and a message by the undiscovered
\* fields it names; Nil is a condition that is not in the list.
Conditions == [ConditionTypes -> (SUBSET FieldNames) \cup {Nil}]

DNSClassStatus == [state      : States,
                   conditions : Conditions,
                   discovered : DiscoveredFields \cup {Nil}]

NoStatus == [state      |-> "",
             conditions |-> [t \in ConditionTypes |-> Nil],
             discovered |-> Nil]

-----------------------------------------------------------------------------
\* The template keys of a spec, as the regular expression sees them.
ExtractTemplateKeysRegex(spec) ==
    IF spec.dnsConfig = Nil THEN {} ELSE UNION {s.keys : s \in spec.dnsConfig.searches}

\* The defaulting webhook.
Default(spec) ==
    [spec EXCEPT !.allowedDNSPolicies = IF @ = Nil THEN DefaultDNSPolicies ELSE @,
                 !.dnsPolicy          = IF @ = "" THEN "None" ELSE @]

\* The validating webhook accepts spec.
Valid(spec) ==
    /\ spec.allowedDNSPolicies # Nil => spec.allowedDNSPolicies \subseteq ValidDNSPolicies
    /\ spec.dnsPolicy \in ValidDNSPolicies
    /\ spec.dnsPolicy # "None" => spec.dnsConfig = Nil
    /\ ExtractTemplateKeysRegex(spec) \subseteq ValidTemplateKeys

\* A request is admitted when its defaulted spec is valid: defaulting runs first.
Admitted(request) == Valid(Default(request))

-----------------------------------------------------------------------------
\* What status may say of a spec it was computed from.  The pod webhook reads
\* DiscoveredFields of a ready class with policy None without a nil check, and
\* executes templates that need a value for each of their keys.
Supports(status, spec) ==
    spec.dnsPolicy = "None" =>
       /\ status.discovered # Nil
       /\ "clusterDomain" \in ExtractTemplateKeysRegex(spec) => status.discovered.clusterDomain # Nil

\* No condition was ever written under "initializing".
Clean(status) == status.conditions[StateInit] = Nil

\* What status may say when it was computed from the object of b.
Explained(status, b) ==
    /\ Clean(status) /\ status.state # StateInit
    /\ status.state = "" => status = NoStatus
    /\ status.state # "" => status.conditions[status.state] # Nil
    /\ status.state = StateError =>
         /\ b.spec.dnsPolicy = "None"
         /\ ExtractTemplateKeysRegex(b.spec) \cap status.conditions[StateError] # {}
    /\ status.state = StateReady => Supports(status, b.spec)
=============================================================================
