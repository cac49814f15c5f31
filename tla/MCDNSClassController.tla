------------------------ MODULE MCDNSClassController ------------------------
(***************************************************************************)
(* Small values for the DNSClass controller.                               *)
(***************************************************************************)
EXTENDS DNSClassControllerProps

CONSTANTS d1, d2, s1, s2

Request(policy, config) ==
    [allowedNamespaces |-> {}, disabledNamespaces |-> {}, allowedDNSPolicies |-> Nil,
     dnsPolicy |-> policy, dnsConfig |-> config]

\* "svc.{{ .clusterDomain }}", and "{{ .env }}" which admission refuses.
ClusterDomainEntry == [keys |-> {"clusterDomain"}, uses |-> {"clusterDomain"}, parses |-> TRUE]
EnvEntry           == [keys |-> {"otherKey"}, uses |-> {"otherKey"}, parses |-> TRUE]

Plain     == Request("ClusterFirst", Nil)
Untyped   == Request("", Nil)
Templated == Request("None", [nameservers |-> Nil, searches |-> {ClusterDomainEntry}])
Misspelt  == Request("None", [nameservers |-> {s1}, searches |-> {EnvEntry}])

MCRequests == {Plain, Untyped, Templated, Misspelt}

MCTwoRequests == {Plain, Templated}

Good    == [clusterDomain |-> d1, nameservers |-> {s1}]
Other   == [clusterDomain |-> d2, nameservers |-> {s2}]
Partial == [clusterDomain |-> Nil, nameservers |-> {s1}]
Unnamed == [clusterDomain |-> d1, nameservers |-> Nil]

MCAnswers     == {Good, Partial, Unnamed, Unreachable}
MCNodeConfigs == {Good, Partial, Unreachable}
MCGoodOrDown  == {Good, Unreachable}
=============================================================================
