------------------------------ MODULE MCShepherd ------------------------------
(***************************************************************************)
(* Small values for the manager as a whole.                                *)
(***************************************************************************)
EXTENDS ShepherdProps

CONSTANTS d1, s1, ns1, ns2

For(namespaces, policies, policy, config) ==
    [allowedNamespaces |-> namespaces, disabledNamespaces |-> {}, allowedDNSPolicies |-> policies,
     dnsPolicy |-> policy, dnsConfig |-> config]

Entry(keys, uses) == [keys |-> keys, uses |-> uses, parses |-> TRUE]
Config(nameservers, entries) == [nameservers |-> nameservers, searches |-> entries]

\* "{{ .podNamespace }}.svc.{{ .clusterDomain }}" and a fixed name.
BothEntry  == Entry({"podNamespace", "clusterDomain"}, {"podNamespace", "clusterDomain"})
FixedEntry == Entry({}, {})

Plain     == For({ns1}, Nil, "ClusterFirst", Nil)
Fixed     == For({ns1}, Nil, "", Config(Nil, {FixedEntry}))
Templated == For({ns1}, {"ClusterFirst"}, "None", Config(Nil, {BothEntry}))
Elsewhere == For({ns2}, Nil, "None", Config({s1}, {}))
Excluding == [For({}, Nil, "None", Nil) EXCEPT !.disabledNamespaces = {ns1}]
EmptyList == For({ns1}, Nil, "None", Config({}, {FixedEntry}))

MCRequests    == {Plain, Fixed, Templated, EmptyList}
MCAllRequests == MCRequests \cup {Excluding, Elsewhere}

PodOf(policy, config) == [namespace |-> ns1, dnsPolicy |-> policy, dnsConfig |-> config, class |-> Nil]

\* A pod that leaves DNS to the cluster, and one that brings its own settings.
OwnConfig     == Config({s1}, {Rendered(FixedEntry, <<>>)})
MCPodRequests == {PodOf("ClusterFirst", Nil), PodOf("None", OwnConfig)}

Good          == [clusterDomain |-> d1, nameservers |-> {s1}]
NameLess      == [clusterDomain |-> d1, nameservers |-> Nil]
MCNodeConfigs == {Good, NameLess, Unreachable}
MCGood        == {Good}
===============================================================================
