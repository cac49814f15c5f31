------------------------- MODULE DNSClassRefinement -------------------------
(***************************************************************************)
(* The controller implements DNSClassLifecycle.  A history variable keeps  *)
(* the objects the API server ever stored, by what a status of them could  *)
(* be computed from; everything else is a state function of the controller.*)
(***************************************************************************)
EXTENDS DNSClassControllerProps

VARIABLE stored  \* history: the versions the API server ever stored

historyVars == <<vars, stored>>

HistoryInit == Init /\ stored = [c \in Classes |-> {}]

Recorded(c) == IF api[c] = Nil THEN {} ELSE {BasisOf(api[c])}

HistoryNext == Next /\ stored' = [c \in Classes |-> stored[c] \cup Recorded(c)']

HistorySpec == HistoryInit /\ [][HistoryNext]_historyVars

-----------------------------------------------------------------------------
VersionOf(b) == [uid |-> b.uid, gen |-> b.gen, spec |-> b.spec]

\* The state of the lifecycle that a state of the controller stands for.
publishedOf == [c \in Classes |-> {VersionOf(b) : b \in stored[c]}]
classOf     == [c \in Classes |-> IF api[c] = Nil THEN Nil ELSE VersionOf(api[c])]
statusOf    == [c \in Classes |-> IF api[c] = Nil THEN Nil ELSE api[c].status]
sourceOf    == [c \in Classes |-> IF basis[c] = Nil THEN Nil ELSE VersionOf(basis[c])]

Lifecycle == INSTANCE DNSClassLifecycle
               WITH published <- publishedOf, class <- classOf,
                    status <- statusOf, source <- sourceOf

ASSUME VersionsAssumption == Nil \notin Lifecycle!Versions

\* Reconcile, writeStatus and the informer together, dnsclass_controller.go:72-132,
\* 291-339.  Through a cache that lags, conflicts, retries, crashes and
\* recreations, what users see is the lifecycle: each status is explained by a
\* version that was really published, and none is older than the one before.
ImplementsLifecycle == Lifecycle!Spec

-----------------------------------------------------------------------------
(* Why it does. *)

\* What was stored is such a history.
HistoryInv == \A c \in Classes : KnownIn(c, stored[c]) /\ OrderedIn(c, stored[c])
=============================================================================
