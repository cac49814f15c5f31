-------------------------- MODULE DNSClassLifecycle --------------------------
(***************************************************************************)
(* What a user of a DNSClass may rely on, without informers, queues,       *)
(* workers or resource versions: users publish versions of a class, and    *)
(* each status of it reports on one of the versions that were published,   *)
(* never on an older one than the status before.                           *)
(***************************************************************************)
EXTENDS DNSClassAPI, Naturals

CONSTANT Classes

VARIABLES
    published,  \* every version that a class of this name ever had
    class,      \* the version there is now, Nil when there is no class
    status,     \* what is reported of the class, Nil when there is no class
    source      \* the version the status reports on, Nil when there is no report

lifecycleVars == <<published, class, status, source>>

\* A version of a class: which object of its name, and which generation of that.
Versions == [uid : Nat, gen : Nat, spec : DNSClassSpec]

NotOlder(v, u) == u.uid < v.uid \/ (u.uid = v.uid /\ u.gen <= v.gen)

Init ==
    /\ published = [c \in Classes |-> {}]
    /\ class     = [c \in Classes |-> Nil]
    /\ status    = [c \in Classes |-> Nil]
    /\ source    = [c \in Classes |-> Nil]

\* A user publishes v: it passed admission and is newer than all before it.
Publish(c, v) ==
    /\ v \in Versions /\ Valid(v.spec)
    /\ \A u \in published[c] : ~NotOlder(u, v)
    /\ published' = [published EXCEPT ![c] = @ \cup {v}]
    /\ class' = [class EXCEPT ![c] = v]

Create(c) ==
    /\ class[c] = Nil
    /\ Publish(c, class'[c])
    /\ class'[c].gen = 1
    /\ status' = [status EXCEPT ![c] = NoStatus]
    /\ source' = [source EXCEPT ![c] = Nil]

Edit(c) ==
    /\ class[c] # Nil
    /\ Publish(c, class'[c])
    /\ class'[c].uid = class[c].uid
    /\ UNCHANGED <<status, source>>

Delete(c) ==
    /\ class[c] # Nil
    /\ class'  = [class EXCEPT ![c] = Nil]
    /\ status' = [status EXCEPT ![c] = Nil]
    /\ source' = [source EXCEPT ![c] = Nil]
    /\ UNCHANGED published

\* The controller reports on a version that was published, maybe not the last.
Report(c) ==
    /\ class[c] # Nil
    /\ \E v \in published[c] :
         /\ source[c] # Nil => NotOlder(v, source[c])
         /\ source' = [source EXCEPT ![c] = v]
         /\ Explained(status'[c], v)
    /\ status' = [status EXCEPT ![c] = status'[c]]
    /\ status'[c].state \in {StateReady, StateError}
    /\ UNCHANGED <<published, class>>

Next == \E c \in Classes : Create(c) \/ Edit(c) \/ Delete(c) \/ Report(c)

Spec == Init /\ [][Next]_lifecycleVars
=============================================================================
