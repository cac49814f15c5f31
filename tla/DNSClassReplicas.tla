---------------------------- MODULE DNSClassReplicas ----------------------------
(***************************************************************************)
(* Two replicas of the manager on one API server.  A lease does not fence: *)
(* a leader may have a write on its way when it is replaced, and without   *)
(* --leader-elect every replica reconciles.  Also, a standby fills its own *)
(* cache, and takes over with whatever lags in it.                         *)
(*                                                                         *)
(* One replica is the controller of DNSClassController; the other is its   *)
(* peer, with an informer, a queue and workers of its own.                 *)
(***************************************************************************)
EXTENDS DNSClassControllerProps

VARIABLES peerWatch, peerCache, peerDirty, peerBackoff, peerW, peerLost,
          leaderElect  \* --leader-elect, which both replicas are given

peerVars == <<peerWatch, peerCache, peerDirty, peerBackoff, peerW, peerLost, leaderElect>>
pairVars == <<vars, peerVars>>

Peer == INSTANCE DNSClassController
          WITH watch <- peerWatch, cache <- peerCache, dirty <- peerDirty,
               backoff <- peerBackoff, w <- peerW, lost <- peerLost

PairInit == Init /\ Peer!Init /\ leaderElect \in BOOLEAN

-----------------------------------------------------------------------------
\* The other replica's watch gets what this step stores.
Hears(queues) ==
    [c \in Classes |-> IF rv'[c] = rv[c] THEN queues[c] ELSE Append(queues[c], api'[c])]

\* A user, a node or the replica.
ThisStep ==
    /\ Next
    /\ peerWatch' = Hears(peerWatch)
    /\ UNCHANGED <<peerCache, peerDirty, peerBackoff, peerW, peerLost, leaderElect>>

\* The peer, when it reconciles too.
PeerStep ==
    /\ ~leaderElect
    /\ \/ Peer!Restart
       \/ \E c \in Classes : \/ Peer!Deliver(c) \/ Peer!RetryFires(c) \/ Peer!GetFails(c)
                             \/ Peer!UpdateFails(c) \/ Peer!Step(c)
    /\ watch' = Hears(watch)
    /\ UNCHANGED <<cache, dirty, backoff, w, lost, leaderElect>>

\* The informer of a standby fills its cache, and wakes nobody.
StandbyDelivers(c) ==
    /\ leaderElect /\ peerWatch[c] # <<>>
    /\ peerCache' = [peerCache EXCEPT ![c] = Head(peerWatch[c])]
    /\ peerWatch' = [peerWatch EXCEPT ![c] = Tail(@)]
    /\ UNCHANGED <<vars, peerDirty, peerBackoff, peerW, peerLost, leaderElect>>

\* Mutant: the controller waits for events that are still to come.
TakeOverUnlisted ==
    /\ leaderElect /\ Spend("restarts")
    /\ cache' = peerCache /\ watch' = peerWatch
    /\ dirty' = [c \in Classes |-> FALSE]
    /\ backoff' = [c \in Classes |-> FALSE]
    /\ w' = [c \in Classes |-> Nil]
    /\ lost' = [c \in Classes |-> {}]
    /\ peerCache' = api /\ peerWatch' = [c \in Classes |-> <<>>]
    /\ UNCHANGED <<api, rv, kubelet, basis, peerDirty, peerBackoff, peerW, peerLost, leaderElect>>

\* The leader's process ends.  The standby leads: its controller starts, and each
\* class in its cache is a Create event.  The ended process starts again, as
\* standby.
TakeOver ==
    /\ leaderElect /\ Spend("restarts")
    /\ cache' = peerCache /\ watch' = peerWatch
    /\ dirty' = [c \in Classes |-> peerCache[c] # Nil]
    /\ backoff' = [c \in Classes |-> FALSE]
    /\ w' = [c \in Classes |-> Nil]
    /\ lost' = [c \in Classes |-> {}]
    /\ peerCache' = api /\ peerWatch' = [c \in Classes |-> <<>>]
    /\ UNCHANGED <<api, rv, kubelet, basis, peerDirty, peerBackoff, peerW, peerLost, leaderElect>>

PairNext ==
    \/ ThisStep
    \/ PeerStep
    \/ \E c \in Classes : StandbyDelivers(c)
    \/ TakeOver

PairSpec == PairInit /\ [][PairNext]_pairVars

\* Each replica that runs is scheduled as one alone would be.
FairPairSpec == PairSpec /\ Fairness /\ (~leaderElect => Peer!Fairness)

-----------------------------------------------------------------------------
\* Nothing is under way for the class in a replica that reconciles.
PairQuiet(c) ==
    /\ Quiet(c)
    /\ ~leaderElect => peerWatch[c] = <<>> /\ ~peerDirty[c] /\ ~peerBackoff[c] /\ peerW[c] = Nil

\* writeStatus and dnsClassPredicate in two processes,
\* dnsclass_controller.go:291-309, 326-339.  They overwrite each other's status,
\* an older one may replace a newer one, and a standby may begin with an old
\* cache.  Still, when nothing is left to do for a class, its status is Ready
\* and was computed from the spec it has now, unless one was dropped.
PairForgetsNothing ==
    \A c \in Classes :
      api[c] # Nil /\ PairQuiet(c) /\ lost[c] \cup peerLost[c] = {} =>
        Current(c) /\ api[c].status.state = StateReady

\* The retry loops of two processes, dnsclass_controller.go:110-132, 291-309.
\* While nodes fail, their errors may replace each other again and again; that
\* does not keep a class from a status for the spec it has, Ready or an error
\* that is true.
PairConverges ==
    \A c \in Classes :
      <>[](api[c] # Nil /\ lost[c] \cup peerLost[c] = {} =>
              Current(c) /\ (api[c].status.state = StateReady \/ Undiscoverable(c)))
================================================================================
