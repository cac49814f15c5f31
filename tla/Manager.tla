-------------------------------- MODULE Manager --------------------------------
(***************************************************************************)
(* The manager process in its replicas: what main sets up and in which     *)
(* order, which replica's controller runs (leader election through a       *)
(* lease), and how a replica ends and comes back.                          *)
(*                                                                         *)
(* Time is counted in ticks.  A call to the API server takes none: its     *)
(* write and its answer fall into one tick.                                *)
(***************************************************************************)
EXTENDS Integers

CONSTANTS Replicas,      \* the replicas of the Deployment
          Nil,           \* nothing observed; a lease nobody ever held
          Gone,          \* the holder of a lease whose process ended: a new
                         \* process is a new candidate
          LeaderElect,   \* --leader-elect
          LeaseDuration, RenewDeadline, RetryPeriod,  \* the flags of these names
          MaxCrashes     \* bound: how often a process dies unasked

VARIABLES
    stage,       \* how far main has come in each replica
    certificate, \* the secret with the webhook's certificate exists
    lease,       \* who holds the lease
    seen,        \* how long ago a candidate saw the lease change last; Nil
                 \* when it has not seen the present lease yet
    renewed,     \* how long ago a leader wrote the lease
    crashes      \* how often a process may still die unasked

managerVars == <<stage, certificate, lease, seen, renewed, crashes>>

\* setup:   main before mgr.Start
\* probing: the probe server answers
\* serving: the webhook server answers too, from caches that are filling
\* standby: the caches are full; a candidate
\* leading: the controller runs
Stages == {"down", "setup", "probing", "serving", "standby", "leading"}

\* A leader waits for RetryPeriod, then tries to renew until RenewDeadline.
StopsAfter == RetryPeriod + RenewDeadline

\* Mutant: NewManager is given the renew deadline for both durations.
WaitsForRenewDeadline == RenewDeadline

\* A candidate takes over a lease that it saw unchanged for this long.
WaitsFor == LeaseDuration

\* The flags' defaults are 15, 10 and 2 seconds.  What client-go itself asks,
\* RenewDeadline < LeaseDuration, is not enough.
ASSUME ManagerAssumption ==
    /\ {LeaseDuration, RenewDeadline, RetryPeriod} \subseteq Nat \ {0}
    /\ StopsAfter < LeaseDuration
    /\ Nil \notin Replicas /\ Gone \notin Replicas /\ Gone # Nil /\ Nil \notin Nat
    /\ LeaderElect \in BOOLEAN /\ MaxCrashes \in Nat

ManagerTypeOK ==
    /\ stage \in [Replicas -> Stages]
    /\ certificate \in BOOLEAN
    /\ lease \in Replicas \cup {Nil, Gone}
    /\ seen \in [Replicas -> (0..LeaseDuration) \cup {Nil}]
    /\ renewed \in [Replicas -> 0..StopsAfter]
    /\ crashes \in 0..MaxCrashes

ManagerInit ==
    /\ stage = [r \in Replicas |-> "down"]
    /\ certificate = FALSE
    /\ lease = Nil
    /\ seen = [r \in Replicas |-> Nil]
    /\ renewed = [r \in Replicas |-> 0]
    /\ crashes = MaxCrashes

-----------------------------------------------------------------------------
(* From one stage to the next. *)

Advance(r, from, to) ==
    /\ stage[r] = from
    /\ stage' = [stage EXCEPT ![r] = to]

\* cert-manager writes the secret.
IssueCertificate ==
    /\ ~certificate /\ certificate' = TRUE
    /\ UNCHANGED <<stage, lease, seen, renewed, crashes>>

\* The kubelet starts a container once its volumes can be mounted, the secret
\* among them, and starts it again whenever it has ended.
Launch(r) ==
    /\ certificate /\ Advance(r, "down", "setup")
    /\ UNCHANGED <<certificate, lease, seen, renewed, crashes>>

\* main gets through: certificate watchers, manager, controller, webhooks and
\* checks are set up, and mgr.Start starts the probe server first.
SetUp(r) ==
    /\ Advance(r, "setup", "probing")
    /\ UNCHANGED <<certificate, lease, seen, renewed, crashes>>

\* Next mgr.Start starts the webhook server.
StartWebhooks(r) ==
    /\ Advance(r, "probing", "serving")
    /\ UNCHANGED <<certificate, lease, seen, renewed, crashes>>

\* Then it waits for the caches, and starts the controller now or when elected.
SyncCaches(r) ==
    /\ Advance(r, "serving", IF LeaderElect THEN "standby" ELSE "leading")
    /\ seen' = [seen EXCEPT ![r] = Nil]
    /\ UNCHANGED <<certificate, lease, renewed, crashes>>

\* Mutant: a process that should end stays, and does nothing.
EndHangs(r) ==
    /\ stage' = [stage EXCEPT ![r] = "hung"]
    /\ UNCHANGED <<certificate, lease, seen, renewed>>

\* The process of r ends.  It does not give its lease back.
End(r) ==
    /\ stage' = [stage EXCEPT ![r] = "down"]
    /\ lease' = IF lease = r THEN Gone ELSE lease
    /\ UNCHANGED <<certificate, seen, renewed>>

\* A step of main fails, the process is killed, or its node dies.
Crash(r) ==
    /\ stage[r] # "down" /\ crashes > 0
    /\ crashes' = crashes - 1
    /\ End(r)

-----------------------------------------------------------------------------
(* Leader election. *)

\* r has written the lease: to everybody else it is new.
Write(r) ==
    /\ lease' = r
    /\ renewed' = [renewed EXCEPT ![r] = 0]
    /\ seen' = [s \in Replicas |-> Nil]

\* A candidate notices that the lease was written since it last looked.
Look(r) ==
    /\ stage[r] = "standby" /\ lease # Nil /\ seen[r] = Nil
    /\ seen' = [seen EXCEPT ![r] = 0]
    /\ UNCHANGED <<stage, certificate, lease, renewed, crashes>>

\* A candidate takes a lease that nobody held or that it saw run out, and
\* starts the controller.
Lead(r) ==
    /\ Advance(r, "standby", "leading")
    /\ lease = Nil \/ (seen[r] # Nil /\ seen[r] >= WaitsFor)
    /\ Write(r)
    /\ UNCHANGED <<certificate, crashes>>

\* The leader renews its lease, if the API server lets it.
Renew(r) ==
    /\ LeaderElect /\ stage[r] = "leading" /\ lease = r /\ renewed[r] >= RetryPeriod
    /\ Write(r)
    /\ UNCHANGED <<stage, certificate, crashes>>

\* The leader could not renew in time: mgr.Start returns an error, and main exits.
GiveUp(r) ==
    /\ LeaderElect /\ stage[r] = "leading" /\ renewed[r] = StopsAfter
    /\ End(r)
    /\ UNCHANGED crashes

Older(age, limit) == IF age = Nil \/ age = limit THEN age ELSE age + 1

\* Time passes, but not beyond a deadline that a leader has to meet.
Tick ==
    /\ LeaderElect
    /\ \A r \in Replicas : stage[r] = "leading" => renewed[r] < StopsAfter
    /\ seen' = [r \in Replicas |-> Older(seen[r], LeaseDuration)]
    /\ renewed' = [r \in Replicas |-> Older(renewed[r], StopsAfter)]
    /\ UNCHANGED <<stage, certificate, lease, crashes>>

-----------------------------------------------------------------------------
Progress(r) ==
    \/ Launch(r) \/ SetUp(r) \/ StartWebhooks(r) \/ SyncCaches(r)
    \/ Look(r) \/ Lead(r) \/ GiveUp(r)

ManagerNext ==
    \/ IssueCertificate \/ Tick
    \/ \E r \in Replicas : Progress(r) \/ Renew(r) \/ Crash(r)

ManagerSpec == ManagerInit /\ [][ManagerNext]_managerVars

\* Clocks run, kubelets restart containers and processes go on; nothing makes a
\* renewal succeed.
ManagerFairness ==
    /\ WF_managerVars(IssueCertificate) /\ WF_managerVars(Tick)
    /\ \A r \in Replicas : WF_managerVars(Progress(r))

FairManagerSpec == ManagerSpec /\ ManagerFairness

-----------------------------------------------------------------------------
\* main.go:222-234 with the defaults of 134-148.  With leader election one
\* controller runs at a time, also while a leader that cannot reach the API
\* server does not know yet that its lease runs out.
OneController ==
    LeaderElect =>
      \A r, s \in Replicas : stage[r] = "leading" /\ stage[s] = "leading" => r = s

\* main.go:319-322.  Whatever happens to leaders and their renewals, again and
\* again some replica's controller runs: main exits when mgr.Start returns, so
\* that the container comes back as a candidate.
FailsOver == []<>(\E r \in Replicas : stage[r] = "leading")

\* The leader holds the lease, and no candidate saw it before it wrote it last.
LeaseInv ==
    LeaderElect =>
      \A r \in Replicas :
        stage[r] = "leading" =>
          lease = r /\ \A s \in Replicas : seen[s] # Nil => seen[s] <= renewed[r]
================================================================================
