----------------------------- MODULE Manager_proofs -----------------------------
(***************************************************************************)
(* Proofs about the replicas: for any number of them and any durations     *)
(* with RetryPeriod + RenewDeadline < LeaseDuration, one controller runs,  *)
(* also while the chart is being installed.                                *)
(***************************************************************************)
EXTENDS ChartInstall, TLAPS

\* Ages are numbers, and stay so.
LEMMA OlderAge ==
    ASSUME NEW limit \in Nat, NEW age \in (0..limit) \cup {Nil}
    PROVE  /\ Older(age, limit) \in (0..limit) \cup {Nil}
           /\ age # Nil => Older(age, limit) \in 0..limit /\ Older(age, limit) <= age + 1
           /\ age # Nil /\ age < limit => Older(age, limit) = age + 1
           /\ Older(age, limit) # Nil => age # Nil
  BY ManagerAssumption DEF Older

\* A process that ends.
LEMMA EndType ==
    ASSUME ManagerTypeOK, NEW r \in Replicas, End(r), crashes' \in 0..MaxCrashes
    PROVE  ManagerTypeOK'
  BY DEF End, ManagerTypeOK, Stages

\* A lease that is written.
LEMMA WriteType ==
    ASSUME ManagerTypeOK, NEW r \in Replicas, Write(r), stage' \in [Replicas -> Stages],
           UNCHANGED <<certificate, crashes>>
    PROVE  ManagerTypeOK'
<1>1. 0 \in 0..StopsAfter
  BY ManagerAssumption DEF StopsAfter
<1> QED
  BY <1>1 DEF Write, ManagerTypeOK

\* Every step keeps the types.
LEMMA NextTypes == ManagerTypeOK /\ [ManagerNext]_managerVars => ManagerTypeOK'
<1> SUFFICES ASSUME ManagerTypeOK, [ManagerNext]_managerVars PROVE ManagerTypeOK'
  OBVIOUS
<1>1. CASE UNCHANGED managerVars
  BY <1>1 DEF managerVars, ManagerTypeOK
<1>2. CASE IssueCertificate
  BY <1>2 DEF IssueCertificate, ManagerTypeOK
<1>3. CASE Tick
  <2>1. LeaseDuration \in Nat /\ StopsAfter \in Nat
    BY ManagerAssumption DEF StopsAfter
  <2>2. seen' \in [Replicas -> (0..LeaseDuration) \cup {Nil}]
    BY <1>3, <2>1, OlderAge DEF Tick, ManagerTypeOK
  <2>3. renewed' \in [Replicas -> 0..StopsAfter]
    <3>1. \A r \in Replicas : renewed[r] \in 0..StopsAfter /\ renewed[r] # Nil
      BY <2>1, ManagerAssumption DEF ManagerTypeOK
    <3> QED
      BY <1>3, <2>1, <3>1, OlderAge DEF Tick
  <2> QED
    BY <1>3, <2>2, <2>3 DEF Tick, ManagerTypeOK
<1>4. ASSUME NEW r \in Replicas, Launch(r) \/ SetUp(r) \/ StartWebhooks(r) PROVE ManagerTypeOK'
  BY <1>4 DEF Launch, SetUp, StartWebhooks, Advance, ManagerTypeOK, Stages
<1>5. ASSUME NEW r \in Replicas, SyncCaches(r) PROVE ManagerTypeOK'
  BY <1>5 DEF SyncCaches, Advance, ManagerTypeOK, Stages
<1>6. ASSUME NEW r \in Replicas, Look(r) PROVE ManagerTypeOK'
  <2>1. 0 \in 0..LeaseDuration
    BY ManagerAssumption
  <2> QED
    BY <1>6, <2>1 DEF Look, ManagerTypeOK
<1>7. ASSUME NEW r \in Replicas, Lead(r) PROVE ManagerTypeOK'
  <2>1. stage' \in [Replicas -> Stages]
    BY <1>7 DEF Lead, Advance, ManagerTypeOK, Stages
  <2> QED
    BY <1>7, <2>1, WriteType DEF Lead
<1>8. ASSUME NEW r \in Replicas, Renew(r) PROVE ManagerTypeOK'
  BY <1>8, WriteType DEF Renew, ManagerTypeOK
<1>9. ASSUME NEW r \in Replicas, GiveUp(r) PROVE ManagerTypeOK'
  BY <1>9, EndType DEF GiveUp, ManagerTypeOK
<1>10. ASSUME NEW r \in Replicas, Crash(r) PROVE ManagerTypeOK'
  <2>1. crashes' \in 0..MaxCrashes
    BY <1>10, ManagerAssumption DEF Crash, ManagerTypeOK
  <2> QED
    BY <1>10, <2>1, EndType DEF Crash
<1> QED
  BY <1>1, <1>2, <1>3, <1>4, <1>5, <1>6, <1>7, <1>8, <1>9, <1>10 DEF ManagerNext, Progress

-----------------------------------------------------------------------------
\* A step that makes no leader, and leaves lease and ages alone, keeps them right.
LEMMA LeaseStays ==
    ASSUME LeaseInv, UNCHANGED <<lease, renewed>>,
           \A r \in Replicas : stage'[r] = "leading" => stage[r] = "leading" \/ ~LeaderElect,
           \A s \in Replicas : seen'[s] = seen[s] \/ seen'[s] = Nil \/ seen'[s] = 0,
           ManagerTypeOK
    PROVE  LeaseInv'
<1>1. \A r \in Replicas : renewed[r] \in Nat
  BY ManagerAssumption DEF ManagerTypeOK, StopsAfter
<1> QED
  BY <1>1 DEF LeaseInv

\* When a process ends, the others' lease is as it was.
LEMMA EndKeepsLease ==
    ASSUME LeaseInv, ManagerTypeOK, NEW r \in Replicas, End(r)
    PROVE  LeaseInv'
  BY DEF LeaseInv, ManagerTypeOK, End

\* A lease is written by the only leader.
LEMMA WriteKeepsLease ==
    ASSUME ManagerTypeOK, NEW r \in Replicas, Write(r),
           \A s \in Replicas : stage'[s] = "leading" => s = r
    PROVE  LeaseInv'
<1>1. lease' = r /\ \A s \in Replicas : seen'[s] = Nil
  BY DEF Write
<1> QED
  BY <1>1 DEF LeaseInv

\* Every step keeps the lease with the leader, and the candidates behind it.
LEMMA NextLease == ManagerTypeOK /\ LeaseInv /\ [ManagerNext]_managerVars => LeaseInv'
<1> SUFFICES ASSUME ManagerTypeOK, LeaseInv, [ManagerNext]_managerVars PROVE LeaseInv'
  OBVIOUS
<1>1. CASE UNCHANGED managerVars
  BY <1>1, LeaseStays DEF managerVars
<1>2. CASE IssueCertificate
  BY <1>2, LeaseStays DEF IssueCertificate
<1>3. CASE Tick
  <2> SUFFICES ASSUME LeaderElect, NEW r \in Replicas, stage'[r] = "leading"
               PROVE  lease' = r /\ \A s \in Replicas : seen'[s] # Nil => seen'[s] <= renewed'[r]
    BY DEF LeaseInv
  <2>1. stage[r] = "leading" /\ renewed[r] < StopsAfter /\ lease = r /\ lease' = lease
    BY <1>3 DEF Tick, LeaseInv
  <2>2. /\ LeaseDuration \in Nat /\ StopsAfter \in Nat
        /\ renewed[r] \in 0..StopsAfter /\ renewed[r] # Nil
    BY ManagerAssumption DEF StopsAfter, ManagerTypeOK
  <2>3. renewed'[r] = renewed[r] + 1
    BY <1>3, <2>1, <2>2, OlderAge DEF Tick
  <2>4. ASSUME NEW s \in Replicas, seen'[s] # Nil PROVE seen'[s] <= renewed'[r]
    <3>1. seen[s] \in (0..LeaseDuration) \cup {Nil} /\ seen'[s] = Older(seen[s], LeaseDuration)
      BY <1>3 DEF Tick, ManagerTypeOK
    <3>2. seen[s] # Nil /\ seen[s] \in 0..LeaseDuration /\ seen'[s] \in 0..LeaseDuration
          /\ seen'[s] <= seen[s] + 1
      BY <2>2, <2>4, <3>1, OlderAge
    <3>3. seen[s] <= renewed[r]
      BY <2>1, <3>2 DEF LeaseInv
    <3> QED
      BY <2>2, <2>3, <3>2, <3>3
  <2> QED
    BY <2>1, <2>4
<1>4. ASSUME NEW r \in Replicas, Launch(r) \/ SetUp(r) \/ StartWebhooks(r) \/ SyncCaches(r) PROVE LeaseInv'
  <2>1. \A s \in Replicas : stage'[s] = "leading" => stage[s] = "leading" \/ ~LeaderElect
    BY <1>4 DEF Launch, SetUp, StartWebhooks, SyncCaches, Advance, ManagerTypeOK
  <2>2. \A s \in Replicas : seen'[s] = seen[s] \/ seen'[s] = Nil
    BY <1>4 DEF Launch, SetUp, StartWebhooks, SyncCaches, ManagerTypeOK
  <2>3. UNCHANGED <<lease, renewed>>
    BY <1>4 DEF Launch, SetUp, StartWebhooks, SyncCaches
  <2> QED
    BY <2>1, <2>2, <2>3, LeaseStays
<1>5. ASSUME NEW r \in Replicas, Look(r) PROVE LeaseInv'
  <2>1. \A s \in Replicas : seen'[s] = seen[s] \/ seen'[s] = 0
    BY <1>5 DEF Look, ManagerTypeOK
  <2> QED
    BY <1>5, <2>1, LeaseStays DEF Look
<1>6. ASSUME NEW r \in Replicas, Lead(r) PROVE LeaseInv'
  <2>1. CASE ~LeaderElect
    BY <1>6, <2>1, ManagerAssumption DEF LeaseInv, Lead
  <2>2. ASSUME LeaderElect, NEW s \in Replicas, stage[s] = "leading" PROVE FALSE
    <3>1. lease = s /\ (seen[r] # Nil => seen[r] <= renewed[s])
      BY <2>2 DEF LeaseInv
    <3>2. seen[r] # Nil /\ seen[r] >= LeaseDuration
      BY <1>6, <2>2, <3>1, ManagerAssumption DEF Lead, WaitsFor
    <3>3. seen[r] \in Nat /\ renewed[s] \in Nat /\ renewed[s] <= StopsAfter
      BY <3>2, ManagerAssumption DEF ManagerTypeOK, StopsAfter
    <3>4. LeaseDuration \in Nat /\ StopsAfter \in Nat /\ StopsAfter < LeaseDuration
      BY ManagerAssumption DEF StopsAfter
    <3> QED
      BY <3>1, <3>2, <3>3, <3>4
  <2>3. ASSUME LeaderElect PROVE LeaseInv'
    <3>1. \A s \in Replicas : stage'[s] = "leading" => s = r
      BY <1>6, <2>2, <2>3 DEF Lead, Advance, ManagerTypeOK
    <3> QED
      BY <1>6, <3>1, WriteKeepsLease DEF Lead
  <2> QED
    BY <2>1, <2>3
<1>7. ASSUME NEW r \in Replicas, Renew(r) PROVE LeaseInv'
  <2>1. \A s \in Replicas : stage'[s] = "leading" => s = r
    BY <1>7 DEF Renew, LeaseInv
  <2> QED
    BY <1>7, <2>1, WriteKeepsLease DEF Renew
<1>8. ASSUME NEW r \in Replicas, GiveUp(r) \/ Crash(r) PROVE LeaseInv'
  BY <1>8, EndKeepsLease DEF GiveUp, Crash
<1> QED
  BY <1>1, <1>2, <1>3, <1>4, <1>5, <1>6, <1>7, <1>8 DEF ManagerNext, Progress

-----------------------------------------------------------------------------
\* Type correctness of stages, lease and ages.
THEOREM ManagerTypeCorrect == ManagerSpec => []ManagerTypeOK
<1>1. 0 \in 0..StopsAfter /\ MaxCrashes \in 0..MaxCrashes
  BY ManagerAssumption DEF StopsAfter
<1>2. ManagerInit => ManagerTypeOK
  BY <1>1 DEF ManagerInit, ManagerTypeOK, Stages
<1> QED
  BY <1>2, NextTypes, PTL DEF ManagerSpec

\* The leader holds the lease, which the candidates saw no earlier than it did.
THEOREM LeaseIsLeaders == ManagerSpec => []LeaseInv
<1>1. ManagerInit => LeaseInv
  BY DEF ManagerInit, LeaseInv
<1> QED
  BY <1>1, NextLease, ManagerTypeCorrect, PTL DEF ManagerSpec

\* With leader election one controller runs at a time (main.go:222-234).
THEOREM OneAtATime == ManagerSpec => []OneController
<1>1. LeaseInv => OneController
  BY DEF LeaseInv, OneController
<1> QED
  BY <1>1, LeaseIsLeaders, PTL

-----------------------------------------------------------------------------
(* The chart's installation runs beside the replicas. *)

\* What the chart does leaves the replicas to themselves.
LEMMA ChartStep == [ChartNext]_allVars => [ManagerNext]_managerVars
  BY DEF ChartNext, Probe, InjectCA, CallSucceeds, CallFails, PodFails, Apply, allVars

\* So the replicas of an installation behave as replicas do.
THEOREM ChartRunsReplicas == ChartSpec => ManagerSpec
<1>1. ChartInit => ManagerInit
  BY DEF ChartInit
<1> QED
  BY <1>1, ChartStep, PTL DEF ChartSpec, ManagerSpec

\* The readiness job counts no further than its limits, for any limits, and with
\* the replicas' types go those of the release.
THEOREM ChartTypeCorrect == ChartSpec => []ChartTypeOK
<1>1. ChartInit => ChartTypeOK
  <2>1. ChartInit => ManagerTypeOK
    <3>1. 0 \in 0..StopsAfter /\ MaxCrashes \in 0..MaxCrashes
      BY ManagerAssumption DEF StopsAfter
    <3> QED
      BY <3>1 DEF ChartInit, ManagerInit, ManagerTypeOK, Stages
  <2>2. ASSUME ChartInit
        PROVE  job \in [state : {"checking", "ready", "failed"}, retries : 0..MaxRetries, failures : 0..BackoffLimit]
    <3>1. 0 \in 0..MaxRetries /\ 0 \in 0..BackoffLimit
      BY ChartAssumption
    <3> QED
      BY <2>2, <3>1 DEF ChartInit
  <2> QED
    BY <2>1, <2>2 DEF ChartInit, ChartTypeOK
<1>2. ChartTypeOK /\ [ChartNext]_allVars => ChartTypeOK'
  <2> SUFFICES ASSUME ChartTypeOK, [ChartNext]_allVars PROVE ChartTypeOK'
    OBVIOUS
  <2> DEFINE Jobs == [state : {"checking", "ready", "failed"}, retries : 0..MaxRetries, failures : 0..BackoffLimit]
  <2>1. ManagerTypeOK'
    BY ChartStep, NextTypes DEF ChartTypeOK
  <2>2. job \in Jobs /\ MaxRetries \in Nat /\ BackoffLimit \in Nat
    BY ChartAssumption DEF ChartTypeOK
  <2>3. trusted' \in BOOLEAN /\ endpoints' \in SUBSET Replicas /\ class' \in {Nil, "stored", "refused"}
    BY DEF ChartTypeOK, ChartNext, Probe, InjectCA, CallSucceeds, CallFails, PodFails, Apply, allVars, chartVars
  <2>4. job' \in Jobs
    <3>1. CASE CallSucceeds
      BY <2>2, <3>1 DEF CallSucceeds
    <3>2. CASE CallFails
      <4>1. job.retries + 1 \in 0..MaxRetries
        BY <2>2, <3>2 DEF CallFails
      <4> QED
        BY <2>2, <3>2, <4>1, Zenon DEF CallFails
    <3>3. CASE PodFails
      <4>1. CASE job.failures = BackoffLimit
        BY <2>2, <3>3, <4>1 DEF PodFails
      <4>2. CASE job.failures # BackoffLimit
        <5>1. job.failures + 1 \in 0..BackoffLimit /\ 0 \in 0..MaxRetries
          BY <2>2, <4>2
        <5>2. job' = [job EXCEPT !.retries = 0, !.failures = @ + 1]
          BY <3>3, <4>2 DEF PodFails
        <5> QED
          BY <2>2, <5>1, <5>2, Zenon
      <4> QED
        BY <4>1, <4>2
    <3>4. CASE UNCHANGED job
      BY <2>2, <3>4
    <3> QED
      BY <3>1, <3>2, <3>3, <3>4 DEF ChartNext, Probe, InjectCA, Apply, allVars, chartVars
  <2> QED
    BY <2>1, <2>3, <2>4 DEF ChartTypeOK
<1> QED
  BY <1>1, <1>2, PTL DEF ChartSpec
================================================================================
