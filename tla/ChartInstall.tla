------------------------------ MODULE ChartInstall ------------------------------
(***************************************************************************)
(* Installing the chart: next to the replicas a job waits until /readyz    *)
(* answers, and then the chart's DNSClass is sent to the API server, which *)
(* calls the webhooks of the replicas and refuses what they do not answer. *)
(***************************************************************************)
EXTENDS Manager

CONSTANTS MaxRetries,    \* readyCheck.maxRetries
          BackoffLimit   \* backoffLimit of the job

VARIABLES
    trusted,   \* the webhook configurations name the CA of the certificate
    endpoints, \* the replicas behind the Services: their probe succeeded last
    job,       \* the readiness job: its state, failed calls, failed pods
    class      \* what became of the chart's DNSClass

chartVars == <<trusted, endpoints, job, class>>
allVars   == <<managerVars, chartVars>>

ASSUME ChartAssumption == {MaxRetries, BackoffLimit} \subseteq Nat

ChartTypeOK ==
    /\ ManagerTypeOK
    /\ trusted \in BOOLEAN /\ endpoints \in SUBSET Replicas
    /\ job \in [state : {"checking", "ready", "failed"}, retries : 0..MaxRetries, failures : 0..BackoffLimit]
    /\ class \in {Nil, "stored", "refused"}

ChartInit ==
    /\ ManagerInit
    /\ trusted = FALSE /\ endpoints = {}
    /\ job = [state |-> "checking", retries |-> 0, failures |-> 0]
    /\ class = Nil

-----------------------------------------------------------------------------
\* The readiness check is a ping: it succeeds as soon as the probe server is up.
Ready(r)   == stage[r] \in {"probing", "serving", "standby", "leading"}
Answers(r) == stage[r] \in {"serving", "standby", "leading"}

\* The kubelet probes a replica.
Probe(r) ==
    /\ endpoints' = IF Ready(r) THEN endpoints \cup {r} ELSE endpoints \ {r}
    /\ UNCHANGED <<managerVars, trusted, job, class>>

\* cert-manager writes the CA into the webhook configurations, when it gets to it.
InjectCA ==
    /\ certificate /\ ~trusted /\ trusted' = TRUE
    /\ UNCHANGED <<managerVars, endpoints, job, class>>

-----------------------------------------------------------------------------
(* The job: a pod calls until it succeeds or has failed MaxRetries times.  *)

CallSucceeds ==
    /\ job.state = "checking" /\ job.retries < MaxRetries
    /\ \E r \in endpoints : Ready(r)
    /\ job' = [job EXCEPT !.state = "ready"]
    /\ UNCHANGED <<managerVars, trusted, endpoints, class>>

\* Mutant: the pod calls again without counting.
CallFailsUncounted ==
    /\ job.state = "checking" /\ job.retries < MaxRetries
    /\ UNCHANGED <<managerVars, chartVars>>

\* There is no endpoint, or it does not answer, or the call is lost.
CallFails ==
    /\ job.state = "checking" /\ job.retries < MaxRetries
    /\ job' = [job EXCEPT !.retries = @ + 1]
    /\ UNCHANGED <<managerVars, trusted, endpoints, class>>

\* Mutant: the limit is passed before it is looked at.
PodFailsLate ==
    /\ job.state = "checking" /\ job.retries = MaxRetries
    /\ job' = IF job.failures > BackoffLimit
                THEN [job EXCEPT !.state = "failed"]
                ELSE [job EXCEPT !.retries = 0, !.failures = @ + 1]
    /\ UNCHANGED <<managerVars, trusted, endpoints, class>>

\* The pod exits with 1.  The job starts another, BackoffLimit times.
PodFails ==
    /\ job.state = "checking" /\ job.retries = MaxRetries
    /\ job' = IF job.failures = BackoffLimit
                THEN [job EXCEPT !.state = "failed"]
                ELSE [job EXCEPT !.retries = 0, !.failures = @ + 1]
    /\ UNCHANGED <<managerVars, trusted, endpoints, class>>

\* Helm sends the DNSClass once the job is done.  Both webhooks for classes have
\* failurePolicy Fail.
Apply ==
    /\ job.state = "ready" /\ class = Nil
    /\ \/ trusted /\ (\E r \in endpoints : Answers(r)) /\ class' = "stored"
       \/ /\ ~trusted \/ endpoints = {} \/ \E r \in endpoints : ~Answers(r)
          /\ class' = "refused"
    /\ UNCHANGED <<managerVars, trusted, endpoints, job>>

-----------------------------------------------------------------------------
ChartNext ==
    \/ ManagerNext /\ UNCHANGED chartVars
    \/ \E r \in Replicas : Probe(r)
    \/ InjectCA \/ CallSucceeds \/ CallFails \/ PodFails \/ Apply

ChartSpec == ChartInit /\ [][ChartNext]_allVars

\* The job's pod runs on, and so does helm.  Nothing makes a probe or a call
\* succeed.
ChartFairness == WF_allVars(CallSucceeds \/ CallFails \/ PodFails) /\ WF_allVars(Apply)

FairChartSpec == ChartSpec /\ ManagerFairness /\ ChartFairness

-----------------------------------------------------------------------------
\* api-check-job.yaml:26-47.  The release does not hang on replicas that never
\* get ready: the class is stored or refused, or the job fails.
ReleaseEnds == <>(class # Nil \/ job.state = "failed")

\* api-check-job.yaml:44, "API is ready to respond!": after that the webhooks
\* answer the request for the chart's class.
ReadyAPIAnswers == class # "refused"
================================================================================
