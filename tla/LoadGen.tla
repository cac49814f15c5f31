------------------------------- MODULE LoadGen -------------------------------
(***************************************************************************)
(* The load generator of the DNS demo: main hands jobs to its workers over *)
(* an unbuffered channel, each worker looks the target up with a deadline, *)
(* and a tracker wrapped around the resolver's connections counts the DNS  *)
(* messages it sees.  When the workers are done, main reports.             *)
(*                                                                         *)
(* Go's resolver is external.  Two of its ways matter here: lookups of one *)
(* name at one time share one resolution, and a lookup that is given up    *)
(* leaves its resolution running, with an answer still to come.            *)
(***************************************************************************)
EXTENDS Integers, Sequences, FiniteSets, Functions

CONSTANTS Settings,       \* what a number in the environment may be set to
          Unset,          \* a variable that is not set, or empty
          Nil,            \* no value
          DefaultQueries, \* QUERIES when unset (250)
          MaxWorkers,     \* bound: the largest CONCURRENCY
          MaxQueries,     \* bound: the largest QUERIES
          Candidates,     \* how many names the search list makes of the target
          Attempts,       \* how often the resolver asks for one candidate
          Networks,       \* <<"udp", "tcp">>, or <<"tcp">> with option use-vc
          Replies         \* what may come back for a request

RCodes  == {"NOERROR", "NXDOMAIN", "SERVFAIL"}
Names   == 1..Candidates
Workers == 1..MaxWorkers
Jobs    == 1..MaxQueries

VARIABLES
    main,    \* where main is
    config,  \* the settings main read
    sent,    \* how many jobs were handed out
    worker,  \* what each worker does; "none" when there is no such worker
    flights, \* the resolutions under way, by the job that started them
    group,   \* the resolution a new lookup would share, 0 when there is none
    tracker, \* *dnsTracker
    counts,  \* the atomic counters successes and failures
    report,  \* the summary
    exit     \* the exit code, Nil while main runs

vars == <<main, config, sent, worker, flights, group, tracker, counts, report, exit>>

Stats    == [requests : Nat, responses : Nat, rcodes : [RCodes -> Nat]]
Trackers == [requests : Nat, responses : Nat, nxdomain : Nat, candidates : [Names -> Stats]]
Counts   == [successes : Nat, failures : Nat]
Results  == [tracker : Trackers, counts : Counts]
Flights  == [name : Names, attempt : 1..Attempts, network : {"udp", "tcp"},
             pc : {"ask", "await", "ended"}, found : BOOLEAN,
             waiters : SUBSET Workers, shared : BOOLEAN, cancelled : BOOLEAN]

ASSUME LoadGenAssumption ==
    /\ {MaxWorkers, MaxQueries, Attempts, Candidates} \subseteq Nat \ {0}
    /\ DefaultQueries \in Jobs /\ Settings \cap Int \subseteq -1..MaxWorkers /\ MaxWorkers \in Jobs
    /\ Networks \in {<<"udp", "tcp">>, <<"tcp">>}
    /\ Replies \subseteq RCodes \cup {"truncated", "lost"}
    /\ Nil \notin Flights \cup Results
    /\ Nil \notin [queries : Jobs, concurrency : Workers]

TypeOK ==
    /\ main \in {"start", "send", "wait", "print", "exited"}
    /\ config \in [queries : Jobs, concurrency : Workers] \cup {Nil}
    /\ sent \in 0..MaxQueries
    /\ worker \in [Workers -> {"none", "idle", "lookup"}]
    /\ flights \in [Jobs -> Flights \cup {Nil}]
    /\ group \in {0} \cup {j \in Jobs : flights[j] # Nil}
    /\ tracker \in Trackers /\ counts \in Counts
    /\ report \in Results \cup {Nil}
    /\ exit \in {Nil, 0, 1, 2}

newDNSTracker ==
    [requests |-> 0, responses |-> 0, nxdomain |-> 0,
     candidates |-> [n \in Names |-> [requests |-> 0, responses |-> 0,
                                      rcodes |-> [rcode \in RCodes |-> 0]]]]

Init ==
    /\ main = "start" /\ config = Nil /\ sent = 0 /\ report = Nil /\ exit = Nil
    /\ worker = [k \in Workers |-> "none"]
    /\ flights = [j \in Jobs |-> Nil] /\ group = 0
    /\ tracker = newDNSTracker /\ counts = [successes |-> 0, failures |-> 0]

-----------------------------------------------------------------------------
(* The tracker.  Each of its methods holds its mutex. *)

recordRequest(t, name) ==
    [t EXCEPT !.requests = @ + 1, !.candidates[name].requests = @ + 1]

\* Mutant: ReadFrom hands its packet to Read, which counts it again.
recordResponseTwice(t, name, rcode) ==
    [t EXCEPT !.responses = @ + 2, !.candidates[name].responses = @ + 2,
              !.nxdomain = IF rcode = "NXDOMAIN" THEN @ + 2 ELSE @,
              !.candidates[name].rcodes[rcode] = @ + 2]

recordResponse(t, name, rcode) ==
    [t EXCEPT !.responses = @ + 1, !.candidates[name].responses = @ + 1,
              !.nxdomain = IF rcode = "NXDOMAIN" THEN @ + 1 ELSE @,
              !.candidates[name].rcodes[rcode] = @ + 1]

\* Read sees what the resolver reads.  Over TCP that is the two bytes of the
\* length and then the body, and parseDNSMessage takes neither for a response.
ReadRecords(t, f, reply) ==
    IF f.network = "tcp" \/ reply = "lost" THEN t
    ELSE recordResponse(t, f.name, IF reply = "truncated" THEN "NOERROR" ELSE reply)

-----------------------------------------------------------------------------
(* main and its workers. *)

\* Mutant: zero passes.
envPositiveIntOrZero(value, fallback) ==
    IF value = Unset THEN fallback ELSE IF value \in Int /\ value >= 0 THEN value ELSE Nil

\* A number of the environment; Nil when main exits with code 2 instead.
envPositiveInt(value, fallback) ==
    IF value = Unset THEN fallback ELSE IF value \in Int /\ value >= 1 THEN value ELSE Nil

Exit(code) == main' = "exited" /\ exit' = code

\* main reads its settings and /etc/resolv.conf, and starts its workers.
Start ==
    /\ main = "start"
    /\ \E q, c, timeout \in Settings \cup {Unset} :
         LET queries     == envPositiveInt(q, DefaultQueries)
             concurrency == envPositiveInt(c, 1)
         IN IF Nil \in {queries, concurrency, envPositiveInt(timeout, 2)}
              THEN Exit(2) /\ UNCHANGED <<config, worker>>
              ELSE \/ Exit(1) /\ UNCHANGED <<config, worker>>   \* no resolv.conf
                   \/ /\ main' = "send"
                      /\ config' = [queries |-> queries, concurrency |-> concurrency]
                      /\ worker' = [k \in Workers |-> IF k <= concurrency THEN "idle" ELSE "none"]
                      /\ UNCHANGED exit
    /\ UNCHANGED <<sent, flights, group, tracker, counts, report>>

\* A worker takes the next job; LookupIP shares the resolution under way.
Dispatch(k) ==
    /\ main = "send" /\ sent < config.queries /\ worker[k] = "idle"
    /\ sent' = sent + 1
    /\ worker' = [worker EXCEPT ![k] = "lookup"]
    /\ IF group = 0
         THEN /\ group' = sent + 1
              /\ flights' = [flights EXCEPT ![sent + 1] =
                   [name |-> 1, attempt |-> 1, network |-> Networks[1], pc |-> "ask", found |-> FALSE,
                    waiters |-> {k}, shared |-> FALSE, cancelled |-> FALSE]]
         ELSE /\ flights' = [flights EXCEPT ![group].waiters = @ \cup {k}, ![group].shared = TRUE]
              /\ UNCHANGED group
    /\ UNCHANGED <<main, config, tracker, counts, report, exit>>

\* All jobs are handed out: the channel is closed, and idle workers leave.
CloseJobs ==
    /\ main = "send" /\ sent = config.queries
    /\ main' = "wait"
    /\ UNCHANGED <<config, sent, worker, flights, group, tracker, counts, report, exit>>

\* What job j's resolution becomes; it leaves when nobody waits for its result.
Put(j, f) == flights' = [flights EXCEPT ![j] = IF f.pc = "ended" /\ f.waiters = {} THEN Nil ELSE f]

\* Mutant: the error of a lookup is not looked at.
NextJobUnchecked(k, found) ==
    /\ worker' = [worker EXCEPT ![k] = "idle"]
    /\ counts' = [counts EXCEPT !.successes = @ + 1]

\* LookupIP returns: the worker counts its outcome and takes another job.
NextJob(k, found) ==
    /\ worker' = [worker EXCEPT ![k] = "idle"]
    /\ counts' = IF found THEN [counts EXCEPT !.successes = @ + 1]
                          ELSE [counts EXCEPT !.failures = @ + 1]

Collect(k, j) ==
    /\ flights[j] # Nil /\ k \in flights[j].waiters /\ flights[j].pc = "ended"
    /\ NextJob(k, flights[j].found)
    /\ Put(j, [flights[j] EXCEPT !.waiters = @ \ {k}])
    /\ UNCHANGED <<main, config, sent, group, tracker, report, exit>>

\* Mutant: a lookup has no deadline.
TimeoutNever(k, j) == FALSE

\* The deadline passes.  A resolution nobody shares is forgotten and cancelled.
Timeout(k, j) ==
    /\ flights[j] # Nil /\ k \in flights[j].waiters
    /\ NextJob(k, FALSE)
    /\ LET unshared == group = 0 \/ ~flights[group].shared
       IN /\ Put(j, [flights[j] EXCEPT !.waiters = @ \ {k}, !.cancelled = @ \/ unshared])
          /\ group' = IF unshared THEN 0 ELSE group
    /\ UNCHANGED <<main, config, sent, tracker, report, exit>>

\* workers.Wait returns, and main takes a snapshot of what was counted.
Summarise ==
    /\ main = "wait" /\ \A k \in Workers : worker[k] # "lookup"
    /\ main' = "print"
    /\ report' = [tracker |-> tracker, counts |-> counts]
    /\ UNCHANGED <<config, sent, worker, flights, group, tracker, counts, exit>>

\* Mutant: the snapshot shares the maps of the tracker.
EncodedShared(summary) ==
    [summary EXCEPT !.tracker.candidates =
       [n \in Names |-> [@[n] EXCEPT !.rcodes = tracker.candidates[n].rcodes]]]

\* What json.Encode writes of the summary: snapshot copied the maps.
Encoded(summary) == summary

PrintReport ==
    /\ main = "print"
    /\ report' = Encoded(report)
    /\ Exit(IF report.counts.failures > 0 THEN 1 ELSE 0)
    /\ UNCHANGED <<config, sent, worker, flights, group, tracker, counts>>

-----------------------------------------------------------------------------
(* The resolver: candidates in turn, and for each the networks and attempts. *)

NextName(f) ==
    IF f.name = Candidates THEN [f EXCEPT !.pc = "ended"]
    ELSE [f EXCEPT !.name = @ + 1, !.attempt = 1, !.network = Networks[1], !.pc = "ask"]

After(f, reply) ==
    CASE reply = "NOERROR"   -> [f EXCEPT !.pc = "ended", !.found = TRUE]
      [] reply = "NXDOMAIN"  -> NextName(f)
      [] reply = "truncated" -> [f EXCEPT !.network = "tcp", !.pc = "ask"]
      [] OTHER -> IF f.attempt = Attempts THEN NextName(f)
                  ELSE [f EXCEPT !.attempt = @ + 1, !.network = Networks[1], !.pc = "ask"]

\* The resolution of job j goes on as f; an ended one is not shared any more.
Resolve(j, f) ==
    /\ Put(j, f)
    /\ group' = IF f.pc = "ended" /\ group = j THEN 0 ELSE group
    /\ UNCHANGED <<main, config, sent, worker, counts, report, exit>>

\* Dial and Write.  The request is counted before it is written.
Ask(j) ==
    /\ main # "exited" /\ flights[j] # Nil /\ flights[j].pc = "ask"
    /\ IF flights[j].cancelled
         THEN Resolve(j, [flights[j] EXCEPT !.pc = "ended"]) /\ UNCHANGED tracker
         ELSE \/ Resolve(j, After(flights[j], "lost")) /\ UNCHANGED tracker    \* Dial fails
              \/ /\ tracker' = recordRequest(tracker, flights[j].name)
                 /\ Resolve(j, [flights[j] EXCEPT !.pc = "await"])

\* An answer is read, or none comes in time.
Receive(j) ==
    /\ main # "exited" /\ flights[j] # Nil /\ flights[j].pc = "await"
    /\ \E reply \in Replies \ (IF flights[j].network = "tcp" THEN {"truncated"} ELSE {}) :
         /\ tracker' = ReadRecords(tracker, flights[j], reply)
         /\ Resolve(j, After(flights[j], reply))

-----------------------------------------------------------------------------
Next ==
    \/ Start \/ CloseJobs \/ Summarise \/ PrintReport
    \/ \E k \in Workers : Dispatch(k) \/ \E j \in Jobs : Collect(k, j) \/ Timeout(k, j)
    \/ \E j \in Jobs : Ask(j) \/ Receive(j)
    \/ main = "exited" /\ UNCHANGED vars

\* main, its workers and their timers run; nothing is asked of the network.
Fairness ==
    /\ WF_vars(Start) /\ WF_vars(CloseJobs) /\ WF_vars(Summarise) /\ WF_vars(PrintReport)
    /\ WF_vars(\E k \in Workers : Dispatch(k))
    /\ \A k \in Workers : WF_vars(\E j \in Jobs : Collect(k, j) \/ Timeout(k, j))

Spec == Init /\ [][Next]_vars /\ Fairness

-----------------------------------------------------------------------------
Answered(t, rcode) == SumFunction([n \in Names |-> t.candidates[n].rcodes[rcode]])

\* Each total is the sum of its parts.
AddsUp(t) ==
    /\ t.requests = SumFunction([n \in Names |-> t.candidates[n].requests])
    /\ t.responses = SumFunction([n \in Names |-> t.candidates[n].responses])
    /\ t.responses = SumFunction([rcode \in RCodes |-> Answered(t, rcode)])
    /\ t.nxdomain = Answered(t, "NXDOMAIN")

\* main, snapshot and the tracker, main.go:186-253, 165-178.  The report that is
\* printed adds up, although resolutions nobody waits for are still counted
\* while it is made: a lookup for each job, each total the sum of its parts.
ReportAddsUp ==
    main = "exited" /\ report # Nil =>
      /\ report.counts.successes + report.counts.failures = config.queries
      /\ AddsUp(report.tracker)

\* trackingConn and trackingPacketConn, main.go:255-279.  No more responses are
\* counted for a name than requests, through timeouts, retries, shared and
\* forgotten resolutions, and for both ways to read a connection.
ResponsesWereAskedFor ==
    \A n \in Names : tracker.candidates[n].responses <= tracker.candidates[n].requests

\* The workers, main.go:138-152, where UDP is tried first.  A success stands for
\* an answer the tracker saw; only lookups at one time may share it, one by one
\* worker, so that there are no more successes than workers for each answer.
SuccessesWereAnswered ==
    Networks[1] = "udp" => counts.successes <= MaxWorkers * Answered(tracker, "NOERROR")

\* main, main.go:155-160.  Whatever the settings and the network, main ends: the
\* jobs are taken, each lookup comes back, and nobody waits for a worker that is
\* gone.
AlwaysExits == <>(main = "exited")

-----------------------------------------------------------------------------
(* The inductive invariant behind them.                                    *)

\* Who looks up, what is asked of the network for a name, who may collect an
\* address, and what was told to come back over TCP.
Lookups  == {k \in Workers : worker[k] = "lookup"}
Asked(n) == {j \in Jobs : flights[j] # Nil /\ flights[j].pc = "await" /\ flights[j].name = n}
Found    == {j \in Jobs : flights[j] # Nil /\ flights[j].found}
Served   == {k \in Workers : \E j \in Found : k \in flights[j].waiters}
OverTCP  == {j \in Jobs : flights[j] # Nil /\ flights[j].pc # "ended" /\ flights[j].network = "tcp"}

\* How far main is says what it has.
MainInv ==
    /\ main = "start" => Lookups = {}
    /\ main \in {"send", "wait", "print"} \/ report # Nil => config # Nil
    /\ main \in {"wait", "print"} \/ report # Nil => sent = config.queries
    /\ main = "print" => report # Nil
    /\ report # Nil => /\ main \in {"print", "exited"} /\ Lookups = {}
                       /\ report.counts = counts /\ AddsUp(report.tracker)

\* A worker that looks up waits for one resolution, which was started for a job
\* that was handed out, and which is shared as long as it has not ended.
FlightsInv ==
    /\ \A k \in Workers : worker[k] = "lookup" <=> \E j \in Jobs : flights[j] # Nil /\ k \in flights[j].waiters
    /\ \A i, j \in Jobs : flights[i] # Nil /\ flights[j] # Nil /\ i # j => flights[i].waiters \cap flights[j].waiters = {}
    /\ \A j \in Jobs : flights[j] # Nil => j <= sent /\ (flights[j].found => flights[j].pc = "ended")
    /\ group # 0 => flights[group].pc # "ended"

\* No more responses, and requests under way, than requests.
Expected ==
    \A n \in Names : tracker.candidates[n].responses + Cardinality(Asked(n)) <= tracker.candidates[n].requests

\* What claims to be answered: addresses collected or to be collected, and what
\* was told to come back over TCP, which all workers may wait for.
Claims  == counts.successes + Cardinality(Served) + MaxWorkers * Cardinality(OverTCP)
Covered == Networks[1] = "udp" => Claims <= MaxWorkers * Answered(tracker, "NOERROR")

\* Each job handed out is counted or still looked up; each response stands for a
\* request that was answered, each success for an address somebody got.
CountsInv ==
    /\ counts.successes + counts.failures + Cardinality(Lookups) = sent
    /\ AddsUp(tracker) /\ Expected /\ Covered

\* All of it, from the queries main hands out to the responses trackingConn and
\* trackingPacketConn record (main.go:131-178, 186-279).
LoadGenInv == TypeOK /\ MainInv /\ FlightsInv /\ CountsInv
=============================================================================
