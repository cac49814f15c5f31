---------------------------- MODULE LoadGen_proofs ----------------------------
(***************************************************************************)
(* Proofs about the load generator: its report adds up and matches what    *)
(* was seen of the network, for any number of workers, queries, names and  *)
(* attempts.                                                               *)
(***************************************************************************)
EXTENDS LoadGen, Folding_proofs

\* The bounds are positive numbers, and the sets they bound are finite.
LEMMA Bounds ==
    /\ MaxWorkers \in Nat \ {0} /\ MaxQueries \in Nat \ {0}
    /\ Candidates \in Nat \ {0} /\ Attempts \in Nat \ {0}
    /\ IsFiniteSet(Workers) /\ Cardinality(Workers) = MaxWorkers
    /\ IsFiniteSet(Names) /\ IsFiniteSet(Jobs) /\ IsFiniteSet(RCodes)
    /\ Networks[1] \in {"udp", "tcp"}
<1>1. /\ MaxWorkers \in Nat \ {0} /\ MaxQueries \in Nat \ {0}
      /\ Candidates \in Nat \ {0} /\ Attempts \in Nat \ {0}
      /\ Networks[1] \in {"udp", "tcp"}
  BY LoadGenAssumption
<1>2. IsFiniteSet(RCodes)
  <2>1. RCodes = ({"NOERROR"} \cup {"NXDOMAIN"}) \cup {"SERVFAIL"}
    BY DEF RCodes
  <2> QED
    BY <2>1, FS_Singleton, FS_AddElement
<1> QED
  BY <1>1, <1>2, FS_Interval DEF Workers, Names, Jobs

-----------------------------------------------------------------------------
(* The tracker. *)

\* Its records are of its type.
LEMMA TrackerTypes ==
    ASSUME NEW t \in Trackers, NEW n \in Names, NEW rcode \in RCodes
    PROVE  recordRequest(t, n) \in Trackers /\ recordResponse(t, n, rcode) \in Trackers
<1>1. t.candidates[n] \in Stats /\ t.candidates[n].rcodes[rcode] \in Nat
  BY DEF Trackers, Stats
<1> DEFINE asked    == [t.candidates[n] EXCEPT !.requests = @ + 1]
           answered == [t.candidates[n] EXCEPT !.responses = @ + 1, !.rcodes[rcode] = @ + 1]
<1>2. asked \in Stats /\ answered \in Stats
  <2>1. [t.candidates[n].rcodes EXCEPT ![rcode] = @ + 1] \in [RCodes -> Nat]
    BY <1>1 DEF Stats
  <2>2. answered = [t.candidates[n] EXCEPT !.responses = @ + 1,
                      !.rcodes = [t.candidates[n].rcodes EXCEPT ![rcode] = @ + 1]]
    BY <1>1 DEF Stats
  <2>3. t.candidates[n].requests + 1 \in Nat /\ t.candidates[n].responses + 1 \in Nat
    BY <1>1 DEF Stats
  <2> QED
    BY <1>1, <2>1, <2>2, <2>3 DEF Stats
<1> HIDE DEF asked, answered
<1>3. ASSUME NEW stats \in Stats PROVE [t.candidates EXCEPT ![n] = stats] \in [Names -> Stats]
  BY DEF Trackers
<1>4. recordRequest(t, n) \in Trackers
  <2> DEFINE c == [t.candidates EXCEPT ![n] = asked]
  <2>1. recordRequest(t, n) = [t EXCEPT !.requests = @ + 1, !.candidates = c]
    BY DEF recordRequest, Trackers, asked
  <2>2. c \in [Names -> Stats] /\ t.requests + 1 \in Nat
    BY <1>2, <1>3 DEF Trackers
  <2> HIDE DEF c
  <2> QED
    BY <2>1, <2>2 DEF Trackers
<1>5. recordResponse(t, n, rcode) \in Trackers
  <2> DEFINE c == [t.candidates EXCEPT ![n] = answered]
             x == IF rcode = "NXDOMAIN" THEN t.nxdomain + 1 ELSE t.nxdomain
  <2>1. recordResponse(t, n, rcode) = [t EXCEPT !.responses = @ + 1, !.candidates = c, !.nxdomain = x]
    BY ZenonT(60) DEF recordResponse, Trackers, answered, Stats
  <2>2. c \in [Names -> Stats] /\ t.responses + 1 \in Nat /\ x \in Nat
    BY <1>2, <1>3 DEF Trackers
  <2> HIDE DEF c, x
  <2> QED
    BY <2>1, <2>2, Zenon DEF Trackers
<1> QED
  BY <1>4, <1>5

\* A new tracker has seen nothing.
LEMMA NewTracker ==
    /\ newDNSTracker \in Trackers /\ AddsUp(newDNSTracker)
    /\ \A rcode \in RCodes : Answered(newDNSTracker, rcode) = 0
<1> DEFINE zeros == [n \in Names |-> 0]
           codes == [rcode \in RCodes |-> Answered(newDNSTracker, rcode)]
<1>1. SumFunction(zeros) = 0
  BY Bounds, SumOfZeros
<1>2. \A rcode \in RCodes : Answered(newDNSTracker, rcode) = 0
  BY <1>1 DEF Answered, newDNSTracker
<1>3. SumFunction(codes) = 0
  BY <1>2, Bounds, SumOfZeros
<1>4. newDNSTracker \in Trackers
  BY DEF newDNSTracker, Trackers, Stats
<1>5. AddsUp(newDNSTracker)
  BY <1>1, <1>2, <1>3 DEF AddsUp, newDNSTracker, RCodes
<1> QED
  BY <1>2, <1>4, <1>5

\* A request is one more, and no answer.
LEMMA RequestAddsUp ==
    ASSUME NEW t \in Trackers, NEW n \in Names, AddsUp(t)
    PROVE  /\ AddsUp(recordRequest(t, n))
           /\ \A rcode \in RCodes : Answered(recordRequest(t, n), rcode) = Answered(t, rcode)
<1> DEFINE u == recordRequest(t, n)
           before == [m \in Names |-> t.candidates[m].requests]
           after  == [m \in Names |-> u.candidates[m].requests]
<1>1. u \in Trackers
  BY TrackerTypes DEF RCodes
<1>2. before \in [Names -> Nat] /\ after \in [Names -> Nat]
  BY <1>1 DEF Trackers, Stats
<1>3. \A m \in Names : after[m] = before[m] + (IF m = n THEN 1 ELSE 0)
  BY DEF recordRequest, Trackers, Stats
<1>4. SumFunction(after) = SumFunction(before) + 1
  <2> HIDE DEF after, before
  <2> QED
    BY <1>2, <1>3, Bounds, SumGrows
<1>5. \A rcode \in RCodes : Answered(u, rcode) = Answered(t, rcode)
  <2>1. \A rcode \in RCodes, m \in Names : u.candidates[m].rcodes[rcode] = t.candidates[m].rcodes[rcode]
    BY DEF recordRequest, Trackers, Stats
  <2> QED
    BY <2>1 DEF Answered
<1>6. /\ u.requests = t.requests + 1 /\ u.responses = t.responses /\ u.nxdomain = t.nxdomain
      /\ \A m \in Names : u.candidates[m].responses = t.candidates[m].responses
  BY DEF recordRequest, Trackers, Stats
<1>7. [rcode \in RCodes |-> Answered(u, rcode)] = [rcode \in RCodes |-> Answered(t, rcode)]
  BY <1>5
<1>8. [m \in Names |-> u.candidates[m].responses] = [m \in Names |-> t.candidates[m].responses]
  BY <1>6
<1>9. "NXDOMAIN" \in RCodes
  BY DEF RCodes
<1> QED
  BY <1>4, <1>5, <1>6, <1>7, <1>8, <1>9 DEF AddsUp

\* A number of answers is a number.
LEMMA AnsweredType ==
    ASSUME NEW t \in Trackers, NEW rcode \in RCodes
    PROVE  Answered(t, rcode) \in Nat
<1> DEFINE f == [n \in Names |-> t.candidates[n].rcodes[rcode]]
<1>1. f \in [Names -> Nat]
  BY DEF Trackers, Stats
<1>2. SumFunction(f) \in Nat
  <2> HIDE DEF f
  <2> QED
    BY <1>1, Bounds, SumIsNat
<1> QED
  BY <1>2 DEF Answered

\* A response is one more, of its kind.
LEMMA ResponseAddsUp ==
    ASSUME NEW t \in Trackers, NEW n \in Names, NEW rcode \in RCodes, AddsUp(t)
    PROVE  /\ AddsUp(recordResponse(t, n, rcode))
           /\ \A other \in RCodes :
                Answered(recordResponse(t, n, rcode), other)
                  = Answered(t, other) + (IF other = rcode THEN 1 ELSE 0)
<1> DEFINE u == recordResponse(t, n, rcode)
           before == [m \in Names |-> t.candidates[m].responses]
           after  == [m \in Names |-> u.candidates[m].responses]
           codesBefore == [other \in RCodes |-> Answered(t, other)]
           codesAfter  == [other \in RCodes |-> Answered(u, other)]
<1>1. u \in Trackers
  BY TrackerTypes
<1>2. /\ u.requests = t.requests /\ u.responses = t.responses + 1
      /\ u.nxdomain = (IF rcode = "NXDOMAIN" THEN t.nxdomain + 1 ELSE t.nxdomain)
      /\ \A m \in Names : u.candidates[m].requests = t.candidates[m].requests
  BY DEF recordResponse, Trackers, Stats
<1>3. \A m \in Names : after[m] = before[m] + (IF m = n THEN 1 ELSE 0)
  BY DEF recordResponse, Trackers, Stats
<1>4. SumFunction(after) = SumFunction(before) + 1
  <2>1. before \in [Names -> Nat] /\ after \in [Names -> Nat]
    BY <1>1 DEF Trackers, Stats
  <2> HIDE DEF after, before
  <2> QED
    BY <1>3, <2>1, Bounds, SumGrows
<1>5. ASSUME NEW other \in RCodes
      PROVE  Answered(u, other) = Answered(t, other) + (IF other = rcode THEN 1 ELSE 0)
  <2> DEFINE f == [m \in Names |-> t.candidates[m].rcodes[other]]
             g == [m \in Names |-> u.candidates[m].rcodes[other]]
  <2>1. f \in [Names -> Nat] /\ g \in [Names -> Nat]
    BY <1>1 DEF Trackers, Stats
  <2>2. \A m \in Names : g[m] = f[m] + (IF m = n /\ other = rcode THEN 1 ELSE 0)
    BY DEF recordResponse, Trackers, Stats
  <2>3. CASE other = rcode
    <3>1. \A m \in Names : g[m] = f[m] + (IF m = n THEN 1 ELSE 0)
      BY <2>2, <2>3
    <3>2. SumFunction(g) = SumFunction(f) + 1
      <4> HIDE DEF f, g
      <4> QED
        BY <2>1, <3>1, Bounds, SumGrows
    <3> QED
      BY <2>3, <3>2 DEF Answered
  <2>4. CASE other # rcode
    <3>1. f = g
      BY <2>1, <2>2, <2>4
    <3> QED
      BY <2>4, <3>1, AnsweredType DEF Answered
  <2> QED
    BY <2>3, <2>4
<1>6. SumFunction(codesAfter) = SumFunction(codesBefore) + 1
  <2>1. codesBefore \in [RCodes -> Nat] /\ codesAfter \in [RCodes -> Nat]
    BY <1>1, AnsweredType
  <2>2. \A other \in RCodes : codesAfter[other] = codesBefore[other] + (IF other = rcode THEN 1 ELSE 0)
    BY <1>5
  <2> HIDE DEF codesBefore, codesAfter
  <2> QED
    BY <2>1, <2>2, Bounds, SumGrows
<1>7. [m \in Names |-> u.candidates[m].requests] = [m \in Names |-> t.candidates[m].requests]
  BY <1>2
<1>8. u.nxdomain = Answered(u, "NXDOMAIN")
  <2>1. "NXDOMAIN" \in RCodes
    BY DEF RCodes
  <2>2. t.nxdomain = Answered(t, "NXDOMAIN") /\ t.nxdomain \in Nat
    BY DEF AddsUp, Trackers
  <2>3. Answered(u, "NXDOMAIN") = Answered(t, "NXDOMAIN") + (IF "NXDOMAIN" = rcode THEN 1 ELSE 0)
    BY <1>5, <2>1
  <2> QED
    BY <1>2, <2>2, <2>3
<1> QED
  BY <1>2, <1>4, <1>5, <1>6, <1>7, <1>8 DEF AddsUp

-----------------------------------------------------------------------------
(* The resolver. *)

\* The next candidate is asked for from the start, if there is one.
LEMMA NextNameFacts ==
    ASSUME NEW f \in Flights
    PROVE  LET g == NextName(f)
           IN /\ g \in Flights /\ g.waiters = f.waiters /\ g.found = f.found /\ g.pc \in {"ask", "ended"}
              /\ g.pc = "ask" => g.network = Networks[1]
<1>1. CASE f.name = Candidates
  <2>1. NextName(f) = [f EXCEPT !.pc = "ended"]
    BY <1>1 DEF NextName
  <2>2. [f EXCEPT !.pc = "ended"] \in Flights
    BY Zenon DEF Flights
  <2> QED
    BY <2>1, <2>2 DEF Flights
<1>2. CASE f.name # Candidates
  <2>1. NextName(f) = [f EXCEPT !.name = @ + 1, !.attempt = 1, !.network = Networks[1], !.pc = "ask"]
    BY <1>2 DEF NextName
  <2>2. f.name + 1 \in Names /\ 1 \in 1..Attempts /\ Networks[1] \in {"udp", "tcp"}
    BY <1>2, Bounds DEF Flights, Names
  <2>3. NextName(f) \in Flights
    BY <2>1, <2>2, Zenon DEF Flights
  <2> QED
    BY <2>1, <2>3 DEF Flights
<1> QED
  BY <1>1, <1>2

\* After an answer, or none, a resolution asks again or ends; only a positive
\* answer is an address, and only a truncated one sends it from UDP to TCP.
LEMMA AfterFacts ==
    ASSUME NEW f \in Flights, ~f.found, NEW reply \in RCodes \cup {"truncated", "lost"}
    PROVE  LET g == After(f, reply)
           IN /\ g \in Flights /\ g.waiters = f.waiters /\ g.pc \in {"ask", "ended"}
              /\ g.found => g.pc = "ended" /\ reply = "NOERROR"
              /\ reply = "NOERROR" => g.pc = "ended"
              /\ g.pc = "ask" /\ reply # "truncated" => g.network = Networks[1]
<1>1. CASE reply = "NOERROR"
  <2>1. After(f, reply) = [f EXCEPT !.pc = "ended", !.found = TRUE]
    BY <1>1 DEF After
  <2>2. After(f, reply) \in Flights
    BY <2>1, Zenon DEF Flights
  <2> QED
    BY <1>1, <2>1, <2>2 DEF Flights
<1>2. CASE reply = "NXDOMAIN"
  <2>1. After(f, reply) = NextName(f)
    BY <1>2 DEF After
  <2> QED
    BY <1>2, <2>1, NextNameFacts
<1>3. CASE reply = "truncated"
  <2>1. After(f, reply) = [f EXCEPT !.network = "tcp", !.pc = "ask"]
    BY <1>3 DEF After
  <2>2. After(f, reply) \in Flights
    BY <2>1, Zenon DEF Flights
  <2> QED
    BY <1>3, <2>1, <2>2 DEF Flights
<1>4. CASE reply \in {"SERVFAIL", "lost"}
  <2>1. After(f, reply) = IF f.attempt = Attempts THEN NextName(f)
                          ELSE [f EXCEPT !.attempt = @ + 1, !.network = Networks[1], !.pc = "ask"]
    BY <1>4 DEF After
  <2>2. CASE f.attempt = Attempts
    BY <1>4, <2>1, <2>2, NextNameFacts
  <2>3. CASE f.attempt # Attempts
    <3>1. f.attempt + 1 \in 1..Attempts /\ Networks[1] \in {"udp", "tcp"}
      BY <2>3, Bounds DEF Flights
    <3>2. After(f, reply) \in Flights
      BY <2>1, <2>3, <3>1, Zenon DEF Flights
    <3> QED
      BY <1>4, <2>1, <2>3, <3>2 DEF Flights
  <2> QED
    BY <2>2, <2>3
<1> QED
  BY <1>1, <1>2, <1>3, <1>4 DEF RCodes

\* A resolution goes on as f, with those who wait for it.
GoesOn(j, f) ==
    /\ j \in Jobs /\ flights[j] # Nil /\ flights[j].pc # "ended"
    /\ f \in Flights /\ f.waiters = flights[j].waiters /\ (f.found => f.pc = "ended")
    /\ Resolve(j, f)

\* What becomes of the resolutions when one goes on.
LEMMA ResolveFlights ==
    ASSUME TypeOK, FlightsInv, NEW j, NEW f, GoesOn(j, f)
    PROVE  /\ flights' \in [Jobs -> Flights \cup {Nil}]
           /\ flights'[j] = (IF f.pc = "ended" /\ f.waiters = {} THEN Nil ELSE f)
           /\ \A i \in Jobs : i # j => flights'[i] = flights[i]
           /\ group' \in {0} \cup {i \in Jobs : flights'[i] # Nil}
           /\ UNCHANGED <<main, config, sent, worker, counts, report, exit>>
           /\ Nil \notin Flights
<1>1. Nil \notin Flights
  BY LoadGenAssumption
<1>2. /\ flights \in [Jobs -> Flights \cup {Nil}] /\ j \in Jobs /\ f \in Flights
      /\ group \in {0} \cup {i \in Jobs : flights[i] # Nil}
  BY DEF TypeOK, GoesOn
<1>3. flights' = [flights EXCEPT ![j] = IF f.pc = "ended" /\ f.waiters = {} THEN Nil ELSE f]
  BY DEF GoesOn, Resolve, Put
<1>4. group' = IF f.pc = "ended" /\ group = j THEN 0 ELSE group
  BY DEF GoesOn, Resolve
<1>5. flights'[j] = (IF f.pc = "ended" /\ f.waiters = {} THEN Nil ELSE f) /\ \A i \in Jobs : i # j => flights'[i] = flights[i]
  BY <1>2, <1>3
<1>6. flights' \in [Jobs -> Flights \cup {Nil}]
  BY <1>2, <1>3
<1>7. group' \in {0} \cup {i \in Jobs : flights'[i] # Nil}
  <2>1. CASE group = j
    BY <1>1, <1>2, <1>4, <1>5, <2>1
  <2>2. CASE group # j
    BY <1>2, <1>4, <1>5, <2>2
  <2> QED
    BY <2>1, <2>2
<1>8. UNCHANGED <<main, config, sent, worker, counts, report, exit>>
  BY DEF GoesOn, Resolve
<1> QED
  BY <1>1, <1>5, <1>6, <1>7, <1>8

\* Workers keep waiting for the one resolution they waited for.
LEMMA ResolveKeepsFlights ==
    ASSUME TypeOK, FlightsInv, NEW j, NEW f, GoesOn(j, f)
    PROVE  FlightsInv'
<1>1. /\ j \in Jobs /\ flights[j] # Nil /\ f.waiters = flights[j].waiters
      /\ (f.found => f.pc = "ended") /\ f \in Flights
  BY DEF GoesOn
<1>2. flights'[j] = (IF f.pc = "ended" /\ f.waiters = {} THEN Nil ELSE f)
  BY ResolveFlights
<1>3. \A i \in Jobs : i # j => flights'[i] = flights[i]
  BY ResolveFlights
<1>4. UNCHANGED <<worker, sent>> /\ Nil \notin Flights
  BY ResolveFlights
<1>5. \A k \in Workers : (\E i \in Jobs : flights'[i] # Nil /\ k \in flights'[i].waiters)
                          <=> (\E i \in Jobs : flights[i] # Nil /\ k \in flights[i].waiters)
  BY <1>1, <1>2, <1>3, <1>4
<1>6. \A k \in Workers : worker'[k] = "lookup" <=> \E i \in Jobs : flights'[i] # Nil /\ k \in flights'[i].waiters
  BY <1>4, <1>5 DEF FlightsInv
<1>7. \A i, l \in Jobs : flights'[i] # Nil /\ flights'[l] # Nil /\ i # l => flights'[i].waiters \cap flights'[l].waiters = {}
  <2>1. \A i \in Jobs : flights'[i] # Nil => flights[i] # Nil /\ flights'[i].waiters = flights[i].waiters
    BY <1>1, <1>2, <1>3
  <2>2. \A i, l \in Jobs : flights[i] # Nil /\ flights[l] # Nil /\ i # l => flights[i].waiters \cap flights[l].waiters = {}
    BY DEF FlightsInv
  <2> QED
    BY <2>1, <2>2
<1>8. \A i \in Jobs : flights'[i] # Nil => i <= sent' /\ (flights'[i].found => flights'[i].pc = "ended")
  BY <1>1, <1>2, <1>3, <1>4 DEF FlightsInv
<1>9. group' # 0 => flights'[group'].pc # "ended"
  <2>1. group' = (IF f.pc = "ended" /\ group = j THEN 0 ELSE group) /\ group \in {0} \cup Jobs
    BY DEF GoesOn, Resolve, TypeOK
  <2>2. CASE group = j
    BY <1>2, <2>1, <2>2
  <2>3. CASE group # j
    BY <1>3, <2>1, <2>3 DEF FlightsInv
  <2> QED
    BY <2>2, <2>3
<1> QED
  BY <1>6, <1>7, <1>8, <1>9 DEF FlightsInv

\* The sets that are counted, after a resolution went on.
LEMMA ResolveSets ==
    ASSUME TypeOK, FlightsInv, NEW j, NEW f, GoesOn(j, f)
    PROVE  /\ \A n \in Names :
                Asked(n)' = (Asked(n) \ {j}) \cup (IF f.pc = "await" /\ f.name = n THEN {j} ELSE {})
           /\ Served' = Served \cup (IF f.found THEN f.waiters ELSE {})
           /\ OverTCP' = (OverTCP \ {j}) \cup (IF f.pc # "ended" /\ f.network = "tcp" THEN {j} ELSE {})
           /\ Lookups' = Lookups
<1>1. /\ j \in Jobs /\ flights[j] # Nil /\ f.waiters = flights[j].waiters /\ ~flights[j].found
      /\ f \in Flights /\ Nil \notin Flights
  BY ResolveFlights DEF GoesOn, FlightsInv
<1>2. flights'[j] = (IF f.pc = "ended" /\ f.waiters = {} THEN Nil ELSE f)
  BY ResolveFlights
<1>3. \A i \in Jobs : i # j => flights'[i] = flights[i]
  BY ResolveFlights
<1>4. f.waiters \subseteq Workers /\ UNCHANGED worker
  BY <1>1, ResolveFlights DEF Flights
<1>5. ASSUME NEW n \in Names
      PROVE  Asked(n)' = (Asked(n) \ {j}) \cup (IF f.pc = "await" /\ f.name = n THEN {j} ELSE {})
  BY <1>1, <1>2, <1>3 DEF Asked
<1>6. OverTCP' = (OverTCP \ {j}) \cup (IF f.pc # "ended" /\ f.network = "tcp" THEN {j} ELSE {})
  BY <1>1, <1>2, <1>3 DEF OverTCP
<1>7. Served' = Served \cup (IF f.found THEN f.waiters ELSE {})
  <2>1. Served' = {k \in Workers : \E i \in Jobs : flights'[i] # Nil /\ flights'[i].found /\ k \in flights'[i].waiters}
    BY DEF Served, Found
  <2>2. Served = {k \in Workers : \E i \in Jobs : flights[i] # Nil /\ flights[i].found /\ k \in flights[i].waiters}
    BY DEF Served, Found
  <2>3. ASSUME NEW k \in Workers
        PROVE  (\E i \in Jobs : flights'[i] # Nil /\ flights'[i].found /\ k \in flights'[i].waiters)
                 <=> \/ \E i \in Jobs : flights[i] # Nil /\ flights[i].found /\ k \in flights[i].waiters
                     \/ f.found /\ k \in f.waiters
    BY <1>1, <1>2, <1>3
  <2> QED
    BY <1>4, <2>1, <2>2, <2>3
<1>8. Lookups' = Lookups
  BY <1>4 DEF Lookups
<1> QED
  BY <1>5, <1>6, <1>7, <1>8

\* The sets that are counted are finite.
LEMMA SetsAreFinite ==
    /\ IsFiniteSet(Lookups) /\ Cardinality(Lookups) \in Nat
    /\ IsFiniteSet(Served) /\ Cardinality(Served) \in Nat
    /\ IsFiniteSet(OverTCP) /\ Cardinality(OverTCP) \in Nat
    /\ \A n \in Names : IsFiniteSet(Asked(n)) /\ Cardinality(Asked(n)) \in Nat
<1>1. Lookups \in SUBSET Workers /\ Served \in SUBSET Workers
  BY DEF Lookups, Served
<1>2. OverTCP \in SUBSET Jobs /\ \A n \in Names : Asked(n) \in SUBSET Jobs
  BY DEF OverTCP, Asked
<1> QED
  BY <1>1, <1>2, Bounds, FS_Subset, FS_CardinalityType

\* And stay so.
LEMMA SetsStayFinite ==
    /\ Cardinality(Served') \in Nat /\ Cardinality(OverTCP') \in Nat
    /\ IsFiniteSet(Lookups') /\ Cardinality(Lookups') \in Nat
<1>1. Served' \in SUBSET Workers /\ Lookups' \in SUBSET Workers /\ OverTCP' \in SUBSET Jobs
  BY DEF Served, OverTCP, Lookups
<1> QED
  BY <1>1, Bounds, FS_Subset, FS_CardinalityType

\* Fewer of a set.
LEMMA FewerOf ==
    ASSUME NEW S, IsFiniteSet(S), NEW T \in SUBSET S
    PROVE  Cardinality(T) \in Nat /\ Cardinality(S) \in Nat /\ Cardinality(T) <= Cardinality(S)
  BY FS_Subset, FS_CardinalityType

\* A set grows by one element at most.
LEMMA OneElement ==
    ASSUME NEW S, IsFiniteSet(S), NEW x
    PROVE  /\ IsFiniteSet(S \cup {x}) /\ Cardinality(S \cup {x}) \in Nat
           /\ Cardinality(S \cup {x}) <= Cardinality(S) + 1
<1>1. Cardinality(S) \in Nat /\ IsFiniteSet(S \cup {x}) /\ Cardinality(S \cup {x}) \in Nat
  BY FS_AddElement, FS_CardinalityType
<1>2. Cardinality(S \cup {x}) = Cardinality(S) \/ Cardinality(S \cup {x}) = Cardinality(S) + 1
  BY FS_AddElement
<1> QED
  BY <1>1, <1>2

\* Arithmetic of what is claimed of the answers.
LEMMA OneMore ==
    ASSUME NEW m \in Nat, NEW a \in Nat, NEW b \in Nat
    PROVE  /\ m * (a + 1) = m * a + m /\ m * a \in Nat
           /\ a <= b => m * a <= m * b
  OBVIOUS

\* Without an address and a way to TCP there are no more claims.
LEMMA NoNewClaim ==
    ASSUME TypeOK, Covered, Served' \subseteq Served, OverTCP' \subseteq OverTCP,
           counts'.successes = counts.successes,
           Answered(tracker', "NOERROR") >= Answered(tracker, "NOERROR"), tracker' \in Trackers
    PROVE  Covered'
<1>1. /\ Cardinality(Served') \in Nat /\ Cardinality(Served) \in Nat
      /\ Cardinality(OverTCP') \in Nat /\ Cardinality(OverTCP) \in Nat
      /\ Cardinality(Served') <= Cardinality(Served) /\ Cardinality(OverTCP') <= Cardinality(OverTCP)
  BY SetsAreFinite, FewerOf
<1>2. /\ MaxWorkers \in Nat /\ counts.successes \in Nat
      /\ Answered(tracker, "NOERROR") \in Nat /\ Answered(tracker', "NOERROR") \in Nat
  BY Bounds, AnsweredType DEF TypeOK, Counts, RCodes
<1>3. MaxWorkers * Cardinality(OverTCP') <= MaxWorkers * Cardinality(OverTCP)
      /\ MaxWorkers * Cardinality(OverTCP') \in Nat /\ MaxWorkers * Cardinality(OverTCP) \in Nat
  BY <1>1, <1>2, OneMore
<1>4. MaxWorkers * Answered(tracker, "NOERROR") <= MaxWorkers * Answered(tracker', "NOERROR")
      /\ MaxWorkers * Answered(tracker, "NOERROR") \in Nat /\ MaxWorkers * Answered(tracker', "NOERROR") \in Nat
  BY <1>2, OneMore
<1> QED
  BY <1>1, <1>2, <1>3, <1>4 DEF Covered, Claims

\* At most all workers get an address at once.
LEMMA ServedGrows ==
    ASSUME NEW W \in SUBSET Workers, Served' \subseteq Served \cup W
    PROVE  /\ Cardinality(Served') \in Nat /\ Cardinality(Served) \in Nat
           /\ Cardinality(Served') <= Cardinality(Served) + MaxWorkers
<1>1. IsFiniteSet(W) /\ IsFiniteSet(Served) /\ Cardinality(W) \in Nat /\ Cardinality(W) <= MaxWorkers
  BY Bounds, FewerOf, FS_Subset, SetsAreFinite
<1>2. /\ IsFiniteSet(Served \cup W)
      /\ Cardinality(Served \cup W) <= Cardinality(Served) + Cardinality(W)
  <2>1. Cardinality(Served \cup W) = Cardinality(Served) + Cardinality(W) - Cardinality(Served \cap W)
    BY <1>1, FS_Union
  <2>2. Cardinality(Served \cap W) \in Nat
    BY <1>1, FewerOf
  <2> QED
    BY <1>1, <2>1, <2>2, FS_Union, SetsAreFinite
<1>3. Cardinality(Served') <= Cardinality(Served \cup W) /\ Cardinality(Served \cup W) \in Nat /\ Cardinality(Served') \in Nat
  BY <1>2, FewerOf
<1> QED
  BY <1>1, <1>2, <1>3, Bounds, SetsAreFinite

\* An address, or the way to TCP, is covered by the answer that gave it.
LEMMA AnswerCovers ==
    ASSUME TypeOK, Covered, tracker' \in Trackers, counts'.successes = counts.successes, NEW j \in Jobs,
           Answered(tracker', "NOERROR") = Answered(tracker, "NOERROR") + 1,
           NEW W \in SUBSET Workers,
           \/ Served' \subseteq Served \cup W /\ OverTCP' \subseteq OverTCP
           \/ Served' \subseteq Served /\ OverTCP' \subseteq OverTCP \cup {j}
    PROVE  Covered'
<1>1. /\ MaxWorkers \in Nat /\ counts.successes \in Nat
      /\ Answered(tracker, "NOERROR") \in Nat
  BY Bounds, AnsweredType DEF TypeOK, Counts, RCodes
<1>2. /\ IsFiniteSet(Served) /\ Cardinality(Served) \in Nat /\ Cardinality(Served') \in Nat
      /\ IsFiniteSet(OverTCP) /\ Cardinality(OverTCP) \in Nat /\ Cardinality(OverTCP') \in Nat
  BY SetsAreFinite, SetsStayFinite
<1>3. MaxWorkers * Answered(tracker', "NOERROR") = MaxWorkers * Answered(tracker, "NOERROR") + MaxWorkers
      /\ MaxWorkers * Answered(tracker, "NOERROR") \in Nat
  BY <1>1, OneMore
<1>4. CASE Served' \subseteq Served \cup W /\ OverTCP' \subseteq OverTCP
  <2>1. Cardinality(OverTCP') <= Cardinality(OverTCP)
    BY <1>2, <1>4, FewerOf
  <2>2. MaxWorkers * Cardinality(OverTCP') <= MaxWorkers * Cardinality(OverTCP)
        /\ MaxWorkers * Cardinality(OverTCP') \in Nat /\ MaxWorkers * Cardinality(OverTCP) \in Nat
    BY <1>1, <1>2, <2>1, OneMore
  <2>3. Cardinality(Served') <= Cardinality(Served) + MaxWorkers
    BY <1>4, ServedGrows
  <2> QED
    BY <1>1, <1>2, <1>3, <2>2, <2>3 DEF Covered, Claims
<1>5. CASE Served' \subseteq Served /\ OverTCP' \subseteq OverTCP \cup {j}
  <2>1. IsFiniteSet(OverTCP \cup {j}) /\ Cardinality(OverTCP \cup {j}) \in Nat
        /\ Cardinality(OverTCP \cup {j}) <= Cardinality(OverTCP) + 1
    BY <1>2, OneElement, Zenon
  <2>2. Cardinality(OverTCP') <= Cardinality(OverTCP) + 1
    BY <1>2, <1>5, <2>1, FewerOf
  <2>3. MaxWorkers * Cardinality(OverTCP') <= MaxWorkers * (Cardinality(OverTCP) + 1)
        /\ MaxWorkers * (Cardinality(OverTCP) + 1) = MaxWorkers * Cardinality(OverTCP) + MaxWorkers
        /\ MaxWorkers * Cardinality(OverTCP') \in Nat /\ MaxWorkers * Cardinality(OverTCP) \in Nat
    BY <1>1, <1>2, <2>2, OneMore
  <2>4. Cardinality(Served') <= Cardinality(Served)
    BY <1>2, <1>5, FewerOf
  <2> QED
    BY <1>1, <1>2, <1>3, <2>3, <2>4 DEF Covered, Claims
<1> QED
  BY <1>4, <1>5

\* An address that came over TCP was covered by the answer that led there.
LEMMA TruncatedCovers ==
    ASSUME TypeOK, Covered, tracker' = tracker, counts'.successes = counts.successes, NEW j \in OverTCP,
           NEW W \in SUBSET Workers, Served' \subseteq Served \cup W, OverTCP' \subseteq OverTCP \ {j}
    PROVE  Covered'
<1>1. /\ MaxWorkers \in Nat /\ counts.successes \in Nat
      /\ Answered(tracker, "NOERROR") \in Nat
  BY Bounds, AnsweredType DEF TypeOK, Counts, RCodes
<1>2. /\ IsFiniteSet(OverTCP) /\ Cardinality(OverTCP) \in Nat /\ Cardinality(OverTCP') \in Nat
  BY SetsAreFinite, SetsStayFinite
<1>3. /\ Cardinality(Served') <= Cardinality(Served) + MaxWorkers
      /\ Cardinality(Served) \in Nat /\ Cardinality(Served') \in Nat
  BY ServedGrows
<1>4. Cardinality(OverTCP') + 1 <= Cardinality(OverTCP)
  <2>1. IsFiniteSet(OverTCP \ {j}) /\ Cardinality(OverTCP \ {j}) = Cardinality(OverTCP) - 1
    BY <1>2, FS_RemoveElement
  <2>2. Cardinality(OverTCP') <= Cardinality(OverTCP \ {j})
    BY <2>1, FewerOf
  <2> QED
    BY <1>2, <2>1, <2>2
<1>5. MaxWorkers * (Cardinality(OverTCP') + 1) <= MaxWorkers * Cardinality(OverTCP)
      /\ MaxWorkers * (Cardinality(OverTCP') + 1) = MaxWorkers * Cardinality(OverTCP') + MaxWorkers
      /\ MaxWorkers * Cardinality(OverTCP') \in Nat /\ MaxWorkers * Cardinality(OverTCP) \in Nat
  BY <1>1, <1>2, <1>4, OneMore
<1>6. Answered(tracker', "NOERROR") = Answered(tracker, "NOERROR")
  BY DEF Answered
<1> QED
  BY <1>1, <1>2, <1>3, <1>5, <1>6 DEF Covered, Claims

\* A collected address stays the one claim it was.
LEMMA CollectedCovers ==
    ASSUME TypeOK, Covered, tracker' = tracker, NEW k \in Served,
           counts'.successes = counts.successes + 1, Served' = Served \ {k}, OverTCP' \subseteq OverTCP
    PROVE  Covered'
<1>1. /\ MaxWorkers \in Nat /\ counts.successes \in Nat
      /\ Answered(tracker, "NOERROR") \in Nat
  BY Bounds, AnsweredType DEF TypeOK, Counts, RCodes
<1>2. Cardinality(Served') = Cardinality(Served) - 1 /\ Cardinality(Served) \in Nat
  BY SetsAreFinite, FS_RemoveElement
<1>3. /\ Cardinality(OverTCP) \in Nat /\ Cardinality(OverTCP') \in Nat
      /\ Cardinality(OverTCP') <= Cardinality(OverTCP)
  BY SetsAreFinite, FewerOf
<1>4. MaxWorkers * Cardinality(OverTCP') <= MaxWorkers * Cardinality(OverTCP)
      /\ MaxWorkers * Cardinality(OverTCP') \in Nat /\ MaxWorkers * Cardinality(OverTCP) \in Nat
  BY <1>1, <1>3, OneMore
<1>5. Answered(tracker', "NOERROR") = Answered(tracker, "NOERROR")
  BY DEF Answered
<1> QED
  BY <1>1, <1>2, <1>4, <1>5 DEF Covered, Claims

\* The counters of a name.
LEMMA StatsTypes ==
    ASSUME NEW t \in Trackers, NEW n \in Names
    PROVE  t.candidates[n].responses \in Nat /\ t.candidates[n].requests \in Nat
  BY DEF Trackers, Stats

\* A request goes out for the name that is asked for.
LEMMA AskExpected ==
    ASSUME TypeOK, Expected, NEW j \in Jobs, NEW m \in Names,
           tracker' = recordRequest(tracker, m),
           \A n \in Names : Asked(n)' = (Asked(n) \ {j}) \cup (IF n = m THEN {j} ELSE {})
    PROVE  Expected'
<1> SUFFICES ASSUME NEW n \in Names
             PROVE  tracker'.candidates[n].responses + Cardinality(Asked(n)') <= tracker'.candidates[n].requests
  BY DEF Expected
<1>1. tracker \in Trackers
  BY DEF TypeOK
<1>2. /\ tracker'.candidates[n].responses = tracker.candidates[n].responses
      /\ tracker'.candidates[n].requests = tracker.candidates[n].requests + (IF n = m THEN 1 ELSE 0)
  BY <1>1 DEF recordRequest, Trackers, Stats
<1>3. tracker.candidates[n].responses \in Nat /\ tracker.candidates[n].requests \in Nat
  BY <1>1, StatsTypes
<1>4. IsFiniteSet(Asked(n)) /\ Cardinality(Asked(n)) \in Nat
  BY SetsAreFinite
<1>5. Cardinality(Asked(n)') \in Nat /\ Cardinality(Asked(n)') <= Cardinality(Asked(n)) + (IF n = m THEN 1 ELSE 0)
  <2>1. CASE n = m
    <3>1. Asked(n)' \subseteq Asked(n) \cup {j}
      BY <2>1
    <3>2. IsFiniteSet(Asked(n) \cup {j}) /\ Cardinality(Asked(n) \cup {j}) \in Nat
          /\ Cardinality(Asked(n) \cup {j}) <= Cardinality(Asked(n)) + 1
      BY <1>4, OneElement, Zenon
    <3>3. Cardinality(Asked(n)') \in Nat /\ Cardinality(Asked(n)') <= Cardinality(Asked(n) \cup {j})
      BY <3>1, <3>2, FewerOf
    <3> QED
      BY <1>4, <2>1, <3>2, <3>3
  <2>2. CASE n # m
    BY <1>4, <2>2, FewerOf
  <2> QED
    BY <2>1, <2>2
<1>6. tracker.candidates[n].responses + Cardinality(Asked(n)) <= tracker.candidates[n].requests
  BY DEF Expected
<1> QED
  BY <1>2, <1>3, <1>4, <1>5, <1>6

\* What goes on without a request is counted at most once, and was waited for.
LEMMA AnswerExpected ==
    ASSUME TypeOK, Expected, NEW j \in Jobs, NEW m \in Names, NEW rcode \in RCodes,
           \A n \in Names : Asked(n)' = Asked(n) \ {j},
           \/ tracker' = tracker
           \/ tracker' = recordResponse(tracker, m, rcode) /\ j \in Asked(m)
    PROVE  Expected'
<1> SUFFICES ASSUME NEW n \in Names
             PROVE  tracker'.candidates[n].responses + Cardinality(Asked(n)') <= tracker'.candidates[n].requests
  BY DEF Expected
<1>1. tracker \in Trackers
  BY DEF TypeOK
<1>2. tracker.candidates[n].responses \in Nat /\ tracker.candidates[n].requests \in Nat
  BY <1>1, StatsTypes
<1>3. IsFiniteSet(Asked(n)) /\ Cardinality(Asked(n)) \in Nat
  BY SetsAreFinite
<1>4. tracker.candidates[n].responses + Cardinality(Asked(n)) <= tracker.candidates[n].requests
  BY DEF Expected
<1>5. Cardinality(Asked(n)') \in Nat /\ Cardinality(Asked(n)') <= Cardinality(Asked(n))
  BY <1>3, FewerOf
<1>6. CASE tracker' = tracker
  BY <1>2, <1>3, <1>4, <1>5, <1>6
<1>7. CASE tracker' = recordResponse(tracker, m, rcode) /\ j \in Asked(m)
  <2>1. /\ tracker'.candidates[n].responses = tracker.candidates[n].responses + (IF n = m THEN 1 ELSE 0)
        /\ tracker'.candidates[n].requests = tracker.candidates[n].requests
    BY <1>1, <1>7 DEF recordResponse, Trackers, Stats
  <2>2. CASE n = m
    <3>1. Cardinality(Asked(n)') = Cardinality(Asked(n)) - 1
      BY <1>3, <1>7, <2>2, FS_RemoveElement
    <3> QED
      BY <1>2, <1>3, <1>4, <2>1, <2>2, <3>1
  <2>3. CASE n # m
    BY <1>2, <1>3, <1>4, <1>5, <2>1, <2>3
  <2> QED
    BY <2>2, <2>3
<1> QED
  BY <1>6, <1>7

-----------------------------------------------------------------------------
(* The steps of the resolver keep the invariant. *)

\* What is left to show when a resolution goes on: the tracker's part.
LEMMA GoesOnKeeps ==
    ASSUME LoadGenInv, NEW j, NEW f, GoesOn(j, f),
           tracker' \in Trackers, AddsUp(tracker'), Expected', Covered'
    PROVE  LoadGenInv'
<1>1. TypeOK /\ MainInv /\ FlightsInv /\ CountsInv
  BY DEF LoadGenInv
<1>2. /\ UNCHANGED <<main, config, sent, worker, counts, report, exit>>
      /\ flights' \in [Jobs -> Flights \cup {Nil}]
      /\ group' \in {0} \cup {i \in Jobs : flights'[i] # Nil}
  BY <1>1, ResolveFlights
<1>3. TypeOK'
  BY <1>1, <1>2 DEF TypeOK
<1>4. Lookups' = Lookups
  BY <1>2 DEF Lookups
<1>5. MainInv'
  BY <1>1, <1>2, <1>4 DEF MainInv, AddsUp, Answered
<1>6. FlightsInv'
  BY <1>1, ResolveKeepsFlights
<1>7. CountsInv'
  BY <1>1, <1>2, <1>4 DEF CountsInv, AddsUp, Answered
<1> QED
  BY <1>3, <1>5, <1>6, <1>7 DEF LoadGenInv

\* One that asks again where it asked, or ends without an address, claims nothing.
LEMMA NothingGained ==
    ASSUME LoadGenInv, NEW j, NEW f, GoesOn(j, f), ~f.found,
           f.pc # "ended" => f.network = Networks[1] \/ f.network = flights[j].network,
           tracker' \in Trackers, Answered(tracker', "NOERROR") >= Answered(tracker, "NOERROR")
    PROVE  Covered'
<1>1. TypeOK /\ FlightsInv /\ Covered
  BY DEF LoadGenInv, CountsInv
<1>2. /\ Served' = Served
      /\ OverTCP' = (OverTCP \ {j}) \cup (IF f.pc # "ended" /\ f.network = "tcp" THEN {j} ELSE {})
  BY <1>1, ResolveSets
<1>3. CASE Networks[1] # "udp"
  BY <1>3 DEF Covered
<1>4. CASE Networks[1] = "udp"
  <2>1. OverTCP' \subseteq OverTCP
    BY <1>2, <1>4 DEF OverTCP, GoesOn
  <2>2. counts' = counts
    BY <1>1, ResolveFlights
  <2> QED
    BY <1>1, <1>2, <2>1, <2>2, NoNewClaim
<1> QED
  BY <1>3, <1>4

\* Ask, whether it is given up, cannot be sent, or is counted and sent.
LEMMA AskKeeps ==
    ASSUME LoadGenInv, NEW j \in Jobs, Ask(j)
    PROVE  LoadGenInv'
<1> DEFINE f == flights[j]
<1>1. TypeOK /\ FlightsInv /\ AddsUp(tracker) /\ Expected
  BY DEF LoadGenInv, CountsInv
<1>2. f \in Flights /\ f.pc = "ask" /\ ~f.found /\ f # Nil /\ tracker \in Trackers
  BY <1>1 DEF TypeOK, FlightsInv, Ask
<1>3. ASSUME NEW g \in Flights, g.waiters = f.waiters, ~g.found, g.pc # "await", Resolve(j, g), tracker' = tracker,
             g.pc # "ended" => g.network = Networks[1]
      PROVE  LoadGenInv'
  <2>1. GoesOn(j, g)
    BY <1>2, <1>3 DEF GoesOn
  <2>2. AddsUp(tracker') /\ tracker' \in Trackers /\ Answered(tracker', "NOERROR") = Answered(tracker, "NOERROR")
    BY <1>1, <1>2, <1>3 DEF AddsUp, Answered
  <2>3. Answered(tracker, "NOERROR") \in Nat
    BY <1>2, AnsweredType DEF RCodes
  <2>4. Covered'
    BY <1>3, <2>1, <2>2, <2>3, NothingGained
  <2>5. Expected'
    <3>1. \A n \in Names : Asked(n)' = Asked(n) \ {j}
      BY <1>1, <1>3, <2>1, ResolveSets
    <3>2. f.name \in Names /\ "NOERROR" \in RCodes
      BY <1>2 DEF Flights, RCodes
    <3> QED
      BY <1>1, <1>3, <3>1, <3>2, AnswerExpected
  <2> QED
    BY <2>1, <2>2, <2>4, <2>5, GoesOnKeeps
<1>4. CASE f.cancelled
  <2>1. Resolve(j, [f EXCEPT !.pc = "ended"]) /\ tracker' = tracker
    BY <1>4 DEF Ask
  <2>2. [f EXCEPT !.pc = "ended"] \in Flights
    BY <1>2, Zenon DEF Flights
  <2>3. /\ [f EXCEPT !.pc = "ended"].pc = "ended" /\ ~[f EXCEPT !.pc = "ended"].found
        /\ [f EXCEPT !.pc = "ended"].waiters = f.waiters
    BY <1>2 DEF Flights
  <2> QED
    BY <1>3, <2>1, <2>2, <2>3
<1>5. CASE Resolve(j, After(f, "lost")) /\ tracker' = tracker
  <2>1. /\ After(f, "lost") \in Flights /\ After(f, "lost").waiters = f.waiters /\ ~After(f, "lost").found
        /\ After(f, "lost").pc \in {"ask", "ended"}
        /\ After(f, "lost").pc = "ask" => After(f, "lost").network = Networks[1]
    BY <1>2, AfterFacts
  <2> QED
    BY <1>3, <1>5, <2>1
<1>6. CASE tracker' = recordRequest(tracker, f.name) /\ Resolve(j, [f EXCEPT !.pc = "await"])
  <2> DEFINE g == [f EXCEPT !.pc = "await"]
  <2>1. g \in Flights
    BY <1>2, Zenon DEF Flights
  <2>2. /\ g.pc = "await" /\ ~g.found /\ g.waiters = f.waiters /\ g.network = f.network /\ g.name = f.name
        /\ f.name \in Names
    BY <1>2 DEF Flights
  <2> HIDE DEF g
  <2>3. GoesOn(j, g)
    BY <1>2, <1>6, <2>1, <2>2 DEF GoesOn, g
  <2>4. AddsUp(tracker') /\ Answered(tracker', "NOERROR") = Answered(tracker, "NOERROR") /\ tracker' \in Trackers
    BY <1>1, <1>2, <1>6, <2>2, RequestAddsUp, TrackerTypes DEF RCodes
  <2>5. Answered(tracker, "NOERROR") \in Nat
    BY <1>2, AnsweredType DEF RCodes
  <2>6. Covered'
    BY <2>2, <2>3, <2>4, <2>5, NothingGained
  <2>7. Expected'
    <3>1. \A n \in Names : Asked(n)' = (Asked(n) \ {j}) \cup (IF n = f.name THEN {j} ELSE {})
      BY <1>1, <2>2, <2>3, ResolveSets
    <3> QED
      BY <1>1, <1>6, <2>2, <3>1, AskExpected
  <2> QED
    BY <2>3, <2>4, <2>6, <2>7, GoesOnKeeps
<1> QED
  BY <1>4, <1>5, <1>6 DEF Ask

\* Receive, whatever comes back, over UDP, where it is counted, or over TCP.
LEMMA ReceiveKeeps ==
    ASSUME LoadGenInv, NEW j \in Jobs, Receive(j)
    PROVE  LoadGenInv'
<1> DEFINE f == flights[j]
<1>1. TypeOK /\ FlightsInv /\ AddsUp(tracker) /\ Expected /\ Covered
  BY DEF LoadGenInv, CountsInv
<1>2. f \in Flights /\ f.pc = "await" /\ ~f.found /\ f # Nil /\ tracker \in Trackers
  BY <1>1 DEF TypeOK, FlightsInv, Receive
<1>3. PICK reply \in Replies \ (IF f.network = "tcp" THEN {"truncated"} ELSE {}) :
        tracker' = ReadRecords(tracker, f, reply) /\ Resolve(j, After(f, reply))
  BY DEF Receive
<1> DEFINE g == After(f, reply)
           rcode == IF reply = "truncated" THEN "NOERROR" ELSE reply
<1>4. reply \in RCodes \cup {"truncated", "lost"} /\ (f.network = "tcp" => reply # "truncated")
  BY <1>3, LoadGenAssumption
<1>5. /\ g \in Flights /\ g.waiters = f.waiters /\ g.pc \in {"ask", "ended"}
      /\ g.found => g.pc = "ended" /\ reply = "NOERROR"
      /\ reply = "NOERROR" => g.pc = "ended"
      /\ g.pc = "ask" /\ reply # "truncated" => g.network = Networks[1]
  BY <1>2, <1>4, AfterFacts
<1>6. f.name \in Names /\ f.network \in {"udp", "tcp"} /\ f.waiters \in SUBSET Workers /\ "NOERROR" \in RCodes
  BY <1>2 DEF Flights, RCodes
<1> HIDE DEF g
<1>7. GoesOn(j, g)
  BY <1>2, <1>3, <1>5 DEF GoesOn, g
<1>8. /\ \A n \in Names : Asked(n)' = Asked(n) \ {j}
      /\ Served' = Served \cup (IF g.found THEN f.waiters ELSE {})
      /\ OverTCP' = (OverTCP \ {j}) \cup (IF g.pc # "ended" /\ g.network = "tcp" THEN {j} ELSE {})
      /\ counts' = counts
  <2>1. counts' = counts
    BY <1>1, <1>7, ResolveFlights
  <2> QED
    BY <1>1, <1>5, <1>7, <2>1, ResolveSets
<1>9. CASE f.network = "tcp" \/ reply = "lost"
  <2>1. tracker' = tracker
    BY <1>3, <1>9 DEF ReadRecords
  <2>2. AddsUp(tracker') /\ tracker' \in Trackers /\ Answered(tracker', "NOERROR") = Answered(tracker, "NOERROR")
    BY <1>1, <1>2, <2>1 DEF AddsUp, Answered
  <2>3. Expected'
    BY <1>1, <1>6, <1>8, <2>1, AnswerExpected
  <2>4. Covered'
    <3>1. CASE g.found
      <4>1. j \in OverTCP
        BY <1>2, <1>5, <1>9, <3>1 DEF OverTCP
      <4>2. Served' \subseteq Served \cup f.waiters /\ OverTCP' \subseteq OverTCP \ {j}
        BY <1>5, <1>8, <3>1
      <4> QED
        BY <1>1, <1>6, <1>8, <2>1, <4>1, <4>2, TruncatedCovers
    <3>2. CASE ~g.found
      <4>1. Answered(tracker, "NOERROR") \in Nat
        BY <1>2, <1>6, AnsweredType
      <4>2. g.pc # "ended" => g.network = Networks[1]
        BY <1>4, <1>5, <1>9
      <4> QED
        BY <1>7, <2>2, <3>2, <4>1, <4>2, NothingGained
    <3> QED
      BY <3>1, <3>2
  <2> QED
    BY <1>7, <2>2, <2>3, <2>4, GoesOnKeeps
<1>10. CASE f.network # "tcp" /\ reply # "lost"
  <2>1. tracker' = recordResponse(tracker, f.name, rcode) /\ rcode \in RCodes
    BY <1>3, <1>4, <1>6, <1>10 DEF ReadRecords
  <2> HIDE DEF rcode
  <2>2. /\ AddsUp(tracker') /\ tracker' \in Trackers
        /\ Answered(tracker', "NOERROR") = Answered(tracker, "NOERROR") + (IF "NOERROR" = rcode THEN 1 ELSE 0)
    BY <1>1, <1>2, <1>6, <2>1, ResponseAddsUp, TrackerTypes
  <2>3. Expected'
    <3>1. j \in Asked(f.name)
      BY <1>2 DEF Asked
    <3> QED
      BY <1>1, <1>6, <1>8, <2>1, <3>1, AnswerExpected
  <2>4. Covered'
    <3>1. Answered(tracker, "NOERROR") \in Nat
      BY <1>2, <1>6, AnsweredType
    <3>2. CASE rcode = "NOERROR"
      <4>1. \/ Served' \subseteq Served \cup f.waiters /\ OverTCP' \subseteq OverTCP
            \/ Served' \subseteq Served /\ OverTCP' \subseteq OverTCP \cup {j}
        <5>1. reply \in {"NOERROR", "truncated"}
          BY <3>2 DEF rcode
        <5> QED
          BY <1>5, <1>8, <5>1
      <4> QED
        BY <1>1, <1>6, <1>8, <2>2, <3>2, <4>1, AnswerCovers
    <3>3. CASE rcode # "NOERROR"
      <4>1. ~g.found /\ (g.pc # "ended" => g.network = Networks[1])
        BY <1>5, <3>3 DEF rcode
      <4> QED
        BY <1>7, <2>2, <3>1, <3>3, <4>1, NothingGained
    <3> QED
      BY <3>2, <3>3
  <2> QED
    BY <1>7, <2>2, <2>3, <2>4, GoesOnKeeps
<1> QED
  BY <1>9, <1>10

-----------------------------------------------------------------------------
(* The steps of the workers keep the invariant. *)

\* What nobody asks for anew is still expected.
LEMMA SameExpected ==
    ASSUME TypeOK, Expected, tracker' = tracker, \A n \in Names : Asked(n)' \subseteq Asked(n)
    PROVE  Expected'
<1> SUFFICES ASSUME NEW n \in Names
             PROVE  tracker.candidates[n].responses + Cardinality(Asked(n)') <= tracker.candidates[n].requests
  BY DEF Expected
<1>1. tracker.candidates[n].responses \in Nat /\ tracker.candidates[n].requests \in Nat
  BY StatsTypes DEF TypeOK
<1>2. Cardinality(Asked(n)') \in Nat /\ Cardinality(Asked(n)) \in Nat /\ Cardinality(Asked(n)') <= Cardinality(Asked(n))
  BY SetsAreFinite, FewerOf
<1>3. tracker.candidates[n].responses + Cardinality(Asked(n)) <= tracker.candidates[n].requests
  BY DEF Expected
<1> QED
  BY <1>1, <1>2, <1>3

\* Worker k leaves job j's resolution, which is g without it, and is counted.
Leaves(k, j, g) ==
    /\ flights[j] # Nil /\ k \in flights[j].waiters
    /\ g \in Flights /\ g.waiters = flights[j].waiters \ {k}
    /\ g.name = flights[j].name /\ g.pc = flights[j].pc
    /\ g.network = flights[j].network /\ g.found = flights[j].found
    /\ Put(j, g) /\ group' \in {group, 0}
    /\ worker' = [worker EXCEPT ![k] = "idle"]
    /\ UNCHANGED <<main, config, sent, tracker, report, exit>>

\* The others wait on, and k was the only one that left.
LEMMA LeavesFlights ==
    ASSUME LoadGenInv, NEW k \in Workers, NEW j \in Jobs, NEW g, Leaves(k, j, g)
    PROVE  /\ flights' \in [Jobs -> Flights \cup {Nil}] /\ group' \in {0} \cup {i \in Jobs : flights'[i] # Nil}
           /\ FlightsInv'
           /\ Lookups' = Lookups \ {k} /\ k \in Lookups
           /\ \A n \in Names : Asked(n)' \subseteq Asked(n)
           /\ OverTCP' \subseteq OverTCP /\ Served' = Served \ {k}
<1>1. TypeOK /\ FlightsInv
  BY DEF LoadGenInv
<1>2. /\ flights \in [Jobs -> Flights \cup {Nil}] /\ group \in {0} \cup {i \in Jobs : flights[i] # Nil}
      /\ worker \in [Workers -> {"none", "idle", "lookup"}] /\ Nil \notin Flights
  BY <1>1, LoadGenAssumption DEF TypeOK
<1>3. /\ flights[j] # Nil /\ k \in flights[j].waiters
      /\ g \in Flights /\ g.waiters = flights[j].waiters \ {k}
      /\ g.name = flights[j].name /\ g.pc = flights[j].pc
      /\ g.network = flights[j].network /\ g.found = flights[j].found
      /\ group' \in {group, 0} /\ sent' = sent
  BY DEF Leaves
<1>4. /\ flights'[j] = (IF g.pc = "ended" /\ g.waiters = {} THEN Nil ELSE g)
      /\ \A i \in Jobs : i # j => flights'[i] = flights[i]
      /\ flights' \in [Jobs -> Flights \cup {Nil}]
  BY <1>2, <1>3 DEF Leaves, Put
<1>5. worker'[k] = "idle" /\ \A l \in Workers : l # k => worker'[l] = worker[l]
  BY <1>2 DEF Leaves
<1>6. /\ \A l \in Workers : worker[l] = "lookup" <=> \E i \in Jobs : flights[i] # Nil /\ l \in flights[i].waiters
      /\ \A i, l \in Jobs : flights[i] # Nil /\ flights[l] # Nil /\ i # l => flights[i].waiters \cap flights[l].waiters = {}
      /\ \A i \in Jobs : flights[i] # Nil => i <= sent /\ (flights[i].found => flights[i].pc = "ended")
      /\ group # 0 => flights[group].pc # "ended"
  BY <1>1 DEF FlightsInv
<1>7. group' # 0 => group' \in Jobs /\ flights'[group'] # Nil /\ flights'[group'].pc # "ended"
  <2> SUFFICES ASSUME group' # 0 PROVE group \in Jobs /\ group' = group /\ flights'[group] # Nil /\ flights'[group].pc # "ended"
    OBVIOUS
  <2>1. group \in Jobs /\ group' = group /\ flights[group] # Nil /\ flights[group].pc # "ended"
    BY <1>2, <1>3, <1>6
  <2>2. CASE group = j
    BY <1>2, <1>3, <1>4, <2>1, <2>2
  <2>3. CASE group # j
    BY <1>4, <2>1, <2>3
  <2> QED
    BY <2>1, <2>2, <2>3
<1>8. \A i \in Jobs : flights'[i] # Nil =>
        /\ flights[i] # Nil /\ flights'[i].waiters = flights[i].waiters \ {k}
        /\ flights'[i].name = flights[i].name /\ flights'[i].pc = flights[i].pc
        /\ flights'[i].network = flights[i].network /\ flights'[i].found = flights[i].found
  BY <1>3, <1>4, <1>6
<1>9. \A i \in Jobs, l \in Workers :
        flights[i] # Nil /\ l \in flights[i].waiters /\ l # k => flights'[i] # Nil /\ l \in flights'[i].waiters
  BY <1>2, <1>3, <1>4
<1>10. worker[k] = "lookup"
  BY <1>3, <1>6
<1>11. FlightsInv'
  <2>1. \A l \in Workers : worker'[l] = "lookup" <=> \E i \in Jobs : flights'[i] # Nil /\ l \in flights'[i].waiters
    BY <1>5, <1>6, <1>8, <1>9
  <2>2. \A i, l \in Jobs : flights'[i] # Nil /\ flights'[l] # Nil /\ i # l => flights'[i].waiters \cap flights'[l].waiters = {}
    BY <1>6, <1>8
  <2>3. \A i \in Jobs : flights'[i] # Nil => i <= sent' /\ (flights'[i].found => flights'[i].pc = "ended")
    BY <1>3, <1>6, <1>8
  <2> QED
    BY <1>7, <2>1, <2>2, <2>3 DEF FlightsInv
<1>12. Lookups' = Lookups \ {k} /\ k \in Lookups
  BY <1>5, <1>10 DEF Lookups
<1>13. (\A n \in Names : Asked(n)' \subseteq Asked(n)) /\ OverTCP' \subseteq OverTCP
  BY <1>8 DEF Asked, OverTCP
<1>14. Served' = Served \ {k}
  BY <1>8, <1>9 DEF Served, Found
<1> QED
  BY <1>4, <1>7, <1>11, <1>12, <1>13, <1>14

\* What is left to show when a worker leaves: how it is counted.
LEMMA LeavesKeeps ==
    ASSUME LoadGenInv, NEW k \in Workers, NEW j \in Jobs, NEW g, Leaves(k, j, g),
           counts' \in Counts,
           counts'.successes + counts'.failures = counts.successes + counts.failures + 1, Covered'
    PROVE  LoadGenInv'
<1>1. TypeOK /\ MainInv /\ FlightsInv /\ CountsInv
  BY DEF LoadGenInv
<1>2. /\ flights' \in [Jobs -> Flights \cup {Nil}] /\ group' \in {0} \cup {i \in Jobs : flights'[i] # Nil}
      /\ FlightsInv' /\ Lookups' = Lookups \ {k} /\ k \in Lookups
      /\ \A n \in Names : Asked(n)' \subseteq Asked(n)
  BY LeavesFlights
<1>3. UNCHANGED <<main, config, sent, tracker, report, exit>>
  BY DEF Leaves
<1>4. worker' \in [Workers -> {"none", "idle", "lookup"}]
  BY <1>1 DEF Leaves, TypeOK
<1>5. TypeOK'
  BY <1>1, <1>2, <1>3, <1>4 DEF TypeOK
<1>6. report = Nil
  BY <1>1, <1>2 DEF MainInv
<1>7. MainInv'
  BY <1>1, <1>2, <1>3, <1>6 DEF MainInv
<1>8. CountsInv'
  <2>1. Cardinality(Lookups') = Cardinality(Lookups) - 1 /\ Cardinality(Lookups) \in Nat
    BY <1>2, SetsAreFinite, FS_RemoveElement
  <2>2. counts.successes \in Nat /\ counts.failures \in Nat /\ counts'.successes \in Nat /\ counts'.failures \in Nat
    BY <1>1 DEF TypeOK, Counts
  <2>3. counts'.successes + counts'.failures + Cardinality(Lookups') = sent'
    BY <1>1, <1>3, <2>1, <2>2 DEF CountsInv
  <2>4. Expected'
    BY <1>1, <1>2, <1>3, SameExpected DEF CountsInv
  <2>5. AddsUp(tracker)'
    BY <1>1, <1>3 DEF CountsInv, AddsUp, Answered
  <2> QED
    BY <2>3, <2>4, <2>5 DEF CountsInv
<1> QED
  BY <1>2, <1>5, <1>7, <1>8 DEF LoadGenInv

\* How a worker counts.
LEMMA NextJobCounts ==
    ASSUME TypeOK, NEW k \in Workers, NEW found \in BOOLEAN, NextJob(k, found)
    PROVE  /\ counts' \in Counts
           /\ counts'.successes + counts'.failures = counts.successes + counts.failures + 1
           /\ counts'.successes = counts.successes + (IF found THEN 1 ELSE 0)
           /\ worker' = [worker EXCEPT ![k] = "idle"]
<1>1. counts \in Counts /\ counts.successes + 1 \in Nat /\ counts.failures + 1 \in Nat
  BY DEF TypeOK, Counts
<1>2. counts' \in Counts
  BY <1>1 DEF NextJob, Counts
<1> QED
  BY <1>1, <1>2 DEF NextJob, Counts

\* Collect: a success is the address that was got.
LEMMA CollectKeeps ==
    ASSUME LoadGenInv, NEW k \in Workers, NEW j \in Jobs, Collect(k, j)
    PROVE  LoadGenInv'
<1> DEFINE f == flights[j]
           g == [f EXCEPT !.waiters = @ \ {k}]
<1>1. TypeOK /\ FlightsInv /\ Covered
  BY DEF LoadGenInv, CountsInv
<1>2. f \in Flights /\ k \in f.waiters /\ f # Nil /\ f.pc = "ended" /\ NextJob(k, f.found) /\ Put(j, g)
  BY <1>1 DEF TypeOK, Collect
<1>3. f.found \in BOOLEAN /\ f.waiters \ {k} \in SUBSET Workers
  BY <1>2 DEF Flights
<1>4. g \in Flights
  BY <1>2, <1>3, Zenon DEF Flights
<1>5. /\ g.waiters = f.waiters \ {k} /\ g.name = f.name /\ g.pc = f.pc
      /\ g.network = f.network /\ g.found = f.found
  BY <1>2 DEF Flights
<1> HIDE DEF g
<1>6. /\ counts' \in Counts /\ worker' = [worker EXCEPT ![k] = "idle"]
      /\ counts'.successes + counts'.failures = counts.successes + counts.failures + 1
      /\ counts'.successes = counts.successes + (IF f.found THEN 1 ELSE 0)
  BY <1>1, <1>2, <1>3, NextJobCounts
<1>7. Leaves(k, j, g)
  BY <1>2, <1>4, <1>5, <1>6 DEF Leaves, Collect
<1>8. OverTCP' \subseteq OverTCP /\ Served' = Served \ {k} /\ tracker' = tracker
  BY <1>7, LeavesFlights DEF Collect
<1>9. Covered'
  <2>1. CASE f.found
    <3>1. k \in Served
      BY <1>2, <2>1 DEF Served, Found
    <3> QED
      BY <1>1, <1>6, <1>8, <2>1, <3>1, CollectedCovers
  <2>2. CASE ~f.found
    <3>1. /\ Answered(tracker, "NOERROR") \in Nat /\ tracker' \in Trackers
          /\ Answered(tracker', "NOERROR") = Answered(tracker, "NOERROR")
      BY <1>1, <1>8, AnsweredType DEF TypeOK, RCodes, Answered
    <3>2. counts'.successes = counts.successes
      BY <1>1, <1>6, <2>2 DEF TypeOK, Counts
    <3> QED
      BY <1>1, <1>8, <3>1, <3>2, NoNewClaim
  <2> QED
    BY <2>1, <2>2
<1> QED
  BY <1>6, <1>7, <1>9, LeavesKeeps

\* Timeout: a failure, also when the address has come.
LEMMA TimeoutKeeps ==
    ASSUME LoadGenInv, NEW k \in Workers, NEW j \in Jobs, Timeout(k, j)
    PROVE  LoadGenInv'
<1> DEFINE f == flights[j]
           unshared == group = 0 \/ ~flights[group].shared
           g == [f EXCEPT !.waiters = @ \ {k}, !.cancelled = @ \/ unshared]
<1>1. TypeOK /\ FlightsInv /\ Covered
  BY DEF LoadGenInv, CountsInv
<1>2. /\ f \in Flights /\ k \in f.waiters /\ f # Nil /\ NextJob(k, FALSE) /\ Put(j, g)
      /\ group' \in {group, 0}
  BY <1>1 DEF TypeOK, Timeout
<1>3. f.waiters \ {k} \in SUBSET Workers /\ (f.cancelled \/ unshared) \in BOOLEAN
  BY <1>2 DEF Flights
<1>4. g \in Flights
  BY <1>2, <1>3, Zenon DEF Flights
<1>5. /\ g.waiters = f.waiters \ {k} /\ g.name = f.name /\ g.pc = f.pc
      /\ g.network = f.network /\ g.found = f.found
  BY <1>2 DEF Flights
<1> HIDE DEF g
<1>6. /\ counts' \in Counts /\ worker' = [worker EXCEPT ![k] = "idle"]
      /\ counts'.successes + counts'.failures = counts.successes + counts.failures + 1
      /\ counts'.successes = counts.successes
  <2>1. counts.successes \in Nat
    BY <1>1 DEF TypeOK, Counts
  <2>2. \E late \in BOOLEAN : late = FALSE /\ NextJob(k, late)
    BY <1>2
  <2>3. PICK late \in BOOLEAN : late = FALSE /\ NextJob(k, late)
    BY <2>2
  <2>4. /\ counts' \in Counts /\ worker' = [worker EXCEPT ![k] = "idle"]
        /\ counts'.successes + counts'.failures = counts.successes + counts.failures + 1
        /\ counts'.successes = counts.successes + (IF late THEN 1 ELSE 0)
    BY <1>1, <2>3, NextJobCounts
  <2> QED
    BY <2>1, <2>3, <2>4
<1>7. Leaves(k, j, g)
  BY <1>2, <1>4, <1>5, <1>6 DEF Leaves, Timeout
<1>8. OverTCP' \subseteq OverTCP /\ Served' = Served \ {k} /\ tracker' = tracker
  BY <1>7, LeavesFlights DEF Timeout
<1>9. Covered'
  <2>1. /\ Answered(tracker, "NOERROR") \in Nat /\ tracker' \in Trackers
        /\ Answered(tracker', "NOERROR") = Answered(tracker, "NOERROR")
    BY <1>1, <1>8, AnsweredType DEF TypeOK, RCodes, Answered
  <2> QED
    BY <1>1, <1>6, <1>8, <2>1, NoNewClaim
<1> QED
  BY <1>6, <1>7, <1>9, LeavesKeeps

\* Worker k joins job j's resolution, which is g with it: one under way, or a new one.
Joins(k, j, g) ==
    /\ j \in Jobs /\ g \in Flights /\ k \in g.waiters /\ g.pc # "ended" /\ ~g.found
    /\ \/ /\ flights[j] = Nil /\ j <= sent + 1
          /\ g.waiters = {k} /\ g.pc = "ask" /\ g.network = Networks[1]
       \/ /\ flights[j] # Nil /\ g.waiters = flights[j].waiters \cup {k}
          /\ g.name = flights[j].name /\ g.pc = flights[j].pc
          /\ g.network = flights[j].network /\ g.found = flights[j].found
    /\ flights' = [flights EXCEPT ![j] = g] /\ group' = j

\* A worker that takes a job joins the resolution under way, or starts one in a free place.
LEMMA DispatchJoins ==
    ASSUME LoadGenInv, NEW k \in Workers, Dispatch(k)
    PROVE  \E j \in Jobs : \E g \in Flights : Joins(k, j, g)
<1>1. TypeOK /\ MainInv /\ FlightsInv
  BY DEF LoadGenInv
<1>2. /\ config \in [queries : Jobs, concurrency : Workers] /\ sent \in 0..MaxQueries /\ sent < config.queries
      /\ flights \in [Jobs -> Flights \cup {Nil}] /\ group \in {0} \cup {i \in Jobs : flights[i] # Nil}
  BY <1>1 DEF TypeOK, MainInv, Dispatch
<1>3. sent + 1 \in Jobs
  BY <1>2, Bounds DEF Jobs
<1>4. CASE group = 0
  <2> DEFINE g == [name |-> 1, attempt |-> 1, network |-> Networks[1], pc |-> "ask", found |-> FALSE,
                   waiters |-> {k}, shared |-> FALSE, cancelled |-> FALSE]
  <2>1. 1 \in Names /\ 1 \in 1..Attempts /\ Networks[1] \in {"udp", "tcp"} /\ {k} \in SUBSET Workers
    BY Bounds DEF Names
  <2>2. g \in Flights
    BY <2>1 DEF Flights
  <2>3. flights' = [flights EXCEPT ![sent + 1] = g] /\ group' = sent + 1
    BY <1>4 DEF Dispatch
  <2>4. flights[sent + 1] = Nil
    BY <1>1, <1>2, <1>3 DEF FlightsInv
  <2>5. Joins(k, sent + 1, g)
    BY <1>2, <1>3, <2>2, <2>3, <2>4 DEF Joins
  <2> QED
    BY <1>3, <2>2, <2>5
<1>5. CASE group # 0
  <2> DEFINE f == flights[group]
             g == [f EXCEPT !.waiters = @ \cup {k}, !.shared = TRUE]
  <2>1. group \in Jobs /\ f \in Flights /\ f # Nil /\ f.pc # "ended" /\ ~f.found
    BY <1>1, <1>2, <1>5 DEF FlightsInv
  <2>2. f.waiters \cup {k} \in SUBSET Workers
    BY <2>1 DEF Flights
  <2>3. g \in Flights
    BY <2>1, <2>2, Zenon DEF Flights
  <2>4. /\ g.waiters = f.waiters \cup {k} /\ g.name = f.name /\ g.pc = f.pc
        /\ g.network = f.network /\ g.found = f.found
    BY <2>1 DEF Flights
  <2>5. flights' = [flights EXCEPT ![group].waiters = @ \cup {k}, ![group].shared = TRUE] /\ group' = group
    BY <1>5 DEF Dispatch
  <2>6. [flights EXCEPT ![group].waiters = @ \cup {k}, ![group].shared = TRUE] = [flights EXCEPT ![group] = g]
    BY <1>2, <2>1
  <2> HIDE DEF g
  <2>7. Joins(k, group, g)
    BY <2>1, <2>3, <2>4, <2>5, <2>6 DEF Joins
  <2> QED
    BY <2>1, <2>3, <2>7
<1> QED
  BY <1>4, <1>5

\* Dispatch: one more job handed out, one more lookup.
LEMMA DispatchKeeps ==
    ASSUME LoadGenInv, NEW k \in Workers, Dispatch(k)
    PROVE  LoadGenInv'
<1>1. TypeOK /\ MainInv /\ FlightsInv /\ CountsInv
  BY DEF LoadGenInv
<1>2. /\ flights \in [Jobs -> Flights \cup {Nil}] /\ Nil \notin Flights
      /\ worker \in [Workers -> {"none", "idle", "lookup"}]
      /\ config \in [queries : Jobs, concurrency : Workers] /\ sent \in 0..MaxQueries
      /\ main = "send" /\ sent < config.queries /\ report = Nil
      /\ \A i \in Jobs : flights[i] # Nil => flights[i] \in Flights
  BY <1>1, LoadGenAssumption DEF TypeOK, MainInv, Dispatch
<1>3. /\ sent' = sent + 1 /\ worker[k] = "idle" /\ worker' = [worker EXCEPT ![k] = "lookup"]
      /\ UNCHANGED <<main, config, tracker, counts, report, exit>>
  BY DEF Dispatch
<1>4. worker'[k] = "lookup" /\ (\A l \in Workers : l # k => worker'[l] = worker[l])
      /\ worker' \in [Workers -> {"none", "idle", "lookup"}]
  BY <1>2, <1>3
<1>5. PICK j \in Jobs, g \in Flights : Joins(k, j, g)
  BY DispatchJoins
<1>6. /\ flights'[j] = g /\ (\A i \in Jobs : i # j => flights'[i] = flights[i]) /\ group' = j /\ g # Nil
      /\ flights' \in [Jobs -> Flights \cup {Nil}] /\ k \in g.waiters /\ g.pc # "ended" /\ ~g.found
  BY <1>2, <1>5 DEF Joins
<1>7. \/ /\ flights[j] = Nil /\ j <= sent + 1
         /\ g.waiters = {k} /\ g.pc = "ask" /\ g.network = Networks[1]
      \/ /\ flights[j] # Nil /\ g.waiters = flights[j].waiters \cup {k}
         /\ g.name = flights[j].name /\ g.pc = flights[j].pc
         /\ g.network = flights[j].network /\ g.found = flights[j].found
  BY <1>5 DEF Joins
<1>8. /\ \A l \in Workers : worker[l] = "lookup" <=> \E i \in Jobs : flights[i] # Nil /\ l \in flights[i].waiters
      /\ \A i, l \in Jobs : flights[i] # Nil /\ flights[l] # Nil /\ i # l => flights[i].waiters \cap flights[l].waiters = {}
      /\ \A i \in Jobs : flights[i] # Nil => i <= sent /\ (flights[i].found => flights[i].pc = "ended")
  BY <1>1 DEF FlightsInv
<1>9. TypeOK'
  <2>1. sent + 1 \in 0..MaxQueries
    BY <1>2, Bounds DEF Jobs
  <2>2. group' \in {0} \cup {i \in Jobs : flights'[i] # Nil}
    BY <1>6
  <2> QED
    BY <1>1, <1>3, <1>4, <1>6, <2>1, <2>2 DEF TypeOK
<1>10. MainInv'
  BY <1>1, <1>2, <1>3 DEF MainInv
<1>11. \A i \in Jobs : flights[i] # Nil => k \notin flights[i].waiters
  BY <1>3, <1>8
<1>12. FlightsInv'
  <2>1. \A l \in Workers : worker'[l] = "lookup" <=> \E i \in Jobs : flights'[i] # Nil /\ l \in flights'[i].waiters
    <3> TAKE l \in Workers
    <3>1. CASE l = k
      BY <1>4, <1>6, <3>1
    <3>2. CASE l # k
      <4>1. (\E i \in Jobs : flights'[i] # Nil /\ l \in flights'[i].waiters)
              <=> (\E i \in Jobs : flights[i] # Nil /\ l \in flights[i].waiters)
        BY <1>6, <1>7, <3>2
      <4> QED
        BY <1>4, <1>8, <3>2, <4>1
    <3> QED
      BY <3>1, <3>2
  <2>2. \A i, l \in Jobs : flights'[i] # Nil /\ flights'[l] # Nil /\ i # l => flights'[i].waiters \cap flights'[l].waiters = {}
    BY <1>6, <1>7, <1>8, <1>11
  <2>3. \A i \in Jobs : flights'[i] # Nil => i <= sent' /\ (flights'[i].found => flights'[i].pc = "ended")
    <3> TAKE i \in Jobs
    <3>1. CASE i = j
      BY <1>2, <1>3, <1>6, <1>7, <1>8, <3>1 DEF Jobs
    <3>2. CASE i # j
      BY <1>2, <1>3, <1>6, <1>8, <3>2 DEF Jobs
    <3> QED
      BY <3>1, <3>2
  <2> QED
    BY <1>6, <2>1, <2>2, <2>3 DEF FlightsInv
<1>13. CountsInv'
  <2>1. Lookups' = Lookups \cup {k} /\ k \notin Lookups
    BY <1>3, <1>4 DEF Lookups
  <2>2. Cardinality(Lookups') = Cardinality(Lookups) + 1 /\ Cardinality(Lookups) \in Nat
    BY <2>1, SetsAreFinite, FS_AddElement
  <2>3. counts'.successes + counts'.failures + Cardinality(Lookups') = sent'
    <3>1. counts.successes \in Nat /\ counts.failures \in Nat
      BY <1>1 DEF TypeOK, Counts
    <3> QED
      BY <1>1, <1>2, <1>3, <2>2, <3>1 DEF CountsInv
  <2>4. \A n \in Names : Asked(n)' \subseteq Asked(n)
    BY <1>6, <1>7 DEF Asked
  <2>5. Expected'
    BY <1>1, <1>3, <2>4, SameExpected DEF CountsInv
  <2>6. AddsUp(tracker')
    BY <1>1, <1>3 DEF CountsInv, AddsUp, Answered
  <2>7. CASE Networks[1] = "udp"
    <3>1. Served' \subseteq Served
      BY <1>6 DEF Served, Found
    <3>2. OverTCP' \subseteq OverTCP
      BY <1>6, <1>7, <2>7 DEF OverTCP
    <3>3. /\ Answered(tracker, "NOERROR") \in Nat /\ tracker' \in Trackers
          /\ Answered(tracker', "NOERROR") = Answered(tracker, "NOERROR")
      BY <1>1, <1>3, AnsweredType DEF TypeOK, RCodes, Answered
    <3>4. Covered'
      BY <1>1, <1>3, <3>1, <3>2, <3>3, NoNewClaim DEF CountsInv
    <3> QED
      BY <2>3, <2>5, <2>6, <3>4 DEF CountsInv, AddsUp, Answered
  <2>8. CASE Networks[1] # "udp"
    BY <2>3, <2>5, <2>6, <2>8 DEF CountsInv, Covered, AddsUp, Answered
  <2> QED
    BY <2>7, <2>8
<1> QED
  BY <1>9, <1>10, <1>12, <1>13 DEF LoadGenInv

-----------------------------------------------------------------------------
(* The steps of main keep the invariant. *)

\* Nothing that is counted or asked for changes.
LEMMA SameCounts ==
    ASSUME CountsInv, UNCHANGED <<sent, worker, flights, tracker, counts>>
    PROVE  CountsInv'
<1>1. /\ Lookups' = Lookups /\ Served' = Served /\ OverTCP' = OverTCP
      /\ \A n \in Names : Asked(n)' = Asked(n)
  BY DEF Lookups, Served, Found, OverTCP, Asked
<1>2. AddsUp(tracker)'
  BY DEF CountsInv, AddsUp, Answered
<1>3. Expected' /\ Covered'
  BY <1>1 DEF CountsInv, Expected, Covered, Claims, Answered
<1> QED
  BY <1>1, <1>2, <1>3 DEF CountsInv

\* Start: main exits, or has positive settings and idle workers.
LEMMA StartKeeps ==
    ASSUME LoadGenInv, Start
    PROVE  LoadGenInv'
<1>1. TypeOK /\ MainInv /\ FlightsInv /\ CountsInv
  BY DEF LoadGenInv
<1>2. main = "start" /\ Lookups = {} /\ report = Nil
  BY <1>1 DEF Start, MainInv
<1>3. UNCHANGED <<sent, flights, group, tracker, counts, report>>
  BY DEF Start
<1>4. CASE main' = "exited" /\ exit' \in {1, 2} /\ UNCHANGED <<config, worker>>
  <2>1. TypeOK'
    BY <1>1, <1>3, <1>4 DEF TypeOK
  <2>2. MainInv' /\ FlightsInv'
    BY <1>1, <1>2, <1>3, <1>4 DEF MainInv, FlightsInv
  <2> QED
    BY <1>1, <1>3, <1>4, <2>1, <2>2, SameCounts DEF LoadGenInv
<1>5. ASSUME NEW queries \in Jobs, NEW concurrency \in Workers,
             main' = "send", config' = [queries |-> queries, concurrency |-> concurrency],
             worker' = [k \in Workers |-> IF k <= concurrency THEN "idle" ELSE "none"], UNCHANGED exit
      PROVE  LoadGenInv'
  <2>1. config' \in [queries : Jobs, concurrency : Workers] /\ config' # Nil
    BY <1>5, LoadGenAssumption
  <2>2. worker' \in [Workers -> {"none", "idle", "lookup"}] /\ \A k \in Workers : worker'[k] # "lookup"
    BY <1>5
  <2>3. TypeOK'
    BY <1>1, <1>3, <1>5, <2>1, <2>2 DEF TypeOK
  <2>4. Lookups' = Lookups
    BY <1>2, <2>2 DEF Lookups
  <2>5. MainInv'
    BY <1>2, <1>3, <1>5, <2>1 DEF MainInv
  <2>6. FlightsInv'
    <3>1. \A k \in Workers : worker[k] # "lookup"
      BY <1>2 DEF Lookups
    <3> QED
      BY <1>1, <1>3, <2>2, <3>1 DEF FlightsInv
  <2>7. CountsInv'
    <3>1. Served' = Served /\ OverTCP' = OverTCP /\ \A n \in Names : Asked(n)' = Asked(n)
      BY <1>3 DEF Served, Found, OverTCP, Asked
    <3>2. AddsUp(tracker)' /\ Expected' /\ Covered'
      BY <1>1, <1>3, <3>1 DEF CountsInv, AddsUp, Expected, Covered, Claims, Answered
    <3> QED
      BY <1>1, <1>3, <2>4, <3>2 DEF CountsInv
  <2> QED
    BY <2>3, <2>5, <2>6, <2>7 DEF LoadGenInv
<1> QED
  <2>1. PICK q, c, timeout \in Settings \cup {Unset} :
          LET queries     == envPositiveInt(q, DefaultQueries)
              concurrency == envPositiveInt(c, 1)
          IN IF Nil \in {queries, concurrency, envPositiveInt(timeout, 2)}
               THEN Exit(2) /\ UNCHANGED <<config, worker>>
               ELSE \/ Exit(1) /\ UNCHANGED <<config, worker>>
                    \/ /\ main' = "send"
                       /\ config' = [queries |-> queries, concurrency |-> concurrency]
                       /\ worker' = [k \in Workers |-> IF k <= concurrency THEN "idle" ELSE "none"]
                       /\ UNCHANGED exit
    BY DEF Start
  <2>2. CASE \E code \in {1, 2} : Exit(code) /\ UNCHANGED <<config, worker>>
    BY <1>4, <2>2 DEF Exit
  <2>3. CASE /\ envPositiveInt(q, DefaultQueries) # Nil /\ envPositiveInt(c, 1) # Nil
             /\ main' = "send"
             /\ config' = [queries |-> envPositiveInt(q, DefaultQueries), concurrency |-> envPositiveInt(c, 1)]
             /\ worker' = [k \in Workers |-> IF k <= envPositiveInt(c, 1) THEN "idle" ELSE "none"]
             /\ UNCHANGED exit
    <3>1. envPositiveInt(q, DefaultQueries) \in Jobs
      BY <2>3, LoadGenAssumption, Bounds DEF envPositiveInt, Jobs
    <3>2. envPositiveInt(c, 1) \in Workers
      BY <2>3, LoadGenAssumption, Bounds DEF envPositiveInt, Workers
    <3> QED
      BY <1>5, <2>3, <3>1, <3>2
  <2> QED
    BY <2>1, <2>2, <2>3

\* CloseJobs: all jobs are handed out.
LEMMA CloseJobsKeeps ==
    ASSUME LoadGenInv, CloseJobs
    PROVE  LoadGenInv'
<1>1. TypeOK /\ MainInv /\ FlightsInv /\ CountsInv
  BY DEF LoadGenInv
<1>2. /\ main = "send" /\ sent = config.queries /\ main' = "wait"
      /\ UNCHANGED <<config, sent, worker, flights, group, tracker, counts, report, exit>>
  BY DEF CloseJobs
<1>3. TypeOK' /\ MainInv' /\ FlightsInv'
  BY <1>1, <1>2 DEF TypeOK, MainInv, FlightsInv
<1> QED
  BY <1>1, <1>2, <1>3, SameCounts DEF LoadGenInv

\* Summarise: nobody looks up any more, and the snapshot adds up as the tracker does.
LEMMA SummariseKeeps ==
    ASSUME LoadGenInv, Summarise
    PROVE  LoadGenInv'
<1>1. TypeOK /\ MainInv /\ FlightsInv /\ CountsInv
  BY DEF LoadGenInv
<1>2. /\ main = "wait" /\ main' = "print" /\ report' = [tracker |-> tracker, counts |-> counts]
      /\ UNCHANGED <<config, sent, worker, flights, group, tracker, counts, exit>>
  BY DEF Summarise
<1>3. report' \in Results /\ report' # Nil
  BY <1>1, <1>2, LoadGenAssumption DEF TypeOK, Results
<1>4. TypeOK'
  BY <1>1, <1>2, <1>3 DEF TypeOK
<1>5. FlightsInv'
  BY <1>1, <1>2 DEF FlightsInv
<1>6. MainInv'
  <2>1. Lookups' = {}
    BY <1>2 DEF Lookups, Summarise
  <2>2. AddsUp(report'.tracker) /\ report'.counts = counts'
    BY <1>1, <1>2 DEF CountsInv
  <2>3. config # Nil /\ sent = config.queries
    BY <1>1, <1>2 DEF MainInv
  <2> QED
    BY <1>2, <1>3, <2>1, <2>2, <2>3 DEF MainInv, AddsUp, Answered
<1> QED
  BY <1>1, <1>2, <1>4, <1>5, <1>6, SameCounts DEF LoadGenInv

\* PrintReport: what is printed is the snapshot.
LEMMA PrintReportKeeps ==
    ASSUME LoadGenInv, PrintReport
    PROVE  LoadGenInv'
<1>1. TypeOK /\ MainInv /\ FlightsInv /\ CountsInv
  BY DEF LoadGenInv
<1>2. /\ main = "print" /\ main' = "exited" /\ report' = report /\ exit' \in {0, 1}
      /\ UNCHANGED <<config, sent, worker, flights, group, tracker, counts>>
  BY DEF PrintReport, Encoded, Exit
<1>3. TypeOK' /\ FlightsInv'
  BY <1>1, <1>2 DEF TypeOK, FlightsInv
<1>4. MainInv'
  <2>1. Lookups' = Lookups
    BY <1>2 DEF Lookups
  <2> QED
    BY <1>1, <1>2, <2>1 DEF MainInv, AddsUp, Answered
<1> QED
  BY <1>1, <1>2, <1>3, <1>4, SameCounts DEF LoadGenInv

-----------------------------------------------------------------------------
\* The invariant holds before main starts.
LEMMA InitEstablishes ==
    ASSUME Init
    PROVE  LoadGenInv
<1>1. /\ main = "start" /\ config = Nil /\ sent = 0 /\ report = Nil /\ exit = Nil /\ group = 0
      /\ worker = [k \in Workers |-> "none"] /\ flights = [j \in Jobs |-> Nil]
      /\ tracker = newDNSTracker /\ counts = [successes |-> 0, failures |-> 0]
  BY DEF Init
<1>2. tracker \in Trackers /\ AddsUp(tracker) /\ Answered(tracker, "NOERROR") = 0
  BY <1>1, NewTracker DEF RCodes
<1>3. \A n \in Names : tracker.candidates[n].responses = 0 /\ tracker.candidates[n].requests = 0
  BY <1>1 DEF newDNSTracker
<1>4. Lookups = {} /\ Served = {} /\ OverTCP = {} /\ \A n \in Names : Asked(n) = {}
  BY <1>1 DEF Lookups, Served, Found, OverTCP, Asked
<1>5. Cardinality({}) = 0
  BY FS_EmptySet
<1>6. TypeOK
  <2>1. counts \in Counts /\ 0 \in 0..MaxQueries
    BY <1>1, Bounds DEF Counts
  <2> QED
    BY <1>1, <1>2, <2>1 DEF TypeOK
<1>7. MainInv
  BY <1>1, <1>4 DEF MainInv
<1>8. FlightsInv
  BY <1>1 DEF FlightsInv
<1>9. Expected
  BY <1>3, <1>4, <1>5 DEF Expected
<1>10. Covered
  BY <1>1, <1>2, <1>4, <1>5, Bounds DEF Covered, Claims
<1>11. CountsInv
  BY <1>1, <1>2, <1>4, <1>5, <1>9, <1>10 DEF CountsInv
<1> QED
  BY <1>6, <1>7, <1>8, <1>11 DEF LoadGenInv

\* The inductive invariant of the load generator: main's progress, who waits for
\* which resolution, and what is counted go together in every step of main, its
\* workers and the resolver.
THEOREM LoadGenInvariant == Spec => []LoadGenInv
<1>1. Init => LoadGenInv
  BY InitEstablishes
<1>2. LoadGenInv /\ [Next]_vars => LoadGenInv'
  <2> SUFFICES ASSUME LoadGenInv, [Next]_vars PROVE LoadGenInv'
    OBVIOUS
  <2>1. CASE Start
    BY <2>1, StartKeeps
  <2>2. CASE CloseJobs
    BY <2>2, CloseJobsKeeps
  <2>3. CASE Summarise
    BY <2>3, SummariseKeeps
  <2>4. CASE PrintReport
    BY <2>4, PrintReportKeeps
  <2>5. ASSUME NEW k \in Workers, Dispatch(k) PROVE LoadGenInv'
    BY <2>5, DispatchKeeps
  <2>6. ASSUME NEW k \in Workers, NEW j \in Jobs, Collect(k, j) PROVE LoadGenInv'
    BY <2>6, CollectKeeps
  <2>7. ASSUME NEW k \in Workers, NEW j \in Jobs, Timeout(k, j) PROVE LoadGenInv'
    BY <2>7, TimeoutKeeps
  <2>8. ASSUME NEW j \in Jobs, Ask(j) PROVE LoadGenInv'
    BY <2>8, AskKeeps
  <2>9. ASSUME NEW j \in Jobs, Receive(j) PROVE LoadGenInv'
    BY <2>9, ReceiveKeeps
  <2>10. CASE UNCHANGED vars
    <3>1. TypeOK /\ MainInv /\ FlightsInv /\ CountsInv
      BY DEF LoadGenInv
    <3>2. UNCHANGED <<main, config, sent, worker, flights, group, tracker, counts, report, exit>>
      BY <2>10 DEF vars
    <3>3. TypeOK' /\ FlightsInv'
      BY <3>1, <3>2 DEF TypeOK, FlightsInv
    <3>4. MainInv'
      <4>1. Lookups' = Lookups
        BY <3>2 DEF Lookups
      <4> QED
        BY <3>1, <3>2, <4>1 DEF MainInv, AddsUp, Answered
    <3> QED
      BY <3>1, <3>2, <3>3, <3>4, SameCounts DEF LoadGenInv
  <2> QED
    BY <2>1, <2>2, <2>3, <2>4, <2>5, <2>6, <2>7, <2>8, <2>9, <2>10 DEF Next
<1> QED
  BY <1>1, <1>2, PTL DEF Spec

\* The variables keep their types, and a resolution that is shared exists.
THEOREM LoadGenTypes == Spec => []TypeOK
<1>1. LoadGenInv => TypeOK
  BY DEF LoadGenInv
<1> QED
  BY <1>1, LoadGenInvariant, PTL

\* The printed report adds up: a lookup for each query, and each total of the
\* tracker the sum of its parts, whoever still counted while it was made.
THEOREM ReportsAddUp == Spec => []ReportAddsUp
<1>1. LoadGenInv => ReportAddsUp
  <2> SUFFICES ASSUME LoadGenInv, main = "exited", report # Nil
               PROVE  /\ report.counts.successes + report.counts.failures = config.queries
                      /\ AddsUp(report.tracker)
    BY DEF ReportAddsUp
  <2>1. Lookups = {} /\ report.counts = counts /\ AddsUp(report.tracker) /\ sent = config.queries
    BY DEF LoadGenInv, MainInv
  <2>2. counts.successes + counts.failures + Cardinality(Lookups) = sent
        /\ counts.successes \in Nat /\ counts.failures \in Nat
    BY DEF LoadGenInv, CountsInv, TypeOK, Counts
  <2> QED
    BY <2>1, <2>2, FS_EmptySet
<1> QED
  BY <1>1, LoadGenInvariant, PTL

\* No name has more responses than requests, over UDP or TCP, through retries,
\* deadlines and resolutions that are shared or forgotten.
THEOREM ResponsesAskedFor == Spec => []ResponsesWereAskedFor
<1>1. LoadGenInv => ResponsesWereAskedFor
  <2> SUFFICES ASSUME LoadGenInv, NEW n \in Names
               PROVE  tracker.candidates[n].responses <= tracker.candidates[n].requests
    BY DEF ResponsesWereAskedFor
  <2>1. tracker.candidates[n].responses + Cardinality(Asked(n)) <= tracker.candidates[n].requests
    BY DEF LoadGenInv, CountsInv, Expected
  <2>2. tracker.candidates[n].responses \in Nat /\ tracker.candidates[n].requests \in Nat
    BY StatsTypes DEF LoadGenInv, TypeOK
  <2> QED
    BY <2>1, <2>2, SetsAreFinite
<1> QED
  BY <1>1, LoadGenInvariant, PTL

\* Where UDP is tried first, each answer the tracker saw stands for at most one
\* success of each worker, and no success is without one.
THEOREM SuccessesAnswered == Spec => []SuccessesWereAnswered
<1>1. LoadGenInv => SuccessesWereAnswered
  <2> SUFFICES ASSUME LoadGenInv, Networks[1] = "udp"
               PROVE  counts.successes <= MaxWorkers * Answered(tracker, "NOERROR")
    BY DEF SuccessesWereAnswered
  <2>1. counts.successes + Cardinality(Served) + MaxWorkers * Cardinality(OverTCP)
          <= MaxWorkers * Answered(tracker, "NOERROR")
    BY DEF LoadGenInv, CountsInv, Covered, Claims
  <2>2. counts.successes \in Nat /\ Answered(tracker, "NOERROR") \in Nat
    BY AnsweredType DEF LoadGenInv, TypeOK, Counts, RCodes
  <2>3. /\ MaxWorkers * Cardinality(OverTCP) \in Nat /\ Cardinality(Served) \in Nat
        /\ MaxWorkers * Answered(tracker, "NOERROR") \in Nat
    BY <2>2, SetsAreFinite, Bounds, OneMore
  <2> QED
    BY <2>1, <2>2, <2>3
<1> QED
  BY <1>1, LoadGenInvariant, PTL
===============================================================================
