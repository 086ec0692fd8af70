----------------------------- MODULE Aggregator -----------------------------
(***************************************************************************)
(* aggregator.go: the counters of the current window, by category and by   *)
(* direction, and the latency histogram.  Every method holds the mutex and *)
(* is one step.  Drops and I/O errors, which SnapshotAndReset only passes  *)
(* on, are in Evidence.                                                    *)
(*                                                                         *)
(* A log is [cats, resp, respCats]: PIICategoriesFound; whether there is a *)
(* ResponseRedactedPayload; ResponsePIICategories.                         *)
(***************************************************************************)
EXTENDS Redactor, FiniteSetsExt

CONSTANTS
    maxLatencyBucketMS,  \* buckets of the histogram; 100 in the code
    Percentiles          \* reported ones; 50, 95 and 99 in the code

ASSUME AggregatorAssumption ==
    maxLatencyBucketMS \in Nat \ {0} /\ Percentiles \subseteq 1..100

VARIABLES
    requestsAudited, piiDetected, eventsByCategory,
    latencySamples, latencyBuckets, latencyOverflow,
    responsesAudited, responsePIIDetected, responseEventsByCategory

auditVars == <<requestsAudited, piiDetected, eventsByCategory, responsesAudited,
               responsePIIDetected, responseEventsByCategory>>
latencyVars == <<latencySamples, latencyBuckets, latencyOverflow>>
aggregatorVars == <<auditVars, latencyVars>>

Buckets == 0..(maxLatencyBucketMS - 1)

\* NewAggregator
AggregatorInit ==
    /\ requestsAudited = 0 /\ piiDetected = 0
    /\ eventsByCategory = [c \in Categories |-> 0]
    /\ responsesAudited = 0 /\ responsePIIDetected = 0
    /\ responseEventsByCategory = [c \in Categories |-> 0]
    /\ latencySamples = 0 /\ latencyOverflow = 0
    /\ latencyBuckets = [b \in Buckets |-> 0]

RecordLatency(ms) ==
    /\ latencySamples' = latencySamples + 1
    /\ IF ms \in Buckets
       THEN latencyBuckets' = [latencyBuckets EXCEPT ![ms] = @ + 1]
            /\ UNCHANGED latencyOverflow
       ELSE latencyOverflow' = latencyOverflow + 1 /\ UNCHANGED latencyBuckets

\* Mutant of Responses: every log is taken for one with a response.
AllLogs(logs) == DOMAIN logs

Responses(logs) == {i \in DOMAIN logs : logs[i].resp}

RequestCats(logs) == [i \in DOMAIN logs |-> logs[i].cats]
ResponseCats(logs) == [i \in Responses(logs) |-> logs[i].respCats]
Having(found, c) == Cardinality({i \in DOMAIN found : c \in found[i]})
FoundIn(found) == SumFunction([i \in DOMAIN found |-> Cardinality(found[i])])

Ingest(batch) ==
    LET inRequests == RequestCats(batch)
        inResponses == ResponseCats(batch)
    IN /\ requestsAudited' = requestsAudited + Len(batch)
       /\ piiDetected' = piiDetected + FoundIn(inRequests)
       /\ eventsByCategory' = [c \in Categories |->
              eventsByCategory[c] + Having(inRequests, c)]
       /\ responsesAudited' = responsesAudited + Cardinality(Responses(batch))
       /\ responsePIIDetected' = responsePIIDetected + FoundIn(inResponses)
       /\ responseEventsByCategory' = [c \in Categories |->
              responseEventsByCategory[c] + Having(inResponses, c)]

\* Mutant of targetCount: the rank is rounded down.
rankFloor(N, p) == Max({(N * p) \div 100, 1})

\* ceil(N * p).  The code computes it in floating point; for 50, 95 and 99 the
\* two agree for every N up to two million.
targetCount(N, p) == (N * p + 99) \div 100

\* The first bucket at which as many of N samples are counted; the samples that
\* overflowed are behind the last one.
computePercentile(N, buckets, p) ==
    LET cumulative(i) == SumFunctionOnSet(buckets, 0..i)
        reached == {i \in Buckets : cumulative(i) >= targetCount(N, p)}
    IN IF N = 0 THEN 0 ELSE IF reached = {} THEN maxLatencyBucketMS ELSE Min(reached)

\* What a summary says of the window.
Summary ==
    [processed |-> latencySamples, overflow |-> latencyOverflow,
     percentile |-> [p \in Percentiles |->
                       computePercentile(latencySamples, latencyBuckets, p)],
     audited |-> requestsAudited, pii |-> piiDetected, events |-> eventsByCategory,
     responses |-> responsesAudited, responsePII |-> responsePIIDetected,
     responseEvents |-> responseEventsByCategory]

ResetAudits ==
    /\ requestsAudited' = 0 /\ piiDetected' = 0
    /\ eventsByCategory' = [c \in Categories |-> 0]
    /\ responsesAudited' = 0 /\ responsePIIDetected' = 0
    /\ responseEventsByCategory' = [c \in Categories |-> 0]

\* Mutant of Reset: the latencies go on into the next window.
ResetAuditsOnly == ResetAudits /\ UNCHANGED latencyVars

\* SnapshotAndReset, its second half.
Reset ==
    /\ ResetAudits
    /\ latencySamples' = 0 /\ latencyOverflow' = 0
    /\ latencyBuckets' = [b \in Buckets |-> 0]
=============================================================================
