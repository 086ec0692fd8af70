------------------------------ MODULE Workers ------------------------------
(***************************************************************************)
(* worker.go: the goroutines that turn payloads into telemetry entries, for *)
(* the request pipeline and, in the enterprise binary, the response one.    *)
(*                                                                         *)
(* What a worker computes is left out; what matters here is that it sends   *)
(* its entry without waiting, and drops it when the results are full.       *)
(***************************************************************************)
EXTENDS Integers, Sequences, FiniteSets

CONSTANTS
    Requests,     \* request identifiers
    NoRequest,    \* nobody's
    Workers,      \* the workers of one pipeline
    Exited,       \* what a worker that has returned is doing
    ResultsCap    \* capacity of requestResults and of responseResults

ASSUME WorkersAssumption ==
    /\ IsFiniteSet(Requests) /\ IsFiniteSet(Workers) /\ Workers # {}
    /\ NoRequest \notin Requests /\ Exited \notin Requests /\ Exited # NoRequest
    /\ ResultsCap \in Nat \ {0}

VARIABLES
    bidir,          \* cfg.ResponseCapture: there is a response pipeline; never changes
    payloads,       \* by direction: payloads the assembler has dispatched to the
                    \* workers, or will
    payloadsOpen,   \* FALSE once the assembler has closed the workers' input
    work,           \* what each worker is processing
    results,        \* the channel of finished entries
    resultsOpen,    \* FALSE once waitPipeline has closed it
    resultDropped   \* workerStats, split by request

workerVars == <<bidir, payloads, payloadsOpen, work, results, resultsOpen, resultDropped>>

Directions == IF bidir THEN {"request", "response"} ELSE {"request"}

WorkersTypeOK ==
    /\ bidir \in BOOLEAN
    /\ payloads \in [Directions -> SUBSET Requests]
    /\ payloadsOpen \in [Directions -> BOOLEAN]
    /\ work \in [Directions -> [Workers -> Requests \cup {NoRequest, Exited}]]
    /\ results \in [Directions -> Seq(Requests)]
    /\ \A d \in Directions : Len(results[d]) <= ResultsCap
    /\ resultsOpen \in [Directions -> BOOLEAN]
    /\ resultDropped \in [Directions -> SUBSET Requests]

\* The assemblers dispatch a payload at most once for each request; some
\* requests and some responses are lost before, and the order is theirs.
WorkersInit ==
    /\ bidir \in BOOLEAN
    /\ payloads \in [Directions -> SUBSET Requests]
    /\ payloadsOpen = [d \in Directions |-> TRUE]
    /\ work = [d \in Directions |-> [w \in Workers |-> NoRequest]]
    /\ results = [d \in Directions |-> <<>>]
    /\ resultsOpen = [d \in Directions |-> TRUE]
    /\ resultDropped = [d \in Directions |-> {}]

\* for payload := range input
WorkerTake(d, w) ==
    /\ work[d][w] = NoRequest
    /\ \E r \in payloads[d] :
         /\ payloads' = [payloads EXCEPT ![d] = @ \ {r}]
         /\ work' = [work EXCEPT ![d][w] = r]
    /\ UNCHANGED <<bidir, payloadsOpen, results, resultsOpen, resultDropped>>

\* The non-blocking send of the entry, and its default branch.
WorkerSend(d, w) ==
    /\ work[d][w] \in Requests
    /\ work' = [work EXCEPT ![d][w] = NoRequest]
    /\ IF Len(results[d]) < ResultsCap
       THEN /\ results' = [results EXCEPT ![d] = Append(@, work[d][w])]
            /\ UNCHANGED resultDropped
       ELSE /\ resultDropped' = [resultDropped EXCEPT ![d] = @ \cup {work[d][w]}]
            /\ UNCHANGED results
    /\ UNCHANGED <<bidir, payloads, payloadsOpen, resultsOpen>>

\* The range over the input ends: it is closed and its payloads are taken.
WorkerExit(d, w) ==
    /\ work[d][w] = NoRequest
    /\ ~payloadsOpen[d] /\ payloads[d] = {}
    /\ work' = [work EXCEPT ![d][w] = Exited]
    /\ UNCHANGED <<bidir, payloads, payloadsOpen, results, resultsOpen, resultDropped>>

\* Mutant of AllExited: the results are closed without waiting for the workers.
NotAwaited(d) == TRUE

\* startWorkers' wait function returns.
AllExited(d) == \A w \in Workers : work[d][w] = Exited

WorkerStep(d, w) == WorkerTake(d, w) \/ WorkerSend(d, w) \/ WorkerExit(d, w)
=============================================================================
