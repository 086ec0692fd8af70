--------------------------- MODULE RecordsProofs ----------------------------
(***************************************************************************)
(* Proofs about Records and Aggregator: the percentiles are nearest ranks, *)
(* evidence and Prometheus count alike, and every finding is counted once. *)
(***************************************************************************)
EXTENDS Records, FoldLemmas

-----------------------------------------------------------------------------
(* The inductive invariant *)

Log == [cats : SUBSET Categories, resp : BOOLEAN, respCats : SUBSET Categories]
ByCategory == [Categories -> Nat]
Window ==
    [processed : Nat, overflow : Nat, percentile : [Percentiles -> Nat],
     audited : Nat, pii : Nat, events : ByCategory,
     responses : Nat, responsePII : Nat, responseEvents : ByCategory]

TypeInv ==
    /\ requestsAudited \in Nat /\ piiDetected \in Nat /\ eventsByCategory \in ByCategory
    /\ responsesAudited \in Nat /\ responsePIIDetected \in Nat
    /\ responseEventsByCategory \in ByCategory
    /\ latencySamples \in Nat /\ latencyOverflow \in Nat
    /\ latencyBuckets \in [Buckets -> Nat]
    /\ delivered \in [Exchanges -> SUBSET Directions]
    /\ merged \subseteq Exchanges /\ \A e \in merged : delivered[e] = Directions
    /\ batch \in Seq(Log) /\ persisted \in Seq(Log)
    /\ flush \in {"idle", "ingest", "audited", "pii"}
    /\ requestsAuditedTotal \in Nat /\ piiDetectedTotal \in ByCategory
    /\ requestsTotal \in Nat /\ recording \in Nat /\ flushErrors \in Nat
    /\ ticker \in {"select", "reports"} /\ evidenceReports \in Nat
    /\ windows \in Seq(Window)

\* What windows ws add up to.
ProcessedIn(ws) == SumFunction([i \in DOMAIN ws |-> ws[i].processed])
AuditedIn(ws) == SumFunction([i \in DOMAIN ws |-> ws[i].audited])
ResponsesIn(ws) == SumFunction([i \in DOMAIN ws |-> ws[i].responses])
EventsIn(ws, c) == SumFunction([i \in DOMAIN ws |-> ws[i].events[c]])
ResponseEventsIn(ws, c) == SumFunction([i \in DOMAIN ws |-> ws[i].responseEvents[c]])

\* The closed windows and the current one.
ReportedProcessed == ProcessedIn(windows) + latencySamples
ReportedAudited == AuditedIn(windows) + requestsAudited
ReportedResponses == ResponsesIn(windows) + responsesAudited
ReportedEvents(c) == EventsIn(windows, c) + eventsByCategory[c]
ReportedResponseEvents(c) == ResponseEventsIn(windows, c) + responseEventsByCategory[c]

\* What logs have to be counted for.
Requests(logs, c) == Having(RequestCats(logs), c)
Answers(logs, c) == Having(ResponseCats(logs), c)
Answered(logs) == Cardinality(Responses(logs))

MetricsInv ==
    /\ ReportedProcessed = requestsTotal + recording
    /\ ReportedAudited
         = requestsAuditedTotal + IF flush = "audited" THEN Len(persisted) ELSE 0
    /\ \A c \in Categories :
         ReportedEvents(c) = piiDetectedTotal[c] + IF flush \in {"audited", "pii"}
                                                   THEN Requests(persisted, c) ELSE 0
    /\ Len(windows) = evidenceReports + IF ticker = "reports" THEN 1 ELSE 0

\* n are reported, u under way to the aggregator and b to be flushed, of k that
\* were delivered.
Once(n, u, b, k, exact) == n + u + b <= k /\ (exact => n + u + b = k)
Underway(n) == IF flush = "ingest" THEN n ELSE 0

Finding(d, c) == IF d = "request" THEN {e \in Exchanges : c \in Found[e].request}
                                  ELSE {e \in Exchanges : c \in Found[e].response}
DeliveredWith(d, c) == Delivered(d) \cap Finding(d, c)

OnceInv ==
    /\ \A c \in Categories :
         /\ Once(ReportedEvents(c), Underway(Requests(persisted, c)), Requests(batch, c),
                 Cardinality(DeliveredWith("request", c)), flushErrors = 0)
         /\ Once(ReportedResponseEvents(c), Underway(Answers(persisted, c)),
                 Answers(batch, c), Cardinality(DeliveredWith("response", c)),
                 flushErrors = 0)
    /\ Once(ReportedResponses, Underway(Answered(persisted)), Answered(batch),
            Cardinality(Delivered("response")), flushErrors = 0)
    /\ Once(ReportedAudited, Underway(Len(persisted)), Len(batch), Logs, flushErrors = 0)

\* A total is the sum of its categories, in the current window and the others.
TotalsInv ==
    /\ piiDetected = SumFunction(eventsByCategory)
    /\ responsePIIDetected = SumFunction(responseEventsByCategory)
    /\ \A i \in DOMAIN windows :
         /\ windows[i].pii = SumFunction(windows[i].events)
         /\ windows[i].responsePII = SumFunction(windows[i].responseEvents)

LatencyInv == latencySamples = latencyOverflow + SumFunction(latencyBuckets)

IInv == TypeInv /\ MetricsInv /\ OnceInv /\ TotalsInv /\ LatencyInv

-----------------------------------------------------------------------------
(* Sums over windows *)

\* A window more adds its numbers to what the windows add up to.
LEMMA AppendSums ==
    ASSUME NEW ws \in Seq(Window), NEW w \in Window
    PROVE  /\ ProcessedIn(Append(ws, w)) = ProcessedIn(ws) + w.processed
           /\ AuditedIn(Append(ws, w)) = AuditedIn(ws) + w.audited
           /\ ResponsesIn(Append(ws, w)) = ResponsesIn(ws) + w.responses
           /\ ProcessedIn(ws) \in Nat /\ AuditedIn(ws) \in Nat
           /\ ResponsesIn(ws) \in Nat
<1> DEFINE n == Len(ws)
           more == Append(ws, w)
<1>1. /\ n \in Nat /\ DOMAIN ws = 1..n /\ DOMAIN more = 1..(n + 1)
      /\ \A i \in 1..n : more[i] = ws[i] /\ ws[i] \in Window
      /\ more[n + 1] = w
  OBVIOUS
<1>0. \A x \in Window : x.processed \in Nat /\ x.audited \in Nat /\ x.responses \in Nat
  BY DEF Window
<1> HIDE DEF n, more
<1>2. ProcessedIn(more) = ProcessedIn(ws) + w.processed /\ ProcessedIn(ws) \in Nat
  <2> DEFINE f == [i \in DOMAIN ws |-> ws[i].processed]
             g == [i \in DOMAIN more |-> more[i].processed]
  <2>1. /\ DOMAIN f = 1..n /\ DOMAIN g = 1..(n + 1)
        /\ \A i \in 1..n : f[i] \in Nat /\ g[i] = f[i]
        /\ g[n + 1] = w.processed /\ w.processed \in Nat
    BY <1>0, <1>1
  <2> HIDE DEF f, g
  <2>2. SumFunction(g) = SumFunction(f) + w.processed /\ SumFunction(f) \in Nat
    BY <1>1, <2>1, SumAppend
  <2> QED
    BY <2>2 DEF f, g, ProcessedIn
<1>3. AuditedIn(more) = AuditedIn(ws) + w.audited /\ AuditedIn(ws) \in Nat
  <2> DEFINE f == [i \in DOMAIN ws |-> ws[i].audited]
             g == [i \in DOMAIN more |-> more[i].audited]
  <2>1. /\ DOMAIN f = 1..n /\ DOMAIN g = 1..(n + 1)
        /\ \A i \in 1..n : f[i] \in Nat /\ g[i] = f[i]
        /\ g[n + 1] = w.audited /\ w.audited \in Nat
    BY <1>0, <1>1
  <2> HIDE DEF f, g
  <2>2. SumFunction(g) = SumFunction(f) + w.audited /\ SumFunction(f) \in Nat
    BY <1>1, <2>1, SumAppend
  <2> QED
    BY <2>2 DEF f, g, AuditedIn
<1>4. ResponsesIn(more) = ResponsesIn(ws) + w.responses /\ ResponsesIn(ws) \in Nat
  <2> DEFINE f == [i \in DOMAIN ws |-> ws[i].responses]
             g == [i \in DOMAIN more |-> more[i].responses]
  <2>1. /\ DOMAIN f = 1..n /\ DOMAIN g = 1..(n + 1)
        /\ \A i \in 1..n : f[i] \in Nat /\ g[i] = f[i]
        /\ g[n + 1] = w.responses /\ w.responses \in Nat
    BY <1>0, <1>1
  <2> HIDE DEF f, g
  <2>2. SumFunction(g) = SumFunction(f) + w.responses /\ SumFunction(f) \in Nat
    BY <1>1, <2>1, SumAppend
  <2> QED
    BY <2>2 DEF f, g, ResponsesIn
<1> QED
  BY <1>2, <1>3, <1>4 DEF more

\* The same, by category.
LEMMA AppendSumsByCategory ==
    ASSUME NEW ws \in Seq(Window), NEW w \in Window, NEW c \in Categories
    PROVE  /\ EventsIn(Append(ws, w), c) = EventsIn(ws, c) + w.events[c]
           /\ ResponseEventsIn(Append(ws, w), c)
                = ResponseEventsIn(ws, c) + w.responseEvents[c]
           /\ EventsIn(ws, c) \in Nat /\ ResponseEventsIn(ws, c) \in Nat
<1> DEFINE n == Len(ws)
           more == Append(ws, w)
<1>1. /\ n \in Nat /\ DOMAIN ws = 1..n /\ DOMAIN more = 1..(n + 1)
      /\ \A i \in 1..n : more[i] = ws[i] /\ ws[i] \in Window
      /\ more[n + 1] = w
  OBVIOUS
<1>2. \A x \in Window : x.events[c] \in Nat /\ x.responseEvents[c] \in Nat
  BY DEF Window, ByCategory
<1> HIDE DEF n, more
<1>3. EventsIn(more, c) = EventsIn(ws, c) + w.events[c] /\ EventsIn(ws, c) \in Nat
  <2> DEFINE f == [i \in DOMAIN ws |-> ws[i].events[c]]
             g == [i \in DOMAIN more |-> more[i].events[c]]
  <2>1. /\ DOMAIN f = 1..n /\ DOMAIN g = 1..(n + 1)
        /\ \A i \in 1..n : f[i] \in Nat /\ g[i] = f[i]
        /\ g[n + 1] = w.events[c] /\ w.events[c] \in Nat
    BY <1>1, <1>2
  <2> HIDE DEF f, g
  <2>2. SumFunction(g) = SumFunction(f) + w.events[c] /\ SumFunction(f) \in Nat
    BY <1>1, <2>1, SumAppend, SMTT(30)
  <2> QED
    BY <2>2 DEF f, g, EventsIn
<1>4. /\ ResponseEventsIn(more, c) = ResponseEventsIn(ws, c) + w.responseEvents[c]
      /\ ResponseEventsIn(ws, c) \in Nat
  <2> DEFINE f == [i \in DOMAIN ws |-> ws[i].responseEvents[c]]
             g == [i \in DOMAIN more |-> more[i].responseEvents[c]]
  <2>1. /\ DOMAIN f = 1..n /\ DOMAIN g = 1..(n + 1)
        /\ \A i \in 1..n : f[i] \in Nat /\ g[i] = f[i]
        /\ g[n + 1] = w.responseEvents[c] /\ w.responseEvents[c] \in Nat
    BY <1>1, <1>2
  <2> HIDE DEF f, g
  <2>2. SumFunction(g) = SumFunction(f) + w.responseEvents[c] /\ SumFunction(f) \in Nat
    BY <1>1, <2>1, SumAppend, SMTT(30)
  <2> QED
    BY <2>2 DEF f, g, ResponseEventsIn
<1> QED
  BY <1>3, <1>4 DEF more

\* A window in which nothing was counted, to state the sums' types with.
LEMMA SumsAreNumbers ==
    ASSUME NEW ws \in Seq(Window)
    PROVE  /\ ProcessedIn(ws) \in Nat /\ AuditedIn(ws) \in Nat
           /\ ResponsesIn(ws) \in Nat
           /\ \A c \in Categories : EventsIn(ws, c) \in Nat
                                    /\ ResponseEventsIn(ws, c) \in Nat
<1> DEFINE none == [c \in Categories |-> 0]
           w == [processed |-> 0, overflow |-> 0, percentile |-> [p \in Percentiles |-> 0],
                 audited |-> 0, pii |-> 0, events |-> none,
                 responses |-> 0, responsePII |-> 0, responseEvents |-> none]
<1>1. w \in Window
  BY DEF Window, ByCategory
<1> HIDE DEF w
<1> QED
  BY <1>1, AppendSums, AppendSumsByCategory

\* Before the first window there is nothing to add up.
LEMMA NoSums ==
    /\ ProcessedIn(<<>>) = 0 /\ AuditedIn(<<>>) = 0 /\ ResponsesIn(<<>>) = 0
    /\ \A c \in Categories : EventsIn(<<>>, c) = 0 /\ ResponseEventsIn(<<>>, c) = 0
<1>1. ASSUME NEW f, DOMAIN f = {} PROVE SumFunction(f) = 0
  BY <1>1, SumEmpty DEF SumFunction
<1> QED
  BY <1>1 DEF ProcessedIn, AuditedIn, ResponsesIn, EventsIn, ResponseEventsIn

\* The properties in the words of the invariant.
LEMMA ReportedIs ==
    /\ Reported(LAMBDA w : w.processed) = ReportedProcessed
    /\ Reported(LAMBDA w : w.audited) = ReportedAudited
    /\ Reported(LAMBDA w : w.responses) = ReportedResponses
    /\ \A c \in Categories :
         /\ Reported(LAMBDA w : w.events[c]) = ReportedEvents(c)
         /\ Reported(LAMBDA w : w.responseEvents[c]) = ReportedResponseEvents(c)
BY DEF Reported, Summary, ReportedProcessed, ReportedAudited, ReportedResponses,
       ReportedEvents, ReportedResponseEvents,
       ProcessedIn, AuditedIn, ResponsesIn, EventsIn, ResponseEventsIn

-----------------------------------------------------------------------------
(* Counting logs *)

\* There are finitely many categories.
LEMMA CategoriesFinite == IsFiniteSet(Categories)
<1>1. Categories = {"EMAIL"} \cup {"SSN"} \cup {"CC_NUMBER"} \cup {"PHONE"}
                     \cup {"IP_ADDRESS"}
  <2>1. DOMAIN defaultPIIPatterns = {1, 2, 3, 4, 5}
    BY DEF defaultPIIPatterns
  <2> QED
    BY <2>1 DEF Categories, ToSet, defaultPIIPatterns
<1> QED
  BY <1>1, FS_Singleton, FS_Union

\* The logs that count for a request's category, for an answer's, for an answer.
RequestIdx(logs, c) == {i \in DOMAIN logs : c \in logs[i].cats}
AnswerIdx(logs, c) == {i \in DOMAIN logs : logs[i].resp /\ c \in logs[i].respCats}

LEMMA CountsAre ==
    ASSUME NEW logs, NEW c
    PROVE  /\ Requests(logs, c) = Cardinality(RequestIdx(logs, c))
           /\ Answers(logs, c) = Cardinality(AnswerIdx(logs, c))
<1>1. {i \in DOMAIN RequestCats(logs) : c \in RequestCats(logs)[i]} = RequestIdx(logs, c)
  BY DEF RequestCats, RequestIdx
<1>2. {i \in DOMAIN ResponseCats(logs) : c \in ResponseCats(logs)[i]}
        = AnswerIdx(logs, c)
  BY DEF ResponseCats, Responses, AnswerIdx
<1> QED
  BY <1>1, <1>2 DEF Requests, Answers, Having

\* An element more, or not.
LEMMA OneMore ==
    ASSUME NEW n \in Nat, NEW A \in SUBSET (1..n), NEW B, NEW yes \in BOOLEAN,
           B = IF yes THEN A \cup {n + 1} ELSE A
    PROVE  /\ Cardinality(B) = Cardinality(A) + IF yes THEN 1 ELSE 0
           /\ Cardinality(A) \in Nat
<1>0. IsFiniteSet(1..n)
  BY FS_Interval
<1>a. n + 1 \notin A
  OBVIOUS
<1>b. IsFiniteSet(A)
  BY <1>0, FS_Subset
<1>1. IsFiniteSet(A) /\ n + 1 \notin A
  BY <1>a, <1>b
<1>2. Cardinality(A) \in Nat
  BY <1>1, FS_CardinalityType
<1>3. Cardinality(A \cup {n + 1}) = Cardinality(A) + 1
  BY <1>1, FS_AddElement
<1> QED
  BY <1>2, <1>3

\* A log more.
LEMMA OneLogMore ==
    ASSUME NEW logs \in Seq(Log), NEW log \in Log
    PROVE  /\ \A c \in Categories :
                /\ Requests(Append(logs, log), c)
                     = Requests(logs, c) + IF c \in log.cats THEN 1 ELSE 0
                /\ Answers(Append(logs, log), c)
                     = Answers(logs, c)
                         + IF log.resp /\ c \in log.respCats THEN 1 ELSE 0
                /\ Requests(logs, c) \in Nat /\ Answers(logs, c) \in Nat
           /\ Answered(Append(logs, log)) = Answered(logs) + IF log.resp THEN 1 ELSE 0
           /\ Answered(logs) \in Nat
<1> DEFINE n == Len(logs)
           more == Append(logs, log)
<1>1. /\ n \in Nat /\ DOMAIN logs = 1..n /\ DOMAIN more = 1..(n + 1)
      /\ \A i \in 1..n : more[i] = logs[i]
      /\ more[n + 1] = log
      /\ 1..(n + 1) = (1..n) \cup {n + 1} /\ n + 1 \notin 1..n
  OBVIOUS
<1>2. log.resp \in BOOLEAN
  BY DEF Log
<1> HIDE DEF n, more
<1>3. ASSUME NEW c \in Categories
      PROVE  /\ Requests(more, c) = Requests(logs, c) + IF c \in log.cats THEN 1 ELSE 0
             /\ Requests(logs, c) \in Nat
  <2> DEFINE A == RequestIdx(logs, c)
             B == RequestIdx(more, c)
             yes == c \in log.cats
  <2>1. A \in SUBSET (1..n) /\ B = IF yes THEN A \cup {n + 1} ELSE A
    BY <1>1 DEF RequestIdx
  <2>2. yes \in BOOLEAN
    OBVIOUS
  <2>3. Requests(more, c) = Cardinality(B) /\ Requests(logs, c) = Cardinality(A)
    BY CountsAre
  <2> HIDE DEF A, B, yes
  <2>4. Cardinality(B) = Cardinality(A) + (IF yes THEN 1 ELSE 0) /\ Cardinality(A) \in Nat
    BY <1>1, <2>1, <2>2, OneMore, SMTT(30)
  <2> QED
    BY <2>3, <2>4 DEF yes
<1>4. ASSUME NEW c \in Categories
      PROVE  /\ Answers(more, c)
                  = Answers(logs, c) + IF log.resp /\ c \in log.respCats THEN 1 ELSE 0
             /\ Answers(logs, c) \in Nat
  <2> DEFINE A == AnswerIdx(logs, c)
             B == AnswerIdx(more, c)
             yes == log.resp /\ c \in log.respCats
  <2>1. A \in SUBSET (1..n) /\ B = IF yes THEN A \cup {n + 1} ELSE A
    BY <1>1 DEF AnswerIdx
  <2>2. yes \in BOOLEAN
    OBVIOUS
  <2>3. Answers(more, c) = Cardinality(B) /\ Answers(logs, c) = Cardinality(A)
    BY CountsAre
  <2> HIDE DEF A, B, yes
  <2>4. Cardinality(B) = Cardinality(A) + (IF yes THEN 1 ELSE 0) /\ Cardinality(A) \in Nat
    BY <1>1, <2>1, <2>2, OneMore, SMTT(30)
  <2> QED
    BY <2>3, <2>4 DEF yes
<1>5. /\ Answered(more) = Answered(logs) + IF log.resp THEN 1 ELSE 0
      /\ Answered(logs) \in Nat
  <2> DEFINE A == Responses(logs)
             B == Responses(more)
             yes == log.resp
  <2>1. A \in SUBSET (1..n) /\ B = IF yes THEN A \cup {n + 1} ELSE A
    BY <1>1 DEF Responses
  <2>2. yes \in BOOLEAN
    BY <1>2
  <2> HIDE DEF A, B, yes
  <2>3. Cardinality(B) = Cardinality(A) + (IF yes THEN 1 ELSE 0) /\ Cardinality(A) \in Nat
    BY <1>1, <2>1, <2>2, OneMore
  <2> QED
    BY <2>3 DEF A, B, yes, Answered
<1> QED
  BY <1>3, <1>4, <1>5 DEF more

\* No logs.
LEMMA NoLogs ==
    /\ Len(<<>>) = 0 /\ Answered(<<>>) = 0
    /\ \A c \in Categories : Requests(<<>>, c) = 0 /\ Answers(<<>>, c) = 0
<1>1. /\ Responses(<<>>) = {} /\ Cardinality({}) = 0
      /\ \A c : RequestIdx(<<>>, c) = {} /\ AnswerIdx(<<>>, c) = {}
  BY FS_EmptySet DEF Responses, RequestIdx, AnswerIdx
<1> QED
  BY <1>1, CountsAre DEF Answered

\* A beginning of the logs counts for no more than all of them.
LEMMA Beginning ==
    ASSUME NEW logs \in Seq(Log), NEW n \in 0..Len(logs), NEW part,
           part = SubSeq(logs, 1, n)
    PROVE  /\ part \in Seq(Log) /\ Len(part) = n
           /\ \A c \in Categories : /\ Requests(part, c) <= Requests(logs, c)
                                    /\ Answers(part, c) <= Answers(logs, c)
           /\ Answered(part) <= Answered(logs)
           /\ n = Len(logs) => part = logs
<1>1. /\ part \in Seq(Log) /\ Len(part) = n /\ DOMAIN part = 1..n
      /\ \A i \in 1..n : part[i] = logs[i]
      /\ DOMAIN logs = 1..Len(logs) /\ 1..n \subseteq 1..Len(logs) /\ Len(logs) \in Nat
      /\ n = Len(logs) => part = logs
  OBVIOUS
<1>2. IsFiniteSet(1..Len(logs))
  <2>1. Len(logs) \in Nat
    OBVIOUS
  <2> QED
    BY <2>1, FS_Interval
<1>3. ASSUME NEW A, NEW B, A \subseteq B, B \subseteq 1..Len(logs)
      PROVE  Cardinality(A) <= Cardinality(B)
  BY <1>2, <1>3, FS_Subset
<1>4. ASSUME NEW c \in Categories
      PROVE  Requests(part, c) <= Requests(logs, c) /\ Answers(part, c) <= Answers(logs, c)
  <2>1. /\ RequestIdx(part, c) \subseteq RequestIdx(logs, c)
        /\ RequestIdx(logs, c) \subseteq 1..Len(logs)
    BY <1>1 DEF RequestIdx
  <2>2. /\ AnswerIdx(part, c) \subseteq AnswerIdx(logs, c)
        /\ AnswerIdx(logs, c) \subseteq 1..Len(logs)
    BY <1>1 DEF AnswerIdx
  <2>3. /\ Cardinality(RequestIdx(part, c)) <= Cardinality(RequestIdx(logs, c))
        /\ Cardinality(AnswerIdx(part, c)) <= Cardinality(AnswerIdx(logs, c))
    BY <1>3, <2>1, <2>2
  <2> QED
    BY <2>3, CountsAre
<1>5. Answered(part) <= Answered(logs)
  <2>1. Responses(part) \subseteq Responses(logs) /\ Responses(logs) \subseteq 1..Len(logs)
    BY <1>1 DEF Responses
  <2> QED
    BY <1>3, <2>1 DEF Answered
<1> QED
  BY <1>1, <1>4, <1>5

\* The counts are numbers.
LEMMA LogCounts ==
    ASSUME NEW logs \in Seq(Log)
    PROVE  /\ Answered(logs) \in Nat /\ Len(logs) \in Nat
           /\ \A c \in Categories : Requests(logs, c) \in Nat /\ Answers(logs, c) \in Nat
<1> DEFINE log == [cats |-> {}, resp |-> FALSE, respCats |-> {}]
<1>1. log \in Log
  BY DEF Log
<1> HIDE DEF log
<1> QED
  BY <1>1, OneLogMore

\* What is found in logs is found category by category.
LEMMA FoundByCategory ==
    ASSUME NEW logs \in Seq(Log)
    PROVE  /\ FoundIn(RequestCats(logs)) = SumFunction([c \in Categories |-> Requests(logs, c)])
           /\ FoundIn(ResponseCats(logs)) = SumFunction([c \in Categories |-> Answers(logs, c)])
           /\ FoundIn(RequestCats(logs)) \in Nat /\ FoundIn(ResponseCats(logs)) \in Nat
<1>1. ASSUME NEW D, IsFiniteSet(D), NEW F, DOMAIN F = D, \A i \in D : F[i] \subseteq Categories
      PROVE  /\ FoundIn(F) = SumFunction([c \in Categories |-> Having(F, c)])
             /\ FoundIn(F) \in Nat
  <2> DEFINE size == [i \in D |-> Cardinality(F[i])]
             having == [c \in Categories |-> Cardinality({i \in D : c \in F[i]})]
  <2>1. SumFunctionOnSet(size, D) = SumFunctionOnSet(having, Categories)
    BY <1>1, CategoriesFinite, DoubleCount
  <2>2. having = [c \in Categories |-> Having(F, c)] /\ DOMAIN having = Categories
    BY <1>1 DEF Having
  <2>3. FoundIn(F) = SumFunctionOnSet(size, D)
    BY <1>1 DEF FoundIn, SumFunction
  <2>4. \A i \in D : size[i] \in Nat
    BY <1>1, CategoriesFinite, FS_Subset, FS_CardinalityType
  <2> HIDE DEF size, having
  <2>5. SumFunctionOnSet(size, D) \in Nat
    BY <1>1, <2>4, SumType
  <2> QED
    BY <2>1, <2>2, <2>3, <2>5 DEF SumFunction
<1>2. /\ DOMAIN logs = 1..Len(logs) /\ Len(logs) \in Nat
      /\ \A i \in DOMAIN logs : /\ logs[i].cats \subseteq Categories
                                /\ logs[i].respCats \subseteq Categories
  <2>1. \A l \in Log : l.cats \subseteq Categories /\ l.respCats \subseteq Categories
    BY DEF Log
  <2>2. \A i \in DOMAIN logs : logs[i] \in Log
    OBVIOUS
  <2> QED
    BY <2>1, <2>2
<1>3. IsFiniteSet(DOMAIN logs)
  BY <1>2, FS_Interval
<1>4. /\ DOMAIN RequestCats(logs) = DOMAIN logs
      /\ \A i \in DOMAIN logs : RequestCats(logs)[i] \subseteq Categories
  BY <1>2 DEF RequestCats
<1>5. /\ DOMAIN ResponseCats(logs) = Responses(logs) /\ IsFiniteSet(Responses(logs))
      /\ \A i \in Responses(logs) : ResponseCats(logs)[i] \subseteq Categories
  BY <1>2, <1>3, FS_Subset DEF ResponseCats, Responses
<1> QED
  BY <1>1, <1>3, <1>4, <1>5 DEF Requests, Answers

-----------------------------------------------------------------------------
(* Facts used throughout *)

\* The types of what the invariants compare.
LEMMA Numbers ==
    ASSUME TypeInv
    PROVE  /\ ReportedProcessed \in Nat /\ ReportedAudited \in Nat
           /\ ReportedResponses \in Nat
           /\ \A c \in Categories : /\ ReportedEvents(c) \in Nat
                                    /\ ReportedResponseEvents(c) \in Nat
                                    /\ Underway(Requests(persisted, c)) \in Nat
                                    /\ Underway(Answers(persisted, c)) \in Nat
                                    /\ Requests(persisted, c) \in Nat
                                    /\ Answers(persisted, c) \in Nat
                                    /\ Requests(batch, c) \in Nat
                                    /\ Answers(batch, c) \in Nat
           /\ Underway(Answered(persisted)) \in Nat /\ Answered(batch) \in Nat
           /\ Underway(Len(persisted)) \in Nat /\ Len(batch) \in Nat
           /\ Len(persisted) \in Nat /\ Answered(persisted) \in Nat
<1>1. windows \in Seq(Window) /\ batch \in Seq(Log) /\ persisted \in Seq(Log)
  BY DEF TypeInv
<1>2. /\ Answered(batch) \in Nat /\ Len(batch) \in Nat
      /\ Answered(persisted) \in Nat /\ Len(persisted) \in Nat
      /\ \A c \in Categories : /\ Requests(batch, c) \in Nat /\ Answers(batch, c) \in Nat
                               /\ Requests(persisted, c) \in Nat
                               /\ Answers(persisted, c) \in Nat
  BY <1>1, LogCounts
<1>3. /\ ReportedProcessed \in Nat /\ ReportedAudited \in Nat
      /\ ReportedResponses \in Nat
  BY <1>1, SumsAreNumbers DEF TypeInv, ReportedProcessed, ReportedAudited,
                              ReportedResponses
<1>4. \A c \in Categories : ReportedEvents(c) \in Nat /\ ReportedResponseEvents(c) \in Nat
  <2>1. SUFFICES ASSUME NEW c \in Categories
                 PROVE  ReportedEvents(c) \in Nat /\ ReportedResponseEvents(c) \in Nat
    OBVIOUS
  <2>2. eventsByCategory[c] \in Nat /\ responseEventsByCategory[c] \in Nat
    BY DEF TypeInv, ByCategory
  <2>3. EventsIn(windows, c) \in Nat /\ ResponseEventsIn(windows, c) \in Nat
    BY <1>1, SumsAreNumbers
  <2> QED
    BY <2>2, <2>3 DEF ReportedEvents, ReportedResponseEvents
<1> QED
  BY <1>2, <1>3, <1>4 DEF Underway

\* How the four numbers move: a log is delivered, a batch is written, and what
\* was written is ingested.
LEMMA OnceDelivered ==
    ASSUME NEW n \in Nat, NEW u \in Nat, NEW b \in Nat, NEW k \in Nat, NEW exact,
           NEW d \in Nat, Once(n, u, b, k, exact)
    PROVE  Once(n, u, b + d, k + d, exact)
BY DEF Once

LEMMA OnceWritten ==
    ASSUME NEW n \in Nat, NEW b \in Nat, NEW k \in Nat, NEW exact,
           Once(n, 0, b, k, exact),
           NEW u \in Nat, u <= b, NEW still, still => exact /\ u = b
    PROVE  Once(n, u, 0, k, still)
BY DEF Once

LEMMA OnceIngested ==
    ASSUME NEW n \in Nat, NEW u \in Nat, NEW b \in Nat, NEW k, NEW exact,
           Once(n, u, b, k, exact)
    PROVE  Once(n + u, 0, b, k, exact)
BY DEF Once

\* The exchanges delivered can be counted.
LEMMA DeliveredFinite ==
    \A d, c : /\ IsFiniteSet(Delivered(d)) /\ Cardinality(Delivered(d)) \in Nat
              /\ IsFiniteSet(DeliveredWith(d, c))
              /\ Cardinality(DeliveredWith(d, c)) \in Nat
<1>1. ASSUME NEW d, NEW c
      PROVE  Delivered(d) \subseteq Exchanges /\ DeliveredWith(d, c) \subseteq Exchanges
  BY DEF Delivered, DeliveredWith
<1>2. ASSUME NEW S, S \subseteq Exchanges
      PROVE  IsFiniteSet(S) /\ Cardinality(S) \in Nat
  BY <1>2, RecordsAssumption, FS_Subset, FS_CardinalityType
<1> QED
  BY <1>1, <1>2

\* Every exchange whose logs were merged is among those whose request's was
\* delivered.
LEMMA LogsCounted ==
    ASSUME TypeInv
    PROVE  /\ IsFiniteSet(merged) /\ Cardinality(merged) \in Nat
           /\ Logs \in Nat
<1> DEFINE p == Cardinality(Delivered("request"))
           q == Cardinality(Delivered("response"))
           m == Cardinality(merged)
<1>1. IsFiniteSet(Delivered("request")) /\ p \in Nat /\ q \in Nat
  BY DeliveredFinite
<1>2. merged \subseteq Delivered("request")
  BY DEF TypeInv, Delivered, Directions
<1>3. IsFiniteSet(merged) /\ m <= p
  BY <1>1, <1>2, FS_Subset
<1>4. m \in Nat
  BY <1>3, FS_CardinalityType
<1>5. Logs = p + q - m
  BY DEF Logs
<1> HIDE DEF p, q, m
<1>6. Logs \in Nat
  BY ONLY <1>1, <1>3, <1>4, <1>5
<1> QED
  BY <1>3, <1>4, <1>6 DEF m

-----------------------------------------------------------------------------
(* Deliver *)

\* An exchange whose log of a direction is delivered had not had it delivered.
LEMMA DeliverCounts ==
    ASSUME TypeInv, NEW e \in Exchanges, NEW ds \in SUBSET Directions, Deliver(e, ds)
    PROVE  \A d \in Directions :
             /\ Cardinality(Delivered(d)')
                  = Cardinality(Delivered(d)) + IF d \in ds THEN 1 ELSE 0
             /\ \A c : Cardinality(DeliveredWith(d, c)')
                         = Cardinality(DeliveredWith(d, c))
                             + IF d \in ds /\ e \in Finding(d, c) THEN 1 ELSE 0
<1>1. /\ delivered' = [delivered EXCEPT ![e] = @ \cup ds]
      /\ ds \cap delivered[e] = {}
      /\ DOMAIN delivered = Exchanges
  BY DEF Deliver, TypeInv
<1>2. SUFFICES ASSUME NEW d \in Directions
      PROVE  /\ Cardinality(Delivered(d)')
                  = Cardinality(Delivered(d)) + IF d \in ds THEN 1 ELSE 0
             /\ \A c : Cardinality(DeliveredWith(d, c)')
                         = Cardinality(DeliveredWith(d, c))
                             + IF d \in ds /\ e \in Finding(d, c) THEN 1 ELSE 0
  OBVIOUS
<1>3. /\ Delivered(d)' = IF d \in ds THEN Delivered(d) \cup {e} ELSE Delivered(d)
      /\ d \in ds => e \notin Delivered(d)
  BY <1>1 DEF Delivered
<1>4. ASSUME NEW S, NEW R, NEW yes \in BOOLEAN, IsFiniteSet(S), e \notin S \/ ~yes,
             R = IF yes THEN S \cup {e} ELSE S
      PROVE  Cardinality(R) = Cardinality(S) + IF yes THEN 1 ELSE 0
  <2>1. Cardinality(S) \in Nat
    BY <1>4, FS_CardinalityType
  <2>2. CASE yes
    BY <1>4, <2>2, FS_AddElement
  <2>3. CASE ~yes
    BY <1>4, <2>1, <2>3
  <2> QED
    BY <2>2, <2>3
<1>5. Cardinality(Delivered(d)') = Cardinality(Delivered(d)) + IF d \in ds THEN 1 ELSE 0
  <2> DEFINE yes == d \in ds
  <2>1. yes \in BOOLEAN /\ (e \notin Delivered(d) \/ ~yes)
    BY <1>3
  <2>2. Delivered(d)' = IF yes THEN Delivered(d) \cup {e} ELSE Delivered(d)
    BY <1>3
  <2> HIDE DEF yes
  <2>3. Cardinality(Delivered(d)') = Cardinality(Delivered(d)) + IF yes THEN 1 ELSE 0
    BY <1>4, <2>1, <2>2, DeliveredFinite
  <2> QED
    BY <2>3 DEF yes
<1>6. ASSUME NEW c
      PROVE  Cardinality(DeliveredWith(d, c)')
               = Cardinality(DeliveredWith(d, c))
                   + IF d \in ds /\ e \in Finding(d, c) THEN 1 ELSE 0
  <2> DEFINE yes == d \in ds /\ e \in Finding(d, c)
  <2>1. yes \in BOOLEAN /\ (e \notin DeliveredWith(d, c) \/ ~yes)
    BY <1>3 DEF DeliveredWith
  <2>2. DeliveredWith(d, c)'
          = IF yes THEN DeliveredWith(d, c) \cup {e} ELSE DeliveredWith(d, c)
    BY <1>3 DEF DeliveredWith, Finding
  <2> HIDE DEF yes
  <2>3. Cardinality(DeliveredWith(d, c)')
          = Cardinality(DeliveredWith(d, c)) + IF yes THEN 1 ELSE 0
    BY <1>4, <2>1, <2>2, DeliveredFinite
  <2> QED
    BY <2>3 DEF yes
<1> QED
  BY <1>5, <1>6

\* What a log of an exchange says.
LEMMA LogSays ==
    ASSUME NEW e \in Exchanges, NEW ds \in SUBSET Directions, NEW log,
           log = TelemetryLog(e, ds)
    PROVE  /\ log \in Log
           /\ log.resp = ("response" \in ds)
           /\ \A c : /\ (c \in log.cats)
                          = ("request" \in ds /\ e \in Finding("request", c))
                     /\ (log.resp /\ c \in log.respCats)
                          = ("response" \in ds /\ e \in Finding("response", c))
<1>1. Found[e].request \subseteq Categories /\ Found[e].response \subseteq Categories
  BY RecordsAssumption
<1>2. /\ log.cats = IF "request" \in ds THEN Found[e].request ELSE {}
      /\ log.resp = ("response" \in ds)
      /\ log.respCats = IF "response" \in ds THEN Found[e].response ELSE {}
  BY DEF TelemetryLog
<1>3. log \in Log
  BY <1>1 DEF TelemetryLog, Log
<1>4. ASSUME NEW c
      PROVE  /\ (c \in log.cats) = ("request" \in ds /\ e \in Finding("request", c))
             /\ (log.resp /\ c \in log.respCats)
                  = ("response" \in ds /\ e \in Finding("response", c))
  <2>1. /\ e \in Finding("request", c) <=> c \in Found[e].request
        /\ e \in Finding("response", c) <=> c \in Found[e].response
    BY DEF Finding
  <2>2. (c \in log.cats) = ("request" \in ds /\ e \in Finding("request", c))
    BY <1>2, <2>1
  <2>3. CASE "response" \in ds
    <3>1. log.resp = TRUE /\ log.respCats = Found[e].response
      BY <1>2, <2>3
    <3> QED
      BY <2>1, <2>2, <2>3, <3>1
  <2>4. CASE "response" \notin ds
    <3>1. ~log.resp
      BY <1>2, <2>4
    <3> QED
      BY <2>2, <2>4, <3>1
  <2> QED
    BY <2>3, <2>4
<1> QED
  BY <1>2, <1>3, <1>4

\* A log is delivered, whatever it holds: one more.
LEMMA DeliverLogs ==
    ASSUME TypeInv, NEW e \in Exchanges, NEW ds \in SUBSET Directions, Deliver(e, ds)
    PROVE  Logs' = Logs + 1
<1> DEFINE p == Cardinality(Delivered("request"))
           q == Cardinality(Delivered("response"))
           m == Cardinality(merged)
<1>1. /\ ds # {} /\ ds \cap delivered[e] = {}
      /\ merged' = merged \cup IF ds = Directions THEN {e} ELSE {}
  BY DEF Deliver
<1>2. /\ p' = p + IF "request" \in ds THEN 1 ELSE 0
      /\ q' = q + IF "response" \in ds THEN 1 ELSE 0
  BY DeliverCounts DEF Directions
<1>3. p \in Nat /\ q \in Nat /\ IsFiniteSet(merged) /\ m \in Nat
  BY DeliveredFinite, LogsCounted
<1>4. e \notin merged
  BY <1>1 DEF TypeInv, Directions
<1>5. Logs = p + q - m /\ Logs' = p' + q' - m'
  BY DEF Logs
<1>6. CASE ds = Directions
  <2>1. m' = m + 1
    BY <1>1, <1>3, <1>4, <1>6, FS_AddElement
  <2>2. "request" \in ds /\ "response" \in ds
    BY <1>6 DEF Directions
  <2> HIDE DEF p, q, m
  <2> QED
    BY ONLY <1>2, <1>3, <1>5, <2>1, <2>2
<1>7. CASE ds # Directions
  <2>1. m' = m
    BY <1>1, <1>7
  <2>2. \/ "request" \in ds /\ "response" \notin ds
        \/ "request" \notin ds /\ "response" \in ds
    BY <1>1, <1>7 DEF Directions
  <2> HIDE DEF p, q, m
  <2> QED
    BY ONLY <1>2, <1>3, <1>5, <2>1, <2>2
<1> QED
  BY <1>6, <1>7

\* A log is delivered: one more of those that are to be flushed.
LEMMA DeliverStep ==
    ASSUME IInv, NEW e \in Exchanges, NEW ds \in SUBSET Directions, Deliver(e, ds)
    PROVE  IInv'
<1> DEFINE log == TelemetryLog(e, ds)
<1>0. TypeInv /\ MetricsInv /\ OnceInv /\ TotalsInv /\ LatencyInv
  BY DEF IInv
<1>1. /\ UNCHANGED <<flush, persisted, flushErrors>>
      /\ UNCHANGED <<requestsAuditedTotal, piiDetectedTotal, requestsTotal, recording>>
      /\ UNCHANGED <<ticker, windows, evidenceReports>>
      /\ UNCHANGED <<requestsAudited, piiDetected, eventsByCategory, responsesAudited,
                     responsePIIDetected, responseEventsByCategory>>
      /\ UNCHANGED <<latencySamples, latencyBuckets, latencyOverflow>>
  BY DEF Deliver, countVars, handlerVars, tickerVars, aggregatorVars, auditVars,
         latencyVars
<1>2. /\ delivered' = [delivered EXCEPT ![e] = @ \cup ds] /\ ds # {}
      /\ merged' = merged \cup IF ds = Directions THEN {e} ELSE {}
      /\ batch' = Append(batch, log)
  BY DEF Deliver
<1>3. /\ log \in Log
      /\ log.resp = ("response" \in ds)
      /\ \A c : /\ (c \in log.cats)
                     = ("request" \in ds /\ e \in Finding("request", c))
                /\ (log.resp /\ c \in log.respCats)
                     = ("response" \in ds /\ e \in Finding("response", c))
  BY LogSays
<1> HIDE DEF log
<1>4. TypeInv'
  <2>1. delivered' \in [Exchanges -> SUBSET Directions]
    BY <1>0, <1>2 DEF TypeInv
  <2>2. batch' \in Seq(Log)
    <3>1. batch \in Seq(Log) /\ log \in Log
      BY <1>0, <1>3 DEF TypeInv
    <3> QED
      BY <1>2, <3>1
  <2>3. merged' \subseteq Exchanges /\ \A x \in merged' : delivered'[x] = Directions
    <3>1. \A x \in merged : x \in Exchanges /\ delivered[x] = Directions
      BY <1>0 DEF TypeInv
    <3>2. delivered'[e] = delivered[e] \cup ds /\ delivered[e] \subseteq Directions
      BY <1>0, <1>2 DEF TypeInv
    <3>3. \A x \in Exchanges : x # e => delivered'[x] = delivered[x]
      BY <1>0, <1>2 DEF TypeInv
    <3> QED
      BY <1>2, <3>1, <3>2, <3>3
  <2> QED
    BY <1>0, <1>1, <2>1, <2>2, <2>3 DEF TypeInv
<1>5. /\ ReportedProcessed' = ReportedProcessed /\ ReportedAudited' = ReportedAudited
      /\ ReportedResponses' = ReportedResponses
      /\ \A c : /\ ReportedEvents(c)' = ReportedEvents(c)
                /\ ReportedResponseEvents(c)' = ReportedResponseEvents(c)
  BY <1>1 DEF ReportedProcessed, ReportedAudited, ReportedResponses, ReportedEvents,
              ReportedResponseEvents
<1>6. MetricsInv'
  BY <1>0, <1>1, <1>5 DEF MetricsInv
<1>7. TotalsInv' /\ LatencyInv'
  BY <1>0, <1>1 DEF TotalsInv, LatencyInv
<1>8. /\ Underway(Answered(persisted))' = Underway(Answered(persisted))
      /\ Underway(Len(persisted))' = Underway(Len(persisted))
      /\ \A c : /\ Underway(Requests(persisted, c))' = Underway(Requests(persisted, c))
                /\ Underway(Answers(persisted, c))' = Underway(Answers(persisted, c))
      /\ (flushErrors = 0)' <=> flushErrors = 0
  BY <1>1 DEF Underway
<1>9. batch \in Seq(Log)
  BY <1>0 DEF TypeInv
<1>10. ASSUME NEW c \in Categories
       PROVE  /\ Once(ReportedEvents(c), Underway(Requests(persisted, c)),
                      Requests(batch, c), Cardinality(DeliveredWith("request", c)),
                      flushErrors = 0)'
              /\ Once(ReportedResponseEvents(c), Underway(Answers(persisted, c)),
                      Answers(batch, c), Cardinality(DeliveredWith("response", c)),
                      flushErrors = 0)'
  <2> DEFINE x == IF c \in log.cats THEN 1 ELSE 0
             y == IF log.resp /\ c \in log.respCats THEN 1 ELSE 0
  <2>0. log \in Log /\ batch' = Append(batch, log)
    BY <1>2, <1>3
  <2>1. /\ Requests(batch', c) = Requests(batch, c) + x
        /\ Answers(batch', c) = Answers(batch, c) + y
    BY <1>9, <2>0, OneLogMore
  <2>2. /\ Cardinality(DeliveredWith("request", c)')
             = Cardinality(DeliveredWith("request", c)) + x
        /\ Cardinality(DeliveredWith("response", c)')
             = Cardinality(DeliveredWith("response", c)) + y
    BY <1>0, <1>3, DeliverCounts DEF Directions
  <2>3. x \in Nat /\ y \in Nat
    OBVIOUS
  <2> HIDE DEF x, y
  <2>4. /\ Once(ReportedEvents(c), Underway(Requests(persisted, c)),
                Requests(batch, c) + x,
                Cardinality(DeliveredWith("request", c)) + x, flushErrors = 0)
        /\ Once(ReportedResponseEvents(c), Underway(Answers(persisted, c)),
                Answers(batch, c) + y,
                Cardinality(DeliveredWith("response", c)) + y, flushErrors = 0)
    BY <1>0, <2>3, Numbers, DeliveredFinite, OnceDelivered DEF OnceInv
  <2> QED
    BY <1>1, <1>5, <1>8, <2>1, <2>2, <2>4
<1>11. /\ Once(ReportedResponses, Underway(Answered(persisted)), Answered(batch),
               Cardinality(Delivered("response")), flushErrors = 0)'
       /\ Once(ReportedAudited, Underway(Len(persisted)), Len(batch), Logs,
               flushErrors = 0)'
  <2> DEFINE y == IF "response" \in ds THEN 1 ELSE 0
             q == Cardinality(Delivered("response"))
  <2>0. log \in Log /\ batch' = Append(batch, log)
    BY <1>2, <1>3
  <2>a. Answered(Append(batch, log)) = Answered(batch) + IF log.resp THEN 1 ELSE 0
    BY <1>9, <2>0, OneLogMore
  <2>b. Answered(batch') = Answered(batch) + y
    BY ONLY <1>3, <2>0, <2>a
  <2>1. Answered(batch') = Answered(batch) + y /\ Len(batch') = Len(batch) + 1
    BY <1>9, <2>0, <2>b
  <2>2. Cardinality(Delivered("response")') = q + y /\ Logs' = Logs + 1
    BY <1>0, DeliverCounts, DeliverLogs DEF Directions
  <2>3. y \in Nat /\ 1 \in Nat /\ q \in Nat /\ Logs \in Nat
    BY <1>0, DeliveredFinite, LogsCounted
  <2> HIDE DEF y, q
  <2>4. Once(ReportedResponses, Underway(Answered(persisted)), Answered(batch) + y,
             q + y, flushErrors = 0)
    BY <1>0, <2>3, Numbers, OnceDelivered DEF OnceInv, q
  <2>5. Once(ReportedAudited, Underway(Len(persisted)), Len(batch) + 1, Logs + 1,
             flushErrors = 0)
    BY <1>0, <2>3, Numbers, OnceDelivered DEF OnceInv
  <2> QED
    BY <1>1, <1>5, <1>8, <2>1, <2>2, <2>4, <2>5
<1>12. OnceInv'
  BY <1>10, <1>11 DEF OnceInv
<1> QED
  BY <1>4, <1>6, <1>7, <1>12 DEF IInv

-----------------------------------------------------------------------------
(* The flush callback *)

\* A flush writes a beginning of the batch: what it wrote is under way, and what
\* it did not write is an error.
LEMMA FlushStepWrites ==
    ASSUME IInv, NEW n \in 0..Len(batch), Flush(n)
    PROVE  IInv'
<1>0. TypeInv /\ MetricsInv /\ OnceInv /\ TotalsInv /\ LatencyInv
  BY DEF IInv
<1>1. /\ UNCHANGED <<requestsAuditedTotal, piiDetectedTotal, requestsTotal, recording>>
      /\ UNCHANGED <<ticker, windows, evidenceReports, delivered, merged>>
      /\ UNCHANGED <<requestsAudited, piiDetected, eventsByCategory, responsesAudited,
                     responsePIIDetected, responseEventsByCategory>>
      /\ UNCHANGED <<latencySamples, latencyBuckets, latencyOverflow>>
  BY DEF Flush, FlushStep, countVars, handlerVars, tickerVars, auditVars, latencyVars
<1>2. /\ flush = "idle" /\ flush' = "ingest" /\ batch' = <<>>
      /\ persisted' = SubSeq(batch, 1, n)
      /\ flushErrors' = flushErrors + IF n < Len(batch) THEN 1 ELSE 0
  BY DEF Flush, FlushStep
<1>3. batch \in Seq(Log) /\ flushErrors \in Nat
  BY <1>0 DEF TypeInv
<1>4. /\ persisted' \in Seq(Log) /\ Len(persisted') = n
      /\ \A c \in Categories : /\ Requests(persisted', c) <= Requests(batch, c)
                               /\ Answers(persisted', c) <= Answers(batch, c)
      /\ Answered(persisted') <= Answered(batch)
      /\ n = Len(batch) => persisted' = batch
  BY <1>2, <1>3, Beginning
<1>5. flushErrors' \in Nat /\ (flushErrors' = 0 => flushErrors = 0 /\ n = Len(batch))
  BY <1>2, <1>3
<1>6. TypeInv'
  <2>1. batch' \in Seq(Log)
    BY <1>2
  <2> QED
    BY <1>0, <1>1, <1>2, <1>4, <1>5, <2>1 DEF TypeInv
<1>7. /\ ReportedProcessed' = ReportedProcessed /\ ReportedAudited' = ReportedAudited
      /\ ReportedResponses' = ReportedResponses
      /\ \A c : /\ ReportedEvents(c)' = ReportedEvents(c)
                /\ ReportedResponseEvents(c)' = ReportedResponseEvents(c)
  BY <1>1 DEF ReportedProcessed, ReportedAudited, ReportedResponses, ReportedEvents,
              ReportedResponseEvents
<1>8. /\ \A d : Delivered(d)' = Delivered(d)
      /\ \A d, c : DeliveredWith(d, c)' = DeliveredWith(d, c)
  BY <1>1 DEF Delivered, DeliveredWith
<1>9. MetricsInv'
  BY <1>0, <1>1, <1>2, <1>7 DEF MetricsInv
<1>10. TotalsInv' /\ LatencyInv'
  BY <1>0, <1>1 DEF TotalsInv, LatencyInv
<1>12. /\ \A c \in Categories : /\ Requests(persisted', c) \in Nat
                                /\ Answers(persisted', c) \in Nat
       /\ Answered(persisted') \in Nat /\ Len(persisted') \in Nat
  BY <1>4, LogCounts
<1>13. /\ Len(batch') = 0 /\ Answered(batch') = 0
       /\ \A c \in Categories : Requests(batch', c) = 0 /\ Answers(batch', c) = 0
  BY <1>2, NoLogs
<1>14. ASSUME NEW c \in Categories
       PROVE  /\ Once(ReportedEvents(c), Underway(Requests(persisted, c)),
                      Requests(batch, c), Cardinality(DeliveredWith("request", c)),
                      flushErrors = 0)'
              /\ Once(ReportedResponseEvents(c), Underway(Answers(persisted, c)),
                      Answers(batch, c), Cardinality(DeliveredWith("response", c)),
                      flushErrors = 0)'
  <2>1. /\ Once(ReportedEvents(c), 0, Requests(batch, c),
                Cardinality(DeliveredWith("request", c)), flushErrors = 0)
        /\ Once(ReportedResponseEvents(c), 0, Answers(batch, c),
                Cardinality(DeliveredWith("response", c)), flushErrors = 0)
    BY <1>0, <1>2 DEF OnceInv, Underway
  <2>2. /\ flushErrors' = 0 => flushErrors = 0 /\ Requests(persisted', c) = Requests(batch, c)
        /\ flushErrors' = 0 => flushErrors = 0 /\ Answers(persisted', c) = Answers(batch, c)
    BY <1>4, <1>5
  <2>3. Once(ReportedEvents(c), Requests(persisted', c), 0,
             Cardinality(DeliveredWith("request", c)), flushErrors' = 0)
    BY <1>0, <1>4, <1>12, <2>1, <2>2, Numbers, DeliveredFinite, OnceWritten
  <2>4. Once(ReportedResponseEvents(c), Answers(persisted', c), 0,
             Cardinality(DeliveredWith("response", c)), flushErrors' = 0)
    BY <1>0, <1>4, <1>12, <2>1, <2>2, Numbers, DeliveredFinite, OnceWritten
  <2> QED
    BY <1>2, <1>7, <1>8, <1>13, <2>3, <2>4 DEF Underway
<1>15. Once(ReportedResponses, Underway(Answered(persisted)), Answered(batch),
            Cardinality(Delivered("response")), flushErrors = 0)'
  <2>1. Once(ReportedResponses, 0, Answered(batch), Cardinality(Delivered("response")),
             flushErrors = 0)
    BY <1>0, <1>2 DEF OnceInv, Underway
  <2>2. flushErrors' = 0 => flushErrors = 0 /\ Answered(persisted') = Answered(batch)
    BY <1>4, <1>5
  <2>3. Once(ReportedResponses, Answered(persisted'), 0,
             Cardinality(Delivered("response")), flushErrors' = 0)
    BY <1>0, <1>4, <1>12, <2>1, <2>2, Numbers, DeliveredFinite, OnceWritten
  <2> QED
    BY <1>2, <1>7, <1>8, <1>13, <2>3 DEF Underway
<1>16. Once(ReportedAudited, Underway(Len(persisted)), Len(batch), Logs, flushErrors = 0)'
  <2>1. Once(ReportedAudited, 0, Len(batch), Logs, flushErrors = 0)
    BY <1>0, <1>2 DEF OnceInv, Underway
  <2>2. /\ Len(persisted') \in Nat /\ Len(persisted') <= Len(batch) /\ Len(batch) \in Nat
        /\ flushErrors' = 0 => flushErrors = 0 /\ Len(persisted') = Len(batch)
    BY <1>3, <1>4, <1>5
  <2>3. Logs' = Logs
    BY <1>1, <1>8 DEF Logs
  <2>4. Once(ReportedAudited, Len(persisted'), 0, Logs, flushErrors' = 0)
    BY <1>0, <2>1, <2>2, Numbers, LogsCounted, OnceWritten
  <2> QED
    BY <1>2, <1>7, <1>13, <2>3, <2>4 DEF Underway
<1>17. OnceInv'
  BY <1>14, <1>15, <1>16 DEF OnceInv
<1> QED
  BY <1>6, <1>9, <1>10, <1>17 DEF IInv

\* What was written is counted in the current window; Prometheus is to follow.
LEMMA FlushStepIngests ==
    ASSUME IInv, FlushIngest
    PROVE  IInv'
<1>0. TypeInv /\ MetricsInv /\ OnceInv /\ TotalsInv /\ LatencyInv
  BY DEF IInv
<1>1. /\ UNCHANGED <<requestsAuditedTotal, piiDetectedTotal, requestsTotal, recording>>
      /\ UNCHANGED <<ticker, windows, evidenceReports, delivered, merged>>
      /\ UNCHANGED <<batch, persisted, flushErrors>>
      /\ UNCHANGED <<latencySamples, latencyBuckets, latencyOverflow>>
      /\ flush = "ingest" /\ flush' = "audited"
  BY DEF FlushIngest, FlushStep, countVars, handlerVars, tickerVars, latencyVars
<1>2. /\ requestsAudited' = requestsAudited + Len(persisted)
      /\ piiDetected' = piiDetected + FoundIn(RequestCats(persisted))
      /\ eventsByCategory' = [c \in Categories |->
             eventsByCategory[c] + Requests(persisted, c)]
      /\ responsesAudited' = responsesAudited + Answered(persisted)
      /\ responsePIIDetected' = responsePIIDetected + FoundIn(ResponseCats(persisted))
      /\ responseEventsByCategory' = [c \in Categories |->
             responseEventsByCategory[c] + Answers(persisted, c)]
  BY DEF FlushIngest, Ingest, Requests, Answers, Answered
<1>3. /\ persisted \in Seq(Log) /\ windows \in Seq(Window)
      /\ requestsAudited \in Nat /\ piiDetected \in Nat
      /\ responsesAudited \in Nat /\ responsePIIDetected \in Nat
      /\ \A c \in Categories : /\ eventsByCategory[c] \in Nat
                               /\ responseEventsByCategory[c] \in Nat
      /\ DOMAIN eventsByCategory = Categories
      /\ DOMAIN responseEventsByCategory = Categories
  BY <1>0 DEF TypeInv, ByCategory
<1>4. /\ Answered(persisted) \in Nat /\ Len(persisted) \in Nat
      /\ \A c \in Categories : /\ Requests(persisted, c) \in Nat
                               /\ Answers(persisted, c) \in Nat
  BY <1>3, LogCounts
<1>5. /\ FoundIn(RequestCats(persisted))
           = SumFunction([c \in Categories |-> Requests(persisted, c)])
      /\ FoundIn(ResponseCats(persisted))
           = SumFunction([c \in Categories |-> Answers(persisted, c)])
      /\ FoundIn(RequestCats(persisted)) \in Nat
      /\ FoundIn(ResponseCats(persisted)) \in Nat
  BY <1>3, FoundByCategory
<1>a. ASSUME NEW c \in Categories
      PROVE  /\ eventsByCategory'[c] = eventsByCategory[c] + Requests(persisted, c)
             /\ eventsByCategory'[c] \in Nat
             /\ responseEventsByCategory'[c]
                  = responseEventsByCategory[c] + Answers(persisted, c)
             /\ responseEventsByCategory'[c] \in Nat
  <2>1. /\ eventsByCategory'[c] = eventsByCategory[c] + Requests(persisted, c)
        /\ responseEventsByCategory'[c]
             = responseEventsByCategory[c] + Answers(persisted, c)
    BY <1>2
  <2>2. /\ eventsByCategory[c] \in Nat /\ Requests(persisted, c) \in Nat
        /\ responseEventsByCategory[c] \in Nat /\ Answers(persisted, c) \in Nat
    BY <1>3, <1>4
  <2> QED
    BY ONLY <2>1, <2>2
<1>6. TypeInv'
  <2>1. eventsByCategory' \in ByCategory /\ responseEventsByCategory' \in ByCategory
    <3>1. /\ eventsByCategory' = [c \in Categories |-> eventsByCategory'[c]]
          /\ responseEventsByCategory' = [c \in Categories |-> responseEventsByCategory'[c]]
      BY <1>2
    <3> QED
      BY <1>a, <3>1 DEF ByCategory
  <2>2. /\ requestsAudited' \in Nat /\ piiDetected' \in Nat
        /\ responsesAudited' \in Nat /\ responsePIIDetected' \in Nat
    BY <1>2, <1>3, <1>4, <1>5, SMTT(30)
  <2> QED
    BY <1>0, <1>1, <2>1, <2>2 DEF TypeInv
<1>7. /\ ReportedProcessed' = ReportedProcessed
      /\ ReportedAudited' = ReportedAudited + Len(persisted)
      /\ ReportedResponses' = ReportedResponses + Answered(persisted)
  <2>1. AuditedIn(windows) \in Nat /\ ResponsesIn(windows) \in Nat
    BY <1>3, SumsAreNumbers
  <2>2. /\ ProcessedIn(windows)' = ProcessedIn(windows)
        /\ AuditedIn(windows)' = AuditedIn(windows)
        /\ ResponsesIn(windows)' = ResponsesIn(windows)
    BY <1>1
  <2> QED
    BY <1>1, <1>2, <1>3, <1>4, <2>1, <2>2
       DEF ReportedProcessed, ReportedAudited, ReportedResponses
<1>8. ASSUME NEW c \in Categories
      PROVE  /\ ReportedEvents(c)' = ReportedEvents(c) + Requests(persisted, c)
             /\ ReportedResponseEvents(c)'
                  = ReportedResponseEvents(c) + Answers(persisted, c)
  <2>1. EventsIn(windows, c) \in Nat /\ ResponseEventsIn(windows, c) \in Nat
    BY <1>3, SumsAreNumbers
  <2>2. /\ EventsIn(windows, c)' = EventsIn(windows, c)
        /\ ResponseEventsIn(windows, c)' = ResponseEventsIn(windows, c)
    BY <1>1
  <2>3. /\ ReportedEvents(c) = EventsIn(windows, c) + eventsByCategory[c]
        /\ ReportedEvents(c)' = EventsIn(windows, c) + eventsByCategory'[c]
        /\ ReportedResponseEvents(c)
             = ResponseEventsIn(windows, c) + responseEventsByCategory[c]
        /\ ReportedResponseEvents(c)'
             = ResponseEventsIn(windows, c) + responseEventsByCategory'[c]
    BY <2>2 DEF ReportedEvents, ReportedResponseEvents
  <2>4. /\ eventsByCategory[c] \in Nat /\ Requests(persisted, c) \in Nat
        /\ responseEventsByCategory[c] \in Nat /\ Answers(persisted, c) \in Nat
    BY <1>3, <1>4
  <2> QED
    BY ONLY <1>a, <2>1, <2>3, <2>4
<1>9. MetricsInv'
  <2>1. ReportedAudited' = requestsAuditedTotal' + Len(persisted')
    BY <1>0, <1>1, <1>4, <1>7 DEF MetricsInv, TypeInv
  <2>2. ASSUME NEW c \in Categories
        PROVE  ReportedEvents(c)' = piiDetectedTotal'[c] + Requests(persisted', c)
    BY <1>0, <1>1, <1>4, <1>8 DEF MetricsInv, TypeInv, ByCategory
  <2> QED
    BY <1>0, <1>1, <1>7, <2>1, <2>2 DEF MetricsInv
<1>10. TotalsInv'
  <2>1. piiDetected' = SumFunction(eventsByCategory')
    <3> DEFINE f == eventsByCategory
               g == [c \in Categories |-> Requests(persisted, c)]
               h == eventsByCategory'
    <3>1. /\ \A c \in Categories : f[c] \in Int /\ g[c] \in Int /\ h[c] = f[c] + g[c]
          /\ DOMAIN f = Categories /\ DOMAIN g = Categories /\ DOMAIN h = Categories
      BY <1>2, <1>3, <1>4
    <3>2. piiDetected' = SumFunction(f) + SumFunction(g)
      BY <1>0, <1>2, <1>5 DEF TotalsInv
    <3> HIDE DEF f, g, h
    <3>3. SumFunctionOnSet(h, Categories)
            = SumFunctionOnSet(f, Categories) + SumFunctionOnSet(g, Categories)
      BY <3>1, CategoriesFinite, SumPlus
    <3>4. piiDetected' = SumFunction(h)
      BY <3>1, <3>2, <3>3 DEF SumFunction
    <3> QED
      BY <3>4 DEF h
  <2>2. responsePIIDetected' = SumFunction(responseEventsByCategory')
    <3> DEFINE f == responseEventsByCategory
               g == [c \in Categories |-> Answers(persisted, c)]
               h == responseEventsByCategory'
    <3>1. /\ \A c \in Categories : f[c] \in Int /\ g[c] \in Int /\ h[c] = f[c] + g[c]
          /\ DOMAIN f = Categories /\ DOMAIN g = Categories /\ DOMAIN h = Categories
      BY <1>2, <1>3, <1>4
    <3>2. responsePIIDetected' = SumFunction(f) + SumFunction(g)
      BY <1>0, <1>2, <1>5 DEF TotalsInv
    <3> HIDE DEF f, g, h
    <3>3. SumFunctionOnSet(h, Categories)
            = SumFunctionOnSet(f, Categories) + SumFunctionOnSet(g, Categories)
      BY <3>1, CategoriesFinite, SumPlus
    <3>4. responsePIIDetected' = SumFunction(h)
      BY <3>1, <3>2, <3>3 DEF SumFunction
    <3> QED
      BY <3>4 DEF h
  <2> QED
    BY <1>0, <1>1, <2>1, <2>2 DEF TotalsInv
<1>11. LatencyInv'
  BY <1>0, <1>1 DEF LatencyInv
<1>12. /\ \A d : Delivered(d)' = Delivered(d)
       /\ \A d, c : DeliveredWith(d, c)' = DeliveredWith(d, c)
  BY <1>1 DEF Delivered, DeliveredWith
<1>13. ASSUME NEW c \in Categories
       PROVE  /\ Once(ReportedEvents(c), Underway(Requests(persisted, c)),
                      Requests(batch, c), Cardinality(DeliveredWith("request", c)),
                      flushErrors = 0)'
              /\ Once(ReportedResponseEvents(c), Underway(Answers(persisted, c)),
                      Answers(batch, c), Cardinality(DeliveredWith("response", c)),
                      flushErrors = 0)'
  <2>1. /\ Once(ReportedEvents(c), Requests(persisted, c), Requests(batch, c),
                Cardinality(DeliveredWith("request", c)), flushErrors = 0)
        /\ Once(ReportedResponseEvents(c), Answers(persisted, c), Answers(batch, c),
                Cardinality(DeliveredWith("response", c)), flushErrors = 0)
    BY <1>0, <1>1 DEF OnceInv, Underway
  <2>2. Once(ReportedEvents(c) + Requests(persisted, c), 0, Requests(batch, c),
             Cardinality(DeliveredWith("request", c)), flushErrors = 0)
    BY <1>0, <2>1, Numbers, OnceIngested
  <2>3. Once(ReportedResponseEvents(c) + Answers(persisted, c), 0, Answers(batch, c),
             Cardinality(DeliveredWith("response", c)), flushErrors = 0)
    BY <1>0, <2>1, Numbers, OnceIngested
  <2> QED
    BY <1>1, <1>8, <1>12, <2>2, <2>3 DEF Underway
<1>14. Once(ReportedResponses, Underway(Answered(persisted)), Answered(batch),
            Cardinality(Delivered("response")), flushErrors = 0)'
  <2>1. Once(ReportedResponses, Answered(persisted), Answered(batch),
             Cardinality(Delivered("response")), flushErrors = 0)
    BY <1>0, <1>1 DEF OnceInv, Underway
  <2>2. Once(ReportedResponses + Answered(persisted), 0, Answered(batch),
             Cardinality(Delivered("response")), flushErrors = 0)
    BY <1>0, <2>1, Numbers, OnceIngested
  <2> QED
    BY <1>1, <1>7, <1>12, <2>2 DEF Underway
<1>15. Once(ReportedAudited, Underway(Len(persisted)), Len(batch), Logs, flushErrors = 0)'
  <2>1. Once(ReportedAudited, Len(persisted), Len(batch), Logs, flushErrors = 0)
    BY <1>0, <1>1 DEF OnceInv, Underway
  <2>2. Logs' = Logs
    BY <1>1, <1>12 DEF Logs
  <2>3. Once(ReportedAudited + Len(persisted), 0, Len(batch), Logs, flushErrors = 0)
    BY <1>0, <2>1, Numbers, OnceIngested
  <2> QED
    BY <1>1, <1>7, <2>2, <2>3 DEF Underway
<1>16. OnceInv'
  BY <1>13, <1>14, <1>15 DEF OnceInv
<1> QED
  BY <1>6, <1>9, <1>10, <1>11, <1>16 DEF IInv

\* What was delivered, flushed and reported stays, and nothing is or gets under
\* way: each finding is still counted once.
LEMMA OnceKept ==
    ASSUME OnceInv, UNCHANGED <<delivered, merged, batch, flushErrors, windows, auditVars>>,
           \/ flush # "ingest" /\ flush' # "ingest"
           \/ UNCHANGED <<flush, persisted>>
    PROVE  OnceInv'
<1>1. /\ UNCHANGED <<delivered, merged, batch, flushErrors, windows>>
      /\ UNCHANGED <<requestsAudited, piiDetected, eventsByCategory, responsesAudited,
                     responsePIIDetected, responseEventsByCategory>>
  BY DEF auditVars
<1>2. /\ ReportedAudited' = ReportedAudited /\ ReportedResponses' = ReportedResponses
      /\ \A c : /\ ReportedEvents(c)' = ReportedEvents(c)
                /\ ReportedResponseEvents(c)' = ReportedResponseEvents(c)
  BY <1>1 DEF ReportedAudited, ReportedResponses, ReportedEvents, ReportedResponseEvents
<1>3. /\ \A d : Delivered(d)' = Delivered(d)
      /\ \A d, c : DeliveredWith(d, c)' = DeliveredWith(d, c)
  BY <1>1 DEF Delivered, DeliveredWith
<1>4. Logs' = Logs
  BY <1>1, <1>3 DEF Logs
<1>5. /\ \A c : /\ Underway(Requests(persisted, c))' = Underway(Requests(persisted, c))
                /\ Underway(Answers(persisted, c))' = Underway(Answers(persisted, c))
      /\ Underway(Answered(persisted))' = Underway(Answered(persisted))
      /\ Underway(Len(persisted))' = Underway(Len(persisted))
  BY DEF Underway
<1> QED
  BY <1>1, <1>2, <1>3, <1>4, <1>5 DEF OnceInv

\* What is reported stays.
LEMMA ReportedKept ==
    ASSUME UNCHANGED <<windows, auditVars>>
    PROVE  /\ ReportedAudited' = ReportedAudited
           /\ \A c : ReportedEvents(c)' = ReportedEvents(c)
           /\ UNCHANGED latencySamples => ReportedProcessed' = ReportedProcessed
           /\ TotalsInv => TotalsInv'
<1>1. UNCHANGED <<windows, requestsAudited, piiDetected, eventsByCategory,
                  responsesAudited, responsePIIDetected, responseEventsByCategory>>
  BY DEF auditVars
<1>2. /\ ReportedAudited' = ReportedAudited
      /\ \A c : ReportedEvents(c)' = ReportedEvents(c)
      /\ UNCHANGED latencySamples => ReportedProcessed' = ReportedProcessed
  BY <1>1 DEF ReportedAudited, ReportedEvents, ReportedProcessed
<1>3. TotalsInv => TotalsInv'
  BY <1>1 DEF TotalsInv
<1> QED
  BY <1>2, <1>3

\* Prometheus follows with the audited requests.
LEMMA FlushStepCountsAudited ==
    ASSUME IInv, FlushAudited
    PROVE  IInv'
<1>0. TypeInv /\ MetricsInv /\ OnceInv /\ TotalsInv /\ LatencyInv
  BY DEF IInv
<1>1. /\ UNCHANGED <<delivered, merged, batch, persisted, flushErrors, piiDetectedTotal>>
      /\ UNCHANGED <<requestsTotal, recording, ticker, windows, evidenceReports>>
      /\ UNCHANGED auditVars
      /\ UNCHANGED <<latencySamples, latencyBuckets, latencyOverflow>>
      /\ flush = "audited" /\ flush' = "pii"
      /\ requestsAuditedTotal' = requestsAuditedTotal + Len(persisted)
  BY DEF FlushAudited, FlushStep, handlerVars, tickerVars, latencyVars
<1>2. Len(persisted) \in Nat /\ requestsAuditedTotal \in Nat
  BY <1>0 DEF TypeInv
<1>3. TypeInv'
  <2>1. UNCHANGED <<requestsAudited, piiDetected, eventsByCategory, responsesAudited,
                    responsePIIDetected, responseEventsByCategory>>
    BY <1>1 DEF auditVars
  <2> QED
    BY <1>0, <1>1, <1>2, <2>1 DEF TypeInv
<1>4. OnceInv'
  BY <1>0, <1>1, OnceKept
<1>5. /\ ReportedAudited' = ReportedAudited /\ ReportedProcessed' = ReportedProcessed
      /\ \A c : ReportedEvents(c)' = ReportedEvents(c)
      /\ TotalsInv'
  BY <1>0, <1>1, ReportedKept
<1>6. MetricsInv'
  <2>1. ReportedAudited' = requestsAuditedTotal' + 0
    BY <1>0, <1>1, <1>2, <1>5 DEF MetricsInv
  <2> QED
    BY <1>0, <1>1, <1>5, <2>1 DEF MetricsInv
<1>7. LatencyInv'
  BY <1>0, <1>1 DEF LatencyInv
<1> QED
  BY <1>3, <1>4, <1>5, <1>6, <1>7 DEF IInv

\* And with the categories.
LEMMA FlushStepCountsPII ==
    ASSUME IInv, FlushPII
    PROVE  IInv'
<1>0. TypeInv /\ MetricsInv /\ OnceInv /\ TotalsInv /\ LatencyInv
  BY DEF IInv
<1>1. /\ UNCHANGED <<delivered, merged, batch, flushErrors, requestsAuditedTotal>>
      /\ UNCHANGED <<requestsTotal, recording, ticker, windows, evidenceReports>>
      /\ UNCHANGED auditVars
      /\ UNCHANGED <<latencySamples, latencyBuckets, latencyOverflow>>
      /\ flush = "pii" /\ flush' = "idle" /\ persisted' = <<>>
      /\ piiDetectedTotal' = [c \in Categories |->
             piiDetectedTotal[c] + Requests(persisted, c)]
  BY DEF FlushPII, FlushStep, handlerVars, tickerVars, latencyVars, Requests
<1>2. \A c \in Categories : /\ Requests(persisted, c) \in Nat
                            /\ piiDetectedTotal[c] \in Nat
                            /\ piiDetectedTotal'[c]
                                 = piiDetectedTotal[c] + Requests(persisted, c)
  <2>1. persisted \in Seq(Log) /\ piiDetectedTotal \in [Categories -> Nat]
    BY <1>0 DEF TypeInv, ByCategory
  <2> QED
    BY <1>1, <2>1, LogCounts
<1>3. TypeInv'
  <2>1. UNCHANGED <<requestsAudited, piiDetected, eventsByCategory, responsesAudited,
                    responsePIIDetected, responseEventsByCategory>>
    BY <1>1 DEF auditVars
  <2>2. piiDetectedTotal' \in ByCategory
    <3>1. \A c \in Categories : piiDetectedTotal[c] + Requests(persisted, c) \in Nat
      BY ONLY <1>2
    <3> QED
      BY <1>1, <3>1 DEF ByCategory
  <2>3. persisted' \in Seq(Log)
    BY <1>1
  <2> QED
    BY <1>0, <1>1, <2>1, <2>2, <2>3 DEF TypeInv
<1>4. OnceInv'
  BY <1>0, <1>1, OnceKept
<1>5. /\ ReportedAudited' = ReportedAudited /\ ReportedProcessed' = ReportedProcessed
      /\ \A c : ReportedEvents(c)' = ReportedEvents(c)
      /\ TotalsInv'
  BY <1>0, <1>1, ReportedKept
<1>6. MetricsInv'
  <2>1. ASSUME NEW c \in Categories
        PROVE  ReportedEvents(c)' = piiDetectedTotal'[c] + 0
    <3>1. ReportedEvents(c) = piiDetectedTotal[c] + Requests(persisted, c)
      BY <1>0, <1>1 DEF MetricsInv
    <3> QED
      BY <1>2, <1>5, <3>1
  <2> QED
    BY <1>0, <1>1, <1>5, <2>1 DEF MetricsInv
<1>7. LatencyInv'
  BY <1>0, <1>1 DEF LatencyInv
<1> QED
  BY <1>3, <1>4, <1>5, <1>6, <1>7 DEF IInv

-----------------------------------------------------------------------------
(* The proxy's handlers *)

\* A sample more in one bucket.
LEMMA OneSample ==
    ASSUME NEW b \in Buckets, NEW f \in [Buckets -> Nat]
    PROVE  SumFunction([f EXCEPT ![b] = @ + 1]) = SumFunction(f) + 1
<1> DEFINE g == [f EXCEPT ![b] = @ + 1]
<1>1. IsFiniteSet(Buckets)
  BY AggregatorAssumption, FS_Interval DEF Buckets
<1>2. /\ DOMAIN f = Buckets /\ DOMAIN g = Buckets
      /\ \A z \in Buckets : f[z] \in Int
      /\ f[b] \in Nat /\ g[b] = f[b] + 1 /\ g[b] \in Int
      /\ \A z \in Buckets \ {b} : g[z] = f[z]
  OBVIOUS
<1> HIDE DEF g
<1>3. SumFunctionOnSet(g, Buckets) = SumFunctionOnSet(f, Buckets) + g[b] - f[b]
  BY <1>1, <1>2, SumUpdate
<1>4. SumFunctionOnSet(f, Buckets) \in Int
  BY <1>1, <1>2, SumType
<1>5. SumFunctionOnSet(g, Buckets) = SumFunctionOnSet(f, Buckets) + 1
  BY ONLY <1>2, <1>3, <1>4
<1> QED
  BY <1>2, <1>5 DEF SumFunction, g

\* A latency more: one sample, in its bucket or beyond the last one.
LEMMA OverheadStep ==
    ASSUME IInv, NEW ms \in 0..maxLatencyBucketMS, RecordOverhead(ms)
    PROVE  IInv'
<1>0. TypeInv /\ MetricsInv /\ OnceInv /\ TotalsInv /\ LatencyInv
  BY DEF IInv
<1>1. /\ UNCHANGED <<delivered, merged, batch, flush, persisted, flushErrors>>
      /\ UNCHANGED <<requestsAuditedTotal, piiDetectedTotal, requestsTotal>>
      /\ UNCHANGED <<ticker, windows, evidenceReports>> /\ UNCHANGED auditVars
      /\ recording' = recording + 1 /\ latencySamples' = latencySamples + 1
      /\ \/ /\ ms \in Buckets /\ UNCHANGED latencyOverflow
            /\ latencyBuckets' = [latencyBuckets EXCEPT ![ms] = @ + 1]
         \/ latencyOverflow' = latencyOverflow + 1 /\ UNCHANGED latencyBuckets
  BY DEF RecordOverhead, RecordLatency, flushVars, countVars, tickerVars
<1>2. /\ recording \in Nat /\ requestsTotal \in Nat
      /\ latencySamples \in Nat /\ latencyOverflow \in Nat
      /\ latencyBuckets \in [Buckets -> Nat]
  BY <1>0 DEF TypeInv
<1>3. TypeInv'
  <2>1. UNCHANGED <<requestsAudited, piiDetected, eventsByCategory, responsesAudited,
                    responsePIIDetected, responseEventsByCategory>>
    BY <1>1 DEF auditVars
  <2>2. latencyBuckets' \in [Buckets -> Nat] /\ latencyOverflow' \in Nat
    BY <1>1, <1>2
  <2> QED
    BY <1>0, <1>1, <1>2, <2>1, <2>2 DEF TypeInv
<1>4. OnceInv'
  BY <1>0, <1>1, OnceKept
<1>5. /\ ReportedAudited' = ReportedAudited
      /\ \A c : ReportedEvents(c)' = ReportedEvents(c)
      /\ TotalsInv'
  BY <1>0, <1>1, ReportedKept
<1>6. MetricsInv'
  <2>1. ReportedProcessed' = requestsTotal' + recording'
    <3>1. ProcessedIn(windows) \in Nat /\ ProcessedIn(windows)' = ProcessedIn(windows)
      BY <1>0, <1>1, SumsAreNumbers DEF TypeInv
    <3>2. ProcessedIn(windows) + latencySamples = requestsTotal + recording
      BY <1>0 DEF MetricsInv, ReportedProcessed
    <3>3. ReportedProcessed' = ProcessedIn(windows) + latencySamples'
      BY <3>1 DEF ReportedProcessed
    <3> QED
      BY ONLY <1>1, <1>2, <3>1, <3>2, <3>3
  <2> QED
    BY <1>0, <1>1, <1>5, <2>1 DEF MetricsInv
<1>7. LatencyInv'
  <2> DEFINE f == latencyBuckets
             g == latencyBuckets'
  <2>1. IsFiniteSet(Buckets)
    BY AggregatorAssumption, FS_Interval DEF Buckets
  <2>2. SumFunction(f) \in Nat /\ SumFunction(f) = SumFunctionOnSet(f, Buckets)
    BY <1>2, <2>1, SumType DEF SumFunction
  <2>3. DOMAIN g = Buckets
    BY <1>1, <1>2
  <2>4. latencySamples = latencyOverflow + SumFunction(f)
    BY <1>0 DEF LatencyInv
  <2>5. CASE ms \in Buckets /\ UNCHANGED latencyOverflow
             /\ latencyBuckets' = [latencyBuckets EXCEPT ![ms] = @ + 1]
    <3>3. SumFunction(g) = SumFunction(f) + 1
      BY <1>2, <2>5, OneSample
    <3> HIDE DEF f, g
    <3>4. latencySamples' = latencyOverflow' + SumFunction(g)
      BY ONLY <1>1, <1>2, <2>2, <2>4, <2>5, <3>3
    <3> QED
      BY <3>4 DEF LatencyInv, g
  <2>6. CASE latencyOverflow' = latencyOverflow + 1 /\ UNCHANGED latencyBuckets
    <3>1. SumFunction(g) = SumFunction(f)
      BY <2>6
    <3> HIDE DEF f, g
    <3>2. latencySamples' = latencyOverflow' + SumFunction(g)
      BY ONLY <1>1, <1>2, <2>2, <2>4, <2>6, <3>1
    <3> QED
      BY <3>2 DEF LatencyInv, g
  <2> QED
    BY <1>1, <2>5, <2>6
<1> QED
  BY <1>3, <1>4, <1>5, <1>6, <1>7 DEF IInv

\* The handler's request is counted in Prometheus too.
LEMMA RequestStep ==
    ASSUME IInv, CountRequest
    PROVE  IInv'
<1>0. TypeInv /\ MetricsInv /\ OnceInv /\ TotalsInv /\ LatencyInv
  BY DEF IInv
<1>1. /\ UNCHANGED <<delivered, merged, batch, flush, persisted, flushErrors>>
      /\ UNCHANGED <<requestsAuditedTotal, piiDetectedTotal>>
      /\ UNCHANGED <<ticker, windows, evidenceReports>> /\ UNCHANGED auditVars
      /\ UNCHANGED <<latencySamples, latencyBuckets, latencyOverflow>>
      /\ recording > 0 /\ recording' = recording - 1 /\ requestsTotal' = requestsTotal + 1
  BY DEF CountRequest, flushVars, countVars, tickerVars, aggregatorVars, latencyVars
<1>2. recording \in Nat /\ requestsTotal \in Nat
  BY <1>0 DEF TypeInv
<1>3. TypeInv'
  <2>1. UNCHANGED <<requestsAudited, piiDetected, eventsByCategory, responsesAudited,
                    responsePIIDetected, responseEventsByCategory>>
    BY <1>1 DEF auditVars
  <2> QED
    BY <1>0, <1>1, <1>2, <2>1 DEF TypeInv
<1>4. OnceInv'
  BY <1>0, <1>1, OnceKept
<1>5. /\ ReportedAudited' = ReportedAudited /\ ReportedProcessed' = ReportedProcessed
      /\ \A c : ReportedEvents(c)' = ReportedEvents(c)
      /\ TotalsInv'
  BY <1>0, <1>1, ReportedKept
<1>6. MetricsInv'
  <2>1. ReportedProcessed' = requestsTotal' + recording'
    BY <1>0, <1>1, <1>2, <1>5 DEF MetricsInv
  <2> QED
    BY <1>0, <1>1, <1>5, <2>1 DEF MetricsInv
<1>7. LatencyInv'
  BY <1>0, <1>1 DEF LatencyInv
<1> QED
  BY <1>3, <1>4, <1>5, <1>6, <1>7 DEF IInv

-----------------------------------------------------------------------------
(* The ticker *)

\* The report is counted.
LEMMA ReportStep ==
    ASSUME IInv, CountReport
    PROVE  IInv'
<1>0. TypeInv /\ MetricsInv /\ OnceInv /\ TotalsInv /\ LatencyInv
  BY DEF IInv
<1>1. /\ UNCHANGED <<delivered, merged, batch, flush, persisted, flushErrors>>
      /\ UNCHANGED <<requestsAuditedTotal, piiDetectedTotal, recording, requestsTotal>>
      /\ UNCHANGED windows /\ UNCHANGED auditVars
      /\ UNCHANGED <<latencySamples, latencyBuckets, latencyOverflow>>
      /\ ticker = "reports" /\ ticker' = "select"
      /\ evidenceReports' = evidenceReports + 1
  BY DEF CountReport, flushVars, countVars, handlerVars, aggregatorVars, latencyVars
<1>2. evidenceReports \in Nat
  BY <1>0 DEF TypeInv
<1>3. TypeInv'
  <2>1. UNCHANGED <<requestsAudited, piiDetected, eventsByCategory, responsesAudited,
                    responsePIIDetected, responseEventsByCategory>>
    BY <1>1 DEF auditVars
  <2> QED
    BY <1>0, <1>1, <1>2, <2>1 DEF TypeInv
<1>4. OnceInv'
  BY <1>0, <1>1, OnceKept
<1>5. /\ ReportedAudited' = ReportedAudited /\ ReportedProcessed' = ReportedProcessed
      /\ \A c : ReportedEvents(c)' = ReportedEvents(c)
      /\ TotalsInv'
  BY <1>0, <1>1, ReportedKept
<1>6. MetricsInv'
  <2>1. Len(windows') = evidenceReports' + 0
    BY <1>0, <1>1, <1>2 DEF MetricsInv
  <2> QED
    BY <1>0, <1>1, <1>5, <2>1 DEF MetricsInv
<1>7. LatencyInv'
  BY <1>0, <1>1 DEF LatencyInv
<1> QED
  BY <1>3, <1>4, <1>5, <1>6, <1>7 DEF IInv

\* A nonempty set of naturals up to a bound has a least element.
LEMMA LeastElement ==
    ASSUME NEW n \in Nat, NEW R, R \subseteq 0..n, R # {}
    PROVE  Min(R) \in R /\ \A y \in R : Min(R) <= y
BY Least DEF Min

\* The rank: as many samples are counted as p percent of them take, or more, just
\* when they are as many as the rank.
LEMMA Rank ==
    ASSUME NEW N \in Nat, NEW p \in Nat, NEW k \in Nat
    PROVE  k >= targetCount(N, p) <=> 100 * k >= p * N
<1> DEFINE m == N * p
           t == (m + 99) \div 100
<1>1. m \in Nat /\ p * N = m
  OBVIOUS
<1> HIDE DEF m
<1>2. t \in Int /\ 100 * t <= m + 99 /\ m + 99 < 100 * t + 100
  BY <1>1
<1> HIDE DEF t
<1>3. k >= t <=> 100 * k >= m
  BY ONLY <1>1, <1>2, k \in Nat
<1>4. targetCount(N, p) = t
  BY DEF targetCount, t, m
<1> QED
  BY <1>1, <1>3, <1>4

\* computePercentile finds the nearest rank, whatever the samples.
THEOREM PercentileIs ==
    ASSUME NEW h \in [0..maxLatencyBucketMS -> Nat], NEW p \in Percentiles, NEW N,
           N = SumFunction(h), NEW v,
           v = computePercentile(N, [b \in Buckets |-> h[b]], p)
    PROVE  IF N = 0 THEN v = 0
           ELSE /\ 100 * SumFunctionOnSet(h, 0..v) >= p * N
                /\ 100 * SumFunctionOnSet(h, 0..(v - 1)) < p * N
<1> DEFINE max == maxLatencyBucketMS
           buckets == [b \in Buckets |-> h[b]]
           sum(i) == SumFunctionOnSet(h, 0..i)
           reached == {i \in Buckets : SumFunctionOnSet(buckets, 0..i) >= targetCount(N, p)}
<1>1. max \in Nat /\ max >= 1 /\ p \in 1..100 /\ Buckets = 0..(max - 1)
  BY AggregatorAssumption DEF Buckets
<1>2. DOMAIN h = 0..max
  OBVIOUS
<1>3. \A i \in -1..max : IsFiniteSet(0..i) /\ 0..i \subseteq 0..max
  <2>1. \A i \in -1..max : IsFiniteSet(0..i)
    BY <1>1, FS_Interval
  <2> QED
    BY <1>1, <2>1
<1>4. \A i \in -1..max : sum(i) \in Nat
  <2> SUFFICES ASSUME NEW i \in -1..max PROVE sum(i) \in Nat
    OBVIOUS
  <2>1. IsFiniteSet(0..i) /\ \A x \in 0..i : h[x] \in Nat
    BY <1>3
  <2> QED
    BY <2>1, SumType
<1>5. N = sum(max) /\ N \in Nat
  <2>1. N = sum(max) /\ max \in -1..max
    BY <1>1, <1>2 DEF SumFunction
  <2> QED
    BY <1>4, <2>1
<1>6. sum(-1) = 0
  <2>1. 0..(-1) = {}
    OBVIOUS
  <2> QED
    BY <2>1, SumEmpty
<1>7. \A i \in Buckets : SumFunctionOnSet(buckets, 0..i) = sum(i)
  <2> SUFFICES ASSUME NEW i \in Buckets PROVE SumFunctionOnSet(buckets, 0..i) = sum(i)
    OBVIOUS
  <2>1. IsFiniteSet(0..i) /\ 0..i \subseteq Buckets
    BY <1>1, <1>3
  <2>2. \A x \in 0..i : buckets[x] = h[x]
    BY <2>1
  <2> HIDE DEF buckets
  <2> QED
    BY <2>1, <2>2, SumSame
<1>8. \A i \in Buckets : i \in reached <=> 100 * sum(i) >= p * N
  <2> SUFFICES ASSUME NEW i \in Buckets
               PROVE  i \in reached <=> 100 * sum(i) >= p * N
    OBVIOUS
  <2>1. sum(i) \in Nat /\ p \in Nat
    BY <1>1, <1>4
  <2>2. i \in reached <=> sum(i) >= targetCount(N, p)
    BY <1>7
  <2> HIDE DEF sum, reached
  <2> QED
    BY <1>5, <2>1, <2>2, Rank
<1>9. v = IF N = 0 THEN 0 ELSE IF reached = {} THEN max ELSE Min(reached)
  BY DEF computePercentile
<1>10. reached \subseteq Buckets
  OBVIOUS
<1> HIDE DEF max, buckets, sum, reached
<1>11. ASSUME N # 0
       PROVE  100 * sum(v) >= p * N /\ 100 * sum(v - 1) < p * N
  <2>1. 0 < p * N /\ p * N <= 100 * N /\ p * N \in Nat
    <3>1. p - 1 \in Nat /\ 100 - p \in Nat /\ N \in Nat /\ N > 0 /\ p \in Nat
      BY <1>1, <1>5, <1>11
    <3>2. (p - 1) * N \in Nat /\ (100 - p) * N \in Nat /\ p * N \in Nat
      BY <3>1
    <3>3. (p - 1) * N = p * N - N /\ (100 - p) * N = 100 * N - p * N
      BY <3>1
    <3> QED
      BY ONLY <3>1, <3>2, <3>3
  <2>2. CASE reached = {}
    <3>1. v = max /\ v - 1 \in Buckets
      BY <1>1, <1>9, <1>11, <2>2
    <3>2. ~(100 * sum(v - 1) >= p * N) /\ sum(v - 1) \in Nat
      BY <1>1, <1>4, <1>8, <2>2, <3>1
    <3>3. sum(v) = N
      BY <1>5, <3>1
    <3> QED
      BY ONLY <1>5, <2>1, <3>2, <3>3
  <2>3. CASE reached # {}
    <3>1. v = Min(reached)
      BY <1>9, <1>11, <2>3
    <3>2. max - 1 \in Nat /\ reached \subseteq 0..(max - 1)
      BY <1>1, <1>10
    <3>3. v \in reached /\ \A y \in reached : v <= y
      BY <2>3, <3>1, <3>2, LeastElement
    <3>4. 100 * sum(v) >= p * N /\ v \in 0..(max - 1)
      BY <1>1, <1>8, <1>10, <3>3
    <3>5. CASE v = 0
      <4>1. sum(v - 1) = 0
        BY <1>6, <3>5
      <4> QED
        BY <2>1, <3>4, <4>1
    <3>6. CASE v # 0
      <4>1. v - 1 \in Buckets /\ v - 1 \in -1..max /\ ~(v <= v - 1)
        BY <1>1, <3>4, <3>6
      <4>2. v - 1 \notin reached
        BY <3>3, <4>1
      <4>3. ~(100 * sum(v - 1) >= p * N) /\ sum(v - 1) \in Nat
        BY <1>4, <1>8, <4>1, <4>2
      <4> QED
        BY ONLY <2>1, <3>4, <4>3
    <3> QED
      BY <3>5, <3>6
  <2> QED
    BY <2>2, <2>3
<1> QED
  BY <1>9, <1>11 DEF sum

\* It is a number of milliseconds.
LEMMA PercentileType ==
    ASSUME NEW N, NEW buckets, NEW p
    PROVE  computePercentile(N, buckets, p) \in Nat
<1> DEFINE reached == {i \in Buckets :
                         SumFunctionOnSet(buckets, 0..i) >= targetCount(N, p)}
<1>1. /\ maxLatencyBucketMS \in Nat /\ maxLatencyBucketMS - 1 \in Nat
      /\ Buckets = 0..(maxLatencyBucketMS - 1)
  BY AggregatorAssumption DEF Buckets
<1>2. reached \subseteq 0..(maxLatencyBucketMS - 1)
  BY <1>1
<1>3. computePercentile(N, buckets, p)
        = IF N = 0 THEN 0 ELSE IF reached = {} THEN maxLatencyBucketMS ELSE Min(reached)
  BY DEF computePercentile
<1> HIDE DEF reached
<1>4. reached # {} => Min(reached) \in 0..(maxLatencyBucketMS - 1)
  BY <1>1, <1>2, LeastElement
<1> QED
  BY <1>1, <1>3, <1>4

\* A new window has counted nothing.
LEMMA ZeroSums ==
    /\ SumFunction([c \in Categories |-> 0]) = 0
    /\ SumFunction([b \in Buckets |-> 0]) = 0
<1>1. IsFiniteSet(Buckets)
  BY AggregatorAssumption, FS_Interval DEF Buckets
<1>2. /\ SumFunctionOnSet([c \in Categories |-> 0], Categories) = Cardinality({})
      /\ SumFunctionOnSet([b \in Buckets |-> 0], Buckets) = Cardinality({})
  BY <1>1, CategoriesFinite, SumOfOnes
<1> QED
  BY <1>2, FS_EmptySet DEF SumFunction

\* A window is closed: what it counted moves from the current one to the others.
LEMMA SnapshotStep ==
    ASSUME IInv, SnapshotAndReset
    PROVE  IInv'
<1>0. TypeInv /\ MetricsInv /\ OnceInv /\ TotalsInv /\ LatencyInv
  BY DEF IInv
<1>1. /\ UNCHANGED <<delivered, merged, batch, flush, persisted, flushErrors>>
      /\ UNCHANGED <<requestsAuditedTotal, piiDetectedTotal, recording, requestsTotal>>
      /\ UNCHANGED evidenceReports /\ ticker = "select" /\ ticker' = "reports"
      /\ windows' = Append(windows, Summary)
  BY DEF SnapshotAndReset, flushVars, countVars, handlerVars
<1>2. /\ requestsAudited' = 0 /\ piiDetected' = 0
      /\ eventsByCategory' = [c \in Categories |-> 0]
      /\ responsesAudited' = 0 /\ responsePIIDetected' = 0
      /\ responseEventsByCategory' = [c \in Categories |-> 0]
      /\ latencySamples' = 0 /\ latencyOverflow' = 0
      /\ latencyBuckets' = [b \in Buckets |-> 0]
  BY DEF SnapshotAndReset, Reset, ResetAudits
<1> DEFINE w == Summary
<1>3. /\ w.processed = latencySamples /\ w.audited = requestsAudited
      /\ w.pii = piiDetected /\ w.events = eventsByCategory
      /\ w.responses = responsesAudited /\ w.responsePII = responsePIIDetected
      /\ w.responseEvents = responseEventsByCategory
  BY DEF Summary
<1>4. w \in Window /\ windows \in Seq(Window)
  <2>1. [p \in Percentiles |-> computePercentile(latencySamples, latencyBuckets, p)]
          \in [Percentiles -> Nat]
    BY PercentileType
  <2>2. windows \in Seq(Window)
    BY <1>0 DEF TypeInv
  <2>3. w \in Window
    BY <1>0, <2>1 DEF TypeInv, Summary, Window
  <2> QED
    BY <2>2, <2>3
<1> HIDE DEF w
<1>5. windows' = Append(windows, w)
  BY <1>1 DEF w
<1>6. TypeInv'
  <2>1. windows' \in Seq(Window)
    BY <1>4, <1>5
  <2>2. /\ [c \in Categories |-> 0] \in ByCategory /\ [b \in Buckets |-> 0] \in [Buckets -> Nat]
    BY DEF ByCategory
  <2> QED
    BY <1>0, <1>1, <1>2, <2>1, <2>2 DEF TypeInv
<1>7. /\ ReportedProcessed' = ReportedProcessed /\ ReportedAudited' = ReportedAudited
      /\ ReportedResponses' = ReportedResponses
  <2>1. /\ ProcessedIn(windows') = ProcessedIn(windows) + w.processed
        /\ AuditedIn(windows') = AuditedIn(windows) + w.audited
        /\ ResponsesIn(windows') = ResponsesIn(windows) + w.responses
        /\ ProcessedIn(windows) \in Nat /\ AuditedIn(windows) \in Nat
        /\ ResponsesIn(windows) \in Nat
    BY <1>4, <1>5, AppendSums
  <2>2. latencySamples \in Nat /\ requestsAudited \in Nat /\ responsesAudited \in Nat
    BY <1>0 DEF TypeInv
  <2>3. /\ ReportedProcessed' = ProcessedIn(windows') + 0
        /\ ReportedAudited' = AuditedIn(windows') + 0
        /\ ReportedResponses' = ResponsesIn(windows') + 0
    BY <1>2 DEF ReportedProcessed, ReportedAudited, ReportedResponses
  <2>4. /\ ReportedProcessed = ProcessedIn(windows) + latencySamples
        /\ ReportedAudited = AuditedIn(windows) + requestsAudited
        /\ ReportedResponses = ResponsesIn(windows) + responsesAudited
    BY DEF ReportedProcessed, ReportedAudited, ReportedResponses
  <2> QED
    BY ONLY <1>3, <2>1, <2>2, <2>3, <2>4
<1>8. ASSUME NEW c \in Categories
      PROVE  /\ ReportedEvents(c)' = ReportedEvents(c)
             /\ ReportedResponseEvents(c)' = ReportedResponseEvents(c)
  <2>1. /\ EventsIn(windows', c) = EventsIn(windows, c) + w.events[c]
        /\ ResponseEventsIn(windows', c)
             = ResponseEventsIn(windows, c) + w.responseEvents[c]
        /\ EventsIn(windows, c) \in Nat /\ ResponseEventsIn(windows, c) \in Nat
    BY <1>4, <1>5, AppendSumsByCategory
  <2>2. eventsByCategory[c] \in Nat /\ responseEventsByCategory[c] \in Nat
    BY <1>0 DEF TypeInv, ByCategory
  <2>3. /\ ReportedEvents(c)' = EventsIn(windows', c) + 0
        /\ ReportedResponseEvents(c)' = ResponseEventsIn(windows', c) + 0
    BY <1>2 DEF ReportedEvents, ReportedResponseEvents
  <2>4. /\ ReportedEvents(c) = EventsIn(windows, c) + eventsByCategory[c]
        /\ ReportedResponseEvents(c)
             = ResponseEventsIn(windows, c) + responseEventsByCategory[c]
    BY DEF ReportedEvents, ReportedResponseEvents
  <2> QED
    BY ONLY <1>3, <2>1, <2>2, <2>3, <2>4
<1>9. MetricsInv'
  <2>1. Len(windows') = evidenceReports' + 1
    BY <1>0, <1>1, <1>4, <1>5 DEF MetricsInv, TypeInv
  <2> QED
    BY <1>0, <1>1, <1>7, <1>8, <2>1 DEF MetricsInv
<1>10. OnceInv'
  <2>1. /\ \A d : Delivered(d)' = Delivered(d)
        /\ \A d, c : DeliveredWith(d, c)' = DeliveredWith(d, c)
    BY <1>1 DEF Delivered, DeliveredWith
  <2>2. /\ \A c : /\ Underway(Requests(persisted, c))' = Underway(Requests(persisted, c))
                  /\ Underway(Answers(persisted, c))' = Underway(Answers(persisted, c))
        /\ Underway(Answered(persisted))' = Underway(Answered(persisted))
        /\ Underway(Len(persisted))' = Underway(Len(persisted))
    BY <1>1 DEF Underway
  <2>3. Logs' = Logs
    BY <1>1, <2>1 DEF Logs
  <2> QED
    BY <1>0, <1>1, <1>7, <1>8, <2>1, <2>2, <2>3 DEF OnceInv
<1>11. TotalsInv'
  <2>1. SumFunction([c \in Categories |-> 0]) = 0
    BY ZeroSums
  <2>2. \A i \in DOMAIN windows' :
          IF i \in DOMAIN windows THEN windows'[i] = windows[i] ELSE windows'[i] = w
    BY <1>4, <1>5
  <2>3. w.pii = SumFunction(w.events) /\ w.responsePII = SumFunction(w.responseEvents)
    BY <1>0, <1>3 DEF TotalsInv
  <2>4. ASSUME NEW i \in DOMAIN windows'
        PROVE  /\ windows'[i].pii = SumFunction(windows'[i].events)
               /\ windows'[i].responsePII = SumFunction(windows'[i].responseEvents)
    BY <1>0, <2>2, <2>3 DEF TotalsInv
  <2> QED
    BY <1>2, <2>1, <2>4 DEF TotalsInv
<1>12. LatencyInv'
  <2>3. SumFunction([b \in Buckets |-> 0]) = 0
    BY ZeroSums
  <2> QED
    BY <1>2, <2>3 DEF LatencyInv
<1> QED
  BY <1>6, <1>9, <1>10, <1>11, <1>12 DEF IInv

-----------------------------------------------------------------------------
(* The invariant and the properties *)

LEMMA InitIInv == Init => IInv
<1> SUFFICES ASSUME Init PROVE IInv
  OBVIOUS
<1>1. /\ delivered = [e \in Exchanges |-> {}] /\ merged = {}
      /\ batch = <<>> /\ windows = <<>>
      /\ flush = "idle" /\ persisted = <<>> /\ flushErrors = 0
      /\ requestsAuditedTotal = 0 /\ piiDetectedTotal = [c \in Categories |-> 0]
      /\ recording = 0 /\ requestsTotal = 0
      /\ ticker = "select" /\ evidenceReports = 0
  BY DEF Init
<1>2. /\ requestsAudited = 0 /\ piiDetected = 0
      /\ eventsByCategory = [c \in Categories |-> 0]
      /\ responsesAudited = 0 /\ responsePIIDetected = 0
      /\ responseEventsByCategory = [c \in Categories |-> 0]
      /\ latencySamples = 0 /\ latencyOverflow = 0
      /\ latencyBuckets = [b \in Buckets |-> 0]
  BY DEF Init, AggregatorInit
<1>3. TypeInv
  BY <1>1, <1>2 DEF TypeInv, ByCategory
<1>4. /\ ReportedProcessed = 0 /\ ReportedAudited = 0 /\ ReportedResponses = 0
      /\ \A c \in Categories : ReportedEvents(c) = 0 /\ ReportedResponseEvents(c) = 0
  BY <1>1, <1>2, NoSums DEF ReportedProcessed, ReportedAudited, ReportedResponses,
                            ReportedEvents, ReportedResponseEvents
<1>5. MetricsInv
  <2>1. Len(windows) = 0
    BY <1>1
  <2> QED
    BY <1>1, <1>4, <2>1 DEF MetricsInv
<1>6. OnceInv
  <2>1. \A d, c : Cardinality(Delivered(d)) = 0 /\ Cardinality(DeliveredWith(d, c)) = 0
    <3>1. \A d, c : Delivered(d) = {} /\ DeliveredWith(d, c) = {}
      BY <1>1 DEF Delivered, DeliveredWith
    <3> QED
      BY <3>1, FS_EmptySet
  <2>2. \A n : Underway(n) = 0
    BY <1>1 DEF Underway
  <2>3. /\ Len(batch) = 0 /\ Answered(batch) = 0
        /\ \A c \in Categories : Requests(batch, c) = 0 /\ Answers(batch, c) = 0
    BY <1>1, NoLogs
  <2>4. \A exact : Once(0, 0, 0, 0, exact)
    BY DEF Once
  <2>5. Cardinality(merged) = 0
    BY <1>1, FS_EmptySet
  <2>6. Logs = 0
    BY <2>1, <2>5 DEF Logs
  <2> QED
    BY <1>4, <2>1, <2>2, <2>3, <2>4, <2>6 DEF OnceInv
<1>7. TotalsInv /\ LatencyInv
  BY <1>1, <1>2, ZeroSums DEF TotalsInv, LatencyInv
<1> QED
  BY <1>3, <1>5, <1>6, <1>7 DEF IInv

LEMMA StutterIInv == ASSUME IInv, UNCHANGED vars PROVE IInv'
<1>0. TypeInv /\ MetricsInv /\ OnceInv /\ TotalsInv /\ LatencyInv
  BY DEF IInv
<1>1. /\ UNCHANGED <<delivered, merged, batch, flush, persisted, flushErrors>>
      /\ UNCHANGED <<requestsAuditedTotal, piiDetectedTotal, recording, requestsTotal>>
      /\ UNCHANGED <<ticker, windows, evidenceReports>> /\ UNCHANGED auditVars
      /\ UNCHANGED <<latencySamples, latencyBuckets, latencyOverflow>>
  BY DEF vars, flushVars, countVars, handlerVars, tickerVars, aggregatorVars, latencyVars
<1>2. TypeInv'
  <2>1. UNCHANGED <<requestsAudited, piiDetected, eventsByCategory, responsesAudited,
                    responsePIIDetected, responseEventsByCategory>>
    BY <1>1 DEF auditVars
  <2> QED
    BY <1>0, <1>1, <2>1 DEF TypeInv
<1>3. OnceInv'
  BY <1>0, <1>1, OnceKept
<1>4. /\ ReportedAudited' = ReportedAudited /\ ReportedProcessed' = ReportedProcessed
      /\ \A c : ReportedEvents(c)' = ReportedEvents(c)
      /\ TotalsInv'
  BY <1>0, <1>1, ReportedKept
<1>5. MetricsInv' /\ LatencyInv'
  BY <1>0, <1>1, <1>4 DEF MetricsInv, LatencyInv
<1> QED
  BY <1>2, <1>3, <1>4, <1>5 DEF IInv

LEMMA NextIInv == IInv /\ [Next]_vars => IInv'
<1> SUFFICES ASSUME IInv, [Next]_vars PROVE IInv'
  OBVIOUS
<1>1. CASE \E e \in Exchanges : \E ds \in SUBSET Directions : Deliver(e, ds)
  BY <1>1, DeliverStep
<1>2. CASE \E n \in 0..Len(batch) : Flush(n)
  BY <1>2, FlushStepWrites
<1>3. CASE FlushIngest
  BY <1>3, FlushStepIngests
<1>4. CASE FlushAudited
  BY <1>4, FlushStepCountsAudited
<1>5. CASE FlushPII
  BY <1>5, FlushStepCountsPII
<1>6. CASE \E ms \in 0..maxLatencyBucketMS : RecordOverhead(ms)
  BY <1>6, OverheadStep
<1>7. CASE CountRequest
  BY <1>7, RequestStep
<1>8. CASE SnapshotAndReset
  BY <1>8, SnapshotStep
<1>9. CASE CountReport
  BY <1>9, ReportStep
<1>10. CASE Terminating \/ UNCHANGED vars
  BY <1>10, StutterIInv DEF Terminating
<1> QED
  BY <1>1, <1>2, <1>3, <1>4, <1>5, <1>6, <1>7, <1>8, <1>9, <1>10 DEF Next

\* What the flush, the handlers and the ticker keep between any two of their
\* steps, whatever logs, latencies and windows there are.
THEOREM Inductive == Spec => []IInv
BY InitIInv, NextIInv, PTL DEF Spec

\* The evidence an auditor reads and what Prometheus scrapes differ by exactly
\* the logs, requests and windows counted in one of the two only.
THEOREM AuditorsAgree == Spec => []EvidenceMatchesMetrics
<1>1. IInv => EvidenceMatchesMetrics
  <2> SUFFICES ASSUME IInv PROVE EvidenceMatchesMetrics
    OBVIOUS
  <2>1. MetricsInv
    BY DEF IInv
  <2>2. \A c \in Categories :
          ReportedEvents(c) = piiDetectedTotal[c] + IF flush \in {"audited", "pii"}
                                                    THEN Having(RequestCats(persisted), c)
                                                    ELSE 0
    BY <2>1 DEF MetricsInv, Requests
  <2> QED
    BY <2>1, <2>2, ReportedIs DEF EvidenceMatchesMetrics, MetricsInv
<1> QED
  BY <1>1, Inductive, PTL

\* Each finding of each exchange is counted at most once, for its direction, each
\* log the collector was given as one audited request at most, and both
\* exactly once while no write has failed and nothing is under way, however the
\* logs are merged, batched, written in part and spread over windows.
THEOREM EachFindingOnce == Spec => []CountedOnce
<1>1. IInv => CountedOnce
  <2> SUFFICES ASSUME IInv PROVE CountedOnce
    OBVIOUS
  <2>0. TypeInv /\ OnceInv /\ TotalsInv
    BY DEF IInv
  <2>1. ASSUME NEW n \in Nat, NEW u \in Nat, NEW b \in Nat, NEW k \in Nat,
               Once(n, u, b, k, flushErrors = 0), Settled => u = 0 /\ b = 0
        PROVE  AtMost(n, k)
    BY <2>1 DEF Once, AtMost, Settled
  <2>2. Settled => \A m : Underway(m) = 0
    BY DEF Settled, Underway
  <2>3. Settled => /\ Answered(batch) = 0
                   /\ \A c \in Categories : Requests(batch, c) = 0 /\ Answers(batch, c) = 0
    BY NoLogs DEF Settled
  <2>4. ASSUME NEW c \in Categories
        PROVE  /\ AtMost(Reported(LAMBDA w : w.events[c]),
                         Cardinality({e \in Delivered("request") : c \in Found[e].request}))
               /\ AtMost(Reported(LAMBDA w : w.responseEvents[c]),
                         Cardinality({e \in Delivered("response") :
                                        c \in Found[e].response}))
    <3>1. /\ Once(ReportedEvents(c), Underway(Requests(persisted, c)),
                  Requests(batch, c), Cardinality(DeliveredWith("request", c)),
                  flushErrors = 0)
          /\ Once(ReportedResponseEvents(c), Underway(Answers(persisted, c)),
                  Answers(batch, c), Cardinality(DeliveredWith("response", c)),
                  flushErrors = 0)
      BY <2>0 DEF OnceInv
    <3>a. /\ ReportedEvents(c) \in Nat /\ Underway(Requests(persisted, c)) \in Nat
          /\ Requests(batch, c) \in Nat /\ ReportedResponseEvents(c) \in Nat
          /\ Underway(Answers(persisted, c)) \in Nat /\ Answers(batch, c) \in Nat
      BY <2>0, Numbers
    <3>b. /\ Settled => Underway(Requests(persisted, c)) = 0 /\ Requests(batch, c) = 0
          /\ Settled => Underway(Answers(persisted, c)) = 0 /\ Answers(batch, c) = 0
      BY <2>2, <2>3
    <3>c. /\ Cardinality(DeliveredWith("request", c)) \in Nat
          /\ Cardinality(DeliveredWith("response", c)) \in Nat
      BY DeliveredFinite
    <3>2. AtMost(ReportedEvents(c), Cardinality(DeliveredWith("request", c)))
      BY <2>1, <3>1, <3>a, <3>b, <3>c
    <3>3. AtMost(ReportedResponseEvents(c), Cardinality(DeliveredWith("response", c)))
      BY <2>1, <3>1, <3>a, <3>b, <3>c
    <3>4. /\ {e \in Delivered("request") : c \in Found[e].request}
               = DeliveredWith("request", c)
          /\ {e \in Delivered("response") : c \in Found[e].response}
               = DeliveredWith("response", c)
      BY DEF DeliveredWith, Finding, Delivered
    <3>5. /\ Reported(LAMBDA w : w.events[c]) = ReportedEvents(c)
          /\ Reported(LAMBDA w : w.responseEvents[c]) = ReportedResponseEvents(c)
      BY ReportedIs
    <3> QED
      BY <3>2, <3>3, <3>4, <3>5
  <2>5. AtMost(Reported(LAMBDA w : w.responses), Cardinality(Delivered("response")))
    <3>1. Once(ReportedResponses, Underway(Answered(persisted)), Answered(batch),
               Cardinality(Delivered("response")), flushErrors = 0)
      BY <2>0 DEF OnceInv
    <3>2. AtMost(ReportedResponses, Cardinality(Delivered("response")))
      BY <2>0, <2>1, <2>2, <2>3, <3>1, Numbers, DeliveredFinite
    <3> QED
      BY <3>2, ReportedIs
  <2>6. AtMost(Reported(LAMBDA w : w.audited), Logs)
    <3>1. Once(ReportedAudited, Underway(Len(persisted)), Len(batch), Logs, flushErrors = 0)
      BY <2>0 DEF OnceInv
    <3>2. Settled => Underway(Len(persisted)) = 0 /\ Len(batch) = 0
      BY <2>2 DEF Settled
    <3>3. AtMost(ReportedAudited, Logs)
      BY <2>0, <2>1, <3>1, <3>2, Numbers, LogsCounted
    <3> QED
      BY <3>3, ReportedIs
  <2>7. \A w \in ToSet(windows) : /\ w.pii = SumFunction(w.events)
                                  /\ w.responsePII = SumFunction(w.responseEvents)
    BY <2>0 DEF TotalsInv, ToSet
  <2> QED
    BY <2>4, <2>5, <2>6, <2>7 DEF CountedOnce
<1> QED
  BY <1>1, Inductive, PTL

\* The percentiles of a window are nearest ranks of the latencies of the very
\* requests that it counts; PercentileIs says so for histograms of any counts.
THEOREM PercentilesAreRanks == Spec => []PercentilesTrue
<1>1. NearestRank
  <2> SUFFICES ASSUME NEW h \in [0..maxLatencyBucketMS -> Counts], NEW p \in Percentiles,
                      NEW N, N = SumFunction(h),
                      NEW v, v = computePercentile(N, [b \in Buckets |-> h[b]], p)
               PROVE  IF N = 0 THEN v = 0
                      ELSE /\ 100 * SumFunctionOnSet(h, 0..v) >= p * N
                           /\ 100 * SumFunctionOnSet(h, 0..(v - 1)) < p * N
    BY DEF NearestRank
  <2>1. h \in [0..maxLatencyBucketMS -> Nat]
    BY DEF Counts
  <2> QED
    BY <2>1, PercentileIs
<1>2. IInv => PercentilesTrue
  BY <1>1 DEF IInv, LatencyInv, PercentilesTrue
<1> QED
  BY <1>2, Inductive, PTL
=============================================================================
