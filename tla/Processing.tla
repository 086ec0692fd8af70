----------------------------- MODULE Processing -----------------------------
(***************************************************************************)
(* processPayload of worker.go: the telemetry log of a payload, from what  *)
(* Extractor finds in it and Redactor leaves of that.  A worker gets the   *)
(* request of a client, or as much of an answer as was captured when its   *)
(* stream ended, however the upstream had cut it into deltas.              *)
(***************************************************************************)
EXTENDS Extractor, Redactor, FiniteSetsExt

CONSTANTS
    RequestBodies,  \* payloads that clients send: [lines, system, messages,
                    \* stream], of which stream is no part of the data
    Answer,         \* by index, from 0 on: the texts that an upstream streams
    Openings,       \* lines with which its streams begin
    None            \* no payload, no log

\* A content of a request, a delta of a stream.
Contents ==
    [kind : {"none"}] \cup [kind : {"string"}, text : Texts]
      \cup [kind : {"array"}, parts : Seq([type : STRING, text : Texts \cup {Absent}])]
Deltas == [index : Nat \cup {Absent}, text : Texts \cup {Absent}]

ASSUME ProcessingAssumption ==
    /\ RequestBodies \subseteq [lines : {<<>>}, system : Contents,
                                messages : Seq(Contents), stream : {FALSE}]
    /\ IsFiniteSet(DOMAIN Answer) /\ DOMAIN Answer = 0..(Cardinality(DOMAIN Answer) - 1)
    /\ \A k \in DOMAIN Answer : Answer[k] \in Texts
    /\ Openings \subseteq Seq({Blank, Field})
    /\ Absent \notin Texts \cup Nat
    /\ Blank # Field /\ {Blank, Field} \cap Seq(Deltas) = {}

VARIABLES
    api,    \* of the payload
    data,   \* the payload that is captured or processed, or None
    sent,   \* by index: how much of its text the stream in data has
    entry   \* the log that the worker has made of data, or None

processingVars == <<api, data, sent, entry>>

APIs == {"openai", "anthropic", "unknown"}

\* m[f.Path] = f.Text
buildRedactedPayload(fields, texts) ==
    [path \in {fields[i].path : i \in DOMAIN fields} |->
        texts[Max({i \in DOMAIN fields : fields[i].path = path})]]

\* The hashes and the timestamp are left out, and so are extractors that
\* another binary registers.
processPayload(type, payload) ==
    LET fields == ExtractContent(type, payload)
        redacted == [i \in DOMAIN fields |-> Redact(fields[i].text)]
    IN [payload |-> buildRedactedPayload(fields,
                        [i \in DOMAIN fields |-> redacted[i].text]),
        cats |-> UNION {redacted[i].cats : i \in DOMAIN fields},
        scanned |-> Len(fields)]

ProcessingInit == api = "unknown" /\ data = None /\ sent = <<>> /\ entry = None

-----------------------------------------------------------------------------
(* What clients and upstreams write *)

Begin(type, payload) ==
    /\ api' = type /\ data' = payload
    /\ sent' = [k \in DOMAIN Answer |-> 0]
    /\ UNCHANGED entry

SendRequest ==
    /\ data = None
    /\ \E type \in APIs : \E body \in RequestBodies : Begin(type, body)

BeginStream ==
    /\ data = None
    /\ \E type \in APIs : \E opening \in Openings :
          Begin(type, [lines |-> opening, system |-> [kind |-> "none"],
                       messages |-> <<>>, stream |-> TRUE])

\* The next n pieces of text k.
Piece(k, n) == SubSeq(Answer[k], sent[k] + 1, sent[k] + n)

\* One more line, with adds[k] pieces of each text k in its deltas.
WriteLine(line, adds) ==
    /\ data # None /\ entry = None /\ data.stream
    /\ \A k \in DOMAIN Answer : sent[k] + adds[k] <= Len(Answer[k])
    /\ sent' = [k \in DOMAIN Answer |-> sent[k] + adds[k]]
    /\ data' = [data EXCEPT !.lines = @ \o <<line, Blank>>]
    /\ UNCHANGED <<api, entry>>

\* The next n pieces of one text, under its index.
SendDelta ==
    \E k \in DOMAIN Answer : \E n \in 1..Len(Answer[k]) :
        WriteLine(<<[index |-> k, text |-> Piece(k, n)]>>,
                  [i \in DOMAIN Answer |-> IF i = k THEN n ELSE 0])

\* All choices in their order and without index, as only OpenAI may send them;
\* those that are complete have nothing to add.
SendChoices ==
    LET adds == [k \in DOMAIN Answer |-> IF sent[k] < Len(Answer[k]) THEN 1 ELSE 0]
    IN /\ api = "openai" /\ \E k \in DOMAIN Answer : adds[k] = 1
       /\ WriteLine([i \in 1..Cardinality(DOMAIN Answer) |->
                       [index |-> Absent,
                        text |-> IF adds[i - 1] = 1 THEN Piece(i - 1, 1) ELSE Absent]],
                    adds)

-----------------------------------------------------------------------------
(* The worker *)

Process ==
    /\ data # None /\ entry = None
    /\ entry' = processPayload(api, data)
    /\ UNCHANGED <<api, data, sent>>

\* The log is sent on (Workers), and the next payload taken.
NextPayload == entry # None /\ api' = "unknown" /\ data' = None /\ sent' = <<>>
                            /\ entry' = None

ProcessingStep ==
    SendRequest \/ BeginStream \/ SendDelta \/ SendChoices \/ Process \/ NextPayload

ProcessingSpec == ProcessingInit /\ [][ProcessingStep]_processingVars

-----------------------------------------------------------------------------
(* Properties *)

\* The first category that takes candidate c, alone if there is any.
Taking(c) ==
    LET takers == {i \in DOMAIN defaultPIIPatterns :
                     defaultPIIPatterns[i] \in c.matches /\ validate(defaultPIIPatterns[i], c)}
    IN IF takers = {} THEN {} ELSE {defaultPIIPatterns[Min(takers)]}

\* Where both halves of a candidate that some category takes meet in a text.
Hits(text) == {i \in 1..(Len(text) - 1) : /\ text[i][1] = 1 /\ Taking(text[i][2]) # {}
                                          /\ text[i + 1] = <<2, text[i][2]>>}
CatsIn(text) == UNION {Taking(text[i][2]) : i \in Hits(text)}
Clean(text) ==
    FlattenSeq([i \in DOMAIN text |->
        IF i \in Hits(text) THEN <<<<3, CHOOSE c \in Taking(text[i][2]) : TRUE>>>>
        ELSE IF i - 1 \in Hits(text) THEN <<>> ELSE <<text[i]>>])

\* The texts <<path, text>> of a content and of the payload under way.
TextsOf(content, path) ==
    IF content.kind = "string" THEN {<<path, content.text>>}
    ELSE IF content.kind = "array"
    THEN {<<Append(path, k - 1), content.parts[k].text>> :
            k \in {k \in DOMAIN content.parts : content.parts[k].type = "text"}}
    ELSE {}

Written ==
    LET deltas == {<<<<IF api = "openai" THEN "choices" ELSE "content_block", k>>,
                     SubSeq(Answer[k], 1, sent[k])>> : k \in DOMAIN Answer}
        contents == UNION ({TextsOf(data.messages[m], <<"messages", m - 1>>) :
                              m \in DOMAIN data.messages}
                           \cup {IF api = "anthropic" THEN TextsOf(data.system, <<"system">>)
                                 ELSE {}})
    IN {t \in IF data.stream THEN deltas ELSE contents : IsText(t[2]) /\ api # "unknown"}

\* A log holds every text of its payload, and nothing else, each under its own
\* place and without what the patterns take out of it, and names what that was.
\* "This ensures PII spanning chunk boundaries is captured as a contiguous
\* string": it depends on the texts only, not on how they were cut into deltas,
\* interleaved and numbered, which messages and parts are empty, or which other
\* pattern's marker stands nearby.
LogsTellPayloads ==
    entry # None =>
        /\ entry.payload = [path \in {t[1] : t \in Written} |->
                               Clean((CHOOSE t \in Written : t[1] = path)[2])]
        /\ entry.cats = UNION {CatsIn(t[2]) : t \in Written}
        /\ entry.scanned = Cardinality(Written)

\* Luhn's promise: no single wrong digit and no swap of neighbours other than 0
\* and 9 goes unnoticed, every number has exactly one check digit, and zeros in
\* front of it change nothing.
LuhnDetects(s) ==
    LET n == Len(s)
    IN /\ Cardinality({d \in Digits : luhnValid([s EXCEPT ![n] = d])}) = 1
       /\ n < MaxDigits => (luhnValid(<<0>> \o s) <=> luhnValid(s))
       /\ luhnValid(s) =>
            /\ \A i \in 1..n : \A d \in Digits \ {s[i]} : ~luhnValid([s EXCEPT ![i] = d])
            /\ \A i \in 1..(n - 1) :
                 s[i] # s[i + 1] /\ {s[i], s[i + 1]} # {0, 9} =>
                     ~luhnValid([s EXCEPT ![i] = s[i + 1], ![i + 1] = s[i]])

\* The numbers up to 255, each written the one way it is written.
Octets == {<<n>> : n \in Digits}
            \cup {<<n \div 10, n % 10>> : n \in 10..99}
            \cup {<<n \div 100, (n \div 10) % 10, n % 10>> : n \in 100..255}

\* A card number passes or fails by its checksum, an address by its four
\* numbers, exactly: what is not validated is not redacted.
ValidatorsExact ==
    entry # None =>
        \A t \in Written : \A i \in DOMAIN t[2] :
            LET c == t[2][i][2]
            IN t[2][i][1] = 1 =>
                 /\ Len(c.digits) \in MinDigits..MaxDigits => LuhnDetects(c.digits)
                 /\ validateIPv4(c.parts) <=> c.parts \in Seq(Octets) /\ Len(c.parts) = 4

-----------------------------------------------------------------------------
(* What the documents say and the code does not do *)

\* README.md:185, "SSE streams: Delta content concatenated per choice/block
\* before scanning": the text in a captured stream is scanned.
StreamsAreScanned ==
    entry # None /\ data.stream /\ Written # {} => entry.scanned > 0
=============================================================================
