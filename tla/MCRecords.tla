----------------------------- MODULE MCRecords -----------------------------
(* Model checking of Processing and Records on small instances. *)
EXTENDS Processing, Records

Candidate(matches, digits, parts) ==
    [matches |-> matches, digits |-> digits, parts |-> parts]
Halves(c) == <<<<1, c>>, <<2, c>>>>
Words == <<<<0, Plain>>>>

\* A mail address, and one whose local part is an IP address (never cut, as
\* that is found by itself); a social security number; card numbers with and
\* without a right check digit, addresses with and without right numbers.
Mail == Candidate({"EMAIL"}, <<>>, <<>>)
DottedMail == Candidate({"EMAIL", "IP_ADDRESS"}, <<>>, <<<<1>>, <<1>>, <<1>>, <<1>>>>)
SSN == Candidate({"SSN"}, <<1, 2, 3>>, <<>>)
Card == Candidate({"CC_NUMBER"}, <<5, 9, 6>>, <<>>)
NoCard == Candidate({"CC_NUMBER"}, <<5, 9, 2>>, <<>>)
Host == Candidate({"IP_ADDRESS"}, <<>>, <<<<1, 0>>, <<0>>, <<0>>, <<2, 5, 5>>>>)
NoHost == Candidate({"IP_ADDRESS"}, <<>>, <<<<1, 0>>, <<0>>, <<0>>, <<2, 5, 6>>>>)

String(text) == [kind |-> "string", text |-> text]
NoContent == [kind |-> "none"]
Array(parts) == [kind |-> "array", parts |-> parts]
Part(type, text) == [type |-> type, text |-> text]
Body(system, messages) ==
    [lines |-> <<>>, system |-> system, messages |-> messages, stream |-> FALSE]

Digits3To4 == [1..3 -> Digits] \cup [1..4 -> Digits]
Parts == UNION {[1..n -> Digits] : n \in 1..3}

\* Every card number, and every address of which one part varies.
Numbers == {Candidate({"CC_NUMBER"}, s, <<>>) : s \in Digits3To4}
             \cup {Candidate({"IP_ADDRESS"}, <<>>,
                             [j \in 1..4 |-> IF j = i THEN part ELSE <<1>>]) :
                     i \in 1..4, part \in Parts}

MCRequestBodies == {Body(NoContent, <<String(Halves(c))>>) : c \in Numbers} \cup {
    Body(NoContent, <<String(Words \o Halves(DottedMail) \o Halves(NoCard))>>),
    Body(String(Halves(Card)),
         <<NoContent, String(<<>>), String(Halves(NoHost) \o Halves(Host) \o Words)>>),
    Body(Array(<<Part("text", Words), Part("text", Halves(SSN))>>),
         <<Array(<<Part("image", Absent), Part("text", <<>>),
                   Part("text", Halves(Mail)), Part("text", Absent)>>),
           String(Halves(Host))>>)}

MCAnswer == [k \in 0..1 |->
    IF k = 0 THEN Words \o Halves(Mail) ELSE Halves(Card)]

\* Two exchanges, with findings on both sides and on one.
MCFound == <<[request |-> {"EMAIL", "SSN"}, response |-> {"EMAIL"}],
             [request |-> {"SSN"}, response |-> {}]>>

\* White space may come first, or an "event:" line.
MCOpenings == {<<>>, <<Blank>>}
EventOpening == {<<Field>>}

\* The two have no state in common: each is run from where the other begins.
MCInit == Init /\ ProcessingInit
MCNext ==
    \/ data = None /\ Next /\ UNCHANGED processingVars
    \/ Init /\ ProcessingStep /\ UNCHANGED vars
MCSpec == MCInit /\ [][MCNext]_<<vars, processingVars>>
=============================================================================
