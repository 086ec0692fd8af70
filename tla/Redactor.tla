------------------------------ MODULE Redactor ------------------------------
(***************************************************************************)
(* redactor.go: the patterns that replace PII in a text by markers.        *)
(*                                                                         *)
(* A text is a sequence of pieces <<n, of>>: <<0, Plain>> is plain words,  *)
(* <<1, c>> and <<2, c>> the two halves of candidate c, which is something *)
(* that the regular expressions find only where both halves meet, and      *)
(* <<3, category>> the marker of a category.  A candidate is               *)
(* [matches, digits, parts]: the categories whose expression matches it,   *)
(* its digits, and its dot-separated parts, each a sequence of digits.     *)
(***************************************************************************)
EXTENDS Integers, Sequences, SequencesExt

CONSTANTS
    Plain,                 \* words that no pattern matches
    MinDigits, MaxDigits   \* a card number's digits; 13 and 19 in the code

ASSUME RedactorAssumption == MinDigits \in Nat \ {0} /\ MaxDigits \in Nat

\* defaultPIIPatterns, in the order in which they are applied.
defaultPIIPatterns == <<"EMAIL", "SSN", "CC_NUMBER", "PHONE", "IP_ADDRESS">>
Categories == ToSet(defaultPIIPatterns)

Digits == 0..9
Candidates ==
    [matches : SUBSET Categories, digits : Seq(Digits), parts : Seq(Seq(Digits))]
Pieces == ({0} \X {Plain}) \cup ({1, 2} \X Candidates) \cup ({3} \X Categories)
Texts == Seq(Pieces)

Doubled(d) == IF 2 * d > 9 THEN 2 * d - 9 ELSE 2 * d

\* Mutant of luhnValid: every other digit is doubled from the left.
luhnFromLeft(digits) ==
    /\ Len(digits) \in MinDigits..MaxDigits
    /\ FoldLeftDomain(LAMBDA sum, i :
           sum + IF i % 2 = 1 THEN Doubled(digits[i]) ELSE digits[i], 0, digits) % 10 = 0

\* Every other digit is doubled, from the one before the last leftwards.
luhnValid(digits) ==
    /\ Len(digits) \in MinDigits..MaxDigits
    /\ FoldLeftDomain(LAMBDA sum, i :
           sum + IF (Len(digits) - i) % 2 = 1 THEN Doubled(digits[i]) ELSE digits[i],
           0, digits) % 10 = 0

\* strconv.Atoi of a part.
Atoi(part) == FoldLeft(LAMBDA n, d : 10 * n + d, 0, part)

validateIPv4(parts) ==
    /\ Len(parts) = 4
    /\ \A i \in 1..4 : /\ parts[i] # <<>>
                       /\ Len(parts[i]) > 1 => parts[i][1] # 0
                       /\ Atoi(parts[i]) <= 255

\* pat.validate, for the patterns that have one.
validate(category, c) ==
    CASE category = "CC_NUMBER" -> luhnValid(c.digits)
      [] category = "IP_ADDRESS" -> validateIPv4(c.parts)
      [] OTHER -> TRUE

\* A match of a category's pattern starts at piece i and is validated.
Hit(text, i, category) ==
    /\ i < Len(text) /\ text[i][1] = 1
    /\ text[i + 1] = <<2, text[i][2]>>
    /\ category \in text[i][2].matches
    /\ validate(category, text[i][2])

\* ReplaceAllStringFunc: what is not validated stays as it is.
ReplaceMatches(text, category) ==
    FoldLeftDomain(LAMBDA out, i :
        IF Hit(text, i, category) THEN Append(out, <<3, category>>)
        ELSE IF i > 1 /\ Hit(text, i - 1, category) THEN out
        ELSE Append(out, text[i]), <<>>, text)

\* One pattern, on what the ones before it have left.
Apply(r, category) ==
    [text |-> ReplaceMatches(r.text, category),
     cats |-> IF \E i \in DOMAIN r.text : Hit(r.text, i, category)
              THEN r.cats \cup {category} ELSE r.cats]

\* Redact of RegexRedactor, and of the chain, which has only this one.
Redact(input) == FoldLeft(Apply, [text |-> input, cats |-> {}], defaultPIIPatterns)
=============================================================================
