----------------------------- MODULE Extractor -----------------------------
(***************************************************************************)
(* extractor.go: the natural-language fields of a payload.                 *)
(*                                                                         *)
(* Payloads are abstracted to what the extractors look at.  A text is a    *)
(* sequence of pieces, of which the redactor knows more.  A content, of a  *)
(* message or of "system", is [kind, text, parts]; a part of a multimodal  *)
(* one is [type, text].  A payload that is no stream has no lines.  In one *)
(* that is, a "data:" line is a sequence of deltas [index, text], where    *)
(* index or text may be Absent; [DONE] and the other types of Anthropic    *)
(* events have no delta.  Any other line is Blank or Field.                *)
(***************************************************************************)
EXTENDS Integers, FiniteSets, Sequences, SequencesExt

CONSTANTS
    Absent,       \* a key that the JSON object does not have
    Blank, Field  \* an empty line; one that is not data, "event:" for instance

\* A ContentField: its Path is the place of the text in the JSON.
ContentField(text, path, index) == [text |-> text, path |-> path, index |-> index]

IsText(text) == text \notin {Absent, <<>>}

\* Only the non-empty text parts; the place of a part counts the others too.
extractContentParts(parts, path, start) ==
    FoldLeftDomain(LAMBDA fields, k :
        IF parts[k].type = "text" /\ IsText(parts[k].text)
        THEN Append(fields, ContentField(parts[k].text, Append(path, k - 1),
                                         start + Len(fields)))
        ELSE fields, <<>>, parts)

\* A string, an array of parts, or nothing to extract.
extractContent(content, path, start) ==
    CASE content.kind = "string" /\ IsText(content.text) ->
           <<ContentField(content.text, path, start)>>
      [] content.kind = "array" -> extractContentParts(content.parts, path, start)
      [] OTHER -> <<>>

extractMessageContent(msg, m, start) ==
    extractContent(msg, <<"messages", m - 1>>, start)

extractMessagesArray(messages, start) ==
    FoldLeftDomain(LAMBDA fields, m :
        fields \o extractMessageContent(messages[m], m, start + Len(fields)),
        <<>>, messages)

extractSystem(data) == extractContent(data.system, <<"system">>, 0)

-----------------------------------------------------------------------------
(* Streams: the deltas of one index are one text, wherever they were cut *)

\* A "data:" line comes first, after white space.
isSSE(lines) ==
    \E i \in DOMAIN lines :
        lines[i] \notin {Blank, Field} /\ \A j \in 1..(i - 1) : lines[j] = Blank

splitSSEChunks(lines) ==
    FoldLeft(LAMBDA chunks, line :
        IF line \in {Blank, Field} THEN chunks ELSE Append(chunks, line), <<>>, lines)

\* b.WriteString(delta), in the builder of index idx.
WriteString(deltas, idx, text) ==
    [k \in DOMAIN deltas \cup {idx} |->
        IF k # idx THEN deltas[k]
        ELSE IF k \in DOMAIN deltas THEN deltas[k] \o text ELSE text]

\* Mutant of choiceIndex: the explicit index is ignored.
positionOnly(choice, position) == position - 1

\* OpenAI: the "index" field, or else the position in the array.
choiceIndex(choice, position) ==
    IF choice.index = Absent THEN position - 1 ELSE choice.index

\* Anthropic: the "index" field; a delta without one is skipped.
blockIndex(delta) == delta.index

\* The deltas of one more chunk, each written to the text of its index.
accumulate(deltas, chunk, path) ==
    FoldLeftDomain(LAMBDA acc, i :
        LET idx == IF path = "choices" THEN choiceIndex(chunk[i], i)
                   ELSE blockIndex(chunk[i])
        IN IF IsText(chunk[i].text) /\ idx # Absent
           THEN WriteString(acc, idx, chunk[i].text) ELSE acc, deltas, chunk)

deltasOf(lines, path) ==
    FoldLeft(LAMBDA deltas, chunk : accumulate(deltas, chunk, path), <<>>,
             splitSSEChunks(lines))

\* sort.Ints
sorted(keys) ==
    CHOOSE s \in [1..Cardinality(keys) -> keys] : \A i, j \in DOMAIN s : i < j => s[i] < s[j]

\* The texts of all chunks, each a field, in the order of the indices.
concatenated(lines, path) ==
    LET deltas == deltasOf(lines, path)
        keys == sorted(DOMAIN deltas)
    IN [i \in DOMAIN keys |-> ContentField(deltas[keys[i]], <<path, keys[i]>>, i - 1)]

openAISSE(lines) == concatenated(lines, "choices")
anthropicSSE(lines) == concatenated(lines, "content_block")

-----------------------------------------------------------------------------
openAIContent(data) ==
    IF isSSE(data.lines) THEN openAISSE(data.lines)
    ELSE extractMessagesArray(data.messages, 0)

anthropicContent(data) ==
    IF isSSE(data.lines) THEN anthropicSSE(data.lines)
    ELSE extractSystem(data)
           \o extractMessagesArray(data.messages, Len(extractSystem(data)))

\* By the extractor that extractorForAPI chooses; an unknown API has none, and
\* its payloads yield no field.
ExtractContent(api, data) ==
    CASE api = "openai" -> openAIContent(data)
      [] api = "anthropic" -> anthropicContent(data)
      [] OTHER -> <<>>
=============================================================================
