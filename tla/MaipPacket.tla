--------------------------------- MODULE MaipPacket ---------------------------------
(***************************************************************************)
(* maip_packet_builder and maip_peer_request (include/mbase/maip_parser.h):  *)
(* a packet is built by one side and parsed by the other.  A packet is a     *)
(* sequence of characters; "MAIP" and "END" stand for one character each.    *)
(* The builder is the state machine, the parser a function of what arrives.  *)
(*    "MAIP" major "." minor " "  type " " string " " "\n"                   *)
(*    key ":" value ";" value "\n" ...  "END" "\n"  data                     *)
(***************************************************************************)
EXTENDS Naturals, Sequences, FiniteSets, SequencesExt

CONSTANTS
    Alphas,         \* letters
    Digits,
    Types, Strings, \* what set_request_message() is given
    Codes,          \* status codes, sequences of digits
    Keys, Values,   \* what set_kval() is given
    Data,           \* contents
    gMaipOpTypeLength, gMaipOpStringLength,
    gMaipDescriptionKeyLength, gMaipDescriptionValueLength, gMaipMaxKvalCount,
    Versions,       \* numbers, sequences of digits
    MaxValues       \* bound on the values the builder holds

Printable == Alphas \cup Digits \cup {" ", ":", ";", ".", "-", "END", "MAIP"}
NewLine == "\n"
LENGTH == <<"LENGTH">>

VARIABLES
    mVersionString, mIdentificationLine,
    mDescriptionKVals,      \* key -> sequence of values
    payload,                \* what generate_payload() gave, <<>> before
    data,                   \* history: the contents in it
    identified              \* history: which message was set last, and from what

vars == <<mVersionString, mIdentificationLine, mDescriptionKVals, payload, data, identified>>
------------------------------------------------------------------------------
\* The builder keeps of an operation's type its letters, of its string what is printable but no space
OnlyFrom(s, S) == SelectSeq(s, LAMBDA c : c \in S)
RefusedLine == <<"1">> \o <<" ", NewLine>>
set_request_message(type, string) ==
    LET t == OnlyFrom(type, Alphas)
        s == OnlyFrom(string, Printable \ {" "})
    IN  IF Len(t) > gMaipOpTypeLength \/ t = <<>> \/ Len(s) > gMaipOpStringLength \/ s = <<>>
        THEN RefusedLine
        ELSE t \o <<" ">> \o s \o <<" ", NewLine>>
set_response_message(code) == code \o <<" ", NewLine>>
set_version(major, minor) == <<"MAIP">> \o major \o <<".">> \o minor \o <<" ">>

\* A second value of a key goes behind the first
set_kval(kvals, k, v) ==
    [x \in DOMAIN kvals \cup {k} |-> LET old == IF x \in DOMAIN kvals THEN kvals[x] ELSE <<>>
                                      IN  IF x = k THEN Append(old, v) ELSE old]

\* mutant of Joined: the values stand next to each other
JoinedBare(vs) == FlattenSeq(vs)
\* The keys come in the order of the hash map, which no side relies on
Joined(vs) == FoldLeft(LAMBDA line, v : line \o <<";">> \o v, vs[1], Tail(vs))
Lines(kvals, order) == FlattenSeq([i \in DOMAIN order |-> order[i] \o <<":">> \o Joined(kvals[order[i]]) \o <<NewLine>>])
Header(version, line, kvals, order) == version \o line \o Lines(kvals, order) \o <<"END", NewLine>>
------------------------------------------------------------------------------
\* The parser.  advance_safe() throws on the last character of the buffer, which is
\* caught: the packet is too short.  What is given back to the stream of a refused
\* packet is not modelled: the stream is not read again.
Failed(e) == [error |-> e, next |-> 0]
Passed(i) == [error |-> "SUCCESS", next |-> i]
\* an advance to i, which throws beyond the end
Advanced(s, i) == IF i <= Len(s) THEN Passed(i) ELSE Failed("PACKET_TOO_SHORT")
\* The first index from i on whose character is in S, Len(s) + 1 if there is none
Find(s, i, S) ==
    LET j == SelectInSubSeq(s, i, Len(s), LAMBDA c : c \in S) IN IF j = 0 THEN Len(s) + 1 ELSE j
\* The characters before `end` are read one by one: one that is not in S ends the
\* reading with `bad`, one beyond the limit with `long`, the end of the buffer before either
Scan(s, i, end, S, bad, limit, long) ==
    LET other == {j \in i .. end - 1 : s[j] \notin S \/ j - i >= limit}
    IN  IF other # {} THEN Failed(IF Min(other) - i >= limit THEN long ELSE bad)
        ELSE Advanced(s, end)

_parse_version(s) ==
    LET dot   == Find(s, 2, (Printable \cup {NewLine}) \ Digits)
        after == Find(s, dot + 1, (Printable \cup {NewLine}) \ Digits)
    IN  IF Len(s) < 4 THEN Failed("PACKET_TOO_SHORT")
        ELSE IF s[1] # "MAIP" THEN Failed("INVALID_PROTOCOL")
        ELSE IF dot > 5 THEN Failed("INVALID_IDENTIFICATION_ENDING")
        ELSE IF dot > Len(s) THEN Failed("PACKET_TOO_SHORT")
        ELSE IF dot = 2 \/ s[dot] # "." THEN Failed("INVALID_VERSION_MAJOR")
        ELSE IF dot = Len(s) \/ after > Len(s) THEN Failed("PACKET_TOO_SHORT")
        ELSE IF after = dot + 1 THEN Failed("INVALID_IDENTIFICATION_ENDING")
        ELSE Advanced(s, after + 1)        \* past the space, which is not looked at

_parse_req_identification_line(s, i) ==
    LET space  == Find(s, i, {" "})
        type   == Scan(s, i, space, Alphas \cup Digits, "OP_TYPE_NON_ALPHA", gMaipOpTypeLength, "OP_TYPE_TOO_LONG")
        space2 == Find(s, space + 1, {" "})
        string == Scan(s, space + 1, space2, Printable, "OP_STRING_NON_PRINTABLE", gMaipOpStringLength, "OP_STRING_TOO_LONG")
    IN  IF type.error # "SUCCESS" THEN type
        ELSE IF space = i THEN Failed("MISSING_OP_TYPE")
        ELSE IF space = Len(s) THEN Failed("PACKET_TOO_SHORT")
        ELSE IF string.error # "SUCCESS" THEN string
        ELSE IF space2 = Len(s) THEN Failed("PACKET_TOO_SHORT")
        ELSE IF s[space2 + 1] # NewLine THEN Failed("INVALID_IDENTIFICATION_ENDING")
        ELSE Advanced(s, space2 + 2) @@
             [mOpType |-> SubSeq(s, i, space - 1), mOpString |-> SubSeq(s, space + 1, space2 - 1)]

\* mutant of _parse_resp_identification_line: everything up to the line feed is the code
_parse_resp_unended(s, i) == Advanced(s, Find(s, i, {NewLine}) + 1)
\* The code is read over and kept nowhere
_parse_resp_identification_line(s, i) ==
    LET space == Find(s, i, {" "})
    IN  IF i = Len(s) THEN Failed("PACKET_TOO_SHORT")
        ELSE IF space - i > 4 THEN Failed("INVALID_IDENTIFICATION_ENDING")
        ELSE IF space >= Len(s) THEN Failed("PACKET_TOO_SHORT")
        ELSE IF s[space + 1] # NewLine THEN Failed("INVALID_IDENTIFICATION_ENDING")
        ELSE Advanced(s, space + 2)

\* The values of a line: what stands between the semicolons, nothing left out but empty ones
Pieces(s) ==
    LET step == FoldLeft(LAMBDA r, c : IF c = ";" THEN [done |-> IF r.open = <<>> THEN r.done ELSE Append(r.done, r.open), open |-> <<>>]
                                       ELSE [r EXCEPT !.open = Append(@, c)],
                         [done |-> <<>>, open |-> <<>>], s)
    IN  IF step.open = <<>> THEN step.done ELSE Append(step.done, step.open)
IsInteger(v) == LET d == IF v[1] = "-" THEN Tail(v) ELSE v IN ToSet(d) \subseteq Digits
IsFloat(v) ==
    LET d == IF v[1] = "-" THEN Tail(v) ELSE v
    IN  ToSet(d) \subseteq Digits \cup {"."} /\ ToSet(d) \cap Digits # {} /\ Len(SelectSeq(d, LAMBDA c : c = ".")) <= 1
\* A value of the full length leaves its array without a terminator: its type is read behind the end
Typed(v) ==
    [value |-> v,
     type |-> IF Len(v) = gMaipDescriptionValueLength THEN "unterminated"
              ELSE IF IsInteger(v) THEN "int" ELSE IF IsFloat(v) THEN "float" ELSE "string"]

\* Not modelled: a line's values end after 8192 characters too
_parse_message_description(s, i) ==
    LET stop   == Find(s, i, {":", NewLine})
        end    == Find(s, stop + 1, {NewLine})
        values == Pieces(SubSeq(s, stop + 1, end - 1))
        long   == {j \in stop + 1 .. end - 1 : \E k \in stop .. j - gMaipDescriptionValueLength - 1 :
                                                 \A n \in k + 1 .. j - 1 : s[n] # ";"}
        other  == {j \in stop + 1 .. end - 1 : s[j] \notin Printable}
    IN  IF stop - i >= gMaipDescriptionKeyLength THEN Failed("KEY_LENGTH_TOO_LARGE")
        ELSE IF stop > Len(s) THEN Failed("PACKET_TOO_SHORT")
        ELSE IF s[stop] = NewLine THEN Failed("PACKET_INCOMPLETE")
        ELSE IF stop = i THEN Failed("MISSING_KEY")
        ELSE IF stop = Len(s) THEN Failed("PACKET_TOO_SHORT")
        ELSE IF long # {} /\ \A j \in other : Min(long) <= j THEN Failed("VALUE_LENGTH_TOO_LARGE")
        ELSE IF other # {} THEN Failed("INVALID_KVAL_FORMAT")
        ELSE IF end >= Len(s) THEN Failed("PACKET_TOO_SHORT")
        ELSE Passed(end + 1) @@
             [key |-> SubSeq(s, i, stop - 1), values |-> [n \in DOMAIN values |-> Typed(values[n])]]

\* mutant of _parse_end: the line feed is not awaited
_parse_end_early(s, i) == IF s[i] = "END" THEN Passed(i) ELSE Failed("PACKET_INCOMPLETE")
\* The stream is left on the last character of the header
_parse_end(s, i) ==
    IF Len(s) - i + 1 >= 2 /\ s[i] = "END" /\ s[i + 1] = NewLine THEN Passed(i + 1) ELSE Failed("PACKET_INCOMPLETE")

\* Lines are read until one has no colon or there are as many keys as may be; a key
\* that comes again adds a line to the key
RECURSIVE Described(_, _, _)
Described(s, i, kvals) ==
    LET Taken(line) ==
            IF Cardinality(DOMAIN kvals) = gMaipMaxKvalCount \/ line.error = "PACKET_INCOMPLETE"
            THEN _parse_end(s, i) @@ [kvals |-> kvals]
            ELSE IF line.error # "SUCCESS" THEN line
            ELSE Described(s, line.next, set_kval(kvals, line.key, line.values))
    IN  Taken(_parse_message_description(s, i))

\* Every part begins where the one before it ended
Rest(s, line) == IF line.error # "SUCCESS" THEN line ELSE Described(s, line.next, <<>>) @@ line
Parse(s, identification(_, _)) ==
    LET version == _parse_version(s)
    IN  IF version.error # "SUCCESS" THEN version ELSE Rest(s, identification(s, version.next))
parse_request(s) == Parse(s, _parse_req_identification_line)
parse_result(s) == Parse(s, _parse_resp_identification_line)

\* get_kval<T>() of a single value and of a vector: only values of the type asked for
\* mutant of get_all: only the first value is looked at
get_first(r, k, type) ==
    LET vs == r.kvals[k][1] IN IF vs # <<>> /\ vs[1].type = type THEN <<vs[1]>> ELSE <<>>
get_all(r, k, type) == SelectSeq(FlattenSeq(r.kvals[k]), LAMBDA v : v.type = type)
get_content_length(r) ==
    IF LENGTH \in DOMAIN r.kvals /\ r.kvals[LENGTH][1][1].type = "int" THEN r.kvals[LENGTH][1][1].value ELSE <<"0">>
------------------------------------------------------------------------------
Init ==
    /\ mVersionString = set_version(<<"1">>, <<"0">>)
    /\ mIdentificationLine = <<"1", "0", "0", "0", " ", NewLine>>
    /\ mDescriptionKVals = <<>> /\ payload = <<>>
    /\ identified = [kind |-> "response"] /\ data = <<>>

Building == payload' = <<>> /\ data' = <<>>
SetVersion == \E major, minor \in Versions :
    /\ mVersionString' = set_version(major, minor)
    /\ Building /\ UNCHANGED <<mIdentificationLine, mDescriptionKVals, identified>>
\* A refused message leaves the line of a response that is not four digits
SetRequest == \E type \in Types, string \in Strings :
    /\ mIdentificationLine' = set_request_message(type, string)
    /\ identified' = IF mIdentificationLine' = RefusedLine THEN [kind |-> "refused"]
                     ELSE [kind |-> "request", type |-> type, string |-> string]
    /\ Building /\ UNCHANGED <<mVersionString, mDescriptionKVals>>
SetResponse == \E code \in Codes :
    /\ mIdentificationLine' = set_response_message(code) /\ identified' = [kind |-> "response"]
    /\ Building /\ UNCHANGED <<mVersionString, mDescriptionKVals>>
Stored(ks) == FoldFunctionOnSet(LAMBDA vs, n : Len(vs) + n, 0, mDescriptionKVals, ks \cap DOMAIN mDescriptionKVals)
SetKval == \E k \in Keys, v \in Values :
    /\ Stored(Keys) < MaxValues
    /\ mDescriptionKVals' = set_kval(mDescriptionKVals, k, v)
    /\ Building /\ UNCHANGED <<mVersionString, mIdentificationLine, identified>>
ClearKvals ==
    /\ mDescriptionKVals' = <<>>
    /\ Building /\ UNCHANGED <<mVersionString, mIdentificationLine, identified>>

\* mutant of GeneratePayload: the header is made before the length is set
GeneratePayloadUnmeasured == \E d \in Data :
    /\ Stored({LENGTH}) < MaxValues
    /\ mDescriptionKVals' = IF d = <<>> THEN mDescriptionKVals ELSE set_kval(mDescriptionKVals, LENGTH, <<ToString(Len(d))>>)
    /\ \E order \in SetToSeqs(DOMAIN mDescriptionKVals) :
           payload' = Header(mVersionString, mIdentificationLine, mDescriptionKVals, order) \o d
    /\ data' = d
    /\ UNCHANGED <<mVersionString, mIdentificationLine, identified>>
\* The length is set like any other value, behind that of an earlier payload
GeneratePayload == \E d \in Data :
    /\ Stored({LENGTH}) < MaxValues
    /\ mDescriptionKVals' = IF d = <<>> THEN mDescriptionKVals ELSE set_kval(mDescriptionKVals, LENGTH, <<ToString(Len(d))>>)
    /\ \E order \in SetToSeqs(DOMAIN mDescriptionKVals') :
           payload' = Header(mVersionString, mIdentificationLine, mDescriptionKVals', order) \o d
    /\ data' = d
    /\ UNCHANGED <<mVersionString, mIdentificationLine, identified>>

Next == SetVersion \/ SetRequest \/ SetResponse \/ SetKval \/ ClearKvals \/ GeneratePayload
Spec == Init /\ [][Next]_vars
------------------------------------------------------------------------------
HeaderLength == Len(payload) - Len(data)
\* What the builder does not look at: a key must be named in its length and hold no
\* separator, a value must be printable and in its length, and keys are limited; the parser
\* refuses a value of the full length when another follows
Sound ==
    /\ payload # <<>> /\ Cardinality(DOMAIN mDescriptionKVals) <= gMaipMaxKvalCount
    /\ \A k \in DOMAIN mDescriptionKVals :
          /\ Len(k) \in 1 .. gMaipDescriptionKeyLength - 1 /\ ToSet(k) \cap {":", NewLine} = {}
          /\ \A n \in DOMAIN mDescriptionKVals[k] : LET v == mDescriptionKVals[k][n] IN
                /\ ToSet(v) \subseteq Printable
                /\ Len(v) < gMaipDescriptionValueLength \/ (Len(v) = gMaipDescriptionValueLength /\ n = Len(mDescriptionKVals[k]))
Plain(vs) == \A v \in ToSet(vs) : v # <<>> /\ ";" \notin ToSet(v)

\* Types of the builder's state.
TypeOK ==
    /\ DOMAIN mDescriptionKVals \subseteq Keys \cup {LENGTH} /\ data \in Data
    /\ identified.kind \in {"request", "response", "refused"}

\* A request the builder was given in the format comes back from the parser: its type's
\* letters, its string without spaces, every key with its values in order, and the stream
\* at the end of the header.  A semicolon in a value splits it and an empty value is lost.
RequestComesBack ==
    Sound /\ identified.kind = "request" => \A r \in {parse_request(payload)} :
            /\ r.error = "SUCCESS" /\ r.next = HeaderLength
            /\ r.mOpType = OnlyFrom(identified.type, Alphas)
            /\ r.mOpString = OnlyFrom(identified.string, Printable \ {" "})
            /\ DOMAIN r.kvals = DOMAIN mDescriptionKVals
            /\ \A k \in DOMAIN r.kvals : Plain(mDescriptionKVals[k]) =>
                  [n \in DOMAIN r.kvals[k][1] |-> r.kvals[k][1][n].value] = mDescriptionKVals[k]

\* A request is no response and a response no request: neither parser takes what was
\* built for the other, whatever stands in it.
KindsApart ==
    /\ payload # <<>> /\ identified.kind = "request" => parse_result(payload).error # "SUCCESS"
    /\ payload # <<>> /\ identified.kind = "response" => parse_request(payload).error # "SUCCESS"

\* A packet that has arrived in part is not taken for a whole one, wherever it is cut;
\* a value with a line feed in it may well end the header (the builder lets it through).
PartRefused == Sound => \A n \in 0 .. HeaderLength - 1 :
    /\ parse_request(SubSeq(payload, 1, n)).error # "SUCCESS"
    /\ parse_result(SubSeq(payload, 1, n)).error # "SUCCESS"

\* The length the receiver reads is that of the data behind the header, and 0 without
\* data, unless the builder was used before and not cleared: its old length comes first.
LengthIsData ==
    Sound /\ identified.kind = "request" => \A r \in {parse_request(payload)} :
            \/ get_content_length(r) = <<ToString(Len(data))>>
            \/ LENGTH \in DOMAIN mDescriptionKVals /\ Len(mDescriptionKVals[LENGTH]) > (IF data = <<>> THEN 0 ELSE 1)

\* The three typed lookups of a key (whole number, float, string) together give every
\* value once: what looks like a number is not found as a string.  A value of the full
\* length has no terminator, and its type depends on what lies behind it.
LookupsCover ==
    Sound /\ identified.kind = "request" => \A r \in {parse_request(payload)} : \A k \in DOMAIN r.kvals :
            Len(get_all(r, k, "int")) + Len(get_all(r, k, "float")) + Len(get_all(r, k, "string"))
            = Len(SelectSeq(FlattenSeq(r.kvals[k]), LAMBDA v : v.type # "unterminated"))
====================================================================================
