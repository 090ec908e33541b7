------------------------------- MODULE Wire -------------------------------
(***************************************************************************)
(* The request line between the command line's client and the daemon.      *)
(*                                                                         *)
(* A text (a path, an id, a search phrase) is a sequence of characters; a  *)
(* character may be a whole run of letters, since only the characters that *)
(* the line itself uses matter: Hex gives each of them its escape.  A      *)
(* number or a flag is written as its numeral, and read back or refused.   *)
(***************************************************************************)
EXTENDS Naturals, Sequences, SequencesExt, Lists

CONSTANTS
    Hex,        \* the escape of each character that is not unreserved
    MaxNumber   \* the numerals of the model are 0 .. MaxNumber

Reserved == DOMAIN Hex

ASSUME HexAssumption ==
    /\ {"/", "&", "=", "%", "+", " "} \subseteq Reserved
    /\ \A c, d \in Reserved : Hex[c] = Hex[d] => c = d
    /\ \A c \in Reserved : Hex[c] \notin Reserved

ASSUME NumberAssumption == MaxNumber \in Nat

\* A numeral is one number's, and is no quote; a flag is written as its own.
ASSUME NumeralAssumption ==
    /\ \A m, n \in 0 .. MaxNumber : (ToString(m) = ToString(n) => m = n) /\ ToString(m) # "'"
    /\ ToString(TRUE) # ToString(FALSE)

Numeric == {"limit", "offset", "exit_code"}
Flag    == {"has_plan", "include_thinking", "include_tool_io", "diff"}

Some(x) == <<x>>
None    == <<>>

Ok(x)     == [ok |-> TRUE, value |-> x]
Err(kind) == [ok |-> FALSE, error |-> kind]

--------------------------------------------------------------------------
(* Sequences of characters.                                                *)

Join(parts, sep) ==
    IF parts = <<>> THEN <<>>
    ELSE Tail(FlattenSeq([i \in DOMAIN parts |-> <<sep>> \o parts[i]]))

\* The places of a text at which P holds, from the left.
Places(text, P(_)) == Select([i \in DOMAIN text |-> i], P)

Split(text, sep) ==
    LET at == <<0>> \o Places(text, LAMBDA i : text[i] = sep) \o <<Len(text) + 1>>
    IN  [k \in 1 .. Len(at) - 1 |-> SubSeq(text, at[k] + 1, at[k + 1] - 1)]

--------------------------------------------------------------------------
(* The client's side: format! of a number or a flag, urlencoded of a text, *)
(* and the joining of the parameters that were given.                      *)

Numeral(n) == <<ToString(n)>>

Shown(name, v) ==
    IF name \in Numeric \cup Flag THEN Numeral(v) ELSE v

\* A character of another kind than letters, digits and "-._~" becomes an
\* escape.  The bug keeps the separator as it is.
UrlencodedButAmpersand(text) ==
    FlattenSeq([i \in DOMAIN text |->
        IF text[i] \in Reserved \ {"&"} THEN <<"%", Hex[text[i]]>> ELSE <<text[i]>>])

urlencoded(text) ==
    FlattenSeq([i \in DOMAIN text |->
        IF text[i] \in Reserved THEN <<"%", Hex[text[i]]>> ELSE <<text[i]>>])

\* The parameters in the order in which the methods push them.
Pushed == <<"q", "project", "group_by", "session_id", "path", "inner_type", "tool_use_id",
            "hook_event", "exit_code", "operation_type", "record_type", "type_name", "version",
            "since", "after", "before", "has_plan", "format", "diff", "at", "limit", "offset">>

QueryString(params) ==
    LET names == Select(Pushed, LAMBDA n : n \in DOMAIN params)
    IN  Join([i \in DOMAIN names |->
                 <<names[i], "=">> \o urlencoded(Shown(names[i], params[names[i]]))], "&")

\* A segment of a path is a fixed word or an id.
Target(segments) == Join([i \in DOMAIN segments |-> urlencoded(segments[i])], "/")

Word(w) == <<w>>

\* request: one connection, one request.  A body is the JSON object of the
\* members that are not null.
Get(segments, params) ==
    [method |-> "GET", target |-> Target(segments), query |-> QueryString(params), body |-> <<>>]

Post(segments, members) ==
    [method |-> "POST", target |-> Target(segments), query |-> <<>>, body |-> Some(members)]

--------------------------------------------------------------------------
(* The daemon's side, as the axum extractors Path and Query do it.         *)

Unhex(h) == CHOOSE c \in Reserved : Hex[c] = h

PercentDecoded(text, plusIsSpace) ==
    LET escape(i) == text[i] = "%" /\ i < Len(text)
    IN  Spelled([i \in DOMAIN text |->
                    IF escape(i) THEN <<Unhex(text[i + 1])>>
                    ELSE <<IF plusIsSpace /\ text[i] = "+" THEN " " ELSE text[i]>>],
                [i \in DOMAIN text |-> IF escape(i) THEN i + 2 ELSE i + 1])

\* The pairs of a query string, as texts.
Pairs(query) ==
    LET fields == IF query = <<>> THEN <<>> ELSE Split(query, "&")
        NameOf(f) == IF f = <<>> THEN "" ELSE Head(f)
        TextOf(f) == IF Len(f) < 2 THEN <<>> ELSE PercentDecoded(SubSeq(f, 3, Len(f)), TRUE)
    IN  [n \in {NameOf(fields[i]) : i \in DOMAIN fields} |->
            TextOf(Select(fields, LAMBDA f : NameOf(f) = n)[1])]

Values(name) ==
    IF name \in Numeric THEN 0 .. MaxNumber
    ELSE IF name \in Flag THEN BOOLEAN
    ELSE {}

Readable(name, text) == name \in Numeric \cup Flag => \E v \in Values(name) : Numeral(v) = text

Read(name, text) ==
    IF name \in Numeric \cup Flag
    THEN CHOOSE v \in Values(name) : Numeral(v) = text
    ELSE text

\* Query<Params>: the fields of the struct that are there; a field that is
\* not in the struct is ignored, one that cannot be read refuses the request.
Refused(query, fields) ==
    LET given == Pairs(query)
    IN  \E n \in DOMAIN given \cap fields : ~Readable(n, given[n])

Extracted(query, fields) ==
    LET given == Pairs(query)
    IN  [n \in DOMAIN given \cap fields |-> Read(n, given[n])]

\* A path segment stands for the pattern's word, or, in its hole, for an id,
\* which is not empty and is decoded.
Hole == "{}"

Matches(pattern, segments) ==
    /\ Len(pattern) = Len(segments)
    /\ \A i \in DOMAIN pattern :
          IF pattern[i] = Hole THEN segments[i] # <<>> ELSE segments[i] = <<pattern[i]>>

Ids(pattern, segments) ==
    LET holes == Places(pattern, LAMBDA i : pattern[i] = Hole)
    IN  [k \in DOMAIN holes |-> PercentDecoded(segments[holes[k]], FALSE)]
=============================================================================
