------------------------------ MODULE Registry ------------------------------
(***************************************************************************)
(* SQL that a user wrote: the statements of POST /v1/sql (sql_passthrough) *)
(* and the named queries of a directory (query_registry), whose            *)
(* parameters :name are rewritten to positions ?N before they run.         *)
(*                                                                         *)
(* A statement is a sequence of characters in which a keyword, and a run   *)
(* of letters, may be one.  Keywords are written in capitals, as the code  *)
(* compares them.                                                          *)
(***************************************************************************)
EXTENDS Query

CONSTANTS
    NameStart,  \* the characters a parameter's name may begin with
    NameRest,   \* the characters a name, or a longer word, may go on with
    IntegerTexts, \* the texts that parse as an i64
    RealTexts   \* the texts that parse as a finite f64

ASSUME NameAssumption ==
    /\ NameStart \subseteq NameRest
    /\ {":", "'", "?", ";", " "} \cap NameRest = {}

--------------------------------------------------------------------------
(* Statements: sql_passthrough.rs.                                         *)

FORBIDDEN_KEYWORDS == {"INSERT", "UPDATE", "DELETE", "DROP", "ALTER", "CREATE", "ATTACH",
                       "DETACH", "PRAGMA", "VACUUM", "REINDEX"}

Trim(sql) ==
    LET solid == {i \in DOMAIN sql : sql[i] # " "}
    IN  IF solid = {} THEN <<>> ELSE SubSeq(sql, Min(solid), Max(solid))

\* split_whitespace().next() of a trimmed text.
FirstWord(sql) == IF sql = <<>> THEN <<>> ELSE Split(sql, " ")[1]

contains_keyword_at_word_boundary(sql, keyword) ==
    \E i \in DOMAIN sql :
        /\ sql[i] = keyword
        /\ i > 1 => sql[i - 1] \notin NameRest
        /\ i < Len(sql) => sql[i + 1] \notin NameRest

\* EXPLAIN may be written several times; what follows must be a query.
AfterExplain(sql) ==
    LET rest == {i \in DOMAIN sql : sql[i] # "EXPLAIN"}
    IN  IF rest = {} THEN <<>> ELSE Trim(SubSeq(sql, Min(rest), Len(sql)))

ReadsOnly(stmt) ==
    \/ FirstWord(stmt) = Word("SELECT")
    \/ /\ FirstWord(stmt) = Word("WITH")
       /\ contains_keyword_at_word_boundary(stmt, "SELECT")
    \/ /\ FirstWord(stmt) = Word("EXPLAIN")
       /\ FirstWord(AfterExplain(stmt)) \in {Word("SELECT"), Word("WITH")}

\* One statement: nothing but blanks after the first semicolon.
validate_sql(sql) ==
    LET trimmed == Trim(sql)
        semis == {i \in DOMAIN trimmed : trimmed[i] = ";"}
        stmt  == IF semis = {} THEN trimmed ELSE Trim(SubSeq(trimmed, 1, Min(semis) - 1))
    IN  /\ semis # {} => Trim(SubSeq(trimmed, Min(semis) + 1, Len(trimmed))) = <<>>
        /\ stmt # <<>> /\ ReadsOnly(stmt)
        /\ \A k \in FORBIDDEN_KEYWORDS : ~contains_keyword_at_word_boundary(stmt, k)

\* A value of a JSON parameter: <<"null">>, <<"text", t>>, <<"number", n>>,
\* <<"bool", b>>, <<"array">> or <<"object">>.  A number keeps the text it was
\* read from.
json_value_to_sql(v) ==
    CASE v[1] \in {"null", "text", "number"} -> Ok(v)
      [] v[1] = "bool" -> Ok(<<"number", Word(IF v[2] THEN "1" ELSE "0")>>)
      [] OTHER -> Err("param_type")

json_params_to_sql(params) ==
    LET bound == Each(params, json_value_to_sql)
    IN  IF \E i \in DOMAIN bound : ~bound[i].ok THEN Err("param_type")
        ELSE Ok(Each(bound, LAMBDA b : b.value))

\* What SQLite makes of a statement: the statement with its positions bound,
\* evaluated on the messages there are.
execute_query(db, sql, values) ==
    Ok([statement |-> sql, values |-> values, rows |-> Len(db.messages)])

\* The progress handler interrupts a statement that runs for five seconds.
execute_sql(db, sql, params, tooSlow) ==
    LET bound == json_params_to_sql(params)
    IN  IF ~validate_sql(sql) THEN Err("validation")
        ELSE IF ~bound.ok THEN bound
        ELSE IF tooSlow THEN Err("timeout")
        ELSE execute_query(db, sql, bound.value)

--------------------------------------------------------------------------
(* Named parameters: query_registry.rs.                                    *)

\* Inside a literal: after an odd number of quotes.  A quote that is doubled
\* inside a literal closes and opens it.
Quoted(sql, i) == Cardinality({j \in 1 .. i - 1 : sql[j] = "'"}) % 2 = 1

Named(sql, i) == sql[i] = ":" /\ i < Len(sql) /\ sql[i + 1] \in NameStart

Placeholder(sql, i) == Named(sql, i) /\ ~Quoted(sql, i)

\* The first place after the name that begins at i.
NameEnd(sql, i) == Min({j \in i .. Len(sql) + 1 : j > Len(sql) \/ sql[j] \notin NameRest})

NameAt(sql, i) == SubSeq(sql, i + 1, NameEnd(sql, i + 1) - 1)

\* Where a statement goes on after what begins at i.
After(sql, i) == IF Placeholder(sql, i) THEN NameEnd(sql, i + 1) ELSE i + 1

FirstUses(sql, places) ==
    LET names == [k \in DOMAIN places |-> NameAt(sql, places[k])]
    IN  Distinct(names)

\* The bug takes a time such as '12:30' inside a literal for a parameter.
ParamsInLiteralsToo(sql) ==
    FirstUses(sql, Places(sql, LAMBDA i : Named(sql, i)))

extract_named_params(sql) ==
    FirstUses(sql, Places(sql, LAMBDA i : Placeholder(sql, i)))

ParamDef(name, default, type) == [name |-> name, default |-> default, type |-> type]

CannedQuery(name, sql, description, params) ==
    [name |-> name, sql |-> sql, description |-> description, params |-> params]

\* A directory gives for a name its .sql text and, it may be, its .toml: whether
\* it parses, and its description and parameters.
load_queries(dir) ==
    IF dir = None THEN Ok(<<>>)
    ELSE IF \E n \in DOMAIN dir[1] : dir[1][n].toml # None /\ ~dir[1][n].toml[1].parses
         THEN Err("toml")
    ELSE Ok([n \in DOMAIN dir[1] |->
            LET file == dir[1][n]
            IN  IF file.toml = None
                THEN CannedQuery(n, file.sql, None,
                                 Each(extract_named_params(file.sql),
                                      LAMBDA p : ParamDef(p, None, "text")))
                ELSE CannedQuery(n, file.sql, file.toml[1].description, file.toml[1].params)])

\* Of two definitions of one name the later counts.
DefOf(query, name) ==
    LET defs == Where(query.params, "name", name)
    IN  IF defs = <<>> THEN None ELSE Some(Last(defs))

ValueOf(query, given, name) ==
    LET def  == DefOf(query, name)
        text == IF name \in DOMAIN given THEN Some(given[name])
                ELSE IF def = None THEN None ELSE def[1].default
        type == IF def = None THEN "text" ELSE def[1].type
    IN  CASE text = None -> Err("missing")
          [] text # None /\ type = "text" -> Ok(<<"text", text[1]>>)
          [] text # None /\ type = "integer" ->
                IF text[1] \in IntegerTexts THEN Ok(<<"number", text[1]>>) ELSE Err("param")
          [] OTHER -> IF text[1] \in RealTexts THEN Ok(<<"number", text[1]>>) ELSE Err("param")

PositionOf(names, name) == CHOOSE k \in DOMAIN names : names[k] = name

\* Each placeholder becomes the number of its name.
Rewritten(sql, names) ==
    Spelled([i \in DOMAIN sql |->
                IF ~Placeholder(sql, i) THEN <<sql[i]>>
                ELSE IF NameAt(sql, i) \in Range(names)
                     THEN <<"?">> \o Numeral(PositionOf(names, NameAt(sql, i)))
                ELSE <<":">> \o NameAt(sql, i)],
            [i \in DOMAIN sql |-> After(sql, i)])

\* The first parameter that has no value is reported.
prepare_sql(query, given) ==
    LET names  == extract_named_params(query.sql)
        values == Each(names, LAMBDA n : ValueOf(query, given, n))
        bad    == {k \in DOMAIN values : ~values[k].ok}
    IN  IF bad # {} THEN values[Min(bad)]
        ELSE Ok([sql |-> Rewritten(query.sql, names), values |-> Each(values, LAMBDA v : v.value)])
=============================================================================
