------------------------------- MODULE Search -------------------------------
(***************************************************************************)
(* Full-text search over messages, attachments and file operations         *)
(* (fts.rs).  An index is the sequence of the rows it was built from, so   *)
(* what is not indexed yet is not found.                                   *)
(*                                                                         *)
(* The user's words are quoted as one phrase, whatever they are: a text    *)
(* matches when it holds the phrase's tokens one after the other.  bm25 is *)
(* abstracted to the number of times it does: more is better.  A snippet   *)
(* is the text it is cut from.                                             *)
(***************************************************************************)
EXTENDS Query

Separators == {" ", "/", "&", "=", "%", "+", "_", ".", ";", "-"}

Tokens(text) == Select(text, LAMBDA c : c \notin Separators)

\* A phrase of no token matches nothing.
Occurrences(text, query) ==
    LET words  == Tokens(text)
        phrase == Tokens(query)
    IN  IF phrase = <<>> THEN {}
        ELSE {i \in 1 .. Len(words) - Len(phrase) + 1 :
                 SubSeq(words, i, i + Len(phrase) - 1) = phrase}

SearchResult(id, session, type, timestamp, block, text, rank, source) ==
    [message_uuid |-> id, session_id |-> session, message_type |-> type,
     timestamp |-> timestamp, block_type |-> block, snippet |-> text, rank |-> rank,
     source |-> source]

Message        == <<"message">>
Attachment(of) == <<"attachment", of>>

--------------------------------------------------------------------------
(* The indexes, as their rebuilds leave them.                              *)

rebuild_fts_index(db) == [db EXCEPT !.fts_message_content = db.message_content]

rebuild_fts_file_operations(db) == [db EXCEPT !.fts_file_operations = db.file_operations]

\* Only four kinds of attachment have text; mcp_instructions_delta has one
\* document per block, the others one each, and an empty text is no document.
AttachmentTexts(t) ==
    IF t.inner_type \in {Word("mcp_instructions_delta"), Word("skill_listing"),
                         Word("edited_text_file"), Word("nested_memory")}
    THEN Select(t.texts, LAMBDA text : Len(text) > 0)
    ELSE <<>>

\* The bug indexes one text of an attachment.
IndexFirstText(db) ==
    [db EXCEPT !.fts_attachment_text_content =
        FlattenSeq(Each(db.attachments, LAMBDA t :
            Each(First(AttachmentTexts(t)), LAMBDA text :
                [attachment_uuid |-> t.uuid, session_id |-> t.session_id,
                 inner_type |-> t.inner_type, text_content |-> text])))]

rebuild_fts_attachment_text_content(db) ==
    [db EXCEPT !.fts_attachment_text_content =
        FlattenSeq(Each(db.attachments, LAMBDA t :
            Each(AttachmentTexts(t), LAMBDA text :
                [attachment_uuid |-> t.uuid, session_id |-> t.session_id,
                 inner_type |-> t.inner_type, text_content |-> text])))]

--------------------------------------------------------------------------
(* The searches.                                                           *)

BestFirst(hits, limit, offset) == Limited(MostFirst(hits, "rank"), limit, offset)

MessageHits(db, query, blocks(_)) ==
    LET indexed == Select(db.fts_message_content, LAMBDA b :
                       /\ Holds(b.text_content, LAMBDA t : Occurrences(t, query) # {})
                       /\ blocks(b))
    IN  FlattenSeq(Each(indexed, LAMBDA b :
            Each(First(Where(db.messages, "uuid", b.message_uuid)), LAMBDA m :
                SearchResult(m.uuid, m.session_id, m.type, m.timestamp, Word(b.block_type),
                             b.text_content[1],
                             Cardinality(Occurrences(b.text_content[1], query)), Message))))

search_messages(db, query, limit, offset) ==
    BestFirst(MessageHits(db, query, LAMBDA b : TRUE), limit, offset)

search_plans(db, query, limit, offset) ==
    BestFirst(MessageHits(db, query, LAMBDA b : b.block_type = "plan_content"), limit, offset)

search_attachment_text_content(db, query, limit, offset) ==
    LET indexed == Select(db.fts_attachment_text_content, LAMBDA f :
                       Occurrences(f.text_content, query) # {})
        TimeOf(f) == LET t == First(Where(db.attachments, "uuid", f.attachment_uuid))
                     IN  IF t = None THEN <<>> ELSE t[1].timestamp
    IN  BestFirst(Each(indexed, LAMBDA f :
            SearchResult(f.attachment_uuid, f.session_id, Word("attachment"), TimeOf(f),
                         f.inner_type, f.text_content,
                         Cardinality(Occurrences(f.text_content, query)),
                         Attachment(f.inner_type))), limit, offset)

\* The bug takes only the page's length from each side.
PooledByLimit(db, query, limit, offset) ==
    Limited(MostFirst(search_messages(db, query, limit, 0)
                          \o search_attachment_text_content(db, query, limit, 0), "rank"),
            limit, offset)

search_messages_and_attachments(db, query, limit, offset) ==
    LET pool == limit + offset
    IN  Limited(MostFirst(search_messages(db, query, pool, 0)
                              \o search_attachment_text_content(db, query, pool, 0), "rank"),
                limit, offset)

\* Where an operation holds the phrase.
FoundIn(o, query) ==
    UNION {IF o[c] = None THEN {} ELSE {c} \X Occurrences(o[c][1], query) :
           c \in {"content", "old_content", "command"}}

\* A row of the result.  Whichever column holds the phrase, the snippet is cut
\* from content, and is NULL where that is.
FileOperationRow(o, query) ==
    With(Columns(o, {"id", "session_id", "file_path", "operation_type", "timestamp"}),
         [snippet |-> o.content, rank |-> Cardinality(FoundIn(o, query))])

FileOperationSearchResult(row) == [row EXCEPT !.snippet = @[1]]

OperationHits(db, query) ==
    Each(Select(db.fts_file_operations, LAMBDA o : FoundIn(o, query) # {}),
         LAMBDA o : FileOperationRow(o, query))

\* A snippet is read as a String: one NULL on the page, and the search fails.
search_file_operations(db, query, limit, offset) ==
    LET page == BestFirst(OperationHits(db, query), limit, offset)
    IN  IF \E i \in DOMAIN page : page[i].snippet = None THEN Err("InvalidColumnType")
        ELSE Ok(Each(page, LAMBDA row : FileOperationSearchResult(row)))
=============================================================================
