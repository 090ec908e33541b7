------------------------------- MODULE Export -------------------------------
(***************************************************************************)
(* The export of a session as JSON, Markdown or CSV (export.rs), written   *)
(* from batches of its messages.  A written file is a sequence of lines.   *)
(***************************************************************************)
EXTENDS Query

CONSTANTS
    BATCH_SIZE,   \* messages read at a time
    PreviewLen    \* the characters of a tool's input or a preview

ASSUME BatchAssumption == BATCH_SIZE \in Nat \ {0} /\ PreviewLen \in Nat

\* The session must be there, not its messages.
load_session_metadata(db, s) == SessionOf(db, s)

\* Each batch begins where the last one ended; a short one is the last.
load_all_messages(db, s) ==
    LET from[offset \in 0 .. Len(db.messages) + 1] ==
            LET batch == session_messages_for_export(db, s, BATCH_SIZE, offset)
            IN  IF batch = <<>> THEN <<>>
                ELSE batch \o (IF Len(batch) < BATCH_SIZE THEN <<>> ELSE from[offset + Len(batch)])
    IN  from[0]

Truncated(text, most) == IF Len(text) <= most THEN text ELSE SubSeq(text, 1, most)

first_text_content(blocks, most) ==
    LET texts == Select(blocks, LAMBDA b :
                     b.block_type \in {"text", "thinking"} /\ b.text_content # None)
    IN  IF texts = <<>> THEN <<>> ELSE Truncated(texts[1].text_content[1], most)

write_markdown_block(b) ==
    IF b.block_type = "tool_use"
    THEN <<<<"tool_use", Coalesce(b.tool_name, Unknown)>>>>
             \o Each(b.tool_input, LAMBDA t : <<"input", Truncated(t, PreviewLen)>>)
    ELSE Each(b.text_content, LAMBDA t :
        CASE b.block_type \in {"text", "thinking"} -> <<"text", t>>
          [] b.block_type = "tool_result" -> <<"result", Truncated(t, PreviewLen), Len(t) > PreviewLen>>
          [] OTHER -> <<b.block_type, t>>)

export_json(db, s) ==
    Each(load_session_metadata(db, s), LAMBDA r :
        [session_id |-> r.session_id, project_path |-> r.project_path,
         messages |-> load_all_messages(db, s)])

export_markdown(db, s) ==
    LET messages == load_all_messages(db, s)
        Heading(m) == <<"message", m.type, m.timestamp>>
    IN  Each(load_session_metadata(db, s), LAMBDA r :
            <<<<"session", s>>>> \o Each(r.project_path, LAMBDA p : <<"project", p>>)
            \o (IF messages = <<>> THEN <<<<"no messages">>>>
                ELSE <<<<"date", messages[1].timestamp>>>>)
            \o FlattenSeq(Each(messages, LAMBDA m :
                   <<Heading(m)>> \o FlattenSeq(Each(m.content_blocks, write_markdown_block)))))

\* No metadata is read: a session that is not there has no rows.
export_csv(db, s) ==
    Some(<<<<"header">>>> \o Each(load_all_messages(db, s), LAMBDA m :
        <<m.uuid, m.session_id, m.type, m.timestamp, Coalesce(m.model, <<>>),
          first_text_content(m.content_blocks, PreviewLen),
          IF m.token_usage = None THEN None ELSE m.token_usage[1].input_tokens,
          IF m.token_usage = None THEN None ELSE m.token_usage[1].output_tokens>>))

Exported(db, s, format) ==
    CASE format = Word("json") -> export_json(db, s)
      [] format = Word("markdown") -> export_markdown(db, s)
      [] format = Word("csv") -> export_csv(db, s)
=============================================================================
