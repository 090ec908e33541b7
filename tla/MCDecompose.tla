----------------------------- MODULE MCDecompose -----------------------------
(***************************************************************************)
(* A corpus for Decompose: a session, and a second file that was forked    *)
(* from it (Claude Code copies records into the new file with their uuids, *)
(* under the new session and with a forkedFrom field) and that begins with *)
(* an attachment of an unknown body, without a version.                    *)
(***************************************************************************)
EXTENDS Decompose

NoValue == "none"

Base(type, uuid, session, cwd) ==
  [type |-> type, uuid |-> uuid, session |-> session, cwd |-> cwd,
   agent |-> NoValue, version |-> "v1", overflow |-> {}]

User(uuid, session, content) ==
  [Base("user", uuid, session, "proj") EXCEPT !.overflow = {"planContent"}]
    @@ [content |-> content, plan |-> TRUE]

Assistant(uuid, session, cwd, overflow, content) ==
  [Base("assistant", uuid, session, cwd) EXCEPT !.agent = "agent", !.overflow = overflow]
    @@ [content |-> content, usage |-> TRUE, inner |-> {"container"}, metered |-> {"iterations"}]

Attachment(uuid, session, body, tool, version) ==
  [type |-> "attachment", uuid |-> uuid, session |-> session, cwd |-> "proj",
   version |-> version, overflow |-> {"field"}, body |-> body, tool |-> tool,
   inner |-> {}]

Use(tool, name, path, git, files) ==
  [type |-> "tool_use", tool |-> tool, name |-> name, path |-> path,
   git |-> git, files |-> files]
ResultOf(tool) == [type |-> "tool_result", tool |-> tool]

WriteUse == Use("t1", "Write", "src", <<>>, <<>>)
BashUse ==
  Use("t3", "Bash", NoValue, <<"commit">>,
      <<[cmd |-> "rm", paths |-> <<"src">>], [cmd |-> "touch", paths |-> <<>>]>>)

(* A tool use that is stored and not extracted: decompose_record does that *)
(* for assistant records only. Data of before migration 003 is like it.    *)
LateRead == Use("t2", "Read", "src", <<>>, <<>>)

Chat ==
  <<Assistant("a1", "chat", "proj", {}, <<WriteUse, BashUse>>),
    User("u2", "chat", <<ResultOf("t1"), LateRead>>),
    Attachment("h1", "chat", "hook", NoValue, NoValue),
    Base("system", "s1", "chat", "proj")>>

Fork ==
  <<Attachment("h2", "fork", "unknown", NoValue, NoValue),
    Assistant("a1", "fork", "sub", {"forkedFrom"}, <<WriteUse, BashUse>>),
    [type |-> "summary", leaf |-> "u1", overflow |-> {"field"}]>>

MCFile == {"chat", "fork"}
MCLines == [f \in MCFile |-> IF f = "chat" THEN Chat ELSE Fork]
=============================================================================
