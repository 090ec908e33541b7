------------------------------ MODULE Bookmarks ------------------------------
(***************************************************************************)
(* Bookmarks, read from the database of another program (bookmarks.rs):    *)
(* chb is None while that database is not there, or the rows of its join   *)
(* of bookmarks and projects.                                              *)
(***************************************************************************)
EXTENDS Query

\* NSDate's epoch, in seconds since Unix's.
NSDATE_TO_UNIX == 978307200

nsdate_to_iso8601(seconds) == seconds + NSDATE_TO_UNIX

\* Tags that are not a JSON list of texts are no tags.
parse_tags(json) == IF json = None THEN <<>> ELSE json[1].list

BookmarkResult(row) ==
    With(Columns(row, {"id", "assistant_uuid", "session_id", "label", "project_name", "project_path"}),
         [tags |-> parse_tags(row.tags), created_at |-> nsdate_to_iso8601(row.created_at)])

\* ZENCODEDDIRNAME is compared whole, ZDECODEDPATH in part.
InProject(row, p) == Like(row.project_path, p, TRUE) \/ row.encoded_dir = p

Newest(rows, limit) ==
    Each(Limited(Ordered(rows, LAMBDA b, c : b.created_at > c.created_at), limit, 0), BookmarkResult)

\* Opening the other program's database, read only.
Opened(chb, Answer(_)) ==
    IF chb = None THEN Err("chb") ELSE Ok(Answer(chb[1]))

list_bookmarks(chb, a, limit) ==
    Opened(chb, LAMBDA rows :
        Newest(Select(rows, LAMBDA b : If(a, "project", LAMBDA p : InProject(b, p))), limit))

\* The tags are searched as the JSON text they are stored as.
search_bookmarks(chb, query, a, limit) ==
    Opened(chb, LAMBDA rows :
        Newest(Select(rows, LAMBDA b :
                   /\ \/ Like(b.label, query, TRUE)
                      \/ Holds(b.tags, LAMBDA t : Like(t.text, query, TRUE))
                   /\ If(a, "project", LAMBDA p : InProject(b, p))), limit))

get_bookmark(chb, a) ==
    IF {"id", "assistant_uuid"} \cap DOMAIN a = {} THEN Err("arguments")
    ELSE Opened(chb, LAMBDA rows :
        Each(First(Select(rows, LAMBDA b :
                 /\ If(a, "id", LAMBDA v : b.id = v)
                 /\ If(a, "assistant_uuid", LAMBDA v : b.assistant_uuid = v)
                 /\ If(a, "project", LAMBDA p : InProject(b, p)))), BookmarkResult))
=============================================================================
