----------------------------- MODULE GetOutput ------------------------------
(***************************************************************************)
(* What --contents leaves on the disk: GetQuery::execute from the response *)
(* on (src/src/abrade/query.hpp), GetAction (action.hpp), the body filters *)
(* (content_filter.hpp) and the counters of RunStats they touch.           *)
(*                                                                         *)
(* None of this awaits anything, so a response is one step; the order in   *)
(* which the coroutines bring responses is arbitrary.  A candidate is the  *)
(* sequence of its characters, because the file is named after them; a     *)
(* body is what the filters find in it and its size.                       *)
(***************************************************************************)
EXTENDS Integers, Sequences, FiniteSetsExt

CONSTANTS
  Candidates,  \* the targets responses come for, generated or redirected to
  NameChars,   \* the characters file names keep: letters, digits, '.' and '-'
  Bodies,      \* [text : sets of literals and matches, size : Nat]
  Required,    \* --require and --require-regex
  Rejected,    \* --reject, --screen and --reject-regex
  StreamBuffer,\* bodies shorter than this are only in the ofstream's buffer
               \* when file.write returns
  MaxCalls     \* bound: responses per run

VARIABLES
  files,       \* file name -> the pieces in it; <<>> when there is no file
  success,     \* stats.success_count
  nonSuccess,  \* stats.non_success_count
  filtered,    \* stats.filtered_count
  bytesWritten,\* stats.bytes_written_count
  written,     \* history: calls of write_out that returned
  thrown       \* history: calls of process that threw; Scraper counts an error

vars == <<files, success, nonSuccess, filtered, bytesWritten, written, thrown>>

\* regex_replace(candidate, "[^a-zA-Z0-9.-]", "_").
NameUpToQuery(c) == LET q == {i \in DOMAIN c : c[i] = "?"}           \* mutant
                    IN SubSeq(c, 1, IF q = {} THEN Len(c) ELSE Min(q) - 1)
Name(c) == [i \in DOMAIN c |-> IF c[i] \in NameChars THEN c[i] ELSE "_"]

Names == {Name(c) : c \in Candidates}

\* Appended to path_dir these name a directory, which cannot be opened.
Directories == {<<>>, <<".">>, <<".", ".">>}

\* The statuses on either side of each boundary.
Statuses == {199, 200, 299, 300}

\* is_success_status, and record_response, which has a test of its own.
IsSuccessUpTo300(status) == status >= 200 /\ status <= 300          \* mutant
IsSuccess(status) == status >= 200 /\ status < 300
CountsAsSuccess(status) == status >= 200 /\ status < 300

\* ContentFilters::accepts.
Accepts(b) == /\ Required \subseteq b.text
              /\ Rejected \cap b.text = {}

Init ==
  /\ files = [n \in Names |-> <<>>]
  /\ success = 0 /\ nonSuccess = 0 /\ filtered = 0 /\ bytesWritten = 0
  /\ written = 0 /\ thrown = 0

Calls == success + nonSuccess

\* stats.record_response comes before the action sees the response.
Respond(status) ==
  /\ Calls < MaxCalls
  /\ success' = success + (IF CountsAsSuccess(status) THEN 1 ELSE 0)
  /\ nonSuccess' = nonSuccess + (IF CountsAsSuccess(status) THEN 0 ELSE 1)

\* No 2xx response: the body is not even looked at.
Skip(c, b, status) ==
  /\ ~IsSuccess(status)
  /\ Respond(status)
  /\ UNCHANGED <<files, filtered, bytesWritten, written, thrown>>

Filter(c, b, status) ==
  /\ IsSuccess(status)
  /\ ~Accepts(b)
  /\ Respond(status)
  /\ filtered' = filtered + 1
  /\ UNCHANGED <<files, bytesWritten, written, thrown>>

\* process throws before it has touched the disk: a regex filter gives up on the
\* body (boost::regex_search may), or the file cannot be opened.
ProcessThrows(c, b, status) ==
  /\ IsSuccess(status)
  /\ Respond(status)
  /\ thrown' = thrown + 1
  /\ UNCHANGED <<files, filtered, bytesWritten, written>>

\* A body in a file: whose it is, how much of it reached the disk, and whether
\* record_bytes_written counted it.
Piece(c, b, fits, counted) == [of |-> c, body |-> b, bytes |-> fits, counted |-> counted]

\* open truncates.  (Mutant: it appends.)
Appended(n, piece) == Append(files[n], piece)                       \* mutant
Replaced(n, piece) == <<piece>>

\* The bytes that reached the disk: a body as long as the buffer is written at
\* once, and a short write throws; a smaller one is written by ~ofstream, and
\* nobody hears of what goes wrong there.
NeverThrows(b, fits) == FALSE                                       \* mutant
WriteThrows(b, fits) == b.size >= StreamBuffer /\ fits < b.size

\* record_bytes_written is reached unless file.write threw.
CountedBytes(b) == b.size

WriteReturns(b) ==
  /\ bytesWritten' = bytesWritten + CountedBytes(b)
  /\ written' = written + 1
  /\ UNCHANGED thrown

WriteFails ==
  /\ thrown' = thrown + 1
  /\ UNCHANGED <<bytesWritten, written>>

WriteOut(c, b, status, fits) ==
  /\ IsSuccess(status)
  /\ Accepts(b)
  /\ Name(c) \notin Directories
  /\ Respond(status)
  /\ LET throws == WriteThrows(b, fits) IN
     /\ files' = [files EXCEPT ![Name(c)] =
                    Replaced(Name(c), Piece(c, b, fits, ~throws))]
     /\ IF throws THEN WriteFails ELSE WriteReturns(b)
  /\ UNCHANGED filtered

Next ==
  \E c \in Candidates, b \in Bodies, status \in Statuses :
    \/ Skip(c, b, status)
    \/ Filter(c, b, status)
    \/ ProcessThrows(c, b, status)
    \/ \E fits \in 0..b.size : WriteOut(c, b, status, fits)

Spec == Init /\ [][Next]_vars

-----------------------------------------------------------------------------
\* A file holds one body that the filters let through, never the rest of an
\* earlier one behind it.
FileIsOneBody ==
  \A n \in Names : files[n] # <<>> =>
    /\ Len(files[n]) = 1
    /\ Required \subseteq files[n][1].body.text
    /\ Rejected \cap files[n][1].body.text = {}

\* Two targets that differ in the replaced characters alone.
Lookalikes(c, d) ==
  /\ Len(c) = Len(d)
  /\ \A i \in DOMAIN c : c[i] # d[i] => {c[i], d[i]} \cap NameChars = {}

\* A file is written again only for the same candidate, or one that differs
\* from it in the replaced characters alone.
ReplacedByLookalikes ==
  [][\A n \in Names : files[n] # <<>> /\ files'[n] # files[n] =>
       Lookalikes(files[n][1].of, files'[n][1].of)]_vars

\* run_stats.hpp: the bytes recorded are "actually written to disk".
BytesAreOnDisk ==
  \A n \in Names : \A i \in DOMAIN files[n] : LET piece == files[n][i] IN
    piece.counted => piece.bytes = CountedBytes(piece.body)
=============================================================================
