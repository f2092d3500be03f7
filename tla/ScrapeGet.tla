------------------------------ MODULE ScrapeGet ------------------------------
(***************************************************************************)
(* A scrape with --contents: the pool of Scraper, whose coroutines bring   *)
(* their responses to GetOutput.  What the pool counts and logs and what   *)
(* is on the disk in the end are in one state.                             *)
(***************************************************************************)
EXTENDS Scraper, Sequences

CONSTANTS
  Targets,  \* the texts of URIs, generated and redirected to
  Text,     \* the text of each candidate
  NameChars, Bodies, Required, Rejected, StreamBuffer, MaxCalls

ASSUME OutputAssumption ==
  /\ Targets # {} /\ Targets \subseteq Seq(STRING)
  /\ Text \in [1 .. N -> Targets]
  /\ "_" \notin NameChars
  /\ StreamBuffer \in Nat /\ MaxCalls \in Nat
  /\ \A b \in Bodies : b.size \in Nat

VARIABLES
  uri,      \* current.uri of each coroutine, which redirects replace
  files, filtered, bytesWritten, written,
  kept      \* history: candidate and URI of each body that write_out was given,
            \* or that process threw at

G == INSTANCE GetOutput WITH
       Candidates <- Targets,
       success <- stats.success, nonSuccess <- stats.non_success,
       thrown <- Cardinality({u \in Candidates : outcome[u] = "unstored"})

store == <<files, filtered, bytesWritten, written, kept>>
getVars == <<vars, uri, store>>

GetInit ==
  /\ Init
  /\ uri = [c \in Coros |-> CHOOSE t \in Targets : TRUE]
  /\ G!Init
  /\ kept = {}

\* make_candidate and `current', on the way into coroutine.
GetTake(c) ==
  /\ Take(c)
  /\ uri' = [uri EXCEPT ![c] = Text[taken + 1]]
  /\ UNCHANGED store

\* The query gives the response to the statistics and to the action; whether it
\* is answered, unstored or redirected onward depends on what these make of it.
GetRespond(c, b, status) ==
  /\ Respond(c, G!CountsAsSuccess(status))
  /\ \/ G!Skip(uri[c], b, status) /\ UNCHANGED kept
     \/ G!Filter(uri[c], b, status) /\ UNCHANGED kept
     \/ \E fits \in 0 .. b.size : /\ ~G!WriteThrows(b, fits)
                                  /\ G!WriteOut(uri[c], b, status, fits)
                                  /\ kept' = kept \cup {<<candidate[c], uri[c]>>}
  /\ UNCHANGED uri

GetFailToStore(c, b, status) ==
  /\ FailToStore(c)
  /\ \/ G!ProcessThrows(uri[c], b, status)
     \/ \E fits \in 0 .. b.size : /\ G!WriteThrows(b, fits)
                                  /\ G!WriteOut(uri[c], b, status, fits)
  /\ kept' = kept \cup {<<candidate[c], uri[c]>>}
  /\ UNCHANGED uri

\* A 3xx answer is skipped by the action; *redirect replaces current.uri, but
\* not *uri, which the error log would name.
GetRedirect(c, b, status) ==
  /\ Redirect(c)
  /\ G!Skip(uri[c], b, status)
  /\ \E t \in Targets : uri' = [uri EXCEPT ![c] = t]
  /\ UNCHANGED kept

\* What does not touch the output.
GetOther(c) ==
  /\ \/ Exhaust(c) \/ Attempt(c) \/ LoseTimer(c) \/ Connected(c) \/ Fail(c)
     \/ Discarded(c) \/ TornDown(c) \/ Record(c) \/ RecordThrows(c) \/ (\E r \in 1 .. Cap : Complete(c, r))
  /\ UNCHANGED <<uri, store>>

GetNext ==
  \/ \E c \in Coros :
       \/ GetTake(c) \/ GetOther(c)
       \/ \E b \in Bodies, status \in G!Statuses :
            GetRespond(c, b, status) \/ GetFailToStore(c, b, status) \/ GetRedirect(c, b, status)
  \/ (Start \/ Feed \/ CloseInput) /\ UNCHANGED <<uri, store>>

GetSpec == GetInit /\ [][GetNext]_getVars

-----------------------------------------------------------------------------
\* GetOutput's properties, with the responses in the order in which a pool
\* brings them.
FileIsOneBody == G!FileIsOneBody
ReplacedByLookalikes == G!ReplacedByLookalikes
BytesAreOnDisk == G!BytesAreOnDisk

\* Query, action and pool count separately, the last in its catch block: when
\* the program returns, the 2xx responses of its summary are the bodies
\* filtered, the bodies written and errors that the log names.
SummaryAgrees ==
  Returned =>
    stats.success = filtered + written + Cardinality({u \in log : outcome[u] = "unstored"})

\* A body in a file is complete, or so small that it went through the stream's
\* buffer: what ~ofstream fails to write of it, nobody hears of.
Whole(piece) == piece.bytes = piece.body.size \/ piece.body.size < StreamBuffer

\* When the program returns, a body that was to be kept, and is too large for the
\* stream's buffer, is on the disk in full, or its candidate is in the log, or
\* the file has gone to a lookalike, about which the same holds.  (Of a body that
\* fits the buffer it is only said that its file is there.)
NothingIsLost ==
  Returned => \A k \in kept : k[1] \in log \/
    \E piece \in {files[G!Name(k[2])][i] : i \in DOMAIN files[G!Name(k[2])]} :
      /\ G!Lookalikes(piece.of, k[2])
      /\ Whole(piece) \/ \E u \in log : <<u, piece.of>> \in kept
=============================================================================
