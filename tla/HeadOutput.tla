----------------------------- MODULE HeadOutput -----------------------------
(***************************************************************************)
(* The list of discovered candidates a HEAD scrape appends to:             *)
(* HeadQuery::execute from the response on (src/src/abrade/query.hpp),     *)
(* HeadAction (action.hpp) and the catch block of Scraper with its error   *)
(* log, over the runs that append to one file.                             *)
(*                                                                         *)
(* One thread runs the coroutines: between a response and the end of its   *)
(* process, by return or by exception, none of them is resumed.  But the   *)
(* process may be killed between any two steps, and the disk may fill up.  *)
(* An exception then unwinds through ~Connection, which suspends in a TLS  *)
(* shutdown, so that other responses come before the catch block.  The     *)
(* stream's buffer, its sticky failure and what is on the disk are kept    *)
(* apart.  A line fits the buffer.  Errors of the network are left out:    *)
(* they add to errors, in candidates that are not discovered.              *)
(***************************************************************************)
EXTENDS Integers, FiniteSets, SequencesExt

CONSTANTS
  Candidates, \* the generated candidates
  Redirected, \* bound: those of them that redirects lead to
  MaxFound,   \* bound: 2xx responses over all runs
  MaxRuns     \* bound: runs

VARIABLES
  file,       \* the pieces on the disk: lines, and torn ends of lines
  full,       \* the disk is full
  mode,       \* "running", "ended" by itself, or "killed"
  buffer,     \* lines the ofstream has not handed to the system
  good,       \* the ofstream has seen no error
  stage,      \* how far each generated candidate is
  success,    \* stats.success_count of the run
  errors,     \* stats.error_count of the run
  log,        \* the entries of the error log
  discovered, \* history: the 2xx responses, in any run
  killed,     \* history: of those, the ones a kill found in hand
  muted,      \* history: of those, the ones whose entry a full disk took
  runs        \* runs so far, for the bound

stream == <<buffer, good>>
disk == <<file, full, log>>
tallies == <<success, errors>>
history == <<discovered, killed, muted>>
vars == <<disk, mode, stream, stage, tallies, history, runs>>

\* The statuses on either side of each boundary.
Statuses == {199, 200, 299, 300}
IsSuccessUpTo300(status) == status >= 200 /\ status <= 300          \* mutant
IsSuccess(status) == status >= 200 /\ status < 300
CountsAsSuccess(status) == status >= 200 /\ status < 300

\* What a 2xx response leaves: the line names the target a redirect led to, the
\* entry of the error log the generated candidate.
Discovery(g, t) == [by |-> g, target |-> t, run |-> runs]
Line(d) == [of |-> d.target, run |-> d.run, whole |-> TRUE]
Torn(line) == [line EXCEPT !.whole = FALSE]
Entry(d) == [uri |-> d.by, run |-> d.run]

\* The thread is not inside process.
ThreadFree == \A g \in Candidates : stage[g] \notin {"counted", "inserted"}
\* A discovery that is neither on its way back nor reported.
InHand(d) == d.run = runs /\ stage[d.by] \in {"counted", "inserted", "thrown"}

Init ==
  /\ file = <<>> /\ full = FALSE /\ log = {}
  /\ mode = "running" /\ buffer = <<>> /\ good = TRUE
  /\ stage = [g \in Candidates |-> "idle"]
  /\ success = 0 /\ errors = 0
  /\ discovered = {} /\ killed = {} /\ muted = {}
  /\ runs = 1

\* stats.record_response; the action is told of the status next.
Respond(g, t, status) ==
  /\ mode = "running"
  /\ ThreadFree
  /\ stage[g] = "idle"
  /\ Cardinality(discovered) < MaxFound
  /\ success' = success + (IF CountsAsSuccess(status) THEN 1 ELSE 0)
  /\ discovered' = discovered \cup (IF IsSuccess(status) THEN {Discovery(g, t)} ELSE {})
  /\ stage' = [stage EXCEPT ![g] = IF IsSuccess(status) THEN "counted" ELSE "over"]
  /\ UNCHANGED <<disk, mode, stream, errors, killed, muted, runs>>

\* A response of this run the coroutine is at work on.
At(d, where) ==
  /\ mode = "running"
  /\ d.run = runs
  /\ stage[d.by] = where

\* file << candidate << '\n', into the buffer.  After a failure << throws before
\* it writes: nothing clears the stream.
Insert(d) ==
  /\ At(d, "counted")
  /\ buffer' = IF good THEN Append(buffer, Line(d)) ELSE buffer
  /\ stage' = [stage EXCEPT ![d.by] = IF good THEN "inserted" ELSE "thrown"]
  /\ UNCHANGED <<disk, mode, good, tallies, history, runs>>

\* Writing out the buffer: all of it, or the start of a line, or nothing.
Written ==
  IF full THEN {file} \cup {Append(file, Torn(line)) : line \in ToSet(buffer)}
          ELSE {file \o buffer}

\* file.flush(), where there is room.  (Mutant: it is left out.)
Buffered == UNCHANGED <<file, buffer>>                              \* mutant
Flushed == file' \in Written /\ buffer' = <<>>

Flush(d) ==
  /\ At(d, "inserted")
  /\ ~full
  /\ Flushed
  /\ stage' = [stage EXCEPT ![d.by] = "over"]
  /\ UNCHANGED <<full, log, mode, good, tallies, history, runs>>

\* flush fails: the stream keeps both what it holds and the failure, and throws.
\* (Mutants: the failure is cleared; the stream does not throw.)
GoodAgain == TRUE                                                   \* mutant
GoodAfterFailure == FALSE
Unnoticed == "over"                                                 \* mutant
AfterFailure == "thrown"

FlushFails(d) ==
  /\ At(d, "inserted")
  /\ full
  /\ file' \in Written
  /\ good' = GoodAfterFailure
  /\ stage' = [stage EXCEPT ![d.by] = AfterFailure]
  /\ UNCHANGED <<full, log, mode, buffer, tallies, history, runs>>

\* The catch block, once ~Connection is through: the error is counted, and the
\* entry is on the disk when ~ofstream of the log has written it, or on a full
\* disk, of which nobody hears, is not.
Catch(d) ==
  /\ At(d, "thrown")
  /\ ThreadFree
  /\ stage' = [stage EXCEPT ![d.by] = "over"]
  /\ errors' = errors + 1
  /\ \/ log' = log \cup {Entry(d)} /\ UNCHANGED muted
     \/ full /\ muted' = muted \cup {d} /\ UNCHANGED log
  /\ UNCHANGED <<file, full, mode, stream, success, discovered, killed, runs>>

\* The coroutines are through.  ~ofstream of the list tries once more to write
\* what it holds, and tells nobody.
Exit ==
  /\ mode = "running"
  /\ \A g \in Candidates : stage[g] \in {"idle", "over"}
  /\ mode' = "ended"
  /\ file' \in Written
  /\ buffer' = <<>>
  /\ UNCHANGED <<full, log, good, stage, tallies, history, runs>>

\* The process is killed: what is in its memory is gone.
Crash ==
  /\ mode = "running"
  /\ mode' = "killed"
  /\ buffer' = <<>>
  /\ killed' = killed \cup {d \in discovered : InHand(d)}
  /\ UNCHANGED <<disk, good, stage, tallies, discovered, muted, runs>>

\* The next run opens the file to append.  (Mutant: it truncates it.)
Truncated == <<>>                                                   \* mutant
Opened == file

Rerun ==
  /\ mode # "running"
  /\ runs < MaxRuns
  /\ runs' = runs + 1
  /\ mode' = "running" /\ good' = TRUE
  /\ file' = Opened
  /\ stage' = [g \in Candidates |-> "idle"]
  /\ success' = 0 /\ errors' = 0
  /\ UNCHANGED <<full, log, buffer, history>>

\* Other programs take and free the space.
DiskChanges ==
  /\ full' = ~full
  /\ UNCHANGED <<file, log, mode, stream, stage, tallies, history, runs>>

Next == \/ Exit \/ Crash \/ Rerun \/ DiskChanges
        \/ \E g \in Candidates, status \in Statuses :
             \E t \in {g} \cup Redirected : Respond(g, t, status)
        \/ \E d \in discovered : Insert(d) \/ Flush(d) \/ FlushFails(d) \/ Catch(d)

Spec == Init /\ [][Next]_vars

-----------------------------------------------------------------------------
\* The line of a discovery is on the disk.
Kept(d) == \E i \in DOMAIN file : file[i] = Line(d)

\* Every discovery of every run has its line on the disk or is reported under
\* the candidate it came from, with two exceptions: a kill takes those it finds
\* in hand, which are not yet flushed or not yet caught, and no other, and a full
\* disk may take the entry of the log with the line.
FoundIsKeptOrReported ==
  \A d \in discovered : \/ Kept(d) \/ Entry(d) \in log
                        \/ InHand(d) \/ d \in killed \/ d \in muted

\* Even a loss nobody wrote down shows: a run that ends by itself without the
\* line of one of its discoveries has counted an error, and exits with failure.
LossesFailTheRun ==
  mode = "ended" => \A d \in discovered : d.run = runs => Kept(d) \/ errors # 0

\* The summary of a run agrees with the list: there is a line for every 2xx
\* response that is not an error, and no line that is not a 2xx response.
SummaryMatchesList ==
  mode = "ended" =>
    LET lines == Cardinality({i \in DOMAIN file : file[i].whole /\ file[i].run = runs})
    IN  success - errors <= lines /\ lines <= success

\* What earlier runs, and earlier responses, put into the file stays there.
OnlyAppends == [][IsPrefix(file, file')]_file

\* A torn line has no newline, so the line behind it is spoilt.  However often
\* the disk fills up and empties, no more lines are spoilt than there have been
\* runs: a stream that has failed writes nothing more than what it still holds.
Spoilt == {i \in DOMAIN file : i > 1 /\ file[i].whole /\ ~file[i - 1].whole}
SpoiltOncePerRun == Cardinality(Spoilt) <= runs

\* action.hpp: "Successful candidates are appended to the configured output
\* file", so one that can be appended is not turned into an error.
AppendedWhenPossible ==
  [][\A g \in Candidates : stage[g] # "thrown" /\ stage'[g] = "thrown" => full]_vars
=============================================================================
