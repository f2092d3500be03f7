--------------------------- MODULE ResponseProofs ---------------------------
(***************************************************************************)
(* What becomes of a response: the list of discovered candidates, which    *)
(* loses none of them without a trace, wherever a run is killed and        *)
(* however often the disk is full, and the redirect policy, which follows  *)
(* what it follows to where the location says.                             *)
(***************************************************************************)
EXTENDS HeadOutput, Redirects, Foundations

Stages == {"idle", "counted", "inserted", "thrown", "over"}
Discoveries == [by : Candidates, target : Candidates \cup Redirected, run : Nat]
Pieces == [of : Candidates \cup Redirected, run : Nat, whole : BOOLEAN]

\* What a step can do to the file: leave it, or put pieces behind it.
Extends(s, t) == t = s \/ \E pieces \in Seq(Pieces) : t = s \o pieces

\* The types the list's properties need.
FileOK ==
  /\ file \in Seq(Pieces) /\ buffer \in Seq(Pieces)
  /\ runs \in Nat /\ errors \in Nat
  /\ stage \in [Candidates -> Stages]
  /\ discovered \subseteq Discoveries

\* The line of a discovery is a piece, and so is what is left of a torn one.
LEMMA PieceTypes ==
  /\ \A d \in Discoveries : Line(d) \in Pieces /\ Line(d).whole = TRUE
  /\ \A p \in Pieces : Torn(p) \in Pieces /\ Torn(p).whole = FALSE
  BY DEF Line, Torn, Pieces, Discoveries

\* Appending a piece is putting a sequence of one behind the file.
LEMMA AppendExtends ==
  ASSUME NEW s \in Seq(Pieces), NEW p \in Pieces
  PROVE  Append(s, p) \in Seq(Pieces) /\ Extends(s, Append(s, p))
<1>1. <<p>> \in Seq(Pieces) /\ Append(s, p) = s \o <<p>>
  OBVIOUS
<1>2. Append(s, p) \in Seq(Pieces)
  OBVIOUS
<1>3. \E pieces \in Seq(Pieces) : Append(s, p) = s \o pieces
  BY Zenon, <1>1
<1> QED BY Zenon, <1>2, <1>3 DEF Extends

\* Writing out the buffer extends the file.
LEMMA WrittenExtends ==
  ASSUME FileOK, NEW f \in Written
  PROVE  f \in Seq(Pieces) /\ Extends(file, f)
<1> USE DEF FileOK
<1>1. CASE ~full
  <2>1. f = file \o buffer
    BY <1>1 DEF Written
  <2>2. file \o buffer \in Seq(Pieces)
    OBVIOUS
  <2>3. \E pieces \in Seq(Pieces) : f = file \o pieces
    BY Zenon, <2>1
  <2> QED BY Zenon, <2>1, <2>2, <2>3 DEF Extends
<1>2. CASE full
  <2>1. f = file \/ \E line \in ToSet(buffer) : f = Append(file, Torn(line))
    BY <1>2 DEF Written
  <2>2. ASSUME NEW line \in ToSet(buffer) PROVE Torn(line) \in Pieces
    <3>1. PICK i \in DOMAIN buffer : line = buffer[i]
      BY Zenon DEF ToSet
    <3>2. buffer[i] \in Pieces
      OBVIOUS
    <3> QED BY <3>1, <3>2, PieceTypes
  <2>3. CASE f = file
    BY <2>3 DEF Extends
  <2>4. CASE \E line \in ToSet(buffer) : f = Append(file, Torn(line))
    BY <2>2, <2>4, AppendExtends
  <2> QED BY <2>1, <2>3, <2>4
<1> QED BY <1>1, <1>2

\* What is in a file is in every extension of it, at the same place.
LEMMA ExtensionKeeps ==
  ASSUME NEW s \in Seq(Pieces), NEW t \in Seq(Pieces), Extends(s, t)
  PROVE  /\ IsPrefix(s, t)
         /\ \A i \in DOMAIN s : i \in DOMAIN t /\ t[i] = s[i]
<1>1. Len(s) <= Len(t) /\ \A i \in DOMAIN s : i \in DOMAIN t /\ t[i] = s[i]
  BY DEF Extends
<1>2. SubSeq(s, 1, Len(s)) = SubSeq(t, 1, Len(s))
  BY <1>1
<1> QED BY <1>1, <1>2 DEF IsPrefix

\* The two status tests, of the query and of the action, are the same.
LEMMA OneStatusTest ==
  ASSUME NEW status \in Statuses
  PROVE  IsSuccess(status) <=> CountsAsSuccess(status)
  BY DEF IsSuccess, CountsAsSuccess

\* What a response adds, if it adds anything, is the discovery of a candidate
\* that was idle.
LEMMA RespondAdds ==
  ASSUME FileOK, NEW g \in Candidates, NEW t \in {g} \cup Redirected, NEW status,
         Respond(g, t, status)
  PROVE  /\ Discovery(g, t) \in Discoveries
         /\ Discovery(g, t).by = g /\ Discovery(g, t).run = runs
         /\ \/ discovered' = discovered /\ stage'[g] = "over"
            \/ discovered' = discovered \cup {Discovery(g, t)} /\ stage'[g] = "counted"
         /\ stage[g] = "idle" /\ stage' \in [Candidates -> Stages]
         /\ \A h \in Candidates \ {g} : stage'[h] = stage[h]
<1>1. Discovery(g, t) \in Discoveries
  BY DEF FileOK, Discovery, Discoveries
<1>2. Discovery(g, t).by = g /\ Discovery(g, t).run = runs
  BY DEF Discovery
<1>3. /\ stage[g] = "idle" /\ stage \in [Candidates -> Stages]
      /\ stage' = [stage EXCEPT ![g] = IF IsSuccess(status) THEN "counted" ELSE "over"]
      /\ discovered' = discovered \cup (IF IsSuccess(status) THEN {Discovery(g, t)} ELSE {})
  BY DEF Respond, FileOK
<1>4. stage' \in [Candidates -> Stages] /\ \A h \in Candidates \ {g} : stage'[h] = stage[h]
  BY <1>3 DEF Stages
<1>5. CASE IsSuccess(status)
  BY <1>1, <1>2, <1>3, <1>4, <1>5
<1>6. CASE ~IsSuccess(status)
  <2>1. discovered' = discovered /\ stage'[g] = "over"
    BY <1>3, <1>6
  <2> QED BY <1>1, <1>2, <1>3, <1>4, <2>1
<1> QED BY <1>5, <1>6

\* Every step extends the file and keeps its type.
LEMMA FileExtends ==
  ASSUME FileOK, [Next]_vars
  PROVE  FileOK' /\ Extends(file, file')
<1>1. CASE UNCHANGED vars
  BY <1>1 DEF vars, disk, stream, tallies, history, Extends, FileOK
<1>2. CASE Exit
  <2>1. file' \in Written /\ buffer' = <<>> /\ UNCHANGED <<stage, tallies, history, runs>>
    BY <1>2 DEF Exit
  <2> QED BY <2>1, WrittenExtends DEF FileOK, tallies, history
<1>3. CASE Crash
  BY <1>3 DEF Crash, disk, tallies, Extends, FileOK
<1>4. CASE Rerun
  BY <1>4 DEF Rerun, Opened, history, Extends, FileOK, Stages
<1>5. CASE DiskChanges
  BY <1>5 DEF DiskChanges, stream, tallies, history, Extends, FileOK
<1>6. ASSUME NEW g \in Candidates, NEW t \in {g} \cup Redirected, NEW status \in Statuses,
             Respond(g, t, status)
      PROVE  FileOK' /\ Extends(file, file')
  <2>1. /\ stage' \in [Candidates -> Stages]
        /\ discovered' = discovered \/ discovered' = discovered \cup {Discovery(g, t)}
        /\ Discovery(g, t) \in Discoveries
    BY <1>6, RespondAdds
  <2>2. UNCHANGED <<file, buffer, errors, runs>>
    BY <1>6 DEF Respond, disk, stream
  <2> QED BY <2>1, <2>2 DEF FileOK, Extends
<1>7. ASSUME NEW d \in discovered, Insert(d) PROVE FileOK' /\ Extends(file, file')
  <2>1. Line(d) \in Pieces
    BY PieceTypes DEF FileOK
  <2>2. Append(buffer, Line(d)) \in Seq(Pieces)
    BY <2>1, AppendExtends DEF FileOK
  <2>3. buffer' = Append(buffer, Line(d)) \/ buffer' = buffer
    BY <1>7 DEF Insert
  <2>4. stage' \in [Candidates -> Stages]
    BY <1>7 DEF Insert, FileOK, Stages
  <2>5. UNCHANGED <<file, errors, runs, discovered>>
    BY <1>7 DEF Insert, disk, tallies, history
  <2> QED BY <2>2, <2>3, <2>4, <2>5 DEF FileOK, Extends
<1>8. ASSUME NEW d \in discovered, Flush(d) \/ FlushFails(d)
      PROVE  FileOK' /\ Extends(file, file')
  <2>1. file' \in Written /\ (buffer' = <<>> \/ buffer' = buffer)
    BY <1>8 DEF Flush, Flushed, FlushFails
  <2>2. stage' \in [Candidates -> Stages]
    BY <1>8 DEF Flush, FlushFails, AfterFailure, FileOK, Stages
  <2>3. UNCHANGED <<errors, runs, discovered>>
    BY <1>8 DEF Flush, FlushFails, tallies, history
  <2>4. buffer' \in Seq(Pieces)
    <3>1. <<>> \in Seq(Pieces) /\ buffer \in Seq(Pieces)
      BY DEF FileOK
    <3> QED BY Zenon, <2>1, <3>1
  <2>5. file' \in Seq(Pieces) /\ Extends(file, file')
    BY <2>1, WrittenExtends
  <2> QED BY <2>2, <2>3, <2>4, <2>5 DEF FileOK
<1>9. ASSUME NEW d \in discovered, Catch(d) PROVE FileOK' /\ Extends(file, file')
  <2>1. stage' \in [Candidates -> Stages]
    BY <1>9 DEF Catch, FileOK, Stages
  <2>2. UNCHANGED <<file, buffer, runs, discovered>> /\ errors' = errors + 1
    BY <1>9 DEF Catch, stream
  <2> QED BY <2>1, <2>2 DEF FileOK, Extends
<1> QED BY <1>1, <1>2, <1>3, <1>4, <1>5, <1>6, <1>7, <1>8, <1>9 DEF Next

\* The types are an invariant.
LEMMA FileTyped == Spec => []FileOK
<1>1. Init => FileOK
  BY DEF Init, FileOK, Stages
<1>2. FileOK /\ [Next]_vars => FileOK'
  BY FileExtends
<1> QED BY <1>1, <1>2, PTL DEF Spec

-----------------------------------------------------------------------------
\* A candidate is discovered at most once in a run, and while one is inside
\* process no other is.
OneAtATime ==
  /\ \A d \in discovered : d.run <= runs
  /\ \A d \in discovered : d.run = runs => stage[d.by] # "idle"
  /\ \A d, e \in discovered : d.run = runs /\ e.run = runs /\ d.by = e.by => d = e
  /\ \A g, h \in Candidates :
       stage[g] \in {"counted", "inserted"} /\ stage[h] \in {"counted", "inserted"} => g = h

\* A line that is inserted is in the buffer; a discovery that is through has its
\* line, or counted an error; and only a kill ends a run with one in hand.
Handled ==
  /\ mode = "running" =>
       \A d \in discovered : At(d, "inserted") => \E i \in DOMAIN buffer : buffer[i] = Line(d)
  /\ \A d \in discovered : d.run = runs /\ stage[d.by] = "over" => Kept(d) \/ errors # 0
  /\ mode # "running" => \A d \in discovered : InHand(d) => d \in killed
  /\ mode = "ended" => \A d \in discovered : ~InHand(d)

ListInvariant == OneAtATime /\ FoundIsKeptOrReported /\ Handled

\* A line on the disk stays there.
LEMMA KeptStays ==
  ASSUME FileOK, [Next]_vars
  PROVE  \A d : Kept(d) => Kept(d)'
<1>1. FileOK' /\ Extends(file, file')
  BY FileExtends
<1>2. \A i \in DOMAIN file : i \in DOMAIN file' /\ file'[i] = file[i]
  BY <1>1, ExtensionKeeps DEF FileOK
<1> QED BY <1>2 DEF Kept, Line

\* Each step keeps it: a step of one candidate leaves the stages of the others
\* alone, and the run's other discoveries are of other candidates.
LEMMA StepListed ==
  ASSUME FileOK, ListInvariant, [Next]_vars
  PROVE  ListInvariant'
<1>1. \A d : Kept(d) => Kept(d)'
  BY KeptStays
<1>2. FileOK'
  BY FileExtends
<1>3. \A d \in Discoveries : d.by \in Candidates /\ d.run \in Nat
  BY DEF Discoveries
<1>4. CASE UNCHANGED vars
  BY <1>4 DEF vars, disk, stream, tallies, history, ListInvariant, OneAtATime,
              FoundIsKeptOrReported, Handled, At, Kept, InHand, Entry, Line
<1>5. CASE Exit
  <2>1. /\ mode = "running" /\ mode' = "ended"
        /\ \A g \in Candidates : stage[g] \in {"idle", "over"}
        /\ UNCHANGED <<stage, errors, discovered, killed, muted, runs, log>>
    BY <1>5 DEF Exit, tallies, history
  <2>2. \A d \in discovered : ~InHand(d)
    BY <1>3, <2>1 DEF InHand, FileOK
  <2>3. OneAtATime'
    BY <2>1 DEF ListInvariant, OneAtATime
  <2>4. FoundIsKeptOrReported'
    BY <1>1, <2>1, <2>2 DEF ListInvariant, FoundIsKeptOrReported, InHand, Entry
  <2>5. Handled'
    BY <1>1, <2>1, <2>2 DEF ListInvariant, Handled, InHand
  <2> QED BY <2>3, <2>4, <2>5 DEF ListInvariant
<1>6. CASE Crash
  <2>1. /\ mode' = "killed" /\ UNCHANGED <<file, stage, errors, discovered, muted, runs, log>>
        /\ killed' = killed \cup {d \in discovered : InHand(d)}
    BY <1>6 DEF Crash, disk, tallies
  <2>2. OneAtATime'
    BY <2>1 DEF ListInvariant, OneAtATime
  <2>3. FoundIsKeptOrReported'
    BY <1>1, <2>1 DEF ListInvariant, FoundIsKeptOrReported, InHand, Entry
  <2>4. Handled'
    BY <1>1, <2>1 DEF ListInvariant, Handled, InHand
  <2> QED BY <2>2, <2>3, <2>4 DEF ListInvariant
<1>7. CASE Rerun
  <2>1. /\ mode # "running" /\ mode' = "running" /\ runs' = runs + 1
        /\ UNCHANGED <<discovered, killed, muted, log>>
        /\ stage' = [g \in Candidates |-> "idle"]
    BY <1>7 DEF Rerun, history
  <2>2. \A d \in discovered : d.run <= runs' /\ d.run # runs'
    BY <1>3, <2>1 DEF ListInvariant, OneAtATime, FileOK
  <2>3. OneAtATime'
    BY <2>1, <2>2 DEF OneAtATime
  <2>4. FoundIsKeptOrReported'
    BY <1>1, <2>1 DEF ListInvariant, FoundIsKeptOrReported, Handled, Entry
  <2>5. Handled'
    BY <2>1, <2>2 DEF Handled, At
  <2> QED BY <2>3, <2>4, <2>5 DEF ListInvariant
<1>8. CASE DiskChanges
  BY <1>8 DEF DiskChanges, stream, tallies, history, ListInvariant, OneAtATime,
              FoundIsKeptOrReported, Handled, At, Kept, InHand, Entry, Line
<1>9. ASSUME NEW g \in Candidates, NEW t \in {g} \cup Redirected, NEW status \in Statuses,
             Respond(g, t, status)
      PROVE  ListInvariant'
  <2>0. PICK n : n = Discovery(g, t)
    OBVIOUS
  <2>1. /\ n \in Discoveries /\ n.by = g /\ n.run = runs
        /\ \/ discovered' = discovered /\ stage'[g] = "over"
           \/ discovered' = discovered \cup {n} /\ stage'[g] = "counted"
        /\ stage[g] = "idle" /\ \A h \in Candidates \ {g} : stage'[h] = stage[h]
    BY <1>9, <2>0, RespondAdds
  <2>2. /\ mode = "running" /\ ThreadFree
        /\ UNCHANGED <<file, buffer, mode, errors, killed, muted, runs, log>>
    BY <1>9 DEF Respond, disk, stream
  <2>3. \A d \in discovered : d.run = runs => d.by \in Candidates \ {g}
    BY <1>3, <2>1 DEF ListInvariant, OneAtATime, FileOK
  <2>4. \A d \in discovered : d.run = runs => stage'[d.by] = stage[d.by]
    BY <2>1, <2>3
  <2>5. OneAtATime'
    <3>1. \A h \in Candidates : stage'[h] \in {"counted", "inserted"} => h = g
      BY <2>1, <2>2 DEF ThreadFree
    <3>2. \A d \in discovered' : d = n \/ d \in discovered
      BY <2>1
    <3>3. \A d \in discovered' : d.run <= runs'
      BY <2>1, <2>2, <3>2 DEF ListInvariant, OneAtATime, FileOK
    <3>4. ASSUME NEW d \in discovered', d.run = runs' PROVE stage'[d.by] # "idle"
      <4>1. CASE d \in discovered
        BY <2>2, <2>4, <3>4, <4>1 DEF ListInvariant, OneAtATime
      <4>2. CASE d \notin discovered
        <5>1. d = n /\ stage'[g] = "counted"
          BY <2>1, <3>2, <4>2
        <5> QED BY <2>1, <5>1
      <4> QED BY <4>1, <4>2
    <3>5. ASSUME NEW d \in discovered', NEW e \in discovered',
                 d.run = runs', e.run = runs', d.by = e.by
          PROVE  d = e
      <4>1. \A f \in discovered : f.run = runs => f.by # n.by
        BY <2>1, <2>3
      <4>2. CASE d \in discovered /\ e \in discovered
        BY <2>2, <3>5, <4>2 DEF ListInvariant, OneAtATime
      <4>3. CASE d = n /\ e = n
        BY <4>3
      <4>4. CASE (d = n /\ e \in discovered) \/ (d \in discovered /\ e = n)
        BY <2>2, <3>5, <4>1, <4>4
      <4> QED BY <3>2, <4>2, <4>3, <4>4
    <3> QED BY <3>1, <3>3, <3>4, <3>5 DEF OneAtATime
  <2>6. FoundIsKeptOrReported'
    <3>1. n \in discovered' => InHand(n)' \/ n \in discovered
      BY <2>1, <2>2 DEF InHand
    <3>2. \A d \in discovered : InHand(d) => InHand(d)'
      BY <2>2, <2>4 DEF InHand
    <3> QED BY <1>1, <2>1, <2>2, <3>1, <3>2 DEF ListInvariant, FoundIsKeptOrReported, Entry
  <2>7. Handled'
    <3>1. \A d \in discovered' : d.run = runs => d = n \/ d \in discovered
      BY <2>1
    <3>2. n \in discovered' \ discovered => stage'[n.by] = "counted"
      BY <2>1
    <3> QED BY <1>1, <2>2, <2>4, <3>1, <3>2 DEF ListInvariant, Handled, At, Line
  <2> QED BY <2>5, <2>6, <2>7 DEF ListInvariant
<1>10. ASSUME NEW d \in discovered, Insert(d) \/ Flush(d) \/ FlushFails(d) \/ Catch(d)
       PROVE  ListInvariant'
  <2>1. /\ mode = "running" /\ d.run = runs /\ d.by \in Candidates /\ d \in Discoveries
        /\ stage[d.by] # "idle"
        /\ UNCHANGED <<mode, runs, discovered, killed>>
    BY <1>3, <1>10 DEF Insert, Flush, FlushFails, Catch, At, history, FileOK
  <2>2. /\ \A h \in Candidates \ {d.by} : stage'[h] = stage[h]
        /\ stage'[d.by] # "idle"
        /\ stage'[d.by] \in {"counted", "inserted"} => stage[d.by] \in {"counted", "inserted"}
    BY <1>10, <2>1 DEF Insert, Flush, FlushFails, Catch, At, AfterFailure, FileOK, Stages
  <2>3. \A e \in discovered \ {d} : e.run = runs => e.by \in Candidates \ {d.by}
    BY <1>3, <2>1 DEF ListInvariant, OneAtATime, FileOK
  <2>4. \A e \in discovered \ {d} : e.run = runs => stage'[e.by] = stage[e.by]
    BY <2>2, <2>3
  <2>5. OneAtATime'
    <3>1. \A h \in Candidates :
            stage'[h] \in {"counted", "inserted"} => stage[h] \in {"counted", "inserted"}
      BY <2>2
    <3>2. \A e \in discovered : e.run = runs => stage'[e.by] # "idle"
      BY <2>2, <2>4 DEF ListInvariant, OneAtATime
    <3> QED BY <2>1, <3>1, <3>2 DEF ListInvariant, OneAtATime
  <2>6. \A e \in discovered \ {d} : InHand(e) => InHand(e)'
    BY <2>1, <2>4 DEF InHand
  <2>7. log \subseteq log' /\ muted \subseteq muted' /\ (errors # 0 => errors' # 0)
    BY <1>10 DEF Insert, Flush, FlushFails, Catch, disk, tallies, history, FileOK
  <2>8. \A e \in discovered \ {d} :
           Kept(e)' \/ Entry(e) \in log' \/ InHand(e)' \/ e \in killed' \/ e \in muted'
    BY <1>1, <2>1, <2>6, <2>7 DEF ListInvariant, FoundIsKeptOrReported, Entry
  <2>9. \A e \in discovered \ {d} :
           e.run = runs /\ stage'[e.by] = "over" => Kept(e)' \/ errors' # 0
    BY <1>1, <2>4, <2>7 DEF ListInvariant, Handled
  <2>10. \A e \in discovered \ {d} : e.run = runs =>
           ~(stage[d.by] \in {"counted", "inserted"} /\ stage[e.by] \in {"counted", "inserted"})
    BY <2>1, <2>3 DEF ListInvariant, OneAtATime
  <2>11. SUFFICES
           /\ Kept(d)' \/ Entry(d) \in log' \/ InHand(d)' \/ d \in muted'
           /\ stage'[d.by] = "over" => Kept(d)' \/ errors' # 0
           /\ \A e \in discovered : e.run = runs /\ stage'[e.by] = "inserted"
                => \E i \in DOMAIN buffer' : buffer'[i] = Line(e)
    <3>1. FoundIsKeptOrReported'
      BY <2>1, <2>8, <2>11 DEF FoundIsKeptOrReported, Entry
    <3>2. Handled'
      BY <2>1, <2>9, <2>11 DEF Handled, At, Line
    <3> QED BY <2>5, <3>1, <3>2 DEF ListInvariant
  <2>12. CASE Insert(d)
    <3>1. \A e \in discovered \ {d} : e.run = runs => stage'[e.by] # "inserted"
      BY <2>4, <2>10, <2>12 DEF Insert, At
    <3>2. InHand(d)' /\ stage'[d.by] # "over"
      BY <2>1, <2>12 DEF Insert, InHand, FileOK
    <3>3. CASE good
      <4>1. buffer' = Append(buffer, Line(d)) /\ Line(d) \in Pieces /\ buffer \in Seq(Pieces)
        BY <2>1, <2>12, <3>3, PieceTypes DEF Insert, FileOK
      <4>2. Len(buffer) + 1 \in DOMAIN buffer' /\ buffer'[Len(buffer) + 1] = Line(d)
        BY <4>1
      <4> QED BY <3>1, <3>2, <4>2
    <3>4. CASE ~good
      <4>1. stage'[d.by] = "thrown"
        BY <2>1, <2>12, <3>4 DEF Insert, FileOK
      <4> QED BY <3>1, <3>2, <4>1
    <3> QED BY <3>3, <3>4
  <2>13. CASE Flush(d)
    <3>1. file' = file \o buffer
      BY <2>13 DEF Flush, Flushed, Written
    <3>2. PICK i \in DOMAIN buffer : buffer[i] = Line(d)
      BY <2>1, <2>13 DEF Flush, ListInvariant, Handled, At
    <3>3. Len(file) + i \in DOMAIN file' /\ file'[Len(file) + i] = Line(d)
      BY <3>1, <3>2 DEF FileOK
    <3>4. Kept(d)'
      BY <3>3 DEF Kept, Line
    <3>5. \A e \in discovered : e.run = runs => stage'[e.by] # "inserted"
      BY <2>1, <2>4, <2>10, <2>13 DEF Flush, At, FileOK
    <3> QED BY <3>4, <3>5
  <2>14. CASE FlushFails(d)
    <3>1. stage'[d.by] = "thrown"
      BY <2>1, <2>14 DEF FlushFails, AfterFailure, FileOK
    <3>2. InHand(d)'
      BY <2>1, <3>1 DEF InHand
    <3>3. \A e \in discovered : e.run = runs => stage'[e.by] # "inserted"
      BY <2>4, <2>10, <2>14, <3>1 DEF FlushFails, At
    <3> QED BY <3>1, <3>2, <3>3
  <2>15. CASE Catch(d)
    <3>1. Entry(d) \in log' \/ d \in muted'
      BY <2>15 DEF Catch
    <3>2. errors' # 0 /\ stage'[d.by] = "over" /\ UNCHANGED buffer
      BY <2>1, <2>15 DEF Catch, stream, FileOK
    <3>3. \A e \in discovered : e.run = runs /\ stage'[e.by] = "inserted"
                => \E i \in DOMAIN buffer' : buffer'[i] = Line(e)
      BY <2>1, <2>4, <3>2 DEF ListInvariant, Handled, At
    <3> QED BY <3>1, <3>2, <3>3
  <2> QED BY <1>10, <2>12, <2>13, <2>14, <2>15
<1> QED BY <1>4, <1>5, <1>6, <1>7, <1>8, <1>9, <1>10 DEF Next

\* What the list's theorems rest on is an invariant.
LEMMA ListInvariantHolds == Spec => []ListInvariant
<1>1. Init => ListInvariant
  BY DEF Init, ListInvariant, OneAtATime, FoundIsKeptOrReported, Handled
<1>2. FileOK /\ ListInvariant /\ [Next]_vars => ListInvariant'
  BY StepListed
<1> QED BY <1>1, <1>2, FileTyped, PTL DEF Spec

\* Between a response and its line, or its report, a discovery can be lost only
\* by a kill that finds it in hand or, reported, by a full disk: for any number
\* of candidates, redirects and runs.
THEOREM NoDiscoveryIsLost == Spec => []FoundIsKeptOrReported
<1>1. ListInvariant => FoundIsKeptOrReported
  BY DEF ListInvariant
<1> QED BY <1>1, ListInvariantHolds, PTL

\* A run that ends by itself without one of its discoveries says so by its exit.
THEOREM LossesShow == Spec => []LossesFailTheRun
<1>1. FileOK /\ ListInvariant => LossesFailTheRun
  <2> SUFFICES ASSUME FileOK, ListInvariant, mode = "ended",
                      NEW d \in discovered, d.run = runs
               PROVE  Kept(d) \/ errors # 0
    BY DEF LossesFailTheRun
  <2>1. d.by \in Candidates
    BY DEF FileOK, Discoveries
  <2>2. stage[d.by] \in Stages
    BY <2>1 DEF FileOK
  <2>3. stage[d.by] # "idle" /\ ~InHand(d)
    BY DEF ListInvariant, OneAtATime, Handled
  <2>4. stage[d.by] = "over"
    BY <2>2, <2>3 DEF InHand, Stages
  <2> QED BY <2>4 DEF ListInvariant, Handled
<1> QED BY <1>1, FileTyped, ListInvariantHolds, PTL

\* No step of any run takes anything out of the list of discovered candidates.
THEOREM ListOnlyGrows == Spec => OnlyAppends
<1>1. FileOK /\ FileOK' /\ [Next]_vars => [IsPrefix(file, file')]_file
  BY FileExtends, ExtensionKeeps DEF FileOK
<1> QED BY <1>1, FileTyped, PTL DEF Spec, OnlyAppends

-----------------------------------------------------------------------------
\* The lines of f that a torn one spoils, and whether f ends in a torn one, which
\* will spoil the line that comes next.
SpoiltIn(f) == {i \in DOMAIN f : i > 1 /\ f[i].whole /\ ~f[i - 1].whole}
TornEnd(f) == f # <<>> /\ ~f[Len(f)].whole

\* Lines that are spoilt or about to be.
Damage(f) == Cardinality(SpoiltIn(f)) + (IF TornEnd(f) THEN 1 ELSE 0)

\* The damage to a file is a number of lines.
LEMMA DamageType ==
  ASSUME NEW s \in Seq(Pieces)
  PROVE  IsFiniteSet(SpoiltIn(s)) /\ Cardinality(SpoiltIn(s)) \in Nat /\ Damage(s) \in Nat
<1>1. IsFiniteSet(1 .. Len(s)) /\ SpoiltIn(s) \subseteq 1 .. Len(s)
  <2>1. Len(s) \in Int /\ DOMAIN s = 1 .. Len(s)
    OBVIOUS
  <2> QED BY <2>1, FS_Interval DEF SpoiltIn
<1>2. IsFiniteSet(SpoiltIn(s)) /\ Cardinality(SpoiltIn(s)) \in Nat
  BY <1>1, FS_Subset, FS_CardinalityType
<1> QED BY <1>2 DEF Damage

\* A whole line behind a torn one turns a threat into damage; only a torn line
\* that is not behind another one adds to it.
LEMMA DamageOfAppend ==
  ASSUME NEW s \in Seq(Pieces), NEW p \in Pieces
  PROVE  /\ Damage(Append(s, p)) = Damage(s) + (IF p.whole \/ TornEnd(s) THEN 0 ELSE 1)
         /\ TornEnd(Append(s, p)) <=> ~p.whole
<1> DEFINE t == Append(s, p)
           n == Len(s) + 1
<1>1. /\ Len(t) = n /\ n \in Nat /\ t[n] = p /\ t # <<>>
      /\ DOMAIN t = 1 .. n /\ \A i \in 1 .. Len(s) : t[i] = s[i]
  OBVIOUS
<1> HIDE DEF t
<1>2. TornEnd(t) <=> ~p.whole
  BY <1>1 DEF TornEnd
<1>3. n \in SpoiltIn(t) <=> p.whole /\ TornEnd(s)
  BY <1>1 DEF SpoiltIn, TornEnd
<1>4. \A i \in 1 .. Len(s) : i \in SpoiltIn(t) <=> i \in SpoiltIn(s)
  BY <1>1 DEF SpoiltIn
<1>5. SpoiltIn(t) \subseteq 1 .. n /\ SpoiltIn(s) \subseteq 1 .. Len(s)
  BY <1>1 DEF SpoiltIn
<1>6. CASE p.whole /\ TornEnd(s)
  <2>1. SpoiltIn(t) = SpoiltIn(s) \cup {n} /\ n \notin SpoiltIn(s)
    BY <1>3, <1>4, <1>5, <1>6
  <2>2. Cardinality(SpoiltIn(t)) = Cardinality(SpoiltIn(s)) + 1
    BY <2>1, DamageType, FS_AddElement
  <2> QED BY <1>2, <1>6, <2>2, DamageType DEF Damage, t
<1>7. CASE ~(p.whole /\ TornEnd(s))
  <2>1. SpoiltIn(t) = SpoiltIn(s)
    BY <1>3, <1>4, <1>5, <1>7
  <2> QED BY <1>2, <1>7, <2>1, DamageType DEF Damage, t
<1> QED BY <1>6, <1>7

\* What a run may still damage: nothing, once its stream has failed and torn a
\* line; one line, before.  A stream holds a line at most: the one inserted, or
\* the one it failed with.
DamageBounded ==
  /\ Damage(file) <= runs
  /\ mode = "running" /\ (good \/ ~TornEnd(file)) => Damage(file) + 1 <= runs
  /\ buffer = <<>> \/ \E p \in Pieces : p.whole /\ buffer = <<p>>
  /\ mode # "running" => buffer = <<>>
  /\ mode = "running" /\ good /\ (\A g \in Candidates : stage[g] # "inserted") => buffer = <<>>
  /\ mode = "running" => \A g \in Candidates : stage[g] = "inserted" => good

\* A buffer of at most one line is written out as one piece, or not at all.
LEMMA WrittenPiece ==
  ASSUME FileOK, DamageBounded, NEW f \in Written
  PROVE  \/ f = file
         \/ \E p \in Pieces : f = Append(file, p) /\ p.whole /\ ~full
         \/ \E p \in Pieces : f = Append(file, p) /\ ~p.whole /\ full
<1> USE DEF FileOK
<1>1. CASE buffer = <<>>
  <2>1. ToSet(buffer) = {} /\ file \o buffer = file
    BY <1>1 DEF ToSet
  <2> QED BY <2>1 DEF Written
<1>2. ASSUME NEW p \in Pieces, p.whole, buffer = <<p>>
      PROVE  \/ f = file
             \/ \E q \in Pieces : f = Append(file, q) /\ q.whole /\ ~full
             \/ \E q \in Pieces : f = Append(file, q) /\ ~q.whole /\ full
  <2>1. ToSet(buffer) = {p} /\ file \o buffer = Append(file, p)
    BY <1>2 DEF ToSet
  <2>2. Torn(p) \in Pieces /\ ~Torn(p).whole
    BY PieceTypes
  <2>3. f = file \/ (f = Append(file, Torn(p)) /\ full) \/ (f = Append(file, p) /\ ~full)
    BY <2>1 DEF Written
  <2> QED BY <1>2, <2>2, <2>3
<1> QED BY <1>1, <1>2 DEF DamageBounded

\* The damage stays within one line for each run.
LEMMA StepDamage == FileOK /\ OneAtATime /\ DamageBounded /\ [Next]_vars => DamageBounded'
<1> SUFFICES ASSUME FileOK, OneAtATime, DamageBounded, [Next]_vars PROVE DamageBounded'
  OBVIOUS
<1>1. file \in Seq(Pieces) /\ Damage(file) \in Nat /\ runs \in Nat
  BY DamageType DEF FileOK
<1>2. CASE UNCHANGED vars
  BY <1>2 DEF vars, disk, stream, DamageBounded
<1>3. CASE Crash
  BY <1>3 DEF Crash, disk, DamageBounded
<1>4. CASE DiskChanges
  BY <1>4 DEF DiskChanges, stream, DamageBounded
<1>5. CASE Rerun
  <2>1. /\ file' = file /\ runs' = runs + 1 /\ mode' = "running" /\ good' = TRUE
        /\ mode # "running" /\ UNCHANGED buffer
    BY <1>5 DEF Rerun, Opened
  <2> QED BY <1>1, <2>1 DEF DamageBounded
<1>6. CASE Exit
  <2>1. /\ mode = "running" /\ mode' = "ended" /\ buffer' = <<>> /\ file' \in Written
        /\ UNCHANGED runs /\ \A g \in Candidates : stage[g] # "inserted"
    BY <1>6 DEF Exit
  <2>2. Damage(file') <= runs
    <3>1. CASE file' = file
      BY <3>1 DEF DamageBounded
    <3>2. ASSUME NEW p \in Pieces, file' = Append(file, p) PROVE Damage(file') <= runs
      <4>1. Damage(file') = Damage(file) + (IF p.whole \/ TornEnd(file) THEN 0 ELSE 1)
        BY <1>1, <3>2, DamageOfAppend
      <4> QED BY <1>1, <2>1, <4>1 DEF DamageBounded
    <3> QED BY <2>1, <3>1, <3>2, WrittenPiece
  <2> QED BY <2>1, <2>2 DEF DamageBounded
<1>7. ASSUME NEW g \in Candidates, NEW t \in {g} \cup Redirected, NEW status \in Statuses,
             Respond(g, t, status)
      PROVE  DamageBounded'
  <2>1. \A h \in Candidates : stage'[h] = "inserted" <=> stage[h] = "inserted"
    BY <1>7, RespondAdds
  <2> QED BY <1>7, <2>1 DEF Respond, disk, stream, DamageBounded
<1>8. ASSUME NEW d \in discovered, Insert(d) \/ Flush(d) \/ FlushFails(d) \/ Catch(d)
      PROVE  DamageBounded'
  <2>1. /\ mode = "running" /\ d.by \in Candidates /\ d \in Discoveries
        /\ UNCHANGED <<mode, runs>>
    BY <1>8 DEF Insert, Flush, FlushFails, Catch, At, FileOK, Discoveries
  <2>2. /\ \A h \in Candidates \ {d.by} : stage'[h] = stage[h]
        /\ stage \in [Candidates -> Stages] /\ stage' \in [Candidates -> Stages]
    BY <1>8, FileExtends DEF Insert, Flush, FlushFails, Catch, FileOK
  <2>3. stage[d.by] \in {"counted", "inserted"} =>
           \A h \in Candidates \ {d.by} : stage[h] # "inserted"
    BY <2>1 DEF OneAtATime
  <2>4. CASE Insert(d)
    <3>1. stage[d.by] = "counted" /\ UNCHANGED <<file, good>>
      BY <2>4 DEF Insert, At, disk
    <3>2. \A h \in Candidates : stage[h] # "inserted"
      BY <2>3, <3>1
    <3>3. CASE good
      <4>1. buffer = <<>> /\ buffer' = Append(buffer, Line(d)) /\ stage'[d.by] = "inserted"
        BY <2>1, <2>2, <2>4, <3>2, <3>3 DEF Insert, DamageBounded
      <4>2. buffer' = <<Line(d)>> /\ Line(d) \in Pieces /\ Line(d).whole = TRUE
        BY <2>1, <4>1, PieceTypes
      <4> QED BY <2>1, <3>1, <3>3, <4>1, <4>2 DEF DamageBounded
    <3>4. CASE ~good
      <4>1. UNCHANGED buffer /\ stage'[d.by] = "thrown"
        BY <2>1, <2>2, <2>4, <3>4 DEF Insert
      <4> QED BY <2>1, <2>2, <3>1, <3>2, <3>4, <4>1 DEF DamageBounded
    <3> QED BY <3>3, <3>4
  <2>5. CASE Flush(d)
    <3>1. /\ stage[d.by] = "inserted" /\ ~full /\ file' \in Written /\ buffer' = <<>>
          /\ UNCHANGED good
      BY <2>5 DEF Flush, Flushed, At
    <3>2. good /\ Damage(file) + 1 <= runs
      BY <2>1, <3>1 DEF DamageBounded
    <3>3. Damage(file') = Damage(file)
      <4>1. CASE file' = file
        BY <4>1
      <4>2. ASSUME NEW p \in Pieces, file' = Append(file, p), p.whole
            PROVE  Damage(file') = Damage(file)
        <5>1. Damage(file') = Damage(file) + 0
          BY <1>1, <4>2, DamageOfAppend
        <5> QED BY <1>1, <5>1
      <4> QED BY <3>1, <4>1, <4>2, WrittenPiece
    <3> QED BY <1>1, <2>1, <3>1, <3>2, <3>3 DEF DamageBounded
  <2>6. CASE FlushFails(d)
    <3>1. /\ stage[d.by] = "inserted" /\ full /\ file' \in Written /\ good' = FALSE
          /\ stage'[d.by] = "thrown" /\ UNCHANGED buffer
      BY <2>1, <2>2, <2>6 DEF FlushFails, GoodAfterFailure, AfterFailure, At
    <3>2. Damage(file) + 1 <= runs /\ \A h \in Candidates : stage'[h] # "inserted"
      BY <2>1, <2>2, <2>3, <3>1 DEF DamageBounded
    <3>3. Damage(file') <= runs /\ (~TornEnd(file') => Damage(file') + 1 <= runs)
      <4>1. CASE file' = file
        BY <1>1, <3>2, <4>1
      <4>2. ASSUME NEW p \in Pieces, file' = Append(file, p), ~p.whole
            PROVE  Damage(file') <= runs /\ TornEnd(file')
        <5>1. /\ Damage(file') = Damage(file) + (IF TornEnd(file) THEN 0 ELSE 1)
              /\ TornEnd(file')
          BY <1>1, <4>2, DamageOfAppend
        <5> QED BY <1>1, <3>2, <5>1
      <4> QED BY <3>1, <4>1, <4>2, WrittenPiece
    <3> QED BY <2>1, <3>1, <3>2, <3>3 DEF DamageBounded
  <2>7. CASE Catch(d)
    <3>1. \A h \in Candidates : stage'[h] = "inserted" <=> stage[h] = "inserted"
      BY <2>1, <2>2, <2>7 DEF Catch, At
    <3> QED BY <2>1, <2>7, <3>1 DEF Catch, stream, DamageBounded
  <2> QED BY <1>8, <2>4, <2>5, <2>6, <2>7
<1> QED BY <1>2, <1>3, <1>4, <1>5, <1>6, <1>7, <1>8 DEF Next

\* However often the disk fills up and empties, and wherever runs are killed, no
\* more lines of the list are spoilt by torn ones than there have been runs.
THEOREM OneLineSpoiltPerRun == Spec => []SpoiltOncePerRun
<1>1. Init => DamageBounded
  <2> SUFFICES ASSUME Init PROVE DamageBounded
    OBVIOUS
  <2>1. SpoiltIn(file) = {} /\ ~TornEnd(file)
    BY DEF Init, SpoiltIn, TornEnd
  <2>2. Damage(file) = 0
    BY <2>1, FS_EmptySet DEF Damage
  <2> QED BY <2>1, <2>2 DEF Init, DamageBounded
<1>2. FileOK /\ DamageBounded => SpoiltOncePerRun
  BY DamageType DEF FileOK, DamageBounded, Damage, SpoiltOncePerRun, Spoilt, SpoiltIn
<1>3. ListInvariant => OneAtATime
  BY DEF ListInvariant
<1> QED BY <1>1, <1>2, <1>3, StepDamage, FileTyped, ListInvariantHolds, PTL DEF Spec

-----------------------------------------------------------------------------
\* A slice of a sequence, where it lies within it.
LEMMA SlicesEqual ==
  ASSUME NEW S, NEW s \in Seq(S), NEW i \in Nat \ {0}, NEW n \in Nat, i + n - 1 <= Len(s)
  PROVE  /\ SubSeq(s, i, i + n - 1) \in Seq(S) /\ Len(SubSeq(s, i, i + n - 1)) = n
         /\ \A j \in 1 .. n : SubSeq(s, i, i + n - 1)[j] = s[i + j - 1]
<1>1. i \in Int /\ i + n - 1 \in Int /\ \A k \in i .. (i + n - 1) : s[k] \in S
  <2>1. Len(s) \in Nat /\ \A k \in 1 .. Len(s) : s[k] \in S
    BY ElementOfSeq
  <2> QED BY <2>1
<1> DEFINE m == i + n - 1
           q == SubSeq(s, i, m)
<1>2. /\ q \in Seq(S) /\ Len(q) = (IF i <= m THEN m - i + 1 ELSE 0)
      /\ \A j \in 1 .. m - i + 1 : q[j] = s[i + j - 1]
  <2> HIDE DEF m
  <2> QED BY <1>1, SubSeqProperties DEF m
<1> HIDE DEF q
<1>3. (IF i <= m THEN m - i + 1 ELSE 0) = n /\ m - i + 1 = n
  OBVIOUS
<1>4. q \in Seq(S) /\ Len(q) = n /\ \A j \in 1 .. n : q[j] = s[i + j - 1]
  BY <1>2, <1>3
<1> QED BY <1>4 DEF q

\* The text up to the first of some tokens, and from there on.
LEMMA BeforeFrom ==
  ASSUME NEW S, NEW s \in Seq(S), NEW T
  PROVE  \E n \in 0 .. Len(s) :
           /\ Before(s, T) = SubSeq(s, 1, n) /\ From(s, T) = SubSeq(s, n + 1, Len(s))
           /\ \A i \in 1 .. n : s[i] \notin T
           /\ n # Len(s) => s[n + 1] \in T
<1> DEFINE U == {i \in DOMAIN s : s[i] \in T} \cup {Len(s) + 1}
           m == Min(U)
<1>1. Len(s) \in Nat /\ DOMAIN s = 1 .. Len(s) /\ U \subseteq Nat /\ U # {}
  OBVIOUS
<1>2. m \in U /\ \A k \in U : m <= k
  <2> HIDE DEF U
  <2> QED BY <1>1, MinIsLeast
<1>3. m \in 1 .. (Len(s) + 1) /\ (m = Len(s) + 1 \/ s[m] \in T)
      /\ \A k \in 1 .. Len(s) : s[k] \in T => m <= k
  <2> HIDE DEF m
  <2> QED BY <1>1, <1>2
<1>4. Before(s, T) = SubSeq(s, 1, m - 1)
  BY DEF Before
<1> HIDE DEF m, U
<1> DEFINE n == m - 1
<1>5. n \in 0 .. Len(s) /\ n + 1 = m
  BY <1>1, <1>3
<1>6. Before(s, T) = SubSeq(s, 1, n)
  BY <1>4
<1>7. \A i \in 1 .. n : s[i] \notin T
  BY <1>1, <1>3
<1>8. n # Len(s) => s[n + 1] \in T
  BY <1>1, <1>3, <1>5
<1> HIDE DEF n
<1>9. From(s, T) = SubSeq(s, n + 1, Len(s))
  <2>1. Len(Before(s, T)) = n
    BY <1>5, <1>6, SplitJoins
  <2> QED BY <2>1 DEF From
<1> QED BY <1>5, <1>6, <1>7, <1>8, <1>9

\* The same of their lengths and tokens.
LEMMA Splitting ==
  ASSUME NEW S, NEW s \in Seq(S), NEW T
  PROVE  LET b == Before(s, T)
             f == From(s, T)
             n == Len(b)
         IN  /\ b \in Seq(S) /\ f \in Seq(S) /\ b \o f = s
             /\ n \in 0 .. Len(s) /\ Len(f) = Len(s) - n
             /\ \A i \in 1 .. n : b[i] = s[i] /\ s[i] \notin T
             /\ \A i \in 1 .. (Len(s) - n) : f[i] = s[n + i]
             /\ n # Len(s) => s[n + 1] \in T
<1>1. PICK n \in 0 .. Len(s) :
           /\ Before(s, T) = SubSeq(s, 1, n) /\ From(s, T) = SubSeq(s, n + 1, Len(s))
           /\ \A i \in 1 .. n : s[i] \notin T
           /\ n # Len(s) => s[n + 1] \in T
  BY BeforeFrom
<1> DEFINE b == SubSeq(s, 1, n)
           f == SubSeq(s, n + 1, Len(s))
<1>2. /\ b \in Seq(S) /\ Len(b) = n /\ f \in Seq(S) /\ Len(f) = Len(s) - n
      /\ \A i \in 1 .. n : b[i] = s[i]
      /\ \A i \in 1 .. (Len(s) - n) : f[i] = s[n + i]
      /\ b \o f = s
  BY SplitJoins
<1> HIDE DEF b, f
<1>3. Before(s, T) = b /\ From(s, T) = f
  BY <1>1 DEF b, f
<1> QED BY <1>1, <1>2, <1>3

\* There is only one place to split at.
LEMMA SplitsAt ==
  ASSUME NEW S, NEW s \in Seq(S), NEW T, NEW k \in 0 .. Len(s),
         \A i \in 1 .. k : s[i] \notin T, k = Len(s) \/ s[k + 1] \in T
  PROVE  Before(s, T) = SubSeq(s, 1, k) /\ From(s, T) = SubSeq(s, k + 1, Len(s))
         /\ Len(Before(s, T)) = k
<1>1. PICK n \in 0 .. Len(s) :
           /\ Before(s, T) = SubSeq(s, 1, n) /\ From(s, T) = SubSeq(s, n + 1, Len(s))
           /\ \A i \in 1 .. n : s[i] \notin T
           /\ n # Len(s) => s[n + 1] \in T
  BY BeforeFrom
<1>2. Len(s) \in Nat
  OBVIOUS
<1>3. ~(n < k)
  BY <1>1, <1>2
<1>4. ~(k < n)
  BY <1>1, <1>2
<1>5. n = k
  BY <1>2, <1>3, <1>4
<1>6. Len(SubSeq(s, 1, k)) = k
  BY SplitJoins
<1> QED BY <1>1, <1>5, <1>6

\* What is left of a sequence when its beginning is dropped.
LEMMA Dropping ==
  ASSUME NEW S, NEW s \in Seq(S), NEW n \in 0 .. Len(s)
  PROVE  /\ Drop(s, n) \in Seq(S) /\ Len(Drop(s, n)) = Len(s) - n
         /\ \A i \in 1 .. (Len(s) - n) : Drop(s, n)[i] = s[n + i]
  BY SplitJoins DEF Drop

\* Dropping twice is dropping once.
LEMMA DroppingTwice ==
  ASSUME NEW S, NEW s \in Seq(S), NEW m \in Nat, NEW n \in Nat, m + n <= Len(s)
  PROVE  Drop(Drop(s, m), n) = Drop(s, m + n)
<1>0. Len(s) \in Nat /\ m \in 0 .. Len(s) /\ m + n \in 0 .. Len(s)
  OBVIOUS
<1> DEFINE d == Drop(s, m)
           e == Drop(d, n)
           g == Drop(s, m + n)
<1>1. d \in Seq(S) /\ Len(d) = Len(s) - m /\ \A i \in 1 .. (Len(s) - m) : d[i] = s[m + i]
  BY <1>0, Dropping
<1>2. g \in Seq(S) /\ Len(g) = Len(s) - (m + n)
      /\ \A i \in 1 .. (Len(s) - (m + n)) : g[i] = s[(m + n) + i]
  BY <1>0, Dropping
<1> HIDE DEF d, g
<1>3. e \in Seq(S) /\ Len(e) = Len(d) - n /\ \A i \in 1 .. (Len(d) - n) : e[i] = d[n + i]
  <2>1. n \in 0 .. Len(d)
    BY <1>0, <1>1
  <2> QED BY <1>1, <2>1, Dropping
<1> HIDE DEF e
<1>4. Len(e) = Len(g)
  BY <1>0, <1>1, <1>2, <1>3
<1>5. ASSUME NEW i \in 1 .. Len(e) PROVE e[i] = g[i]
  <2>1. i \in 1 .. (Len(d) - n) /\ n + i \in 1 .. (Len(s) - m) /\ m + (n + i) = (m + n) + i
        /\ i \in 1 .. (Len(s) - (m + n))
    BY <1>0, <1>1, <1>3
  <2> QED BY <1>1, <1>2, <1>3, <2>1
<1>6. e = g
  BY <1>2, <1>3, <1>4, <1>5, SeqEqual
<1> QED BY <1>6 DEF e, d, g

\* A prefix, element by element.
LEMMA PrefixTokens ==
  ASSUME NEW S, NEW p \in Seq(S), NEW s \in Seq(S)
  PROVE  IsPrefix(p, s) <=> Len(p) <= Len(s) /\ \A i \in 1 .. Len(p) : s[i] = p[i]
<1>1. Len(p) \in Nat /\ Len(s) \in Nat
  OBVIOUS
<1>2. SubSeq(p, 1, Len(p)) = p
  <2>1. /\ SubSeq(p, 1, Len(p)) \in Seq(S) /\ Len(SubSeq(p, 1, Len(p))) = Len(p)
        /\ \A i \in 1 .. Len(p) : SubSeq(p, 1, Len(p))[i] = p[i]
    BY <1>1, SplitJoins
  <2> QED BY <2>1, SeqEqual
<1>3. ASSUME Len(p) <= Len(s)
      PROVE  SubSeq(s, 1, Len(p)) = p <=> \A i \in 1 .. Len(p) : s[i] = p[i]
  <2> DEFINE q == SubSeq(s, 1, Len(p))
  <2>1. q \in Seq(S) /\ Len(q) = Len(p) /\ \A i \in 1 .. Len(p) : q[i] = s[i]
    <3>1. Len(p) \in 0 .. Len(s)
      BY <1>1, <1>3
    <3> QED BY <3>1, SplitJoins
  <2> HIDE DEF q
  <2>2. q = p <=> \A i \in 1 .. Len(p) : q[i] = p[i]
    BY <2>1, SeqEqual
  <2>3. q = p <=> \A i \in 1 .. Len(p) : s[i] = p[i]
    BY <2>1, <2>2
  <2> QED BY <2>3 DEF q
<1> QED BY <1>2, <1>3 DEF IsPrefix

\* What locations and targets are made of.
Symbols == STRING \cup {":", "/", "?", "#"}

\* The symbols there are.
LEMMA SymbolTypes ==
  /\ ":" \in Symbols /\ "/" \in Symbols /\ "?" \in Symbols
  /\ \A s \in Seq(STRING) : s \in Seq(Symbols)
<1>1. STRING \subseteq Symbols /\ {":", "/", "?", "#"} \subseteq Symbols
  BY DEF Symbols
<1>2. \A s \in Seq(STRING) : s \in Seq(Symbols)
  BY <1>1, SeqMonotonic
<1> QED BY <1>1, <1>2

\* A location that begins with a slash ...
LEMMA Rooted ==
  ASSUME NEW s \in Seq(Symbols)
  PROVE  IsPrefix(<<"/">>, s) <=> Len(s) >= 1 /\ s[1] = "/"
<1> DEFINE p == <<"/">>
<1>1. p \in Seq(Symbols) /\ Len(p) = 1 /\ p[1] = "/"
  BY SymbolTypes
<1> HIDE DEF p
<1>2. IsPrefix(p, s) <=> Len(p) <= Len(s) /\ \A i \in 1 .. Len(p) : s[i] = p[i]
  BY <1>1, PrefixTokens
<1>3. IsPrefix(p, s) <=> Len(s) >= 1 /\ s[1] = "/"
  <2>1. Len(s) \in Nat
    OBVIOUS
  <2> QED BY <1>1, <1>2, <2>1
<1> QED BY <1>3 DEF p

\* ... and one that begins with two.
LEMMA NetworkPath ==
  ASSUME NEW s \in Seq(Symbols)
  PROVE  IsPrefix(<<"/", "/">>, s) <=> Len(s) >= 2 /\ s[1] = "/" /\ s[2] = "/"
<1> DEFINE p == <<"/", "/">>
<1>1. p \in Seq(Symbols) /\ Len(p) = 2 /\ p[1] = "/" /\ p[2] = "/"
  BY SymbolTypes
<1> HIDE DEF p
<1>2. IsPrefix(p, s) <=> Len(p) <= Len(s) /\ \A i \in 1 .. Len(p) : s[i] = p[i]
  BY <1>1, PrefixTokens
<1>3. IsPrefix(p, s) <=> Len(s) >= 2 /\ s[1] = "/" /\ s[2] = "/"
  <2>1. Len(s) \in Nat
    OBVIOUS
  <2>2. (\A i \in 1 .. 2 : s[i] = p[i]) <=> s[1] = "/" /\ s[2] = "/"
    BY <1>1
  <2> QED BY <1>1, <1>2, <2>1, <2>2
<1> QED BY <1>3 DEF p

\* The places where a scheme ends.
LEMMA SeparatorPlaces ==
  ASSUME NEW s \in Seq(Symbols), NEW i \in 1 .. (Len(s) - 2)
  PROVE  i \in Separators(s) <=> s[i] = ":" /\ s[i + 1] = "/" /\ s[i + 2] = "/"
<1> DEFINE p == <<":", "/", "/">>
           q == SubSeq(s, i, i + 2)
<1>1. p \in Seq(Symbols) /\ Len(p) = 3 /\ p[1] = ":" /\ p[2] = "/" /\ p[3] = "/"
  BY SymbolTypes
<1>2. q \in Seq(Symbols) /\ Len(q) = 3 /\ q[1] = s[i] /\ q[2] = s[i + 1] /\ q[3] = s[i + 2]
  <2> DEFINE n == 3
  <2>1. i \in Nat \ {0} /\ n \in Nat /\ i + n - 1 <= Len(s) /\ i + n - 1 = i + 2 /\ n = 3
    OBVIOUS
  <2> HIDE DEF n
  <2>2. /\ SubSeq(s, i, i + n - 1) \in Seq(Symbols) /\ Len(SubSeq(s, i, i + n - 1)) = n
        /\ \A j \in 1 .. n : SubSeq(s, i, i + n - 1)[j] = s[i + j - 1]
    BY <2>1, SlicesEqual
  <2>3. q \in Seq(Symbols) /\ Len(q) = 3 /\ \A j \in 1 .. 3 : q[j] = s[i + j - 1]
    BY <2>1, <2>2
  <2> HIDE DEF q
  <2>4. i + 1 - 1 = i /\ i + 2 - 1 = i + 1 /\ i + 3 - 1 = i + 2
    OBVIOUS
  <2> QED BY <2>3, <2>4
<1>3. i \in Separators(s) <=> q = p
  BY DEF Separators
<1> HIDE DEF p, q
<1>4. q = p <=> \A j \in 1 .. 3 : q[j] = p[j]
  BY <1>1, <1>2, SeqEqual
<1>5. (\A j \in 1 .. 3 : q[j] = p[j]) <=> q[1] = p[1] /\ q[2] = p[2] /\ q[3] = p[3]
  OBVIOUS
<1> QED BY <1>1, <1>2, <1>3, <1>4, <1>5

\* A path and a query come apart at the first "?".
LEMMA PathAndQuery ==
  ASSUME NEW h \in Seq(Symbols)
  PROVE  LET path == Before(h, {"?"})
             query == From(h, {"?"})
         IN  /\ path \in Seq(Symbols) /\ query \in Seq(Symbols) /\ path \o query = h
             /\ path = <<>> <=> h = <<>> \/ h[1] = "?"
             /\ path = <<>> => query = h
             /\ path # <<>> => Head(path) = Head(h)
<1> DEFINE path == Before(h, {"?"})
           query == From(h, {"?"})
           n == Len(path)
<1>1. /\ path \in Seq(Symbols) /\ query \in Seq(Symbols) /\ path \o query = h
      /\ n \in 0 .. Len(h) /\ Len(query) = Len(h) - n
      /\ \A i \in 1 .. n : path[i] = h[i] /\ h[i] \notin {"?"}
      /\ \A i \in 1 .. (Len(h) - n) : query[i] = h[n + i]
      /\ n # Len(h) => h[n + 1] \in {"?"}
  BY Splitting
<1> HIDE DEF path, query
<1>2. Len(h) \in Nat /\ (h = <<>> <=> Len(h) = 0) /\ (path = <<>> <=> n = 0)
  BY <1>1, EmptySeq
<1>3. path = <<>> <=> h = <<>> \/ h[1] = "?"
  BY <1>1, <1>2
<1>4. path = <<>> => query = h
  <2> SUFFICES ASSUME path = <<>> PROVE query = h
    OBVIOUS
  <2>1. n = 0
    BY <1>2
  <2>2. Len(query) = Len(h) /\ \A i \in 1 .. Len(h) : query[i] = h[i]
    BY <1>1, <1>2, <2>1
  <2> QED BY <1>1, <2>2, SeqEqual
<1>5. path # <<>> => Head(path) = Head(h)
  <2> SUFFICES ASSUME path # <<>> PROVE Head(path) = Head(h)
    OBVIOUS
  <2>1. 1 \in 1 .. n /\ h # <<>>
    BY <1>1, <1>2
  <2>2. path[1] = h[1]
    BY <1>1, <2>1
  <2> QED BY <1>1, <2>1, <2>2
<1> QED BY <1>1, <1>3, <1>4, <1>5 DEF path, query

\* A reference that names no authority is resolved against the target.
LEMMA RelativeResolved ==
  ASSUME NEW l \in Seq(Symbols), l # <<>>, NEW t \in Seq(Symbols), IsTarget(t)
  PROVE  ResolveRelative(l, t)
           = (IF Before(l, {"?"}) = <<>> THEN Before(t, {"?"})
              ELSE IF Head(Before(l, {"?"})) = "/" THEN Before(l, {"?"})
              ELSE ToLastSlash(Before(t, {"?"})) \o Before(l, {"?"})) \o From(l, {"?"})
<1> DEFINE path == Before(l, {"?"})
           query == From(l, {"?"})
           base == Before(t, {"?"})
           dir == ToLastSlash(base)
<1>1. /\ path \in Seq(Symbols) /\ query \in Seq(Symbols) /\ path \o query = l
      /\ path = <<>> <=> l = <<>> \/ l[1] = "?"
      /\ path = <<>> => query = l
      /\ path # <<>> => Head(path) = Head(l)
  BY PathAndQuery
<1>2. Head(l) = l[1]
  OBVIOUS
<1>3. t \in Seq(Symbols) /\ Len(t) >= 1 /\ t[1] = "/"
  BY Rooted DEF IsTarget
<1>4. base \in Seq(Symbols) /\ base # <<>> /\ base[1] = "/"
  <2>1. /\ base \in Seq(Symbols)
        /\ base = <<>> <=> t = <<>> \/ t[1] = "?"
        /\ base # <<>> => Head(base) = Head(t)
    BY PathAndQuery
  <2> HIDE DEF base
  <2>2. t # <<>>
    BY <1>3
  <2>3. base \in Seq(Symbols) /\ base # <<>> /\ Head(base) = Head(t)
    BY <1>3, <2>1, <2>2
  <2> QED BY <1>3, <2>2, <2>3
<1>5. Directory(t) = dir
  <2> HIDE DEF base
  <2>1. "/" \in ToSet(base)
    <3>1. 1 \in DOMAIN base
      BY <1>4
    <3> QED BY <1>4, <3>1 DEF ToSet
  <2> QED BY <2>1 DEF Directory, base
<1>6. dir \in Seq(Symbols)
  <2> DEFINE I == {i \in DOMAIN base : base[i] = "/"} \cup {0}
             m == Max(I)
  <2> HIDE DEF base
  <2>0. Len(base) \in Nat /\ DOMAIN base = 1 .. Len(base)
    BY <1>4
  <2>1. I \subseteq 0 .. Len(base) /\ I # {}
    BY <2>0
  <2>2. m \in 0 .. Len(base)
    <3> HIDE DEF I
    <3>1. m \in I
      BY <2>0, <2>1, MaxIsGreatest
    <3> QED BY <2>1, <3>1
  <2>3. dir = SubSeq(base, 1, m)
    BY DEF ToLastSlash
  <2> HIDE DEF m, dir
  <2> QED BY <1>4, <2>2, <2>3, SplitJoins
<1>7. ResolveRelative(l, t) = CASE l[1] = "/" -> l [] l[1] = "?" -> base \o l [] OTHER -> dir \o l
  BY <1>2, <1>5 DEF ResolveRelative
<1> HIDE DEF path, query, base, dir
<1>8. (dir \o path) \o query = dir \o (path \o query)
  <2>1. dir \in Seq(Symbols) /\ path \in Seq(Symbols) /\ query \in Seq(Symbols)
    BY <1>1, <1>6
  <2> QED BY <2>1, ConcatAssociative
<1>9. CASE path = <<>>
  <2>1. l[1] = "?" /\ query = l
    BY <1>1, <1>9
  <2>2. ResolveRelative(l, t) = base \o query
    BY <1>7, <2>1
  <2> QED BY <1>9, <2>2 DEF path, query, base, dir
<1>10. CASE path # <<>> /\ Head(path) = "/"
  <2>1. ResolveRelative(l, t) = path \o query
    BY <1>1, <1>2, <1>7, <1>10
  <2> QED BY <1>10, <2>1 DEF path, query, base, dir
<1>11. CASE path # <<>> /\ Head(path) # "/"
  <2>1. l[1] # "/" /\ l[1] # "?"
    BY <1>1, <1>2, <1>11
  <2>2. ResolveRelative(l, t) = (dir \o path) \o query
    BY <1>1, <1>7, <1>8, <2>1
  <2> QED BY <1>11, <2>2 DEF path, query, base, dir
<1> QED BY <1>9, <1>10, <1>11

\* Parsed, part by part.
Word(l) == Before(l, {":", "/", "?"})
HasScheme(l) == Word(l) # <<>> /\ From(l, {":", "/", "?"}) # <<>>
                /\ Head(From(l, {":", "/", "?"})) = ":"
Rest(l) == IF HasScheme(l) THEN Drop(l, Len(Word(l)) + 1) ELSE l
Net(l) == IsPrefix(<<"/", "/">>, Rest(l))
Hierarchy(l) == IF Net(l) THEN From(Drop(Rest(l), 2), {"/", "?"}) ELSE Rest(l)

\* The parts of a parsed location, by the names used here.
LEMMA ParsedParts ==
  ASSUME NEW raw
  PROVE  LET l == WithoutFragment(raw)
             p == Parsed(raw)
         IN  /\ p.hasScheme = HasScheme(l) /\ p.scheme = Word(l)
             /\ p.hasAuthority = Net(l)
             /\ Net(l) => p.authority = Before(Drop(Rest(l), 2), {"/", "?"})
             /\ p.path = Before(Hierarchy(l), {"?"}) /\ p.query = From(Hierarchy(l), {"?"})
  BY DEF Parsed, WithoutFragment, Word, HasScheme, Rest, Net, Hierarchy

\* Where a scheme ends.
LEMMA SchemeEnds ==
  ASSUME NEW l \in Seq(Symbols)
  PROVE  LET n == Len(Word(l))
         IN  /\ n \in 0 .. Len(l)
             /\ HasScheme(l) <=> n # 0 /\ n # Len(l) /\ l[n + 1] = ":"
<1> DEFINE b == Word(l)
           f == From(l, {":", "/", "?"})
           n == Len(b)
<1>1. /\ b \in Seq(Symbols) /\ f \in Seq(Symbols) /\ n \in 0 .. Len(l) /\ Len(f) = Len(l) - n
      /\ \A i \in 1 .. (Len(l) - n) : f[i] = l[n + i]
  BY Splitting DEF Word
<1>2. HasScheme(l) <=> b # <<>> /\ f # <<>> /\ Head(f) = ":"
  BY DEF HasScheme
<1> HIDE DEF b, f
<1>3. Len(l) \in Nat /\ (b = <<>> <=> n = 0) /\ (f = <<>> <=> Len(f) = 0) /\ (f # <<>> => Head(f) = f[1])
  BY <1>1, EmptySeq
<1>4. f = <<>> <=> n = Len(l)
  BY <1>1, <1>3
<1>5. f # <<>> => f[1] = l[n + 1]
  <2> SUFFICES ASSUME f # <<>> PROVE f[1] = l[n + 1]
    OBVIOUS
  <2>1. 1 \in 1 .. (Len(l) - n)
    BY <1>1, <1>3, <1>4
  <2> QED BY <1>1, <2>1
<1>6. HasScheme(l) <=> n # 0 /\ n # Len(l) /\ l[n + 1] = ":"
  BY <1>2, <1>3, <1>4, <1>5
<1> QED BY <1>1, <1>6 DEF b

\* A location that begins with the scheme and "://" ...
LEMMA WithScheme ==
  ASSUME NEW l \in Seq(Symbols), Separators(l) # {},
         SubSeq(l, 1, Min(Separators(l)) - 1) = <<scheme>>
  PROVE  /\ Min(Separators(l)) = 2 /\ HasScheme(l) /\ Word(l) = <<scheme>>
         /\ Net(l) /\ Drop(Rest(l), 2) = Drop(l, 4) /\ Drop(l, 4) \in Seq(Symbols)
<1> DEFINE m == Min(Separators(l))
<1>0. Len(l) \in Nat
  OBVIOUS
<1>1. m \in Separators(l)
  <2>1. Separators(l) \subseteq Nat
    BY <1>0 DEF Separators
  <2> QED BY <2>1, MinIsLeast
<1> HIDE DEF m
<1>2. m \in 1 .. (Len(l) - 2) /\ l[m] = ":" /\ l[m + 1] = "/" /\ l[m + 2] = "/"
  <2>1. m \in 1 .. (Len(l) - 2)
    BY <1>1 DEF Separators
  <2> QED BY <1>1, <2>1, SeparatorPlaces
<1>3. SubSeq(l, 1, m - 1) = <<scheme>>
  BY DEF m
<1> DEFINE k == m - 1
<1>4. k \in 0 .. Len(l) /\ k + 1 = m
  BY <1>0, <1>2
<1> DEFINE w == SubSeq(l, 1, k)
<1>5. Len(w) = k /\ \A i \in 1 .. k : w[i] = l[i]
  <2> HIDE DEF k
  <2> QED BY <1>4, SplitJoins
<1>6. w = <<scheme>> /\ Len(<<scheme>>) = 1 /\ <<scheme>>[1] = scheme
  BY <1>3
<1> HIDE DEF k, w
<1>7. k = 1 /\ m = 2 /\ l[1] = scheme
  <2>1. k = 1
    BY <1>5, <1>6
  <2>2. w[1] = l[1]
    BY <1>5, <2>1
  <2> QED BY <1>4, <1>6, <2>1, <2>2
<1>8. Len(l) >= 4 /\ l[2] = ":" /\ l[3] = "/" /\ l[4] = "/"
  BY <1>0, <1>2, <1>7
<1>9. Word(l) = SubSeq(l, 1, 1) /\ Len(Word(l)) = 1
  <2> DEFINE T == {":", "/", "?"}
  <2>1. 1 \in 0 .. Len(l) /\ (\A i \in 1 .. 1 : l[i] \notin T) /\ l[1 + 1] \in T
    BY <1>0, <1>7, <1>8, RedirectAssumption
  <2>2. Before(l, T) = SubSeq(l, 1, 1) /\ Len(Before(l, T)) = 1
    <3> HIDE DEF T
    <3> QED BY <2>1, SplitsAt
  <2> QED BY <2>2 DEF Word
<1>10. Word(l) = <<scheme>>
  BY <1>6, <1>7, <1>9 DEF w
<1>11. HasScheme(l)
  <2> DEFINE n == Len(Word(l))
  <2>1. HasScheme(l) <=> n # 0 /\ n # Len(l) /\ l[n + 1] = ":"
    BY SchemeEnds
  <2>2. n = 1
    BY <1>9
  <2> HIDE DEF n
  <2> QED BY <1>8, <2>1, <2>2
<1>12. Rest(l) = Drop(l, 2)
  BY <1>9, <1>11 DEF Rest
<1>13. /\ Drop(l, 2) \in Seq(Symbols) /\ Len(Drop(l, 2)) = Len(l) - 2
       /\ \A i \in 1 .. (Len(l) - 2) : Drop(l, 2)[i] = l[2 + i]
  <2>1. 2 \in 0 .. Len(l)
    BY <1>0, <1>8
  <2> QED BY <2>1, Dropping
<1>14. Net(l)
  <2> DEFINE d == Drop(l, 2)
  <2>1. 1 \in 1 .. (Len(l) - 2) /\ 2 \in 1 .. (Len(l) - 2) /\ 2 + 1 = 3 /\ 2 + 2 = 4
    BY <1>0, <1>8
  <2>2. d[1] = l[3] /\ d[2] = l[4]
    BY <1>13, <2>1
  <2>3. Len(d) >= 2 /\ d[1] = "/" /\ d[2] = "/" /\ d \in Seq(Symbols)
    BY <1>0, <1>8, <1>13, <2>2
  <2> HIDE DEF d
  <2>4. IsPrefix(<<"/", "/">>, d)
    BY <2>3, NetworkPath
  <2> QED BY <1>12, <2>4 DEF Net, d
<1>15. Drop(Drop(l, 2), 2) = Drop(l, 4) /\ Drop(l, 4) \in Seq(Symbols)
  <2>1. 2 + 2 <= Len(l) /\ 2 + 2 = 4 /\ 4 \in 0 .. Len(l)
    BY <1>0, <1>8
  <2>2. Drop(Drop(l, 2), 2) = Drop(l, 2 + 2)
    BY <2>1, DroppingTwice
  <2>3. Drop(l, 4) \in Seq(Symbols)
    BY <2>1, Dropping
  <2> QED BY <2>1, <2>2, <2>3
<1> QED BY <1>7, <1>10, <1>11, <1>12, <1>14, <1>15 DEF m

\* ... one that begins with "//" ...
LEMMA WithoutScheme ==
  ASSUME NEW l \in Seq(Symbols), IsPrefix(<<"/", "/">>, l)
  PROVE  /\ ~HasScheme(l) /\ Net(l) /\ Rest(l) = l /\ Drop(l, 2) \in Seq(Symbols)
<1>0. Len(l) \in Nat /\ Len(l) >= 2 /\ l[1] = "/" /\ l[2] = "/"
  BY NetworkPath
<1>1. Len(Word(l)) = 0
  <2> DEFINE T == {":", "/", "?"}
  <2>1. 0 \in 0 .. Len(l) /\ (\A i \in 1 .. 0 : l[i] \notin T) /\ l[0 + 1] \in T
    BY <1>0
  <2>2. Len(Before(l, T)) = 0
    <3> HIDE DEF T
    <3> QED BY <2>1, SplitsAt
  <2> QED BY <2>2 DEF Word
<1>2. ~HasScheme(l)
  BY <1>1, SchemeEnds
<1>3. Drop(l, 2) \in Seq(Symbols)
  BY <1>0, Dropping
<1> QED BY <1>2, <1>3 DEF Rest, Net

\* ... and one that does neither and has no "://", which names no authority.
LEMMA WithoutAuthority ==
  ASSUME NEW l \in Seq(Symbols), Separators(l) = {}, ~IsPrefix(<<"/", "/">>, l)
  PROVE  ~Net(l)
<1> SUFFICES ASSUME Net(l) PROVE FALSE
  OBVIOUS
<1>1. HasScheme(l)
  BY DEF Net, Rest
<1> DEFINE n == Len(Word(l))
<1>2. n \in 0 .. Len(l) /\ n # 0 /\ n # Len(l) /\ l[n + 1] = ":"
  BY <1>1, SchemeEnds
<1>3. IsPrefix(<<"/", "/">>, Drop(l, n + 1))
  BY <1>1 DEF Net, Rest
<1> HIDE DEF n
<1> DEFINE d == Drop(l, n + 1)
<1>4. Len(l) \in Nat /\ n + 1 \in 0 .. Len(l)
  BY <1>2
<1>5. /\ d \in Seq(Symbols) /\ Len(d) = Len(l) - (n + 1)
      /\ \A i \in 1 .. (Len(l) - (n + 1)) : d[i] = l[(n + 1) + i]
  BY <1>4, Dropping
<1>6. IsPrefix(<<"/", "/">>, d)
  BY <1>3
<1> HIDE DEF d
<1>7. Len(d) >= 2 /\ d[1] = "/" /\ d[2] = "/"
  BY <1>5, <1>6, NetworkPath
<1>8. n + 1 \in 1 .. (Len(l) - 2) /\ l[(n + 1) + 1] = "/" /\ l[(n + 1) + 2] = "/"
  <2>1. 1 \in 1 .. (Len(l) - (n + 1)) /\ 2 \in 1 .. (Len(l) - (n + 1))
        /\ n + 1 \in 1 .. (Len(l) - 2)
    BY <1>2, <1>4, <1>5, <1>7
  <2> QED BY <1>5, <1>7, <2>1
<1>9. n + 1 \in Separators(l)
  BY <1>2, <1>8, SeparatorPlaces
<1> QED BY <1>9

\* What is followed of an authority and what stands behind it.
LEMMA AbsoluteFollowed ==
  ASSUME NEW a \in Seq(Symbols), NormalizeAbsolute(a) # <<>>, NEW t,
         NEW p, p.hasAuthority, p.path = Before(From(a, {"/", "?"}), {"?"}),
         p.query = From(From(a, {"/", "?"}), {"?"})
  PROVE  Before(a, {"/", "?"}) = authority /\ NormalizeAbsolute(a) = Resolved(p, t)
<1> DEFINE h == From(a, {"/", "?"})
<1>1. h \in Seq(Symbols) /\ (h = <<>> \/ h[1] \in {"/", "?"})
  <2> DEFINE n == Len(Before(a, {"/", "?"}))
  <2>1. /\ h \in Seq(Symbols) /\ n \in 0 .. Len(a) /\ Len(h) = Len(a) - n
        /\ \A i \in 1 .. (Len(a) - n) : h[i] = a[n + i]
        /\ n # Len(a) => a[n + 1] \in {"/", "?"}
    BY Splitting
  <2> HIDE DEF h, n
  <2>2. Len(a) \in Nat /\ (h = <<>> <=> Len(h) = 0)
    BY <2>1, EmptySeq
  <2>3. h # <<>> => h[1] = a[n + 1] /\ n # Len(a)
    BY <2>1, <2>2
  <2> QED BY <2>1, <2>3
<1>2. /\ Before(a, {"/", "?"}) = authority
      /\ NormalizeAbsolute(a) = IF h # <<>> /\ Head(h) = "/" THEN h ELSE <<"/">> \o h
  BY DEF NormalizeAbsolute, OwnAuthority
<1>3. p.path = Before(h, {"?"}) /\ p.query = From(h, {"?"})
  OBVIOUS
<1> HIDE DEF h
<1>4. /\ p.path \o p.query = h
      /\ p.path = <<>> <=> h = <<>> \/ h[1] = "?"
      /\ p.path = <<>> => p.query = h
  BY <1>1, <1>3, PathAndQuery
<1>5. Resolved(p, t) = (IF p.path = <<>> THEN <<"/">> ELSE p.path) \o p.query
  BY DEF Resolved
<1>6. h # <<>> => Head(h) = h[1]
  BY <1>1
<1>7. CASE p.path = <<>>
  <2>1. ~(h # <<>> /\ Head(h) = "/") /\ p.query = h
    BY <1>4, <1>6, <1>7
  <2>2. NormalizeAbsolute(a) = <<"/">> \o h
    BY <1>2, <2>1
  <2> QED BY <1>2, <1>5, <1>7, <2>1, <2>2
<1>8. CASE p.path # <<>>
  <2>1. h # <<>> /\ Head(h) = "/"
    BY <1>1, <1>4, <1>6, <1>8
  <2>2. NormalizeAbsolute(a) = h
    BY <1>2, <2>1
  <2> QED BY <1>2, <1>4, <1>5, <1>8, <2>2
<1> QED BY <1>7, <1>8

\* A location is followed to the authority of the scrape and, if it is of the
\* same origin, to where it says.
LEMMA NormalizedAsMeant ==
  ASSUME NEW raw \in Seq(Symbols), NEW t \in Seq(Symbols), NormalizeLocation(raw, t) # <<>>
  PROVE  /\ Parsed(raw).hasAuthority => Parsed(raw).authority = authority
         /\ IsTarget(t) /\ SameOrigin(Parsed(raw)) =>
              NormalizeLocation(raw, t) = Resolved(Parsed(raw), t)
<1> DEFINE l == WithoutFragment(raw)
           p == Parsed(raw)
           E == {"/", "?"}
<1>1. l \in Seq(Symbols)
  BY Splitting DEF WithoutFragment
<1>2. /\ p.hasScheme = HasScheme(l) /\ p.scheme = Word(l)
      /\ p.hasAuthority = Net(l)
      /\ Net(l) => p.authority = Before(Drop(Rest(l), 2), E)
      /\ p.path = Before(Hierarchy(l), {"?"}) /\ p.query = From(Hierarchy(l), {"?"})
  BY ParsedParts
<1> DEFINE followed == NormalizeLocation(raw, t)
<1>3. /\ l # <<>>
      /\ followed = IF Separators(l) # {}
                     THEN IF SubSeq(l, 1, Min(Separators(l)) - 1) = <<scheme>>
                          THEN NormalizeAbsolute(Drop(l, Min(Separators(l)) + 2)) ELSE <<>>
                     ELSE IF IsPrefix(<<"/", "/">>, l) THEN NormalizeAbsolute(Drop(l, 2))
                     ELSE ResolveRelative(l, t)
  BY DEF NormalizeLocation
<1>4. followed # <<>>
  OBVIOUS
<1> HIDE DEF l, p, followed
<1>5. ASSUME NEW a \in Seq(Symbols), followed = NormalizeAbsolute(a), Net(l),
             Drop(Rest(l), 2) = a
      PROVE  p.authority = authority /\ followed = Resolved(p, t)
  <2>1. Hierarchy(l) = From(a, E)
    BY <1>5 DEF Hierarchy
  <2>2. p.hasAuthority /\ p.path = Before(From(a, E), {"?"}) /\ p.query = From(From(a, E), {"?"})
    BY <1>2, <1>5, <2>1
  <2>3. Before(a, E) = authority /\ NormalizeAbsolute(a) = Resolved(p, t)
    BY <1>4, <1>5, <2>2, AbsoluteFollowed
  <2> QED BY <1>2, <1>5, <2>3
<1>6. CASE Separators(l) # {}
  <2>1. SubSeq(l, 1, Min(Separators(l)) - 1) = <<scheme>>
    BY <1>3, <1>4, <1>6
  <2>2. Min(Separators(l)) = 2 /\ Net(l) /\ Drop(Rest(l), 2) = Drop(l, 4) /\ Drop(l, 4) \in Seq(Symbols)
    BY <1>1, <1>6, <2>1, WithScheme
  <2>3. followed = NormalizeAbsolute(Drop(l, 4))
    <3>1. followed = NormalizeAbsolute(Drop(l, Min(Separators(l)) + 2))
      BY <1>3, <1>6, <2>1
    <3>2. Min(Separators(l)) + 2 = 4
      BY <2>2
    <3> QED BY <3>1, <3>2
  <2>4. p.authority = authority /\ followed = Resolved(p, t)
    BY <1>5, <2>2, <2>3
  <2> QED BY <2>4 DEF p, followed
<1>7. CASE Separators(l) = {} /\ IsPrefix(<<"/", "/">>, l)
  <2>1. Net(l) /\ Rest(l) = l /\ Drop(l, 2) \in Seq(Symbols)
    BY <1>1, <1>7, WithoutScheme
  <2>2. followed = NormalizeAbsolute(Drop(l, 2))
    BY <1>3, <1>7
  <2>3. p.authority = authority /\ followed = Resolved(p, t)
    BY <1>5, <2>1, <2>2
  <2> QED BY <2>3 DEF p, followed
<1>8. CASE Separators(l) = {} /\ ~IsPrefix(<<"/", "/">>, l)
  <2>1. ~Net(l) /\ ~p.hasAuthority
    BY <1>1, <1>2, <1>8, WithoutAuthority
  <2>2. followed = ResolveRelative(l, t)
    BY <1>3, <1>8
  <2>3. ASSUME IsTarget(t), SameOrigin(p) PROVE followed = Resolved(p, t)
    <3>1. ~HasScheme(l)
      BY <1>2, <2>1, <2>3 DEF SameOrigin
    <3>2. p.path = Before(l, {"?"}) /\ p.query = From(l, {"?"})
      BY <1>2, <2>1, <3>1 DEF Hierarchy, Rest
    <3>3. Resolved(p, t) = (IF p.path = <<>> THEN Before(t, {"?"})
                            ELSE IF Head(p.path) = "/" THEN p.path
                            ELSE ToLastSlash(Before(t, {"?"})) \o p.path) \o p.query
      BY <2>1 DEF Resolved
    <3>4. ResolveRelative(l, t)
           = (IF Before(l, {"?"}) = <<>> THEN Before(t, {"?"})
              ELSE IF Head(Before(l, {"?"})) = "/" THEN Before(l, {"?"})
              ELSE ToLastSlash(Before(t, {"?"})) \o Before(l, {"?"})) \o From(l, {"?"})
      BY <1>1, <1>3, <2>3, RelativeResolved
    <3> QED BY <2>2, <3>2, <3>3, <3>4
  <2> QED BY <2>1, <2>3 DEF p, followed
<1> QED BY <1>6, <1>7, <1>8

\* The answer is what the policy makes of the location and the target.
Answers ==
  /\ location \in Seq(Symbols) /\ current \in Seq(Symbols)
  /\ Followed => answer = NormalizeLocation(location, current)

\* What is followed is always the normalized location.
LEMMA AnswersInvariant == RedirectSpec => []Answers
<1>1. RedirectInit => Answers
  BY RedirectAssumption, SymbolTypes DEF RedirectInit, Answers, Followed
<1>2. Answers /\ [RedirectNext]_redirectVars => Answers'
  BY DEF Answers, RedirectNext, Answer, RedirectTarget, Followed, redirectVars
<1> QED BY <1>1, <1>2, PTL DEF RedirectSpec

\* A redirect that names an authority of its own is followed only to the
\* scrape's, whatever else the location contains.
THEOREM RedirectsStay == RedirectSpec => []ForeignAuthorityRefused
<1>1. Answers => ForeignAuthorityRefused
  BY NormalizedAsMeant DEF Answers, ForeignAuthorityRefused, Followed
<1> QED BY <1>1, AnswersInvariant, PTL

\* Where a same-origin redirect is followed to is what the reference means, if
\* the response is to the target of a URI.
THEOREM RedirectsMeanWhatTheySay == RedirectSpec => []FollowedAsMeant
<1>1. Answers => FollowedAsMeant
  BY NormalizedAsMeant DEF Answers, FollowedAsMeant, Followed
<1> QED BY <1>1, AnswersInvariant, PTL
=============================================================================
