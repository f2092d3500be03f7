---------------------------- MODULE ProgramProofs ----------------------------
(***************************************************************************)
(* One invocation, for every command line: what a run that is refused      *)
(* leaves behind, what one that goes on does with its options, and what it *)
(* takes the authorities for.                                              *)
(***************************************************************************)
EXTENDS Program, Foundations

\* What each stage of main has established for those after it.
Accepted == line.parses /\ ~line.help /\ Valid /\ options = Finished
Allocated == options.numbers["ssize"] <= MaxWindow
Wanted == ~BadPattern /\ ~options.test
Resolved == connection = Policy /\ Target.ok /\ (Proxied => Via.ok)

AfterOptions == {"controllers", "generator", "connection", "output", "scrape"}

Stages ==
  /\ line \in Lines
  /\ place \in AfterOptions \cup {"options", "over"}
  /\ place \in AfterOptions => Accepted
  /\ place \in AfterOptions \ {"controllers"} => Allocated
  /\ place \in {"connection", "output", "scrape"} => Wanted
  /\ place \in {"output", "scrape"} => Resolved
  /\ place = "scrape" => query = Query /\ files # {}
  /\ place # "over" => status = -1 /\ ~requested
  /\ place \notin {"scrape", "over"} => files = {}

-----------------------------------------------------------------------------
\* The order of main's stages.
LEMMA NextPlace ==
  ASSUME GoOn
  PROVE  /\ place = "options" => place' = "controllers"
         /\ place = "controllers" => place' = "generator"
         /\ place = "generator" => place' = "connection"
         /\ place = "connection" => place' = "output"
         /\ place = "output" => place' = "scrape"
<1>1. PICK i \in 1 .. 5 : Order[i] = place /\ place' = Order[i + 1]
  BY DEF GoOn, Order
<1> QED
  BY <1>1 DEF Order

\* The program starts at its options.
LEMMA InitStages == Init => Stages
  BY DEF Init, Stages, AfterOptions

\* Each stage finds what the ones before it established and adds its own.
LEMMA StepStages == Stages /\ [Next]_vars => Stages'
<1> SUFFICES ASSUME Stages, [Next]_vars PROVE Stages'
  OBVIOUS
<1> DEFINE Over == place' = "over" /\ UNCHANGED line
<1>1. Over => Stages'
  BY DEF Stages, AfterOptions
<1>2. CASE Refuse \/ Help
  BY <1>1, <1>2 DEF Refuse, Help, Exit
<1>3. CASE Accept
  <2>1. place' = "controllers" /\ UNCHANGED <<line, parts, status>> /\ place = "options"
    BY <1>3, NextPlace DEF Accept, GoOn
  <2>2. Accepted'
    BY <1>3, <2>1 DEF Accept, Accepted, Valid, Filters, Finished
  <2> QED
    BY <2>1, <2>2 DEF Stages, AfterOptions, parts
<1>4. CASE Controllers
  <2>1. CASE GoOn
    <3>1. place = "controllers" /\ place' = "generator" /\ UNCHANGED <<line, options, parts, status>>
      BY <1>4, <2>1, NextPlace DEF Controllers, GoOn
    <3>2. Allocated'
      BY <1>4, <3>1 DEF Controllers, Exit, Allocated
    <3>3. Accepted'
      BY <3>1 DEF Stages, AfterOptions, Accepted, Valid, Filters, Finished
    <3> QED
      BY <3>1, <3>2, <3>3 DEF Stages, AfterOptions, parts
  <2> QED
    BY <1>1, <1>4, <2>1 DEF Controllers, Exit
<1>5. CASE Generator
  <2>1. CASE GoOn /\ Wanted
    <3>1. place = "generator" /\ place' = "connection" /\ UNCHANGED <<line, options, parts, status>>
      BY <1>5, <2>1, NextPlace DEF Generator, GoOn
    <3>2. Accepted' /\ Allocated'
      BY <3>1 DEF Stages, AfterOptions, Accepted, Allocated, Valid, Filters, Finished
    <3>3. Wanted'
      BY <2>1, <3>1 DEF Wanted, BadPattern
    <3> QED
      BY <3>1, <3>2, <3>3 DEF Stages, AfterOptions, parts
  <2>2. CASE Exit(0) \/ Exit(1)
    BY <1>1, <1>5, <2>2 DEF Generator, Exit
  <2> QED
    BY <1>5, <2>1, <2>2 DEF Generator, Wanted, Stages, AfterOptions, Accepted, Finished
<1>6. CASE ConnectionRefused \/ OutputRefused
  BY <1>1, <1>6 DEF ConnectionRefused, OutputRefused, Exit
<1>7. CASE Connection
  <2>1. /\ place = "connection" /\ place' = "output"
        /\ UNCHANGED <<line, options, query, files, requested, status>>
    BY <1>7, NextPlace DEF Connection, GoOn
  <2>2. Accepted' /\ Allocated' /\ Wanted'
    BY <2>1 DEF Stages, AfterOptions, Accepted, Allocated, Wanted, BadPattern, Valid, Filters,
       Finished
  <2>3. Resolved'
    BY <1>7, <2>1 DEF Connection, Resolved, Policy, Target, Via, Proxied, DefaultPort
  <2> QED
    BY <2>1, <2>2, <2>3 DEF Stages, AfterOptions
<1>8. CASE Output
  <2>1. /\ place = "output" /\ place' = "scrape"
        /\ UNCHANGED <<line, options, connection, requested, status>>
    BY <1>8, NextPlace DEF Output, GoOn
  <2>2. Accepted' /\ Allocated' /\ Wanted'
    BY <2>1 DEF Stages, AfterOptions, Accepted, Allocated, Wanted, BadPattern, Valid, Filters,
       Finished
  <2>3. Resolved'
    BY <2>1 DEF Stages, Resolved, Policy, Target, Via, Proxied, DefaultPort
  <2>4. query' = Query' /\ files' # {}
    BY <1>8, <2>1 DEF Output, Query, RedirectPolicy
  <2> QED
    BY <2>1, <2>2, <2>3, <2>4 DEF Stages, AfterOptions
<1>9. ASSUME NEW has_errors \in BOOLEAN, Scrape(has_errors) PROVE Stages'
  BY <1>1, <1>9 DEF Scrape, Exit
<1>10. CASE UNCHANGED vars
  BY <1>10 DEF vars, parts, Stages, Accepted, Allocated, Wanted, Resolved, BadPattern, Valid,
     Filters, Finished, Policy, Target, Via, Proxied, DefaultPort, Query, RedirectPolicy
<1> QED
  BY <1>2, <1>3, <1>4, <1>5, <1>6, <1>7, <1>8, <1>9, <1>10 DEF Next

\* The invariant the theorems below start from.
LEMMA StagesInvariant == Spec => []Stages
  BY InitStages, StepStages, PTL DEF Spec

-----------------------------------------------------------------------------
\* Command lines are records of the fields the options have.
LEMMA LineTypes ==
  ASSUME line \in Lines
  PROVE  /\ line.numbers \in [NumberOptions -> Int]
         /\ line.max_redirects \subseteq Int
         /\ line.help \in BOOLEAN /\ line.parses \in BOOLEAN /\ line.test \in BOOLEAN
         /\ line.tls \in BOOLEAN /\ line.verify \in BOOLEAN
  BY LinesAssumption

\* What the options say after the validation, field by field.
LEMMA FinishedFields ==
  ASSUME line \in Lines, options = Finished
  PROVE  /\ options.rejected = line.rejected \cup line.screen
         /\ options.tls = AsksTls(line)
         /\ options.proxy = IF line.proxy = <<>> /\ line.tor THEN TorProxy ELSE line.proxy
         /\ options.numbers = [option \in NumberOptions |-> ToSize(line.numbers[option])]
         /\ options.required = line.required /\ options.contents = line.contents
         /\ options.follow = line.follow /\ options.max_redirects = line.max_redirects
         /\ options.verify = line.verify /\ options.test = line.test
         /\ options.host = line.host
<1>1. /\ options.rejected = line.rejected \cup line.screen
      /\ options.tls = AsksTls(line)
      /\ options.proxy = IF line.proxy = <<>> /\ line.tor THEN TorProxy ELSE line.proxy
  BY LinesAssumption DEF Finished
<1>2. options.numbers = [option \in DOMAIN line.numbers |-> ToSize(line.numbers[option])]
  BY LinesAssumption DEF Finished
<1>3. DOMAIN line.numbers = NumberOptions
  BY LineTypes
<1>4. /\ options.required = line.required /\ options.contents = line.contents
      /\ options.follow = line.follow /\ options.max_redirects = line.max_redirects
      /\ options.verify = line.verify /\ options.test = line.test
      /\ options.host = line.host
  BY LinesAssumption DEF Finished
<1> QED
  BY <1>1, <1>2, <1>3, <1>4

\* The parser's arithmetic stays within a size_t.
LEMMA SizeRange ==
  ASSUME NEW n \in Int
  PROVE  ToSize(n) \in 0 .. SizeMax
<1>1. SizeMax + 1 \in Nat \ {0}
  BY SizeAssumption
<1> QED
  BY <1>1, SizeAssumption DEF ToSize

-----------------------------------------------------------------------------
\* What Scraper and the controllers assume of their parameters is true of every
\* scrape that starts, for every command line and every width of a size_t.
THEOREM ScrapesMeetAssumptions == Spec => []AssumptionsMet
<1>1. Stages => AssumptionsMet
  <2> SUFFICES ASSUME Stages, place = "scrape" PROVE AssumptionsMet
    BY DEF AssumptionsMet
  <2>1. line \in Lines /\ Accepted /\ Allocated /\ query = Query
    BY DEF Stages, AfterOptions
  <2>2. \A option \in NumberOptions : options.numbers[option] = ToSize(line.numbers[option])
    BY <2>1, FinishedFields DEF Accepted
  <2>3. \A option \in NumberOptions : line.numbers[option] \in Int
    BY <2>1, LineTypes
  <2>4. \A option \in NumberOptions : Positive(line.numbers[option])
    BY <2>1, LineTypes DEF Accepted, Valid
  <2>5. \A option \in NumberOptions : options.numbers[option] \in 1 .. SizeMax
    BY <2>2, <2>3, <2>4, SizeRange, SizeAssumption DEF Positive
  <2>6. DOMAIN options.numbers = NumberOptions
    BY <2>1, FinishedFields DEF Accepted
  <2>7. query.redirects.max_redirects >= 1
    <3>1. query.redirects.max_redirects =
            IF options.max_redirects = {} THEN 5
            ELSE ToSize(CHOOSE n \in options.max_redirects : TRUE)
      BY <2>1 DEF Query, RedirectPolicy
    <3>2. \A n \in options.max_redirects : ToSize(n) >= 1
      BY <2>1, FinishedFields DEF Accepted, Valid, Positive
    <3> QED
      BY <3>1, <3>2
  <2> QED
    BY <2>1, <2>5, <2>6, <2>7 DEF AssumptionsMet, Allocated
<1> QED
  BY <1>1, StagesInvariant, PTL

\* What a scrape is about to do is all that was asked for: the proxy, TLS and its
\* verification, every filter, and redirects within the scrape's scheme.
THEOREM OptionsAreHonoured == Spec => []HonoursOptions
<1>1. Stages => HonoursOptions
  <2> SUFFICES ASSUME Stages, place = "scrape" PROVE HonoursOptions
    BY DEF HonoursOptions
  <2>1. line \in Lines /\ Accepted /\ Resolved /\ query = Query
    BY DEF Stages, AfterOptions
  <2>2. TorProxy # <<>>
    BY DEF TorProxy
  <2>3. /\ line.tor \/ line.proxy # <<>> => connection.proxied
        /\ line.proxy # <<>> => connection.via = ParseHostEndpoint(line.proxy, 1080)
    <3>1. connection.proxied = (options.proxy # <<>>)
      BY <2>1 DEF Resolved, Policy, Proxied
    <3>2. connection.via = IF options.proxy # <<>> THEN ParseHostEndpoint(options.proxy, 1080) ELSE Missing
      BY <2>1 DEF Resolved, Policy, Via, Proxied
    <3>3. options.proxy = IF line.proxy = <<>> /\ line.tor THEN TorProxy ELSE line.proxy
      BY <2>1, FinishedFields DEF Accepted
    <3>4. line.tor \/ line.proxy # <<>> => options.proxy # <<>>
      BY <2>2, <3>3
    <3>5. line.proxy # <<>> => options.proxy = line.proxy
      BY <3>3
    <3>6. line.tor \/ line.proxy # <<>> => connection.proxied
      BY <3>1, <3>4
    <3>7. line.proxy # <<>> => connection.via = ParseHostEndpoint(line.proxy, 1080)
      <4> SUFFICES ASSUME line.proxy # <<>> PROVE connection.via = ParseHostEndpoint(line.proxy, 1080)
        OBVIOUS
      <4>1. connection.via = ParseHostEndpoint(options.proxy, 1080)
        BY <3>2, <3>4
      <4>2. options.proxy = line.proxy
        BY <3>5
      <4> QED
        BY <4>1, <4>2
    <3> QED
      BY <3>6, <3>7
  <2>4. /\ line.tls \/ line.verify => connection.tls
        /\ query.redirects.secure <=> connection.tls
    BY <2>1, FinishedFields DEF Accepted, Resolved, Policy, AsksTls, Query, RedirectPolicy
  <2>5. line.verify => /\ connection.chain_verified
                       /\ connection.name_verified <=> IsDnsName(connection.target.host)
    BY <2>1, FinishedFields DEF Accepted, Resolved, Policy, AsksTls
  <2>6. /\ Filters # {} => query.get
        /\ line.required = query.required /\ line.rejected \cup line.screen = query.rejected
    <3>1. Filters # {} => line.contents
      BY <2>1 DEF Accepted, Valid
    <3>2. /\ query.get = line.contents
          /\ query.required = IF line.contents THEN line.required ELSE {}
          /\ query.rejected = IF line.contents THEN line.rejected \cup line.screen ELSE {}
      BY <2>1, FinishedFields DEF Accepted, Query
    <3> QED
      BY <3>1, <3>2 DEF Filters
  <2>7. line.max_redirects # {} => query.redirects.follow
    BY <2>1, FinishedFields DEF Accepted, Valid, Query, RedirectPolicy
  <2> QED
    BY <2>3, <2>4, <2>5, <2>6, <2>7 DEF HonoursOptions
<1> QED
  BY <1>1, StagesInvariant, PTL

-----------------------------------------------------------------------------
\* A run that has started to leave something behind was to do so.
Cleared == /\ line.parses /\ ~line.help /\ Valid /\ ~line.test
           /\ ~BadPattern
           /\ Target.ok /\ (Proxied => Via.ok)

\* LeavesNoTrace is inductive once the stages are known.
LEMMA StepTraces == Stages /\ LeavesNoTrace /\ [Next]_vars => LeavesNoTrace'
<1> SUFFICES ASSUME Stages, LeavesNoTrace, [Next]_vars PROVE LeavesNoTrace'
  OBVIOUS
<1> DEFINE Refused == ~line.parses \/ (~line.help /\ ~Valid)
<1>1. UNCHANGED line /\ (Refused' <=> Refused)
  BY DEF Next, Refuse, Help, Accept, Controllers, Generator, ConnectionRefused, Connection,
     Output, OutputRefused, Scrape, vars, Valid, Filters
<1>2. place \in AfterOptions => ~Refused
  BY DEF Stages, Accepted
<1>3. place # "over" => status = -1 /\ ~requested
  BY DEF Stages
<1>4. ASSUME files = {}, UNCHANGED parts,
             \/ place' # "over" /\ UNCHANGED status /\ place # "over"
             \/ place' = "over" /\ status' = 2 /\ Refused
             \/ place' = "over" /\ status' = 1 /\ ~Refused
             \/ place' = "over" /\ status' = 0 /\ ~Refused /\ (line.help \/ line.test)
             \/ UNCHANGED <<place, status>>
      PROVE  LeavesNoTrace'
  BY <1>1, <1>3, <1>4 DEF LeavesNoTrace, parts, Refused
<1>5. CASE Refuse \/ Help \/ Accept
  <2>1. files = {} /\ place = "options"
    BY <1>5 DEF Stages, Refuse, Help, Accept
  <2>2. CASE Refuse
    BY <1>4, <2>1, <2>2 DEF Refuse, Exit
  <2>3. CASE Help
    BY <1>4, <2>1, <2>3 DEF Help, Exit
  <2>4. CASE Accept
    BY <1>4, <2>1, <2>4, NextPlace DEF Accept, GoOn
  <2> QED
    BY <1>5, <2>2, <2>3, <2>4
<1>6. CASE Controllers
  BY <1>2, <1>4, <1>6, NextPlace DEF Stages, AfterOptions, Controllers, GoOn, Exit
<1>7. CASE Generator
  <2>1. files = {} /\ ~Refused /\ place = "generator" /\ UNCHANGED parts
    BY <1>2, <1>7 DEF Stages, AfterOptions, Generator
  <2>2. options.test = line.test
    BY <2>1, FinishedFields DEF Stages, AfterOptions, Accepted
  <2>3. options.test \in BOOLEAN /\ BadPattern \in BOOLEAN
    BY <2>2, LineTypes DEF Stages, BadPattern
  <2>4. CASE BadPattern
    BY <1>4, <1>7, <2>1, <2>4 DEF Generator, Exit
  <2>5. CASE ~BadPattern /\ options.test
    BY <1>4, <1>7, <2>1, <2>2, <2>5 DEF Generator, Exit
  <2>6. CASE ~BadPattern /\ ~options.test
    BY <1>4, <1>7, <2>1, <2>6, NextPlace DEF Generator, GoOn
  <2> QED
    BY <2>3, <2>4, <2>5, <2>6
<1>8. CASE ConnectionRefused \/ OutputRefused
  BY <1>2, <1>4, <1>8 DEF Stages, AfterOptions, ConnectionRefused, OutputRefused, Exit
<1>9. CASE Connection
  <2>1. /\ files = {} /\ place = "connection" /\ place' = "output"
        /\ UNCHANGED <<files, requested, status>>
    BY <1>9, NextPlace DEF Stages, Connection, GoOn
  <2> QED
    BY <1>1, <1>3, <2>1 DEF LeavesNoTrace
<1>10. ASSUME place \in {"output", "scrape"}, UNCHANGED <<line, options>> PROVE Cleared'
  <2>1. line.parses /\ ~line.help /\ Valid /\ ~BadPattern /\ ~options.test
        /\ Target.ok /\ (Proxied => Via.ok)
    BY <1>10 DEF Stages, AfterOptions, Accepted, Wanted, Resolved
  <2>2. ~line.test
    BY <1>10, <2>1, FinishedFields DEF Stages, AfterOptions, Accepted
  <2> QED
    BY <1>10, <2>1, <2>2
    DEF Cleared, Valid, Filters, BadPattern, Target, Proxied, Via, DefaultPort
<1>11. CASE Output
  <2>1. /\ place = "output" /\ place' = "scrape" /\ files' # {}
        /\ UNCHANGED <<line, options, requested, status>>
    BY <1>11, NextPlace DEF Output, GoOn
  <2> QED
    BY <1>3, <1>10, <2>1 DEF LeavesNoTrace, Cleared
<1>12. ASSUME NEW has_errors \in BOOLEAN, Scrape(has_errors) PROVE LeavesNoTrace'
  <2>1. /\ place = "scrape" /\ place' = "over" /\ requested' /\ status' \in {0, 1}
        /\ UNCHANGED <<line, options, files>> /\ files # {}
    BY <1>12 DEF Stages, Scrape, Exit
  <2>2. ~Refused'
    BY <1>1, <1>2, <2>1 DEF AfterOptions
  <2> QED
    BY <1>10, <2>1, <2>2 DEF LeavesNoTrace, Cleared
<1>13. CASE UNCHANGED vars
  BY <1>13 DEF vars, parts, LeavesNoTrace, Valid, Filters, BadPattern, Target, Proxied, Via,
     DefaultPort
<1> QED
  BY <1>5, <1>6, <1>7, <1>8, <1>9, <1>11, <1>12, <1>13 DEF Next

\* A run that is refused, previewed or asked for help uses no network and creates
\* nothing, and its exit code says which.
THEOREM RefusalsLeaveNoTrace == Spec => []LeavesNoTrace
<1>1. Init => LeavesNoTrace
  BY DEF Init, LeavesNoTrace
<1> QED
  BY <1>1, StepTraces, StagesInvariant, PTL DEF Spec

-----------------------------------------------------------------------------
\* What an authority is made of.
Tokens == STRING \cup Delimiters \cup DOMAIN Numerals

\* The tokens there are.
LEMMA TokenTypes ==
  /\ ":" \in Tokens /\ "[" \in Tokens /\ "]" \in Tokens
  /\ DOMAIN Numerals \subseteq Tokens
  /\ \A s \in Seq(STRING) : s \in Seq(Tokens)
<1>1. STRING \subseteq Tokens /\ Delimiters \subseteq Tokens /\ DOMAIN Numerals \subseteq Tokens
  BY DEF Tokens
<1>2. \A s \in Seq(STRING) : s \in Seq(Tokens)
  BY <1>1, SeqMonotonic
<1> QED BY <1>1, <1>2 DEF Delimiters

\* A sequence of two ...
LEMMA Pairs ==
  ASSUME NEW S, NEW a \in S, NEW b \in S
  PROVE  /\ <<a, b>> \in Seq(S) /\ Len(<<a, b>>) = 2
         /\ <<a, b>>[1] = a /\ <<a, b>>[2] = b /\ <<a, b>> # <<>>
         /\ Tail(<<a, b>>) = <<b>> /\ Len(<<b>>) = 1 /\ <<b>>[1] = b
<1>1. <<a, b>> \in Seq(S) /\ Len(<<a, b>>) = 2 /\ <<b>> \in Seq(S) /\ Len(<<b>>) = 1
      /\ <<a, b>>[1] = a /\ <<a, b>>[2] = b /\ <<b>>[1] = b /\ <<a, b>> # <<>>
  OBVIOUS
<1> DEFINE p == <<a, b>>
           q == <<b>>
<1>2. Tail(p) \in Seq(S) /\ Len(Tail(p)) = Len(p) - 1 /\ \A i \in 1 .. Len(Tail(p)) : Tail(p)[i] = p[i + 1]
  <2>1. p \in Seq(S) /\ p # <<>>
    BY <1>1
  <2> HIDE DEF p
  <2> QED BY <2>1, HeadTailProperties
<1>3. Tail(p) = q
  <2>1. p[2] = b /\ q \in Seq(S) /\ Len(q) = 1 /\ q[1] = b /\ Len(p) = 2
    BY <1>1
  <2> HIDE DEF p, q
  <2> DEFINE t == Tail(p)
  <2>2. t \in Seq(S) /\ Len(t) = Len(p) - 1 /\ \A i \in 1 .. Len(t) : t[i] = p[i + 1]
    BY <1>2
  <2> HIDE DEF t
  <2>3. Len(t) = 1
    BY <2>1, <2>2
  <2>4. t[1] = p[2]
    <3>1. 1 \in 1 .. Len(t) /\ 1 + 1 = 2
      BY <2>3
    <3> QED BY <2>2, <3>1
  <2>5. \A i \in 1 .. Len(t) : t[i] = q[i]
    BY <2>1, <2>3, <2>4
  <2>6. t = q
    BY <2>1, <2>2, <2>3, <2>5, SeqEqual
  <2> QED BY <2>6 DEF t
<1> QED BY <1>1, <1>3

\* ... and every sequence of length two is one.
LEMMA IsPair ==
  ASSUME NEW S, NEW s \in Seq(S), Len(s) = 2
  PROVE  s = <<s[1], s[2]>>
<1>1. s[1] \in S /\ s[2] \in S
  BY ElementOfSeq
<1> DEFINE p == <<s[1], s[2]>>
<1>2. p \in Seq(S) /\ Len(p) = 2 /\ p[1] = s[1] /\ p[2] = s[2]
  BY <1>1
<1> HIDE DEF p
<1>3. \A i \in 1 .. Len(s) : s[i] = p[i]
  BY <1>2
<1> QED BY <1>2, <1>3, SeqEqual DEF p

\* A host with a port behind it, and what is accepted behind a host.
LEMMA PortBehind ==
  ASSUME NEW h, h # <<>>, NEW default, NEW r, r # <<>>, r[1] = ":",
         NEW t, Tail(r) = t, Len(t) = 1, t[1] = r[2],
         r[2] \in DOMAIN Numerals, Numerals[r[2]] \in TcpPorts
  PROVE  WithSuffix(h, r, default) = Endpoint(h, Numerals[r[2]])
<1>1. IsTcpPort(t)
  BY DEF IsTcpPort
<1>2. IsTcpPort(Tail(r))
  BY <1>1
<1> QED BY <1>2 DEF WithSuffix

\* A suffix with a port that fits gives the endpoint with that port.
LEMMA PortSuffix ==
  ASSUME NEW h, h # <<>>, NEW default,
         NEW n \in DOMAIN Numerals, Numerals[n] \in TcpPorts
  PROVE  WithSuffix(h, <<":", n>>, default) = Endpoint(h, Numerals[n])
<1> DEFINE r == <<":", n>>
           t == <<n>>
<1>1. r # <<>> /\ r[1] = ":" /\ r[2] = n /\ Tail(r) = t /\ Len(t) = 1 /\ t[1] = n
  BY TokenTypes, Pairs
<1> HIDE DEF r, t
<1>2. WithSuffix(h, r, default) = Endpoint(h, Numerals[r[2]])
  BY <1>1, PortBehind
<1>3. WithSuffix(h, r, default) = Endpoint(h, Numerals[n])
  BY <1>1, <1>2
<1> QED BY <1>3 DEF r

\* An accepted suffix is empty, or a port that fits.
LEMMA SuffixAccepted ==
  ASSUME NEW h, NEW r \in Seq(Tokens), NEW default, WithSuffix(h, r, default).ok
  PROVE  /\ h # <<>>
         /\ \/ r = <<>> /\ WithSuffix(h, r, default) = Endpoint(h, default)
            \/ \E n \in DOMAIN Numerals :
                 /\ r = <<":", n>> /\ Numerals[n] \in TcpPorts
                 /\ WithSuffix(h, r, default) = Endpoint(h, Numerals[n])
<1> DEFINE w == WithSuffix(h, r, default)
<1>1. w # Unparsed
  <2>1. Unparsed.ok = FALSE
    BY DEF Unparsed
  <2> QED BY <2>1
<1>2. CASE r = <<>>
  <2>1. h # <<>> /\ w = Endpoint(h, default)
    BY <1>1, <1>2 DEF WithSuffix
  <2> QED BY <1>2, <2>1
<1>3. CASE r # <<>>
  <2>1. h # <<>> /\ r[1] = ":" /\ IsTcpPort(Tail(r)) /\ w = Endpoint(h, Numerals[r[2]])
    BY <1>1, <1>3 DEF WithSuffix
  <2> DEFINE t == Tail(r)
  <2>2. t \in Seq(Tokens) /\ Len(t) = Len(r) - 1 /\ \A i \in 1 .. Len(t) : t[i] = r[i + 1]
    BY <1>3, HeadTailProperties
  <2>3. IsTcpPort(t)
    BY <2>1
  <2> HIDE DEF t
  <2>4. Len(t) = 1 /\ t[1] \in DOMAIN Numerals /\ Numerals[t[1]] \in TcpPorts
    BY <2>3 DEF IsTcpPort
  <2>5. Len(r) = 2
    <3>1. Len(r) \in Nat
      OBVIOUS
    <3>2. Len(t) = 1 /\ Len(t) = Len(r) - 1
      BY <2>2, <2>4
    <3>3. \A x \in Nat : 1 = x - 1 => x = 2
      OBVIOUS
    <3> QED BY <3>1, <3>2, <3>3, ZenonT(20)
  <2>6. t[1] = r[2]
    <3>1. 1 \in 1 .. Len(t) /\ 1 + 1 = 2
      BY <2>4
    <3> QED BY <2>2, <3>1
  <2>7. r = <<":", r[2]>>
    BY <2>1, <2>5, IsPair
  <2>8. r[2] \in DOMAIN Numerals /\ Numerals[r[2]] \in TcpPorts
    BY <2>4, <2>6
  <2>9. \E n \in DOMAIN Numerals :
                 /\ r = <<":", n>> /\ Numerals[n] \in TcpPorts
                 /\ w = Endpoint(h, Numerals[n])
    <3> HIDE DEF w
    <3> QED BY <2>1, <2>7, <2>8
  <2> QED BY <2>1, <2>9
<1> HIDE DEF w
<1> QED BY <1>2, <1>3 DEF w

\* Find gives the first place of a token, or 0.
LEMMA FindsTheFirst ==
  ASSUME NEW s \in Seq(Tokens), NEW token
  PROVE  LET p == Find(s, token)
         IN  /\ p \in 0 .. Len(s)
             /\ p = 0 => \A i \in 1 .. Len(s) : s[i] # token
             /\ p # 0 => s[p] = token /\ \A i \in 1 .. (p - 1) : s[i] # token
<1> DEFINE I == {i \in 1 .. Len(s) : s[i] = token}
<1>1. Find(s, token) = IF I # {} THEN Min(I) ELSE 0
  BY DEF Find, SelectInSeq
<1>2. Len(s) \in Nat /\ I \subseteq Nat
  OBVIOUS
<1>3. CASE I = {}
  <2>1. Find(s, token) = 0
    BY <1>1, <1>3
  <2> HIDE DEF Find
  <2> QED BY <1>2, <1>3, <2>1
<1>4. CASE I # {}
  <2>1. Min(I) \in I /\ \A k \in I : Min(I) <= k
    <3> HIDE DEF I
    <3> QED BY <1>2, <1>4, MinIsLeast
  <2>2. PICK m \in I : Find(s, token) = m /\ \A k \in I : m <= k
    BY <1>1, <1>4, <2>1
  <2> HIDE DEF Find
  <2> QED BY <1>2, <2>2
<1> QED BY <1>3, <1>4

\* A port suffix is recognised by the only colon, which is also the last.
LEMMA Colons ==
  ASSUME NEW s \in Seq(Tokens)
  PROVE  /\ HasPortSuffix(s) <=> \E p \in 1 .. Len(s) : /\ s[p] = ":"
                                                       /\ \A i \in 1 .. Len(s) : s[i] = ":" => i = p
         /\ \A p \in 1 .. Len(s) : /\ s[p] = ":"
                                    /\ \A i \in 1 .. Len(s) : s[i] = ":" => i = p
              => SelectLastInSeq(s, LAMBDA t : t = ":") = p
<1> DEFINE I == {i \in DOMAIN s : s[i] = ":"}
<1>1. Len(s) \in Nat /\ DOMAIN s = 1 .. Len(s) /\ I = {i \in 1 .. Len(s) : s[i] = ":"}
      /\ I \subseteq 0 .. Len(s)
  OBVIOUS
<1>2. IsFiniteSet(I)
  <2>1. IsFiniteSet(1 .. Len(s)) /\ I \subseteq 1 .. Len(s)
    BY <1>1, FS_Interval
  <2> HIDE DEF I
  <2> QED BY <2>1, FS_Subset
<1>3. HasPortSuffix(s) <=> \E p : I = {p}
  <2>1. HasPortSuffix(s) <=> Cardinality(I) = 1
    BY DEF HasPortSuffix
  <2> HIDE DEF I
  <2> QED BY <1>2, <2>1, FS_Singleton
<1>4. ASSUME NEW p \in 1 .. Len(s), s[p] = ":", \A i \in 1 .. Len(s) : s[i] = ":" => i = p
      PROVE  SelectLastInSeq(s, LAMBDA t : t = ":") = p
  <2>1. SelectLastInSeq(s, LAMBDA t : t = ":") = IF I # {} THEN Max(I) ELSE 0
    BY <1>1 DEF SelectLastInSeq
  <2>2. I = {p}
    BY <1>1, <1>4
  <2>3. Max(I) \in I
    <3> HIDE DEF I
    <3> QED BY <1>1, <2>2, MaxIsGreatest
  <2> QED BY <2>1, <2>2, <2>3
<1>5. \A p : I = {p} <=> /\ p \in 1 .. Len(s) /\ s[p] = ":"
                         /\ \A i \in 1 .. Len(s) : s[i] = ":" => i = p
  BY <1>1
<1> HIDE DEF I
<1> QED BY <1>3, <1>4, <1>5

\* Brackets go around an address.
LEMMA Brackets ==
  ASSUME NEW a \in Seq(Tokens)
  PROVE  LET b == InBrackets(a)
         IN  /\ b \in Seq(Tokens) /\ Len(b) = Len(a) + 2 /\ b[1] = "[" /\ b[Len(a) + 2] = "]"
             /\ \A i \in 1 .. Len(a) : b[i + 1] = a[i]
<1> DEFINE c == <<"[">> \o a
<1>1. <<"[">> \in Seq(Tokens) /\ <<"]">> \in Seq(Tokens) /\ Len(<<"[">>) = 1 /\ Len(<<"]">>) = 1
      /\ <<"[">>[1] = "[" /\ <<"]">>[1] = "]" /\ Len(a) \in Nat
  BY TokenTypes
<1>2. /\ c \in Seq(Tokens) /\ Len(c) = 1 + Len(a)
      /\ \A i \in 1 .. 1 + Len(a) : c[i] = IF i <= 1 THEN <<"[">>[i] ELSE a[i - 1]
  BY <1>1, ConcatProperties
<1> HIDE DEF c
<1> DEFINE b == c \o <<"]">>
<1>3. /\ b \in Seq(Tokens) /\ Len(b) = Len(c) + 1
      /\ \A i \in 1 .. Len(c) + 1 : b[i] = IF i <= Len(c) THEN c[i] ELSE <<"]">>[i - Len(c)]
  BY <1>1, <1>2, ConcatProperties
<1> HIDE DEF b
<1>4. b[1] = "[" /\ b[Len(a) + 2] = "]"
  BY <1>1, <1>2, <1>3
<1>5. \A i \in 1 .. Len(a) : b[i + 1] = a[i]
  BY <1>1, <1>2, <1>3
<1> QED BY <1>1, <1>2, <1>3, <1>4, <1>5 DEF b, c, InBrackets

\* What is written in brackets is read without them.
LEMMA ParsesBrackets ==
  ASSUME NEW a \in Seq(Tokens), "]" \notin ToSet(a), NEW r \in Seq(Tokens), NEW default
  PROVE  ParseHostEndpoint(InBrackets(a) \o r, default) = WithSuffix(a, r, default)
<1> DEFINE b == InBrackets(a)
           n == Len(a) + 2
<1>1. /\ b \in Seq(Tokens) /\ Len(b) = n /\ b[1] = "[" /\ b[n] = "]"
      /\ \A i \in 1 .. Len(a) : b[i + 1] = a[i]
  BY Brackets
<1>0. Len(a) \in Nat /\ n \in Nat /\ Len(r) \in Nat
  OBVIOUS
<1> HIDE DEF b
<1> DEFINE t == b \o r
<1>11. /\ t \in Seq(Tokens) /\ Len(t) = Len(b) + Len(r)
       /\ \A i \in 1 .. Len(b) + Len(r) : t[i] = IF i <= Len(b) THEN b[i] ELSE r[i - Len(b)]
  BY <1>1, ConcatProperties
<1>12. SubSeq(t, Len(b) + 1, Len(t)) = r
  BY <1>1, ConcatSplits
<1> HIDE DEF t
<1>2. /\ t \in Seq(Tokens) /\ Len(t) = n + Len(r)
      /\ \A i \in 1 .. n + Len(r) : t[i] = IF i <= n THEN b[i] ELSE r[i - n]
  BY <1>1, <1>11
<1>3. SubSeq(t, n + 1, Len(t)) = r
  BY <1>1, <1>12
<1>4. /\ t # <<>> /\ t[1] = "[" /\ t[n] = "]"
      /\ \A i \in 1 .. Len(a) : t[i + 1] = a[i]
  BY <1>0, <1>1, <1>2
<1>5. \A i \in 1 .. Len(a) : a[i] # "]"
  BY DEF ToSet
<1>6. \A i \in 1 .. (n - 1) : t[i] # "]"
  <2> SUFFICES ASSUME NEW i \in 2 .. (n - 1) PROVE t[i] # "]"
    BY <1>0, <1>4
  <2>1. i - 1 \in 1 .. Len(a) /\ (i - 1) + 1 = i
    BY <1>0
  <2> QED BY <1>4, <1>5, <2>1
<1> HIDE DEF n
<1>7. Find(t, "]") = n
  <2>1. n \in 1 .. Len(t)
    BY <1>0, <1>2 DEF n
  <2>2. /\ Find(t, "]") \in 0 .. Len(t)
        /\ Find(t, "]") = 0 => \A i \in 1 .. Len(t) : t[i] # "]"
        /\ Find(t, "]") # 0 => t[Find(t, "]")] = "]" /\ \A i \in 1 .. (Find(t, "]") - 1) : t[i] # "]"
    BY <1>2, FindsTheFirst
  <2> DEFINE p == Find(t, "]")
  <2> HIDE DEF p
  <2>3. /\ p \in 0 .. Len(t) /\ Len(t) \in Nat
        /\ p # 0 /\ t[p] = "]" /\ \A i \in 1 .. (p - 1) : t[i] # "]"
    BY <1>0, <1>2, <1>4, <2>1, <2>2 DEF p
  <2>4. ~(p < n)
    BY <1>0, <1>6, <2>3
  <2>5. ~(n < p)
    BY <1>0, <1>4, <2>1, <2>3
  <2> QED BY <1>0, <2>3, <2>4, <2>5 DEF p
<1>8. SubSeq(t, 2, n - 1) = a
  <2>1. \A i \in 2 .. (n - 1) : t[i] \in Tokens
    BY <1>0, <1>2, ElementOfSeq
  <2>2. /\ SubSeq(t, 2, n - 1) \in Seq(Tokens) /\ Len(SubSeq(t, 2, n - 1)) = Len(a)
        /\ \A i \in 1 .. Len(a) : SubSeq(t, 2, n - 1)[i] = t[i + 1]
    BY <1>0, <2>1, SubSeqProperties DEF n
  <2> QED BY <1>4, <2>2, SeqEqual
<1>9. ParseHostEndpoint(t, default) = WithSuffix(a, r, default)
  <2>0. n # 0
    BY <1>0 DEF n
  <2>1. Bracketed(t, default) = WithSuffix(SubSeq(t, 2, n - 1), SubSeq(t, n + 1, Len(t)), default)
    BY <2>0, <1>7 DEF Bracketed
  <2>2. Bracketed(t, default) = WithSuffix(a, r, default)
    BY <2>1, <1>3, <1>8
  <2> QED BY <1>4, <2>2 DEF ParseHostEndpoint
<1> QED BY <1>9 DEF t, b

\* A host without a port is read as it stands.
LEMMA ParsesPlain ==
  ASSUME NEW s \in Seq(Tokens), s # <<>>, s[1] # "[", ~HasPortSuffix(s), NEW default
  PROVE  ParseHostEndpoint(s, default) = Endpoint(s, default)
  BY DEF ParseHostEndpoint

\* A host with a port is split at the colon.
LEMMA ParsesPort ==
  ASSUME NEW h \in Seq(Tokens), h # <<>>, h[1] # "[", ":" \notin ToSet(h),
         NEW w \in Tokens, w # ":", NEW default
  PROVE  ParseHostEndpoint(h \o <<":", w>>, default) = WithSuffix(h, <<":", w>>, default)
<1> DEFINE r == <<":", w>>
           t == h \o r
           n == Len(h) + 1
<1>0. Len(h) \in Nat \ {0} /\ r \in Seq(Tokens) /\ Len(r) = 2 /\ r[1] = ":" /\ r[2] = w
  BY TokenTypes, EmptySeq
<1>2. \A i \in 1 .. Len(h) : h[i] # ":"
  BY DEF ToSet
<1> HIDE DEF r
<1>11. /\ t \in Seq(Tokens) /\ Len(t) = Len(h) + Len(r)
       /\ \A i \in 1 .. Len(h) + Len(r) : t[i] = IF i <= Len(h) THEN h[i] ELSE r[i - Len(h)]
  BY <1>0, ConcatProperties
<1>15. SubSeq(t, 1, Len(h)) = h /\ SubSeq(t, Len(h) + 1, Len(t)) = r
  BY <1>0, ConcatSplits
<1> HIDE DEF t
<1>1. /\ t \in Seq(Tokens) /\ Len(t) = Len(h) + 2
      /\ \A i \in 1 .. Len(h) + 2 : t[i] = IF i <= Len(h) THEN h[i] ELSE r[i - Len(h)]
  BY <1>0, <1>11
<1>5. SubSeq(t, 1, n - 1) = h /\ SubSeq(t, n, Len(t)) = r
  <2>1. n - 1 = Len(h)
    BY <1>0
  <2> QED BY <1>15, <2>1
<1>3. n \in 1 .. Len(t) /\ t[n] = ":" /\ \A i \in 1 .. Len(t) : t[i] = ":" => i = n
  BY <1>0, <1>1, <1>2
<1>4. HasPortSuffix(t) /\ SelectLastInSeq(t, LAMBDA x : x = ":") = n
  BY <1>1, <1>3, Colons
<1>6. t # <<>> /\ t[1] # "["
  BY <1>0, <1>1
<1>7. ParseHostEndpoint(t, default) = WithSuffix(h, r, default)
  BY <1>4, <1>5, <1>6 DEF ParseHostEndpoint
<1> QED BY <1>7 DEF t, r

\* The length of a host in bytes.
LEMMA SizeIsNatural ==
  ASSUME NEW h \in Seq(Tokens), \A i \in 1 .. Len(h) : h[i] \in Delimiters \cup DOMAIN Lengths
  PROVE  Size(h) \in Nat
<1> DEFINE S == DOMAIN h
           W(i) == IF h[i] \in Delimiters THEN 1 ELSE Lengths[h[i]]
           One(s) == CHOOSE x \in s : TRUE
           Eq(g) == g = [s \in SUBSET S |-> IF s = {} THEN 0
                                            ELSE g[s \ {One(s)}] + W(One(s))]
           iter == CHOOSE g : Eq(g)
<1>1. S = 1 .. Len(h) /\ IsFiniteSet(S) /\ \A i \in S : W(i) \in Nat
  <2>1. S = 1 .. Len(h) /\ IsFiniteSet(1 .. Len(h))
    BY FS_Interval
  <2>2. \A i \in 1 .. Len(h) : W(i) \in Nat
    BY EndpointAssumption
  <2> QED BY <2>1, <2>2
<1>2. \A s \in SUBSET S : s # {} => One(s) \in s /\ One(s) \in S
  OBVIOUS
<1> HIDE DEF S, One, W
<1>3. \E g : Eq(g)
  <2> DEFINE pick == [s \in SUBSET S |-> One(s)]
             step == [x \in S |-> [t \in Nat |-> t + W(x)]]
  <2>1. \A s \in SUBSET S : pick[s] = One(s)
    OBVIOUS
  <2>2. \A x \in S : \A t \in Nat : step[x][t] = t + W(x)
    OBVIOUS
  <2> HIDE DEF pick, step
  <2>3. PICK g \in [SUBSET S -> Nat] : IsFold(g, S, 0, pick, step)
    <3>1. \A s \in SUBSET S : s # {} => pick[s] \in s
      BY <1>2, <2>1
    <3>2. ASSUME NEW x \in S, NEW t \in Nat PROVE step[x][t] \in Nat
      <4>1. W(x) \in Nat /\ step[x][t] = t + W(x)
        BY <1>1, <2>2
      <4> QED BY <4>1
    <3>3. Foldable(S, Nat, 0, pick, step)
      BY <1>1, <3>1, <3>2 DEF Foldable
    <3> QED BY <3>3, FoldExists
  <2>4. ASSUME NEW s \in SUBSET S, s # {}
        PROVE step[pick[s]][g[s \ {pick[s]}]] = g[s \ {One(s)}] + W(One(s))
     <3>1. s \ {One(s)} \in SUBSET S
       OBVIOUS
     <3>2. g[s \ {One(s)}] \in Nat
       BY <3>1
     <3> QED BY <1>2, <2>1, <2>2, <2>4, <3>2
  <2>5. \A s \in SUBSET S : g[s] = IF s = {} THEN 0 ELSE g[s \ {One(s)}] + W(One(s))
    <3> HIDE DEF Eq, iter
    <3> QED BY <2>3, <2>4, <2>1 DEF IsFold
  <2>6. Eq(g)
    BY <2>5
  <2> QED BY <2>6
<1>4. Eq(iter)
  <2> HIDE DEF Eq
  <2> QED BY <1>3
<1>5. \A s \in SUBSET S : iter[s] = IF s = {} THEN 0 ELSE iter[s \ {One(s)}] + W(One(s))
  <2> HIDE DEF iter
  <2> QED BY <1>4
<1>6. iter[S] \in Nat
  <2> HIDE DEF iter
  <2>1. iter[{}] \in Nat
    <3>1. {} \in SUBSET S
      OBVIOUS
    <3>2. iter[{}] = 0
      BY <3>1, <1>5
    <3> QED BY <3>2
  <2>2. ASSUME NEW s \in SUBSET S, s # {}
        PROVE \E x \in s : iter[s \ {x}] \in Nat => iter[s] \in Nat
    <3>0. iter[s] = iter[s \ {One(s)}] + W(One(s)) /\ W(One(s)) \in Nat
      BY <1>1, <1>2, <1>5, <2>2
    <3>1. iter[s \ {One(s)}] \in Nat => iter[s] \in Nat
      BY <3>0
    <3> QED BY <3>1, <1>2, <2>2
  <2> QED BY <2>1, <2>2, <1>1, FoldTyped
<1>7. Size(h) = iter[S]
  BY Zenon DEF Size, W, FoldSeq, FoldFunction, FoldFunctionOnSet, MapThenFoldSet, S, One
<1> QED BY <1>6, <1>7

\* The elements of a sequence.
LEMMA Elements ==
  ASSUME NEW S, NEW s \in Seq(S)
  PROVE  ToSet(s) = {s[i] : i \in 1 .. Len(s)}
  BY DEF ToSet

\* What is accepted is a way to write what it is taken for: a bracketed host ...
LEMMA BracketedAccepted ==
  ASSUME NEW s \in Seq(Tokens), s # <<>>, s[1] = "[", NEW default, Bracketed(s, default).ok
  PROVE  \E a \in Seq(Tokens) : \E r \in Seq(Tokens) :
           /\ s = InBrackets(a) \o r /\ ToSet(a) \subseteq ToSet(s)
           /\ Bracketed(s, default) = WithSuffix(a, r, default)
<1> DEFINE n == Find(s, "]")
           a == SubSeq(s, 2, n - 1)
           r == SubSeq(s, n + 1, Len(s))
           b == SubSeq(s, 1, n)
           c == InBrackets(a)
<1>1. n # 0 /\ Bracketed(s, default) = WithSuffix(a, r, default)
  <2>1. Unparsed.ok = FALSE
    BY DEF Unparsed
  <2> QED BY <2>1 DEF Bracketed
<1>2. n \in 0 .. Len(s) /\ n \in 1 .. Len(s) /\ s[n] = "]"
  BY <1>1, FindsTheFirst
<1>3. Len(s) \in Nat /\ \A i \in 1 .. Len(s) : s[i] \in Tokens
  BY ElementOfSeq
<1> HIDE DEF n
<1>4. n \in 2 .. Len(s)
  <2>1. n # 1
    BY <1>2
  <2> QED BY <1>2, <1>3, <2>1
<1>5. /\ b \in Seq(Tokens) /\ Len(b) = n /\ r \in Seq(Tokens) /\ b \o r = s
      /\ \A i \in 1 .. n : b[i] = s[i]
  BY <1>2, SplitJoins
<1>6. /\ a \in Seq(Tokens) /\ Len(a) = n - 2
      /\ \A i \in 1 .. n - 2 : a[i] = s[i + 1]
  <2>1. 2 \in Int /\ n - 1 \in Int /\ \A i \in 2 .. n - 1 : s[i] \in Tokens
    BY <1>3, <1>4
  <2>2. /\ SubSeq(s, 2, n - 1) \in Seq(Tokens)
        /\ Len(SubSeq(s, 2, n - 1)) = IF 2 <= n - 1 THEN n - 1 - 2 + 1 ELSE 0
        /\ \A i \in 1 .. (n - 1) - 2 + 1 : SubSeq(s, 2, n - 1)[i] = s[2 + i - 1]
    BY <2>1, SubSeqProperties
  <2> HIDE DEF a
  <2>3. \A i \in 1 .. n - 2 : i \in 1 .. (n - 1) - 2 + 1 /\ 2 + i - 1 = i + 1
    BY <1>4
  <2>4. (IF 2 <= n - 1 THEN n - 1 - 2 + 1 ELSE 0) = n - 2
    BY <1>4
  <2> QED BY <2>2, <2>3, <2>4 DEF a
<1> HIDE DEF a, b, r
<1>7. /\ c \in Seq(Tokens) /\ Len(c) = Len(a) + 2 /\ c[1] = "[" /\ c[Len(a) + 2] = "]"
      /\ \A i \in 1 .. Len(a) : c[i + 1] = a[i]
  BY <1>6, Brackets
<1> HIDE DEF c
<1>8. Len(c) = n /\ c[n] = "]"
  <2>1. Len(a) + 2 = n
    BY <1>4, <1>6
  <2> QED BY <1>7, <2>1
<1>9. \A i \in 1 .. n : b[i] = c[i]
  <2> SUFFICES ASSUME NEW i \in 1 .. n PROVE b[i] = c[i]
    OBVIOUS
  <2>1. CASE i = 1
    BY <1>5, <1>7, <2>1
  <2>2. CASE i = n
    BY <1>2, <1>5, <1>8, <2>2
  <2>3. CASE i # 1 /\ i # n
    <3>1. i - 1 \in 1 .. n - 2 /\ (i - 1) + 1 = i /\ i - 1 \in 1 .. Len(a)
      BY <1>4, <1>6, <2>3
    <3>2. a[i - 1] = s[(i - 1) + 1] /\ c[(i - 1) + 1] = a[i - 1]
      <4> DEFINE j == i - 1
      <4>1. j \in 1 .. n - 2 /\ j \in 1 .. Len(a)
        BY <3>1
      <4> HIDE DEF j
      <4>2. a[j] = s[j + 1] /\ c[j + 1] = a[j]
        BY <1>6, <1>7, <4>1
      <4> QED BY <4>2 DEF j
    <3> QED BY <1>5, <3>1, <3>2
  <2> QED BY <2>1, <2>2, <2>3
<1>10. b = c
  BY <1>5, <1>7, <1>8, <1>9, SeqEqual
<1>11. ToSet(a) \subseteq ToSet(s)
  <2>0. ToSet(a) = {a[i] : i \in 1 .. Len(a)} /\ ToSet(s) = {s[i] : i \in 1 .. Len(s)}
    BY <1>6, Elements
  <2> SUFFICES ASSUME NEW i \in 1 .. Len(a) PROVE \E j \in 1 .. Len(s) : s[j] = a[i]
    BY <2>0
  <2>1. i \in 1 .. n - 2
    BY <1>6
  <2>2. i + 1 \in 1 .. Len(s)
    BY <1>3, <1>4, <2>1
  <2> QED BY <1>6, <2>1, <2>2
<1>12. s = InBrackets(a) \o r
  BY <1>5, <1>10 DEF c
<1> QED BY <1>1, <1>5, <1>6, <1>11, <1>12 DEF a, r

\* ... and a host with one colon.
LEMMA SuffixedAccepted ==
  ASSUME NEW s \in Seq(Tokens), s # <<>>, s[1] # "[", HasPortSuffix(s), NEW default
  PROVE  \E a \in Seq(Tokens) : \E r \in Seq(Tokens) :
           /\ s = a \o r /\ ToSet(a) \subseteq ToSet(s)
           /\ ParseHostEndpoint(s, default) = WithSuffix(a, r, default)
<1>1. PICK p \in 1 .. Len(s) : SelectLastInSeq(s, LAMBDA t : t = ":") = p
  BY Colons
<1> DEFINE a == SubSeq(s, 1, p - 1)
           r == SubSeq(s, p, Len(s))
<1>2. ParseHostEndpoint(s, default) = WithSuffix(a, r, default)
  BY <1>1 DEF ParseHostEndpoint
<1>3. /\ a \in Seq(Tokens) /\ Len(a) = p - 1 /\ r \in Seq(Tokens) /\ a \o r = s
      /\ \A i \in 1 .. (p - 1) : a[i] = s[i]
  <2> DEFINE n == p - 1
  <2>1. n \in 0 .. Len(s) /\ n + 1 = p
    OBVIOUS
  <2> HIDE DEF n
  <2>2. /\ SubSeq(s, 1, n) \in Seq(Tokens) /\ Len(SubSeq(s, 1, n)) = n
        /\ SubSeq(s, n + 1, Len(s)) \in Seq(Tokens)
        /\ \A i \in 1 .. n : SubSeq(s, 1, n)[i] = s[i]
        /\ SubSeq(s, 1, n) \o SubSeq(s, n + 1, Len(s)) = s
    BY <2>1, SplitJoins
  <2> QED BY <2>1, <2>2 DEF n
<1> HIDE DEF a, r
<1>4. ToSet(a) \subseteq ToSet(s)
  <2> SUFFICES ASSUME NEW i \in 1 .. Len(a) PROVE \E j \in 1 .. Len(s) : s[j] = a[i]
    BY <1>3, Elements
  <2>0. Len(s) \in Nat
    OBVIOUS
  <2>1. i \in 1 .. (p - 1) /\ i \in 1 .. Len(s)
    BY <1>3, <2>0
  <2> QED BY <1>3, <2>1
<1> QED BY <1>2, <1>3, <1>4 DEF a, r

\* A host written with its port is a way to write the endpoint.
LEMMA WritesWithPort ==
  ASSUME NEW e, NEW default, NEW h \in {e.host, InBrackets(e.host)},
         NEW n \in DOMAIN Numerals, Numerals[n] = e.port
  PROVE  WithPort(h, n) \in Writings(e, default)
  BY DEF Writings

\* An accepted authority is one of the ways to write the endpoint it is taken for.
LEMMA ParseAccepted ==
  ASSUME NEW s \in Seq(Tokens), NEW default, ParseHostEndpoint(s, default).ok
  PROVE  LET e == ParseHostEndpoint(s, default)
         IN  /\ e = Endpoint(e.host, e.port) /\ (e.port = default \/ e.port \in TcpPorts)
             /\ e.host \in Seq(Tokens) /\ ToSet(e.host) \subseteq ToSet(s)
             /\ s \in Writings(e, default)
<1> DEFINE e == ParseHostEndpoint(s, default)
           Good == /\ e = Endpoint(e.host, e.port) /\ (e.port = default \/ e.port \in TcpPorts)
                   /\ e.host \in Seq(Tokens) /\ ToSet(e.host) \subseteq ToSet(s)
                   /\ s \in Writings(e, default)
<1>1. ASSUME NEW a \in Seq(Tokens), NEW r \in Seq(Tokens), NEW w,
             ToSet(a) \subseteq ToSet(s),
             e = WithSuffix(a, r, default), s = w \o r, w \in Seq(Tokens),
             w \in {a, InBrackets(a)}
      PROVE  Good
  <2>1. WithSuffix(a, r, default).ok
    BY <1>1
  <2>2. CASE r = <<>> /\ e = Endpoint(a, default)
    <3>1. e.host = a /\ e.port = default
      BY <2>2 DEF Endpoint
    <3> HIDE DEF e
    <3>2. s = w
      BY <1>1, <2>2, ConcatEmptySeq
    <3>3. s \in Writings(e, default)
      BY <1>1, <3>1, <3>2 DEF Writings
    <3> QED BY <1>1, <2>2, <3>1, <3>3
  <2>3. ASSUME NEW n \in DOMAIN Numerals, r = <<":", n>>, Numerals[n] \in TcpPorts,
               e = Endpoint(a, Numerals[n])
        PROVE  Good
    <3>1. e.host = a /\ e.port = Numerals[n]
      BY <2>3 DEF Endpoint
    <3> HIDE DEF e
    <3>2. s \in Writings(e, default)
      BY <1>1, <2>3, <3>1, WritesWithPort DEF WithPort
    <3> QED BY <1>1, <2>3, <3>1, <3>2
  <2>4. \/ r = <<>> /\ e = Endpoint(a, default)
        \/ \E n \in DOMAIN Numerals : r = <<":", n>> /\ Numerals[n] \in TcpPorts
                                      /\ e = Endpoint(a, Numerals[n])
    BY <1>1, <2>1, SuffixAccepted
  <2> QED BY <2>2, <2>3, <2>4
<1>2. s # <<>>
  <2>1. Unparsed.ok = FALSE
    BY DEF Unparsed
  <2> QED BY <2>1 DEF ParseHostEndpoint
<1>3. ASSUME s[1] = "[" PROVE Good
  <2>1. e = Bracketed(s, default)
    BY <1>2, <1>3 DEF ParseHostEndpoint
  <2>2. PICK a \in Seq(Tokens), r \in Seq(Tokens) :
           /\ s = InBrackets(a) \o r /\ ToSet(a) \subseteq ToSet(s)
           /\ Bracketed(s, default) = WithSuffix(a, r, default)
    <3>1. Bracketed(s, default).ok
      BY <2>1
    <3> QED BY <1>2, <1>3, <3>1, BracketedAccepted
  <2>3. InBrackets(a) \in Seq(Tokens)
    BY Brackets
  <2> DEFINE w == InBrackets(a)
  <2>4. w \in Seq(Tokens) /\ s = w \o r /\ w \in {a, InBrackets(a)}
        /\ e = WithSuffix(a, r, default)
    BY <2>1, <2>2, <2>3
  <2> HIDE DEF w, e, Good
  <2> QED BY <1>1, <2>2, <2>4
<1>4. ASSUME s[1] # "[", HasPortSuffix(s) PROVE Good
  <2>1. PICK a \in Seq(Tokens), r \in Seq(Tokens) :
           /\ s = a \o r /\ ToSet(a) \subseteq ToSet(s)
           /\ e = WithSuffix(a, r, default)
    BY <1>2, <1>4, SuffixedAccepted
  <2> HIDE DEF e, Good
  <2> QED BY <1>1, <2>1
<1>5. ASSUME s[1] # "[", ~HasPortSuffix(s) PROVE Good
  <2>1. e = Endpoint(s, default)
    BY <1>2, <1>5, ParsesPlain
  <2>2. e.host = s /\ e.port = default
    BY <2>1 DEF Endpoint
  <2> HIDE DEF e
  <2>3. s \in Writings(e, default)
    BY <2>2 DEF Writings
  <2> QED BY <2>1, <2>2, <2>3
<1>6. Good
  <2> HIDE DEF Good
  <2> QED BY <1>3, <1>4, <1>5
<1> QED BY <1>6

\* Hosts are not mistaken for anything else.
LEMMA NameTypes ==
  ASSUME NEW h \in Names
  PROVE  /\ h \in Seq(Tokens) /\ h # <<>> /\ h[1] # "[" /\ "]" \notin ToSet(h)
         /\ ":" \notin ToSet(h) /\ ~HasPortSuffix(h)
<1>1. h \in Seq(Tokens) /\ h # <<>> /\ ToSet(h) \cap Delimiters = {}
  BY EndpointAssumption, TokenTypes
<1>2. ":" \in Delimiters /\ "[" \in Delimiters /\ "]" \in Delimiters
  BY DEF Delimiters
<1>3. ToSet(h) = {h[i] : i \in 1 .. Len(h)} /\ 1 \in 1 .. Len(h)
  BY <1>1, Elements, EmptySeq
<1>4. \A p \in 1 .. Len(h) : h[p] # ":" /\ h[p] # "["
  BY <1>1, <1>2, <1>3
<1>5. ~HasPortSuffix(h)
  BY <1>1, <1>4, Colons
<1> QED BY <1>1, <1>2, <1>3, <1>4, <1>5

\* An IPv6 address has several colons, and so no port suffix.
LEMMA AddressTypes ==
  ASSUME NEW a \in Addresses
  PROVE  /\ a \in Seq(Tokens) /\ a # <<>> /\ a[1] # "[" /\ "]" \notin ToSet(a)
         /\ ~HasPortSuffix(a)
<1> DEFINE I == {i \in DOMAIN a : a[i] = ":"}
<1>1. a \in Seq(Tokens) /\ ToSet(a) \cap {"[", "]"} = {} /\ Cardinality(I) >= 2
  BY EndpointAssumption, TokenTypes
<1>2. ~HasPortSuffix(a)
  <2>1. HasPortSuffix(a) <=> Cardinality(I) = 1
    BY DEF HasPortSuffix
  <2> HIDE DEF I
  <2> QED BY <1>1, <2>1
<1>3. a # <<>>
  <2> SUFFICES ASSUME a = <<>> PROVE FALSE
    OBVIOUS
  <2>1. I = {}
    OBVIOUS
  <2> HIDE DEF I
  <2>2. Cardinality(I) = 0
    BY <2>1, FS_EmptySet
  <2> QED BY <1>1, <2>2
<1>4. ToSet(a) = {a[i] : i \in 1 .. Len(a)} /\ 1 \in 1 .. Len(a)
  BY <1>1, <1>3, Elements, EmptySeq
<1>5. a[1] # "[" /\ "]" \notin ToSet(a)
  <2>1. a[1] \in ToSet(a)
    BY <1>4
  <2> HIDE DEF I
  <2> QED BY <1>1, <2>1
<1> QED BY <1>1, <1>2, <1>3, <1>5

\* What is written as documented is taken for what it means.
LEMMA DocumentedIsParsed ==
  ASSUME NEW default, NEW d \in Documented(default)
  PROVE  ParseHostEndpoint(d.text, default) = d.endpoint
<1> DEFINE Good(text, endpoint) == ParseHostEndpoint(text, default) = endpoint
           ports == {n \in DOMAIN Numerals : Numerals[n] \in TcpPorts}
<1>1. \A h \in Names \cup Addresses : Good(h, Endpoint(h, default))
  BY NameTypes, AddressTypes, ParsesPlain
<1>2. ASSUME NEW a \in Addresses PROVE Good(InBrackets(a), Endpoint(a, default))
  <2>1. a \in Seq(Tokens) /\ a # <<>> /\ "]" \notin ToSet(a) /\ <<>> \in Seq(Tokens)
    BY AddressTypes
  <2>2. InBrackets(a) \o <<>> = InBrackets(a)
    BY <2>1, Brackets, ConcatEmptySeq
  <2>3. ParseHostEndpoint(InBrackets(a) \o <<>>, default) = WithSuffix(a, <<>>, default)
    BY <2>1, ParsesBrackets
  <2>4. WithSuffix(a, <<>>, default) = Endpoint(a, default)
    BY <2>1 DEF WithSuffix
  <2> QED BY <2>2, <2>3, <2>4
<1>3. ASSUME NEW h \in Names, NEW n \in ports PROVE Good(WithPort(h, n), Endpoint(h, Numerals[n]))
  <2>1. n \in Tokens /\ n # ":"
    BY TokenTypes, EndpointAssumption DEF Delimiters
  <2>2. ParseHostEndpoint(h \o <<":", n>>, default) = WithSuffix(h, <<":", n>>, default)
    BY <2>1, NameTypes, ParsesPort
  <2>3. WithSuffix(h, <<":", n>>, default) = Endpoint(h, Numerals[n])
    BY NameTypes, PortSuffix
  <2> QED BY <2>2, <2>3 DEF WithPort
<1>4. ASSUME NEW a \in Addresses, NEW n \in ports
      PROVE  Good(WithPort(InBrackets(a), n), Endpoint(a, Numerals[n]))
  <2>1. a \in Seq(Tokens) /\ a # <<>> /\ "]" \notin ToSet(a)
    BY AddressTypes
  <2>2. <<":", n>> \in Seq(Tokens)
    BY TokenTypes, Pairs
  <2>3. ParseHostEndpoint(InBrackets(a) \o <<":", n>>, default) = WithSuffix(a, <<":", n>>, default)
    BY <2>1, <2>2, ParsesBrackets
  <2>4. WithSuffix(a, <<":", n>>, default) = Endpoint(a, Numerals[n])
    BY <2>1, PortSuffix
  <2> QED BY <2>3, <2>4 DEF WithPort
<1>5. \E text, endpoint : d = [text |-> text, endpoint |-> endpoint] /\ Good(text, endpoint)
  <2> HIDE DEF Good
  <2>1. CASE \E h \in Names \cup Addresses : d = [text |-> h, endpoint |-> Endpoint(h, default)]
    BY <1>1, <2>1
  <2>2. CASE \E a \in Addresses : d = [text |-> InBrackets(a), endpoint |-> Endpoint(a, default)]
    BY <1>2, <2>2
  <2>3. CASE \E h \in Names, n \in ports :
               d = [text |-> WithPort(h, n), endpoint |-> Endpoint(h, Numerals[n])]
    <3> HIDE DEF ports
    <3> QED BY <1>3, <2>3
  <2>4. CASE \E a \in Addresses, n \in ports :
               d = [text |-> WithPort(InBrackets(a), n), endpoint |-> Endpoint(a, Numerals[n])]
    <3> HIDE DEF ports
    <3> QED BY <1>4, <2>4
  <2> QED BY <2>1, <2>2, <2>3, <2>4 DEF Documented
<1> QED BY <1>5

\* The request to the proxy is read as the endpoint it was made for.
LEMMA RequestIsRead ==
  ASSUME NEW e, e = Endpoint(e.host, e.port), e.port \in Nat, Size(e.host) \in Nat,
         Size(e.host) < 256
  PROVE  RequestedBy(ConnectRequest(e)) = e
<1>1. \A m \in Nat : PortOf(PortBytes(m)) = m
  <2> SUFFICES ASSUME NEW m \in Nat PROVE PortOf(PortBytes(m)) = m
    OBVIOUS
  <2> DEFINE q == m \div 256
             r == m % 256
             b == PortBytes(m)
  <2>1. m % 256 = m - 256 * (m \div 256)
    BY SMTT(60)
  <2>2. q \in Int /\ r = m - 256 * q
    BY <2>1, SMT
  <2>3. b[1] = q /\ b[2] = r
    BY SMT DEF PortBytes
  <2> HIDE DEF q, r, b
  <2>4. 256 * q + r = m
    BY <2>2, SMT
  <2>5. PortOf(b) = m
    BY <2>3, <2>4, SMT DEF PortOf
  <2> QED BY <2>5, SMT DEF b
<1>2. \A m \in Nat : m < 256 => m % 256 = m
  BY SMT
<1>3. Size(e.host) % 256 = Size(e.host)
  BY <1>2
<1>4. PortOf(PortBytes(e.port)) = e.port
  BY <1>1
<1> QED BY <1>3, <1>4, SMT DEF RequestedBy, ConnectRequest

\* An authority written as endpoint.hpp documents is taken for the host and the
\* port it names, by the resolver and in the request to a proxy; one that is
\* accepted is some way of writing what it is taken for.
THEOREM EndpointsAreAsWritten == Spec => []EndpointAsWritten
<1>1. Stages => EndpointAsWritten
  <2> SUFFICES ASSUME Stages, place = "connection"
               PROVE  /\ \A d \in Documented(DefaultPort) : d.text = options.host => Target = d.endpoint
                      /\ \A d \in Documented(1080) : Proxied /\ d.text = options.proxy => Via = d.endpoint
                      /\ Target.ok => /\ Target.port \in TcpPorts
                                      /\ options.host \in Writings(Target, DefaultPort)
                                      /\ Size(Target.host) < 256 => RequestedBy(ConnectRequest(Target)) = Target
    BY DEF EndpointAsWritten
  <2>1. line \in Lines /\ options = Finished
    BY DEF Stages, AfterOptions, Accepted
  <2>2. options.host = line.host /\ options.host \in Seq(Tokens)
        /\ ToSet(options.host) \subseteq Delimiters \cup DOMAIN Lengths
    <3>1. options.host = line.host
      BY <2>1, FinishedFields
    <3>2. line.host \in Seq(STRING)
      BY <2>1, LinesAssumption
    <3>3. ToSet(line.host) \subseteq Delimiters \cup DOMAIN Lengths
      BY <2>1, WordsAssumption
    <3> QED BY <3>1, <3>2, <3>3, TokenTypes
  <2>3. \A d \in Documented(DefaultPort) : d.text = options.host => Target = d.endpoint
    BY DocumentedIsParsed DEF Target
  <2>4. \A d \in Documented(1080) : Proxied /\ d.text = options.proxy => Via = d.endpoint
    BY DocumentedIsParsed DEF Via
  <2>5. ASSUME Target.ok
        PROVE  /\ Target.port \in TcpPorts /\ options.host \in Writings(Target, DefaultPort)
               /\ Size(Target.host) < 256 => RequestedBy(ConnectRequest(Target)) = Target
    <3>1. /\ Target = Endpoint(Target.host, Target.port)
          /\ Target.port = DefaultPort \/ Target.port \in TcpPorts
          /\ Target.host \in Seq(Tokens) /\ ToSet(Target.host) \subseteq ToSet(options.host)
          /\ options.host \in Writings(Target, DefaultPort)
      BY <2>2, <2>5, ParseAccepted DEF Target
    <3>2. DefaultPort \in TcpPorts /\ TcpPorts \subseteq Nat
      BY SMT DEF DefaultPort, TcpPorts
    <3>3. Size(Target.host) \in Nat
      <4>1. ToSet(Target.host) = {Target.host[i] : i \in 1 .. Len(Target.host)}
        BY <3>1, Elements
      <4>2. \A i \in 1 .. Len(Target.host) : Target.host[i] \in Delimiters \cup DOMAIN Lengths
        BY <2>2, <3>1, <4>1
      <4> QED BY <3>1, <4>2, SizeIsNatural
    <3>4. Target.port \in TcpPorts /\ Target.port \in Nat
      BY <3>1, <3>2
    <3>5. Size(Target.host) < 256 => RequestedBy(ConnectRequest(Target)) = Target
      BY <3>1, <3>3, <3>4, RequestIsRead
    <3> QED BY <3>1, <3>4, <3>5
  <2> QED BY <2>3, <2>4, <2>5
<1> QED BY <1>1, StagesInvariant, PTL
=============================================================================
