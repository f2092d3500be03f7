------------------------------ MODULE Program -------------------------------
(***************************************************************************)
(* One invocation of abrade from its command line to its exit code: the    *)
(* options (src/src/abrade/options.cpp), the order in which main (src/src/ *)
(* cli/main.cpp) constructs the parts of a scrape from them, and what each *)
(* constructor of connection.hpp and action.hpp may refuse.                *)
(*                                                                         *)
(* The scrape itself is one step; the other modules open it up.            *)
(***************************************************************************)
EXTENDS Endpoint

CONSTANTS
  Lines,     \* command lines, as the option parser reads them
  BadRegexes,\* filters whose regular expression does not compile
  SizeMax,   \* the largest size_t
  MaxWindow  \* the longest sample window that can be allocated

ASSUME SizeAssumption == SizeMax \in Nat \ {0} /\ MaxWindow \in 1 .. SizeMax

\* The options with a number that has to be positive.
NumberOptions == {"init", "min", "max", "ssize", "sint"}

\* A command line: switches, authorities, a pattern, numbers and filters.
ASSUME LinesAssumption ==
  Lines \subseteq
    [parses : BOOLEAN, help : BOOLEAN, host : Seq(STRING), pattern : {"empty", "bad", "good"},
     stdin : BOOLEAN, numbers : [NumberOptions -> Int], required : SUBSET STRING,
     rejected : SUBSET STRING, screen : SUBSET STRING, contents : BOOLEAN, follow : BOOLEAN,
     max_redirects : SUBSET Int, tls : BOOLEAN, verify : BOOLEAN, tor : BOOLEAN,
     proxy : Seq(STRING), test : BOOLEAN]

\* Every word of an authority has its length.
ASSUME WordsAssumption ==
  \A l \in Lines : ToSet(l.host) \cup ToSet(l.proxy) \subseteq Delimiters \cup DOMAIN Lengths

VARIABLES
  line,      \* the command line
  options,   \* Options, once they are accepted
  place,     \* what main does next
  connection,\* the connection policy
  query,     \* the query with its action and redirect policy
  files,     \* what the program has created or opened
  requested, \* it has used the network
  status     \* its exit code, -1 while it runs

parts == <<connection, query, files, requested>>
vars == <<line, options, place, parts, status>>

Missing == [ok |-> FALSE]
TorProxy == <<"127.0.0.1", ":", "9050">>

Init ==
  /\ line \in Lines
  /\ options = line
  /\ place = "options"
  /\ connection = Missing /\ query = Missing
  /\ files = {} /\ requested = FALSE
  /\ status = -1

Exit(code) == place' = "over" /\ status' = code

\* What main does after the options, in this order.  (Mutant: the output is
\* opened before the connection policy is constructed.)
OrderOutputFirst ==                                                 \* mutant
  <<"options", "controllers", "generator", "output", "connection", "scrape">>
Order == <<"options", "controllers", "generator", "connection", "output", "scrape">>

GoOn == /\ \E i \in 1 .. (Len(Order) - 1) : Order[i] = place /\ place' = Order[i + 1]
        /\ UNCHANGED status

-----------------------------------------------------------------------------
\* lexical_cast takes a minus sign and negates modulo the width.
ToSize(n) == n % (SizeMax + 1)

\* (Mutant: zero passes.)
PositiveOrZero(n) == ToSize(n) >= 0                                 \* mutant
Positive(n) == ToSize(n) >= 1

Filters == line.required \cup line.rejected \cup line.screen

\* validate_parsed_options.  max_redirects is a set because it may be absent.
Valid ==
  /\ line.host # <<>>
  /\ line.stdin \/ line.pattern # "empty"
  /\ \A option \in DOMAIN line.numbers : Positive(line.numbers[option])
  /\ Filters # {} => line.contents
  /\ (line.required \cup line.rejected) \cap BadRegexes = {}
  /\ \A n \in line.max_redirects : Positive(n) /\ line.follow

\* --verify is a request for TLS.  (Mutant: of a TLS that was asked for.)
AsksTlsOnlyByName(l) == l.tls                                       \* mutant
AsksTls(l) == l.tls \/ l.verify

\* Options::Options after the validation.
Finished ==
  [line EXCEPT !.rejected = @ \cup line.screen,
               !.tls = AsksTls(line),
               !.proxy = IF @ = <<>> /\ line.tor THEN TorProxy ELSE @,
               !.numbers = [option \in DOMAIN @ |-> ToSize(@[option])]]

\* The parser's error and a failed validation are both an OptionsException.
Refuse ==
  /\ place = "options"
  /\ ~line.parses \/ (~line.help /\ ~Valid)
  /\ Exit(2)
  /\ UNCHANGED <<line, options, parts>>

Help ==
  /\ place = "options"
  /\ line.parses /\ line.help
  /\ Exit(0)
  /\ UNCHANGED <<line, options, parts>>

Accept ==
  /\ place = "options"
  /\ line.parses /\ ~line.help /\ Valid
  /\ options' = Finished
  /\ GoOn
  /\ UNCHANGED <<line, parts>>

\* Both controllers are constructed, and the adaptive one allocates its windows,
\* --optimize or not.
Controllers ==
  /\ place = "controllers"
  /\ IF options.numbers["ssize"] <= MaxWindow THEN GoOn ELSE Exit(1)
  /\ UNCHANGED <<line, options, parts>>

\* UriGenerator refuses the pattern.
BadPattern == ~options.stdin /\ options.pattern = "bad"

Generator ==
  /\ place = "generator"
  /\ CASE BadPattern                     -> Exit(1)
       [] ~BadPattern /\ options.test    -> Exit(0)
       [] ~BadPattern /\ ~options.test   -> GoOn
  /\ UNCHANGED <<line, options, parts>>

-----------------------------------------------------------------------------
Proxied == options.proxy # <<>>
DefaultPort == IF options.tls THEN 443 ELSE 80
Target == ParseHostEndpoint(options.host, DefaultPort)
Via == IF Proxied THEN ParseHostEndpoint(options.proxy, 1080) ELSE Missing

\* The four policies and configure_tls_peer, which their streams go through.
Policy ==
  [proxied |-> Proxied, tls |-> options.tls, target |-> Target, via |-> Via,
   server_name |-> options.tls /\ IsDnsName(Target.host),
   chain_verified |-> options.tls /\ options.verify,
   name_verified |-> options.tls /\ IsDnsName(Target.host) /\ options.verify]

\* A constructor throws if it cannot parse an authority, or load the trusted
\* certificates.
ConnectionRefused ==
  /\ place = "connection"
  /\ ~Target.ok \/ (Proxied /\ ~Via.ok) \/ (options.tls /\ options.verify)
  /\ Exit(1)
  /\ UNCHANGED <<line, options, parts>>

Connection ==
  /\ place = "connection"
  /\ Target.ok /\ (Proxied => Via.ok)
  /\ connection' = Policy
  /\ GoOn
  /\ UNCHANGED <<line, options, query, files, requested>>

\* make_redirect_policy; five hops unless told otherwise.
RedirectPolicy ==
  [follow |-> options.follow,
   max_redirects |-> IF options.max_redirects = {} THEN 5
                     ELSE ToSize(CHOOSE n \in options.max_redirects : TRUE),
   secure |-> options.tls, authority |-> options.host]

\* make_get and make_head; a HEAD knows no filters.
Query == [get |-> options.contents, redirects |-> RedirectPolicy,
          required |-> IF options.contents THEN options.required ELSE {},
          rejected |-> IF options.contents THEN options.rejected ELSE {}]

\* GetAction creates its directory and HeadAction opens its list, or throws.
Output ==
  /\ place = "output"
  /\ query' = Query
  /\ files' = files \cup {IF options.contents THEN "directory" ELSE "list"}
  /\ GoOn
  /\ UNCHANGED <<line, options, connection, requested>>

OutputRefused ==
  /\ place = "output"
  /\ Exit(1)
  /\ UNCHANGED <<line, options, parts>>

\* scraper.run, the summary, and has_errors.
Scrape(has_errors) ==
  /\ place = "scrape"
  /\ requested' = TRUE
  /\ Exit(IF has_errors THEN 1 ELSE 0)
  /\ UNCHANGED <<line, options, connection, query, files>>

Next == \/ Refuse \/ Help \/ Accept \/ Controllers \/ Generator
        \/ ConnectionRefused \/ Connection \/ Output \/ OutputRefused
        \/ \E has_errors \in BOOLEAN : Scrape(has_errors)

Spec == Init /\ [][Next]_vars

-----------------------------------------------------------------------------
\* What a scrape is about to do is all that was asked for: --tor and --proxy
\* take every connection through the proxy, --verify is TLS whose peer is
\* verified, by name if it has one, every filter, --screen included, is applied
\* to bodies that are read, and redirects keep to the scrape's scheme.
HonoursOptions ==
  place = "scrape" =>
    /\ line.tor \/ line.proxy # <<>> => connection.proxied
    /\ line.proxy # <<>> => connection.via = ParseHostEndpoint(line.proxy, 1080)
    /\ line.tls \/ line.verify => connection.tls
    /\ line.verify => /\ connection.chain_verified
                      /\ connection.name_verified <=> IsDnsName(connection.target.host)
    /\ Filters # {} => query.get
    /\ line.required = query.required /\ line.rejected \cup line.screen = query.rejected
    /\ line.max_redirects # {} => query.redirects.follow
    /\ query.redirects.secure <=> connection.tls

\* docs/cli.md, Exit Status: a run that is refused, previewed or asked for help
\* uses no network and creates nothing, nor does one whose pattern or authority
\* is wrong; nothing is requested before there is a place for the results.
LeavesNoTrace ==
  /\ files # {} \/ requested =>
       /\ line.parses /\ ~line.help /\ Valid /\ ~line.test
       /\ ~BadPattern
       /\ Target.ok /\ (Proxied => Via.ok)
  /\ requested => files # {}
  /\ status = 2 <=> place = "over" /\ (~line.parses \/ (~line.help /\ ~Valid))
  /\ status = 0 => line.help \/ line.test \/ requested

\* What Scraper and the controllers assume of their parameters is true of every
\* scrape that starts: validate_parsed_options leaves no zero for a pool that
\* would never begin, a window or interval that would never fill.
AssumptionsMet ==
  place = "scrape" =>
    /\ \A option \in DOMAIN options.numbers : options.numbers[option] \in 1 .. SizeMax
    /\ options.numbers["ssize"] <= MaxWindow
    /\ query.redirects.max_redirects >= 1

\* An authority written as endpoint.hpp documents is taken for the host and the
\* port it names, by the resolver and in the request to a proxy; one that is
\* accepted is some way of writing what it is taken for.
EndpointAsWritten ==
  place = "connection" =>
    /\ \A d \in Documented(DefaultPort) : d.text = options.host => Target = d.endpoint
    /\ \A d \in Documented(1080) : Proxied /\ d.text = options.proxy => Via = d.endpoint
    /\ Target.ok => /\ Target.port \in TcpPorts
                    /\ options.host \in Writings(Target, DefaultPort)
                    /\ Size(Target.host) < 256 => RequestedBy(ConnectRequest(Target)) = Target
=============================================================================
