------------------------------ MODULE Endpoint ------------------------------
(***************************************************************************)
(* src/src/abrade/endpoint.hpp, and what connection.hpp makes of an        *)
(* endpoint in its SOCKS5 CONNECT request.                                 *)
(*                                                                         *)
(* An authority is a sequence of tokens: the delimiters ":", "[" and "]",  *)
(* and words, the longest runs of other characters.                        *)
(***************************************************************************)
EXTENDS Integers, FiniteSets, SequencesExt

CONSTANTS
  Numerals, \* [words that are decimal numerals -> their values]
  Lengths,  \* [words -> their lengths in bytes]
  Lettered, \* words with a letter in them
  Names, Addresses \* hosts that are names, and that are IPv6 addresses

Delimiters == {":", "[", "]"}

\* A name has none of the delimiters, an IPv6 address two colons or more.
ASSUME EndpointAssumption ==
  /\ \A w \in DOMAIN Numerals : Numerals[w] \in Nat /\ w \notin Delimiters
  /\ \A w \in DOMAIN Lengths : Lengths[w] \in Nat \ {0}
  /\ \A h \in Names : h \in Seq(STRING) \ {<<>>} /\ ToSet(h) \cap Delimiters = {}
  /\ \A a \in Addresses : /\ a \in Seq(STRING) /\ ToSet(a) \cap {"[", "]"} = {}
                          /\ Cardinality({i \in DOMAIN a : a[i] = ":"}) >= 2

Unparsed == [ok |-> FALSE]
Endpoint(host, port) == [ok |-> TRUE, host |-> host, port |-> port]

TcpPorts == 1 .. 65535

\* parse_tcp_port: the whole of the text is a number, and from 1 to 65535.
IsTcpPort(text) ==
  /\ Len(text) = 1
  /\ text[1] \in DOMAIN Numerals
  /\ Numerals[text[1]] \in TcpPorts

\* What follows a host: nothing, or a colon and a port.
WithSuffix(host, rest, default) ==
  IF host = <<>> THEN Unparsed
  ELSE IF rest = <<>> THEN Endpoint(host, default)
  ELSE IF rest[1] = ":" /\ IsTcpPort(Tail(rest)) THEN Endpoint(host, Numerals[rest[2]])
  ELSE Unparsed

Find(authority, token) == SelectInSeq(authority, LAMBDA t : t = token)

Bracketed(authority, default) ==
  LET close == Find(authority, "]")
  IN  IF close = 0 THEN Unparsed
      ELSE WithSuffix(SubSeq(authority, 2, close - 1),
                      SubSeq(authority, close + 1, Len(authority)), default)

\* One colon is a port's; two or more are an IPv6 address's.  (Mutant: the last
\* colon is a port's, as it is in a URL.)
HasPortSuffixAnyColon(authority) == Find(authority, ":") # 0        \* mutant
HasPortSuffix(authority) ==
  Cardinality({i \in DOMAIN authority : authority[i] = ":"}) = 1

\* parse_host_endpoint.
ParseHostEndpoint(authority, default) ==
  LET colon == SelectLastInSeq(authority, LAMBDA t : t = ":")
  IN  IF authority = <<>> THEN Unparsed
      ELSE IF authority[1] = "[" THEN Bracketed(authority, default)
      ELSE IF HasPortSuffix(authority)
           THEN WithSuffix(SubSeq(authority, 1, colon - 1),
                           SubSeq(authority, colon, Len(authority)), default)
           ELSE Endpoint(authority, default)

\* is_dns_name.
IsDnsName(host) == /\ Find(host, ":") = 0
                   /\ \E i \in DOMAIN host : host[i] \in Lettered

-----------------------------------------------------------------------------
\* connect_request: the length of the name in one byte, the name, and the port in
\* network order.
Size(host) == FoldSeq(LAMBDA t, sum : sum + (IF t \in Delimiters THEN 1 ELSE Lengths[t]),
                      0, host)
PortBytes(port) == <<port \div 256, port % 256>>
ConnectRequest(endpoint) ==
  [length |-> Size(endpoint.host) % 256, name |-> endpoint.host,
   port |-> PortBytes(endpoint.port)]

PortOf(bytes) == 256 * bytes[1] + bytes[2]

\* RFC 1928, as a proxy reads it: so many bytes are the name, the next two the
\* port.  The port is found only behind the whole name.
RequestedBy(request) ==
  IF request.length = Size(request.name)
  THEN Endpoint(request.name, PortOf(request.port))
  ELSE Unparsed

-----------------------------------------------------------------------------
\* endpoint.hpp: "example.com", "example.com:8443", "::1" and "[::1]:8443".  The
\* authorities so written, and the endpoints they mean.
InBrackets(host) == <<"[">> \o host \o <<"]">>
WithPort(host, numeral) == host \o <<":", numeral>>

Documented(default) ==
  LET ports == {n \in DOMAIN Numerals : Numerals[n] \in TcpPorts}
      Written(text, host, port) == [text |-> text, endpoint |-> Endpoint(host, port)]
  IN       {Written(h, h, default) : h \in Names \cup Addresses}
      \cup {Written(InBrackets(a), a, default) : a \in Addresses}
      \cup {Written(WithPort(h, n), h, Numerals[n]) : h \in Names, n \in ports}
      \cup {Written(WithPort(InBrackets(a), n), a, Numerals[n]) : a \in Addresses, n \in ports}

\* The ways to write an endpoint, with or without brackets and port.
Writings(e, default) ==
  LET hosts == {e.host, InBrackets(e.host)}
      numerals == {n \in DOMAIN Numerals : Numerals[n] = e.port}
  IN  {h \in hosts : e.port = default} \cup {WithPort(h, n) : h \in hosts, n \in numerals}
=============================================================================
