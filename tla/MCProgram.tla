------------------------------ MODULE MCProgram ------------------------------
(***************************************************************************)
(* Families of command lines, each varied where a branch of the code       *)
(* looks and left at the defaults elsewhere: what the validation refuses,  *)
(* what the options turn on, and how an authority is written.              *)
(***************************************************************************)
EXTENDS Program

MCNumerals == [w \in {"0", "1", "443", "65535", "65536"} |->
                 CASE w = "0" -> 0 [] w = "1" -> 1 [] w = "443" -> 443
                   [] w = "65535" -> 65535 [] w = "65536" -> 65536]
        @@ [w \in {"9050"} |-> 9050]

\* "name" stands for a name that fits the length byte, "long" for one that does
\* not.
MCLengths == [w \in DOMAIN MCNumerals \cup {"name", "long", "127.0.0.1"} |->
                CASE w = "name" -> 255 [] w = "long" -> 256 [] OTHER -> 4]
MCLettered == {"name", "long"}

MCNames == {<<"name">>, <<"127.0.0.1">>}
MCAddresses == {<<":", ":", "1">>, <<"1", ":", ":">>}

Defaults(n) == [option \in NumberOptions |-> n]

Default ==
  [parses |-> TRUE, help |-> FALSE, host |-> <<"name">>, pattern |-> "good", stdin |-> FALSE,
   numbers |-> Defaults(2), required |-> {}, rejected |-> {}, screen |-> {},
   contents |-> FALSE, follow |-> FALSE, max_redirects |-> {}, tls |-> FALSE, verify |-> FALSE,
   tor |-> FALSE, proxy |-> <<>>, test |-> FALSE]

\* Numbers: all in order, one of them 0, -1 or too large to allocate.
Numbers == {Defaults(2)} \cup
           {[Defaults(2) EXCEPT ![option] = n] : option \in NumberOptions, n \in {0, -1, 6}}

Parsed == {[Default EXCEPT !.parses = p, !.help = h, !.host = host, !.test = e] :
             p, h, e \in BOOLEAN, host \in {<<>>, <<"name">>}}

Validated ==
  {[Default EXCEPT !.host = host, !.pattern = pattern, !.stdin = i, !.numbers = n,
                   !.contents = c, !.required = q, !.max_redirects = m, !.follow = f] :
     i, c, f \in BOOLEAN, host \in {<<>>, <<"name">>},
     pattern \in {"empty", "bad", "good"}, n \in Numbers, q \in {{}, {"valid"}, {"invalid"}},
     m \in {{}, {0}, {-1}}}

Wired ==
  {[Default EXCEPT !.tls = t, !.verify = v, !.tor = o, !.proxy = p, !.contents = c, !.test = e,
                   !.screen = s, !.rejected = r, !.host = host, !.pattern = pattern,
                   !.follow = f] :
     t, v, o, c, e, f \in BOOLEAN, p \in {<<>>, <<"name", ":", "1">>, <<"name", ":", "0">>},
     s \in {{}, {"valid"}}, r \in {{}, {"other"}}, host \in {<<"127.0.0.1">>, <<"long">>, <<":">>},
     pattern \in {"bad", "good"}}

\* Every text of up to three tokens, by itself or with brackets around its
\* beginning; two words do not stand side by side.
Tokens == Delimiters \cup {"name", "1", "65536"}
Texts ==
  {a \in UNION {[1 .. n -> Tokens] : n \in 0 .. 3} :
     \A i \in 1 .. (Len(a) - 1) : {a[i], a[i + 1]} \cap Delimiters # {}}
Enclosed == {<<"[">> \o a \o <<"]">> \o b : a, b \in {t \in Texts : Len(t) < 3}}
Authorities == (Texts \ {<<>>}) \cup Enclosed
               \cup {<<"[", ":", ":", "1", "]", ":", w>> : w \in DOMAIN MCNumerals}
Ports == {<<"name", ":", w>> : w \in DOMAIN MCNumerals}

Written ==
  {[Default EXCEPT !.host = a, !.tls = t, !.tor = ~t] : a \in Authorities, t \in BOOLEAN}
  \cup {[Default EXCEPT !.proxy = a] : a \in Authorities \cup Ports}
  \cup {[Default EXCEPT !.host = a] : a \in Ports}

MCLines == Parsed \cup Validated \cup Wired \cup Written

\* options.cpp: "init must be positive".
NegativeRefused ==
  status = -1 /\ place # "options" => \A option \in NumberOptions : line.numbers[option] >= 1
=============================================================================
