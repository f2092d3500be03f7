--------------------------- MODULE MCUriGenerator ---------------------------
EXTENDS UriGenerator

Tok(type, first, last, domains) ==
  [type |-> type, first |-> first, last |-> last, domains |-> domains, before |-> <<>>]
Explicit(first, last) == Tok("explicit", first, last, <<>>)
Implicit(domains) == Tok("implicit", 0, 0, domains)
Continuation == Tok("continuation", 0, 0, <<>>)
Malformed == Tok("malformed", 0, 0, <<>>)
After(literal, token) == [token EXCEPT !.before = literal]

\* Domains of numerals, and one of letters; a literal that is a numeral too.
One == <<0>>
Two == <<0, 1>>
Three == <<0, 1, 2>>
Letters == <<10, 11>>

\* One of each kind, products of each two, continuations of each and of one
\* another, ranges up to the largest size_t, and templates that are refused.
\* Explicit ranges of one width and of two; with --telescoping, one range of
\* several widths beside others of one, and two of them.
MCTemplates ==
  { <<>>,
    <<Explicit(2, 4)>>, <<Explicit(0, 15)>>, <<Explicit(13, 15), Explicit(8, 9)>>,
    <<Explicit(9, 11), Explicit(0, 1)>>, <<Explicit(1, 11), Explicit(1, 11)>>,
    <<Explicit(3, 3), After(<<1>>, Continuation)>>, <<Explicit(9, 11), Continuation>>,
    <<Implicit(<<Two>>)>>, <<Implicit(<<Two, Three>>)>>, <<Implicit(<<Three, One, Two>>)>>,
    <<Implicit(<<Two, Two>>), Implicit(<<Three>>)>>,
    <<Implicit(<<Two, Two>>), Implicit(<<Two, Two>>)>>,
    <<After(<<1>>, Implicit(<<Letters, Two>>)), After(<<1>>, Explicit(0, 1))>>,
    <<Explicit(0, 1), Implicit(<<Two, Two>>), Continuation>>,
    <<Implicit(<<Two, Two>>), Continuation, Continuation, Explicit(14, 15)>>,
    <<Continuation>>, <<Explicit(4, 3)>>, <<Implicit(<<Two>>), Malformed>> }

\* {dd} and {hh}, with domains of two and three elements.
WideTemplates == { <<Implicit(<<Two, Two>>)>> , <<Implicit(<<Three, Three>>)>> }
=============================================================================
