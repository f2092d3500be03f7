---------------------------- MODULE UriGenerator ----------------------------
(***************************************************************************)
(* The pattern generator of src/src/abrade/generator.cpp: a template is a  *)
(* sequence of brace tokens, each becomes a range, and next() reads off    *)
(* the ranges and turns them like an odometer.                             *)
(*                                                                         *)
(* A character is a number, and the decimal digits are 0 to 9; a string is *)
(* a sequence of characters.  The literal after the last token, which ends *)
(* every candidate alike, is left out.  A range's text is what it stands   *)
(* at, one number or the indices in its domains, before it is spelt.       *)
(***************************************************************************)
EXTENDS Integers, Sequences, SequencesExt, FiniteSets, FiniteSetsExt

CONSTANTS
  Templates, \* templates: sequences of Token
  SizeMax,   \* the largest size_t
  Digits     \* the most decimal digits that a size_t has

\* An explicit token has its bounds, an implicit one the values of its domains;
\* a malformed one does not parse, or names no domain.  Before it, a literal.
Token == [type : {"explicit", "implicit", "continuation", "malformed"},
          first : 0 .. SizeMax, last : 0 .. SizeMax,
          domains : Seq(Seq(Nat)), before : Seq(Nat)]

Product(s) == FoldLeft(LAMBDA a, b : a * b, 1, s)
Tens(w) == [p \in 1 .. w |-> 10]

ASSUME TemplatesAssumption ==
  /\ SizeMax \in Nat \ {0}
  /\ Digits \in Nat \ {0} /\ SizeMax < Product(Tens(Digits))
  /\ Templates \subseteq Seq(Token)
  /\ \A t \in Templates : \A i \in DOMAIN t :
       /\ t[i].type = "implicit" => t[i].domains # <<>>
       /\ \A p \in DOMAIN t[i].domains :
            t[i].domains[p] # <<>> /\ IsInjective(t[i].domains[p])

VARIABLES
  template, lead_zero, telescoping, \* the constructor's arguments
  status,      \* "new", then "ready" or "failed"
  current,     \* ExplicitRange::current
  index,       \* TelescopingRange::index, from 1
  digits,      \* ImplicitRange::digits of each range in a telescoping one
  is_complete,
  emitted      \* the candidates next() has returned

arguments == <<template, lead_zero, telescoping>>
vars == <<arguments, status, current, index, digits, is_complete, emitted>>

Ranges == DOMAIN template
IsA(i, type) == template[i].type = type

\* The implicit ranges of a token: its suffixes, shortest first, if telescoping;
\* otherwise just itself, so that an ImplicitRange is a TelescopingRange of one.
\* Each is known by the sizes of its domains.
SizesOf(domains) == [p \in DOMAIN domains |-> Len(domains[p])]
SubRanges(i) ==
  LET d == SizesOf(template[i].domains)
  IN  IF telescoping THEN [k \in DOMAIN d |-> SubSeq(d, Len(d) - k + 1, Len(d))] ELSE <<d>>

Zeros(domains) == [p \in DOMAIN domains |-> 0]

Init ==
  /\ template \in Templates /\ lead_zero \in BOOLEAN /\ telescoping \in BOOLEAN
  /\ status = "new"
  /\ current = [i \in Ranges |-> template[i].first]
  /\ index = [i \in Ranges |-> 1]
  /\ digits = [i \in Ranges |-> [k \in DOMAIN SubRanges(i) |-> Zeros(SubRanges(i)[k])]]
  /\ is_complete = FALSE
  /\ emitted = <<>>

\* UriGenerator::UriGenerator throws on a token that does not parse, on a
\* descending range, and on a continuation with nothing before it.
Rejected == \/ \E i \in Ranges : IsA(i, "malformed")
            \/ \E i \in Ranges : IsA(i, "explicit") /\ template[i].last < template[i].first
            \/ template # <<>> /\ IsA(1, "continuation")

Construct ==
  /\ status = "new"
  /\ status' = IF Rejected THEN "failed" ELSE "ready"
  /\ UNCHANGED <<arguments, current, index, digits, is_complete, emitted>>

-----------------------------------------------------------------------------
\* ImplicitRange::get_current: leading zero digits are suppressed, but not the
\* last digit.  (Mutant: --leadzero is not passed on.)
ShownStripped(word) ==                                              \* mutant
  SubSeq(word, Min({p \in DOMAIN word : word[p] # 0 \/ p = Len(word)}), Len(word))
Shown(word) ==
  LET from == Min({p \in DOMAIN word : lead_zero \/ word[p] # 0 \/ p = Len(word)})
  IN  SubSeq(word, from, Len(word))

\* The range a continuation shows: chains of them end at the last range before.
Target(i) == Max({j \in 1 .. i : ~IsA(j, "continuation")})

Text(i) == LET j == Target(i)
           IN  IF IsA(j, "explicit") THEN <<current[j]>> ELSE Shown(digits[j][index[j]])

-----------------------------------------------------------------------------
\* The word of a number over these radices, n from 0: what n leaves when it is
\* divided by one radix after another, from the right.
Quotients(radices, n) ==
  LET rest[p \in 0 .. Len(radices)] ==
        IF p = Len(radices) THEN n ELSE rest[p + 1] \div radices[p + 1]
  IN  rest
Word(radices, n) == [p \in DOMAIN radices |-> Quotients(radices, n)[p] % radices[p]]

\* std::to_string.
Width(n) == Min({w \in 1 .. Digits : n < Product(Tens(w))})
Decimal(n) == Word(Tens(Width(n)), n)

\* get_current of each kind of range: a number in decimal, or for each index that
\* is shown the element of its domain, the shown ones being the last.
Spelt(j, text) ==
  IF IsA(j, "explicit") THEN Decimal(text[1])
  ELSE LET d == template[j].domains
       IN  [p \in DOMAIN text |-> d[Len(d) - Len(text) + p][text[p] + 1]]

\* UriGenerator::next puts the literals and the ranges' texts behind one another.
Spelling(texts) ==
  FlattenSeq([i \in Ranges |-> template[i].before \o Spelt(Target(i), texts[i])])

Candidate == Spelling([i \in Ranges |-> Text(i)])

-----------------------------------------------------------------------------
\* ImplicitRange::increment_return_carry: the digits that roll over, the digit
\* that moves, and whether none was left to move.
Movable(word, domains) == {p \in DOMAIN word : word[p] + 1 < domains[p]}

Turned(word, domains) ==
  LET pivot == Max(Movable(word, domains) \cup {0})
  IN  [p \in DOMAIN word |-> IF p < pivot THEN word[p]
                             ELSE IF p = pivot THEN word[p] + 1 ELSE 0]

\* increment_return_carry of each kind of range, before it changes anything.
Carries(i) == CASE IsA(i, "explicit") -> current[i] = template[i].last
                [] IsA(i, "continuation") -> TRUE
                [] OTHER -> /\ index[i] = Len(SubRanges(i))
                            /\ Movable(digits[i][index[i]], SubRanges(i)[index[i]]) = {}

\* TelescopingRange::increment_return_carry moves to the next longer suffix when
\* the current one has rolled over.  (Mutant: reset leaves index alone.)
IndexNotReset(i, reset) ==                                          \* mutant
  CASE ~IsA(i, "implicit") \/ reset -> index[i]
    [] OTHER -> IF Movable(digits[i][index[i]], SubRanges(i)[index[i]]) = {}
                THEN index[i] + 1 ELSE index[i]
IndexAfter(i, reset) ==
  CASE ~IsA(i, "implicit") -> index[i]
    [] IsA(i, "implicit") /\ reset -> 1
    [] OTHER -> IF Movable(digits[i][index[i]], SubRanges(i)[index[i]]) = {}
                THEN index[i] + 1 ELSE index[i]

\* ExplicitRange: current++ wraps; reset returns to the start.
CurrentAfter(i, reset) ==
  CASE ~IsA(i, "explicit") -> current[i]
    [] IsA(i, "explicit") /\ reset -> template[i].first
    [] OTHER -> (current[i] + 1) % (SizeMax + 1)

\* ImplicitRange::reset does nothing: a range that carried is at zero already.
DigitsAfter(i) ==
  IF IsA(i, "implicit")
  THEN [digits[i] EXCEPT ![index[i]] = Turned(@, SubRanges(i)[index[i]])]
  ELSE digits[i]

\* UriGenerator::increment_ranges: from the right, every range that carries is
\* reset, and the first that does not carry is the last to move.
Pivot == Max({i \in Ranges : ~Carries(i)} \cup {0})

increment_ranges ==
  /\ current' = [i \in Ranges |-> IF i < Pivot THEN current[i] ELSE CurrentAfter(i, i > Pivot)]
  /\ index' = [i \in Ranges |-> IF i < Pivot THEN index[i] ELSE IndexAfter(i, i > Pivot)]
  /\ digits' = [i \in Ranges |-> IF i < Pivot THEN digits[i] ELSE DigitsAfter(i)]
  /\ is_complete' = (Pivot = 0)

\* UriGenerator::next, until it returns nullopt.
next ==
  /\ status = "ready" /\ ~is_complete
  /\ emitted' = Append(emitted, Candidate)
  /\ increment_ranges
  /\ UNCHANGED <<arguments, status>>

Next == Construct \/ next

Spec == Init /\ [][Next]_vars

-----------------------------------------------------------------------------
\* get_range_size: products and sums are checked, and too large a one throws.
Overflow == -1
CheckedUnbounded(x) == x                                            \* mutant
Checked(x) == IF x > SizeMax THEN Overflow ELSE x
CheckedMultiply(a, b) == IF Overflow \in {a, b} THEN Overflow ELSE Checked(a * b)
CheckedAdd(a, b) == IF Overflow \in {a, b} THEN Overflow ELSE Checked(a + b)

SizeOf(i) ==
  CASE IsA(i, "explicit") -> CheckedAdd(template[i].last - template[i].first, 1)
    [] IsA(i, "continuation") -> 1
    [] OTHER -> FoldLeft(CheckedAdd, 0,
                  [k \in DOMAIN SubRanges(i) |-> FoldLeft(CheckedMultiply, 1, SubRanges(i)[k])])

get_range_size == FoldLeft(CheckedMultiply, 1, [i \in Ranges |-> SizeOf(i)])

-----------------------------------------------------------------------------
\* What docs/patterns.md describes, by counting instead of turning.
Words(domains) == [n \in 1 .. Product(domains) |-> Shown(Word(domains, n - 1))]

\* The texts of a range, in order.
Texts(i) ==
  CASE IsA(i, "explicit") ->
         [n \in 1 .. (template[i].last - template[i].first + 1) |-> <<template[i].first + n - 1>>]
    [] IsA(i, "continuation") -> << <<>> >>
    [] OTHER -> FlattenSeq([k \in DOMAIN SubRanges(i) |-> Words(SubRanges(i)[k])])

Radices == [i \in Ranges |-> Len(Texts(i))]
Count == Product(Radices)

\* The n-th candidate, n from 0: a Cartesian product, the rightmost fastest.
Expected(n) ==
  LET place == Word(Radices, n)
  IN  Spelling([i \in Ranges |-> Texts(Target(i))[place[Target(i)] + 1]])

-----------------------------------------------------------------------------
\* The odometer emits the Cartesian product, the rightmost range fastest, a
\* continuation always with the text of its target: resets, carries and
\* telescoping leave no candidate out and put none out of order, up to the last.
EmitsTheProduct ==
  status = "ready" =>
    /\ Len(emitted) <= Count
    /\ emitted # <<>> => Last(emitted) = Expected(Len(emitted) - 1)
    /\ is_complete <=> Len(emitted) = Count

\* The cardinality printed before a run is the number of candidates the run
\* emits, and it is only refused when that number does not fit.
CardinalityIsCount ==
  is_complete => get_range_size = IF Len(emitted) > SizeMax THEN Overflow ELSE Len(emitted)

\* The ranges whose texts are not all of one length, with --leadzero.
VariableWidth ==
  {i \in Ranges :
     \/ IsA(i, "explicit") /\ Width(template[i].first) # Width(template[i].last)
     \/ IsA(i, "implicit") /\ telescoping /\ Len(template[i].domains) > 1}

\* With --leadzero no candidate string is emitted twice, telescoping or not, as
\* long as at most one range has texts of several lengths: of two such ranges the
\* strings may run together ({1:11}{1:11} has 111 for 1 and 11 and for 11 and 1).
OnceWithLeadZero ==
  lead_zero /\ Cardinality(VariableWidth) <= 1 => IsInjective(emitted)

\* docs/patterns.md:97-98 of --telescoping: a pattern such as {ddd} is treated as
\* the union of {d}, {dd} and {ddd}, so that no candidate comes twice.
TelescopingIsUnion ==
  telescoping /\ (\A i \in Ranges : IsA(i, "implicit")) /\ Len(template) = 1
    => IsInjective(emitted)

\* docs/patterns.md:54 of {hh}: the candidates of an implicit range are all as wide
\* as the range, from 00 to ff.
FullWidth ==
  ~telescoping /\ (\A i \in Ranges : IsA(i, "implicit")) =>
    \A m, n \in DOMAIN emitted : Len(emitted[m]) = Len(emitted[n])
=============================================================================
