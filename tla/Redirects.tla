----------------------------- MODULE Redirects ------------------------------
(***************************************************************************)
(* RedirectPolicy (src/src/abrade/redirect_policy.hpp): which request, if  *)
(* any, follows a 3xx response; and the resolution of a relative reference *)
(* of RFC 3986, section 5.2, it stands for.                                *)
(*                                                                         *)
(* A location and a target are sequences of tokens: the delimiters ":",    *)
(* "/", "?" and "#", and words, among them schemes and hosts.              *)
(***************************************************************************)
EXTENDS Integers, SequencesExt

CONSTANTS
  Locations, \* Location headers, <<>> if there is none
  Targets,   \* the targets a response may be for
  scheme,    \* of the scrape: "https" with --tls, "http" without
  authority  \* of the scrape: its host, as a sequence of tokens

ASSUME RedirectAssumption ==
  /\ Locations \subseteq Seq(STRING) /\ Targets \subseteq Seq(STRING)
  /\ scheme \notin {":", "/", "?", "#"}

VARIABLES
  status_code, \* of the response
  location,    \* its Location header
  current,     \* the target it is the response to
  answered,    \* redirect_target has returned
  answer       \* what it returned, <<>> for nullopt

redirectVars == <<status_code, location, current, answered, answer>>

\* The sequence up to the first of some tokens, and from there on.
Before(s, tokens) == SubSeq(s, 1, Min({i \in DOMAIN s : s[i] \in tokens} \cup {Len(s) + 1}) - 1)
From(s, tokens) == SubSeq(s, Len(Before(s, tokens)) + 1, Len(s))
Drop(s, n) == SubSeq(s, n + 1, Len(s))

IsRedirectStatus(st) == st \in {301, 302, 303, 307, 308}
WithoutFragment(l) == Before(l, {"#"})

-----------------------------------------------------------------------------
\* The directory of a target, with its last slash.
ToLastSlash(p) == SubSeq(p, 1, Max({i \in DOMAIN p : p[i] = "/"} \cup {0}))
DirectoryOfTarget(t) == ToLastSlash(t)                              \* mutant
Directory(t) == LET path == Before(t, {"?"})
                IN IF "/" \in ToSet(path) THEN ToLastSlash(path) ELSE <<"/">>

ResolveRelative(l, t) ==
  CASE Head(l) = "/" -> l
    [] Head(l) = "?" -> Before(t, {"?"}) \o l
    [] OTHER         -> Directory(t) \o l

\* What follows "//": an authority, which has to be the scrape's, and a path.
OwnPrefix(a) == IsPrefix(authority, a)                              \* mutant
OwnAuthority(a) == a = authority

NormalizeAbsolute(rest) ==
  LET path == From(rest, {"/", "?"})
  IN IF ~OwnAuthority(Before(rest, {"/", "?"})) THEN <<>>
     ELSE IF path # <<>> /\ Head(path) = "/" THEN path
     ELSE <<"/">> \o path

\* The first "://", wherever it is, ends a scheme.
Separators(l) == {i \in 1..(Len(l) - 2) : SubSeq(l, i, i + 2) = <<":", "/", "/">>}

NormalizeLocation(raw, t) ==
  LET l == WithoutFragment(raw)
  IN IF l = <<>> THEN <<>>
     ELSE IF Separators(l) # {}
     THEN LET i == Min(Separators(l))
          IN IF SubSeq(l, 1, i - 1) = <<scheme>> THEN NormalizeAbsolute(Drop(l, i + 2)) ELSE <<>>
     ELSE IF IsPrefix(<<"/", "/">>, l) THEN NormalizeAbsolute(Drop(l, 2))
     ELSE ResolveRelative(l, t)

RedirectTarget(st, l, t) == IF IsRedirectStatus(st) THEN NormalizeLocation(l, t) ELSE <<>>

RedirectInit ==
  /\ status_code \in {301, 304}
  /\ location \in Locations
  /\ current \in Targets
  /\ answered = FALSE
  /\ answer = <<>>

\* The end of GetQuery::execute and of HeadQuery::execute, with
\* --follow-redirects.
Answer ==
  /\ ~answered
  /\ answered' = TRUE
  /\ answer' = RedirectTarget(status_code, location, current)
  /\ UNCHANGED <<status_code, location, current>>

RedirectNext == Answer
RedirectSpec == RedirectInit /\ [][RedirectNext]_redirectVars

Followed == answer # <<>>
-----------------------------------------------------------------------------
(***************************************************************************)
(* RFC 3986: a reference is [scheme ":"] ["//" authority] path ["?" query] *)
(* ["#" fragment].  A component that is absent is taken from the base.     *)
(***************************************************************************)
Parsed(reference) ==
  LET l == Before(reference, {"#"})
      word == Before(l, {":", "/", "?"})
      hasScheme == word # <<>> /\ From(l, {":", "/", "?"}) # <<>>
                   /\ Head(From(l, {":", "/", "?"})) = ":"
      rest == IF hasScheme THEN Drop(l, Len(word) + 1) ELSE l
      hasAuthority == IsPrefix(<<"/", "/">>, rest)
      afterSlashes == IF hasAuthority THEN Drop(rest, 2) ELSE rest
      hierarchy == IF hasAuthority THEN From(afterSlashes, {"/", "?"}) ELSE rest
  IN [ hasScheme    |-> hasScheme,
       scheme       |-> word,
       hasAuthority |-> hasAuthority,
       authority    |-> Before(afterSlashes, {"/", "?"}),
       path         |-> Before(hierarchy, {"?"}),
       query        |-> From(hierarchy, {"?"}) ]

SameOrigin(p) ==
  /\ p.hasScheme => p.scheme = <<scheme>> /\ p.hasAuthority
  /\ p.hasAuthority => p.authority = authority

\* The target of the reference; dot segments are the server's to remove.
Resolved(p, t) ==
  LET base == Before(t, {"?"})
      path == IF p.hasAuthority THEN IF p.path = <<>> THEN <<"/">> ELSE p.path
              ELSE IF p.path = <<>> THEN base
              ELSE IF Head(p.path) = "/" THEN p.path
              ELSE ToLastSlash(base) \o p.path
  IN path \o p.query

\* A redirect that names an authority of its own is followed only to the
\* scrape's, whatever else the location contains.
ForeignAuthorityRefused ==
  Followed /\ Parsed(location).hasAuthority => Parsed(location).authority = authority

\* Where a same-origin redirect is followed to is what the reference means, if
\* the response is to the target of a URI.  (A candidate may be any text.)
IsTarget(t) == IsPrefix(<<"/">>, t)
FollowedAsMeant ==
  Followed /\ IsTarget(current) /\ SameOrigin(Parsed(location)) =>
    answer = Resolved(Parsed(location), current)

\* Documentation: redirects are followed "only when the target remains on the
\* same scheme and host authority".
OnlySameOriginFollowed == Followed => SameOrigin(Parsed(location))

\* Documentation: "Abrade follows relative redirects".
RelativeFollowed ==
  LET p == Parsed(location)
  IN answered /\ IsRedirectStatus(status_code) /\ ~Followed =>
       \/ p.hasScheme \/ p.hasAuthority \/ p.path \o p.query = <<>>
       \/ ":" \in ToSet(Before(p.path, {"/"})) \* not a reference at all
=============================================================================
