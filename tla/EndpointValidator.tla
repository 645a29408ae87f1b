-------------------------- MODULE EndpointValidator --------------------------
(***************************************************************************)
(* BeaconEndpointValidator (cmd/validator): IsValidBeaconEndpoint trims   *)
(* whitespace, then trailing slashes, rejects the empty path and matches   *)
(* what is left against the anchored regular expressions compiled by      *)
(* NewBeaconEndpointValidator.                                             *)
(*                                                                         *)
(* A path is a sequence of symbols: "/", " " (any Unicode whitespace) and  *)
(* tokens, each token standing for a run of characters that contains      *)
(* neither.  A pattern is a sequence of "/", tokens (its literal text) and *)
(* AnySeg, the [^/]+ of the source.                                        *)
(***************************************************************************)
EXTENDS Naturals, Sequences, SequencesExt

CONSTANTS
    ValidPaths    \* the compiled patterns, in the order of the source

Slash == "/"
Space == " "
AnySeg == "[^/]+"

\* strings.TrimSpace: leading and trailing whitespace removed.
RECURSIVE TrimLeftSpace(_)
TrimLeftSpace(s) ==
    IF s # <<>> /\ Head(s) = Space THEN TrimLeftSpace(Tail(s)) ELSE s

RECURSIVE TrimRightSym(_, _)
TrimRightSym(s, c) ==
    IF s # <<>> /\ Last(s) = c THEN TrimRightSym(Front(s), c) ELSE s

TrimSpace(s) == TrimRightSym(TrimLeftSpace(s), Space)

\* Bug variant of Match: [^/]+ read as .+, a segment that may span "/".
RECURSIVE MatchDotPlus(_, _)
MatchDotPlus(pat, s) ==
    IF pat = <<>> THEN s = <<>>
    ELSE IF Head(pat) = AnySeg
      THEN \E k \in 1..Len(s) :
               MatchDotPlus(Tail(pat), SubSeq(s, k + 1, Len(s)))
      ELSE s # <<>> /\ Head(s) = Head(pat) /\ MatchDotPlus(Tail(pat), Tail(s))

\* pattern.MatchString(path) for an anchored pattern ^...$: literals match
\* themselves, [^/]+ one or more symbols other than "/" (backtracking over
\* how many).
RECURSIVE Match(_, _)
Match(pat, s) ==
    IF pat = <<>> THEN s = <<>>
    ELSE IF Head(pat) = AnySeg
      THEN \E k \in 1..Len(s) :
               /\ \A i \in 1..k : s[i] # Slash
               /\ Match(Tail(pat), SubSeq(s, k + 1, Len(s)))
      ELSE s # <<>> /\ Head(s) = Head(pat) /\ Match(Tail(pat), Tail(s))

\* IsValidBeaconEndpoint(path).
IsValidBeaconEndpoint(path) ==
    LET p == TrimRightSym(TrimSpace(path), Slash)
    IN  /\ p # <<>>
        /\ \E i \in 1..Len(ValidPaths) : Match(ValidPaths[i], p)

-----------------------------------------------------------------------------
(* Reference: what the whitelist admits, stated by segments.  A path is an *)
(* endpoint when, up to whitespace around it and slashes at its end, it is *)
(* "/" followed by segments separated by "/", as many as the pattern has, *)
(* each equal to the pattern's literal segment or, for [^/]+, non-empty.   *)

\* The "/"-separated segments of s (s = <<>> has one, empty, segment).
RECURSIVE Segments(_)
Segments(s) ==
    LET i == SelectInSeq(s, LAMBDA c : c = Slash)
    IN  IF i = 0 THEN <<s>>
        ELSE <<SubSeq(s, 1, i - 1)>> \o Segments(SubSeq(s, i + 1, Len(s)))

SegmentMatches(patSeg, seg) ==
    IF patSeg = <<AnySeg>> THEN seg # <<>> ELSE seg = patSeg

IsEndpointCore(pat, core) ==
    /\ core # <<>> /\ Head(core) = Slash
    /\ LET ps == Segments(Tail(pat))
           cs == Segments(Tail(core))
       IN  /\ Len(ps) = Len(cs)
           /\ \A i \in 1..Len(ps) : SegmentMatches(ps[i], cs[i])

AllOf(s, c) == \A i \in 1..Len(s) : s[i] = c

\* path = spaces \o core \o slashes \o spaces, core an endpoint.
IsEndpoint(path) ==
    \E a, b, c \in 0..Len(path) :
        /\ a <= b /\ b <= c
        /\ AllOf(SubSeq(path, 1, a), Space)
        /\ AllOf(SubSeq(path, b + 1, c), Slash)
        /\ AllOf(SubSeq(path, c + 1, Len(path)), Space)
        /\ \E i \in 1..Len(ValidPaths) :
               IsEndpointCore(ValidPaths[i], SubSeq(path, a + 1, b))

=============================================================================
