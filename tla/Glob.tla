-------------------------------- MODULE Glob --------------------------------
(***************************************************************************)
(* What MatchLike promises (internal/expr/glob/like.go): "_" matches one    *)
(* character, "%" any number of them, "\" takes the next character as it is *)
(* and matches the end of the text when it is the last, letters match in    *)
(* either case, and the whole text must match.                              *)
(***************************************************************************)
EXTENDS Integers, Sequences

matchOne == 95
matchAll == 37
matchEsc == 92

\* equalFold, for the ASCII letters.
EqualFold(p, r) ==
    LET lower(c) == IF c \in 65..90 THEN c + 32 ELSE c IN lower(p) = lower(r)

\* From the i-th character of p and the j-th of s on.
MatchLike(p, s) ==
    LET match[i \in 1 .. Len(p) + 1, j \in 1 .. Len(s) + 1] ==
          LET more == j <= Len(s)
          IN  IF i > Len(p) THEN ~more
              ELSE CASE p[i] = matchAll -> \E k \in j .. Len(s) + 1 : match[i + 1, k]
                     [] p[i] = matchOne -> more /\ match[i + 1, j + 1]
                     [] p[i] = matchEsc /\ i = Len(p) -> ~more
                     [] p[i] = matchEsc /\ i # Len(p) ->
                          more /\ EqualFold(p[i + 1], s[j]) /\ match[i + 2, j + 1]
                     [] OTHER -> more /\ EqualFold(p[i], s[j]) /\ match[i + 1, j + 1]
    IN  match[1, 1]
=============================================================================
