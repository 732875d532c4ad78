-------------------------------- MODULE Like --------------------------------
(***************************************************************************)
(* The loop of MatchLike (internal/expr/glob/like.go), which backtracks to  *)
(* the last "%" only: one action per branch of the loop.                    *)
(***************************************************************************)
EXTENDS Glob

CONSTANTS Pattern, String   \* the patterns and texts considered

VARIABLES like,        \* the pattern and text of the call
          pattern, s,  \* what is left of them
          prevEscape,
          w, t,        \* the backtracking state
          at           \* "next", "skip" after a "%", "back", "true", "false"

likeVars == <<like, pattern, s, prevEscape, w, t, at>>

\* The loop's test and the character it reads: at the end of the text the rest
\* of the pattern must be "%", or a last "\".
OnlyAll(p) == \A i \in DOMAIN p : p[i] = matchAll \/ (i = Len(p) /\ p[i] = matchEsc)

EndOfText ==
    /\ at = "next" /\ s = <<>>
    /\ at' = IF OnlyAll(pattern) THEN "true" ELSE "false"
    /\ UNCHANGED <<like, pattern, s, prevEscape, w, t>>

EndOfPattern ==
    /\ at = "next" /\ s # <<>> /\ pattern = <<>>
    /\ at' = "back"
    /\ UNCHANGED <<like, pattern, s, prevEscape, w, t>>

Reads(c) == at = "next" /\ s # <<>> /\ pattern # <<>> /\ pattern[1] = c /\ ~prevEscape

All ==
    /\ Reads(matchAll)
    /\ pattern' = Tail(pattern) /\ at' = "skip"
    /\ UNCHANGED <<like, s, prevEscape, w, t>>

AtWildcard == pattern # <<>> /\ pattern[1] \in {matchAll, matchOne}

\* After a "%", further wildcards are consumed; then the state is saved.
Skip ==
    /\ at = "skip" /\ AtWildcard
    /\ pattern' = Tail(pattern)
    /\ CASE pattern[1] = matchAll -> UNCHANGED <<s, at>>
         [] pattern[1] = matchOne /\ s = <<>> -> at' = "false" /\ UNCHANGED s
         [] OTHER -> s' = Tail(s) /\ UNCHANGED at
    /\ UNCHANGED <<like, prevEscape, w, t>>

\* Variant: the state is not saved.
SaveNone ==
    /\ at = "skip" /\ ~AtWildcard
    /\ at' = IF pattern = <<>> THEN "true" ELSE "next"
    /\ UNCHANGED <<like, pattern, s, prevEscape, w, t>>
Save ==
    /\ at = "skip" /\ ~AtWildcard
    /\ at' = IF pattern = <<>> THEN "true" ELSE "next"
    /\ w' = pattern /\ t' = s
    /\ UNCHANGED <<like, pattern, s, prevEscape>>

One ==
    /\ Reads(matchOne)
    /\ pattern' = Tail(pattern) /\ s' = Tail(s)
    /\ UNCHANGED <<like, prevEscape, w, t, at>>

Escape ==
    /\ Reads(matchEsc)
    /\ pattern' = Tail(pattern) /\ prevEscape' = TRUE
    /\ UNCHANGED <<like, s, w, t, at>>

Ordinary ==
    /\ at = "next" /\ s # <<>> /\ pattern # <<>>
    /\ prevEscape \/ pattern[1] \notin {matchAll, matchOne, matchEsc}
    /\ pattern' = Tail(pattern) /\ s' = Tail(s) /\ prevEscape' = FALSE
    /\ at' = IF EqualFold(pattern[1], s[1]) THEN "next" ELSE "back"
    /\ UNCHANGED <<like, w, t>>

\* Variant: Backtrack without the step forward in the text.
BacktrackInPlace ==
    /\ at = "back"
    /\ IF w = <<>>
       THEN /\ at' = IF prevEscape /\ s = <<>> THEN "true" ELSE "false"
            /\ UNCHANGED <<pattern, s, prevEscape>>
       ELSE pattern' = w /\ prevEscape' = FALSE /\ s' = t /\ at' = "skip"
    /\ UNCHANGED <<like, w, t>>
Backtrack ==
    /\ at = "back"
    /\ IF w = <<>>
       THEN /\ at' = IF prevEscape /\ s = <<>> THEN "true" ELSE "false"
            /\ UNCHANGED <<pattern, s, prevEscape>>
       ELSE pattern' = w /\ prevEscape' = FALSE /\ s' = Tail(t) /\ at' = "skip"
    /\ UNCHANGED <<like, w, t>>

LikeInit ==
    /\ like \in [p : Pattern, s : String]
    /\ pattern = like.p /\ s = like.s /\ prevEscape = FALSE
    /\ w = <<>> /\ t = <<>> /\ at = "next"

Returned == at \in {"true", "false"} /\ UNCHANGED likeVars

LikeNext == EndOfText \/ EndOfPattern \/ All \/ Skip \/ Save \/ One \/ Escape
            \/ Ordinary \/ Backtrack \/ Returned

LikeFairness == WF_likeVars(LikeNext)

-----------------------------------------------------------------------------
\* The loop answers what the pattern means: giving up every earlier "%" for
\* the last one loses no match.
MatchesPattern ==
    /\ at = "true" => MatchLike(like.p, like.s)
    /\ at = "false" => ~MatchLike(like.p, like.s)

\* There is text left to step over whenever the loop backtracks: "the condition
\* len(t) # 0 is always true when we need to backtrack".
CanStepForward == at = "back" /\ w # <<>> => t # <<>>

\* Every call returns, although it goes back in the pattern.
LikeReturns == <>(at \in {"true", "false"})
=============================================================================
