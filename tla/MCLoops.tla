------------------------------- MODULE MCLoops -------------------------------
(***************************************************************************)
(* Small instances of three loops: the rows of the SQL driver, the iterator *)
(* of the memory engine, and the matching of LIKE.  One is chosen at the    *)
(* start; the variables of the others do not change.                        *)
(***************************************************************************)
EXTENDS MemoryIterator

CONSTANTS Loop,   \* the loops that are run: "driver", "iterator", "like"
          MaxDocs, InPattern, MaxPattern, InString, MaxString

VARIABLES loop,
          tx, rows, gor, ch, ctxDone, left, given, got, last, res,
          like, pattern, s, prevEscape, w, t, at

driverVars == <<tx, rows, gor, ch, ctxDone, left, given, got, last, res>>

likeVars == <<like, pattern, s, prevEscape, w, t, at>>

driver == INSTANCE Driver
glob == INSTANCE Like WITH
    Pattern <- UNION {[1..n -> InPattern] : n \in 0..MaxPattern},
    String <- UNION {[1..n -> InString] : n \in 0..MaxString}

ASSUME DriverAssumption == driver!MaxDocsNat

LoopsInit ==
    /\ loop \in Loop
    /\ driver!Init /\ Init
    /\ loop # "iterator" => reverse = FALSE /\ \A k \in Key : item[k] = "none"
    /\ IF loop = "like" THEN glob!LikeInit
       ELSE /\ like = [p |-> <<>>, s |-> <<>>] /\ pattern = <<>> /\ s = <<>>
            /\ prevEscape = FALSE /\ w = <<>> /\ t = <<>> /\ at = "true"

LoopsNext ==
    /\ UNCHANGED loop
    /\ \/ loop = "driver" /\ driver!Next /\ UNCHANGED <<vars, likeVars>>
       \/ loop = "iterator" /\ NextStep /\ UNCHANGED <<driverVars, likeVars>>
       \/ loop = "like" /\ glob!LikeNext /\ UNCHANGED <<vars, driverVars>>

\* In a loop that was not chosen no action of the code is enabled, so that the
\* fairness of the others asks nothing of it.
LoopsSpec ==
    /\ LoopsInit
    /\ [][LoopsNext]_<<loop, vars, driverVars, likeVars>>
    /\ Fairness /\ driver!Fairness /\ glob!LikeFairness

(* The types of the variables of the iterator and of the driver.            *)
LoopsTypeOK == TypeOK /\ driver!TypeOK

(* Neither loop panics: Next of the driver does not send on the channel the *)
(* goroutine has closed, and MatchLike does not slice an empty text when it *)
(* backtracks.                                                              *)
NoPanic == driver!NeverPanics /\ glob!CanStepForward

(* The rows Next returns are the documents of the iteration, each once, and *)
(* io.EOF is their end.                                                     *)
RowsAreDocs == driver!RowsAreDocs

(* Close commits a result that was read to io.EOF, and rolls back one whose *)
(* error Next has returned.                                                 *)
OutcomeIsKnown == driver!OutcomeIsKnown

(* Next returns, and the goroutine of a query ends.                         *)
DriverReturns == driver!DriverReturns

(* MatchLike answers what the pattern means.                                *)
MatchesPattern == glob!MatchesPattern

(* Iterating over a finite store ends, and so does matching a pattern,      *)
(* although both go back.                                                   *)
LoopsReturn == Ends /\ glob!LikeReturns
=============================================================================
