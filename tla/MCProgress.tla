----------------------------- MODULE MCProgress -----------------------------
(***************************************************************************)
(* The loops, and beside them Database.BeginTx, which waits for the others: *)
(* what has to end does, under the fairness of the scheduler and of         *)
(* sync.RWMutex.                                                            *)
(***************************************************************************)
EXTENDS MCLoops

CONSTANTS Proc, Tx, None

VARIABLES pc, call, cur, st, writable, hooked, terminated, cancelled, attached,
          closed, shared, live, committed, before, seen, leftover,
          writer, readers, rwait

\* Goroutines that open transactions of their own and close them.
db == INSTANCE Database WITH
    Val <- {0}, InitVal <- 0,
    Options <- [readOnly : BOOLEAN, attached : {FALSE}],
    MayCancel <- FALSE, MayClose <- FALSE

dbVars == <<pc, call, cur, st, writable, hooked, terminated, cancelled, attached,
            closed, shared, live, committed, before, seen, leftover,
            writer, readers, rwait>>

ProgressInit == LoopsInit /\ db!Init

ProgressNext ==
    \/ LoopsNext /\ UNCHANGED dbVars
    \/ loop = "begin" /\ db!Next /\ UNCHANGED <<loop, vars, driverVars, likeVars>>

ProgressSpec ==
    /\ ProgressInit
    /\ [][ProgressNext]_<<loop, vars, driverVars, likeVars, dbVars>>
    /\ Fairness /\ driver!Fairness /\ glob!LikeFairness
    /\ db!CodeFairness /\ db!CallerFairness

(* A BeginTx that waits for txmu gets it, when every transaction that is    *)
(* begun is closed by its caller.                                           *)
BeginReturns == db!BeginReturns
=============================================================================
