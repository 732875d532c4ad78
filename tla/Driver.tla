------------------------------- MODULE Driver -------------------------------
(***************************************************************************)
(* The database/sql driver (driver/driver.go): a connection, and the       *)
(* stream of rows a query returns.  QueryContext starts a goroutine that   *)
(* iterates over the result; Next and the goroutine talk over one          *)
(* unbuffered channel, used in both directions: Next sends a request, then *)
(* receives a document.  Close cancels the goroutine's context and closes  *)
(* the result, which ends its transaction (statement.Result.Close), without *)
(* waiting for the goroutine.                                              *)
(*                                                                         *)
(* The caller is database/sql: it serializes Next and Close of one Rows,   *)
(* closes the Rows after the first error and after io.EOF, uses a          *)
(* connection for one Rows at a time, and ends a Tx after its Rows.        *)
(***************************************************************************)
EXTENDS Naturals

CONSTANT MaxDocs   \* a bound on the documents of a result

MaxDocsNat == MaxDocs \in Nat

VARIABLES tx,      \* the connection's transaction: "none", "open"
          rows,    \* the caller of Rows, see Rows
          gor,     \* the goroutine iterate, see Goroutine
          ch,      \* the channel: "open", "closed"
          ctxDone, \* cancelFn was called
          left,    \* the documents the iteration has still to give
          given,   \* the documents the goroutine was given by the iteration
          got,     \* the rows Next has returned
          last,    \* what the last Next returned: "none", "row", "eof", "err"
                   \* of the iteration, "badrow" for a document it cannot scan
          res      \* the Result: its own transaction, and its err field

vars == <<tx, rows, gor, ch, ctxDone, left, given, got, last, res>>

\* rows: in no call, in Next before its send, in Next before its receive, in
\* Close after cancelFn, closed.
Rows == {"none", "idle", "request", "receive", "closing", "closed"}

\* gor: in the first select, in the iteration, in the callback's two selects,
\* leaving the iteration after errStop, sending an error, returned.
Goroutine == {"none", "first", "iterate", "send", "recv", "stop", "fail", "ended"}

\* res.tx: "none" when the query runs in the connection's transaction.
ResultTx == {"none", "open", "committed", "rolledback"}

-----------------------------------------------------------------------------
(* The connection. *)

\* Close does not wait for the goroutine, so that a transaction may begin or end
\* while it is still unwinding.
NoRows == rows \in {"none", "closed"}

BeginTx ==
    /\ tx = "none" /\ NoRows
    /\ tx' = "open"
    /\ UNCHANGED <<rows, gor, ch, ctxDone, left, given, got, last, res>>

\* Commit, Rollback and Close of the connection.
EndTx ==
    /\ tx = "open" /\ NoRows
    /\ tx' = "none"
    /\ UNCHANGED <<rows, gor, ch, ctxDone, left, given, got, last, res>>

\* PrepareContext uses the connection's transaction if there is one; else the
\* Result owns a transaction, writable or not.  newRecordStream.  A query has a
\* channel and a goroutine of its own; the model follows one at a time.
QueryContext ==
    /\ NoRows /\ gor \in {"none", "ended"}
    /\ rows' = "idle" /\ gor' = "first" /\ ch' = "open" /\ ctxDone' = FALSE
    /\ left' \in 0..MaxDocs /\ given' = 0 /\ got' = 0 /\ last' = "none"
    /\ \E w \in BOOLEAN :
         res' = [tx |-> IF tx = "open" THEN "none" ELSE "open", writable |-> w,
                 err |-> FALSE, fails |-> FALSE]
    /\ UNCHANGED tx

-----------------------------------------------------------------------------
(* The caller. *)

\* Next sends a request: rs.c <- doc{}.
Next1 ==
    /\ rows = "idle" /\ last \in {"none", "row"}
    /\ rows' = "request"
    /\ UNCHANGED <<tx, gor, ch, ctxDone, left, given, got, last, res>>

\* The receive of a closed channel: io.EOF.
ReceiveEOF ==
    /\ rows = "receive" /\ ch = "closed"
    /\ rows' = "idle" /\ last' = "eof"
    /\ UNCHANGED <<tx, gor, ch, ctxDone, left, given, got, res>>

\* Close: cancelFn, then Result.Close, which commits a writable transaction of
\* its own unless the iteration has already recorded an error.
Close1 ==
    /\ rows = "idle"
    /\ rows' = "closing" /\ ctxDone' = TRUE
    /\ UNCHANGED <<tx, gor, ch, left, given, got, last, res>>

\* Variant: the error of the iteration is not looked at.
ResultCloseCommits(r) ==
    IF r.tx # "open" THEN r
    ELSE [r EXCEPT !.tx = IF r.writable THEN "committed" ELSE "rolledback"]

ResultClose(r) ==
    IF r.tx # "open" THEN r
    ELSE [r EXCEPT !.tx = IF r.writable /\ ~r.err THEN "committed" ELSE "rolledback"]

Close2 ==
    /\ rows = "closing"
    /\ rows' = "closed" /\ res' = ResultClose(res)
    /\ UNCHANGED <<tx, gor, ch, ctxDone, left, given, got, last>>

-----------------------------------------------------------------------------
(* The goroutine, and its exchanges with Next. *)

\* The first select, and the select after a document was sent, take a request.
TakeRequest ==
    /\ rows = "request" /\ ch = "open" /\ gor \in {"first", "recv"}
    /\ rows' = "receive" /\ gor' = "iterate"
    /\ UNCHANGED <<tx, ch, ctxDone, left, given, got, last, res>>

\* Variant: only the first select watches the context.
SeeCancelFirst ==
    /\ ctxDone /\ gor = "first"
    /\ gor' = "ended" /\ ch' = "closed"
    /\ UNCHANGED <<tx, rows, ctxDone, left, given, got, last, res>>

\* Every select also watches the context; the first one returns at once.
SeeCancel ==
    /\ ctxDone /\ gor \in {"first", "send", "recv"}
    /\ gor' = IF gor = "first" THEN "ended" ELSE "stop"
    /\ ch' = IF gor = "first" THEN "closed" ELSE ch
    /\ UNCHANGED <<tx, rows, ctxDone, left, given, got, last, res>>

\* res.Iterate calls back with a document, fails, or comes to its end.
IterateDoc ==
    /\ gor = "iterate" /\ left > 0
    /\ left' = left - 1 /\ given' = given + 1
    /\ gor' = "send"
    /\ UNCHANGED <<tx, rows, ch, ctxDone, got, last, res>>

\* Variant: the error is dropped, the channel closed.
IterateFailsSilently ==
    /\ gor = "iterate"
    /\ gor' = "ended" /\ ch' = "closed" /\ res' = [res EXCEPT !.err = TRUE, !.fails = TRUE]
    /\ UNCHANGED <<tx, rows, ctxDone, left, given, got, last>>

IterateFails ==
    /\ gor = "iterate"
    /\ gor' = "fail" /\ res' = [res EXCEPT !.err = TRUE, !.fails = TRUE]
    /\ UNCHANGED <<tx, rows, ch, ctxDone, left, given, got, last>>

IterateEnds ==
    /\ gor = "iterate" /\ left = 0
    /\ gor' = "ended" /\ ch' = "closed"
    /\ UNCHANGED <<tx, rows, ctxDone, left, given, got, last, res>>

\* errStop goes up through the iteration, which records it in the Result.
Unwind ==
    /\ gor = "stop"
    /\ gor' = "ended" /\ ch' = "closed" /\ res' = [res EXCEPT !.err = TRUE]
    /\ UNCHANGED <<tx, rows, ctxDone, left, given, got, last>>

\* Variant: the goroutine returns with the last document.
SendDocAndReturn ==
    /\ gor = "send" /\ rows = "receive"
    /\ gor' = (IF left = 0 THEN "ended" ELSE "recv") /\ rows' = "idle"
    /\ ch' = IF left = 0 THEN "closed" ELSE ch
    /\ got' = got + 1 /\ last' = "row"
    /\ UNCHANGED <<tx, ctxDone, left, given, res>>

\* Next fails when the document lacks one of the selected fields.
SendDoc ==
    /\ gor = "send" /\ rows = "receive"
    /\ gor' = "recv" /\ rows' = "idle"
    /\ got' = got + 1 /\ last' \in {"row", "badrow"}
    /\ UNCHANGED <<tx, ch, ctxDone, left, given, res>>

\* rs.c <- doc{err: err} watches nothing else; the deferred close follows.
SendErr ==
    /\ gor = "fail" /\ rows = "receive"
    /\ gor' = "ended" /\ ch' = "closed"
    /\ rows' = "idle" /\ last' = "err"
    /\ UNCHANGED <<tx, ctxDone, left, given, got, res>>

-----------------------------------------------------------------------------
Init ==
    /\ tx = "none" /\ rows = "none" /\ gor = "none" /\ ch = "closed"
    /\ ctxDone = FALSE /\ left = 0 /\ given = 0 /\ got = 0 /\ last = "none"
    /\ res = [tx |-> "none", writable |-> FALSE, err |-> FALSE, fails |-> FALSE]

GoroutineStep == TakeRequest \/ SeeCancel \/ IterateDoc \/ IterateFails
                 \/ IterateEnds \/ Unwind \/ SendDoc \/ SendErr

CallStep == ReceiveEOF \/ Close2

Next == BeginTx \/ EndTx \/ QueryContext \/ Next1 \/ Close1 \/ CallStep \/ GoroutineStep

Spec == Init /\ [][Next]_vars

\* The Go scheduler runs a goroutine that can run, and completes an exchange
\* on a channel when both ends are ready.  Users of Rows close them.
Fairness == WF_vars(GoroutineStep) /\ WF_vars(CallStep) /\ WF_vars(Close1)

FairSpec == Spec /\ Fairness

-----------------------------------------------------------------------------
(* Properties. *)

(* The types of the variables.                                              *)
TypeOK ==
    /\ tx \in {"none", "open"}
    /\ rows \in Rows /\ gor \in Goroutine /\ ch \in {"open", "closed"}
    /\ ctxDone \in BOOLEAN
    /\ left \in Nat /\ given \in Nat /\ got \in Nat
    /\ last \in {"none", "row", "badrow", "eof", "err"}
    /\ res \in [tx : ResultTx, writable : BOOLEAN, err : BOOLEAN, fails : BOOLEAN]

\* Next never sends on the channel iterate has closed, which would panic: the
\* goroutine returns only when the caller is not going to ask again.
NeverPanics == ~(rows = "request" /\ ch = "closed")

\* No document is lost or returned twice between the goroutine and Next, and
\* io.EOF means the end: Next has returned every document of the iteration, and
\* no error was lost.  (documentStream.Next, documentStream.iterate)
RowsAreDocs ==
    /\ got = given \/ (given = got + 1 /\ gor \in {"send", "stop", "ended"})
    /\ last = "eof" => left = 0 /\ got = given /\ ~res.fails

\* When the caller has read to the end, closing the rows commits what the
\* query wrote; when Next has returned the error of the iteration, it rolls it
\* back.  The err field is written by the goroutine and read by Close with no
\* lock: in these cases the channel orders the two.
OutcomeIsKnown ==
    rows = "closed" /\ res.tx # "none" =>
      /\ last = "eof" /\ res.writable => res.tx = "committed"
      /\ last = "err" => res.tx = "rolledback"

\* Next always returns, and the goroutine of a query ends: neither is left
\* blocked on the channel, whatever the order of their sends and receives, the
\* cancelling by Close and the closing of the channel.
DriverReturns ==
    /\ rows \in {"request", "receive"} ~> rows = "idle"
    /\ rows = "idle" ~> gor = "ended"
=============================================================================
