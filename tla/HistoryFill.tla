---------------------------- MODULE HistoryFill ----------------------------
(***************************************************************************)
(* Histories filled into periods of one length: what svc/db-timescale,     *)
(* svc/db-sql (both: timescale.rs) and svc/db-influx (influx.rs) make of   *)
(* the rows that the server answers.  Period 0 ends where the time         *)
(* asked for begins, period Periods holds its end; TimescaleDB may answer  *)
(* one period more, later than the end.  Which cells of the rows are null  *)
(* is left open.                                                           *)
(***************************************************************************)
EXTENDS Integers, Sequences, SequencesExt

CONSTANTS Periods,
          Asks,   \* [db, cols, kind, limit, cut]: the query, its columns, the filling of
                  \* nulls, the limit (0: none), and whether a later period is answered
          None

VARIABLES ask,      \* the query, chosen once
          cells,    \* <<column, period>>: cells that are not null; they hold themselves
          answer    \* [na, rows]: na if Fill::fill_na makes rows of nulls; None: not yet

vars == <<ask, cells, answer>>

Init ==
  /\ ask \in Asks
  /\ cells \in SUBSET (ToSet(ask.cols) \X (IF ask.db \in {"v1", "v2"} THEN 0..Periods ELSE 1..Periods + 1))
  /\ answer = None

Cell(c, p) == IF <<c, p>> \in cells THEN <<c, p>> ELSE None

----------------------------------------------------------------------------
(* NullFiller: a cell, the previous one, is it in the first row?           *)

Zero == <<"zero", 0>>
NaN == <<"nan", 0>>
Filled(prev, out) == [prev |-> prev, out |-> out]

format_status(prev, s, first) ==
  CASE ask.kind \in {"none", "nan"} -> Filled(prev, s)
    [] ask.kind = "zero" -> Filled(prev, IF s = None /\ ~first THEN Zero ELSE s)
    [] OTHER -> IF s # None THEN Filled(s, s)
                ELSE Filled(prev, IF prev # None THEN prev ELSE IF first THEN None ELSE Zero)

\* Faulty variant of format_value: nothing is kept for the next null.
format_value_forgets(prev, v, first) ==
  Filled(None, IF v # None \/ ask.kind = "none" \/ first THEN v
               ELSE IF ask.kind = "nan" THEN NaN ELSE Zero)

format_value(prev, v, first) ==
  IF v # None THEN Filled(IF ask.kind = "previous" THEN v ELSE prev, v)
  ELSE IF ask.kind = "none" \/ first THEN Filled(prev, None)
  ELSE CASE ask.kind = "zero" -> Filled(prev, Zero)
         [] ask.kind = "nan"  -> Filled(prev, NaN)
         [] OTHER             -> Filled(prev, IF prev # None THEN prev ELSE Zero)

Format(c, prev, x, first) ==
  IF c = "status" THEN format_status(prev, x, first) ELSE format_value(prev, x, first)

----------------------------------------------------------------------------
(* svc/db-timescale *)

\* The periods answered: with a limit ORDER BY period DESC LIMIT.
Answered ==
  LET all == [p \in 1..Periods + (IF ask.cut THEN 1 ELSE 0) |-> p]
  IN IF ask.limit = 0 THEN all
     ELSE SubSeq(Reverse(all), 1, IF ask.limit < Len(all) THEN ask.limit ELSE Len(all))

\* The loop over the rows breaks at the first one that is later than the end.
UntilEnd(periods) ==
  LET late == {n \in 1..Len(periods) : periods[n] > Periods}
  IN IF late = {} THEN periods ELSE SubSeq(periods, 1, Min(late) - 1)

Turned(rows) == [na |-> rows = <<>>, rows |-> IF ask.limit = 0 THEN rows ELSE Reverse(rows)]

\* One filler serves all columns.
Rows ==
  LET Put(acc, p) ==
        LET Fill1(a, c) == LET f == Format(c, a.prev, Cell(c, p), acc.rows = <<>>)
                           IN [prev |-> f.prev, row |-> Append(a.row, f.out)]
            r == FoldLeft(Fill1, [prev |-> acc.prev, row |-> <<>>], ask.cols)
        IN [prev |-> r.prev, rows |-> Append(acc.rows, [t |-> p, row |-> r.row])]
  IN FoldLeft(Put, [prev |-> None, rows |-> <<>>], UntilEnd(Answered)).rows

state_history_filled == Turned(Rows)

\* No columns: none of the items is in the database.
state_history_combined ==
  [na |-> FALSE, rows |-> IF ask.cols = <<>> THEN <<>> ELSE Rows]

----------------------------------------------------------------------------
(* svc/db-sql, on a TimescaleDB: nulls stay.                               *)

sql_state_history_filled ==
  LET periods == UntilEnd(Answered)
  IN Turned([n \in 1..Len(periods) |->
               [t |-> periods[n], row |-> [k \in 1..Len(ask.cols) |-> Cell(ask.cols[k], periods[n])]]])

----------------------------------------------------------------------------
(* svc/db-influx: the query begins one period earlier, for the value that  *)
(* fills the first ones.  The second API tells the end of a period.        *)

Points ==
  LET at == IF ask.db = "v2" THEN 1 ELSE 0
  IN [n \in 1..Periods + 1 |-> [t |-> n - 1 + at, row |-> <<Cell(ask.cols[1], n - 1)>>]]

query(s) ==
  IF ask.limit # 0 /\ Len(s) > ask.limit THEN SubSeq(s, Len(s) - ask.limit, Len(s)) ELSE s

\* "shift values for influxV2"
Shifted(s) == [n \in 1..Len(s) - 1 |-> [t |-> s[n].t, row |-> s[n + 1].row]]

\* Without any value in the time asked for the server answers no points.
Empty == cells \intersect (ToSet(ask.cols) \X (0..Periods)) = {}

influx_state_history ==
  LET s == query(IF Empty THEN <<>> ELSE Points)
      data == IF ask.db = "v1" /\ s # <<>> THEN Tail(s) ELSE s
  IN [na |-> data = <<>>, rows |-> IF ask.db = "v2" THEN Shifted(data) ELSE data]

----------------------------------------------------------------------------
Query ==
  /\ answer = None
  /\ answer' = CASE ask.db = "filled"   -> state_history_filled
                 [] ask.db = "sql"      -> sql_state_history_filled
                 [] ask.db = "combined" -> state_history_combined
                 [] OTHER               -> influx_state_history
  /\ UNCHANGED <<ask, cells>>

Next == Query

Spec == Init /\ [][Next]_vars

----------------------------------------------------------------------------
(* Properties *)

Newest(limit) == IF limit = 0 \/ limit > Periods THEN 1 ELSE Periods - limit + 1

\* What a cell is to show: itself, or for a null the last cell before it in its column.
Shown(c, p) ==
  LET before == {q \in 1..p - 1 : <<c, q>> \in cells}
      first == p = 1
  IN CASE <<c, p>> \in cells -> <<c, p>>
       [] ask.kind = "none" \/ first -> None
       [] ask.kind = "nan" -> IF c = "status" THEN None ELSE NaN
       [] ask.kind = "previous" /\ before # {} -> <<c, CHOOSE q \in before : \A r \in before : r <= q>>
       [] OTHER -> Zero

\* The cases that the code of svc/db-timescale fills column by column and in the order of
\* time: its one filler serves all columns, and with a limit the newest row comes first.
InOrder ==
  IF ask.limit = 0 THEN ask.kind # "previous" \/ Len(ask.cols) = 1 ELSE ask.kind = "none" /\ ~ask.cut

\* A filled history has one row for every period asked for, the newest ones if there is a
\* limit, each with the values of its own period, whichever way the server tells times
\* and however many rows it answers beyond; nulls are filled as was asked.
HistoryFilled ==
  answer # None /\ ask.cols # <<>> /\ (ask.db \notin {"v1", "v2"} => InOrder) =>
    IF answer.na THEN Empty
    ELSE answer.rows =
           [n \in 1..Periods - Newest(ask.limit) + 1 |->
              LET p == Newest(ask.limit) + n - 1
              IN [t |-> p, row |-> [k \in 1..Len(ask.cols) |->
                   IF ask.db \in {"v1", "v2"} THEN Cell(ask.cols[k], p) ELSE Shown(ask.cols[k], p)]]]
============================================================================
