---------------------------- MODULE StateHistory ----------------------------
(***************************************************************************)
(* The services that keep the history of item states: svc/db-sql,          *)
(* svc/db-timescale, svc/db-json and svc/db-influx.  A state event goes    *)
(* through a bounded queue to one sender task, which may collect events in *)
(* a buffer, and into the database.  Records may be pushed by RPC, and     *)
(* are cleaned by time.  In svc/db-timescale and svc/db-json a record      *)
(* names its item by the id of a row of a second table; deleting the row   *)
(* deletes the records.                                                    *)
(***************************************************************************)
EXTENDS Integers, Sequences, FiniteSets, SequencesExt

CONSTANTS Item,
          Pusher,       \* callers of state_push
          State,        \* states: [oid, t, v], v in {"num", "text", "quote"}
          Settings,     \* [db, buf, clean, oids]: the database, buffered or not, how records and ids are cleaned
          QueueSize, Keep, MaxTime,
          MaxFaults     \* bound: failed statements, restarts

VARIABLES set, now,
          coming,       \* states not yet announced or pushed
          queue,        \* events: sequences of states
          buf,          \* data_buf
          writer,       \* the transaction of the sender and of each pusher
          oids,         \* state_history_oids: rows <<id, oid>>
          serial,       \* the last id
          events,       \* state_history_events: rows [t, id, v]
          cleaner,      \* cleanup_oids: the rows it is about to delete
          sweep,        \* cleanup of svc/db-sql: the newest old record of each item
          lock,         \* who holds OIDS_LOCK_KEY
          faults,
          written,      \* records the database has reported as inserted
          lost          \* states dropped: the queue is full, a statement fails, the service restarts,
                        \* the id of the item is deleted

vars == <<set, now, coming, queue, buf, writer, oids, serial, events, cleaner, sweep, lock, faults, written, lost>>

Writer == {"sender"} \union Pusher
Free == [pc |-> "idle", batch |-> <<>>, ids |-> {}, new |-> {}]
Indexed == set.db \in {"timescale", "json"}

Init ==
  /\ set \in Settings /\ now = 0
  /\ coming = State /\ queue = <<>> /\ buf = <<>>
  /\ writer = [w \in Writer |-> Free]
  /\ oids = {} /\ serial = 0 /\ events = {}
  /\ cleaner = [pc |-> "idle", ids |-> {}] /\ sweep = {} /\ lock = "free"
  /\ faults = 0 /\ written = {} /\ lost = {}

----------------------------------------------------------------------------
(* Events *)

\* svc/db-influx takes numbers only.
InfluxTakes(st) == st.v = "num"

\* An event of the bus: try_send, and poc when the queue is full.
process_state(st) ==
  /\ st \in coming /\ coming' = coming \ {st}
  /\ IF set.db = "influx" /\ ~InfluxTakes(st) THEN UNCHANGED <<queue, lost>>
     ELSE IF Len(queue) < QueueSize THEN queue' = Append(queue, <<st>>) /\ UNCHANGED lost
     ELSE lost' = lost \union {st} /\ UNCHANGED queue
  /\ UNCHANGED <<set, now, buf, writer, oids, serial, events, cleaner, sweep, lock, faults, written>>

\* collect_periodic: the states of all items at one moment, sent when the queue has room.
collect_periodic(t) ==
  /\ Len(queue) < QueueSize
  /\ \E batch \in {{st \in coming : st.t = t}} :
       /\ batch # {} /\ coming' = coming \ batch
       /\ queue' = Append(queue, SetToSeq(batch))
  /\ UNCHANGED <<set, now, buf, writer, oids, serial, events, cleaner, sweep, lock, faults, written, lost>>

\* The sender with a buffer: single states wait for the next tick.
SenderBuffers ==
  /\ set.buf /\ writer["sender"] = Free /\ queue # <<>> /\ Len(Head(queue)) = 1
  /\ queue' = Tail(queue) /\ buf' = buf \o Head(queue)
  /\ UNCHANGED <<set, now, coming, writer, oids, serial, events, cleaner, sweep, lock, faults, written, lost>>

SenderTick ==
  /\ set.buf /\ writer["sender"] = Free /\ buf # <<>>
  /\ buf' = <<>>
  /\ writer' = [writer EXCEPT !["sender"] = [Free EXCEPT !.pc = "begin", !.batch = buf]]
  /\ UNCHANGED <<set, now, coming, queue, oids, serial, events, cleaner, sweep, lock, faults, written, lost>>

SenderTakes ==
  /\ writer["sender"] = Free /\ queue # <<>> /\ (set.buf => Len(Head(queue)) > 1)
  /\ queue' = Tail(queue)
  /\ writer' = [writer EXCEPT !["sender"] = [Free EXCEPT !.pc = "begin", !.batch = Head(queue)]]
  /\ UNCHANGED <<set, now, coming, buf, oids, serial, events, cleaner, sweep, lock, faults, written, lost>>

state_push(p, st) ==
  /\ writer[p] = Free /\ st \in coming /\ coming' = coming \ {st}
  /\ writer' = [writer EXCEPT ![p] = [Free EXCEPT !.pc = "begin", !.batch = <<st>>]]
  /\ UNCHANGED <<set, now, queue, buf, oids, serial, events, cleaner, sweep, lock, faults, written, lost>>

----------------------------------------------------------------------------
(* submit, submit_bulk *)

\* Rows are put in order: one with the same time and item is replaced, or stays.
Same(e, r) == e.t = r.t /\ e.id = r.id
Upsert(E, r) == {e \in E : ~Same(e, r)} \union {r}
TryInsert(E, r) == IF \E e \in E : Same(e, r) THEN E ELSE E \union {r}
Rows(batch, Id(_)) == [n \in 1..Len(batch) |-> [t |-> batch[n].t, id |-> Id(batch[n].oid), v |-> batch[n].v]]
RowsByName(batch) == Rows(batch, LAMBDA o : o)

\* submit_bulk of svc/db-sql: one statement or one transaction.  A quote fails the whole batch.
SqlFails(batch) == set.db = "postgres" /\ Len(batch) > 1 /\ \E st \in ToSet(batch) : st.v = "quote"
SqlInsert(batch) ==
  IF set.db = "sqlite" THEN FoldLeft(Upsert, events, RowsByName(batch)) ELSE FoldLeft(TryInsert, events, RowsByName(batch))

\* notify of svc/db-influx: points of one request.
InfluxWrite(batch) == FoldLeft(Upsert, events, RowsByName(batch))

\* submit_bulk of svc/db-timescale: values that are no numbers are left out.
TimescaleKeeps(batch) == SelectSeq(batch, LAMBDA st : st.v = "num")

Report(w, sts, skipped) ==
  /\ written' = written \union sts /\ lost' = lost \union skipped
  /\ writer' = [writer EXCEPT ![w] = Free]

Submit(w) ==
  /\ ~Indexed /\ writer[w].pc = "begin"
  /\ LET batch == writer[w].batch
     IN IF SqlFails(batch) THEN Report(w, {}, ToSet(batch)) /\ UNCHANGED events
        ELSE /\ Report(w, ToSet(batch), {})
             /\ events' = IF set.db = "influx" THEN InfluxWrite(batch) ELSE SqlInsert(batch)
  /\ UNCHANGED <<set, now, coming, queue, buf, oids, serial, cleaner, sweep, lock, faults>>

----------------------------------------------------------------------------
(* insert_state_history_events: a function of the database, one            *)
(* transaction.  Rows of ids it has made are not seen until it commits.    *)

\* Faulty variant of TimescaleLock: an insert does not exclude the cleanup of ids.
TimescaleLockNot(w) == UNCHANGED lock

\* svc/db-timescale: pg_advisory_xact_lock.
TimescaleLock(w) == lock = "free" /\ lock' = w
\* svc/db-json: the mode of its table lock excludes other inserts, not deletions.
JsonLock(w) == (\A x \in Writer : writer[x].pc # "insert") /\ UNCHANGED lock

\* ON CONFLICT DO UPDATE may not meet a row twice.
JsonFails(w, rows) == /\ set.db = "json" /\ w = "sender"
                      /\ \E m, n \in 1..Len(rows) : m # n /\ Same(rows[m], rows[n])
Insert(w, rows) ==
  IF set.db = "json" /\ w = "sender" THEN FoldLeft(Upsert, events, rows) ELSE FoldLeft(TryInsert, events, rows)

Kept(batch) == IF set.db = "timescale" THEN TimescaleKeeps(batch) ELSE batch
\* The names that have no row get one.
NewOids(names) ==
  LET new == SetToSeq(names \ {r[2] : r \in oids}) IN {<<serial + n, new[n]>> : n \in 1..Len(new)}

BeginInsert(w) ==
  /\ Indexed /\ writer[w].pc = "begin"
  /\ IF set.db = "timescale" THEN TimescaleLock(w) ELSE JsonLock(w)
  /\ LET names == {st.oid : st \in ToSet(Kept(writer[w].batch))}
     IN /\ writer' = [writer EXCEPT ![w].pc = "insert", ![w].new = NewOids(names),
                                    ![w].ids = {r \in oids : r[2] \in names}]
        /\ serial' = serial + Cardinality(NewOids(names))
  /\ UNCHANGED <<set, now, coming, queue, buf, oids, events, cleaner, sweep, faults, written, lost>>

\* The rows are inserted and the transaction is committed.  An id deleted meanwhile fails it.
CommitInsert(w) ==
  /\ writer[w].pc = "insert"
  /\ LET batch == writer[w].batch
         names == writer[w].ids \union writer[w].new
         rows == Rows(Kept(batch), LAMBDA o : (CHOOSE r \in names : r[2] = o)[1])
     IN IF ~(writer[w].ids \subseteq oids) \/ JsonFails(w, rows)
        THEN Report(w, {}, ToSet(batch)) /\ UNCHANGED <<oids, events>>
        ELSE /\ Report(w, ToSet(Kept(batch)), ToSet(batch) \ ToSet(Kept(batch)))
             /\ oids' = oids \union writer[w].new
             /\ events' = Insert(w, rows)
  /\ lock' = IF lock = w THEN "free" ELSE lock
  /\ UNCHANGED <<set, now, coming, queue, buf, serial, cleaner, sweep, faults>>

\* A statement fails: the batch is dropped, and poc may end the service.
StatementFails(w) ==
  /\ writer[w] # Free /\ faults < MaxFaults /\ faults' = faults + 1
  /\ Report(w, {}, ToSet(writer[w].batch))
  /\ lock' = IF lock = w THEN "free" ELSE lock
  /\ UNCHANGED <<set, now, coming, queue, buf, oids, serial, events, cleaner, sweep>>

\* The service restarts.  What it held in memory is gone.
Restart ==
  /\ faults < MaxFaults /\ faults' = faults + 1
  /\ lost' = lost \union ToSet(buf) \union UNION {ToSet(queue[n]) : n \in 1..Len(queue)}
                  \union UNION {ToSet(writer[w].batch) : w \in Writer}
  /\ queue' = <<>> /\ buf' = <<>> /\ writer' = [w \in Writer |-> Free]
  /\ cleaner' = [pc |-> "idle", ids |-> {}] /\ sweep' = {} /\ lock' = "free"
  /\ UNCHANGED <<set, now, coming, oids, serial, events, written>>

----------------------------------------------------------------------------
(* Cleaning *)

Old(e) == e.t < now - Keep
Chunk == 2
Cleaned(E) == /\ events' = E /\ E # events
              /\ UNCHANGED <<set, now, coming, queue, buf, writer, oids, serial, cleaner, lock, faults, written, lost>>

\* Records older than Keep are deleted: simple_cleaning of svc/db-sql, cleanup_event_records.
cleanup_simple == set.clean = "simple" /\ Cleaned({e \in events : ~Old(e)}) /\ UNCHANGED sweep
\* drop_chunks: a chunk goes when all of its time is old.
cleanup_chunks == /\ set.clean = "chunks" /\ UNCHANGED sweep
                  /\ Cleaned({e \in events : (e.t \div Chunk + 1) * Chunk > now - Keep})
\* svc/db-sql otherwise keeps the newest old record of each item: one query, then one
\* deletion for each item.
cleanup_select ==
  /\ set.clean = "full" /\ sweep = {}
  /\ sweep' = {[id |-> e.id, t |-> e.t] : e \in {x \in events : Old(x) /\ \A y \in events : y.id = x.id /\ Old(y) => y.t <= x.t}}
  /\ \E m \in sweep', e \in events : e.id = m.id /\ e.t < m.t
  /\ UNCHANGED <<set, now, coming, queue, buf, writer, oids, serial, events, cleaner, lock, faults, written, lost>>
cleanup_delete ==
  /\ sweep # {} /\ sweep' = {}
  /\ Cleaned({e \in events : ~\E m \in sweep : e.id = m.id /\ e.t < m.t})

\* cleanup_event_oids: rows without records are found and deleted, under the lock.
CleanerLock == IF set.db = "timescale" THEN lock = "free" /\ lock' = "cleaner" ELSE UNCHANGED lock
cleanup_oids ==
  /\ set.oids /\ cleaner.pc = "idle" /\ CleanerLock
  /\ cleaner' = [pc |-> "delete", ids |-> {r \in oids : \A e \in events : e.id # r[1]}]
  /\ cleaner'.ids # {}
  /\ UNCHANGED <<set, now, coming, queue, buf, writer, oids, serial, events, sweep, faults, written, lost>>
\* The records of the deleted rows go with them.
Cascade(r) == {e \in events : e.id = r[1]}
delete_oids ==
  /\ cleaner.pc = "delete"
  /\ oids' = oids \ cleaner.ids
  /\ events' = events \ UNION {Cascade(r) : r \in cleaner.ids}
  /\ lost' = lost \union {st \in written : \E r \in cleaner.ids : r[2] = st.oid /\ \E e \in Cascade(r) : e.t = st.t}
  /\ cleaner' = [pc |-> "idle", ids |-> {}]
  /\ lock' = IF lock = "cleaner" THEN "free" ELSE lock
  /\ UNCHANGED <<set, now, coming, queue, buf, writer, serial, sweep, faults, written>>

Tick ==
  /\ now < MaxTime /\ now' = now + 1
  /\ UNCHANGED <<set, coming, queue, buf, writer, oids, serial, events, cleaner, sweep, lock, faults, written, lost>>

----------------------------------------------------------------------------
(* Queries: what is found, oldest first.  A limit of 0 stands for none.    *)

\* Records with the names of their items.
Joined == IF ~Indexed THEN {[t |-> e.t, oid |-> e.id] : e \in events}
          ELSE {[t |-> e.t, oid |-> (CHOOSE r \in oids : r[1] = e.id)[2]] : e \in {x \in events : \E r \in oids : r[1] = x.id}}
Within(R, mask, t_start, t_end) == {r \in R : r.oid \in mask /\ t_start <= r.t /\ r.t <= t_end}
\* ORDER BY t, oid and ORDER BY t DESC, oid
Before(a, b) == a.t < b.t \/ (a.t = b.t /\ a.oid < b.oid)
Latest(a, b) == a.t > b.t \/ (a.t = b.t /\ a.oid < b.oid)

\* With a limit the newest records come first in the SQL query, and are turned round.
Paged(found, limit, offset) ==
  IF limit = 0 THEN SetToSortSeq(found, Before)
  ELSE LET s == SetToSortSeq(found, Latest)
       IN Reverse(SubSeq(s, offset + 1, IF offset + limit < Len(s) THEN offset + limit ELSE Len(s)))

timescale_state_log(mask, t_start, t_end, limit, offset) ==
  Paged(Within(Joined, mask, t_start, t_end), limit, offset)
timescale_state_history(oid, t_start, t_end, limit) ==
  Paged(Within(Joined, {oid}, t_start, t_end), limit, 0)

json_state_log(mask, t_start, t_end, limit, offset) ==
  Paged(Within(Joined, mask, t_start, t_end), limit, offset)
json_state_history(oid, t_start, t_end, limit) ==
  Paged(Within(Joined, {oid}, t_start, t_end), limit, 0)

\* svc/db-sql keeps the name in the record itself.
sql_state_log(mask, t_start, t_end, limit, offset) ==
  Paged(Within(Joined, mask, t_start, t_end), limit, offset)
sql_state_history(oid, t_start, t_end, limit) ==
  Paged(Within(Joined, {oid}, t_start, t_end), limit, 0)

\* svc/db-influx takes everything from the server and drains what is over the limit:
\* all but limit + 1 points.  It knows neither masks nor offsets.
influx_query(s, limit) ==
  IF limit # 0 /\ Len(s) > limit THEN SubSeq(s, Len(s) - limit, Len(s)) ELSE s
influx_state_log(oid, t_start, t_end, limit) ==
  influx_query(SetToSortSeq(Within(Joined, {oid}, t_start, t_end), Before), limit)
influx_state_history(oid, t_start, t_end, limit) ==
  influx_query(SetToSortSeq(Within(Joined, {oid}, t_start, t_end), Before), limit)

Log(mask, limit, offset) ==
  CASE set.db = "timescale" -> timescale_state_log(mask, 0, MaxTime, limit, offset)
    [] set.db = "json"      -> json_state_log(mask, 0, MaxTime, limit, offset)
    [] OTHER                -> sql_state_log(mask, 0, MaxTime, limit, offset)
History(oid, limit) ==
  CASE set.db = "timescale" -> timescale_state_history(oid, 0, MaxTime, limit)
    [] set.db = "json"      -> json_state_history(oid, 0, MaxTime, limit)
    [] set.db = "influx"    -> influx_state_history(oid, 0, MaxTime, limit)
    [] OTHER                -> sql_state_history(oid, 0, MaxTime, limit)

----------------------------------------------------------------------------
Next ==
  \/ \E st \in State : process_state(st) \/ \E p \in Pusher : state_push(p, st)
  \/ \E t \in 0..MaxTime : collect_periodic(t)
  \/ SenderBuffers \/ SenderTick \/ SenderTakes
  \/ \E w \in Writer : Submit(w) \/ BeginInsert(w) \/ CommitInsert(w) \/ StatementFails(w)
  \/ Restart
  \/ cleanup_simple \/ cleanup_chunks \/ cleanup_select \/ cleanup_delete \/ cleanup_oids \/ delete_oids
  \/ Tick

\* The sender is a loop of its own, its interval ticks; statements and the cleaner end.
Fairness ==
  /\ WF_vars(SenderBuffers) /\ WF_vars(SenderTick) /\ WF_vars(SenderTakes)
  /\ \A w \in Writer : WF_vars(Submit(w)) /\ SF_vars(BeginInsert(w)) /\ WF_vars(CommitInsert(w))
  /\ WF_vars(delete_oids)

Spec == Init /\ [][Next]_vars /\ Fairness

----------------------------------------------------------------------------
(* Properties *)

\* A record the database has reported as inserted stays, with the name of its item, until it
\* is older than Keep; and where simple_cleaning is off the newest of the old ones stays for
\* ever, so that the state at the start of the kept time is known.  An insert and a cleanup
\* of ids that overlap could lose it: deleting the row of an item deletes its records.
\* svc/db-timescale excludes this by a lock; svc/db-json does not, and may lose it.
HistoryKept ==
  \A st \in written :
    \/ \E r \in Joined : r.t = st.t /\ r.oid = st.oid
    \/ set.db = "json" /\ st \in lost
    \/ /\ st.t < now - Keep /\ set.clean # "none"
       /\ set.clean = "full" => \E r \in Joined : r.oid = st.oid /\ st.t < r.t /\ r.t < now - Keep

\* Pages of state_log, read by offset, are ordered by time and together are the whole log;
\* a limited state_history of an item is the newest part of its log, the oldest first.
\* Of svc/db-influx, which has no pages, and which LimitKept is about, it is a suffix.
PagesCover ==
  /\ \A i \in Item, limit \in 1..2 :
       LET all == History(i, 0)
       IN IF set.db = "influx"
          THEN IsSuffix(influx_state_log(i, 0, MaxTime, limit), all) /\ IsSuffix(History(i, limit), all)
          ELSE History(i, limit) = SubSeq(all, IF Len(all) > limit THEN Len(all) - limit + 1 ELSE 1, Len(all))
  /\ set.db # "influx" => \A mask \in {Item, {CHOOSE i \in Item : TRUE}}, limit \in 1..2 :
       LET all == Log(mask, 0, 0)
           pages == {Log(mask, limit, limit * k) : k \in 0..Len(all)}
       IN /\ UNION {ToSet(p) : p \in pages} = ToSet(all)
          /\ \A p \in pages \union {all} : \A k \in 1..Len(p) - 1 : p[k].t <= p[k + 1].t
          /\ \A p, q \in pages : p # q => ToSet(p) \intersect ToSet(q) = {}

\* "Limit records to" (svc/db-influx/eapi.yml:26): no more records come than were asked for.
LimitKept ==
  \A i \in Item, limit \in 1..2 : Len(History(i, limit)) <= limit

\* A state the sender's queue has accepted comes to the database, or is dropped by an error:
\* nothing waits in the queue or in the buffer for ever.
Settled ==
  \A st \in State \ coming : st \in written \union lost \/ (set.db = "influx" /\ ~InfluxTakes(st))
=============================================================================
