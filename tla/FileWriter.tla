----------------------------- MODULE FileWriter -----------------------------
(***************************************************************************)
(* svc/svc-filewriter: item states are put in a bounded queue by the bus   *)
(* handlers and by a periodic collector; one task, file_handler, writes    *)
(* them line by line to a file which it, or anybody else, may rename.  A   *)
(* failed operation ends file_handler with the event in its hands; the     *)
(* task starts it again.                                                   *)
(*                                                                         *)
(* A file is the sequence of its lines: numbers, Header, or Torn for a     *)
(* line written in part.  File names are numbered by the time that is      *)
(* formatted into them, 0 when the path has no date-time options.          *)
(***************************************************************************)
EXTENDS Integers, Sequences, SequencesExt, FiniteSets

CONSTANTS
    Line,       \* positive numbers: the texts of lines
    QueueSize,  \* queue_size
    Settings,   \* configurations explored: [csv, pattern, rotated, dedup, flush], with rotated
                \* the kind of rotated_path: "none", "plain" or "pattern"
    MaxEvents,  \* bound: events put in the queue
    MaxTime,    \* bound: seconds of the clock
    MaxFaults,  \* bound: failed file operations, kills of the service, renames from outside
    None

VARIABLES
    set,        \* one of Settings, chosen once
    now,        \* the clock
    stage,      \* the service: "runs", "drains", "quits" or "ended"
    queue,      \* the channel
    event,      \* the event file_handler works on, or None
    fd,         \* the name that the file open in file_handler has now, or None
    fp,         \* file_path
    dt,         \* when the file was opened
    pos0,       \* the stream position is 0
    failed,     \* a write has failed and file_handler does not know it yet
    cache,      \* LINE_CACHE
    disk,       \* files by name
    accepted,   \* states put in the queue, in order
    faults,
    clash       \* a rename replaced a file

vars == <<set, now, stage, queue, event, fd, fp, dt, pos0, failed, cache, disk, accepted,
          faults, clash>>

Header == 0
Torn == -1

generate_file_path(pattern, t) == [dir |-> "file", t |-> IF pattern THEN t ELSE 0]

State(l) == [kind |-> "state", lines |-> <<l>>]
Bulk == [kind |-> "bulk", lines |-> SetToSortSeq(Line, <)]
Command(kind) == [kind |-> kind, lines |-> <<>>]

Init ==
    /\ set \in Settings
    /\ now = 1 /\ stage = "runs"
    /\ queue = <<>> /\ event = None
    /\ fd = None /\ fp = generate_file_path(set.pattern, 1) /\ dt = 1
    /\ pos0 = TRUE /\ failed = FALSE
    /\ cache = {} /\ disk = [n \in {} |-> <<>>]
    /\ accepted = <<>> /\ faults = 0 /\ clash = FALSE

Fault == faults < MaxFaults /\ faults' = faults + 1

handlerVars == <<event, fd, fp, dt, pos0, failed, cache>>

(***************************************************************************)
(* What fills the queue                                                    *)
(***************************************************************************)

Put(ev) ==
    /\ Len(queue) < QueueSize
    /\ queue' = Append(queue, ev)

Bounded == Len(accepted) < MaxEvents

\* handle_frame; a handler waits while the queue is full
process_state(l) ==
    /\ stage # "ended" /\ Bounded
    /\ Put(State(l))
    /\ accepted' = Append(accepted, l)
    /\ UNCHANGED <<set, now, stage, handlerVars, disk, faults, clash>>

collect_periodic ==
    /\ stage = "runs" /\ Len(accepted) + Cardinality(Line) <= MaxEvents
    /\ Put(Bulk)
    /\ accepted' = accepted \o Bulk.lines
    /\ UNCHANGED <<set, now, stage, handlerVars, disk, faults, clash>>

\* "flush", "rotate" and auto_rotate; counted with the states
handle_call(kind) ==
    /\ stage # "ended" /\ Bounded
    /\ Put(Command(kind))
    /\ accepted' = Append(accepted, Header)
    /\ UNCHANGED <<set, now, stage, handlerVars, disk, faults, clash>>

Tick ==
    /\ now < MaxTime
    /\ now' = now + 1
    /\ UNCHANGED <<set, stage, queue, handlerVars, disk, accepted, faults, clash>>

clean_dedup_cache ==
    /\ cache # {}
    /\ cache' \in SUBSET cache /\ cache' # cache
    /\ UNCHANGED <<set, now, stage, queue, event, fd, fp, dt, pos0, failed, disk, accepted,
                   faults, clash>>

(***************************************************************************)
(* file_handler                                                            *)
(***************************************************************************)

At(n) == IF n \in DOMAIN disk THEN disk[n] ELSE <<>>

With(d, n, file) == [m \in DOMAIN d \union {n} |-> IF m = n THEN file ELSE d[m]]

Broken(file) == file # <<>> /\ Last(file) = Torn

\* truncate_last_line also when it is the only one; the stream position of
\* the file is then not moved back to 0
truncate_if_broken(file) == IF Broken(file) THEN Front(file) ELSE file

\* the open file if the path still leads to it, else the file at the path
Open ==
    /\ event = None /\ queue # <<>> /\ stage # "ended"
    /\ event' = Head(queue) /\ queue' = Tail(queue)
    /\ IF fd = fp
       THEN UNCHANGED <<fd, dt, pos0, disk, failed>>
       ELSE /\ fd' = fp /\ dt' = now
            /\ disk' = With(disk, fp, truncate_if_broken(At(fp)))
            /\ pos0' = (At(fp) = <<>>)
            /\ failed' = FALSE
    /\ UNCHANGED <<set, now, stage, fp, cache, accepted, faults, clash>>

\* file_handler returns an error and is started again: the file is closed,
\* the name of the file is made anew
Restarted ==
    /\ event' = None /\ fd' = None
    /\ fp' = generate_file_path(set.pattern, now) /\ dt' = now
    /\ pos0' = TRUE /\ failed' = FALSE

OpenFails ==
    /\ event = None /\ queue # <<>> /\ stage # "ended" /\ fd # fp
    /\ Fault
    /\ queue' = Tail(queue)
    /\ Restarted
    /\ UNCHANGED <<set, now, stage, cache, disk, accepted, clash>>

HeaderLines == IF pos0 /\ set.csv THEN <<Header>> ELSE <<>>

\* the lines of bulk events are not looked up in the cache
can_write_line(l) == ~set.dedup \/ l \notin cache

LinesOf(ev) ==
    IF ev.kind = "state" THEN SelectSeq(ev.lines, can_write_line) ELSE ev.lines

Cached ==
    cache' = IF set.dedup /\ event.kind = "state" THEN cache \union Range(event.lines) ELSE cache

Writes == HeaderLines \o LinesOf(event)

\* the event has been written, or an earlier failure comes to light
WriteLines ==
    /\ event # None /\ event.kind \in {"state", "bulk"}
    /\ Cached
    /\ IF failed /\ Writes # <<>>
       THEN Restarted /\ UNCHANGED disk
       ELSE /\ disk' = With(disk, fd, At(fd) \o Writes)
            /\ event' = None /\ pos0' = (pos0 /\ Writes = <<>>)
            /\ UNCHANGED <<fd, fp, dt, failed>>
    /\ UNCHANGED <<set, now, stage, queue, accepted, faults, clash>>

\* the file system takes a part of what is written; without auto_flush
\* file_handler learns of it from its next operation
WriteFails ==
    /\ event # None /\ event.kind \in {"state", "bulk"} /\ ~failed /\ Writes # <<>>
    /\ Fault /\ Cached
    /\ \E n \in 0 .. Len(Writes) - 1, t \in BOOLEAN :
          disk' = With(disk, fd, At(fd) \o SubSeq(Writes, 1, n)
                                        \o (IF t THEN <<Torn>> ELSE <<>>))
    /\ IF set.flush THEN Restarted
       ELSE /\ failed' = TRUE /\ event' = None /\ pos0' = FALSE
            /\ UNCHANGED <<fd, fp, dt>>
    /\ UNCHANGED <<set, now, stage, queue, accepted, clash>>

\* a header is written before any event
CommandHeader == With(disk, fd, At(fd) \o HeaderLines)

Flush ==
    /\ event # None /\ event.kind = "flush"
    /\ IF failed
       THEN Restarted /\ UNCHANGED disk
       ELSE /\ disk' = CommandHeader
            /\ event' = None /\ pos0' = (pos0 /\ ~set.csv)
            /\ UNCHANGED <<fd, fp, dt, failed>>
    /\ UNCHANGED <<set, now, stage, queue, cache, accepted, faults, clash>>

Rename(d, from, to) ==
    [m \in (DOMAIN d \ {from}) \union {to} |-> IF m = to THEN d[from] ELSE d[m]]

\* the name of a rotated file tells when it was opened; with date-time
\* options in file_path no file is renamed
RotatedName ==
    [dir |-> "rotated", t |-> IF set.rotated = "plain" THEN 0 ELSE dt]

Renames == set.rotated # "none" \/ ~set.pattern

rotate ==
    /\ event # None /\ event.kind = "rotate"
    /\ IF failed \/ (Renames /\ fp # fd)
       THEN Restarted /\ disk' = CommandHeader /\ UNCHANGED clash
       ELSE /\ fd' = None /\ event' = None /\ pos0' = TRUE
            /\ disk' = IF Renames THEN Rename(CommandHeader, fd, RotatedName) ELSE CommandHeader
            /\ clash' = (clash \/ (Renames /\ RotatedName \in DOMAIN disk))
            /\ fp' = generate_file_path(set.pattern, dt)
            /\ UNCHANGED <<dt, failed>>
    /\ UNCHANGED <<set, now, stage, queue, cache, accepted, faults>>

\* when flush fails the handler waits for events again, and nobody sends one
Quit ==
    /\ event # None /\ event.kind = "quit"
    /\ IF failed
       THEN Restarted /\ UNCHANGED <<disk, stage>>
       ELSE /\ disk' = CommandHeader /\ event' = None
            /\ stage' = "ended"
            /\ UNCHANGED <<fd, fp, dt, pos0, failed>>
    /\ UNCHANGED <<set, now, queue, cache, accepted, faults, clash>>

(***************************************************************************)
(* The service and its surroundings                                        *)
(***************************************************************************)

Shutdown ==
    /\ stage = "runs" /\ stage' = "drains"
    /\ UNCHANGED <<set, now, queue, handlerVars, disk, accepted, faults, clash>>

\* main: the queue was seen empty
SendQuit ==
    /\ stage = "drains" /\ queue = <<>>
    /\ Put(Command("quit")) /\ stage' = "quits"
    /\ UNCHANGED <<set, now, handlerVars, disk, accepted, faults, clash>>

\* the process is killed, perhaps in a write, and started again
Kill ==
    /\ stage # "ended" /\ Fault
    /\ disk' \in {disk, IF event # None /\ fd \in DOMAIN disk /\ ~Broken(At(fd))
                        THEN With(disk, fd, Append(At(fd), Torn)) ELSE disk}
    /\ Restarted
    /\ queue' = <<>> /\ cache' = {} /\ stage' = "runs"
    /\ UNCHANGED <<set, now, accepted, clash>>

\* another program renames the file
RenamedOutside ==
    /\ fp \in DOMAIN disk /\ Fault
    /\ LET away == [dir |-> "away", t |-> faults]
       IN /\ disk' = Rename(disk, fp, away)
          /\ fd' = IF fd = fp THEN away ELSE fd
    /\ UNCHANGED <<set, now, stage, queue, event, fp, dt, pos0, failed, cache, accepted, clash>>

FileHandler == Open \/ OpenFails \/ WriteLines \/ WriteFails \/ Flush \/ rotate \/ Quit

Next ==
    \/ \E l \in Line : process_state(l)
    \/ collect_periodic
    \/ handle_call("flush") \/ handle_call("rotate")
    \/ Tick \/ clean_dedup_cache \/ FileHandler
    \/ Shutdown \/ SendQuit \/ Kill \/ RenamedOutside

\* file_handler and main keep running
Spec == Init /\ [][Next]_vars /\ WF_vars(FileHandler) /\ WF_vars(SendQuit)

(***************************************************************************)
(* Properties                                                              *)
(***************************************************************************)

\* A line torn by a failed write or a kill is never followed by another
\* one: truncate_if_broken removes it before file_handler goes on.  A header
\* is only ever the first line of a file.
FilesWhole ==
    \A n \in DOMAIN disk : \A k \in DOMAIN disk[n] :
        /\ disk[n][k] = Torn => k = Len(disk[n])
        /\ disk[n][k] = Header => k = 1

Count(s, l) == Cardinality({k \in DOMAIN s : s[k] = l})

OnDisk(l) ==
    LET f[names \in SUBSET DOMAIN disk] ==
            IF names = {} THEN 0
            ELSE LET n == CHOOSE n \in names : TRUE IN Count(disk[n], l) + f[names \ {n}]
    IN f[DOMAIN disk]

Waiting(l) ==
    (IF event = None THEN 0 ELSE Count(event.lines, l))
    + Count(FoldSeq(LAMBDA ev, s : ev.lines \o s, <<>>, queue), l)

\* A state that was accepted is in the queue, in the hands of file_handler,
\* or in one of the files, exactly once, also when files are rotated in
\* between; lines already in LINE_CACHE are left out on purpose.  It takes a
\* failure, a kill or a rotated file replaced by another to lose one.
LinesKept ==
    faults = 0 /\ ~clash =>
        \A l \in Line : LET n == OnDisk(l) + Waiting(l)
                        IN /\ n <= Count(accepted, l)
                           /\ ~set.dedup => n = Count(accepted, l)
                           /\ Count(accepted, l) > 0 => n > 0

\* At the end of the service every state it has accepted is written, and it
\* ends once it is told to: main waits for an empty queue, then for the
\* handler of "quit".  An operation that fails on "quit" leaves main waiting
\* (main.rs:774), so this is about runs without a failure.
Ended == stage \in {"runs", "ended"} \/ faults > 0

\* svc-tpl-filewriter.yml: "date-time fmt: not rotated, new name is used":
\* after a rotation the name of the file is that of the present time.
Renamed ==
    event # None /\ event.kind = "rotate" /\ event' = None /\ set.pattern /\ set.rotated = "none"
        => fp' = generate_file_path(TRUE, now)
=============================================================================
