------------------------------- MODULE Modbus -------------------------------
(***************************************************************************)
(* The Modbus client of svc/controller-modbus: how a request of a task is  *)
(* exchanged for a reply over a pool of TCP connections or UDP sockets, a  *)
(* serial port behind a mutex, or a call to another service (client.rs),   *)
(* and how values of the register types become words and words become      *)
(* values (modbus.rs).                                                     *)
(*                                                                         *)
(* A word is a set of bits.  A value is the sequence of its words, the     *)
(* most significant first.  The device answers what a connection brings,   *)
(* in order.                                                               *)
(***************************************************************************)
EXTENDS Naturals, Sequences, FiniteSets

CONSTANTS
    User,       \* tasks of the controller that use the client
    Plans,      \* functions from User to [op, tp, reg, bit, value]: the jobs
    Kinds,      \* [kind, fc16]: the transports explored
    Conn,       \* connections of the pool
    RegisterCount,  \* the highest holding register
    Bits,       \* bits of a word
    MaxLosses,  \* bound: requests or replies lost, connections broken
    Nobody

VARIABLES
    kind,       \* the transport, chosen once
    plan,       \* the jobs, chosen once
    regs,       \* the device's holding registers
    conn,       \* per connection: [holder, req, rep, broken, strayed]
    task,       \* per task: [todo, conn, answer, result]
    wrong,      \* a task took the reply to another request for its own
    losses

masterVars == <<kind, plan, regs, conn, task, wrong, losses>>

Fresh == [holder |-> Nobody, req |-> <<>>, rep |-> <<>>, broken |-> FALSE, strayed |-> FALSE]

Waiting == [todo |-> <<>>, conn |-> Nobody, answer |-> Nobody, result |-> "none"]

(***************************************************************************)
(* Register types                                                          *)
(***************************************************************************)

\* ModbusType::size
Size(tp) ==
    CASE tp \in {"Bit", "Uint16", "Int16"} -> 1
      [] tp \in {"Uint32", "Int32", "Uint32w", "Int32w", "Real32", "Real32b"} -> 2
      [] OTHER -> 4

\* the types that carry the least significant word first
LowFirst == {"Uint32w", "Int32w", "Uint64w", "Int64w", "Real32", "Real64"}

\* Words in the other order
Swapped(words) == [n \in 1 .. Len(words) |-> words[Len(words) - n + 1]]

\* n.with_bit
WithBit(w, b, on) == IF on THEN w \union {b} ELSE w \ {b}

\* set_reg: the words written for a value; a bit is set in the old value
set_reg(tp, bit, value, old) ==
    CASE tp = "Bit"        -> <<WithBit(old, bit, value[1] # {})>>
      [] tp \in LowFirst   -> Swapped(value)
      [] OTHER             -> value

\* parse_block_value: the value at the start of a block of words
parse_block_value(block, tp, bit) ==
    CASE tp = "Bit"        -> <<IF bit \in block[1] THEN {0} ELSE {}>>
      [] tp \in LowFirst   -> Swapped(SubSeq(block, 1, Size(tp)))
      [] OTHER             -> SubSeq(block, 1, Size(tp))

(***************************************************************************)
(* Requests                                                                *)
(***************************************************************************)

\* get_u16: the function is checked against that of the reply, and so is the
\* transaction id, which is the same in all requests (TrId::generate)
get_u16(reg, count) == [func |-> 3, reg |-> reg, count |-> count, words |-> <<>>]

\* set_u16_bulk: in one request, or word by word with function 6
set_u16_bulk(reg, words) ==
    IF kind.fc16
    THEN <<[func |-> 16, reg |-> reg, count |-> Len(words), words |-> words]>>
    ELSE [n \in 1 .. Len(words) |->
            [func |-> 6, reg |-> reg + n - 1, count |-> 1, words |-> <<words[n]>>]]

\* bus_get without retries
bus_get(p) == <<get_u16(p.reg, Size(p.tp))>>

\* bus_set without verification: a bit is read before it is written
bus_set(p) ==
    IF p.tp = "Bit" THEN bus_get(p) ELSE set_u16_bulk(p.reg, set_reg(p.tp, p.bit, p.value, {}))

MasterInit ==
    /\ kind \in Kinds
    /\ plan \in Plans
    /\ regs = [r \in 1 .. RegisterCount |-> {}]
    /\ conn = [c \in Conn |-> Fresh]
    /\ task = [t \in User |-> [Waiting EXCEPT !.todo =
                 IF plan[t].op = "get" THEN bus_get(plan[t]) ELSE bus_set(plan[t])]]
    /\ wrong = {}
    /\ losses = 0

JobEnds(t, result) ==
    [task EXCEPT ![t] = [@ EXCEPT !.todo = <<>>, !.conn = Nobody, !.result = result]]

(***************************************************************************)
(* Exchanges                                                               *)
(***************************************************************************)

\* pool.get, or the mutex of the serial port: a connection nobody holds.  A
\* write to a broken TCP connection fails and a new one takes its place
SendRequest(t) ==
    /\ task[t].todo # <<>> /\ task[t].conn = Nobody
    /\ \E c \in Conn :
         /\ conn[c].holder = Nobody
         /\ \/ /\ ~conn[c].broken
               /\ conn' = [conn EXCEPT ![c].holder = t,
                              ![c].req = Append(@, [by |-> t, what |-> Head(task[t].todo)])]
            \/ /\ conn[c].broken
               /\ conn' = [conn EXCEPT ![c] = [Fresh EXCEPT !.holder = t, !.strayed = conn[c].strayed,
                              !.req = <<[by |-> t, what |-> Head(task[t].todo)]>>]]
         /\ task' = [task EXCEPT ![t].conn = c]
    /\ UNCHANGED <<kind, plan, regs, wrong, losses>>

\* the device serves the next request of a connection; the answer to a call
\* over the bus finds only the caller that still waits for it
Serve(c) ==
    /\ conn[c].req # <<>> /\ ~conn[c].broken
    /\ LET q == Head(conn[c].req)
           f == q.what IN
       /\ regs' = [r \in DOMAIN regs |->
                     IF r \in f.reg .. f.reg + Len(f.words) - 1 THEN f.words[r - f.reg + 1]
                     ELSE regs[r]]
       /\ conn' = [conn EXCEPT ![c].req = Tail(@),
                     ![c].rep = IF kind.kind = "native" /\ q.by # conn[c].holder THEN @
                                ELSE Append(@, [by |-> q.by, func |-> f.func,
                        data |-> IF f.func = 3 THEN SubSeq(regs, f.reg, f.reg + f.count - 1)
                                 ELSE <<>>])]
    /\ UNCHANGED <<kind, plan, task, wrong, losses>>

\* what is left to send once a reply is in
LeftToSend(t, reply) ==
    LET p == plan[t] IN
    IF p.op = "set" /\ p.tp = "Bit" /\ reply.func = 3
    THEN set_u16_bulk(p.reg, set_reg(p.tp, p.bit, p.value,
            parse_block_value(reply.data, "Bit", 0)[1]))
    ELSE Tail(task[t].todo)

\* the reply is read, the connection given back, the reply parsed: one of
\* another function or length is an error
Receive(t) ==
    /\ task[t].conn # Nobody
    /\ LET c == task[t].conn
           q == Head(task[t].todo) IN
       /\ conn[c].rep # <<>>
       /\ conn' = [conn EXCEPT ![c].rep = Tail(@), ![c].holder = Nobody]
       /\ LET reply == Head(conn[c].rep)
              fits  == reply.func = q.func /\ (q.func = 3 => Len(reply.data) = q.count) IN
          /\ wrong' = IF fits /\ reply.by # t THEN wrong \union {t} ELSE wrong
          /\ task' = IF ~fits THEN JobEnds(t, "error")
                     ELSE IF LeftToSend(t, reply) = <<>>
                     THEN [JobEnds(t, "ok") EXCEPT ![t].answer = reply.data]
                     ELSE [task EXCEPT ![t] = [@ EXCEPT !.todo = LeftToSend(t, reply),
                                                        !.conn = Nobody, !.answer = reply.data]]
    /\ UNCHANGED <<kind, plan, regs, losses>>

\* the timeout of the operation: the future is dropped, the connection goes
\* back to the pool as it is, with the reply that may still come on it
GiveUp(t) ==
    /\ task[t].conn # Nobody /\ losses < MaxLosses
    /\ losses' = losses + 1
    /\ task' = JobEnds(t, "error")
    /\ conn' = [conn EXCEPT ![task[t].conn] =
                  IF kind.kind = "native" THEN [@ EXCEPT !.holder = Nobody, !.rep = <<>>]
                  ELSE [@ EXCEPT !.holder = Nobody, !.strayed = TRUE]]
    /\ UNCHANGED <<kind, plan, regs, wrong>>

\* a TCP connection breaks: its reader gets an error
Break(c) ==
    /\ kind.kind = "tcp" /\ losses < MaxLosses /\ ~conn[c].broken
    /\ losses' = losses + 1
    /\ conn' = [conn EXCEPT ![c] = [Fresh EXCEPT !.broken = TRUE, !.strayed = conn[c].strayed]]
    /\ task' = IF conn[c].holder = Nobody THEN task ELSE JobEnds(conn[c].holder, "error")
    /\ UNCHANGED <<kind, plan, regs, wrong>>

MasterNext ==
    \/ \E t \in User : SendRequest(t) \/ Receive(t) \/ GiveUp(t)
    \/ \E c \in Conn : Serve(c) \/ Break(c)

MasterSpec == MasterInit /\ [][MasterNext]_masterVars

Span(p) == p.reg .. p.reg + Size(p.tp) - 1

\* no other job writes the registers of t's
Alone(t) ==
    \A u \in User \ {t} : plan[u].op = "set" => Span(plan[u]) \intersect Span(plan[t]) = {}

(***************************************************************************)
(* While no exchange of a connection was given up, what the client tells   *)
(* is so: no task takes the reply to another request for its own, whichever*)
(* connections broke in between; a value that was set, of any type, in one *)
(* request or word by word, is the value the registers yield when parsed;  *)
(* and a write touches no register but its own.                            *)
(***************************************************************************)
AnswersHonest ==
    (\A c \in Conn : ~conn[c].strayed) =>
        /\ wrong = {}
        /\ \A t \in User :
              plan[t].op = "set" /\ Alone(t) /\ task[t].result = "ok" =>
                 parse_block_value(SubSeq(regs, plan[t].reg, RegisterCount), plan[t].tp, plan[t].bit)
                    = plan[t].value
        /\ \A r \in DOMAIN regs :
              regs[r] # {} => \E t \in User : plan[t].op = "set" /\ r \in Span(plan[t])

=============================================================================
