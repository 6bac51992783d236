------------------------------- MODULE Mailer -------------------------------
(***************************************************************************)
(* The mailer service (svc/svc-mailer/src/main.rs).  A call of send        *)
(* resolves accounts to addresses, takes a permit of the pool and sends    *)
(* its mail, or leaves it in DELAYED_EMAILS, where mails with the same     *)
(* recipients and subject are combined.  A task looks for those that are   *)
(* due every second; it takes a permit too, and its mails one each.  The   *)
(* service ends when no permit is taken and no mail is delayed, which main *)
(* looks at one after the other.                                           *)
(***************************************************************************)
EXTENDS Naturals, Sequences, FiniteSets, SequencesExt

CONSTANTS Mail,        \* calls of send
          Of,          \* their parameters: [logins, rcp, subject, html, delayed]
          DefaultRcp,  \* whether default recipients are configured
          PoolSize,    \* pool_size: 2 or more, since the task's own permit stays taken
          None

VARIABLES sending,     \* [Mail -> its call]
          permits,     \* free permits of tasks_sem
          waiting,     \* who waits for one, in order
          later,       \* DELAYED_EMAILS: a set of [key, due, body]
          job,         \* the task: [pc, batch], the mails of the batch in progress
          main,        \* where main is
          tried,       \* history: how often a text was handed to the SMTP transport
          raced        \* history: a permit was taken between main's two looks

vars == <<sending, permits, waiting, later, job, main, tried, raced>>

NoCall == [pc |-> "idle", todo |-> {}, rcp |-> <<>>]

Init ==
  /\ sending = [m \in Mail |-> NoCall]
  /\ permits = PoolSize /\ waiting = <<>>
  /\ later = {} /\ job = [pc |-> "tick", batch |-> {}]
  /\ main = "runs"
  /\ tried = [m \in Mail |-> 0] /\ raced = FALSE

Active == main # "ended"
Goto(m, pc) == sending' = [sending EXCEPT ![m].pc = pc]
DelayedKey(m) == [rcp |-> sending[m].rcp, subject |-> Of[m].subject]

----------------------------------------------------------------------------
(* The call *)

Call(m) ==
  /\ main = "runs" /\ sending[m].pc = "idle"
  /\ sending' = [sending EXCEPT ![m] = [pc |-> "resolve", todo |-> Of[m].logins, rcp |-> Of[m].rcp]]
  /\ UNCHANGED <<permits, waiting, later, job, main, tried, raced>>

\* resolve_email: from the cache, or from a service that knows the account; the addresses
\* come in the order in which the resolvers end.
Resolve(m, l, found) ==
  /\ Active /\ sending[m].pc = "resolve" /\ l \in sending[m].todo
  /\ sending' = [sending EXCEPT ![m].todo = @ \ {l},
                                ![m].rcp = IF found THEN Append(@, l) ELSE @]
  /\ UNCHANGED <<permits, waiting, later, job, main, tried, raced>>

\* "no addresses have been resolved", "html emails cannot be combined/delayed", or the
\* permit is asked for.
AskPermit(m) ==
  /\ Active /\ sending[m].pc = "resolve" /\ sending[m].todo = {}
  /\ IF \/ Of[m].logins # {} /\ sending[m].rcp = <<>>
        \/ Of[m].delayed /\ Of[m].html
     THEN Goto(m, "failed") /\ UNCHANGED waiting
     ELSE Goto(m, "wait") /\ waiting' = Append(waiting, <<"call", m>>)
  /\ UNCHANGED <<permits, later, job, main, tried, raced>>

\* The mail is combined with the one that has its key; the delay of that one stands.
Combine(m) ==
  LET k == DelayedKey(m) IN
  IF \E d \in later : d.key = k
  THEN {IF d.key = k THEN [d EXCEPT !.body = Append(@, m)] ELSE d : d \in later}
  ELSE later \union {[key |-> k, due |-> FALSE, body |-> <<m>>]}

\* Mailer::send, delayed
Delay(m) ==
  /\ Active /\ sending[m].pc = "granted" /\ Of[m].delayed
  /\ later' = Combine(m)
  /\ Goto(m, "ok") /\ permits' = permits + 1
  /\ UNCHANGED <<waiting, job, main, tried, raced>>

\* Mailer::send, at once: recipients, message, transport.
Deliverable(rcp) == rcp # <<>> \/ DefaultRcp
Transmit(m, ok) ==
  /\ Active /\ sending[m].pc = "granted" /\ ~Of[m].delayed
  /\ tried' = [tried EXCEPT ![m] = @ + 1]
  /\ Goto(m, IF ok /\ Deliverable(sending[m].rcp) THEN "ok" ELSE "failed")
  /\ permits' = permits + 1
  /\ UNCHANGED <<waiting, later, job, main, raced>>

----------------------------------------------------------------------------
(* The semaphore: permits are granted in the order in which they were      *)
(* asked for.                                                              *)
Grant ==
  /\ Active /\ permits > 0 /\ waiting # <<>>
  /\ LET w == Head(waiting) IN
     /\ sending' = IF w[1] = "call" THEN [sending EXCEPT ![w[2]].pc = "granted"] ELSE sending
     /\ job' = CASE w[1] = "job" -> [job EXCEPT !.pc = "collect"]
                 [] w[1] = "mail" -> [job EXCEPT !.batch = {IF b.key = w[2] THEN [b EXCEPT !.pc = "granted"] ELSE b : b \in @}]
                 [] OTHER -> job
  /\ permits' = permits - 1 /\ waiting' = Tail(waiting)
  /\ raced' = (raced \/ main = "looked")
  /\ UNCHANGED <<later, main, tried>>

----------------------------------------------------------------------------
(* send_delayed_emails *)

Tick ==
  /\ Active /\ job.pc = "tick"
  /\ job' = [job EXCEPT !.pc = "wait"] /\ waiting' = Append(waiting, <<"job", None>>)
  /\ UNCHANGED <<sending, permits, later, main, tried, raced>>

Due(d) ==
  /\ Active /\ d \in later /\ ~d.due
  /\ later' = (later \ {d}) \union {[d EXCEPT !.due = TRUE]}
  /\ UNCHANGED <<sending, permits, waiting, job, main, tried, raced>>

\* Those that are due leave the map; each is sent by a task of its own.
Collect ==
  /\ Active /\ job.pc = "collect"
  /\ LET due == {d \in later : d.due} IN
     /\ later' = later \ due
     /\ job' = [pc |-> "send", batch |-> {[key |-> d.key, body |-> d.body, pc |-> "wait"] : d \in due}]
     /\ waiting' = waiting \o SetToSeq({<<"mail", d.key>> : d \in due})
  /\ UNCHANGED <<sending, permits, main, tried, raced>>

\* The result is logged, no more.
TransmitDelayed(b) ==
  /\ Active /\ b \in job.batch /\ b.pc = "granted"
  /\ job' = [job EXCEPT !.batch = @ \ {b}]
  /\ tried' = [m \in Mail |-> tried[m] + Len(SelectSeq(b.body, LAMBDA x : x = m))]
  /\ permits' = permits + 1
  /\ UNCHANGED <<sending, waiting, later, main, raced>>

BatchEnds ==
  /\ Active /\ job.pc = "send" /\ job.batch = {}
  /\ job' = [job EXCEPT !.pc = "tick"] /\ permits' = permits + 1
  /\ UNCHANGED <<sending, waiting, later, main, tried, raced>>

----------------------------------------------------------------------------
(* main, once the service is to stop: the delayed mails become due *)

Terminate ==
  /\ main = "runs" /\ main' = "drains"
  /\ later' = {[d EXCEPT !.due = TRUE] : d \in later}
  /\ UNCHANGED <<sending, permits, waiting, job, tried, raced>>

\* is_busy
LookBusy ==
  /\ main = "drains" /\ permits = PoolSize
  /\ main' = "looked" /\ raced' = FALSE
  /\ UNCHANGED <<sending, permits, waiting, later, job, tried>>

LookDelayed ==
  /\ main = "looked"
  /\ main' = IF later = {} THEN "ended" ELSE "drains"
  /\ UNCHANGED <<sending, permits, waiting, later, job, tried, raced>>

----------------------------------------------------------------------------
CallStep(m) ==
  \/ AskPermit(m) \/ Delay(m)
  \/ \E l \in sending[m].todo, found \in BOOLEAN : Resolve(m, l, found)
  \/ \E ok \in BOOLEAN : Transmit(m, ok)

JobStep == Tick \/ Collect \/ BatchEnds \/ \E b \in job.batch : TransmitDelayed(b)

Next ==
  \/ \E m \in Mail : Call(m) \/ CallStep(m)
  \/ Grant \/ JobStep
  \/ \E d \in later : Due(d)
  \/ Terminate \/ LookBusy \/ LookDelayed

\* The tasks run, the transport has a timeout, and time passes.
Fairness ==
  /\ \A m \in Mail : WF_vars(CallStep(m))
  /\ WF_vars(Grant) /\ WF_vars(JobStep)
  /\ WF_vars(\E d \in later : Due(d))

Spec == Init /\ [][Next]_vars /\ Fairness

----------------------------------------------------------------------------

(* A text is handed to the transport at most once, combined mails          *)
(* included, and none that was accepted is forgotten when the service      *)
(* ends, unless a permit was taken just between main's look at the permits *)
(* and its look at the delayed mails (Mailer::send, send_delayed_emails    *)
(* and the end of main).                                                   *)
MailsTriedOnce ==
  /\ \A m \in Mail : tried[m] <= 1
  /\ main = "ended" /\ ~raced => \A m \in Mail : sending[m].pc = "ok" => tried[m] = 1

(* With a pool of at least two permits, whatever calls and delayed mails   *)
(* compete for them, every mail that was accepted is sent or the service   *)
(* ends.                                                                   *)
Left == \A m \in Mail : sending[m].pc = "ok" => tried[m] = 1 \/ main = "ended"
============================================================================
