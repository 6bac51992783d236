--------------------------- MODULE MCApplications ---------------------------
(***************************************************************************)
(* The services that keep accounts, sessions, histories, files, locks and  *)
(* mails, for TLC: one of the modules below in a behaviour.  The variable  *)
(* part says which; the modules share the variables v1, v2, ..., and those *)
(* that the part has no use for are None.                                  *)
(***************************************************************************)
EXTENDS Naturals, Sequences, FiniteSets

CONSTANTS None,
          Account, AclId, Browser, TokenWs, KeyWs  \* of module HmiSessions

VARIABLES part, v1, v2, v3, v4, v5, v6, v7, v8, v9, v10, v11, v12, v13, v14, v15

shared == <<v1, v2, v3, v4, v5, v6, v7, v8, v9, v10, v11, v12, v13, v14, v15>>
all == <<part, shared>>

----------------------------------------------------------------------------
(* The HMI service *)

\* Sessions that prolong their tokens and exclude others, and that do neither
Sessions == INSTANCE HmiSessions WITH
  User <- {Account}, Acl <- {AclId}, AclOf <- [u \in {Account} |-> {AclId}], Admin <- {}, Token <- {1, 2},
  Client <- {Browser}, TokenSocket <- {TokenWs}, KeySocket <- {KeyWs},
  Settings <- {<<TRUE, FALSE>>, <<FALSE, TRUE>>}, Expiration <- 0, MaxTime <- 1, MaxChanges <- 1,
  prolong <- v1, concurrent <- v2, now <- v3, tokens <- v4, tokenAcls <- v5, login <- v6, logout <- v7,
  socket <- v8, registered <- v9, events <- v10, cleaner <- v11, changes <- v12, stale <- v13,
  missed <- v14

\* The call beside another one sets a data record of the user (method_user_data_set).
Beside(m) == m = <<"parse", "token", "begin", "count", "put">>
Api == INSTANCE HmiApi WITH
  Caller <- {"c1", "c2"}, Key <- {"k1", "k2"}, MaxRecords <- 1, MaxCalls <- 2,
  Settings <- {[demo |-> TRUE, filter |-> FALSE, locks |-> TRUE],
               [demo |-> FALSE, filter |-> TRUE, locks |-> FALSE]},
  set <- v1, session <- v2, call <- v3, row <- v4, data <- v5, locked <- v6, calls <- v7

Socket == INSTANCE HmiSockets WITH
  MaxIeid <- 2, QueueSize <- 1, MaxCommands <- 3,
  how <- v1, ieid <- v2, events <- v3, sends <- v4, sock <- v5, subscribed <- v6, repl <- v7,
  queue <- v8, buf <- v9, shown <- v10, commands <- v11, swapped <- v12, blind <- v13

----------------------------------------------------------------------------
(* Accounts: API keys; users with one-time passwords and one-time users;   *)
(* access control lists                                                    *)
KeyOf(i, k) == <<i, [k |-> k, acls |-> <<"a", "b">>]>>
UserOf(i, pw) == <<i, [password |-> pw, profile |-> 0, acls |-> <<"a", "b">>]>>
List1 == [admin |-> FALSE, read |-> [i |-> {1}], deny |-> None]
List2 == [admin |-> FALSE, read |-> [i |-> {2}, j |-> {1}], deny |-> [i |-> {3}]]
Cmd(op, list) == [op |-> op, list |-> list]
Scene == [commands |-> {}, strict |-> FALSE, forbid_empty |-> FALSE, otp |-> FALSE, exclude |-> {}, one_time |-> FALSE,
          try_keys |-> {}, try_users |-> {}]
KeyScene ==
  [Scene EXCEPT
    !.commands = {Cmd("key.deploy", <<KeyOf("m", "x"), KeyOf("n", "y")>>), Cmd("key.deploy", <<KeyOf("m", "y")>>),
                  Cmd("key.undeploy", <<"m", "n">>), Cmd("key.destroy", <<"n">>), Cmd("key.regenerate", <<"m">>)},
    !.try_keys = {"x"}]
UserScene ==
  [Scene EXCEPT
    !.commands = {Cmd("user.deploy", <<UserOf("u", 1)>>), Cmd("user.undeploy", <<"u">>),
                  Cmd("user.destroy", <<"u">>), Cmd("user.set_password", <<"u", 2>>),
                  Cmd("user.set_profile_field", <<"u", 1>>), Cmd("otp.destroy", <<"u">>)},
    !.otp = TRUE, !.one_time = TRUE, !.try_users = {<<"u", 1>>}]
AclScene ==
  [Scene EXCEPT
    !.commands = {Cmd("acl.deploy", <<<<"a", List1>>, <<"b", List2>>>>), Cmd("acl.undeploy", <<"a", "b">>),
                  Cmd("acl.destroy", <<"a">>), Cmd("user.deploy", <<UserOf("u", 1)>>)},
    !.strict = TRUE, !.forbid_empty = TRUE, !.otp = TRUE, !.exclude = {"u"}, !.try_users = {<<"u", 1>>}]
Auth == INSTANCE Accounts WITH
  Admin <- {"a1", "a2"}, Caller <- {"c1"}, Value <- {"x", "y", "z"}, OneTime <- {"t"}, Secret <- 2,
  Path <- {<<"key", "m">>, <<"key", "n">>, <<"user", "u">>, <<"otp", "u">>, <<"acl", "a">>, <<"acl", "b">>},
  Scenes <- {KeyScene, UserScene, AclScene}, MaxCalls <- 3, MaxFaults <- 1,
  scene <- v1, up <- v2, mem <- v3, keys_by_k <- v4, one_time <- v5, registry <- v6, actor <- v7,
  tx <- v8, published <- v9, secrets <- v10, calls <- v11, faults <- v12, dirty <- v13, mute <- v14,
  grants <- v15

(* The databases of the state history                                      *)
HistState(o, t, v) == [oid |-> o, t |-> t, v |-> v]
HistDb(d, b, c, oi) == [db |-> d, buf |-> b, clean |-> c, oids |-> oi]
History == INSTANCE StateHistory WITH
  Item <- {1, 2}, Pusher <- {"p"}, QueueSize <- 1, Keep <- 1, MaxTime <- 3, MaxFaults <- 1,
  State <- {HistState(1, 0, "num"), HistState(1, 1, "num"), HistState(2, 1, "quote"), HistState(1, 1, "quote")},
  Settings <- {HistDb("sqlite", TRUE, "full", FALSE), HistDb("postgres", FALSE, "simple", FALSE),
               HistDb("timescale", TRUE, "chunks", TRUE), HistDb("timescale", FALSE, "simple", TRUE),
               HistDb("json", TRUE, "simple", TRUE), HistDb("influx", FALSE, "none", FALSE)},
  set <- v1, now <- v2, coming <- v3, queue <- v4, buf <- v5, writer <- v6, oids <- v7, serial <- v8,
  events <- v9, cleaner <- v10, sweep <- v11, lock <- v12, faults <- v13, written <- v14, lost <- v15

\* One column or two; with and without a limit and a period answered beyond the end
Filling(d, c, k, l, x) == [db |-> d, cols |-> c, kind |-> k, limit |-> l, cut |-> x]
Kinds == {"none", "zero", "nan", "previous"}
Fill == INSTANCE HistoryFill WITH
  Periods <- 3,
  Asks <- {Filling("filled", c, k, l, x) : c \in {<<"value">>, <<"status", "value">>}, k \in Kinds,
                                            l \in {0, 2}, x \in BOOLEAN}
          \union {Filling("sql", <<"status", "value">>, "none", l, x) : l \in {0, 2}, x \in BOOLEAN}
          \union {Filling("combined", c, k, 0, x) : c \in {<<>>, <<"i", "j">>}, k \in Kinds, x \in BOOLEAN}
          \union {Filling(d, <<"value">>, "none", l, FALSE) : d \in {"v1", "v2"}, l \in 0..3},
  ask <- v1, cells <- v2, answer <- v3

----------------------------------------------------------------------------
(* Files, terminals, locks, expiration and mails                           *)
Target(p, r, d, f) == [csv |-> TRUE, pattern |-> p, rotated |-> r, dedup |-> d, flush |-> f]
Writer == INSTANCE FileWriter WITH
  Line <- {1, 2}, QueueSize <- 2, MaxEvents <- 3, MaxTime <- 2, MaxFaults <- 1,
  Settings <- {Target(FALSE, "none", TRUE, FALSE), Target(TRUE, "plain", FALSE, TRUE)},
  set <- v1, now <- v2, stage <- v3, queue <- v4, event <- v5, fd <- v6, fp <- v7, dt <- v8,
  pos0 <- v9, failed <- v10, cache <- v11, disk <- v12, accepted <- v13, faults <- v14, clash <- v15

\* Date-time options in the path, and a clock that advances
Renaming == INSTANCE FileWriter WITH
  Line <- {1}, QueueSize <- 2, MaxEvents <- 3, MaxTime <- 2, MaxFaults <- 1,
  Settings <- {Target(TRUE, "none", FALSE, TRUE)},
  set <- v1, now <- v2, stage <- v3, queue <- v4, event <- v5, fd <- v6, fp <- v7, dt <- v8,
  pos0 <- v9, failed <- v10, cache <- v11, disk <- v12, accepted <- v13, faults <- v14, clash <- v15

Shells == INSTANCE Terminals WITH
  Terminal <- {"t1", "t2"}, MaxSyncs <- 1,
  svc <- v1, create <- v2, handler <- v3, shell <- v4, pid <- v5, listed <- v6, fresh <- v7,
  output <- v8, told <- v9, kills <- v10, killed <- v11, syncs <- v12

Ask(m, l, s, x, a) == [method |-> m, len |-> l, sum |-> s, extract |-> x, allowed |-> a]
Store == INSTANCE FileStore WITH
  Call <- {"c1", "c2", "c3"}, MaxFaults <- 1,
  Requests <- {Ask("file.put", 2, TRUE, FALSE, TRUE), Ask("file.put", 1, TRUE, TRUE, TRUE),
               Ask("file.put", 1, FALSE, FALSE, TRUE), Ask("file.get", 0, TRUE, FALSE, TRUE),
               Ask("file.unlink", 0, TRUE, FALSE, TRUE), Ask("list", 0, TRUE, FALSE, FALSE),
               Ask("sh", 0, TRUE, FALSE, TRUE)},
  req <- v1, pc <- v2, fh <- v3, offset <- v4, entry <- v5, content <- v6, temps <- v7, got <- v8,
  result <- v9, shared <- v10, faults <- v11

Lock == INSTANCE Locker WITH
  Client <- {"c1", "c2", "c3"}, MaxCalls <- 2,
  holder <- v1, expiring <- v2, client <- v3, queue <- v4, calls <- v5, overrun <- v6

Expiry == INSTANCE Expiration WITH
  Item <- {"s", "l"}, Lvar <- {"l"}, Expires <- 1, MaxEvents <- 2,
  age <- v1, expired <- v2, frames <- v3, handling <- v4, todo <- v5, checked <- v6, found <- v7,
  inbox <- v8, core <- v9, events <- v10

\* Two delayed mails that have the same recipients, and one for the default ones
Text(l, r, h, d) == [logins |-> l, rcp |-> r, subject |-> "s", html |-> h, delayed |-> d]
Mail == INSTANCE Mailer WITH
  Mail <- {"m1", "m2", "m3"}, DefaultRcp <- TRUE, PoolSize <- 2,
  Of <- [m1 |-> Text({"l1", "l2"}, <<>>, FALSE, TRUE), m2 |-> Text({"l1"}, <<"l2">>, FALSE, TRUE),
         m3 |-> Text({}, <<>>, TRUE, FALSE)],
  sending <- v1, permits <- v2, waiting <- v3, later <- v4, job <- v5, main <- v6, tried <- v7,
  raced <- v8

----------------------------------------------------------------------------
(* The parts together                                                      *)

\* The variables a part has no use for: unchanged, and None
From15 == <<v15>>
From14 == <<v14, v15>>
From13 == <<v13, v14, v15>>
From12 == <<v12, v13, v14, v15>>
From11 == <<v11, v12, v13, v14, v15>>
From9 == <<v9, v10, v11, v12, v13, v14, v15>>
From8 == <<v8, v9, v10, v11, v12, v13, v14, v15>>
From4 == <<v4, v5, v6, v7, v8, v9, v10, v11, v12, v13, v14, v15>>
From7 == <<v7, v8, v9, v10, v11, v12, v13, v14, v15>>
Off15 == v15 = None
Off14 == v14 = None /\ Off15
Off13 == v13 = None /\ Off14
Off12 == v12 = None /\ Off13
Off11 == v11 = None /\ Off12
Off9 == v9 = None /\ v10 = None /\ Off11
Off8 == v8 = None /\ Off9
Off7 == v7 = None /\ Off8
Off4 == v4 = None /\ v5 = None /\ v6 = None /\ Off7

MCInit ==
  \/ part = "sessions" /\ Sessions!Init /\ Off15
  \/ part = "api" /\ Api!Init /\ Off8
  \/ part = "socket" /\ Socket!Init /\ Off14
  \/ part = "accounts" /\ Auth!Init
  \/ part = "history" /\ History!Init
  \/ part = "fill" /\ Fill!Init /\ Off4
  \/ part = "writer" /\ Writer!Init
  \/ part = "terminals" /\ Shells!Init /\ Off13
  \/ part = "store" /\ Store!Init /\ Off12
  \/ part = "locker" /\ Lock!LockerInit /\ Off7
  \/ part = "expiration" /\ Expiry!Init /\ Off11
  \/ part = "mailer" /\ Mail!Init /\ Off9

\* A step of the part p, which has no use for the shared variables in rest
Do(p, rest, A) == part = p /\ A /\ UNCHANGED <<part, rest>>
MCNext ==
  \/ Do("sessions", From15, Sessions!Next)
  \/ Do("api", From8, Api!Next)
  \/ Do("socket", From14, Socket!Next)
  \/ Do("accounts", <<>>, Auth!Next)
  \/ Do("history", <<>>, History!Next)
  \/ Do("fill", From4, Fill!Next)
  \/ Do("writer", <<>>, Writer!Next)
  \/ Do("terminals", From13, Shells!Next)
  \/ Do("store", From12, Store!Next)
  \/ Do("locker", From7, Lock!LockerNext)
  \/ Do("expiration", From11, Expiry!Next)
  \/ Do("mailer", From9, Mail!Next)

\* The fairness of the modules, for the part that runs
HmiFairness ==
  /\ WF_all(Do("sessions", From15, Sessions!LoadTokenIds))
  /\ WF_all(Do("sessions", From15, Sessions!ClearTokenWebsockets))
  /\ \A c \in {"c1", "c2"} : WF_all(Do("api", From8, Api!Step(c)))
HistoryFairness ==
  /\ WF_all(Do("history", <<>>, History!SenderBuffers))
  /\ WF_all(Do("history", <<>>, History!SenderTick))
  /\ WF_all(Do("history", <<>>, History!SenderTakes))
  /\ WF_all(Do("history", <<>>, History!delete_oids))
  /\ \A w \in {"sender", "p"} :
       /\ WF_all(Do("history", <<>>, History!Submit(w)))
       /\ SF_all(Do("history", <<>>, History!BeginInsert(w)))
       /\ WF_all(Do("history", <<>>, History!CommitInsert(w)))
FileFairness ==
  /\ WF_all(Do("writer", <<>>, Writer!FileHandler))
  /\ WF_all(Do("writer", <<>>, Writer!SendQuit))
  /\ \A t \in {"t1", "t2"} :
       /\ WF_all(Do("terminals", From13, Shells!CreateEnd(t) \/ Shells!CreateTimeout(t)))
       /\ WF_all(Do("terminals", From13, Shells!HandlerSeesEnd(t)))
       /\ WF_all(Do("terminals", From13, Shells!HandlerEnds(t)))
       /\ WF_all(Do("terminals", From13, Shells!Idle(t)))
       /\ WF_all(Do("terminals", From13, Shells!Cleanup(t)))
       /\ WF_all(Do("terminals", From13, Shells!RunKill(t)))
TimerFairness ==
  /\ WF_all(Do("locker", From7, Lock!Expire))
  /\ \A c \in {"c1", "c2", "c3"} : WF_all(Do("locker", From7, Lock!LockTimeout(c)))
  /\ WF_all(Do("expiration", From11, Expiry!CoreApplies))
  /\ WF_all(Do("expiration", From11, Expiry!Tick))
  /\ WF_all(Do("expiration", From11, Expiry!handle_frame))
  /\ WF_all(Do("expiration", From11, Expiry!handle_event))
  /\ WF_all(Do("expiration", From11, Expiry!Checker))
MailFairness ==
  /\ \A m \in {"m1", "m2", "m3"} : WF_all(Do("mailer", From9, Mail!CallStep(m)))
  /\ WF_all(Do("mailer", From9, Mail!Grant))
  /\ WF_all(Do("mailer", From9, Mail!JobStep))
  /\ WF_all(Do("mailer", From9, \E d \in v4 : Mail!Due(d)))

MCSpec ==
  /\ MCInit /\ [][MCNext]_all
  /\ HmiFairness /\ HistoryFairness /\ FileFairness /\ TimerFairness /\ MailFairness

\* The file writer alone
WriterSpec == part = "writer" /\ Renaming!Init /\ [][Do("writer", <<>>, Renaming!Next)]_all

\* The state history alone
HistorySpec == part = "history" /\ History!Init /\ [][Do("history", <<>>, History!Next)]_all

----------------------------------------------------------------------------
(* Properties *)

\* What was withdrawn or used up gives no access any more, and a call changes only what
\* its caller may change: RevokedAreGone and OneSession of module HmiSessions,
\* OneTimeOnce of Accounts, ChangesAllowed of HmiApi.
AccessEnds ==
  /\ part = "sessions" => Sessions!RevokedAreGone /\ Sessions!OneSession
  /\ part = "accounts" => Auth!OneTimeOnce
  /\ part = "api" => Api!ChangesAllowed

\* The indexes, the registry and the published events of the accounts agree
\* (KeyIndexesAgree, RegistryFollows, EventsFollow of Accounts), the format of several
\* lists is their union (FormatIsUnion).
AccountsAgree ==
  part = "accounts" => /\ Auth!KeyIndexesAgree /\ Auth!RegistryFollows
                       /\ Auth!EventsFollow /\ Auth!FormatIsUnion

\* A record written to the history stays as long as it must and a log read page by page
\* is complete (HistoryKept, PagesCover of StateHistory); the data records of a user stay
\* within their limit (UserDataBounded of HmiApi).
RecordsKept ==
  /\ part = "history" => History!HistoryKept /\ History!PagesCover
  /\ part = "api" => Api!UserDataBounded

\* A filled history shows each period its own values (HistoryFilled of HistoryFill).
PeriodsTrue == part = "fill" => Fill!HistoryFilled

\* Lines and files are kept whole: FilesWhole and LinesKept of FileWriter,
\* ContentsOfOnePut of FileStore.
FilesKept ==
  /\ part = "writer" => Writer!FilesWhole /\ Writer!LinesKept
  /\ part = "store" => Store!ContentsOfOnePut

\* What may happen once happens once: a terminal is killed once (KilledOnce of
\* Terminals), one client works under a lock (LockExclusive of Locker), and a mail is
\* handed to the transport once (MailsTriedOnce of Mailer).
OnceOnly ==
  /\ part = "terminals" => Shells!KilledOnce
  /\ part = "locker" => Lock!LockExclusive
  /\ part = "mailer" => Mail!MailsTriedOnce

\* The client of a web socket shows the current state once nothing is on its way, and
\* never goes back to an older one (ClientCurrent and Forward of HmiSockets).
ClientFollows ==
  /\ [](part = "socket" => Socket!ClientCurrent)
  /\ [][part = "socket" => Socket!Forward]_all

\* Everything gets its due: a recorded call its outcome, an accepted state its place in
\* the history, a file writer told to stop its end, a shell nobody uses its kill, a silent
\* item its error status, an accepted mail its delivery; the lock is free, and no socket
\* without a token is open, again and again.
EverythingServed ==
  /\ <>[](/\ part = "api" => Api!Accounted
          /\ part = "history" => History!Settled
          /\ part = "writer" => Writer!Ended
          /\ part = "terminals" => Shells!ShellsGone
          /\ part = "expiration" => Expiry!Expired
          /\ part = "mailer" => Mail!Left)
  /\ []<>(/\ part = "sessions" => ~Sessions!Lost(TokenWs)
          /\ part = "locker" => v1 = None)

\* "date-time fmt: not rotated, new name is used" (svc-tpl-filewriter.yml:12): after a
\* rotation the name of the file is that of the present time.
NewNameUsed == [][part = "writer" => Renaming!Renamed]_all

\* "Limit records to" (db-influx/eapi.yml:26): a history has no more records than the
\* limit of the call.
LimitHolds == part = "history" => History!LimitKept
============================================================================
