---------------------------- MODULE HmiSessions ----------------------------
(***************************************************************************)
(* Sessions of the HMI service: its tokens in the database, the rows that  *)
(* say on which ACLs a token rests, the web sockets opened with a token or *)
(* with an API key (svc/hmi/src/aaa.rs, db.rs, handler.rs), the events of  *)
(* the authentication services that revoke them (eapi.rs), and the tasks   *)
(* that clean up.                                                          *)
(*                                                                         *)
(* Every SQL statement is one step, and the handlers of calls and of bus   *)
(* frames run beside each other.  A key acts as a user whose sockets rest  *)
(* on no token.                                                            *)
(***************************************************************************)
EXTENDS Naturals, FiniteSets

CONSTANTS User, Acl,   \* accounts; access control lists
          AclOf,       \* the lists an account rests on (Acl::from)
          Admin,       \* accounts that may always have several sessions
          Token, Client, \* token ids, a range of numbers; clients that log in
          TokenSocket, KeySocket, \* web sockets opened with a token, with a key
          Settings,    \* pairs of SESSION_PROLONG and SESSION_ALLOW_CONCURRENT
          Expiration, MaxTime, \* session timeout; bound of the clock
          MaxChanges,  \* bound: changes of accounts and lists, failed logins and logouts
          None

Socket == TokenSocket \union KeySocket
Event == User \union Acl

VARIABLES prolong, concurrent, \* SESSION_PROLONG, SESSION_ALLOW_CONCURRENT
          now,
          tokens, tokenAcls,   \* tables tokens and token_acls
          login, logout,       \* logins and destroy_token in progress
          socket, registered,  \* web sockets; TOKEN_WEBSOCKETS and WS_STANDALONE
          events,              \* events of the authentication services to handle
          cleaner,             \* clear_token_websockets: ids it has loaded
          changes,             \* use of the bound
          stale, missed        \* history: see Revoked and Overtaken

settings == <<prolong, concurrent>>
database == <<tokens, tokenAcls>>
history == <<stale, missed>>
vars == <<settings, now, database, login, logout, socket, registered, events,
          cleaner, changes, history>>

Idle == [pc |-> "idle", u |-> None, tok |-> None, todo |-> {}]
Unused == [pc |-> "new", u |-> None, t |-> 0]
Closed == [pc |-> "closed", by |-> None]

Init ==
  /\ \E w \in Settings : prolong = w[1] /\ concurrent = w[2]
  /\ now = 0
  /\ tokens = [k \in Token |-> Unused] /\ tokenAcls = {}
  /\ login = [c \in Client |-> Idle] /\ logout = [k \in Token |-> "no"]
  /\ \E n \in Socket : socket = [s \in Socket |-> IF s = n THEN [Closed EXCEPT !.pc = "new"]
                                                   ELSE Closed]
  /\ registered = {}
  /\ events = {} /\ cleaner = None
  /\ changes = 0
  /\ stale = {} /\ missed = {}

Forget(X) == stale' = stale \ X /\ missed' = missed \ X
Saved == {k \in Token : tokens[k].pc = "saved"}
IsExpired(k) == tokens[k].t + Expiration < now
Fault == changes < MaxChanges /\ changes' = changes + 1
Delete(K) == [k \in Token |-> IF k \in K THEN [Unused EXCEPT !.pc = "gone"] ELSE tokens[k]]
IsNew(k) == tokens[k] = Unused /\ \A j \in Token : tokens[j] = Unused => k <= j
Sessions(u) == {k \in Saved : tokens[k].u = u}

----------------------------------------------------------------------------
(* Revocation.  A token, a login in progress or a socket is stale once its *)
(* account, or a list it rests on, has been changed after it was           *)
(* authenticated.                                                          *)

Rests(u, e) == e = u \/ e \in AclOf[u]
Revoked(e) ==
  {k \in Saved : Rests(tokens[k].u, e)}
    \union {c \in Client : login[c].pc # "idle" /\ Rests(login[c].u, e)}
    \union {s \in KeySocket : socket[s].pc \in {"opening", "open"} /\ Rests(socket[s].by, e)}

\* An authentication service changes an account or a list and publishes it.
Change(e) ==
  /\ changes < MaxChanges /\ changes' = changes + 1
  /\ events' = events \union {e}
  /\ stale' = stale \union Revoked(e)
  /\ UNCHANGED <<settings, now, database, login, logout, socket, registered, cleaner, missed>>

\* Tokens that a DELETE of an event finds; Overtaken: logins and sockets that it cannot.
Cleared(e) == {k \in Saved : tokens[k].u = e \/ <<k, e>> \in tokenAcls}
Overtaken(e) ==
  ({k \in Saved : Rests(tokens[k].u, e)} \ Cleared(e))
    \union {c \in Client : login[c].pc \in {"check", "save"} /\ Rests(login[c].u, e)}
    \union {s \in KeySocket : socket[s].pc = "opening" /\ Rests(socket[s].by, e)}

KeySocketsOf(e) == {s \in KeySocket \intersect registered : Rests(socket[s].by, e)}
Terminated(S) == [s \in Socket |-> IF s \in S THEN Closed ELSE socket[s]]

\* Faulty variant of ClearTokensOf: a changed list deletes no tokens.
ClearTokensByUser(e) ==
  LET own == {k \in Cleared(e) : tokens[k].u = e}
  IN /\ tokens' = Delete(own)
     /\ stale' = stale \ (own \union KeySocketsOf(e))
     /\ missed' = (missed \ own) \union Overtaken(e)

\* handle_frame: the tokens are deleted by a task of its own, the sockets of keys at once.
ClearTokensOf(e) ==
  /\ tokens' = Delete(Cleared(e))
  /\ stale' = stale \ (Cleared(e) \union KeySocketsOf(e))
  /\ missed' = (missed \ Cleared(e)) \union Overtaken(e)

\* The DELETE fails and is logged: what it would have found stays.
ClearFails(e) ==
  /\ stale' = stale \ KeySocketsOf(e)
  /\ missed' = missed \union Cleared(e) \union Overtaken(e)
  /\ UNCHANGED tokens

HandleEvent(e) ==
  /\ e \in events
  /\ events' = events \ {e}
  /\ \/ ClearTokensOf(e)
     \/ ClearFails(e)
  /\ socket' = Terminated(KeySocketsOf(e))
  /\ registered' = registered \ KeySocketsOf(e)
  /\ UNCHANGED <<settings, now, tokenAcls, login, logout, cleaner, changes>>

----------------------------------------------------------------------------
(* Login and logout *)

\* login: an authentication service accepts the credentials and returns the ACL.
Authenticate(c, u) ==
  /\ login[c] = Idle
  /\ login' = [login EXCEPT ![c] = [Idle EXCEPT
       !.pc = IF u \in Admin \/ concurrent THEN "save" ELSE "check", !.u = u]]
  /\ Forget({c})
  /\ UNCHANGED <<settings, now, database, logout, socket, registered, events, cleaner, changes>>

\* is_active_session_for
CheckConcurrent(c) ==
  /\ login[c].pc = "check"
  /\ login' = IF Sessions(login[c].u) = {} THEN [login EXCEPT ![c].pc = "save"]
              ELSE [login EXCEPT ![c] = Idle]
  /\ UNCHANGED <<settings, now, database, logout, socket, registered, events, cleaner, changes,
                 history>>

\* create_token, save_token: the token first, then a row for each of its ACLs.
SaveToken(c, k) ==
  /\ login[c].pc = "save" /\ IsNew(k)
  /\ tokens' = [tokens EXCEPT ![k] = [pc |-> "saved", u |-> login[c].u, t |-> now]]
  /\ login' = [login EXCEPT ![c].pc = "acls", ![c].tok = k, ![c].todo = AclOf[login[c].u]]
  /\ stale' = (stale \ {c}) \union {x \in {k} : c \in stale}
  /\ missed' = (missed \ {c}) \union {x \in {k} : c \in missed}
  /\ UNCHANGED <<settings, now, tokenAcls, logout, socket, registered, events, cleaner, changes>>

SaveAcl(c, a) ==
  /\ a \in login[c].todo
  /\ tokenAcls' = tokenAcls \union {<<login[c].tok, a>>}
  /\ login' = [login EXCEPT ![c] = IF @.todo = {a} THEN Idle
                                   ELSE [@ EXCEPT !.todo = @ \ {a}]]
  /\ UNCHANGED <<settings, now, tokens, logout, socket, registered, events, cleaner, changes,
                 history>>

\* A row cannot be saved: the client gets an error, and never the token, which stays.
SaveAclFails(c) ==
  /\ login[c].pc = "acls" /\ Fault
  /\ missed' = missed \union {login[c].tok}
  /\ login' = [login EXCEPT ![c] = Idle]
  /\ UNCHANGED <<settings, now, database, logout, socket, registered, events, cleaner, stale>>

\* Tokens that a client has got.
Given == {k \in Token : \A c \in Client : login[c].tok # k}

\* get_token of an API call: the session is prolonged.
GetToken(k) ==
  /\ k \in Saved \intersect Given /\ ~IsExpired(k)
  /\ prolong /\ tokens' = [tokens EXCEPT ![k].t = now]
  /\ UNCHANGED <<settings, now, tokenAcls, login, logout, socket, registered, events, cleaner,
                 changes, history>>

\* destroy_token of a logout or of session.destroy: two statements, then the sockets.
DestroyToken(k) ==
  /\ k \in Saved \intersect Given /\ logout[k] = "no"
  /\ tokens' = Delete({k}) /\ Forget({k})
  /\ logout' = [logout EXCEPT ![k] = "acls"]
  /\ UNCHANGED <<settings, now, tokenAcls, login, socket, registered, events, cleaner, changes>>

DestroyAcls(k) ==
  /\ logout[k] = "acls"
  /\ tokenAcls' = {r \in tokenAcls : r[1] # k}
  /\ logout' = [logout EXCEPT ![k] = "sockets"]
  /\ UNCHANGED <<settings, now, tokens, login, socket, registered, events, cleaner, changes,
                 history>>

\* A statement fails, and the sockets are left to the cleaner.
DestroyFails(k) ==
  /\ logout[k] = "acls" /\ Fault
  /\ logout' = [logout EXCEPT ![k] = "no"]
  /\ UNCHANGED <<settings, now, database, login, socket, registered, events, cleaner, history>>

SocketsOf(K) == {s \in registered \intersect TokenSocket : socket[s].by \in K}

DestroySockets(k) ==
  /\ logout[k] = "sockets"
  /\ socket' = Terminated(SocketsOf({k}))
  /\ registered' = registered \ SocketsOf({k})
  /\ logout' = [logout EXCEPT ![k] = "no"]
  /\ UNCHANGED <<settings, now, database, login, events, cleaner, changes, history>>

----------------------------------------------------------------------------
(* Web sockets *)

\* handle_web_request: authenticate with a token, or with a key that is valid at that moment.
OpenSocket(s, by) ==
  /\ socket[s].pc = "new"
  /\ IF s \in TokenSocket
     THEN by \in Saved \intersect Given /\ ~IsExpired(by)
     ELSE by \in User
  /\ socket' = [socket EXCEPT ![s] = [pc |-> "opening", by |-> by]]
  /\ tokens' = IF s \in TokenSocket /\ prolong THEN [tokens EXCEPT ![by].t = now] ELSE tokens
  /\ Forget({s})
  /\ UNCHANGED <<settings, now, tokenAcls, login, logout, registered, events, cleaner, changes>>

\* register_websocket, or the insertion into WS_STANDALONE; the handler runs.
RegisterSocket(s) ==
  /\ socket[s].pc = "opening"
  /\ socket' = [socket EXCEPT ![s].pc = "open"]
  /\ registered' = registered \union {s}
  /\ UNCHANGED <<settings, now, database, login, logout, events, cleaner, changes, history>>

\* The client leaves or its buffer is full: ask_terminate.  The entry of a socket opened
\* with a token stays, unregister_websocket does not remove it.
EndSocket(s) ==
  /\ socket[s].pc = "open"
  /\ socket' = [socket EXCEPT ![s].pc = "closed"]
  /\ registered' = registered \ ({s} \intersect KeySocket)
  /\ UNCHANGED <<settings, now, database, login, logout, events, cleaner, changes, history>>

----------------------------------------------------------------------------
(* Cleaners *)

\* clear_tokens: idle tokens, then rows of tokens that are gone.
ClearIdleTokens ==
  /\ \E k \in Saved : IsExpired(k)
  /\ LET K == {k \in Saved : IsExpired(k)} IN tokens' = Delete(K) /\ Forget(K)
  /\ UNCHANGED <<settings, now, tokenAcls, login, logout, socket, registered, events, cleaner,
                 changes>>

ClearTokenAcls ==
  /\ \E r \in tokenAcls : r[1] \notin Saved
  /\ tokenAcls' = {r \in tokenAcls : r[1] \in Saved}
  /\ UNCHANGED <<settings, now, tokens, login, logout, socket, registered, events, cleaner,
                 changes, history>>

\* clear_token_websockets: the ids are loaded, then the registry is locked and searched.
\* A round that no socket can come into has no effect and is left out.
LoadTokenIds ==
  /\ cleaner = None /\ \E s \in TokenSocket : socket[s].pc # "closed" \/ s \in registered
  /\ cleaner' = Saved
  /\ UNCHANGED <<settings, now, database, login, logout, socket, registered, events, changes,
                 history>>

Dropped == {s \in registered \intersect TokenSocket : socket[s].by \notin cleaner}

ClearTokenWebsockets ==
  /\ cleaner # None
  /\ socket' = Terminated(Dropped)
  /\ registered' = registered \ Dropped
  /\ cleaner' = None
  /\ UNCHANGED <<settings, now, database, login, logout, events, changes, history>>

Tick ==
  /\ now < MaxTime /\ now' = now + 1
  /\ UNCHANGED <<settings, database, login, logout, socket, registered, events, cleaner, changes,
                 history>>

----------------------------------------------------------------------------
Next ==
  \/ \E e \in Event : Change(e) \/ HandleEvent(e)
  \/ \E c \in Client :
       \/ \E u \in User : Authenticate(c, u)
       \/ CheckConcurrent(c) \/ SaveAclFails(c)
       \/ \E k \in Token : SaveToken(c, k)
       \/ \E a \in Acl : SaveAcl(c, a)
  \/ \E k \in Token :
       GetToken(k) \/ DestroyToken(k) \/ DestroyAcls(k) \/ DestroyFails(k) \/ DestroySockets(k)
  \/ \E s \in Socket :
       \/ \E by \in Token \union User : OpenSocket(s, by)
       \/ RegisterSocket(s) \/ EndSocket(s)
  \/ ClearIdleTokens \/ ClearTokenAcls \/ LoadTokenIds \/ ClearTokenWebsockets \/ Tick

\* The cleaners come back at their intervals and the clock goes on.
Fairness == WF_vars(LoadTokenIds) /\ WF_vars(ClearTokenWebsockets)

Spec == Init /\ [][Next]_vars /\ Fairness

----------------------------------------------------------------------------
(* Revocation is complete: once the event of a changed account or list has *)
(* been handled, no session rests on it, neither a saved token nor an open *)
(* socket of a key, except those whose authentication the event overtook   *)
(* and those of a statement that failed (handle_frame of eapi.rs).         *)
Stands == {k \in stale : k \in Saved \/ (k \in KeySocket /\ socket[k].pc = "open")}
RevokedAreGone ==
  \A x \in Stands :
    x \in missed \/ \E e \in events : Rests(IF x \in Token THEN tokens[x].u ELSE socket[x].by, e)

(* Without concurrent sessions an account has one session, unless two      *)
(* logins of it were checked before either was saved (login of api.rs).    *)
OneSession ==
  Cardinality(Client) = 1 /\ ~concurrent =>
    \A u \in User \ Admin : Cardinality(Sessions(u)) <= 1

(* A web socket whose token is gone is closed, whoever deleted the token   *)
(* and even if it was registered later (clear_token_websockets).           *)
Lost(s) == socket[s].pc = "open" /\ socket[s].by \notin Saved
============================================================================
