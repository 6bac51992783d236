------------------------------- MODULE HmiApi -------------------------------
(***************************************************************************)
(* Calls of the HTTP API of the HMI service (svc/hmi/src/api.rs, aci.rs):  *)
(* authentication, the checks a method makes and their order, its effect,  *)
(* and the log of calls.                                                   *)
(*                                                                         *)
(* A method is the sequence of its steps up to its effect.  The session is *)
(* read once, when the call is authenticated; the steps of different calls *)
(* interleave, and a client that goes away cuts its call off.              *)
(***************************************************************************)
EXTENDS Naturals, Sequences, FiniteSets

CONSTANTS Caller,
          Key, MaxRecords, \* keys of user data, MAX_USER_DATA_RECORDS
          Settings,        \* the configurations to look at: [demo, filter, locks]
          Beside(_),       \* bound: the methods called while another call is in progress
          MaxCalls,        \* bound: calls, taken together
          None

----------------------------------------------------------------------------
(* Methods.  "log" records the request in the log of calls (requests of    *)
(* the levels debug and trace are not recorded), "parse" deserialises the  *)
(* parameters, "acl" asks the ACL, "write" the mode of the session,        *)
(* "filter" the macro that filters calls; the other steps are effects,     *)
(* named by their target.                                                  *)

\* Actions and variables
method_action == <<"parse", "log", "write", "acl", "filter", "item">>
method_run == method_action
method_action_toggle == method_action
method_action_kill == method_action
method_action_terminate == <<"parse", "log", "write", "filter", "read", "acl", "item">>
method_lvar_set == method_action
method_lvar_reset == method_action
method_lvar_clear == method_action
method_lvar_toggle == method_action
method_lvar_incr == method_action
method_lvar_decr == <<"parse", "log", "write", "filter", "acl", "item">>

\* Other services
method_bus_call == <<"write", "acl", "filter", "bus">>
method_x_call == <<"filter", "service">>

\* The account and the session of the caller
method_reset_user == <<"log", "demo", "token", "write", "parse", "account">>
method_set_password == <<"log", "demo", "token", "write", "parse", "read", "account">>
method_set_profile_field == <<"log", "demo", "token", "write", "parse", "account">>
method_get_profile_field == <<"token", "parse", "read">>
method_session_set_readonly == <<"parse", "token", "readonly">>
login_normal == <<"read", "normal">>

\* Data of users and files
method_user_data_get == <<"parse", "token", "read">>
method_user_data_set == <<"parse", "token", "begin", "count", "put">>
method_user_data_delete == <<"parse", "token", "delete">>
method_pvt_put == <<"parse", "log", "write", "filter", "acl", "file">>
method_pvt_unlink == method_pvt_put
method_pvt_get == <<"parse", "acl", "read">>
method_pvt_list == <<"parse", "read">>

\* Queries
method_test == <<"parse", "read">>
method_ping == <<"parse">>
method_item_state == method_test
method_item_check_access == method_ping
method_item_state_history == method_pvt_get
method_item_state_log == method_pvt_get
method_item_state_history_combined == method_pvt_get
method_action_result == <<"parse", "read", "acl">>
method_api_log_get == <<"parse", "acl", "read">>
method_log_get == <<"acl", "parse", "read">>
method_session_list_neighbors == method_test
method_llc_list == method_test
method_db_list == method_test
method_dobj_list == method_log_get
method_dobj_get_struct == method_log_get
method_dobj_get_struct_code == method_log_get

\* The methods that differ, as call dispatches them.
Method ==
  {method_action, method_run, method_action_toggle, method_action_kill, method_action_terminate,
   method_lvar_set, method_lvar_reset, method_lvar_clear, method_lvar_toggle, method_lvar_incr,
   method_lvar_decr, method_bus_call, method_x_call, method_reset_user, method_set_password,
   method_set_profile_field, method_get_profile_field, method_session_set_readonly, login_normal,
   method_user_data_get, method_user_data_set, method_user_data_delete, method_pvt_put,
   method_pvt_unlink, method_pvt_get, method_pvt_list, method_test, method_ping,
   method_item_state, method_item_check_access, method_item_state_history,
   method_item_state_log, method_item_state_history_combined, method_action_result,
   method_api_log_get, method_log_get, method_session_list_neighbors, method_llc_list,
   method_db_list, method_dobj_list, method_dobj_get_struct, method_dobj_get_struct_code}

----------------------------------------------------------------------------
VARIABLES set,      \* [demo, filter, locks]: demo mode, is there a filter, does the database lock
          session,  \* the session in the database: "normal", "readonly" or "gone"
          call,     \* [Caller -> the call in progress]
          row,      \* [Caller -> the row of its call in the log: none, open, ok or error]
          data,     \* keys of the data records of the user
          locked,   \* the transaction that has locked the table of user data
          calls     \* use of the bound

vars == <<set, session, call, row, data, locked, calls>>

NoCall == [steps |-> <<>>, pc |-> "idle", auth |-> None, mode |-> None, acl |-> FALSE,
           verdict |-> None, effect |-> None, seen |-> {}]

Init ==
  /\ set \in Settings
  /\ session = "normal"
  /\ call = [c \in Caller |-> NoCall] /\ row = [c \in Caller |-> "none"]
  /\ data = {} /\ locked = None
  /\ calls = 0

\* authenticate: the token is loaded with its mode, or the ACL of a key is fetched.  What
\* the ACL says of the object of the call is fixed here.  A login needs no session.
Authenticate(c, m, auth, allowed) ==
  /\ call[c].pc = "idle" /\ calls < MaxCalls /\ calls' = calls + 1
  /\ Beside(m) \/ \A d \in Caller : call[d].pc \in {"idle", "cut"}
  /\ m = login_normal => auth = "token"
  /\ auth = "token" /\ m # login_normal => session # "gone"
  /\ call' = [call EXCEPT ![c] = [NoCall EXCEPT
       !.steps = m, !.pc = "run", !.auth = auth, !.acl = allowed,
       !.mode = IF auth = "token" THEN session ELSE "normal"]]
  /\ row' = [row EXCEPT ![c] = "none"]
  /\ UNCHANGED <<set, session, data, locked>>

At(c, s) == call[c].pc = "run" /\ call[c].steps # <<>> /\ Head(call[c].steps) = s
Pass(c) == [call EXCEPT ![c].steps = Tail(@)]
Done(c, s) == [call EXCEPT ![c].steps = Tail(@), ![c].effect = s]
Fail(c) == [call EXCEPT ![c].pc = "failed"]
PassIf(c, ok) == call' = IF ok THEN Pass(c) ELSE Fail(c)
Stay == UNCHANGED <<set, session, row, data, locked, calls>>

Parse(c, ok) == At(c, "parse") /\ PassIf(c, ok) /\ Stay

\* log_request, api_log_insert
LogRequest(c) ==
  /\ At(c, "log")
  /\ row' = [row EXCEPT ![c] = "open"]
  /\ call' = Pass(c)
  /\ UNCHANGED <<set, session, data, locked, calls>>

DemoModeAbort(c) == At(c, "demo") /\ PassIf(c, ~set.demo) /\ Stay
NeedToken(c) == At(c, "token") /\ PassIf(c, call[c].auth = "token") /\ Stay

\* check_write: only a session may be read-only.
CheckWrite(c) == At(c, "write") /\ PassIf(c, call[c].mode # "readonly") /\ Stay
CheckAcl(c) == At(c, "acl") /\ PassIf(c, call[c].acl) /\ Stay

\* run_api_filter: the macro lets the call pass, denies it, or does not end in time.
RunFilter(c, verdict) ==
  /\ At(c, "filter")
  /\ call' = IF ~set.filter THEN Pass(c)
             ELSE [(IF verdict = "allow" THEN Pass(c) ELSE Fail(c)) EXCEPT ![c].verdict = verdict]
  /\ Stay

\* Calls to other services that change nothing here.
Read(c, ok) == At(c, "read") /\ PassIf(c, ok) /\ Stay

\* Calls to the core, to a service, to an authentication service, or files.
Effect(c, s) ==
  /\ s \in {"item", "bus", "service", "account", "file"} /\ At(c, s)
  /\ call' \in {Done(c, s), Fail(c)}
  /\ Stay

\* set_readonly; and set_normal, when somebody logs in anew with the token.
SetMode(c) ==
  /\ At(c, "readonly") \/ At(c, "normal")
  /\ IF session = "gone" /\ At(c, "normal") THEN call' = Fail(c) /\ UNCHANGED session
     ELSE /\ session' = IF session = "gone" THEN session ELSE Head(call[c].steps)
          /\ call' = Done(c, Head(call[c].steps))
  /\ UNCHANGED <<set, row, data, locked, calls>>

\* set_user_data: a transaction, with a lock of the table where the database needs one
\* (PostgreSQL); elsewhere (SQLite) a transaction cannot write after another one has
\* written what it has read.
Begin(c) ==
  /\ At(c, "begin")
  /\ set.locks => locked = None
  /\ locked' = IF set.locks THEN c ELSE locked
  /\ call' = Pass(c)
  /\ UNCHANGED <<set, session, row, data, calls>>

Unlock(c) == IF locked = c THEN None ELSE locked
CountOk == Cardinality(data) < MaxRecords

Count(c) ==
  /\ At(c, "count")
  /\ call' = IF CountOk THEN [Pass(c) EXCEPT ![c].seen = data] ELSE Fail(c)
  /\ locked' = IF CountOk THEN locked ELSE Unlock(c)
  /\ UNCHANGED <<set, session, row, data, calls>>

MayWrite(c) == set.locks \/ call[c].seen = data

Put(c, k) ==
  /\ At(c, "put")
  /\ IF MayWrite(c) THEN data' = data \union {k} /\ call' = Done(c, "data")
     ELSE UNCHANGED data /\ call' = Fail(c)
  /\ locked' = Unlock(c)
  /\ UNCHANGED <<set, session, row, calls>>

\* An ordinary DELETE: a lock in share update exclusive mode does not keep it out.
DeleteData(c, k) ==
  /\ At(c, "delete")
  /\ data' = data \ {k} /\ call' = Done(c, "data")
  /\ UNCHANGED <<set, session, row, locked, calls>>

\* The end of call: log_success, log_error.  The row is updated where there is one.
Finish(c) ==
  /\ call[c].pc = "failed" \/ (call[c].pc = "run" /\ call[c].steps = <<>>)
  /\ row' = [row EXCEPT ![c] = IF @ = "none" THEN @
                               ELSE IF call[c].pc = "failed" THEN "error" ELSE "ok"]
  /\ call' = [call EXCEPT ![c] = NoCall]
  /\ UNCHANGED <<set, session, data, locked, calls>>

\* The client goes away and the future of its call is dropped.
Cancel(c) ==
  /\ call[c].pc = "run"
  /\ call' = [call EXCEPT ![c] = [NoCall EXCEPT !.pc = "cut"]]
  /\ locked' = Unlock(c)
  /\ UNCHANGED <<set, session, row, data, calls>>

\* The session ends: logout, expiration, or a changed account (module HmiSessions).
EndSession ==
  /\ session # "gone" /\ session' = "gone"
  /\ UNCHANGED <<set, call, row, data, locked, calls>>

Step(c) ==
  \/ \E ok \in BOOLEAN : Parse(c, ok) \/ Read(c, ok)
  \/ LogRequest(c) \/ DemoModeAbort(c) \/ NeedToken(c) \/ CheckWrite(c) \/ CheckAcl(c)
  \/ \E v \in {"allow", "deny", "timeout"} : RunFilter(c, v)
  \/ \E s \in {"item", "bus", "service", "account", "file"} : Effect(c, s)
  \/ SetMode(c) \/ Begin(c) \/ Count(c)
  \/ \E k \in Key : Put(c, k) \/ DeleteData(c, k)
  \/ Finish(c)

Next ==
  \/ \E c \in Caller :
       \/ \E m \in Method, auth \in {"token", "key"}, allowed \in BOOLEAN :
            Authenticate(c, m, auth, allowed)
       \/ Step(c) \/ Cancel(c)
  \/ EndSession

Spec == Init /\ [][Next]_vars /\ \A c \in Caller : WF_vars(Step(c))

----------------------------------------------------------------------------
(* No call changes anything its caller may not change: items, services and *)
(* files only with a writable session, an ACL that allows it and the       *)
(* consent of the filter; accounts only with a writable session and never  *)
(* in demo mode; data of a user only with a session.  This holds for the   *)
(* session as it was when the call was authenticated (the note at          *)
(* processor of api.rs).                                                   *)
Filtered(c) == set.filter => call[c].verdict = "allow"
ChangesAllowed ==
  \A c \in Caller :
    /\ call[c].effect \in {"item", "bus", "file"} =>
         call[c].mode # "readonly" /\ call[c].acl /\ Filtered(c)
    /\ call[c].effect = "service" => Filtered(c)
    /\ call[c].effect = "account" =>
         call[c].auth = "token" /\ call[c].mode # "readonly" /\ ~set.demo
    /\ call[c].effect \in {"data", "readonly"} => call[c].auth = "token"

(* A recorded call gets its outcome, unless its client cuts it off         *)
(* (log_success and log_error at the end of call).                         *)
Accounted == \A c \in Caller : row[c] = "open" => call[c].pc = "cut"

(* A user never has more data records than allowed, although the count and *)
(* the insertion are two statements (set_user_data of db.rs).              *)
UserDataBounded == Cardinality(data) <= MaxRecords
============================================================================
