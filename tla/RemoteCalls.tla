----------------------------- MODULE RemoteCalls -----------------------------
(***************************************************************************)
(* Calls of one node's replication service to another node's               *)
(* (svc/repl: eapi.rs, pubsub.rs, aaa.rs) by the RPC over pub/sub of       *)
(* psrpc/src/lib.rs.  A request is published to the target's topic, the    *)
(* reply to the caller's; CallMap pairs them by the id of the call.  The   *)
(* broker may deliver a message twice; one that nobody takes is lost.      *)
(*                                                                         *)
(* Both sides know one API key by its id.  The value of the key and the    *)
(* ACL behind it are asked of the key service once and cached; an event    *)
(* of the key service removes the cached value.  Key and ACL values are    *)
(* numbered by their changes; Acls[n] is what ACL n allows.                *)
(***************************************************************************)
EXTENDS Naturals, Sequences, FiniteSets

CONSTANTS
    CallId,     \* calls, each with an id of its own
    Acls,       \* the methods allowed by the ACL's first, second, ... version
    Nodes,      \* the targets explored: [api, admin, online, server, methods]; api, admin and
                \* online are what the caller knows of it, server its own setting, methods
                \* of "ping", "item" (actions, lvar.*), "result", "rpvt" and "bus" those called
    MaxDisturbances,  \* bound: changes of keys and ACLs, and messages delivered once more
    NoValue

VARIABLES
    node,       \* one of Nodes, chosen once
    call,       \* per call: [pc, method, key]
    calls,      \* CallMap: the calls whose reply is awaited
    wire,       \* messages on their way
    tasks,      \* handle_call tasks of the target: [c, method, sent, n, pc, key, acl]
    served,     \* per call: tasks spawned so far
    key,        \* per side: the version of the key its key service has
    acl,        \* the version of the ACL at the target
    events,     \* per kind: events of the key services not yet handled
    keys,       \* per side: KEYS and ENC_OPTS, the cached version or NoValue
    acls,       \* ACLS of the target
    executed,   \* calls executed on the target, per call the times
    answer,     \* per call: "none", "ok", "refused", "error" or "timeout"
    changes, copies,
    crossed     \* an event was handled while an answer of the key service was
                \* on its way into the cache

callsVars == <<node, call, calls, wire, tasks, served, key, acl, events, keys, acls,
          executed, answer, changes, copies, crossed>>

Side == {"caller", "target"}

KeyEvent == {"caller key", "target key", "target acl"}

CallsInit ==
    /\ node \in Nodes
    /\ call = [c \in CallId |-> [pc |-> "idle", method |-> NoValue, key |-> NoValue]]
    /\ calls = {} /\ wire = {} /\ tasks = {} /\ served = [c \in CallId |-> 0]
    /\ key = [s \in Side |-> 1] /\ acl = 1
    /\ events = [k \in KeyEvent |-> 0]
    /\ keys = [s \in Side |-> NoValue] /\ acls = NoValue
    /\ executed = [c \in CallId |-> 0]
    /\ answer = [c \in CallId |-> "none"]
    /\ changes = 0 /\ copies = 0
    /\ crossed = FALSE

targetVars == <<tasks, served, acls, executed>>

keyVars == <<key, acl, events, changes, copies, crossed>>

(***************************************************************************)
(* The caller: call_remote_method and RpcClient::call                      *)
(***************************************************************************)

\* node.test and node.mtest call a node taken for offline too
AllowOffline(m) == m = "ping"

\* bus:: methods use the node's admin key
Refused(m) == ~node.api \/ (m = "bus" /\ ~node.admin) \/ (~node.online /\ ~AllowOffline(m))

call_remote_method(c, m) ==
    /\ call[c].pc = "idle" /\ m \in node.methods
    /\ IF Refused(m)
       THEN /\ call' = [call EXCEPT ![c] = [pc |-> "done", method |-> m, key |-> NoValue]]
            /\ answer' = [answer EXCEPT ![c] = "error"]
       ELSE /\ call' = [call EXCEPT ![c] = [pc |-> "opts", method |-> m, key |-> NoValue]]
            /\ UNCHANGED answer
    /\ UNCHANGED <<node, calls, wire, targetVars, keyVars, keys>>

CallEnds(c, result) ==
    /\ call' = [call EXCEPT ![c].pc = "done"]
    /\ answer' = [answer EXCEPT ![c] = result]

\* get_enc_opts: the cached options, or the answer of the key service
get_enc_opts(c) ==
    /\ call[c].pc = "opts"
    /\ call' = [call EXCEPT ![c] = IF keys["caller"] # NoValue
                                   THEN [@ EXCEPT !.pc = "publish", !.key = keys["caller"]]
                                   ELSE [@ EXCEPT !.pc = "fetched", !.key = key["caller"]]]
    /\ UNCHANGED <<node, calls, wire, targetVars, keyVars, keys, answer>>

CacheOpts(c) ==
    /\ call[c].pc = "fetched"
    /\ keys' = [keys EXCEPT !["caller"] = call[c].key]
    /\ call' = [call EXCEPT ![c].pc = "publish"]
    /\ UNCHANGED <<node, calls, wire, targetVars, keyVars, answer>>

RequestOf(c) == [to |-> "target", c |-> c, method |-> call[c].method, key |-> call[c].key]

Publish(c) ==
    /\ call[c].pc = "publish"
    /\ wire' = wire \union {RequestOf(c)}
    /\ calls' = calls \union {c}
    /\ call' = [call EXCEPT ![c].pc = "wait"]
    /\ UNCHANGED <<node, targetVars, keyVars, keys, answer>>

\* the key service or the broker does not answer; the message may be out
CallFails(c) ==
    /\ call[c].pc \in {"opts", "publish"}
    /\ wire' \in {wire} \union
         {wire \union {RequestOf(d)} : d \in {c} \intersect {x \in CallId : call[x].pc = "publish"}}
    /\ CallEnds(c, "error")
    /\ UNCHANGED <<node, calls, targetVars, keyVars, keys>>

\* tokio::time::timeout drops the future: the entry in CallMap stays
CallTimesOut(c) ==
    /\ call[c].pc = "wait"
    /\ CallEnds(c, "timeout")
    /\ UNCHANGED <<node, calls, wire, targetVars, keyVars, keys>>

\* a message is taken from the broker, which may deliver it again
TakeMessage(msg) ==
    \/ wire' = wire \ {msg} /\ UNCHANGED copies
    \/ changes + copies < MaxDisturbances /\ copies' = copies + 1 /\ UNCHANGED wire

\* Faulty variant of TakeReply: the reply is found by the target, not by the call.
TakeReplyAny ==
    \E msg \in {x \in wire : x.to = "caller"} :
        /\ TakeMessage(msg)
        /\ IF calls # {}
           THEN LET c == CHOOSE d \in calls : TRUE IN
                /\ calls' = calls \ {c}
                /\ IF call[c].pc = "wait" THEN CallEnds(c, msg.result) ELSE UNCHANGED <<call, answer>>
           ELSE UNCHANGED <<calls, call, answer>>
        /\ UNCHANGED <<node, targetVars, key, acl, events, changes, crossed, keys>>

\* the caller's processor: an orphaned reply is dropped
TakeReply ==
    \E msg \in {x \in wire : x.to = "caller"} :
        /\ TakeMessage(msg)
        /\ calls' = calls \ {msg.c}
        /\ IF msg.c \in calls /\ call[msg.c].pc = "wait"
           THEN CallEnds(msg.c, msg.result)
           ELSE UNCHANGED <<call, answer>>
        /\ UNCHANGED <<node, targetVars, key, acl, events, changes, crossed, keys>>

(***************************************************************************)
(* The target: processor and handle_call of psrpc, PubSubHandlers of repl  *)
(***************************************************************************)

TakeRequest ==
    \E msg \in {x \in wire : x.to = "target"} :
        /\ TakeMessage(msg)
        /\ served' = [served EXCEPT ![msg.c] = @ + 1]
        /\ tasks' = tasks \union {[c |-> msg.c, method |-> msg.method, sent |-> msg.key, n |-> served[msg.c],
                                   pc |-> "key", key |-> NoValue, acl |-> NoValue]}
        /\ UNCHANGED <<node, call, calls, key, acl, events, changes, crossed, keys, acls, executed, answer>>

Goes(t, u) == tasks' = (tasks \ {t}) \union {u}

callerVars == <<node, call, calls, answer>>

\* get_key: the cached value, or the answer of the key service
get_key(t) ==
    /\ t.pc = "key"
    /\ Goes(t, IF keys["target"] # NoValue THEN [t EXCEPT !.pc = "unpack", !.key = keys["target"]]
                                        ELSE [t EXCEPT !.pc = "gotkey", !.key = key["target"]])
    /\ UNCHANGED <<callerVars, wire, keyVars, served, keys, acls, executed>>

CacheKey(t) ==
    /\ t.pc = "gotkey"
    /\ keys' = [keys EXCEPT !["target"] = t.key]
    /\ Goes(t, [t EXCEPT !.pc = "unpack"])
    /\ UNCHANGED <<callerVars, wire, keyVars, served, acls, executed>>

Reply(t, result) ==
    /\ tasks' = tasks \ {t}
    /\ wire' = wire \union {[to |-> "caller", c |-> t.c, result |-> result, key |-> t.key]}

\* a payload of another key cannot be read: no reply.  A target without the
\* API refuses; a ping is answered at once
Unpack(t) ==
    /\ t.pc = "unpack"
    /\ IF t.sent # t.key THEN tasks' = tasks \ {t} /\ UNCHANGED wire
       ELSE IF ~node.server THEN Reply(t, "refused")
       ELSE IF t.method = "ping" THEN Reply(t, "ok")
       ELSE Goes(t, [t EXCEPT !.pc = "acl"]) /\ UNCHANGED wire
    /\ UNCHANGED <<callerVars, keyVars, served, keys, acls, executed>>

\* get_acl: auth.key knows the present key only
get_acl(t) ==
    /\ t.pc = "acl"
    /\ IF acls # NoValue THEN Goes(t, [t EXCEPT !.pc = "check", !.acl = acls]) /\ UNCHANGED wire
       ELSE IF t.key = key["target"] THEN Goes(t, [t EXCEPT !.pc = "gotacl", !.acl = acl]) /\ UNCHANGED wire
       ELSE Reply(t, "refused")
    /\ UNCHANGED <<callerVars, keyVars, served, keys, acls, executed>>

CacheAcl(t) ==
    /\ t.pc = "gotacl"
    /\ acls' = t.acl
    /\ Goes(t, [t EXCEPT !.pc = "check"])
    /\ UNCHANGED <<callerVars, wire, keyVars, served, keys, executed>>

Execute(t) ==
    /\ executed' = [executed EXCEPT ![t.c] = @ + 1]
    /\ \/ Reply(t, "ok") \/ Reply(t, "error")

\* the method: what the ACL does not allow is refused before the core is
\* called; action.result, which changes nothing, is read before
handle_call(t) ==
    /\ t.pc = "check"
    /\ IF t.method \in Acls[t.acl]
       THEN Execute(t)
       ELSE Reply(t, "refused") /\ UNCHANGED executed
    /\ UNCHANGED <<callerVars, keyVars, served, keys, acls>>

(***************************************************************************)
(* Key services and the broker                                             *)
(***************************************************************************)
Changes(k) ==
    /\ changes + copies < MaxDisturbances
    /\ changes' = changes + 1
    /\ events' = [events EXCEPT ![k] = @ + 1]
    /\ CASE k = "caller key" -> key' = [key EXCEPT !["caller"] = @ + 1] /\ UNCHANGED acl
         [] k = "target key" -> key' = [key EXCEPT !["target"] = @ + 1] /\ UNCHANGED acl
         [] OTHER            -> acl < Len(Acls) /\ acl' = acl + 1 /\ UNCHANGED key
    /\ UNCHANGED <<node, call, calls, wire, targetVars, keys, answer, copies, crossed>>

\* Faulty variant of handle_frame: the ACLs of a changed key stay cached.
HandleFrameKeepsAcls(k) ==
    /\ events[k] > 0
    /\ events' = [events EXCEPT ![k] = @ - 1]
    /\ keys' = CASE k = "caller key" -> [keys EXCEPT !["caller"] = NoValue]
                 [] k = "target key" -> [keys EXCEPT !["target"] = NoValue]
                 [] OTHER            -> keys
    /\ acls' = acls
    /\ crossed' = (crossed \/ (\E c \in CallId : call[c].pc = "fetched")
                           \/ (\E t \in tasks : t.pc \in {"gotkey", "gotacl"}))
    /\ UNCHANGED <<node, call, calls, wire, tasks, served, key, acl, executed, answer, changes, copies>>

\* AAA_KEY_TOPIC removes key, options and ACL, AAA_ACL_TOPIC the ACL
handle_frame(k) ==
    /\ events[k] > 0
    /\ events' = [events EXCEPT ![k] = @ - 1]
    /\ keys' = CASE k = "caller key" -> [keys EXCEPT !["caller"] = NoValue]
                 [] k = "target key" -> [keys EXCEPT !["target"] = NoValue]
                 [] OTHER            -> keys
    /\ acls' = IF k = "caller key" THEN acls ELSE NoValue
    /\ crossed' = (crossed \/ (\E c \in CallId : call[c].pc = "fetched")
                           \/ (\E t \in tasks : t.pc \in {"gotkey", "gotacl"}))
    /\ UNCHANGED <<node, call, calls, wire, tasks, served, key, acl, executed, answer, changes, copies>>

TaskStep(t) ==
    \/ get_key(t) \/ CacheKey(t) \/ Unpack(t) \/ get_acl(t) \/ CacheAcl(t) \/ handle_call(t)

CallStep(c) ==
    \/ get_enc_opts(c) \/ CacheOpts(c) \/ Publish(c) \/ CallFails(c) \/ CallTimesOut(c)

CallsNext ==
    \/ \E c \in CallId : \E m \in node.methods : call_remote_method(c, m)
    \/ \E c \in CallId : CallStep(c)
    \/ TakeReply
    \/ TakeRequest
    \/ \E t \in tasks : TaskStep(t)
    \/ \E k \in KeyEvent : Changes(k)
    \/ \E k \in KeyEvent : handle_frame(k)

\* a call goes on by an answer or by its timeout
CallsFairness == \A c \in CallId : WF_callsVars(CallStep(c))

CallsSpec == CallsInit /\ [][CallsNext]_callsVars /\ CallsFairness

(***************************************************************************)
(* An answer is the answer to this call: "ok" only for what the target     *)
(* executed, or for a ping; "refused" never for what it executed when no   *)
(* message came twice; and without duplicates nothing is executed twice,   *)
(* whichever replies were late, lost or overtaken and whichever keys and   *)
(* ACLs changed meanwhile.                                                 *)
(***************************************************************************)
AnswersBelong ==
    \A c \in CallId :
        /\ answer[c] = "ok" /\ call[c].method # "ping" => executed[c] > 0
        /\ copies = 0 => executed[c] <= 1
        /\ copies = 0 /\ executed[c] > 0 => answer[c] # "refused"

(***************************************************************************)
(* The caches follow the key service: once its events are handled, what is *)
(* cached is what the service has, unless one of them was handled while an *)
(* answer given before the change was on its way into the cache.           *)
(***************************************************************************)
CachesFollow ==
    ~crossed =>
        /\ keys["caller"] \notin {NoValue, key["caller"]} => events["caller key"] > 0
        /\ keys["target"] \notin {NoValue, key["target"]} => events["target key"] > 0
        /\ acls \notin {NoValue, acl} => events["target acl"] > 0 \/ events["target key"] > 0

(***************************************************************************)
(* Every call ends, with an answer or by its timeout, whatever was lost.   *)
(***************************************************************************)
CallsEnded == \A c \in CallId : call[c].pc # "idle" => answer[c] # "none"

=============================================================================
