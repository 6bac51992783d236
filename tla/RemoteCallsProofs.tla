------------------------- MODULE RemoteCallsProofs -------------------------
(***************************************************************************)
(* Proofs about the calls of a remote node (module RemoteCalls), for any   *)
(* constants: what the caches of keys and access lists hold, and what an   *)
(* answer says of the request it answers.                                  *)
(***************************************************************************)
EXTENDS RemoteCalls, TLAPS

\* The types of the messages, of the calls and of the tasks that serve them
Method == (UNION {n.methods : n \in Nodes}) \union {NoValue}
KeyVersion == Nat \union {NoValue}
Asked ==
  [pc : {"idle", "opts", "fetched", "publish", "wait", "done"}, method : Method, key : KeyVersion]
Requests == [to : {"target"}, c : CallId, method : Method, key : KeyVersion]
Replies == [to : {"caller"}, c : CallId, result : {"ok", "refused", "error"}, key : KeyVersion]
Serving ==
  [c : CallId, method : Method, sent : KeyVersion, n : Nat,
   pc : {"key", "gotkey", "unpack", "acl", "gotacl", "check"}, key : KeyVersion, acl : KeyVersion]
CallsType ==
  /\ node \in Nodes
  /\ call \in [CallId -> Asked]
  /\ wire \in SUBSET (Requests \union Replies)
  /\ tasks \in SUBSET Serving
  /\ served \in [CallId -> Nat] /\ executed \in [CallId -> Nat]
  /\ key \in [Side -> Nat] /\ acl \in Nat
  /\ events \in [KeyEvent -> Nat]
  /\ keys \in [Side -> KeyVersion] /\ acls \in KeyVersion
  /\ DOMAIN answer = CallId
  /\ copies \in Nat

LEMMA InitCalls == CallsInit => CallsType
<1> SUFFICES ASSUME CallsInit PROVE CallsType
  OBVIOUS
<1>1. call \in [CallId -> Asked]
  BY DEF CallsInit, Asked, KeyVersion, Method
<1>2. keys \in [Side -> KeyVersion] /\ acls \in KeyVersion
  BY DEF CallsInit, KeyVersion
<1>3. events \in [KeyEvent -> Nat] /\ key \in [Side -> Nat]
  BY DEF CallsInit
<1>4. served \in [CallId -> Nat] /\ executed \in [CallId -> Nat] /\ DOMAIN answer = CallId
  BY DEF CallsInit
<1>5. QED
  BY <1>1, <1>2, <1>3, <1>4 DEF CallsInit, CallsType

\* Messages, once taken, leave others of the same types.
LEMMA TakeType ==
  ASSUME CallsType, NEW m \in wire, TakeMessage(m)
  PROVE  wire' \in SUBSET (Requests \union Replies) /\ copies' \in Nat
BY DEF CallsType, TakeMessage

\* A task that goes on, and one that replies
LEMMA GoesType ==
  ASSUME CallsType, NEW t \in tasks, NEW u \in Serving, Goes(t, u)
  PROVE  tasks' \in SUBSET Serving
BY DEF CallsType, Goes

LEMMA ReplyType ==
  ASSUME CallsType, NEW t \in tasks, NEW r \in {"ok", "refused", "error"}, Reply(t, r)
  PROVE  tasks' \in SUBSET Serving /\ wire' \in SUBSET (Requests \union Replies)
<1>1. [to |-> "caller", c |-> t.c, result |-> r, key |-> t.key] \in Replies
  BY DEF CallsType, Serving, Replies
<1>2. QED
  BY <1>1 DEF CallsType, Reply

\* The steps of a call keep the types.
LEMMA CallType ==
  ASSUME CallsType, NEW c \in CallId,
         (\E m \in node.methods : call_remote_method(c, m)) \/ CallStep(c)
  PROVE  CallsType'
<1> USE DEF CallsType
<1>0. call[c] \in Asked /\ RequestOf(c) \in Requests
  BY DEF Asked, Requests, RequestOf
<1>1. ASSUME NEW m \in node.methods, call_remote_method(c, m) PROVE CallsType'
  <2>1. m \in Method
    BY <1>1 DEF Method
  <2>2. call' \in [CallId -> Asked] /\ DOMAIN answer' = CallId
    BY <1>1, <2>1 DEF call_remote_method, Asked, KeyVersion
  <2>3. QED
    BY <1>1, <2>2 DEF call_remote_method, targetVars, keyVars
<1>2. CASE get_enc_opts(c)
  <2>1. PICK r : /\ r \in {[call[c] EXCEPT !.pc = "publish", !.key = keys["caller"]],
                           [call[c] EXCEPT !.pc = "fetched", !.key = key["caller"]]}
                 /\ call' = [call EXCEPT ![c] = r]
    BY <1>2 DEF get_enc_opts
  <2>2. keys["caller"] \in KeyVersion /\ key["caller"] \in KeyVersion
    BY DEF Side, KeyVersion
  <2>3. r \in Asked
    BY <1>0, <2>1, <2>2 DEF Asked
  <2>4. QED
    BY <1>2, <2>1, <2>3 DEF get_enc_opts, targetVars, keyVars
<1>3. CASE CacheOpts(c)
  <2>1. call' \in [CallId -> Asked] /\ keys' \in [Side -> KeyVersion]
    BY <1>0, <1>3 DEF CacheOpts, Asked
  <2>2. QED
    BY <1>3, <2>1 DEF CacheOpts, targetVars, keyVars
<1>4. CASE Publish(c)
  <2>1. call' \in [CallId -> Asked] /\ wire' \in SUBSET (Requests \union Replies)
    BY <1>0, <1>4 DEF Publish, Asked
  <2>2. QED
    BY <1>4, <2>1 DEF Publish, targetVars, keyVars
<1>5. CASE CallFails(c)
  <2>1. wire' = wire \/ wire' = wire \union {RequestOf(c)}
    BY <1>5 DEF CallFails
  <2>2. call' \in [CallId -> Asked] /\ DOMAIN answer' = CallId
    BY <1>0, <1>5 DEF CallFails, CallEnds, Asked
  <2>3. QED
    BY <1>0, <1>5, <2>1, <2>2 DEF CallFails, targetVars, keyVars
<1>6. CASE CallTimesOut(c)
  <2>1. call' \in [CallId -> Asked] /\ DOMAIN answer' = CallId
    BY <1>0, <1>6 DEF CallTimesOut, CallEnds, Asked
  <2>2. QED
    BY <1>6, <2>1 DEF CallTimesOut, targetVars, keyVars
<1>7. QED
  BY <1>1, <1>2, <1>3, <1>4, <1>5, <1>6 DEF CallStep

\* The steps of a task keep them.
LEMMA TaskType ==
  ASSUME CallsType, NEW t \in tasks, TaskStep(t)
  PROVE  CallsType'
<1>0. /\ t \in Serving /\ keys["target"] \in KeyVersion /\ key["target"] \in KeyVersion
      /\ acl \in KeyVersion /\ acls \in KeyVersion
  BY DEF CallsType, Side, KeyVersion
<1>1. ASSUME NEW u \in Serving, Goes(t, u),
             UNCHANGED <<node, call, wire, served, executed, key, acl, events, answer, copies>>,
             keys' \in [Side -> KeyVersion], acls' \in KeyVersion
      PROVE  CallsType'
  BY <1>1, GoesType DEF CallsType
<1>2. ASSUME NEW r \in {"ok", "refused", "error"}, Reply(t, r),
             UNCHANGED <<node, call, served, key, acl, events, keys, acls, answer, copies>>,
             executed' \in [CallId -> Nat]
      PROVE  CallsType'
  BY <1>2, ReplyType DEF CallsType
<1>3. CASE get_key(t)
  <2>1. PICK u : /\ u \in {[t EXCEPT !.pc = "unpack", !.key = keys["target"]],
                           [t EXCEPT !.pc = "gotkey", !.key = key["target"]]}
                 /\ Goes(t, u)
    BY <1>3 DEF get_key
  <2>2. u \in Serving
    BY <1>0, <2>1 DEF Serving
  <2>3. QED
    BY <1>1, <1>3, <2>1, <2>2 DEF get_key, callerVars, keyVars, CallsType
<1>4. CASE CacheKey(t)
  <2>1. [t EXCEPT !.pc = "unpack"] \in Serving /\ t.key \in KeyVersion
    BY <1>0 DEF Serving
  <2>2. keys' \in [Side -> KeyVersion]
    BY <1>4, <2>1 DEF CacheKey, CallsType
  <2>3. QED
    BY <1>1, <1>4, <2>1, <2>2 DEF CacheKey, callerVars, keyVars, CallsType
<1>5. CASE Unpack(t)
  <2>1. [t EXCEPT !.pc = "acl"] \in Serving
    BY <1>0 DEF Serving
  <2>2. CASE tasks' = tasks \ {t} /\ UNCHANGED wire
    BY <1>5, <2>2 DEF Unpack, callerVars, keyVars, CallsType
  <2>3. QED
    BY <1>1, <1>2, <1>5, <2>1, <2>2 DEF Unpack, callerVars, keyVars, CallsType
<1>6. CASE get_acl(t)
  <2>1. /\ [t EXCEPT !.pc = "check", !.acl = acls] \in Serving
        /\ [t EXCEPT !.pc = "gotacl", !.acl = acl] \in Serving
    BY <1>0 DEF Serving
  <2>2. QED
    BY <1>1, <1>2, <1>6, <2>1 DEF get_acl, callerVars, keyVars, CallsType
<1>7. CASE CacheAcl(t)
  <2>1. [t EXCEPT !.pc = "check"] \in Serving /\ t.acl \in KeyVersion
    BY <1>0 DEF Serving
  <2>2. QED
    BY <1>1, <1>7, <2>1 DEF CacheAcl, callerVars, keyVars, CallsType
<1>8. CASE handle_call(t)
  <2>1. t.c \in CallId
    BY <1>0 DEF Serving
  <2>2. executed' \in [CallId -> Nat]
    BY <1>8, <2>1 DEF handle_call, Execute, CallsType
  <2>3. QED
    BY <1>2, <1>8, <2>2 DEF handle_call, Execute, callerVars, keyVars, CallsType
<1>9. QED
  BY <1>3, <1>4, <1>5, <1>6, <1>7, <1>8 DEF TaskStep

\* Every step keeps the types.
LEMMA StepCalls ==
  ASSUME CallsType, CallsNext \/ UNCHANGED callsVars
  PROVE  CallsType'
<1>1. CASE TakeReply
  <2>1. PICK m \in wire : /\ m.to = "caller" /\ TakeMessage(m)
                          /\ (UNCHANGED <<call, answer>> \/ CallEnds(m.c, m.result))
    BY <1>1 DEF TakeReply
  <2>2. m.c \in CallId
    BY <2>1 DEF CallsType, Requests, Replies
  <2>3. call' \in [CallId -> Asked] /\ DOMAIN answer' = CallId
    <3>1. call[m.c] \in Asked
      BY <2>2 DEF CallsType
    <3>2. CASE CallEnds(m.c, m.result)
      BY <2>2, <3>1, <3>2 DEF CallsType, CallEnds, Asked
    <3>3. QED
      BY <2>1, <3>2 DEF CallsType
  <2>4. QED
    BY <1>1, <2>1, <2>3, TakeType DEF TakeReply, CallsType, targetVars
<1>2. CASE TakeRequest
  <2>1. PICK m \in wire :
          /\ m.to = "target" /\ TakeMessage(m)
          /\ served' = [served EXCEPT ![m.c] = @ + 1]
          /\ tasks' = tasks \union {[c |-> m.c, method |-> m.method, sent |-> m.key, n |-> served[m.c],
                                     pc |-> "key", key |-> NoValue, acl |-> NoValue]}
    BY <1>2 DEF TakeRequest
  <2>2. m \in Requests
    BY <2>1 DEF CallsType, Replies
  <2>3. m.c \in CallId /\ m.method \in Method /\ m.key \in KeyVersion
    BY <2>2 DEF Requests
  <2>4. served' \in [CallId -> Nat] /\ served[m.c] \in Nat
    BY <2>1, <2>3 DEF CallsType
  <2>5. tasks' \in SUBSET Serving
    BY <2>1, <2>3, <2>4 DEF CallsType, Serving, KeyVersion
  <2>6. QED
    BY <1>2, <2>1, <2>4, <2>5, TakeType DEF TakeRequest, CallsType
<1>3. ASSUME NEW k \in KeyEvent, Changes(k) PROVE CallsType'
  <2>0. /\ events' = [events EXCEPT ![k] = @ + 1]
        /\ \/ key' = [key EXCEPT !["caller"] = @ + 1] /\ acl' = acl
           \/ key' = [key EXCEPT !["target"] = @ + 1] /\ acl' = acl
           \/ key' = key /\ acl' = acl + 1
    BY <1>3 DEF Changes, KeyEvent
  <2>1. events' \in [KeyEvent -> Nat]
    BY <2>0 DEF CallsType
  <2>2. key' \in [Side -> Nat] /\ acl' \in Nat
    BY <2>0 DEF CallsType, Side
  <2>3. QED
    BY <1>3, <2>1, <2>2 DEF Changes, CallsType, targetVars
<1>4. ASSUME NEW k \in KeyEvent, handle_frame(k) PROVE CallsType'
  <2>0. events[k] > 0 /\ events' = [events EXCEPT ![k] = @ - 1]
    BY <1>4 DEF handle_frame
  <2>1. events' \in [KeyEvent -> Nat]
    BY <2>0 DEF CallsType
  <2>2. keys' \in [Side -> KeyVersion] /\ acls' \in KeyVersion
    BY <1>4 DEF handle_frame, CallsType, KeyEvent, Side, KeyVersion
  <2>3. QED
    BY <1>4, <2>1, <2>2 DEF handle_frame, CallsType
<1>5. CASE UNCHANGED callsVars
  BY <1>5 DEF callsVars, CallsType
<1>6. QED
  BY <1>1, <1>2, <1>3, <1>4, <1>5, CallType, TaskType DEF CallsNext


\* CachesFollow made inductive: what a call or a task has fetched and not yet put into the
\* cache is present too, or the event of the change is still to be handled.
KeyFollows(v) == v = key["caller"] \/ events["caller key"] > 0
TargetFollows(v) == v = key["target"] \/ events["target key"] > 0
AclFollows(v) == v = acl \/ events["target acl"] > 0 \/ events["target key"] > 0
CacheInv ==
  ~crossed =>
    /\ keys["caller"] = NoValue \/ KeyFollows(keys["caller"])
    /\ \A c \in CallId : call[c].pc = "fetched" => KeyFollows(call[c].key)
    /\ keys["target"] = NoValue \/ TargetFollows(keys["target"])
    /\ \A t \in tasks : t.pc = "gotkey" => TargetFollows(t.key)
    /\ acls = NoValue \/ AclFollows(acls)
    /\ \A t \in tasks : t.pc = "gotacl" => AclFollows(t.acl)

\* A step of one call, and one of one task, that fetch or cache the present value
LEMMA CallCaches ==
  ASSUME CallsType, CacheInv, NEW c \in CallId,
         (\E m \in node.methods : call_remote_method(c, m)) \/ CallStep(c)
  PROVE  CacheInv'
<1>0. call[c] \in Asked /\ call[c] = [pc |-> call[c].pc, method |-> call[c].method, key |-> call[c].key]
  BY DEF CallsType, Asked
<1>1. UNCHANGED <<key, acl, events, acls, tasks, crossed>>
  BY DEF call_remote_method, CallStep, get_enc_opts, CacheOpts, Publish, CallFails,
         CallTimesOut, keyVars, targetVars
<1>2. ASSUME NEW r, call' = [call EXCEPT ![c] = r], keys' = keys, r.pc = "fetched" => r.key = key["caller"]
      PROVE  CacheInv'
  BY <1>1, <1>2 DEF CacheInv, CallsType, KeyFollows, TargetFollows, AclFollows
<1>3. ASSUME NEW m \in node.methods, call_remote_method(c, m) PROVE CacheInv'
  <2>1. PICK r : /\ r \in {[pc |-> "done", method |-> m, key |-> NoValue],
                           [pc |-> "opts", method |-> m, key |-> NoValue]}
                 /\ call' = [call EXCEPT ![c] = r]
    BY <1>3 DEF call_remote_method
  <2>2. QED
    BY <1>2, <1>3, <2>1 DEF call_remote_method
<1>4. CASE get_enc_opts(c)
  <2>1. PICK r : /\ r \in {[call[c] EXCEPT !.pc = "publish", !.key = keys["caller"]],
                           [call[c] EXCEPT !.pc = "fetched", !.key = key["caller"]]}
                 /\ call' = [call EXCEPT ![c] = r]
    BY <1>4 DEF get_enc_opts
  <2>2. r.pc = "fetched" => r.key = key["caller"]
    BY <1>0, <2>1 DEF Asked
  <2>3. QED
    BY <1>2, <1>4, <2>1, <2>2 DEF get_enc_opts
<1>5. CASE CacheOpts(c)
  <2>1. /\ call[c].pc = "fetched" /\ keys' = [keys EXCEPT !["caller"] = call[c].key]
        /\ call' = [call EXCEPT ![c] = [call[c] EXCEPT !.pc = "publish"]]
    BY <1>5 DEF CacheOpts
  <2>2. keys'["caller"] = call[c].key /\ keys'["target"] = keys["target"]
    BY <2>1 DEF CallsType, Side
  <2>3. \A d \in CallId : call'[d].pc = "fetched" => call'[d] = call[d]
    BY <1>0, <2>1 DEF CallsType
  <2>4. QED
    BY <1>1, <2>1, <2>2, <2>3 DEF CacheInv, KeyFollows, TargetFollows, AclFollows
<1>6. CASE Publish(c) \/ CallFails(c) \/ CallTimesOut(c)
  <2>1. PICK p \in {"wait", "done"} : call' = [call EXCEPT ![c] = [call[c] EXCEPT !.pc = p]]
    BY <1>6 DEF Publish, CallFails, CallTimesOut, CallEnds
  <2>2. [call[c] EXCEPT !.pc = p].pc = p
    BY <1>0
  <2>3. QED
    BY <1>2, <1>6, <2>1, <2>2 DEF Publish, CallFails, CallTimesOut
<1>7. QED
  BY <1>3, <1>4, <1>5, <1>6 DEF CallStep

LEMMA TaskCaches ==
  ASSUME CallsType, CacheInv, NEW t \in tasks, TaskStep(t)
  PROVE  CacheInv'
<1>0. t \in Serving
  BY DEF CallsType
<1>1. UNCHANGED <<key, acl, events, call, crossed>>
  BY DEF TaskStep, get_key, CacheKey, Unpack, get_acl, CacheAcl, handle_call,
         keyVars, callerVars
<1>2. ASSUME NEW u, tasks' = (tasks \ {t}) \union {u} \/ tasks' = tasks \ {t}, UNCHANGED <<keys, acls>>,
             u.pc = "gotkey" => u.key = key["target"], u.pc = "gotacl" => u.acl = acl
      PROVE  CacheInv'
  BY <1>1, <1>2 DEF CacheInv, KeyFollows, TargetFollows, AclFollows
<1>3. CASE tasks' = tasks \ {t} /\ UNCHANGED <<keys, acls>>
  BY <1>1, <1>3 DEF CacheInv, KeyFollows, TargetFollows, AclFollows
<1>4. CASE get_key(t)
  <2>1. PICK u : /\ u \in {[t EXCEPT !.pc = "unpack", !.key = keys["target"]],
                           [t EXCEPT !.pc = "gotkey", !.key = key["target"]]}
                 /\ Goes(t, u)
    BY <1>4 DEF get_key
  <2>2. u.pc # "gotacl" /\ (u.pc = "gotkey" => u.key = key["target"])
    BY <1>0, <2>1 DEF Serving
  <2>3. QED
    BY <1>2, <1>4, <2>1, <2>2 DEF get_key, Goes
<1>5. CASE CacheKey(t)
  <2>1. keys'["target"] = t.key /\ keys'["caller"] = keys["caller"] /\ acls' = acls /\ t.pc = "gotkey"
    BY <1>5 DEF CacheKey, CallsType, Side
  <2>2. \A u \in tasks' : u.pc \in {"gotkey", "gotacl"} => u \in tasks
    BY <1>0, <1>5 DEF CacheKey, Goes, Serving
  <2>3. QED
    BY <1>1, <2>1, <2>2 DEF CacheInv, KeyFollows, TargetFollows, AclFollows
<1>6. CASE Unpack(t)
  <2>1. [t EXCEPT !.pc = "acl"].pc = "acl"
    BY <1>0 DEF Serving
  <2>2. QED
    BY <1>2, <1>3, <1>6, <2>1 DEF Unpack, Goes, Reply
<1>7. CASE get_acl(t)
  <2>1. PICK a, b : a = [t EXCEPT !.pc = "check", !.acl = acls] /\ b = [t EXCEPT !.pc = "gotacl", !.acl = acl]
    OBVIOUS
  <2>2. a.pc = "check" /\ b.pc = "gotacl" /\ b.acl = acl
    BY <1>0, <2>1 DEF Serving
  <2>3. tasks' = (tasks \ {t}) \union {a} \/ tasks' = (tasks \ {t}) \union {b} \/ tasks' = tasks \ {t}
    BY <1>7, <2>1 DEF get_acl, Goes, Reply
  <2>4. UNCHANGED <<keys, acls>>
    BY <1>7 DEF get_acl
  <2>5. QED
    BY <1>2, <1>3, <2>2, <2>3, <2>4
<1>8. CASE CacheAcl(t)
  <2>1. acls' = t.acl /\ keys' = keys /\ t.pc = "gotacl"
    BY <1>8 DEF CacheAcl
  <2>2. \A u \in tasks' : u.pc \in {"gotkey", "gotacl"} => u \in tasks
    BY <1>0, <1>8 DEF CacheAcl, Goes, Serving
  <2>3. QED
    BY <1>1, <2>1, <2>2 DEF CacheInv, KeyFollows, TargetFollows, AclFollows
<1>9. CASE handle_call(t)
  BY <1>3, <1>9 DEF handle_call, Execute, Reply
<1>10. QED
  BY <1>4, <1>5, <1>6, <1>7, <1>8, <1>9 DEF TaskStep

\* Every step keeps CacheInv.
LEMMA StepCaches ==
  ASSUME CallsType, CacheInv, CallsNext \/ UNCHANGED callsVars
  PROVE  CacheInv'
<1>1. CASE TakeReply
  <2>1. UNCHANGED <<key, acl, events, keys, acls, tasks, crossed>>
    BY <1>1 DEF TakeReply, targetVars
  <2>2. PICK m \in wire : /\ m.to = "caller"
                          /\ (UNCHANGED call \/ call' = [call EXCEPT ![m.c] = [call[m.c] EXCEPT !.pc = "done"]])
    BY <1>1 DEF TakeReply, CallEnds
  <2>3. m.c \in CallId
    BY <2>2 DEF CallsType, Requests, Replies
  <2>4. \A d \in CallId : call'[d].pc = "fetched" => call'[d] = call[d]
    BY <2>2, <2>3 DEF CallsType, Asked
  <2>5. QED
    BY <2>1, <2>4 DEF CacheInv, KeyFollows, TargetFollows, AclFollows
<1>2. CASE TakeRequest
  <2>1. UNCHANGED <<key, acl, events, keys, acls, call, crossed>>
    BY <1>2 DEF TakeRequest
  <2>2. \A u \in tasks' : u.pc \in {"gotkey", "gotacl"} => u \in tasks
    BY <1>2 DEF TakeRequest
  <2>3. QED
    BY <2>1, <2>2 DEF CacheInv, KeyFollows, TargetFollows, AclFollows
<1>3. ASSUME NEW k \in KeyEvent, Changes(k) PROVE CacheInv'
  <2>0. /\ events' = [events EXCEPT ![k] = @ + 1]
        /\ \/ k = "caller key" /\ key' = [key EXCEPT !["caller"] = @ + 1] /\ acl' = acl
           \/ k = "target key" /\ key' = [key EXCEPT !["target"] = @ + 1] /\ acl' = acl
           \/ k = "target acl" /\ key' = key
    BY <1>3 DEF Changes, KeyEvent
  <2>1. UNCHANGED <<call, tasks, keys, acls, crossed>>
    BY <1>3 DEF Changes, targetVars
  <2>2. events'[k] > 0 /\ \A j \in KeyEvent : events[j] > 0 => events'[j] > 0
    <3>1. events \in [KeyEvent -> Nat] /\ events' = [events EXCEPT ![k] = events[k] + 1]
      BY <2>0 DEF CallsType
    <3>2. QED
      BY ONLY <3>1, k \in KeyEvent
  <2>3. \A v : /\ KeyFollows(v) => KeyFollows(v)'
               /\ TargetFollows(v) => TargetFollows(v)'
               /\ AclFollows(v) => AclFollows(v)'
    BY <2>0, <2>2 DEF KeyFollows, TargetFollows, AclFollows, CallsType, Side, KeyEvent
  <2>4. QED
    BY <2>1, <2>3 DEF CacheInv
<1>4. ASSUME NEW k \in KeyEvent, handle_frame(k) PROVE CacheInv'
  <2> SUFFICES ASSUME ~crossed' PROVE CacheInv'
    BY DEF CacheInv
  <2>1. /\ ~crossed /\ \A c \in CallId : call[c].pc # "fetched"
        /\ \A t \in tasks : t.pc \notin {"gotkey", "gotacl"}
    BY <1>4 DEF handle_frame
  <2>2. UNCHANGED <<call, tasks, key, acl>>
    BY <1>4 DEF handle_frame
  <2>3. events' = [events EXCEPT ![k] = @ - 1]
    BY <1>4 DEF handle_frame
  <2>4. \A j \in KeyEvent : j # k => events'[j] = events[j]
    BY <2>3 DEF CallsType
  <2>5. /\ keys' = CASE k = "caller key" -> [keys EXCEPT !["caller"] = NoValue]
                     [] k = "target key" -> [keys EXCEPT !["target"] = NoValue]
                     [] OTHER            -> keys
        /\ acls' = IF k = "caller key" THEN acls ELSE NoValue
    BY <1>4 DEF handle_frame
  <2>6. CASE k = "caller key"
    <3>1. keys'["caller"] = NoValue /\ keys'["target"] = keys["target"] /\ acls' = acls
      BY <2>5, <2>6 DEF CallsType, Side
    <3>2. events'["target key"] = events["target key"] /\ events'["target acl"] = events["target acl"]
      BY <2>4, <2>6 DEF KeyEvent
    <3>3. QED
      BY <2>1, <2>2, <3>1, <3>2 DEF CacheInv, KeyFollows, TargetFollows, AclFollows
  <2>7. CASE k # "caller key"
    <3>1. keys'["caller"] = keys["caller"] /\ acls' = NoValue
      BY <2>5, <2>7 DEF CallsType, Side
    <3>2. events'["caller key"] = events["caller key"]
      BY <2>4, <2>7 DEF KeyEvent
    <3>3. \/ keys'["target"] = NoValue
          \/ (keys'["target"] = keys["target"] /\ events'["target key"] = events["target key"])
      BY <2>4, <2>5, <2>7 DEF KeyEvent, CallsType, Side
    <3>4. QED
      BY <2>1, <2>2, <3>1, <3>2, <3>3 DEF CacheInv, KeyFollows, TargetFollows, AclFollows
  <2>8. QED
    BY <2>6, <2>7
<1>5. CASE UNCHANGED callsVars
  BY <1>5 DEF callsVars, CacheInv, KeyFollows, TargetFollows, AclFollows
<1>6. QED
  BY <1>1, <1>2, <1>3, <1>4, <1>5, CallCaches, TaskCaches DEF CallsNext

\* Whatever calls, changes of keys and ACLs and their events meet: once the events are
\* handled, the cached values are those of the key service, unless an event was handled
\* while an older answer was on its way into a cache.
THEOREM CachesCorrect == CallsSpec => []CachesFollow
<1>1. CallsInit => CallsType /\ CacheInv
  <2>1. CallsInit => CacheInv
    BY DEF CallsInit, CacheInv, Side
  <2>2. QED
    BY <2>1, InitCalls
<1>2. CallsType /\ CacheInv /\ [CallsNext]_callsVars => (CallsType /\ CacheInv)'
  BY StepCalls, StepCaches
<1>3. CacheInv => CachesFollow
  BY DEF CachesFollow, CacheInv, KeyFollows, TargetFollows, AclFollows
<1>4. QED
  BY <1>1, <1>2, <1>3, PTL DEF CallsSpec


\* AnswersBelong made inductive.  Requests and tasks carry what their call asked for, and a
\* reply "ok" tells of something done.
Sent(c) == call[c].pc \in {"wait", "done"}
Done(c) == executed[c] > 0 \/ call[c].method = "ping"
Honest ==
  /\ \A m \in wire : /\ Sent(m.c)
                     /\ m.to = "target" => m.method = call[m.c].method
                     /\ m.to = "caller" /\ m.result = "ok" => Done(m.c)
  /\ \A t \in tasks : Sent(t.c) /\ t.method = call[t.c].method
  /\ \A c \in CallId : /\ answer[c] \in {"ok", "refused"} => call[c].pc = "done"
                       /\ answer[c] = "ok" => Done(c)

\* So long as no message came twice, a call is first a request on its way, then a task, and
\* then either executed or refused.
Settled(c) == served[c] > 0 /\ executed[c] = 0 /\ \A t \in tasks : t.c # c
InTurn ==
  /\ \A m \in wire : /\ m.to = "target" => served[m.c] = 0
                     /\ m.to = "caller" /\ m.result = "refused" => Settled(m.c)
  /\ \A m, n \in wire : m.to = "target" /\ n.to = "target" /\ m.c = n.c => m = n
  /\ \A t \in tasks : served[t.c] > 0 /\ executed[t.c] = 0
  /\ \A t, u \in tasks : t.c = u.c => t = u
  /\ \A c \in CallId : /\ ~Sent(c) => served[c] = 0
                       /\ served[c] = 0 => executed[c] = 0
                       /\ executed[c] <= 1
                       /\ answer[c] = "refused" => Settled(c)
AnswerInv == Honest /\ (copies = 0 => InTurn)

\* A call that is not sent yet goes on.
LEMMA PreparesKeeps ==
  ASSUME CallsType, AnswerInv, NEW c \in CallId, NEW r \in Asked, ~Sent(c), call' = [call EXCEPT ![c] = r],
         UNCHANGED <<wire, tasks, served, executed, copies>>,
         answer' = answer \/ answer' = [answer EXCEPT ![c] = "error"]
  PROVE  AnswerInv'
<1>1. \A d \in CallId : d # c => call'[d] = call[d] /\ answer'[d] = answer[d]
  BY DEF CallsType
<1>2. answer'[c] \notin {"ok", "refused"}
  BY DEF AnswerInv, Honest, Sent, CallsType
<1>3. /\ \A m \in wire : m.c \in CallId /\ m.c # c
      /\ \A t \in tasks : t.c \in CallId /\ t.c # c
  BY DEF AnswerInv, Honest, CallsType, Requests, Replies, Serving
<1>4. Honest'
  BY <1>1, <1>2, <1>3 DEF AnswerInv, Honest, Sent, Done
<1>5. ASSUME copies = 0 PROVE InTurn'
  <2>1. served[c] = 0
    BY <1>5 DEF AnswerInv, InTurn
  <2>2. \A d \in CallId : Settled(d)' = Settled(d)
    BY DEF Settled
  <2>3. QED
    BY <1>1, <1>2, <1>3, <1>5, <2>1, <2>2 DEF AnswerInv, InTurn, Sent
<1>6. QED
  BY <1>4, <1>5 DEF AnswerInv

\* A call is sent, once.
LEMMA SendKeeps ==
  ASSUME CallsType, AnswerInv, NEW c \in CallId, NEW p \in {"wait", "done"}, call[c].pc \in {"opts", "publish"},
         call' = [call EXCEPT ![c] = [call[c] EXCEPT !.pc = p]],
         wire' = wire \/ wire' = wire \union {RequestOf(c)},
         UNCHANGED <<tasks, served, executed, copies>>,
         answer' = answer \/ answer' = [answer EXCEPT ![c] = "error"]
  PROVE  AnswerInv'
<1>0. call[c] \in Asked
  BY DEF CallsType
<1>1. \A d \in CallId : d # c => call'[d] = call[d] /\ answer'[d] = answer[d]
  BY DEF CallsType
<1>2. call'[c].pc = p /\ call'[c].method = call[c].method
  BY <1>0 DEF CallsType, Asked
<1>3. answer'[c] \notin {"ok", "refused"}
  BY DEF AnswerInv, Honest, Sent, CallsType
<1>4. /\ \A m \in wire : m.c \in CallId /\ m.c # c
      /\ \A t \in tasks : t.c \in CallId /\ t.c # c
  BY DEF AnswerInv, Honest, CallsType, Requests, Replies, Serving, Sent
<1>5. PICK q : q = RequestOf(c)
  OBVIOUS
<1>6. q.to = "target" /\ q.c = c /\ q.method = call[c].method
  BY <1>5 DEF RequestOf
<1>7. \A m \in wire' : m \in wire \/ m = q
  BY <1>5
<1>8. Honest'
  BY <1>1, <1>2, <1>3, <1>4, <1>6, <1>7 DEF AnswerInv, Honest, Sent, Done
<1>9. ASSUME copies = 0 PROVE InTurn'
  <2>1. served[c] = 0
    BY <1>9 DEF AnswerInv, InTurn, Sent
  <2>2. \A d \in CallId : Settled(d)' = Settled(d)
    BY DEF Settled
  <2>3. QED
    BY <1>1, <1>2, <1>3, <1>4, <1>6, <1>7, <1>9, <2>1, <2>2 DEF AnswerInv, InTurn, Sent
<1>10. QED
  BY <1>8, <1>9 DEF AnswerInv

\* A call ends, by its timeout or with what the reply says.
LEMMA EndKeeps ==
  ASSUME CallsType, AnswerInv, NEW c \in CallId, NEW r, call[c].pc = "wait", CallEnds(c, r),
         r = "ok" => Done(c), r = "refused" /\ copies = 0 => Settled(c),
         wire' \in SUBSET wire, UNCHANGED <<tasks, served, executed>>, copies' = 0 => copies = 0
  PROVE  AnswerInv'
<1>0. call[c] \in Asked
  BY DEF CallsType
<1>1. \A d \in CallId : d # c => call'[d] = call[d] /\ answer'[d] = answer[d]
  BY DEF CallsType, CallEnds
<1>2. call'[c].pc = "done" /\ call'[c].method = call[c].method /\ answer'[c] = r
  BY <1>0 DEF CallsType, Asked, CallEnds
<1>3. \A d \in CallId : Sent(d)' = Sent(d) /\ Done(d)' = Done(d) /\ Settled(d)' = Settled(d)
  BY <1>1, <1>2 DEF Sent, Done, Settled
<1>4. /\ \A m \in wire : m.c \in CallId
      /\ \A t \in tasks : t.c \in CallId
  BY DEF CallsType, Requests, Replies, Serving
<1>5. Honest'
  BY <1>1, <1>2, <1>3, <1>4 DEF AnswerInv, Honest
<1>6. ASSUME copies' = 0 PROVE InTurn'
  BY <1>1, <1>2, <1>3, <1>4, <1>6 DEF AnswerInv, InTurn
<1>7. QED
  BY <1>5, <1>6 DEF AnswerInv

\* The steps of a call keep AnswerInv.
LEMMA CallAnswers ==
  ASSUME CallsType, AnswerInv, NEW c \in CallId,
         (\E m \in node.methods : call_remote_method(c, m)) \/ CallStep(c)
  PROVE  AnswerInv'
<1>0. call[c] \in Asked /\ CallsType'
  BY CallType DEF CallsType
<1>1. UNCHANGED <<tasks, served, executed, copies>>
  BY DEF call_remote_method, CallStep, get_enc_opts, CacheOpts, Publish, CallFails,
         CallTimesOut, keyVars, targetVars
<1>2. CASE (\E m \in node.methods : call_remote_method(c, m)) \/ get_enc_opts(c) \/ CacheOpts(c)
  <2>1. wire' = wire /\ (answer' = answer \/ answer' = [answer EXCEPT ![c] = "error"]) /\ ~Sent(c)
    BY <1>2 DEF call_remote_method, get_enc_opts, CacheOpts, Sent
  <2>2. \E r : call' = [call EXCEPT ![c] = r]
    BY <1>2 DEF call_remote_method, get_enc_opts, CacheOpts
  <2>3. \E r \in Asked : call' = [call EXCEPT ![c] = r]
    BY <1>0, <2>2 DEF CallsType
  <2>4. QED
    BY <1>1, <2>1, <2>3, PreparesKeeps
<1>3. CASE Publish(c)
  BY <1>1, <1>3, SendKeeps DEF Publish
<1>4. CASE CallFails(c)
  <2>1. wire' = wire \/ wire' = wire \union {RequestOf(c)}
    BY <1>4 DEF CallFails
  <2>2. QED
    BY <1>1, <1>4, <2>1, SendKeeps DEF CallFails, CallEnds
<1>5. CASE CallTimesOut(c)
  BY <1>1, <1>5, EndKeeps DEF CallTimesOut
<1>6. QED
  BY <1>2, <1>3, <1>4, <1>5 DEF CallStep

\* A task goes on, with the same call and method.
LEMMA GoesKeeps ==
  ASSUME CallsType, AnswerInv, NEW t \in tasks, NEW u, Goes(t, u), u.c = t.c, u.method = t.method,
         UNCHANGED <<call, wire, served, executed, answer, copies>>
  PROVE  AnswerInv'
<1>1. \A d : Settled(d)' = Settled(d)
  BY DEF Settled, Goes
<1>2. \A d : Sent(d)' = Sent(d) /\ Done(d)' = Done(d)
  BY DEF Sent, Done
<1>3. Honest'
  BY <1>2 DEF AnswerInv, Honest, Goes
<1>4. ASSUME copies = 0 PROVE InTurn'
  BY <1>1, <1>2, <1>4 DEF AnswerInv, InTurn, Goes
<1>5. QED
  BY <1>3, <1>4 DEF AnswerInv

\* A task ends: without a reply, or refusing, or having executed the call.
LEMMA LeavesKeeps ==
  ASSUME CallsType, AnswerInv, NEW t \in tasks, tasks' = tasks \ {t},
         UNCHANGED <<call, served, answer, copies>>,
         \/ wire' = wire /\ executed' = executed
         \/ \E k : \E r \in {"ok", "refused"} :
              /\ wire' = wire \union {[to |-> "caller", c |-> t.c, result |-> r, key |-> k]}
              /\ executed' = executed /\ (r = "ok" => t.method = "ping")
         \/ \E k : \E r \in {"ok", "error"} :
              /\ wire' = wire \union {[to |-> "caller", c |-> t.c, result |-> r, key |-> k]}
              /\ executed' = [executed EXCEPT ![t.c] = @ + 1]
  PROVE  AnswerInv'
<1>1. t.c \in CallId /\ \A m \in wire : m.c \in CallId
  BY DEF CallsType, Serving, Requests, Replies
<1>2. /\ executed'[t.c] = executed[t.c] \/ executed'[t.c] = executed[t.c] + 1
      /\ \A d \in CallId : d # t.c => executed'[d] = executed[d]
      /\ \A d \in CallId : executed[d] \in Nat
  BY <1>1 DEF CallsType
<1>3. \A d \in CallId : Sent(d)' = Sent(d) /\ (Done(d) => Done(d)')
  BY <1>1, <1>2 DEF Sent, Done
<1>4. \A m \in wire' : \/ m \in wire
                       \/ /\ m.to = "caller" /\ m.c = t.c
                          /\ m.result = "ok" => t.method = "ping" \/ executed'[t.c] > 0
                          /\ m.result = "refused" => executed' = executed
  BY <1>1, <1>2 DEF CallsType
<1>5. Honest'
  BY <1>1, <1>3, <1>4 DEF AnswerInv, Honest, Done, CallsType, Serving
<1>6. ASSUME copies = 0 PROVE InTurn'
  <2>1. \A d \in CallId : Settled(d) => Settled(d)'
    BY <1>1, <1>2 DEF Settled
  <2>2. executed[t.c] = 0 /\ served[t.c] > 0 /\ Sent(t.c) /\ (executed' = executed => Settled(t.c)')
    <3>1. executed[t.c] = 0 /\ served[t.c] > 0 /\ Sent(t.c)
      BY <1>6 DEF AnswerInv, InTurn, Honest
    <3>2. \A u \in tasks' : u.c # t.c
      BY <1>6 DEF AnswerInv, InTurn
    <3>3. QED
      BY <3>1, <3>2 DEF Settled
  <2>3. \A d \in CallId : executed'[d] <= 1 /\ (served[d] = 0 => executed'[d] = 0)
    BY <1>1, <1>2, <1>6, <2>2 DEF AnswerInv, InTurn, CallsType
  <2>4. \A u \in tasks' : u \in tasks /\ u.c \in CallId /\ u.c # t.c
    BY <1>6 DEF AnswerInv, InTurn, CallsType, Serving
  <2>5. QED
    BY <1>1, <1>2, <1>3, <1>4, <1>6, <2>1, <2>2, <2>3, <2>4 DEF AnswerInv, InTurn
<1>7. QED
  BY <1>5, <1>6 DEF AnswerInv

\* The steps of a task keep AnswerInv.
LEMMA TaskAnswers ==
  ASSUME CallsType, AnswerInv, NEW t \in tasks, TaskStep(t)
  PROVE  AnswerInv'
<1>0. t \in Serving
  BY DEF CallsType
<1>1. UNCHANGED <<call, served, answer, copies>>
  BY DEF TaskStep, get_key, CacheKey, Unpack, get_acl, CacheAcl, handle_call,
         keyVars, callerVars
<1>2. ASSUME NEW p, NEW k, NEW a,
             Goes(t, [t EXCEPT !.pc = p]) \/ Goes(t, [t EXCEPT !.pc = p, !.key = k])
               \/ Goes(t, [t EXCEPT !.pc = p, !.acl = a]),
             UNCHANGED <<wire, executed>>
      PROVE  AnswerInv'
  <2>1. PICK u : /\ Goes(t, u)
                 /\ u \in {[t EXCEPT !.pc = p], [t EXCEPT !.pc = p, !.key = k], [t EXCEPT !.pc = p, !.acl = a]}
    BY <1>2
  <2>2. u.c = t.c /\ u.method = t.method
    BY <1>0, <2>1 DEF Serving
  <2>3. QED
    BY <1>1, <1>2, <2>1, <2>2, GoesKeeps
<1>3. CASE get_key(t)
  BY <1>2, <1>3 DEF get_key
<1>4. CASE CacheKey(t)
  BY <1>2, <1>4 DEF CacheKey
<1>5. CASE Unpack(t)
  <2>1. CASE tasks' = tasks \ {t}
    <3>1. executed' = executed
      BY <1>5 DEF Unpack
    <3>2. wire' = wire \/ \E k : \E r \in {"ok", "refused"} :
                            /\ wire' = wire \union {[to |-> "caller", c |-> t.c, result |-> r, key |-> k]}
                            /\ r = "ok" => t.method = "ping"
      BY <1>5 DEF Unpack, Reply
    <3>3. QED
      BY <1>1, <2>1, <3>1, <3>2, LeavesKeeps
  <2>2. CASE Goes(t, [t EXCEPT !.pc = "acl"]) /\ UNCHANGED wire
    BY <1>2, <1>5, <2>2 DEF Unpack
  <2>3. QED
    BY <1>5, <2>1, <2>2 DEF Unpack, Reply
<1>6. CASE get_acl(t)
  <2>1. CASE Reply(t, "refused")
    <3>1. executed' = executed
      BY <1>6 DEF get_acl
    <3>2. QED
      BY <1>1, <2>1, <3>1, LeavesKeeps DEF Reply
  <2>2. QED
    BY <1>2, <1>6, <2>1 DEF get_acl
<1>7. CASE CacheAcl(t)
  BY <1>2, <1>7 DEF CacheAcl
<1>8. CASE handle_call(t)
  <2>1. CASE Reply(t, "refused") /\ UNCHANGED executed
    BY <1>1, <2>1, LeavesKeeps DEF Reply
  <2>2. CASE Execute(t)
    <3>1. /\ executed' = [executed EXCEPT ![t.c] = @ + 1] /\ tasks' = tasks \ {t}
          /\ \E k : \E r \in {"ok", "error"} :
               wire' = wire \union {[to |-> "caller", c |-> t.c, result |-> r, key |-> k]}
      BY <2>2 DEF Execute, Reply
    <3>2. QED
      BY <1>1, <3>1, LeavesKeeps
  <2>3. QED
    BY <1>8, <2>1, <2>2 DEF handle_call
<1>9. QED
  BY <1>3, <1>4, <1>5, <1>6, <1>7, <1>8 DEF TaskStep

\* A request becomes a task.
LEMMA RequestAnswers ==
  ASSUME CallsType, AnswerInv, TakeRequest
  PROVE  AnswerInv'
<1>1. PICK m \in wire :
        /\ m.to = "target" /\ TakeMessage(m)
        /\ served' = [served EXCEPT ![m.c] = @ + 1]
        /\ tasks' = tasks \union {[c |-> m.c, method |-> m.method, sent |-> m.key, n |-> served[m.c],
                                   pc |-> "key", key |-> NoValue, acl |-> NoValue]}
  BY DEF TakeRequest
<1>2. PICK u : u = [c |-> m.c, method |-> m.method, sent |-> m.key, n |-> served[m.c],
                    pc |-> "key", key |-> NoValue, acl |-> NoValue]
  OBVIOUS
<1>3. u.c = m.c /\ u.method = m.method /\ tasks' = tasks \union {u}
  BY <1>1, <1>2
<1>4. UNCHANGED <<call, executed, answer>>
  BY DEF TakeRequest
<1>5. m.c \in CallId /\ \A x \in wire : x.c \in CallId
  BY DEF CallsType, Requests, Replies
<1>6. wire' \in SUBSET wire
  BY <1>1 DEF TakeMessage
<1>7. \A d \in CallId : Sent(d)' = Sent(d) /\ Done(d)' = Done(d)
  BY <1>4 DEF Sent, Done
<1>8. Honest'
  BY <1>1, <1>3, <1>4, <1>5, <1>6, <1>7 DEF AnswerInv, Honest, CallsType, Serving
<1>9. ASSUME copies' = 0 PROVE InTurn'
  <2>1. copies = 0 /\ wire' = wire \ {m}
    BY <1>1, <1>9 DEF TakeMessage, CallsType
  <2>2. served[m.c] = 0 /\ Sent(m.c) /\ executed[m.c] = 0 /\ \A t \in tasks : t.c # m.c
    BY <1>1, <1>5, <2>1 DEF AnswerInv, InTurn, Honest
  <2>3. served'[m.c] = 1 /\ \A d \in CallId : d # m.c => served'[d] = served[d]
    BY <1>1, <1>5, <2>2 DEF CallsType
  <2>4. \A d \in CallId : Settled(d) => Settled(d)'
    BY <1>3, <1>4, <2>2, <2>3 DEF Settled
  <2>5. \A x \in wire' : x.to = "target" => x.c # m.c
    BY <1>1, <2>1 DEF AnswerInv, InTurn
  <2>6. \A t \in tasks' : t = u \/ (t \in tasks /\ t.c \in CallId /\ t.c # m.c)
    BY <1>3, <2>2 DEF CallsType, Serving
  <2>7. QED
    BY <1>3, <1>4, <1>5, <1>6, <1>7, <2>1, <2>2, <2>3, <2>4, <2>5, <2>6 DEF AnswerInv, InTurn
<1>10. QED
  BY <1>8, <1>9 DEF AnswerInv

\* Every step keeps AnswerInv.
LEMMA StepAnswers ==
  ASSUME CallsType, AnswerInv, CallsNext \/ UNCHANGED callsVars
  PROVE  AnswerInv'
<1>1. CASE TakeReply
  <2>1. PICK m \in wire :
          /\ m.to = "caller" /\ TakeMessage(m)
          /\ IF m.c \in calls /\ call[m.c].pc = "wait" THEN CallEnds(m.c, m.result)
             ELSE UNCHANGED <<call, answer>>
    BY <1>1 DEF TakeReply
  <2>2. UNCHANGED <<tasks, served, executed>>
    BY <1>1 DEF TakeReply, targetVars
  <2>3. wire' \in SUBSET wire /\ (copies' = 0 => copies = 0) /\ m.c \in CallId
    BY <2>1 DEF TakeMessage, CallsType, Requests, Replies
  <2>4. CASE call[m.c].pc = "wait" /\ CallEnds(m.c, m.result)
    <3>1. (m.result = "ok" => Done(m.c)) /\ (m.result = "refused" /\ copies = 0 => Settled(m.c))
      BY <2>1 DEF AnswerInv, Honest, InTurn
    <3>2. QED
      BY <2>2, <2>3, <2>4, <3>1, EndKeeps
  <2>5. CASE UNCHANGED <<call, answer>>
    <3>1. \A d \in CallId : Sent(d)' = Sent(d) /\ Done(d)' = Done(d) /\ Settled(d)' = Settled(d)
      BY <2>2, <2>5 DEF Sent, Done, Settled
    <3>2. /\ \A x \in wire : x.c \in CallId
          /\ \A t \in tasks : t.c \in CallId
      BY DEF CallsType, Requests, Replies, Serving
    <3>3. Honest'
      BY <2>2, <2>3, <2>5, <3>1, <3>2 DEF AnswerInv, Honest
    <3>4. ASSUME copies' = 0 PROVE InTurn'
      BY <2>2, <2>3, <2>5, <3>1, <3>2, <3>4 DEF AnswerInv, InTurn
    <3>5. QED
      BY <3>3, <3>4 DEF AnswerInv
  <2>6. QED
    BY <2>1, <2>4, <2>5
<1>2. CASE UNCHANGED <<call, wire, tasks, served, executed, answer, copies>>
  BY <1>2 DEF AnswerInv, Honest, InTurn, Sent, Done, Settled
<1>3. ASSUME NEW k \in KeyEvent, Changes(k) \/ handle_frame(k) PROVE AnswerInv'
  BY <1>2, <1>3 DEF Changes, handle_frame, targetVars
<1>4. CASE UNCHANGED callsVars
  BY <1>2, <1>4 DEF callsVars
<1>5. QED
  BY <1>1, <1>3, <1>4, CallAnswers, TaskAnswers, RequestAnswers DEF CallsNext

\* An answer of a remote node is the answer to its call, for any number of calls, keys and
\* messages: "ok" tells of what was executed, and, when no message came twice, nothing is
\* executed twice or both executed and refused.
THEOREM AnswersCorrect == CallsSpec => []AnswersBelong
<1>1. CallsInit => CallsType /\ AnswerInv
  <2>1. CallsInit => AnswerInv
    BY DEF CallsInit, AnswerInv, Honest, InTurn, Sent, Done, Settled
  <2>2. QED
    BY <2>1, InitCalls
<1>2. CallsType /\ AnswerInv /\ [CallsNext]_callsVars => (CallsType /\ AnswerInv)'
  BY StepCalls, StepAnswers
<1>3. CallsType /\ AnswerInv => AnswersBelong
  <2> SUFFICES ASSUME CallsType, AnswerInv, NEW c \in CallId
               PROVE  /\ answer[c] = "ok" /\ call[c].method # "ping" => executed[c] > 0
                      /\ copies = 0 => executed[c] <= 1
                      /\ copies = 0 /\ executed[c] > 0 => answer[c] # "refused"
    BY DEF AnswersBelong
  <2>1. answer[c] = "ok" /\ call[c].method # "ping" => executed[c] > 0
    BY DEF AnswerInv, Honest, Done
  <2>2. copies = 0 => executed[c] <= 1 /\ (answer[c] = "refused" => executed[c] = 0)
    BY DEF AnswerInv, InTurn, Settled
  <2>3. QED
    BY <2>1, <2>2
<1>4. QED
  BY <1>1, <1>2, <1>3, PTL DEF CallsSpec
============================================================================
