------------------------------ MODULE Accounts ------------------------------
(***************************************************************************)
(* The services that keep accounts: API keys, users and one-time users     *)
(* (svc/aaa-localauth), access control lists (svc/aaa-acl) and one-time    *)
(* passwords (svc/aaa-otp).  All three work alike.  A call changes a map   *)
(* under its lock; then, without the lock, it writes the registry of the   *)
(* core and queues an event, object by object.  After a restart the maps   *)
(* are what the registry holds.                                            *)
(***************************************************************************)
EXTENDS Naturals, Sequences, FiniteSets, SequencesExt

CONSTANTS Admin, Caller,
          Path,        \* objects: <<kind, id>>, kind in {"key", "user", "acl", "otp"}
          Value,       \* values of API keys
          OneTime,     \* logins of one-time users
          Secret,      \* secrets of one-time passwords, 1, 2, ...
          Scenes,      \* settings, with the calls that are made and the logins in exclude,
                       \* which need no one-time password
          MaxCalls,    \* bound: calls
          MaxFaults,   \* bound: failed registry calls and restarts
          None

VARIABLES scene, up,
          mem,         \* keys_by_id, USERS, ACLS, OTPS: [Path -> value or None]
          keys_by_k,   \* [Value -> id or None]
          one_time,    \* ONE_TIME_USERS: [OneTime -> None, "valid" or "taken"]
          registry,    \* [Path -> value or None]
          actor,       \* a call in progress of each administrator and caller
          tx,          \* events to publish
          published,   \* [Path -> what the last event said]
          secrets, calls, faults, \* use of the bounds
          dirty,       \* paths whose calls overlapped or failed: the registry may differ
          mute,        \* paths whose last event may have been lost with the service
          grants       \* [OneTime -> successful authentications]

vars == <<scene, up, mem, keys_by_k, one_time, registry, actor, tx, published,
          secrets, calls, faults, dirty, mute, grants>>

Actor == Admin \union Caller
Key(i) == <<"key", i>>
Usr(i) == <<"user", i>>
Acl(i) == <<"acl", i>>
Otp(i) == <<"otp", i>>
Idle == [pc |-> "idle", todo |-> <<>>, then |-> "idle", login |-> None, code |-> None, acls |-> <<>>, op |-> None]

Init ==
  /\ scene \in Scenes /\ up = TRUE
  /\ mem = [p \in Path |-> None] /\ registry = mem /\ published = mem
  /\ keys_by_k = [v \in Value |-> None]
  /\ one_time = [l \in OneTime |-> None]
  /\ actor = [a \in Actor |-> Idle]
  /\ tx = <<>> /\ secrets = 0 /\ calls = 0 /\ faults = 0
  /\ dirty = {} /\ mute = {} /\ grants = [l \in OneTime |-> 0]

----------------------------------------------------------------------------
(* The maps.  A store is what a call sees while it holds the lock: the     *)
(* maps, what is to be written afterwards, and whether the call goes on.   *)

Store == [mem |-> mem, by_k |-> keys_by_k, todo |-> <<>>, ok |-> TRUE]
Push(s, p, v, tell) == [s EXCEPT !.todo = Append(@, [path |-> p, val |-> v, tell |-> tell])]
Put(s, p, v, tell) == Push([s EXCEPT !.mem[p] = v], p, v, tell)
Drop(s, p) == IF s.mem[p] = None THEN s ELSE Push([s EXCEPT !.mem[p] = None], p, None, TRUE)
Fail(s) == [s EXCEPT !.ok = FALSE]

KeyDbAppend(s, i, key) ==
  IF s.by_k[key.k] # None /\ s.by_k[key.k] # i THEN Fail(s)
  ELSE [s EXCEPT !.mem[Key(i)] = key, !.by_k[key.k] = i]

\* Faulty variant of KeyDbRemove: the value still leads to the id.
KeyDbRemoveHalf(s, i) == [s EXCEPT !.mem[Key(i)] = None]

KeyDbRemove(s, i) ==
  IF s.mem[Key(i)] = None THEN s
  ELSE [s EXCEPT !.mem[Key(i)] = None, !.by_k[s.mem[Key(i)].k] = None]

\* Keys are replaced one by one: a value in use stops the deployment halfway.
key_deploy(list) ==
  FoldLeft(LAMBDA s, e : IF ~s.ok THEN s
                         ELSE KeyDbAppend(Push(KeyDbRemove(s, e[1]), Key(e[1]), e[2], TRUE), e[1], e[2]),
           Store, list)

key_undeploy(list) ==
  FoldLeft(LAMBDA s, i : IF s.mem[Key(i)] = None THEN s
                         ELSE Push(KeyDbRemove(s, i), Key(i), None, TRUE),
           Store, list)

key_destroy(i) == IF mem[Key(i)] = None THEN Fail(Store) ELSE key_undeploy(<<i>>)

\* key_regenerate: random_string(32) is a value nobody has.
key_regenerate(i, v) ==
  IF mem[Key(i)] = None THEN Fail(Store)
  ELSE LET key == [mem[Key(i)] EXCEPT !.k = v]
       IN Push(KeyDbAppend(KeyDbRemove(Store, i), i, key), Key(i), key, TRUE)

user_deploy(list) == FoldLeft(LAMBDA s, e : Put(s, Usr(e[1]), e[2], TRUE), Store, list)
user_undeploy(list) == FoldLeft(LAMBDA s, i : Drop(s, Usr(i)), Store, list)
user_destroy(i) == IF mem[Usr(i)] = None THEN Fail(Store) ELSE user_undeploy(<<i>>)
user_set_password(i, pw) ==
  IF mem[Usr(i)] = None THEN Fail(Store) ELSE Put(Store, Usr(i), [mem[Usr(i)] EXCEPT !.password = pw], TRUE)
\* No event is sent.
user_set_profile_field(i, f) ==
  IF mem[Usr(i)] = None THEN Fail(Store) ELSE Put(Store, Usr(i), [mem[Usr(i)] EXCEPT !.profile = f], FALSE)

acl_deploy(list) == FoldLeft(LAMBDA s, e : Put(s, Acl(e[1]), e[2], TRUE), Store, list)
acl_undeploy(list) == FoldLeft(LAMBDA s, i : Drop(s, Acl(i)), Store, list)
acl_destroy(i) == IF mem[Acl(i)] = None THEN Fail(Store) ELSE acl_undeploy(<<i>>)

\* The event of otp.destroy does not exist.
otp_destroy(i) == IF mem[Otp(i)] = None THEN Fail(Store)
                  ELSE Push([Store EXCEPT !.mem[Otp(i)] = None], Otp(i), None, FALSE)

Called(cmd) ==
  CASE cmd.op = "key.deploy"      -> key_deploy(cmd.list)
    [] cmd.op = "key.undeploy"    -> key_undeploy(cmd.list)
    [] cmd.op = "key.destroy"     -> key_destroy(cmd.list[1])
    [] cmd.op = "key.regenerate"  -> key_regenerate(cmd.list[1], CHOOSE v \in Value : keys_by_k[v] = None)
    [] cmd.op = "user.deploy"     -> user_deploy(cmd.list)
    [] cmd.op = "user.undeploy"   -> user_undeploy(cmd.list)
    [] cmd.op = "user.destroy"    -> user_destroy(cmd.list[1])
    [] cmd.op = "user.set_password" -> user_set_password(cmd.list[1], cmd.list[2])
    [] cmd.op = "user.set_profile_field" -> user_set_profile_field(cmd.list[1], cmd.list[2])
    [] cmd.op = "acl.deploy"      -> acl_deploy(cmd.list)
    [] cmd.op = "acl.undeploy"    -> acl_undeploy(cmd.list)
    [] cmd.op = "acl.destroy"     -> acl_destroy(cmd.list[1])
    [] cmd.op = "otp.destroy"     -> otp_destroy(cmd.list[1])

Pending(s) == {s.todo[n].path : n \in 1..Len(s.todo)}
Others(a) == UNION {Pending(actor[b]) : b \in Actor \ {a}}
Told(s) == {s.todo[n].path : n \in {m \in 1..Len(s.todo) : s.todo[m].tell}}
\* A call that writes alone leaves its objects clean; one that fails halfway writes nothing at all.
Spoiled(a, s) == IF s.ok THEN Pending(s) \intersect Others(a) ELSE {p \in Path : s.mem[p] # mem[p]}
Cleaned(s, C) == IF s.ok THEN C ELSE {}
\* The actor goes on to write what is left of its call, and then to pc next.
Writes(act, todo, next) ==
  [act EXCEPT !.pc = IF todo = <<>> THEN next ELSE "write", !.todo = todo, !.then = next]

Apply(a, s, act, next) ==
  /\ mem' = s.mem /\ keys_by_k' = s.by_k
  /\ dirty' = (dirty \ Cleaned(s, Pending(s))) \union Spoiled(a, s)
  /\ mute' = (mute \ Cleaned(s, Told(s))) \union Spoiled(a, s)
  /\ actor' = [actor EXCEPT ![a] = Writes(act, IF s.ok THEN s.todo ELSE <<>>, next)]

Call(a) ==
  /\ up /\ actor[a].pc \in {"idle", "given"} /\ calls < MaxCalls
  /\ calls' = calls + 1

----------------------------------------------------------------------------
(* Administrators *)

Administer(a, cmd) ==
  /\ Call(a)
  /\ Apply(a, Called(cmd), Idle, "idle")
  /\ UNCHANGED <<scene, up, one_time, registry, tx, published, secrets, faults, grants>>

\* The login is a random string nobody has.
user_create_one_time(a, l) ==
  /\ Call(a) /\ scene.one_time /\ one_time[l] = None /\ grants[l] = 0
  /\ one_time' = [one_time EXCEPT ![l] = "valid"]
  /\ UNCHANGED <<scene, up, mem, keys_by_k, registry, actor, tx, published, secrets, faults, dirty, mute, grants>>

\* The cleaner drops one-time users that have been taken, and those that have expired.
clear_one_time_users ==
  /\ up
  /\ \E expired \in SUBSET OneTime :
       /\ one_time' = [l \in OneTime |-> IF l \in expired \/ one_time[l] = "taken" THEN None ELSE one_time[l]]
       /\ one_time' # one_time
  /\ UNCHANGED <<scene, up, mem, keys_by_k, registry, actor, tx, published, secrets, calls, faults, dirty, mute, grants>>

----------------------------------------------------------------------------
(* After the lock: the registry is written, the event is queued, for each  *)
(* object in turn.                                                         *)

\* What the registry keeps of an object.
Kept(p, v) == IF p[1] = "otp" /\ v # None /\ ~v.active THEN None ELSE v

WriteRegistry(a) ==
  /\ up /\ actor[a].pc = "write"
  /\ LET e == Head(actor[a].todo)
     IN /\ registry' = [registry EXCEPT ![e.path] = e.val]
        /\ tx' = IF e.tell THEN Append(tx, e) ELSE tx
  /\ actor' = [actor EXCEPT ![a] = Writes(@, Tail(@.todo), @.then)]
  /\ UNCHANGED <<scene, up, mem, keys_by_k, one_time, published, secrets, calls, faults, dirty, mute, grants>>

\* The registry call fails, done or not: the call ends there.
RegistryFails(a, done) ==
  /\ up /\ actor[a].pc = "write" /\ faults < MaxFaults
  /\ faults' = faults + 1
  /\ registry' = IF done THEN [registry EXCEPT ![Head(actor[a].todo).path] = Head(actor[a].todo).val] ELSE registry
  /\ dirty' = dirty \union Pending(actor[a]) /\ mute' = mute \union Pending(actor[a])
  /\ actor' = [actor EXCEPT ![a] = Idle]
  /\ UNCHANGED <<scene, up, mem, keys_by_k, one_time, tx, published, secrets, calls, grants>>

Publish ==
  /\ up /\ tx # <<>>
  /\ published' = [published EXCEPT ![Head(tx).path] = Head(tx).val]
  /\ tx' = Tail(tx)
  /\ UNCHANGED <<scene, up, mem, keys_by_k, one_time, registry, actor, secrets, calls, faults, dirty, mute, grants>>

----------------------------------------------------------------------------
(* Authentication *)

\* acl.format: the lists of the account, joined field by field.
MergeField(dst, src) ==
  IF src = None THEN dst
  ELSE IF dst = None THEN src
  ELSE [k \in DOMAIN dst \union DOMAIN src |->
          IF k \notin DOMAIN src THEN dst[k]
          ELSE IF k \in DOMAIN dst THEN dst[k] \union src[k] ELSE src[k]]

EmptyAcl == [from |-> {}, admin |-> FALSE, read |-> None, deny |-> None]

MergeAcl(data, i) ==
  LET acl == mem[Acl(i)]
  IN [from |-> data.from \union {i}, admin |-> data.admin \/ acl.admin,
      read |-> MergeField(data.read, acl.read), deny |-> MergeField(data.deny, acl.deny)]

acl_format(ids) ==
  LET found == SelectSeq(ids, LAMBDA i : mem[Acl(i)] # None)
  IN IF (scene.strict /\ found # ids) \/ (scene.forbid_empty /\ found = <<>>) THEN None
     ELSE FoldLeft(MergeAcl, EmptyAcl, found)

Denied(c) == [actor EXCEPT ![c] = Idle]
Unchanged == UNCHANGED <<scene, up, mem, keys_by_k, registry, tx, published, faults, dirty, mute>>

auth_key(c, v) ==
  /\ Call(c)
  /\ actor' = IF keys_by_k[v] = None THEN Denied(c)
              ELSE [actor EXCEPT ![c] = [Idle EXCEPT !.pc = "format", !.acls = mem[Key(keys_by_k[v])].acls]]
  /\ Unchanged /\ UNCHANGED <<one_time, secrets, grants>>

\* The password of a user is verified, or a partner service has done so.
auth_user(c, l, pw, code, verified) ==
  /\ Call(c)
  /\ actor' = IF mem[Usr(l)] = None \/ (~verified /\ mem[Usr(l)].password # pw) THEN Denied(c)
              ELSE [actor EXCEPT ![c] = [Idle EXCEPT !.login = l, !.code = code, !.acls = mem[Usr(l)].acls, !.op = "auth",
                                           !.pc = IF verified \/ ~scene.otp THEN "format" ELSE "otp"]]
  /\ Unchanged /\ UNCHANGED <<one_time, secrets, grants>>

\* OneTimeUser::get_acls: the user is taken whether the password is right or not.
auth_one_time(c, l, right) ==
  /\ Call(c) /\ scene.one_time
  /\ one_time' = [one_time EXCEPT ![l] = IF @ = None THEN None ELSE "taken"]
  /\ IF one_time[l] = "valid" /\ right
     THEN /\ actor' = [actor EXCEPT ![c] = [Idle EXCEPT !.pc = "format"]]
          /\ grants' = [grants EXCEPT ![l] = @ + 1]
     ELSE actor' = Denied(c) /\ UNCHANGED grants
  /\ Unchanged /\ UNCHANGED secrets

reset_user(c, l, pw, code) ==
  /\ Call(c) /\ scene.otp
  /\ actor' = IF mem[Usr(l)] = None \/ mem[Usr(l)].password # pw THEN Denied(c)
              ELSE [actor EXCEPT ![c] = [Idle EXCEPT !.login = l, !.code = code, !.op = "reset", !.pc = "otp"]]
  /\ Unchanged /\ UNCHANGED <<one_time, secrets, grants>>

\* otp.check passes with the code of the current secret, which activates it.  Without a
\* secret one is made, and the caller is told it.
otp_check(c) ==
  /\ up /\ actor[c].pc = "otp"
  /\ LET l == actor[c].login
         otp == mem[Otp(l)]
         next == IF actor[c].op = "reset" THEN "destroy" ELSE "format"
         Activate == Put(Store, Otp(l), [otp EXCEPT !.active = TRUE], FALSE)
     IN \/ /\ l \in scene.exclude
           /\ Apply(c, Store, actor[c], next) /\ UNCHANGED secrets
        \/ /\ l \notin scene.exclude /\ otp = None /\ secrets < Secret
           /\ secrets' = secrets + 1
           /\ mem' = [mem EXCEPT ![Otp(l)] = [secret |-> secrets + 1, active |-> FALSE]]
           /\ actor' = Denied(c) /\ UNCHANGED <<keys_by_k, dirty, mute>>
        \/ /\ l \notin scene.exclude /\ otp # None
           /\ IF actor[c].code # otp.secret THEN Apply(c, Store, Idle, "idle")
              ELSE Apply(c, IF otp.active THEN Store ELSE Activate, actor[c], next)
           /\ UNCHANGED secrets
  /\ UNCHANGED <<scene, up, one_time, registry, tx, published, calls, faults, grants>>

\* reset.user ends with otp.destroy: a missing secret is no error.
reset_destroy(c) ==
  /\ up /\ actor[c].pc = "destroy"
  /\ Apply(c, otp_destroy(actor[c].login), Idle, "idle")
  /\ UNCHANGED <<scene, up, one_time, registry, tx, published, secrets, calls, faults, grants>>

GiveAcl(c) ==
  /\ up /\ actor[c].pc = "format"
  /\ actor' = [actor EXCEPT ![c] = [Idle EXCEPT !.pc = IF acl_format(actor[c].acls) = None THEN "idle" ELSE "given"]]
  /\ Unchanged /\ UNCHANGED <<one_time, secrets, calls, grants>>

\* No time is left, or a service does not answer.
CallFails(c) ==
  /\ up /\ actor[c].pc \in {"otp", "format", "destroy"} /\ faults < MaxFaults
  /\ faults' = faults + 1
  /\ actor' = Denied(c)
  /\ UNCHANGED <<scene, up, mem, keys_by_k, one_time, registry, tx, published, secrets, calls, dirty, mute, grants>>

----------------------------------------------------------------------------
(* The node restarts: calls, events, one-time users and inactive secrets are lost.   *)
(* The maps are loaded; two keys with one value keep the service down.     *)

Stored(v) == {p \in Path : p[1] = "key" /\ registry[p] # None /\ registry[p].k = v}

Restart ==
  /\ up /\ faults < MaxFaults
  /\ faults' = faults + 1
  /\ up' = \A v \in Value : Cardinality(Stored(v)) <= 1
  /\ mem' = registry
  /\ keys_by_k' = [v \in Value |-> IF Stored(v) = {} THEN None ELSE (CHOOSE p \in Stored(v) : TRUE)[2]]
  /\ one_time' = [l \in OneTime |-> None]
  /\ actor' = [a \in Actor |-> Idle] /\ tx' = <<>>
  /\ dirty' = {}
  /\ mute' = mute \union UNION {Pending(actor[a]) : a \in Actor} \union {tx[n].path : n \in 1..Len(tx)}
             \union {p \in Path : mem[p] # registry[p]}
  /\ UNCHANGED <<scene, registry, published, secrets, calls, grants>>

Next ==
  \/ \E a \in Admin : \/ \E cmd \in scene.commands : Administer(a, cmd)
                      \/ \E l \in OneTime : user_create_one_time(a, l)
  \/ clear_one_time_users
  \/ \E a \in Actor : WriteRegistry(a) \/ \E done \in BOOLEAN : RegistryFails(a, done)
  \/ Publish
  \/ \E c \in Caller :
       \/ \E v \in scene.try_keys : auth_key(c, v)
       \/ \E t \in scene.try_users, code \in 0..Secret :
            \/ \E verified \in BOOLEAN : auth_user(c, t[1], t[2], code, verified)
            \/ reset_user(c, t[1], t[2], code)
       \/ \E l \in OneTime, right \in BOOLEAN : auth_one_time(c, l, right)
       \/ otp_check(c) \/ reset_destroy(c) \/ GiveAcl(c) \/ CallFails(c)
  \/ Restart

Spec == Init /\ [][Next]_vars

----------------------------------------------------------------------------
(* Properties *)

\* The two indexes of KeyDb always hold the same keys, each value under the id that has it:
\* what a key is replaced by, or removed with, never goes on authenticating.  A deployment
\* that fails halfway, and a reload, keep this too.
KeyIndexesAgree ==
  up => /\ \A v \in Value : keys_by_k[v] # None => /\ mem[Key(keys_by_k[v])] # None
                                                  /\ mem[Key(keys_by_k[v])].k = v
        /\ \A p \in Path : p[1] = "key" /\ mem[p] # None => keys_by_k[mem[p].k] = p[2]

\* An object no call is writing is in the registry as it is in memory, unless calls about it
\* overlapped or failed: a restart changes no account.
RegistryFollows ==
  \A p \in Path \ dirty : (\A a \in Actor : p \notin Pending(actor[a])) => registry[p] = Kept(p, mem[p])

\* Once the events about an object are out, the last one tells what the object is (a user's
\* profile aside): services that keep sessions by these events end the right ones.
EventsFollow ==
  \A p \in Path \ mute :
    /\ p[1] # "otp" /\ \A a \in Actor : p \notin Pending(actor[a])
    /\ \A n \in 1..Len(tx) : tx[n].path # p
    => IF p[1] = "user" /\ mem[p] # None
       THEN published[p] # None /\ published[p].password = mem[p].password
       ELSE published[p] = mem[p]

\* What acl.format gives for an account is the union of its lists, whatever their order: a
\* field nobody has is absent, a key of a field has the values of all lists that have it.
FormatIsUnion ==
  \A x, y \in {p[2] : p \in {q \in Path : q[1] = "acl"}} :
    LET found == {i \in {x, y} : mem[Acl(i)] # None}
        Having(f, k) == {i \in found : mem[Acl(i)][f] # None /\ k \in DOMAIN mem[Acl(i)][f]}
        Union(f) == IF \A i \in found : mem[Acl(i)][f] = None THEN None
                    ELSE [k \in UNION {DOMAIN mem[Acl(i)][f] : i \in {j \in found : mem[Acl(j)][f] # None}} |->
                            UNION {mem[Acl(i)][f][k] : i \in Having(f, k)}]
    IN acl_format(<<x, y>>) # None =>
         /\ acl_format(<<x, y>>).from = found
         /\ acl_format(<<x, y>>).admin = \E i \in found : mem[Acl(i)].admin
         /\ acl_format(<<x, y>>).read = Union("read") /\ acl_format(<<x, y>>).deny = Union("deny")

\* A one-time account opens one session, whoever else tries it at the same time.
OneTimeOnce == \A l \in OneTime : grants[l] <= 1
=============================================================================
