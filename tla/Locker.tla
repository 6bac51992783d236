------------------------------- MODULE Locker -------------------------------
(***************************************************************************)
(* The shared locks of svc/svc-locker.  A lock is acquired for a time,     *)
(* after which it is released by itself, and released by "unlock", which   *)
(* does not say who asks.  Clients may die with the lock, be slower than   *)
(* they had announced, or give up a call whose answer comes late.          *)
(***************************************************************************)
EXTENDS Naturals

CONSTANTS
    Client,
    MaxCalls,   \* bound: lock calls of a client
    None

VARIABLES
    holder,     \* the client whose call acquired the lock, None when it is free
    expiring,   \* the lock was acquired with an expiration
    client,     \* per client: "idle", "asks", "answered", "works", "unlocks" or "dead"
    queue,      \* calls that wait for the lock
    calls,
    overrun     \* a lock has expired before its client released it

lockerVars == <<holder, expiring, client, queue, calls, overrun>>

LockerInit ==
    /\ holder = None /\ expiring = FALSE
    /\ client = [c \in Client |-> "idle"]
    /\ queue = {} /\ calls = [c \in Client |-> 0]
    /\ overrun = FALSE

lock(c) ==
    /\ client[c] = "idle" /\ calls[c] < MaxCalls
    /\ client' = [client EXCEPT ![c] = "asks"]
    /\ queue' = queue \union {c} /\ calls' = [calls EXCEPT ![c] = @ + 1]
    /\ UNCHANGED <<holder, expiring, overrun>>

\* factory.acquire; the caller may have given up
Acquire(c) ==
    /\ c \in queue /\ holder = None
    /\ queue' = queue \ {c}
    /\ holder' = c /\ expiring' = TRUE
    /\ client' = [client EXCEPT ![c] = IF @ = "asks" THEN "answered" ELSE @]
    /\ UNCHANGED <<calls, overrun>>

\* the time-out of the call: the wait is dropped
LockTimeout(c) ==
    /\ c \in queue
    /\ queue' = queue \ {c}
    /\ client' = [client EXCEPT ![c] = IF @ = "asks" THEN "idle" ELSE @]
    /\ UNCHANGED <<holder, expiring, calls, overrun>>

\* the client's own time-out; the service does not know of it
CallerGivesUp(c) ==
    /\ client[c] \in {"asks", "answered"}
    /\ client' = [client EXCEPT ![c] = "idle"]
    /\ UNCHANGED <<holder, expiring, queue, calls, overrun>>

GotLock(c) ==
    /\ client[c] = "answered"
    /\ client' = [client EXCEPT ![c] = "works"]
    /\ UNCHANGED <<holder, expiring, queue, calls, overrun>>

Finish(c) ==
    /\ client[c] = "works"
    /\ client' = [client EXCEPT ![c] = "unlocks"]
    /\ UNCHANGED <<holder, expiring, queue, calls, overrun>>

\* release(id, None): the lock of whoever has it
unlock(c) ==
    /\ client[c] = "unlocks"
    /\ client' = [client EXCEPT ![c] = "idle"]
    /\ holder' = None /\ expiring' = FALSE
    /\ UNCHANGED <<queue, calls, overrun>>

Dies(c) ==
    /\ client[c] # "dead"
    /\ client' = [client EXCEPT ![c] = "dead"]
    /\ UNCHANGED <<holder, expiring, queue, calls, overrun>>

Expire ==
    /\ holder # None /\ expiring
    /\ holder' = None /\ expiring' = FALSE
    /\ overrun' = (overrun \/ client[holder] \in {"answered", "works", "unlocks"})
    /\ UNCHANGED <<client, queue, calls>>

ClientStep(c) ==
    \/ lock(c) \/ Acquire(c) \/ LockTimeout(c) \/ CallerGivesUp(c)
    \/ GotLock(c) \/ Finish(c) \/ unlock(c) \/ Dies(c)

LockerNext == (\E c \in Client : ClientStep(c)) \/ Expire

\* The timers of the service run; nothing is assumed of the clients
LockerSpec == LockerInit /\ [][LockerNext]_lockerVars /\ WF_lockerVars(Expire) /\ \A c \in Client : WF_lockerVars(LockTimeout(c))

(***************************************************************************)
(* Properties                                                              *)
(***************************************************************************)

\* Two clients work under the lock at the same time only if one of them has
\* kept it longer than it had announced: then its late "unlock" releases
\* the lock of the next one (release with None in main.rs).
LockExclusive ==
    ~overrun => \A c, d \in Client : client[c] = "works" /\ client[d] = "works" => c = d

=============================================================================
