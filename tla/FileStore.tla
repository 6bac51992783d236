------------------------------ MODULE FileStore ------------------------------
(***************************************************************************)
(* The file calls of the file manager (svc/filemgr): file.put, file.get,   *)
(* file.unlink, list and sh.  Calls run at the same time and each of them  *)
(* makes several file operations; file.put removes the file, creates it    *)
(* and writes it, and nothing keeps two of them apart.                     *)
(*                                                                         *)
(* A file is what its directory entry leads to, a node of the file system. *)
(* The content of a node is a sequence of [by, n]: the n-th part of what   *)
(* the call wrote.                                                         *)
(***************************************************************************)
EXTENDS Naturals, Sequences, SequencesExt, FiniteSets

CONSTANTS
    Call,       \* calls
    Requests,   \* what the calls may ask: [method, len, sum, extract, allowed], with len the parts
                \* of the content, sum: the given checksum is right, allowed: format_path
                \* accepts the path
    MaxFaults,  \* bound: operations that fail
    None

VARIABLES
    req,        \* per call: its request, or None
    pc,         \* per call: its next operation
    fh,         \* per call: the node it has open, or None
    offset,     \* per call: where it writes next
    entry,      \* the node the path leads to, or None
    content,    \* per node: its content; a node is named by the call that created it
    temps,      \* temporary files
    got,        \* per call: what file.get has read
    result,     \* per call: "none", "ok" or "error"
    shared,     \* two puts have had the same node open
    faults

vars == <<req, pc, fh, offset, entry, content, temps, got, result, shared, faults>>

Init ==
    /\ req = [c \in Call |-> None]
    /\ pc = [c \in Call |-> "idle"]
    /\ fh = [c \in Call |-> None]
    /\ offset = [c \in Call |-> 0]
    /\ entry = None /\ content = [c \in Call |-> <<>>]
    /\ temps = {}
    /\ got = [c \in Call |-> <<>>]
    /\ result = [c \in Call |-> "none"]
    /\ shared = FALSE /\ faults = 0

Fault == faults < MaxFaults /\ faults' = faults + 1

Goto(c, label) == pc' = [pc EXCEPT ![c] = label]

Ends(c, r) ==
    /\ Goto(c, "done")
    /\ result' = [result EXCEPT ![c] = r]

files == <<entry, content, temps>>

\* relative to the runtime directory and not protected
format_path(r) == r.allowed

\* where a request begins, after its parameters and its path were accepted;
\* file.put compares the checksum first
FirstOperation(r) ==
    CASE r.method = "file.put" /\ r.extract -> "temp"
      [] r.method = "file.put" -> "remove"
      [] r.method = "file.get" -> "stat"
      [] r.method = "file.unlink" -> "unlink"
      [] r.method = "list" -> "list"
      [] r.method = "sh" -> "sh"

Begin(c, r) ==
    /\ pc[c] = "idle" /\ r \in Requests
    /\ req' = [req EXCEPT ![c] = r]
    /\ IF (r.method # "sh" /\ ~format_path(r)) \/ (r.method = "file.put" /\ ~r.sum)
       THEN Ends(c, "error")
       ELSE Goto(c, FirstOperation(r)) /\ UNCHANGED result
    /\ UNCHANGED <<fh, offset, files, got, shared, faults>>

(***************************************************************************)
(* file.put                                                                *)
(***************************************************************************)

\* remove_file, its result is not looked at
PutRemove(c) ==
    /\ pc[c] = "remove"
    /\ entry' = None
    /\ Goto(c, "open")
    /\ UNCHANGED <<req, fh, offset, content, temps, got, result, shared, faults>>

\* Faulty variant of PutOpen: the file is opened without truncating it.
PutOpenKeeps(c) ==
    /\ pc[c] = "open"
    /\ LET node == IF entry = None THEN c ELSE entry
       IN /\ fh' = [fh EXCEPT ![c] = node]
          /\ entry' = node
    /\ Goto(c, "chmod")
    /\ UNCHANGED <<req, offset, content, temps, got, result, shared, faults>>

\* create, or truncate what another call has created meanwhile
PutOpen(c) ==
    /\ pc[c] = "open"
    /\ LET node == IF entry = None THEN c ELSE entry
       IN /\ fh' = [fh EXCEPT ![c] = node]
          /\ entry' = node
          /\ content' = [content EXCEPT ![node] = <<>>]
          /\ shared' = (shared \/ \E o \in Call \ {c} : fh[o] = node)
    /\ Goto(c, "chmod")
    /\ UNCHANGED <<req, offset, temps, got, result, faults>>

\* set_permissions goes by the path
PutChmod(c) ==
    /\ pc[c] = "chmod"
    /\ IF entry = None
       THEN /\ Ends(c, "error") /\ fh' = [fh EXCEPT ![c] = None]
       ELSE Goto(c, "write") /\ UNCHANGED <<fh, result>>
    /\ UNCHANGED <<req, offset, files, got, shared, faults>>

\* zeros, where a file was truncated under a call that goes on writing
Hole == [by |-> None, n |-> 0]

Written(old, at, part) ==
    [k \in 1 .. IF Len(old) > at THEN Len(old) ELSE at + 1 |->
        IF k = at + 1 THEN part ELSE IF k <= Len(old) THEN old[k] ELSE Hole]

\* write_all writes at the call's own offset, part by part
PutWrite(c) ==
    /\ pc[c] = "write"
    /\ IF offset[c] < req[c].len
       THEN /\ content' = [content EXCEPT ![fh[c]] =
                              Written(@, offset[c], [by |-> c, n |-> offset[c] + 1])]
            /\ offset' = [offset EXCEPT ![c] = @ + 1]
            /\ UNCHANGED <<pc, fh, result>>
       ELSE /\ Ends(c, "ok") /\ fh' = [fh EXCEPT ![c] = None]
            /\ UNCHANGED <<content, offset>>
    /\ UNCHANGED <<req, entry, temps, got, shared, faults>>

\* disk full, no permission: the file stays as it is
PutFails(c) ==
    /\ pc[c] \in {"open", "write"} /\ Fault
    /\ Ends(c, "error") /\ fh' = [fh EXCEPT ![c] = None]
    /\ UNCHANGED <<req, offset, files, got, shared>>

\* an archive goes to a temporary file of its own
PutTemp(c) ==
    /\ pc[c] = "temp"
    /\ temps' = temps \union {c}
    /\ \/ Goto(c, "extract") /\ UNCHANGED <<result, faults>>
       \/ Fault /\ Ends(c, "error")
    /\ UNCHANGED <<req, fh, offset, entry, content, got, shared>>

\* extract_archive: tar or unzip, with a time-out
extract_archive(c) ==
    /\ pc[c] = "extract"
    /\ \/ Goto(c, "clean ok") /\ UNCHANGED faults
       \/ Fault /\ Goto(c, "clean error")
    /\ UNCHANGED <<req, fh, offset, files, got, result, shared>>

RemoveTemp(c) ==
    /\ pc[c] \in {"clean ok", "clean error"}
    /\ temps' = temps \ {c}
    /\ Ends(c, IF pc[c] = "clean ok" THEN "ok" ELSE "error")
    /\ UNCHANGED <<req, fh, offset, entry, content, got, shared, faults>>

(***************************************************************************)
(* The other calls                                                         *)
(***************************************************************************)

GetStat(c) ==
    /\ pc[c] = "stat"
    /\ IF entry = None THEN Ends(c, "error") ELSE Goto(c, "read") /\ UNCHANGED result
    /\ UNCHANGED <<req, fh, offset, files, got, shared, faults>>

\* the checksum returned is that of what was read
GetRead(c) ==
    /\ pc[c] = "read"
    /\ IF entry = None
       THEN Ends(c, "error") /\ UNCHANGED got
       ELSE got' = [got EXCEPT ![c] = content[entry]] /\ Ends(c, "ok")
    /\ UNCHANGED <<req, fh, offset, files, shared, faults>>

Unlink(c) ==
    /\ pc[c] = "unlink"
    /\ entry' = None
    /\ Ends(c, "ok")
    /\ UNCHANGED <<req, fh, offset, content, temps, got, shared, faults>>

\* list reads the directory; sh runs a command with a time-out and may fail
Other(c) ==
    /\ pc[c] \in {"list", "sh"}
    /\ \/ Ends(c, "ok") /\ UNCHANGED faults
       \/ Fault /\ Ends(c, "error")
    /\ UNCHANGED <<req, fh, offset, files, got, shared>>

CallStep(c) ==
    \/ PutRemove(c) \/ PutOpen(c) \/ PutChmod(c) \/ PutWrite(c) \/ PutFails(c)
    \/ PutTemp(c) \/ extract_archive(c) \/ RemoveTemp(c)
    \/ GetStat(c) \/ GetRead(c) \/ Unlink(c) \/ Other(c)

Next == \E c \in Call : CallStep(c) \/ \E r \in Requests : Begin(c, r)

Spec == Init /\ [][Next]_vars

(***************************************************************************)
(* Properties                                                              *)
(***************************************************************************)

IsPut(c) == req[c] # None /\ req[c].method = "file.put" /\ ~req[c].extract

\* What file.get returns and what a file holds is the content of one
\* file.put, or the beginning of it while that call is writing or after it
\* failed.  It takes two puts that have the same file open to mix their
\* contents; a put that removes the file under another one does no harm.
ContentsOfOnePut ==
    ~shared =>
        \A s \in {content[n] : n \in Call} \union {got[c] : c \in Call} :
            s # <<>> => \E c \in Call : /\ IsPut(c)
                                        /\ Len(s) <= req[c].len
                                        /\ s = [k \in 1 .. Len(s) |-> [by |-> c, n |-> k]]
=============================================================================
