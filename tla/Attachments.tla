----------------------------- MODULE Attachments -----------------------------
(***************************************************************************)
(* The cache of pasted files of a host: uploads that come in chunks, the   *)
(* files they become, and what a daemon that died left of them.            *)
(***************************************************************************)
EXTENDS Naturals, FiniteSets

CONSTANTS
  Uploads,
  MaxFile,       \* 64 MiB in the code
  MaxCache,      \* 2 GiB
  MaxPending,    \* 8
  MaxEntries,    \* 4096
  MaxCrashes     \* bound

AttachmentAssumption == {MaxFile, MaxCache, MaxPending, MaxEntries, MaxCrashes} \subseteq Nat

VARIABLES
  pending,       \* uploads under way: bytes declared, bytes confirmed, bytes in the file, touched lately?
  bytes, files,  \* everything else in the directory: files that are complete, and leftovers
  client,        \* upload -> "new", "sending", "failed" (it still has to abort), "gone", "done"
  crashes

vars == <<pending, bytes, files, client, crashes>>

Init ==
  /\ pending = [u \in {} |-> 0] /\ bytes = 0 /\ files = 0
  /\ client = [u \in Uploads |-> "new"] /\ crashes = 0

Moves(u, phase) == client' = [client EXCEPT ![u] = phase]
Keep(us) == [u \in us |-> pending[u]]

\* An admission drops the uploads nobody has touched for ten minutes.
Alive == {u \in DOMAIN pending : pending[u].fresh}

\* The bytes of some uploads: those in their files, and those of the rest that
\* has not been confirmed.
Stored(us) == {b \in us \X (1 .. MaxFile) : b[2] <= pending[b[1]].stored}
Rest(us) == {b \in us \X (1 .. MaxFile) : pending[b[1]].written < b[2] /\ b[2] <= pending[b[1]].size}

\* What the uploads under way may still write counts as used.
\* (Fault: it does not.)
ReservedNone == 0
ReservedRest == Cardinality(Rest(Alive))
Reserved == ReservedRest
Used == bytes + Cardinality(Stored(Alive))

\* The scan refuses at the entry after the last: there may be one more than
\* the limit.
Admits(size) ==
  /\ size <= MaxFile
  /\ Cardinality(Alive) < MaxPending
  /\ files + Cardinality(Alive) <= MaxEntries
  /\ Used + Reserved + size <= MaxCache

Begin(u, size) ==
  /\ client[u] = "new"
  /\ IF Admits(size)
     THEN /\ pending' = [v \in Alive \cup {u} |->
                           IF v = u THEN [size |-> size, written |-> 0, stored |-> 0, fresh |-> TRUE] ELSE pending[v]]
          /\ Moves(u, "sending")
     ELSE pending' = Keep(Alive) /\ Moves(u, "gone")
  /\ UNCHANGED <<bytes, files, crashes>>

\* Chunks come in order, each at the offset confirmed so far.
Takes(u, n) == u \in DOMAIN pending /\ pending[u].fresh /\ pending[u].written + n <= pending[u].size

Chunk(u, n) ==
  /\ client[u] = "sending"
  /\ IF Takes(u, n)
     THEN pending' = [pending EXCEPT ![u].written = @ + n, ![u].stored = @ + n] /\ UNCHANGED client
     ELSE UNCHANGED pending /\ Moves(u, "failed")
  /\ UNCHANGED <<bytes, files, crashes>>
\* A write fails halfway: what got into the file stays there, the offset does not move.
ChunkFails(u, n) ==
  /\ client[u] = "sending" /\ Takes(u, n + 1)
  /\ pending' = [pending EXCEPT ![u].stored = @ + n] /\ Moves(u, "failed")
  /\ UNCHANGED <<bytes, files, crashes>>
\* An answer is lost, or the file the client reads has changed its length.
GivesUp(u) ==
  /\ client[u] = "sending" /\ Moves(u, "failed")
  /\ UNCHANGED <<pending, bytes, files, crashes>>

Finish(u) ==
  /\ client[u] = "sending"
  /\ IF u \in DOMAIN pending /\ pending[u].fresh /\ pending[u].written = pending[u].size
     THEN /\ pending' = Keep(DOMAIN pending \ {u}) /\ Moves(u, "done")
          /\ bytes' = bytes + pending[u].stored /\ files' = files + 1
     ELSE UNCHANGED <<pending, bytes, files>> /\ Moves(u, "failed")
  /\ UNCHANGED crashes
\* It cannot be saved: it is dropped with its upload.
FinishFails(u) ==
  /\ client[u] = "sending" /\ u \in DOMAIN pending /\ Moves(u, "failed")
  /\ pending' = Keep(DOMAIN pending \ {u}) /\ UNCHANGED <<bytes, files, crashes>>

\* A client aborts after any error, once; the request may never arrive.
Abort(u) ==
  /\ client[u] = "failed" /\ Moves(u, "gone") /\ pending' = Keep(DOMAIN pending \ {u})
  /\ UNCHANGED <<bytes, files, crashes>>
AbortLost(u) ==
  /\ client[u] = "failed" /\ Moves(u, "gone")
  /\ UNCHANGED <<pending, bytes, files, crashes>>

Expire(u) ==
  /\ u \in Alive /\ pending' = [pending EXCEPT ![u].fresh = FALSE]
  /\ UNCHANGED <<bytes, files, client, crashes>>

\* The daemon dies: its uploads are forgotten, their files stay.
Crash ==
  /\ crashes < MaxCrashes /\ crashes' = crashes + 1 /\ pending # [u \in {} |-> 0]
  /\ bytes' = bytes + Cardinality(Stored(DOMAIN pending))
  /\ files' = files + Cardinality(DOMAIN pending) /\ pending' = [u \in {} |-> 0]
  /\ UNCHANGED client

Next ==
  \/ \E u \in Uploads :
       \/ \E size \in 0 .. MaxFile + 1 : Begin(u, size)
       \/ \E n \in 1 .. MaxFile : Chunk(u, n) \/ ChunkFails(u, n)
       \/ GivesUp(u) \/ Finish(u) \/ FinishFails(u) \/ Abort(u) \/ AbortLost(u) \/ Expire(u)
  \/ Crash

Spec == Init /\ [][Next]_vars

-----------------------------------------------------------------------------
(* Safety. *)

TypeOK ==
  /\ DOMAIN pending \subseteq Uploads /\ bytes \in Nat /\ files \in Nat
  /\ \A u \in DOMAIN pending : pending[u].written <= pending[u].stored /\ pending[u].stored <= pending[u].size

\* Whatever is abandoned, fails halfway, expires or is left by a crash, the
\* directory never grows beyond its limit, nor beyond one file more than its
\* limit of entries.
CacheBounded ==
  /\ bytes + Cardinality(Stored(DOMAIN pending)) <= MaxCache
  /\ files + Cardinality(DOMAIN pending) <= MaxEntries + 1

-----------------------------------------------------------------------------
(* Why it is so: an inductive invariant. *)

\* An upload is not larger than a file may be, and as long as its client goes on
\* its file holds what was confirmed.
UploadShape(u, p) ==
  /\ p.size \in 0 .. MaxFile /\ p.written \in Nat /\ p.stored \in Nat /\ p.fresh \in BOOLEAN
  /\ p.written <= p.stored /\ p.stored <= p.size
  /\ p = [size |-> p.size, written |-> p.written, stored |-> p.stored, fresh |-> p.fresh]
  /\ client[u] # "new" /\ (client[u] = "sending" => p.stored = p.written)

\* The bytes that have been declared.
Declared(us) == {b \in us \X (1 .. MaxFile) : b[2] <= pending[b[1]].size}

CacheKept ==
  /\ bytes \in Nat /\ files \in Nat
  /\ client \in [Uploads -> {"new", "sending", "failed", "gone", "done"}]
  /\ IsFiniteSet(DOMAIN pending) /\ DOMAIN pending \subseteq Uploads
  /\ pending = [u \in DOMAIN pending |-> pending[u]] /\ \A u \in DOMAIN pending : UploadShape(u, pending[u])
  /\ bytes + Cardinality(Declared(DOMAIN pending)) <= MaxCache
  /\ files + Cardinality(DOMAIN pending) <= MaxEntries + 1
=============================================================================
