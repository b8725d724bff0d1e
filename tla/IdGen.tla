------------------------------- MODULE IdGen -------------------------------
(***************************************************************************)
(* Generation of transaction ids and object ids (varsup.c).                *)
(*                                                                         *)
(* Page 0 of pg_variable holds, for each kind of id, the last id that may  *)
(* have been handed out.  A thread that finds the shared cache empty marks *)
(* it busy (count = -1), releases the spin lock, advances the page by a    *)
(* prefetch under an exclusive relation lock, flushes the page, takes the  *)
(* spin lock again and installs the reserved range.  Everybody else spins  *)
(* until the range is there.  A crash forgets the cache and keeps the disk.*)
(*                                                                         *)
(* The page is flushed from its shadow copy, so the global                 *)
(* buffer_generation, which belongs to the writer thread, decides what     *)
(* reaches the disk: the writer's steps that set it are actions here.      *)
(***************************************************************************)
EXTENDS BufferIO, Sequences

CONSTANTS Threads,          \* backends
          NoThread,         \* nobody
          StartPrefetch,    \* prefetch of each kind before start-up is done
          RunPrefetch,      \* prefetch of each kind from then on
          BootstrapObjectIdData,  \* first object id of a virgin database
          FirstTransactionId,     \* nextXidData of a virgin database
          MaxId,            \* bound on reserved ids
          MaxGeneration,    \* bound on write groups
          MaxGranted        \* bound on ids handed out, of each kind

Kinds == {"xid", "oid"}

ASSUME PrefetchAssumption ==
  /\ StartPrefetch \in [Kinds -> Nat \ {0}]
  /\ RunPrefetch \in [Kinds -> Nat \ {0}]
ASSUME BaseAssumption ==
  /\ BootstrapObjectIdData \in Nat \ {0}
  /\ FirstTransactionId \in Nat \ {0}
ASSUME BoundAssumption ==
  /\ MaxId \in Nat
  /\ MaxGeneration \in Nat
  /\ MaxGranted \in Nat
ASSUME ThreadAssumption == NoThread \notin Threads

VARIABLES
  vbuf,      \* buffer of pg_variable page 0; its data is [Kinds -> Nat]
  disk,      \* the same page on disk
  next,      \* ShmemVariableCache->nextXid, nextoid
  count,     \* ShmemVariableCache->xid_count, oid_queue_count
  prefetch,  \* xid_prefetch, oid_prefetch
  relLock,   \* holder of AccessExclusiveLock on pg_variable
  pc, want, got,            \* per thread: place, kind asked for, value fetched
  bufgen,    \* buffer_generation (bufmgr.c)
  grpgen,    \* generation of the write group being filled (dbwriter.c)
  flushing,  \* the writer is inside FlushWriteGroup
  granted    \* history: ids handed out, oldest first

vars == <<vbuf, disk, next, count, prefetch, relLock, pc, want, got,
          bufgen, grpgen, flushing, granted>>
writerVars == <<bufgen, grpgen, flushing>>

PcValues == {"idle", "test", "lock", "bump", "flush", "install", "failed"}

Pages == [Kinds -> Nat]
Buffers == [data : Pages, shadow : Pages, generation : Nat, dirty : BOOLEAN,
            logged : BOOLEAN, op : {"none", "log", "write"}]

ZeroPage == [k \in Kinds |-> 0]
Virgin == [k \in Kinds |-> IF k = "xid" THEN FirstTransactionId ELSE 0]

\* State of a fresh server process over the page p that is on disk.
Fresh(p) ==
  /\ vbuf' = ReadIn(p, ZeroPage)
  /\ next' = ZeroPage
  /\ count' = ZeroPage
  /\ prefetch' = StartPrefetch
  /\ relLock' = NoThread
  /\ pc' = [t \in Threads |-> "idle"]
  /\ want' = [t \in Threads |-> "xid"]
  /\ got' = [t \in Threads |-> 0]
  /\ bufgen' = 0 /\ grpgen' = 0 /\ flushing' = FALSE

Init ==
  /\ disk = Virgin
  /\ vbuf = ReadIn(Virgin, ZeroPage)
  /\ next = ZeroPage
  /\ count = ZeroPage
  /\ prefetch = StartPrefetch
  /\ relLock = NoThread
  /\ pc = [t \in Threads |-> "idle"]
  /\ want = [t \in Threads |-> "xid"]
  /\ got = [t \in Threads |-> 0]
  /\ bufgen = 0 /\ grpgen = 0 /\ flushing = FALSE
  /\ granted = [k \in Kinds |-> <<>>]
-----------------------------------------------------------------------------
\* Entry of GetNewTransactionId and of GetNewObjectId.
Enter(t, k) ==
  /\ pc[t] = "idle"
  /\ pc' = [pc EXCEPT ![t] = "test"]
  /\ want' = [want EXCEPT ![t] = k]
  /\ UNCHANGED <<vbuf, disk, next, count, prefetch, relLock, got,
                 writerVars, granted>>

\* The cache has an id: one critical section of the spin lock.
Take(t) ==
  LET k == want[t] IN
  /\ pc[t] = "test"
  /\ count[k] > 0
  /\ Len(granted[k]) < MaxGranted   \* bound
  /\ granted' = [granted EXCEPT ![k] = Append(@, next[k])]
  /\ next' = [next EXCEPT ![k] = @ + 1]
  /\ count' = [count EXCEPT ![k] = @ - 1]
  /\ pc' = [pc EXCEPT ![t] = "idle"]
  /\ UNCHANGED <<vbuf, disk, prefetch, relLock, want, got, writerVars>>

\* Value returned by the fetch; a virgin database has an invalid nextOid.
Base(k, page) ==
  IF k = "oid" /\ page[k] = 0 THEN BootstrapObjectIdData ELSE page[k]

\* The cache is empty and nobody refills it: this thread will.
StartFetch(t) ==
  LET k == want[t] IN
  /\ pc[t] = "test"
  /\ count[k] = 0
  /\ Base(k, vbuf.data) + prefetch[k] <= MaxId   \* bound
  /\ count' = [count EXCEPT ![k] = -1]
  /\ pc' = [pc EXCEPT ![t] = "lock"]
  /\ UNCHANGED <<vbuf, disk, next, prefetch, relLock, want, got,
                 writerVars, granted>>

\* Mutant: the relation lock does not exclude.
LockIgnored(t) ==
  /\ pc[t] = "lock"
  /\ relLock' = t
  /\ pc' = [pc EXCEPT ![t] = "bump"]
  /\ UNCHANGED <<vbuf, disk, next, count, prefetch, want, got,
                 writerVars, granted>>

LockVariableRelation(t) ==
  /\ pc[t] = "lock"
  /\ relLock = NoThread
  /\ relLock' = t
  /\ pc' = [pc EXCEPT ![t] = "bump"]
  /\ UNCHANGED <<vbuf, disk, next, count, prefetch, want, got,
                 writerVars, granted>>

\* ReadBuffer fails: elog(ERROR) leaves the busy mark behind.
FetchError(t) ==
  /\ pc[t] = "bump"
  /\ relLock' = NoThread
  /\ pc' = [pc EXCEPT ![t] = "failed"]
  /\ UNCHANGED <<vbuf, disk, next, count, prefetch, want, got,
                 writerVars, granted>>

\* VariableRelationGetNextXid/Oid up to the change of the page.
Bump(t) ==
  LET k == want[t]
      b == BufferGetBlock(vbuf, bufgen)
      base == Base(k, b.data)
  IN
  /\ pc[t] = "bump"
  /\ got' = [got EXCEPT ![t] = base]
  /\ vbuf' = [b EXCEPT !.data[k] = base + prefetch[k]]
  /\ pc' = [pc EXCEPT ![t] = "flush"]
  /\ UNCHANGED <<disk, next, count, prefetch, relLock, want,
                 writerVars, granted>>

\* Mutant: the page is not copied again for the flush.
FlushStale(t) ==
  LET a == AdvanceBufferIO(WriteBufferIO(vbuf, "flush"), bufgen, FALSE) IN
  /\ pc[t] = "flush"
  /\ disk' = a.shadow
  /\ vbuf' = TerminateBufferIO(a)
  /\ relLock' = NoThread
  /\ pc' = [pc EXCEPT ![t] = "install"]
  /\ UNCHANGED <<next, count, prefetch, want, got, writerVars, granted>>

\* FlushBuffer, then the relation lock is released.
Flush(t) ==
  LET a == AdvanceBufferIO(WriteBufferIO(vbuf, "flush"), bufgen, TRUE) IN
  /\ pc[t] = "flush"
  /\ disk' = a.shadow
  /\ vbuf' = TerminateBufferIO(a)
  /\ relLock' = NoThread
  /\ pc' = [pc EXCEPT ![t] = "install"]
  /\ UNCHANGED <<next, count, prefetch, want, got, writerVars, granted>>

\* Mutant: the busy mark stays.
InstallNot(t) ==
  LET k == want[t] IN
  /\ pc[t] = "install"
  /\ next' = [next EXCEPT ![k] = got[t] + 1]
  /\ count' = count
  /\ pc' = [pc EXCEPT ![t] = "test"]
  /\ UNCHANGED <<vbuf, disk, prefetch, relLock, want, got,
                 writerVars, granted>>

\* Back under the spin lock with the reserved range.
Install(t) ==
  LET k == want[t] IN
  /\ pc[t] = "install"
  /\ next' = [next EXCEPT ![k] = got[t] + 1]
  /\ count' = [count EXCEPT ![k] = prefetch[k]]
  /\ pc' = [pc EXCEPT ![t] = "test"]
  /\ UNCHANGED <<vbuf, disk, prefetch, relLock, want, got,
                 writerVars, granted>>

\* The end of start-up raises the prefetch while no other thread runs.
InitTransactionLowWaterMark ==
  /\ \A t \in Threads : pc[t] \in {"idle", "failed"}
  /\ prefetch # RunPrefetch
  /\ prefetch' = RunPrefetch
  /\ UNCHANGED <<vbuf, disk, next, count, relLock, pc, want, got,
                 writerVars, granted>>
-----------------------------------------------------------------------------
\* The writer starts on the current group: SetBufferGeneration(generation)
\* and the next group gets the next generation.  The SyncBuffers of the same group
\* sets the same number again.  With max_logcount > 0, which is not the default, the
\* SyncWriter also sets it, to that of the sync group: like an early flush, that is
\* outside Spec.
LogGroup ==
  /\ ~flushing
  /\ grpgen < MaxGeneration   \* bound
  /\ bufgen' = grpgen
  /\ grpgen' = grpgen + 1
  /\ UNCHANGED <<vbuf, disk, next, count, prefetch, relLock, pc, want, got,
                 flushing, granted>>

\* FlushWriteGroup logs the group under its own generation ...
FlushGroupLog ==
  /\ ~flushing
  /\ flushing' = TRUE
  /\ bufgen' = grpgen
  /\ UNCHANGED <<vbuf, disk, next, count, prefetch, relLock, pc, want, got,
                 grpgen, granted>>

\* ... and writes it out through the sync group, whose generation is 0.
FlushGroupSync ==
  /\ flushing
  /\ flushing' = FALSE
  /\ bufgen' = 0
  /\ UNCHANGED <<vbuf, disk, next, count, prefetch, relLock, pc, want, got,
                 grpgen, granted>>

\* The unpinned page leaves the pool and is read in again.
Evict ==
  /\ relLock = NoThread
  /\ vbuf' = ReadIn(disk, ZeroPage)
  /\ UNCHANGED <<disk, next, count, prefetch, relLock, pc, want, got,
                 writerVars, granted>>

Crash ==
  /\ Fresh(disk)
  /\ UNCHANGED <<disk, granted>>

Step(t) ==
  \/ \E k \in Kinds : Enter(t, k)
  \/ Take(t)
  \/ StartFetch(t)
  \/ LockVariableRelation(t)
  \/ FetchError(t)
  \/ Bump(t)
  \/ Flush(t)
  \/ Install(t)

Next ==
  \/ \E t \in Threads : Step(t)
  \/ InitTransactionLowWaterMark
  \/ LogGroup
  \/ Evict
  \/ Crash

\* The server when max_logcount is 0 and no write group is flushed before it
\* commits ...
Spec == Init /\ [][Next]_vars

\* ... and when some are.
FlushSpec == Init /\ [][Next \/ FlushGroupLog \/ FlushGroupSync]_vars

\* A thread inside the generator keeps running.
Fairness ==
  \A t \in Threads :
    WF_vars(LockVariableRelation(t) \/ Bump(t) \/ Flush(t) \/ Install(t))
FairSpec == Spec /\ Fairness
-----------------------------------------------------------------------------
TypeOK ==
  /\ vbuf \in Buffers
  /\ disk \in [Kinds -> Nat]
  /\ next \in [Kinds -> Nat]
  /\ count \in [Kinds -> Nat \cup {-1}]
  /\ prefetch \in [Kinds -> Nat \ {0}]
  /\ relLock \in Threads \cup {NoThread}
  /\ pc \in [Threads -> PcValues]
  /\ want \in [Threads -> Kinds]
  /\ got \in [Threads -> Nat]
  /\ bufgen \in Nat /\ grpgen \in Nat /\ flushing \in BOOLEAN
  /\ granted \in [Kinds -> Seq(Nat)]

\* Ids of one kind are handed out in strictly increasing order, and so never
\* twice, by whatever threads and across crashes: GetNewTransactionId and
\* GetNewObjectId refill the cache outside the spin lock, and the range they
\* install must be on disk before its first id is used.
IdsIncrease ==
  \A k \in Kinds : \A i, j \in DOMAIN granted[k] :
    i < j => granted[k][i] < granted[k][j]

\* Constraint (1) of TransRecover: "No transaction may exist higher then the
\* next available transaction recorded in the variable relation".
NoIdAboveNext ==
  \A k \in Kinds : \A i \in DOMAIN granted[k] : granted[k][i] <= disk[k]

\* ReadNewTransactionId uses nextXid as the horizon of a snapshot without
\* looking at xid_count: even while the cache is empty or being refilled,
\* every id handed out so far is below it.
HorizonAboveGranted ==
  \A k \in Kinds : next[k] > 0 =>
    \A i \in DOMAIN granted[k] : granted[k][i] < next[k]

\* Within one run of the server that horizon never moves back (a crash
\* resets it to 0).
HorizonMonotone ==
  [][\A k \in Kinds : next'[k] = 0 \/ next'[k] >= next[k]]_vars

\* The inductive strengthening of the safety properties, for a server whose
\* groups are never flushed early.  The page's copy is never ahead of
\* buffer_generation, so a flush writes the page as it stands; at most one
\* thread refills each cache, and what it fetched covers what it will install;
\* the cached range always lies at or below the page on disk.
Fetching(t) == pc[t] \in {"lock", "bump", "flush", "install"}
WriterInv ==
  /\ ~flushing
  /\ vbuf.generation <= bufgen /\ bufgen <= grpgen
PageInv ==
  /\ \A t \in Threads : pc[t] \in {"bump", "flush"} => relLock = t
  /\ \A k \in Kinds :
       \/ vbuf.data[k] = disk[k]
       \/ \E t \in Threads : pc[t] = "flush" /\ want[t] = k
FetchInv ==
  \A t \in Threads :
    /\ Fetching(t) => count[want[t]] = -1
    /\ \A u \in Threads :
         Fetching(t) /\ Fetching(u) /\ want[t] = want[u] => t = u
    /\ pc[t] = "flush" =>
         /\ vbuf.data[want[t]] = got[t] + prefetch[want[t]]
         /\ disk[want[t]] <= got[t]
    /\ pc[t] = "install" =>
         /\ disk[want[t]] = got[t] + prefetch[want[t]]
         /\ next[want[t]] <= got[t] + 1
         /\ \A i \in DOMAIN granted[want[t]] : granted[want[t]][i] <= got[t]
CacheInv ==
  \A k \in Kinds :
    /\ next[k] <= disk[k] + 1
    /\ count[k] > 0 => next[k] > 0 /\ next[k] + count[k] <= disk[k] + 1
IndInv ==
  /\ TypeOK /\ WriterInv /\ PageInv /\ FetchInv /\ CacheInv
  /\ IdsIncrease /\ NoIdAboveNext /\ HorizonAboveGranted

\* Whoever marks the cache busy refills it, unless its read of pg_variable
\* failed: everybody else spins on that mark.
FetchCompletes ==
  \A k \in Kinds :
    (count[k] = -1) ~>
      (count[k] # -1 \/ \E t \in Threads : pc[t] = "failed")
=============================================================================
