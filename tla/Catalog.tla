------------------------------ MODULE Catalog ------------------------------
(***************************************************************************)
(* How a connection keeps its cached description of a relation true: the   *)
(* lock on the relation (LockTable) and the shared invalidation queue      *)
(* (SharedInval) put together the way transactions use them.               *)
(*                                                                         *)
(* A transaction reads the queue when it starts, opens the relation from   *)
(* its cache, asks for a lock, and reads the queue again once it has it.   *)
(* A transaction that changed the relation publishes the change when its   *)
(* commit is recorded and before it gives up its locks.  The DBWriter      *)
(* reads the queue, drops what everyone has read and, when the queue is    *)
(* close to capacity, reads it in the place of the idle connections.       *)
(***************************************************************************)
EXTENDS LockTable, SharedInval

CONSTANTS MaxVersion,  \* bound on the changes of the relation
          MaxXacts     \* bound on the transactions of each connection

DBWriter == 0

\* Relation descriptors ("rel") and catalogue tuples ("sys") are cached.
ASSUME CatalogAssumption ==
  /\ DBWriter \notin Threads /\ Backends = Threads \cup {DBWriter}
  /\ Messages = {"rel", "sys"}
  /\ MaxVersion \in Nat /\ MaxXacts \in [Threads -> Nat]

VARIABLES
  version,  \* committed version of the relation
  mine,     \* has the transaction of the thread changed it?
  cache,    \* version each cache entry of the thread shows, 0 for none
  ref,      \* is the relation open (rd_refcnt > 0)?
  cpc,      \* what the thread is doing
  inTrans,  \* env->in_transaction
  forall,   \* InvalidForall, in the order it is sent
  xacts,    \* transactions run
  dpc,      \* what the DBWriter is doing
  dtodo     \* environments DiscardAllInvalids has before it

catVars == <<version, mine, cache, ref, forall, xacts>>
envVars == <<cpc, inTrans>>
dbwVars == <<dpc, dtodo>>
vars == <<lockVars, invalVars, catVars, envVars, dbwVars>>

NoCache == [rel |-> 0, sys |-> 0]

Init ==
  /\ LockInit
  /\ InvalInit
  /\ version = 1
  /\ mine = [t \in Threads |-> FALSE]
  /\ cache = [t \in Threads |-> NoCache]
  /\ ref = [t \in Threads |-> FALSE]
  /\ cpc = [t \in Threads |-> "off"]
  /\ inTrans = [t \in Threads |-> FALSE]
  /\ forall = [t \in Threads |-> <<>>]
  /\ xacts = [t \in Threads |-> 0]
  /\ dpc = "off" /\ dtodo = <<>>

Goto(t, place) == cpc' = [cpc EXCEPT ![t] = place]

\* What a scan of the catalogues shows t: its own change or the last committed.
Seen(t) == IF mine[t] THEN version + 1 ELSE version

\* CacheIdInvalidate: a tuple is dropped, a descriptor in use is rebuilt.
Invalidated(t, m) ==
  [cache EXCEPT ![t][m] = IF m = "rel" /\ @ # 0 /\ ref[t] THEN Seen(t) ELSE 0]

\* One turn of InvalidateSharedInvalid for the environment of t.
Processed(t) ==
  cache' = CASE GetResult(t) = 1  -> Invalidated(t, NextMessage(t))
             [] GetResult(t) = -1 -> [Invalidated(t, "rel") EXCEPT ![t].sys = 0]
             [] GetResult(t) = -2 -> Invalidated(t, "sys")
             [] OTHER -> cache
-----------------------------------------------------------------------------
(* Connections.                                                            *)

Connect(t) ==
  /\ cpc[t] = "off" /\ xacts[t] = 0
  /\ SIBackendInit(t)
  /\ Goto(t, "idle")
  /\ UNCHANGED <<lockVars, catVars, inTrans, dbwVars>>

Disconnect(t) ==
  /\ cpc[t] = "idle" /\ xacts[t] = MaxXacts[t]
  /\ CleanupInvalidationState(t)
  /\ Goto(t, "off")
  /\ cache' = [cache EXCEPT ![t] = NoCache]
  /\ UNCHANGED <<lockVars, version, mine, ref, forall, xacts, inTrans, dbwVars>>

\* The environment whose guard DiscardAllInvalids holds.
Drained(t) == dpc = "drain" /\ dtodo # <<>> /\ Head(dtodo) = t

\* StartTransaction up to AtStart_Cache.
StartTransaction(t) ==
  /\ cpc[t] = "idle" /\ xacts[t] < MaxXacts[t] /\ ~Drained(t)
  /\ inTrans' = [inTrans EXCEPT ![t] = TRUE]
  /\ xacts' = [xacts EXCEPT ![t] = @ + 1]
  /\ Goto(t, "discard")
  /\ UNCHANGED <<lockVars, invalVars, version, mine, cache, ref, forall, dbwVars>>

\* DiscardInvalid, one message at a time.
DiscardInvalid(t) ==
  /\ cpc[t] = "discard"
  /\ Processed(t)
  /\ SIGetDataEntry(t)
  /\ IF GetResult(t) = 0 THEN Goto(t, "run") ELSE UNCHANGED cpc
  /\ UNCHANGED <<lockVars, version, mine, ref, forall, xacts, inTrans, dbwVars>>

\* heap_open: descriptor and tuple come from the cache, or are built, before the
\* lock.
heap_open(t, m) ==
  /\ cpc[t] = "run"
  /\ Enter(t, m)
  /\ cache' = [cache EXCEPT ![t] = [x \in {"rel", "sys"} |-> IF @[x] = 0 THEN Seen(t) ELSE @[x]]]
  /\ ref' = [ref EXCEPT ![t] = TRUE]
  /\ Goto(t, "lock")
  /\ UNCHANGED <<invalVars, version, mine, forall, xacts, inTrans, dbwVars>>

\* Mutant: the queue is not read after the lock.
LockRelationAtOnce(t) ==
  /\ cpc[t] = "lock"
  /\ LockAcquire(t) \/ WaitOnLock(t) \/ ThreadSleepCancelled(t)
  /\ CASE lpc'[t] = "failed" -> Goto(t, "abort")
       [] lpc'[t] = "out" -> Goto(t, "run")
       [] OTHER -> UNCHANGED cpc
  /\ UNCHANGED <<invalVars, catVars, inTrans, dbwVars>>

\* LockRelation goes on to DiscardInvalid, NoWaitLockRelation does not.
LockRelation(t) ==
  /\ cpc[t] = "lock"
  /\ LockAcquire(t) \/ WaitOnLock(t) \/ ThreadSleepCancelled(t)
  /\ CASE lpc'[t] = "failed" -> Goto(t, "abort")
       [] lpc'[t] = "out" -> Goto(t, IF want[t] \in NoWait THEN "run" ELSE "discard")
       [] OTHER -> UNCHANGED cpc
  /\ UNCHANGED <<invalVars, catVars, inTrans, dbwVars>>

\* A command changes the relation.  CommandCounterIncrement makes the change
\* visible to the thread itself and reads the queue.
CommandCounterIncrement(t) ==
  /\ cpc[t] = "run" /\ holds[t]["AccessExclusive"] > 0 /\ ref[t]
  /\ ~mine[t] /\ version < MaxVersion
  /\ mine' = [mine EXCEPT ![t] = TRUE]
  /\ forall' = [forall EXCEPT ![t] = <<"rel", "sys">>]
  /\ cache' = [cache EXCEPT ![t] = [rel |-> version + 1, sys |-> 0]]
  /\ Goto(t, "discard")
  /\ UNCHANGED <<lockVars, invalVars, version, ref, xacts, inTrans, dbwVars>>

\* heap_close with the lock mode: the lock goes before the transaction ends.
heap_close(t, m) ==
  /\ cpc[t] = "run" /\ ~mine[t] /\ LockReleaseFind(t, m)
  /\ ref' = [ref EXCEPT ![t] = @ /\ nHolding(holds, t) > 1]
  /\ Goto(t, "unlock")
  /\ UNCHANGED <<invalVars, version, mine, cache, forall, xacts, inTrans, dbwVars>>

UnlockRelation(t) ==
  /\ cpc[t] = "unlock" /\ LockRelease(t)
  /\ Goto(t, "run")
  /\ UNCHANGED <<invalVars, catVars, inTrans, dbwVars>>

\* CommitTransaction: the change is committed, then published, then unlocked.
RecordTransactionCommit(t) ==
  /\ cpc[t] = "run"
  /\ version' = Seen(t)
  /\ mine' = [mine EXCEPT ![t] = FALSE]
  /\ ref' = [ref EXCEPT ![t] = FALSE]
  /\ Goto(t, "send")
  /\ UNCHANGED <<lockVars, invalVars, cache, forall, xacts, inTrans, dbwVars>>

RegisterSharedInvalid(t) ==
  /\ cpc[t] = "send" /\ forall[t] # <<>>
  /\ SIInsertDataEntry(Head(forall[t]))
  /\ forall' = [forall EXCEPT ![t] = Tail(@)]
  /\ UNCHANGED <<lockVars, version, mine, cache, ref, xacts, envVars, dbwVars>>

\* AbortTransaction: the rollback list undoes what the thread has cached.
AbortTransaction(t) ==
  /\ cpc[t] = "abort" \/ (cpc[t] = "run" /\ t \in Cancels)
  /\ cache' = [cache EXCEPT ![t] = IF mine[t] THEN NoCache ELSE @]
  /\ mine' = [mine EXCEPT ![t] = FALSE]
  /\ ref' = [ref EXCEPT ![t] = FALSE]
  /\ forall' = [forall EXCEPT ![t] = <<>>]
  /\ Goto(t, "send")
  /\ UNCHANGED <<lockVars, invalVars, version, xacts, inTrans, dbwVars>>

\* ThreadReleaseLocks, when there is a lock to release.
ThreadReleaseLocks(t) ==
  /\ cpc[t] = "send" /\ forall[t] = <<>>
  /\ LockReleaseAllFind(t)
  /\ Goto(t, "release")
  /\ UNCHANGED <<invalVars, catVars, inTrans, dbwVars>>

\* TransactionUnlock, after the last lock is gone.
TransactionUnlock(t) ==
  /\ \/ cpc[t] = "release" /\ LockReleaseAll(t)
     \/ cpc[t] = "send" /\ forall[t] = <<>> /\ ~holder[t] /\ UNCHANGED lockVars
  /\ ~Drained(t)
  /\ inTrans' = [inTrans EXCEPT ![t] = FALSE]
  /\ Goto(t, "idle")
  /\ UNCHANGED <<invalVars, catVars, dbwVars>>
-----------------------------------------------------------------------------
(* The DBWriter.                                                           *)

DBWriterStart ==
  /\ dpc = "off"
  /\ SIBackendInit(DBWriter)
  /\ dpc' = "idle"
  /\ UNCHANGED <<lockVars, catVars, envVars, dtodo>>

\* A write group is done; with an empty queue the rest would change nothing.
DBWriterTurn ==
  /\ dpc = "idle" /\ minMsgNum # maxMsgNum
  /\ dpc' = "read"
  /\ UNCHANGED <<lockVars, invalVars, catVars, envVars, dtodo>>

\* DiscardInvalid of the DBWriter after a write group.
DBWriterDiscard ==
  /\ dpc = "read"
  /\ SIGetDataEntry(DBWriter)
  /\ dpc' = IF GetResult(DBWriter) = 0 THEN "expire" ELSE "read"
  /\ UNCHANGED <<lockVars, catVars, envVars, dtodo>>

\* The list of environments, in some order of the connections.
Environments ==
  <<DBWriter>> \o CHOOSE s \in [1 .. Cardinality(Threads) -> Threads] : IsInjective(s)

\* The end of InvalidateSharedInvalid.  DiscardAllInvalids goes through the
\* environments in the order they were created, the DBWriter's first.  There it
\* comes back to this place, with the guards it holds: a second round of
\* DiscardAllInvalids waits for them forever.
DBWriterExpire ==
  /\ dpc = "expire"
  /\ SIDelExpiredDataEntries
  /\ IF CloseToCapacity
     THEN IF dtodo = <<>>
          THEN dpc' = "read" /\ dtodo' = Environments
          ELSE dpc' = "stuck" /\ UNCHANGED dtodo
     ELSE IF dtodo = <<>> THEN dpc' = "idle" /\ UNCHANGED dtodo
          ELSE dpc' = "drain" /\ dtodo' = Tail(dtodo)
  /\ UNCHANGED <<lockVars, catVars, envVars>>

\* DiscardAllInvalids at the environment of a connection.
DiscardAllInvalids ==
  /\ dpc = "drain"
  /\ IF dtodo = <<>>
     THEN dpc' = "idle" /\ UNCHANGED <<invalVars, cache, dtodo>>
     ELSE LET t == Head(dtodo)
          IN  IF nextMsgNum[t] < 0 \/ inTrans[t] \/ GetResult(t) = 0
              THEN dtodo' = Tail(dtodo) /\ UNCHANGED <<invalVars, cache, dpc>>
              ELSE Processed(t) /\ SIGetDataEntry(t) /\ UNCHANGED dbwVars
  /\ UNCHANGED <<lockVars, version, mine, ref, forall, xacts, envVars>>

ThreadNext(t) ==
  \/ Connect(t) \/ Disconnect(t) \/ StartTransaction(t) \/ DiscardInvalid(t)
  \/ \E m \in Modes : heap_open(t, m) \/ heap_close(t, m)
  \/ LockRelation(t) \/ CommandCounterIncrement(t)
  \/ UnlockRelation(t) \/ RecordTransactionCommit(t) \/ RegisterSharedInvalid(t)
  \/ AbortTransaction(t) \/ ThreadReleaseLocks(t) \/ TransactionUnlock(t)

Next ==
  \/ \E t \in Threads : ThreadNext(t)
  \/ DBWriterStart \/ DBWriterTurn \/ DBWriterDiscard \/ DBWriterExpire \/ DiscardAllInvalids

Spec == Init /\ [][Next]_vars
-----------------------------------------------------------------------------
(* Properties.                                                             *)

\* The types of the caches.
TypeOK ==
  /\ LockTypeOK /\ InvalTypeOK
  /\ version \in 1 .. MaxVersion
  /\ mine \in [Threads -> BOOLEAN] /\ ref \in [Threads -> BOOLEAN]
  /\ cache \in [Threads -> [{"rel", "sys"} -> 0 .. MaxVersion]]
  /\ forall \in [Threads -> {<<>>, <<"sys">>, <<"rel", "sys">>}]
  /\ dpc \in {"off", "idle", "read", "expire", "drain", "stuck"}

\* A connection that has its lock and has read the queue works with the relation
\* as it is: no cached descriptor or tuple is older than the last commit.
UsesFresh(t) ==
  (cpc[t] = "run" /\ \E m \in Modes \ NoWait : holds[t][m] > 0) =>
    /\ ref[t] => cache[t].rel = Seen(t)
    /\ cache[t].sys \in {0, Seen(t)}

\* As long as the queue has not overflowed every lock holder is up to date, also
\* one that built its descriptor while the change was under way and then slept
\* on the lock, and one whose messages the DBWriter processed in its place.
CatalogFresh == ~overflow => \A t \in Threads : UsesFresh(t)

\* SIInsertDataEntry says that a reset, forced by a full queue, "will cause all
\* the backends to discard *all* invalidatable state".
OverflowResets == \A t \in Threads : UsesFresh(t)
=============================================================================
