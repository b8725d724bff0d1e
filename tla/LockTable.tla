----------------------------- MODULE LockTable -----------------------------
(***************************************************************************)
(* One lock of the lock manager (lock.c) with its queue of waiting threads *)
(* (multithread.c) and its entry in the shared lock table.                 *)
(*                                                                         *)
(* The entry is found under the guard of the table, its fields are changed *)
(* under lock->protection: SearchLockTable counts the threads that are on  *)
(* their way to the mutex, which the entry must outlive.  What a thread    *)
(* does between locking and releasing the mutex is one step; a sleeping    *)
(* thread gives it up, so waking it and its going on are two.              *)
(*                                                                         *)
(* The counters of the lock, the size of its queue and lock->waitMask are  *)
(* kept as the code keeps them, because they need not agree with what the  *)
(* threads hold and with the queue: a sleeper whose statement is cancelled *)
(* after it was granted the lock is counted off and dequeued once more.    *)
(***************************************************************************)
EXTENDS Integers, Sequences, FiniteSetsExt

CONSTANTS Threads,
          Wants,     \* lock modes each thread asks for
          NoWait,    \* modes asked for with NoWaitLockRelation
          Cancels,   \* threads whose statement may be cancelled
          Asserts,   \* USE_ASSERT_CHECKING: a failed Assert stops the server
          MaxHolds,  \* bound on the locks a thread holds
          MaxRefs,   \* bound on the reference count of the entry
          MaxTwice   \* bound on the second dequeues an entry sees

Modes == {"AccessShare", "RowShare", "RowExclusive", "ShareUpdateExclusive", "Share",
          "ShareRowExclusive", "Exclusive", "AccessExclusive"}

ASSUME LockAssumption ==
  /\ IsFiniteSet(Threads) /\ Wants \in [Threads -> SUBSET Modes]
  /\ NoWait \subseteq Modes /\ Cancels \subseteq Threads
  /\ Asserts \in BOOLEAN
  /\ MaxHolds \in Nat /\ MaxRefs \in Nat /\ MaxTwice \in Nat

\* LockConflicts, the conflict table of relation and transaction locks.
LockConflicts ==
  LET Strong == {"ShareRowExclusive", "Exclusive", "AccessExclusive"}
  IN  [m \in Modes |->
        CASE m = "AccessShare"  -> {"AccessExclusive"}
          [] m = "RowShare"     -> {"Exclusive", "AccessExclusive"}
          [] m = "RowExclusive" -> Strong \cup {"Share"}
          [] m = "ShareUpdateExclusive" -> Strong \cup {"ShareUpdateExclusive", "Share"}
          [] m = "Share" -> Strong \cup {"RowExclusive", "ShareUpdateExclusive"}
          [] m = "ShareRowExclusive" ->
               Strong \cup {"RowExclusive", "ShareUpdateExclusive", "Share"}
          [] m = "Exclusive" -> Modes \ {"AccessShare"}
          [] OTHER -> Modes]

VARIABLES
  entry,     \* is the lock in the table?
  refs,      \* lock->refs
  removing,  \* lock->removing
  lpc,       \* place of each thread in the lock manager
  want,      \* mode a thread asks for or releases (waitLockMode)
  holder,    \* does the thread have an entry in the holder table?
  holds,     \* holder->holders
  lock,      \* the counters of the lock and lock->mask
  queue,     \* lock->waitThreads, first to be woken first
  twice,     \* threads dequeued that were no longer in the queue
  waitMask,  \* lock->waitMask
  orig       \* origMask of a sleeping thread

lockVars ==
  <<entry, refs, removing, lpc, want, holder, holds, lock, queue, twice, waitMask, orig>>

NoMode == "none"
NoHolds == [m \in Modes |-> 0]

\* A new entry: holders and nHolding count who holds the lock or waits for it,
\* activeHolders and nActive who holds it; mask has the modes that are held.
NewLock == [mask |-> {}, holders |-> NoHolds, nHolding |-> 0,
            activeHolders |-> NoHolds, nActive |-> 0]

LockInit ==
  /\ entry = FALSE /\ refs = 0 /\ removing = 0
  /\ lpc = [t \in Threads |-> "out"]
  /\ want = [t \in Threads |-> NoMode]
  /\ holder = [t \in Threads |-> FALSE]
  /\ holds = [t \in Threads |-> NoHolds]
  /\ lock = NewLock
  /\ queue = <<>> /\ twice = 0 /\ waitMask = {}
  /\ orig = [t \in Threads |-> {}]

\* lock->waitThreads.size.
size == Len(queue) - twice

HoldLock(h, t) == {m \in Modes : h[t][m] > 0}
nHolding(h, t) == MapThenSumSet(LAMBDA m : h[t][m], Modes)

\* The counters of the lock when m is asked for, and when that is taken back.
Asked(l, m) == [l EXCEPT !.nHolding = @ + 1, !.holders[m] = @ + 1]
Unasked(l, m) == [l EXCEPT !.nHolding = @ - 1, !.holders[m] = @ - 1]

\* GrantLock for the holder of t, and for the lock.
GrantLock(h, t, m) == [h EXCEPT ![t][m] = @ + 1]
GrantCounts(l, m) ==
  [l EXCEPT !.nActive = @ + 1, !.activeHolders[m] = @ + 1, !.mask = @ \cup {m}]

\* The bit of m in lock->waitMask, when nobody is counted as waiting for m.
WaitBits(l, m, bits) == IF l.activeHolders[m] = l.holders[m] THEN bits \ {m} ELSE bits

\* No mode that conflicts with m is held, or none by another thread.
LockResolveConflicts(l, h, t, m) ==
  \/ LockConflicts[m] \cap l.mask = {}
  \/ \A x \in LockConflicts[m] : l.activeHolders[x] = h[t][x]
-----------------------------------------------------------------------------
(* The table.                                                              *)

\* HASH_ENTER: whoever comes for a lock counts before it has the mutex.  A new
\* entry has its counters and its queue set up, but not waitMask: it keeps what
\* its storage held.
Enter(t, m) ==
  /\ lpc[t] = "out"
  /\ m \in Wants[t] /\ nHolding(holds, t) < MaxHolds /\ refs < MaxRefs
  /\ entry' = TRUE
  /\ refs' = IF entry THEN refs + 1 ELSE 1
  /\ removing' = IF entry THEN removing ELSE 0
  /\ lock' = IF entry THEN lock ELSE NewLock
  /\ twice' = IF entry THEN twice ELSE 0
  /\ waitMask' \in {waitMask, IF entry THEN waitMask ELSE {}}
  /\ holder' = [holder EXCEPT ![t] = TRUE]
  /\ want' = [want EXCEPT ![t] = m]
  /\ lpc' = [lpc EXCEPT ![t] = "acquire"]
  /\ UNCHANGED <<holds, queue, orig>>

\* HASH_FIND, the start of a release.
Find(t, place, m) ==
  /\ refs' = refs - 1 /\ removing' = removing + 1
  /\ want' = [want EXCEPT ![t] = m]
  /\ lpc' = [lpc EXCEPT ![t] = place]
  /\ UNCHANGED <<entry, holder, holds, lock, queue, twice, waitMask, orig>>

\* Mutant: threads on their way to the mutex of the entry do not count.
HashRemoveEarly ==
  /\ removing' = removing - 1
  /\ entry' = (refs # 0)
  /\ UNCHANGED refs

\* HASH_REMOVE, the end of a release: the entry stays while anyone is about.
HashRemove ==
  /\ removing' = removing - 1
  /\ entry' = (refs # 0 \/ removing' # 0)
  /\ UNCHANGED refs
-----------------------------------------------------------------------------
(* The queue.                                                              *)

\* A walk along a queue, first come first: step takes what it has collected so
\* far and the next thread.
WalkQueue(step(_, _), start, q) ==
  MapThenFoldSet(LAMBDA p, w : step(w, p), start, LAMBDA i : q[i], LAMBDA S : Max(S), DOMAIN q)

\* t becomes the k-th of the queue q.
SHMQueueInsertTL(q, k, t) ==
  SubSeq(q, 1, k - 1) \o <<t>> \o SubSeq(q, k, Len(q))

\* The walk of ThreadEnqueue along the queue.  The bits of waiters it passes are
\* taken out of lock->waitMask itself.
EnqueueStep(t, m, w, p) ==
  LET pm == want[p]
      mine == HoldLock(holds, t)
      blocksMe == LockConflicts[m] \cap HoldLock(holds, p) # {}
      blockedByMe == LockConflicts[pm] \cap mine # {}
      stop == /\ ~blocksMe
              /\ \/ blockedByMe
                 \/ m \in LockConflicts[pm] /\ m \notin LockConflicts[m] /\ w.same
                 \/ m \notin LockConflicts[pm] /\ LockConflicts[m] \cap w.mask = {}
      ahead == [w.ahead EXCEPT ![pm] = @ + 1]
      asked == Asked(lock, m).holders[pm]
  IN  IF w.stop THEN w
      ELSE IF blocksMe /\ blockedByMe THEN [w EXCEPT !.stop = TRUE, !.dead = TRUE]
      ELSE IF stop THEN [w EXCEPT !.stop = TRUE]
      ELSE [w EXCEPT !.at = @ + 1, !.same = (pm = m), !.ahead = ahead,
                     !.mask = IF ahead[pm] = asked THEN @ \ {pm} ELSE @]

ThreadEnqueue(t, m) ==
  LET start == [at |-> 1, mask |-> waitMask, same |-> FALSE, stop |-> FALSE,
                dead |-> FALSE,
                ahead |-> [lock.activeHolders EXCEPT ![m] = @ + 1]]
  IN  IF LockConflicts[m] \cap waitMask = {} THEN start
      ELSE WalkQueue(LAMBDA w, p : EnqueueStep(t, m, w, p), start, SubSeq(queue, 1, size))

\* One turn of ThreadLockWakeup: w collects the grants and the woken threads.
WakeStep(w, p) ==
  LET m == want[p]
      ok == LockResolveConflicts(w.lock, w.holds, p, m)
  IN  IF w.stop \/ m = w.last THEN w
      ELSE IF ok THEN [w EXCEPT !.lock = GrantCounts(@, m), !.holds = GrantLock(@, p, m),
                                !.woken = @ \cup {p}]
      ELSE IF w.woken # {} THEN [w EXCEPT !.stop = TRUE]
      ELSE [w EXCEPT !.last = m]

WakeStart(l, h) == [lock |-> l, holds |-> h, woken |-> {}, last |-> NoMode, stop |-> FALSE]

\* Mutant: a waiter is tested without the grants of this very walk.
WakeupUncounted(l, h) ==
  WalkQueue(LAMBDA w, p : IF LockResolveConflicts(l, h, p, want[p])
                         THEN [w EXCEPT !.lock = GrantCounts(@, want[p]),
                                        !.holds = GrantLock(@, p, want[p]), !.woken = @ \cup {p}]
                         ELSE w,
           WakeStart(l, h), SubSeq(queue, 1, size))

ThreadLockWakeup(l, h) == WalkQueue(WakeStep, WakeStart(l, h), SubSeq(queue, 1, size))

\* ThreadDequeue of each thread of gone.
ThreadDequeue(q, gone) ==
  WalkQueue(LAMBDA r, p : IF p \in gone THEN r ELSE Append(r, p), <<>>, q)

\* The end of a release that leaves the counters l and the holders h.
Wake(l, h) ==
  LET w == ThreadLockWakeup(l, h)
  IN  lock' = w.lock /\ holds' = w.holds /\ queue' = ThreadDequeue(queue, w.woken)

NoWake(l, h) == lock' = l /\ holds' = h /\ UNCHANGED queue
-----------------------------------------------------------------------------
(* Acquiring a lock.                                                       *)

\* Is the lock granted without a wait?
Granted(t, m) ==
  \/ nHolding(holds, t) = lock.nActive \/ holds[t][m] # 0
  \/ /\ LockResolveConflicts(lock, holds, t, m)
     /\ \/ LockConflicts[m] \cap waitMask = {}
        \/ \E x \in HoldLock(holds, t) : LockConflicts[x] \cap waitMask # {}

\* A request that is refused is counted off again.
LockAcquire(t) ==
  LET m == want[t]
      w == ThreadEnqueue(t, m)
  IN  /\ lpc[t] = "acquire"
      /\ \/ /\ Granted(t, m)
            /\ lock' = GrantCounts(Asked(lock, m), m)
            /\ holds' = GrantLock(holds, t, m)
            /\ lpc' = [lpc EXCEPT ![t] = "out"]
            /\ UNCHANGED <<holder, queue, waitMask, orig>>
         \/ /\ ~Granted(t, m) /\ m \in NoWait
            /\ holder' = [holder EXCEPT ![t] = nHolding(holds, t) # 0]
            /\ lpc' = [lpc EXCEPT ![t] = "out"]
            /\ UNCHANGED <<holds, lock, queue, waitMask, orig>>
         \/ /\ ~Granted(t, m) /\ m \notin NoWait /\ ~w.dead
            /\ lock' = Asked(lock, m)
            /\ queue' = SHMQueueInsertTL(queue, w.at, t)
            /\ waitMask' = w.mask \cup {m}
            /\ orig' = [orig EXCEPT ![t] = waitMask]
            /\ lpc' = [lpc EXCEPT ![t] = "asleep"]
            /\ UNCHANGED <<holder, holds>>
         \/ /\ ~Granted(t, m) /\ m \notin NoWait /\ w.dead
            /\ waitMask' = WaitBits(lock, m, w.mask)
            /\ lpc' = [lpc EXCEPT ![t] = "failed"]
            /\ UNCHANGED <<holder, holds, lock, queue, orig>>
      /\ UNCHANGED <<entry, refs, removing, want, twice>>

\* A thread that was granted the lock in its sleep goes on (end of WaitOnLock).
WaitOnLock(t) ==
  /\ lpc[t] = "asleep" /\ t \notin Range(queue)
  /\ waitMask' = WaitBits(lock, want[t], waitMask)
  /\ lpc' = [lpc EXCEPT ![t] = "out"]
  /\ orig' = [orig EXCEPT ![t] = {}]
  /\ UNCHANGED <<entry, refs, removing, want, holder, holds, lock, queue, twice>>

\* The two second timer of ThreadSleep finds the statement cancelled: the thread
\* leaves the queue, puts back the mask it saw when it came and fails.  It does not
\* look whether it was granted the lock between the timeout and getting the mutex
\* back.  If it was, its links are invalid: SHMQueueDelete fails its Assert, or
\* writes outside the queue, which may end the server as well.
ThreadSleepCancelled(t) ==
  /\ lpc[t] = "asleep" /\ t \in Cancels
  /\ \/ t \in Range(queue) /\ queue' = ThreadDequeue(queue, {t}) /\ UNCHANGED twice
     \/ /\ t \notin Range(queue) /\ ~Asserts /\ twice < MaxTwice
        /\ twice' = twice + 1 /\ UNCHANGED queue
  /\ lock' = Unasked(lock, want[t])
  /\ waitMask' = WaitBits(lock', want[t], orig[t])
  /\ lpc' = [lpc EXCEPT ![t] = "failed"]
  /\ orig' = [orig EXCEPT ![t] = {}]
  /\ UNCHANGED <<entry, refs, removing, want, holder, holds>>
-----------------------------------------------------------------------------
(* Releasing a lock.                                                       *)

\* The counters of the lock without the n[m] holds of each mode m, sum in all; the
\* bits of lock->mask are looked at for the modes of looked.
Released(l, n, sum, looked) ==
  LET active == [m \in Modes |-> l.activeHolders[m] - n[m]]
  IN  [mask |-> l.mask \ {m \in looked : active[m] = 0},
       holders |-> [m \in Modes |-> l.holders[m] - n[m]], nHolding |-> l.nHolding - sum,
       activeHolders |-> active, nActive |-> l.nActive - sum]

\* ... and when t is believed to be the only one on it.
Cleared(l) == [NewLock EXCEPT !.mask = l.mask]

LockReleaseFind(t, m) ==
  /\ lpc[t] = "out" /\ holds[t][m] > 0
  /\ Find(t, "release", m)

\* LockRelease looks at the queue unless nobody is left on the lock.  A thread
\* releases only what it holds: the returns for a lock or a holder that is not
\* found, or that holds nothing, are not reached.
LockRelease(t) ==
  /\ lpc[t] = "release"
  /\ LET h == [holds EXCEPT ![t][want[t]] = @ - 1]
         l == Released(lock, [NoHolds EXCEPT ![want[t]] = 1], 1, {want[t]})
     IN  /\ IF l.nHolding # 0 THEN Wake(l, h) ELSE NoWake(l, h)
         /\ holder' = [holder EXCEPT ![t] = nHolding(h, t) # 0]
  /\ HashRemove
  /\ lpc' = [lpc EXCEPT ![t] = "out"]
  /\ UNCHANGED <<want, twice, waitMask, orig>>

\* The end of the transaction, after a commit or after a failure.
LockReleaseAllFind(t) ==
  /\ lpc[t] \in {"out", "failed"} /\ holder[t]
  /\ Find(t, "releaseAll", NoMode)

\* LockReleaseAll looks at the queue when waitMask says that it should, and not when
\* t has as many holds as the lock counts.
LockReleaseAll(t) ==
  /\ lpc[t] = "releaseAll"
  /\ LET h == [holds EXCEPT ![t] = NoHolds]
         n == nHolding(holds, t)
         l == Released(lock, holds[t], n, Modes)
         wakeupNeeded == \E m \in HoldLock(holds, t) : LockConflicts[m] \cap waitMask # {}
     IN  IF lock.nHolding = n THEN NoWake(Cleared(lock), h)
         ELSE IF wakeupNeeded THEN Wake(l, h) ELSE NoWake(l, h)
  /\ holder' = [holder EXCEPT ![t] = FALSE]
  /\ HashRemove
  /\ lpc' = [lpc EXCEPT ![t] = "out"]
  /\ UNCHANGED <<want, twice, waitMask, orig>>

LockStep(t) ==
  \/ LockAcquire(t) \/ WaitOnLock(t) \/ ThreadSleepCancelled(t)
  \/ LockRelease(t) \/ LockReleaseAll(t)

LockNext ==
  \E t \in Threads :
    \/ \E m \in Modes : Enter(t, m) \/ LockReleaseFind(t, m)
    \/ LockReleaseAllFind(t)
    \/ LockStep(t)

LockSpec == LockInit /\ [][LockNext]_lockVars
-----------------------------------------------------------------------------
(* Properties.                                                             *)

\* The types of the lock, its queue and its reference counts.
LockTypeOK ==
  /\ entry \in BOOLEAN /\ refs \in 0 .. MaxRefs /\ removing \in 0 .. Cardinality(Threads)
  /\ lpc \in [Threads -> {"out", "acquire", "asleep", "failed", "release", "releaseAll"}]
  /\ want \in [Threads -> Modes \cup {NoMode}]
  /\ holder \in [Threads -> BOOLEAN]
  /\ holds \in [Threads -> [Modes -> 0 .. MaxHolds]]
  /\ lock \in [mask : SUBSET Modes, holders : [Modes -> Int], nHolding : Int,
                activeHolders : [Modes -> Int], nActive : Int]
  /\ waitMask \subseteq Modes /\ orig \in [Threads -> SUBSET Modes]
  /\ Range(queue) \subseteq Threads /\ IsInjective(queue) /\ twice \in 0 .. MaxTwice

\* Two threads never hold conflicting modes, as LockAcquire has it: "If I'm the only
\* one holding any lock on this object, then there cannot be a conflict".
NoConflictingModes ==
  \A t, u \in Threads :
    t # u => \A m \in HoldLock(holds, t) : LockConflicts[m] \cap HoldLock(holds, u) = {}

\* Two threads never hold conflicting modes, whatever the order of requests, grants
\* to sleepers, cancels and releases, as long as no thread was dequeued twice since
\* the entry was made.  With assertions the server does not survive that.
NoConflictingHolders == twice = 0 => NoConflictingModes

\* The entry stays in the table as long as a thread holds the lock, waits for it
\* or is between the guard of the table and the mutex of the entry.
EntryOutlivesUsers ==
  (\E t \in Threads : holder[t] \/ lpc[t] # "out") => entry

\* What a step may do to the holds of a thread: it is given the mode it asks for,
\* by its own step or in its sleep, or it releases.
HoldsChange ==
  \A t \in Threads, m \in Modes :
    /\ holds'[t][m] > holds[t][m] => lpc[t] \in {"acquire", "asleep"} /\ m = want[t]
    /\ holds'[t][m] < holds[t][m] => lpc[t] \in {"release", "releaseAll"}

\* Nobody sleeps on a free lock: the last one to leave has woken someone, as
\* LockRelease says of itself and LockReleaseAll by reference to it.
NoSleeperOnFreeLock ==
  queue # <<>> => \E t \in Threads : HoldLock(holds, t) # {}
=============================================================================
