----------------------------- MODULE WriteGroup -----------------------------
(***************************************************************************)
(* The handshakes around the write groups (dbwriter.c): the group states,  *)
(* the condition variables gate and broadcaster, time-outs, the committers *)
(* that wait, the requests to flush, the SyncWriter and the shutdown.      *)
(* What is written to which file is the subject of GroupCommit; here a     *)
(* transaction registers one page, and a soft commit that of its status.   *)
(*                                                                         *)
(* Every critical section of a group's mutex is one step.  The DBWriter    *)
(* keeps the mutex of its cart between two steps while w.pc is "check" or  *)
(* "advance".                                                              *)
(***************************************************************************)
EXTENDS Integers, FiniteSets, Sequences, FiniteSetsExt

CONSTANTS Threads,      \* backends
          CommitTypes,  \* commit types the backends use
          MaxTrans,     \* maxtrans, transactions that fit into a group
          MaxLogCount,  \* max_logcount
          Spurious,     \* may a wait for the gate end without a signal?
          MaxTxns,      \* bound on transactions of each backend
          MaxFlushes    \* bound on flush requests

ASSUME SizeAssumption ==
  /\ CommitTypes \subseteq {"careful", "fastcareful", "synced", "soft",
                              "fastsoft"}
  /\ MaxTrans \in Nat \ {0} /\ MaxLogCount \in Nat
  /\ Spurious \in BOOLEAN
  /\ MaxTxns \in Nat /\ MaxFlushes \in Nat

Groups == {1, 2}
Other(g) == 3 - g

VARIABLES
  group,        \* the ring of write groups
  cur,          \* log_group
  gate,         \* the DBWriter's wait for the gate of its cart
  asleep,       \* backends waiting for the broadcaster of each group
  w,            \* DBWriter
  sync,         \* sync_group, with the writers waiting for its broadcaster
  syncBuffers,  \* sync_buffers
  sw,           \* SyncWriter
  pc, kind, n, target,  \* backends: place, request, transaction, group
  tstate,       \* THREAD.state
  recorded,     \* transactions recorded as committed by LogTransactions
  soft,         \* transactions acknowledged as soft commits
  wanted,       \* history: pages a flush was asked to write and that are not written
  stopped,      \* stopped
  fatal,        \* assertions that failed, elog(FATAL)s that were reached
  flushes

threadVars == <<pc, kind, n, target, wanted>>
writerVars == <<gate, w, sync, syncBuffers, sw>>
vars == <<group, cur, asleep, writerVars, threadVars, tstate, recorded, soft,
          stopped, fatal, flushes>>

EmptyGroup(st) ==
  [currstate |-> st, trans |-> <<>>, pages |-> {}, friendly |-> TRUE,
   loggable |-> TRUE, dotransaction |-> TRUE]
Members(g) == {group[g].trans[i].txn : i \in DOMAIN group[g].trans}
\* Backends in WaitingThreads, all of them or only those not waiting for sync.
Waiters(g) == {group[g].trans[i].thread :
                 i \in {j \in DOMAIN group[g].trans : group[g].trans[j].waiting}}
LogWaiters(g) ==
  {group[g].trans[i].thread :
     i \in {j \in DOMAIN group[g].trans :
              group[g].trans[j].waiting /\ ~group[g].trans[j].forsync}}
\* A transaction's own page is named after it; this is its page of pg_log.
PgLog(x) == <<x, 0>>

\* The writer has the mutex of the first group, as it has in every later round.  The
\* code takes none before the first wait; no backend is served in that window here.
Init ==
  /\ group = [g \in Groups |-> EmptyGroup("NOT_READY")]
  /\ cur = 1
  /\ gate = "none"
  /\ asleep = [g \in Groups |-> {}]
  /\ w = [pc |-> "check", cart |-> 1, primed |-> FALSE, timed |-> FALSE]
  /\ sync = [currstate |-> "NOT_READY", pages |-> {}, asleep |-> {}]
  /\ syncBuffers = 0
  /\ sw = "top"
  /\ pc = [x \in Threads |-> "idle"]
  /\ kind = [x \in Threads |-> "careful"]
  /\ n = [x \in Threads |-> 0]
  /\ target = [x \in Threads |-> 1]
  /\ tstate = [x \in Threads |-> "default"]
  /\ recorded = {} /\ soft = {}
  /\ wanted = [x \in Threads |-> {}]
  /\ stopped = FALSE /\ fatal = {} /\ flushes = 0
-----------------------------------------------------------------------------
\* What a commit type stands for in multi-user mode (env.c).
IsTransactionCareful(t) == t \in {"careful", "fastcareful", "synced"}
IsLoggable(t) == t # "synced"
IsTransactionFriendly(t) == t \notin {"fastcareful", "fastsoft"}

\* The DBWriter holds the mutex of its cart.
Locked(g) == w.pc \in {"check", "advance"} /\ w.cart = g

\* SignalDBWriter: the state it leaves, whether it signals the gate, and the
\* states it does not expect.
Signalled(st) == IF st \in {"NOT_READY", "COMPLETED", "WAITING"} THEN "READY"
                 ELSE st
GateAfter(st) == IF st = "WAITING" THEN "signalled" ELSE gate
BadSignal(st) == st \in {"RUNNING", "LOGGED", "SYNCED", "DEAD"}

Failed(what, cond) == IF cond THEN {what} ELSE {}

\* GetCurrentWriteGroup accepts the group.
Open(g, forcommit) ==
  /\ g = cur
  /\ group[g].currstate \notin
       {"RUNNING", "LOGGED", "SYNCED", "COMPLETED", "DEAD"}
  /\ forcommit => Len(group[g].trans) # MaxTrans
-----------------------------------------------------------------------------
(* Backends. *)

\* A transaction writes a page, RegisterBufferWrite, and is about to commit:
\* it reads log_group, without its mutex.
RegisterBufferWrite(x, t) ==
  /\ pc[x] = "idle" /\ ~stopped
  /\ n[x] < MaxTxns   \* bound
  /\ Open(cur, FALSE) /\ ~Locked(cur)
  /\ group' = [group EXCEPT ![cur].pages = @ \cup {<<x, n[x] + 1>>}]
  /\ pc' = [pc EXCEPT ![x] = "enter"]
  /\ kind' = [kind EXCEPT ![x] = t]
  /\ n' = [n EXCEPT ![x] = @ + 1]
  /\ target' = [target EXCEPT ![x] = cur]
  /\ tstate' = [tstate EXCEPT ![x] = "commit"]
  /\ UNCHANGED <<cur, asleep, writerVars, wanted, recorded, soft, stopped,
                 fatal, flushes>>

StartFlush(x) ==
  /\ pc[x] = "idle" /\ ~stopped
  /\ flushes < MaxFlushes   \* bound
  /\ flushes' = flushes + 1
  /\ pc' = [pc EXCEPT ![x] = "enter"]
  /\ kind' = [kind EXCEPT ![x] = "flush"]
  /\ target' = [target EXCEPT ![x] = cur]
  /\ UNCHANGED <<group, cur, asleep, writerVars, n, wanted, tstate, recorded,
                 soft, stopped, fatal>>

\* The group found under the mutex is not, or no longer, the one to join;
\* the next one is tried.
Retry(x) ==
  /\ pc[x] = "enter" /\ ~Locked(target[x])
  /\ ~Open(target[x], kind[x] # "flush")
  /\ target' = [target EXCEPT ![x] = Other(@)]
  /\ UNCHANGED <<group, cur, asleep, writerVars, pc, kind, n, wanted, tstate,
                 recorded, soft, stopped, fatal, flushes>>

\* CommitDBBufferWrites under the mutex, up to its wait or its unlock.
CommitDBBufferWrites(x) ==
  LET g == target[x]
      st == group[g].currstate
      wait == IsTransactionCareful(kind[x])
      entry == [thread |-> x, txn |-> <<x, n[x]>>, waiting |-> wait,
                forsync |-> ~IsLoggable(kind[x])]
  IN
  /\ pc[x] = "enter" /\ kind[x] # "flush" /\ ~Locked(g)
  /\ Open(g, TRUE)
  /\ group' = [group EXCEPT
                 ![g].trans = Append(@, entry),
                 ![g].friendly = @ /\ IsTransactionFriendly(kind[x]),
                 ![g].loggable = @ /\ IsLoggable(kind[x]),
                 ![g].currstate = Signalled(@)]
  /\ gate' = GateAfter(st)
  /\ fatal' = fatal \cup Failed("signal", BadSignal(st))
  /\ pc' = [pc EXCEPT ![x] = IF wait THEN "waiting" ELSE "soft"]
  /\ asleep' = IF wait THEN [asleep EXCEPT ![g] = @ \cup {x}] ELSE asleep
  /\ UNCHANGED <<cur, w, sync, syncBuffers, sw, kind, n, target, wanted,
                 tstate, recorded, soft, stopped, flushes>>

\* A careful committer woken by a broadcast looks at its own state.
CommitWake(x) ==
  LET g == target[x] IN
  /\ pc[x] = "waiting" /\ x \notin asleep[g] /\ ~Locked(g)
  /\ IF tstate[x] = "default"
       THEN pc' = [pc EXCEPT ![x] = "idle"] /\ asleep' = asleep
       ELSE pc' = pc /\ asleep' = [asleep EXCEPT ![g] = @ \cup {x}]
  /\ UNCHANGED <<group, cur, writerVars, kind, n, target, wanted, tstate,
                 recorded, soft, stopped, fatal, flushes>>

\* The soft commit sets its status, registers the pg_log page and is over.
SoftCommit(x) ==
  /\ pc[x] = "soft" /\ ~Locked(cur)
  /\ Open(cur, FALSE)
  /\ group' = [group EXCEPT ![cur].pages = @ \cup {PgLog(x)}]
  /\ soft' = soft \cup {<<x, n[x]>>}
  /\ tstate' = [tstate EXCEPT ![x] = "default"]
  /\ pc' = [pc EXCEPT ![x] = "idle"]
  /\ UNCHANGED <<cur, asleep, writerVars, kind, n, target, wanted, recorded,
                 stopped, fatal, flushes>>

\* Mutant: the DBWriter is not signalled.
FlushSilently(x) ==
  LET g == target[x]
      st == group[g].currstate
  IN
  /\ pc[x] = "enter" /\ kind[x] = "flush" /\ ~Locked(g)
  /\ Open(g, FALSE)
  /\ group' = [group EXCEPT ![g].currstate = "FLUSHING"]
  /\ gate' = gate
  /\ fatal' = fatal \cup Failed("signal", BadSignal(st))
  /\ wanted' = [wanted EXCEPT ![x] =
                  group[1].pages \cup group[2].pages \cup sync.pages]
  /\ pc' = [pc EXCEPT ![x] = "flushwait"]
  /\ asleep' = [asleep EXCEPT ![g] = @ \cup {x}]
  /\ UNCHANGED <<cur, w, sync, syncBuffers, sw, kind, n, target, tstate,
                 recorded, soft, stopped, flushes>>

\* FlushAllDirtyBuffers(true) under the mutex, up to its wait.
FlushAllDirtyBuffers(x) ==
  LET g == target[x]
      st == group[g].currstate
  IN
  /\ pc[x] = "enter" /\ kind[x] = "flush" /\ ~Locked(g)
  /\ Open(g, FALSE)
  /\ group' = [group EXCEPT ![g].currstate = "FLUSHING"]
  /\ gate' = GateAfter(st)
  /\ fatal' = fatal \cup Failed("signal", BadSignal(st))
  /\ wanted' = [wanted EXCEPT ![x] =
                  group[1].pages \cup group[2].pages \cup sync.pages]
  /\ pc' = [pc EXCEPT ![x] = "flushwait"]
  /\ asleep' = [asleep EXCEPT ![g] = @ \cup {x}]
  /\ UNCHANGED <<cur, w, sync, syncBuffers, sw, kind, n, target, tstate,
                 recorded, soft, stopped, flushes>>

\* It returns when it finds the group no longer flushing.
FlushWake(x) ==
  LET g == target[x] IN
  /\ pc[x] = "flushwait" /\ x \notin asleep[g] /\ ~Locked(g)
  /\ IF group[g].currstate = "FLUSHING"
       THEN UNCHANGED <<pc, wanted>> /\ asleep' = [asleep EXCEPT ![g] = @ \cup {x}]
       ELSE /\ pc' = [pc EXCEPT ![x] = "idle"]
            /\ wanted' = [wanted EXCEPT ![x] = {}]
            /\ asleep' = asleep
  /\ UNCHANGED <<group, cur, writerVars, kind, n, target, tstate, recorded,
                 soft, stopped, fatal, flushes>>

\* ShutdownDBWriter, once the master lock has kept every backend out.
ShutdownDBWriter ==
  LET st == group[cur].currstate IN
  /\ ~stopped /\ \A x \in Threads : pc[x] = "idle"
  /\ Open(cur, FALSE) /\ ~Locked(cur)
  /\ stopped' = TRUE
  /\ group' = [group EXCEPT ![cur].friendly = FALSE, ![cur].loggable = FALSE,
                            ![cur].currstate = Signalled(@)]
  /\ gate' = GateAfter(st)
  /\ fatal' = fatal \cup Failed("signal", BadSignal(st))
  /\ UNCHANGED <<cur, asleep, w, sync, syncBuffers, sw, threadVars, tstate,
                 recorded, soft, flushes>>
-----------------------------------------------------------------------------
(* DBWriter: CheckWriteGroupState. *)

\* What the loop does when CheckWriteGroupState returns true.
Loop(st) == IF st = "FLUSHING" THEN "flush"
            ELSE IF stopped THEN "advance" ELSE "check"

\* NOT_READY: wait for a signal, with a time-out if pages are to be synced.
WaitForSignal ==
  LET c == w.cart IN
  /\ w.pc = "check" /\ group[c].currstate = "NOT_READY"
  /\ group' = [group EXCEPT ![c].currstate = "WAITING"]
  /\ gate' = "waiting"
  /\ w' = [w EXCEPT !.pc = "gate", !.timed = syncBuffers > 0]
  /\ UNCHANGED <<cur, asleep, sync, syncBuffers, sw, threadVars, tstate,
                 recorded, soft, stopped, fatal, flushes>>

\* READY: give other transactions a chance to join.
Patient(g) ==
  group[g].friendly /\ ~stopped /\ Len(group[g].trans) < MaxTrans
WaitForMore ==
  LET c == w.cart IN
  /\ w.pc = "check" /\ group[c].currstate = "READY" /\ Patient(c)
  /\ group' = [group EXCEPT ![c].currstate = "WAITING"]
  /\ gate' = "waiting"
  /\ w' = [w EXCEPT !.pc = "more"]
  /\ UNCHANGED <<cur, asleep, sync, syncBuffers, sw, threadVars, tstate,
                 recorded, soft, stopped, fatal, flushes>>

\* pthread_cond_wait returns; the group must not be WAITING still.
GateWake ==
  LET st == group[w.cart].currstate IN
  /\ w.pc \in {"gate", "more"}
  /\ gate = "signalled" \/ Spurious
  /\ gate' = "none"
  /\ fatal' = fatal \cup Failed("gate", st = "WAITING")
  /\ w' = [w EXCEPT !.pc = Loop(st)]
  /\ UNCHANGED <<group, cur, asleep, sync, syncBuffers, sw, threadVars, tstate,
                 recorded, soft, stopped, flushes>>

\* pthread_cond_timedwait times out, perhaps after a signal.
GateTimeout ==
  LET c == w.cart
      st == group[c].currstate
      flush == w.pc = "more" /\ st = "FLUSHING"
  IN
  /\ w.pc = "more" \/ (w.pc = "gate" /\ w.timed)
  /\ gate' = "none"
  /\ group' = [group EXCEPT ![c].currstate =
                  CASE flush -> @
                    [] ~flush /\ w.pc = "more" -> "READY"
                    [] OTHER -> "PRIMED"]
  /\ w' = [w EXCEPT !.pc = IF flush THEN "flush" ELSE "advance"]
  /\ UNCHANGED <<cur, asleep, sync, syncBuffers, sw, threadVars, tstate,
                 recorded, soft, stopped, fatal, flushes>>

\* FLUSHING: FlushWriteGroup gives the mutex up.
CheckFlush ==
  /\ w.pc = "check" /\ group[w.cart].currstate = "FLUSHING"
  /\ w' = [w EXCEPT !.pc = "flush"]
  /\ UNCHANGED <<group, cur, asleep, gate, sync, syncBuffers, sw, threadVars,
                 tstate, recorded, soft, stopped, fatal, flushes>>

\* The loop ends: AdvanceWriteGroupQueue, and the group runs.
AdvanceWriteGroupQueue ==
  LET c == w.cart
      st == group[c].currstate
      next == group[Other(c)].currstate
  IN
  /\ \/ w.pc = "advance"
     \/ w.pc = "check" /\ (st = "PRIMED" \/ (st = "READY" /\ ~Patient(c)))
  /\ fatal' = fatal
       \cup Failed("queue", next \notin {"COMPLETED", "NOT_READY"})
       \cup Failed("state", st \notin {"PRIMED", "READY"})
  /\ group' = [group EXCEPT ![c].currstate = "RUNNING",
                            ![Other(c)].currstate = "NOT_READY"]
  /\ cur' = Other(c)
  /\ w' = [w EXCEPT !.pc = "log", !.primed = (st = "PRIMED")]
  /\ UNCHANGED <<asleep, gate, sync, syncBuffers, sw, threadVars, tstate,
                 recorded, soft, stopped, flushes>>
-----------------------------------------------------------------------------
(* DBWriter: processing of a group. *)

\* pthread_cond_broadcast of the broadcaster of g.
Broadcast(g) == asleep' = [asleep EXCEPT ![g] = {}]

\* Mutant: released threads stay in WaitingThreads.
LogKeepsWaiters ==
  LET c == w.cart IN
  /\ w.pc = "log"
  /\ recorded' = recorded \cup Members(c)
  /\ tstate' = [x \in Threads |-> IF x \in LogWaiters(c) THEN "default"
                                                        ELSE tstate[x]]
  /\ group' = group
  /\ w' = [w EXCEPT !.pc = "logged"]
  /\ UNCHANGED <<cur, asleep, gate, sync, syncBuffers, sw, threadVars, soft,
                 stopped, fatal, flushes>>

\* Mutant: those who wait for the sync are left out.
LogNotSyncers ==
  LET c == w.cart IN
  /\ w.pc = "log"
  /\ recorded' = recorded \cup
       (Members(c) \ {<<x, n[x]>> : x \in Waiters(c) \ LogWaiters(c)})
  /\ tstate' = [x \in Threads |-> IF x \in LogWaiters(c) THEN "default"
                                                        ELSE tstate[x]]
  /\ group' = [group EXCEPT ![c].trans =
                  [i \in DOMAIN @ |-> [@[i] EXCEPT !.waiting = @ /\
                     group[c].trans[i].forsync]]]
  /\ w' = [w EXCEPT !.pc = "logged"]
  /\ UNCHANGED <<cur, asleep, gate, sync, syncBuffers, sw, threadVars, soft,
                 stopped, fatal, flushes>>

\* LogTransactions, then ResetThreadState of those not waiting for the sync,
\* who are taken off the list.
LogTransactions ==
  LET c == w.cart IN
  /\ w.pc = "log"
  /\ recorded' = recorded \cup Members(c)
  /\ tstate' = [x \in Threads |-> IF x \in LogWaiters(c) THEN "default"
                                                        ELSE tstate[x]]
  /\ group' = [group EXCEPT ![c].trans =
                  [i \in DOMAIN @ |-> [@[i] EXCEPT !.waiting = @ /\
                     group[c].trans[i].forsync]]]
  /\ w' = [w EXCEPT !.pc = "logged"]
  /\ UNCHANGED <<cur, asleep, gate, sync, syncBuffers, sw, threadVars, soft,
                 stopped, fatal, flushes>>

\* Mutant: no broadcast.
LogSilently ==
  LET c == w.cart IN
  /\ w.pc = "logged"
  /\ group' = [group EXCEPT ![c].currstate = "LOGGED",
                            ![c].dotransaction = FALSE]
  /\ asleep' = asleep
  /\ w' = [w EXCEPT !.pc = IF group[c].loggable /\ syncBuffers < MaxLogCount
                              /\ ~w.primed
                           THEN "merge" ELSE "collect"]
  /\ UNCHANGED <<cur, gate, sync, syncBuffers, sw, threadVars, tstate,
                 recorded, soft, stopped, fatal, flushes>>

\* The end of LogWriteGroup, and who is to write the pages.
LogWriteGroup ==
  LET c == w.cart IN
  /\ w.pc = "logged"
  /\ group' = [group EXCEPT ![c].currstate = "LOGGED",
                            ![c].dotransaction = FALSE]
  /\ Broadcast(c)
  /\ w' = [w EXCEPT !.pc = IF group[c].loggable /\ syncBuffers < MaxLogCount
                              /\ ~w.primed
                           THEN "merge" ELSE "collect"]
  /\ UNCHANGED <<cur, gate, sync, syncBuffers, sw, threadVars, tstate,
                 recorded, soft, stopped, fatal, flushes>>

\* GetSyncGroup: ask a busy SyncWriter to stop, and wait ...
GetSyncGroup ==
  /\ w.pc \in {"flush", "merge", "collect", "cleanup"}
  /\ "DBWriter" \notin sync.asleep
  /\ sync.currstate \in {"FLUSHING", "COMPLETED"}
  /\ sync' = [sync EXCEPT !.currstate = "COMPLETED",
                          !.asleep = @ \cup {"DBWriter"}]
  /\ UNCHANGED <<group, cur, asleep, gate, w, syncBuffers, sw, threadVars,
                 tstate, recorded, soft, stopped, fatal, flushes>>
\* ... until it has.
SyncGroupFree ==
  /\ "DBWriter" \notin sync.asleep
  /\ sync.currstate \notin {"FLUSHING", "COMPLETED"}

\* Pages have been written: no flush needs to wait for them any longer.
Written(pages) ==
  wanted' = [x \in Threads |-> wanted[x] \ pages]

\* Mutant: the group is reset after the flush.
FlushResets ==
  LET c == w.cart IN
  /\ w.pc = "flush" /\ SyncGroupFree
  /\ syncBuffers' = syncBuffers + Cardinality(group[c].pages)
  /\ sync' = [sync EXCEPT !.currstate = "NOT_READY", !.pages = {}]
  /\ group' = [group EXCEPT ![c].pages = {}, ![c].trans = <<>>]
  /\ Written(group[c].pages \cup sync.pages)
  /\ w' = [w EXCEPT !.pc = "flushed"]
  /\ UNCHANGED <<cur, asleep, gate, sw, pc, kind, n, target, tstate, recorded,
                 soft, stopped, fatal, flushes>>

\* FlushWriteGroup: pages of the cart and of the sync group are written.
FlushWriteGroup ==
  LET c == w.cart IN
  /\ w.pc = "flush" /\ SyncGroupFree
  /\ syncBuffers' = syncBuffers + Cardinality(group[c].pages)
  /\ sync' = [sync EXCEPT !.currstate = "NOT_READY", !.pages = {}]
  /\ group' = [group EXCEPT ![c].pages = {}]
  /\ Written(group[c].pages \cup sync.pages)
  /\ w' = [w EXCEPT !.pc = "flushed"]
  /\ UNCHANGED <<cur, asleep, gate, sw, pc, kind, n, target, tstate, recorded,
                 soft, stopped, fatal, flushes>>

\* Its end, back under the mutex.
EndFlush ==
  LET c == w.cart IN
  /\ w.pc = "flushed"
  /\ group' = [group EXCEPT ![c].currstate = "READY"]
  /\ Broadcast(c)
  /\ w' = [w EXCEPT !.pc = Loop("READY")]
  /\ UNCHANGED <<cur, gate, sync, syncBuffers, sw, threadVars, tstate,
                 recorded, soft, stopped, fatal, flushes>>

\* MergeWriteGroups(sync, cart) ...
MergeIntoSync ==
  LET c == w.cart IN
  /\ w.pc = "merge" /\ SyncGroupFree
  /\ syncBuffers' = syncBuffers + Cardinality(group[c].pages)
  /\ sync' = [sync EXCEPT !.currstate = "NOT_READY",
                          !.pages = @ \cup group[c].pages]
  /\ group' = [group EXCEPT ![c].pages = {}]
  /\ w' = [w EXCEPT !.pc = "activate"]
  /\ UNCHANGED <<cur, asleep, gate, sw, threadVars, tstate, recorded, soft,
                 stopped, fatal, flushes>>

\* ... and the SyncWriter is sent off.
ActivateSyncGroup ==
  /\ w.pc = "activate"
  /\ sync' = [sync EXCEPT !.currstate = "WAITING", !.asleep = {}]
  /\ w' = [w EXCEPT !.pc = "finish"]
  /\ UNCHANGED <<group, cur, asleep, gate, syncBuffers, sw, threadVars, tstate,
                 recorded, soft, stopped, fatal, flushes>>

\* MergeWriteGroups(cart, sync) ...
MergeFromSync ==
  LET c == w.cart IN
  /\ w.pc = "collect" /\ SyncGroupFree
  /\ sync' = [sync EXCEPT !.currstate = "NOT_READY", !.pages = {}]
  /\ group' = [group EXCEPT ![c].pages = @ \cup sync.pages]
  /\ w' = [w EXCEPT !.pc = "sync"]
  /\ UNCHANGED <<cur, asleep, gate, syncBuffers, sw, threadVars, tstate,
                 recorded, soft, stopped, fatal, flushes>>

\* ... ResetWriteGroup(sync) without its mutex, and SyncWriteGroup, which
\* releases everybody still waiting.
SyncWriteGroup ==
  LET c == w.cart IN
  /\ w.pc = "sync"
  /\ fatal' = fatal \cup
       Failed("reset", sync.currstate \notin {"COMPLETED", "NOT_READY"})
  /\ syncBuffers' = 0
  /\ tstate' = [x \in Threads |-> IF x \in Waiters(c) THEN "default"
                                                     ELSE tstate[x]]
  /\ group' = [group EXCEPT ![c].pages = {}]
  /\ Written(group[c].pages)
  /\ w' = [w EXCEPT !.pc = "synced"]
  /\ UNCHANGED <<cur, asleep, gate, sync, sw, pc, kind, n, target, recorded,
                 soft, stopped, flushes>>

EndSync ==
  LET c == w.cart IN
  /\ w.pc = "synced"
  /\ group' = [group EXCEPT ![c].currstate = "SYNCED"]
  /\ Broadcast(c)
  /\ w' = [w EXCEPT !.pc = "finish"]
  /\ UNCHANGED <<cur, gate, sync, syncBuffers, sw, threadVars, tstate,
                 recorded, soft, stopped, fatal, flushes>>

\* Mutant: the state is left alone.
FinishUncompleted ==
  LET c == w.cart IN
  /\ w.pc = "finish"
  /\ group' = group
  /\ Broadcast(c)
  /\ w' = [w EXCEPT !.pc = "reset"]
  /\ UNCHANGED <<cur, gate, sync, syncBuffers, sw, threadVars, tstate,
                 recorded, soft, stopped, fatal, flushes>>

\* FinishWriteGroup ...
FinishWriteGroup ==
  LET c == w.cart IN
  /\ w.pc = "finish"
  /\ group' = [group EXCEPT ![c].currstate = "COMPLETED"]
  /\ Broadcast(c)
  /\ w' = [w EXCEPT !.pc = "reset"]
  /\ UNCHANGED <<cur, gate, sync, syncBuffers, sw, threadVars, tstate,
                 recorded, soft, stopped, fatal, flushes>>

\* ... resets the group without its mutex; then the next one's turn comes.
ResetWriteGroup ==
  LET c == w.cart IN
  /\ w.pc = "reset"
  /\ fatal' = fatal \cup
       Failed("reset", group[c].currstate \notin {"COMPLETED", "NOT_READY"})
  /\ group' = [group EXCEPT ![c] = EmptyGroup(@.currstate)]
  /\ w' = [w EXCEPT !.pc = IF stopped THEN "cleanup" ELSE "check",
                    !.cart = Other(c)]
  /\ UNCHANGED <<cur, asleep, gate, sync, syncBuffers, sw, threadVars, tstate,
                 recorded, soft, stopped, flushes>>

\* Mutant: the last transactions are not recorded.
CleanupDrops ==
  LET late == {g \in Groups : group[g].currstate # "COMPLETED"} IN
  /\ w.pc = "cleanup" /\ SyncGroupFree
  /\ recorded' = recorded
  /\ group' = [g \in Groups |-> IF g \in late THEN EmptyGroup("DEAD")
                                ELSE [group[g] EXCEPT !.currstate = "DEAD"]]
  /\ sync' = [currstate |-> "DEAD", pages |-> {}, asleep |-> {}]
  /\ w' = [w EXCEPT !.pc = "exited"]
  /\ UNCHANGED <<cur, asleep, gate, syncBuffers, sw, threadVars, tstate, soft,
                 stopped, fatal, flushes>>

\* Mutant: the SyncWriter is not signalled.
CleanupSilently ==
  LET late == {g \in Groups : group[g].currstate # "COMPLETED"} IN
  /\ w.pc = "cleanup" /\ SyncGroupFree
  /\ recorded' = recorded \cup UNION {Members(g) : g \in late}
  /\ group' = [g \in Groups |-> IF g \in late THEN EmptyGroup("DEAD")
                                ELSE [group[g] EXCEPT !.currstate = "DEAD"]]
  /\ sync' = [currstate |-> "DEAD", pages |-> {},
              asleep |-> sync.asleep]
  /\ w' = [w EXCEPT !.pc = "exited"]
  /\ UNCHANGED <<cur, asleep, gate, syncBuffers, sw, threadVars, tstate, soft,
                 stopped, fatal, flushes>>

\* After the main loop the remaining groups are logged and synced, and
\* everything is DEAD.  ShutdownDBWriter runs with every backend kept out, so that
\* the two calls and the end of the sync group are one step.
CleanupWriteGroup ==
  LET late == {g \in Groups : group[g].currstate # "COMPLETED"} IN
  /\ w.pc = "cleanup" /\ SyncGroupFree
  /\ recorded' = recorded \cup UNION {Members(g) : g \in late}
  /\ group' = [g \in Groups |-> IF g \in late THEN EmptyGroup("DEAD")
                                ELSE [group[g] EXCEPT !.currstate = "DEAD"]]
  /\ sync' = [currstate |-> "DEAD", pages |-> {}, asleep |-> {}]
  /\ w' = [w EXCEPT !.pc = "exited"]
  /\ UNCHANGED <<cur, asleep, gate, syncBuffers, sw, threadVars, tstate, soft,
                 stopped, fatal, flushes>>
-----------------------------------------------------------------------------
(* SyncWriter. *)

SyncWriterBegins == sync' = [sync EXCEPT !.currstate = "FLUSHING"] /\ sw' = "busy"
SyncWriterSleeps ==
  sync' = [sync EXCEPT !.asleep = @ \cup {"SyncWriter"}] /\ sw' = "waiting"
SyncWanted == sync.currstate \in {"WAITING", "DEAD"}

\* The head of its loop.
SyncWriter ==
  /\ sw = "top"
  /\ \/ stopped /\ sw' = "exited" /\ UNCHANGED sync
     \/ ~stopped /\ SyncWanted /\ SyncWriterBegins
     \/ ~stopped /\ ~SyncWanted /\ SyncWriterSleeps
  /\ UNCHANGED <<group, cur, asleep, gate, w, syncBuffers, threadVars, tstate,
                 recorded, soft, stopped, fatal, flushes>>

\* Woken up, it looks at stopped before it looks at the state.
SyncWriterWake ==
  /\ sw = "waiting" /\ "SyncWriter" \notin sync.asleep
  /\ IF stopped \/ SyncWanted THEN SyncWriterBegins ELSE SyncWriterSleeps
  /\ UNCHANGED <<group, cur, asleep, gate, w, syncBuffers, threadVars, tstate,
                 recorded, soft, stopped, fatal, flushes>>

\* SyncBuffers(sync_group, false): it stops when told to, and leaves pg_log.
SyncBuffers ==
  /\ sw = "busy"
  /\ \E done \in SUBSET {p \in sync.pages : p[2] # 0} :
       /\ stopped => done = {}
       /\ sync' = [sync EXCEPT !.pages = @ \ done]
       /\ Written(done)
  /\ sw' = "done"
  /\ UNCHANGED <<group, cur, asleep, gate, w, syncBuffers, pc, kind, n, target,
                 tstate, recorded, soft, stopped, fatal, flushes>>

SyncWriterDone ==
  /\ sw = "done"
  /\ sync' = [sync EXCEPT !.currstate = "NOT_READY", !.asleep = {}]
  /\ sw' = "top"
  /\ UNCHANGED <<group, cur, asleep, gate, w, syncBuffers, threadVars, tstate,
                 recorded, soft, stopped, fatal, flushes>>
-----------------------------------------------------------------------------
Backend(x) ==
  \/ Retry(x) \/ CommitDBBufferWrites(x) \/ CommitWake(x) \/ SoftCommit(x)
  \/ FlushAllDirtyBuffers(x) \/ FlushWake(x)

DBWriter ==
  \/ WaitForSignal \/ WaitForMore \/ CheckFlush \/ AdvanceWriteGroupQueue
  \/ LogTransactions \/ LogWriteGroup \/ GetSyncGroup
  \/ FlushWriteGroup \/ EndFlush
  \/ MergeIntoSync \/ ActivateSyncGroup
  \/ MergeFromSync \/ SyncWriteGroup \/ EndSync
  \/ FinishWriteGroup \/ ResetWriteGroup \/ CleanupWriteGroup

Syncer == SyncWriter \/ SyncWriterWake \/ SyncBuffers \/ SyncWriterDone

\* A failed assertion ends the process.
Alive == fatal = {}

\* The server is down, or has died.
Quiescent ==
  /\ ~Alive \/ (w.pc = "exited" /\ sw = "exited")
  /\ UNCHANGED vars

Next ==
  \/ /\ Alive
     /\ \/ \E x \in Threads : \/ \E t \in CommitTypes : RegisterBufferWrite(x, t)
                             \/ StartFlush(x) \/ Backend(x)
        \/ ShutdownDBWriter
        \/ GateWake \/ GateTimeout \/ DBWriter
        \/ Syncer
  \/ Quiescent

Spec == Init /\ [][Next]_vars

\* A thread that can go on does: a wait that a signal or a broadcast ended
\* returns, and a timed wait ends.  Nothing is assumed of new requests.
Fairness ==
  /\ WF_vars(Alive /\ (GateWake \/ GateTimeout \/ DBWriter))
  /\ WF_vars(Alive /\ Syncer)
  /\ \A x \in Threads : WF_vars(Alive /\ Backend(x))
FairSpec == Spec /\ Fairness
-----------------------------------------------------------------------------
(* Properties. *)

Txns == Threads \X (1 .. MaxTxns)
Pages == Threads \X (0 .. MaxTxns)
States == {"NOT_READY", "WAITING", "READY", "PRIMED", "FLUSHING", "RUNNING",
           "LOGGED", "SYNCED", "COMPLETED", "DEAD"}
Places == {"check", "gate", "more", "flush", "flushed", "advance", "log",
           "logged", "merge", "activate", "collect", "sync", "synced", "finish",
           "reset", "cleanup", "exited"}

\* The state of the write groups and of their users is well formed; no group
\* ever holds more than maxtrans transactions, the size of its arrays.
TypeOK ==
  /\ \A g \in Groups :
       /\ group[g].currstate \in States
       /\ Len(group[g].trans) <= MaxTrans
       /\ Members(g) \subseteq Txns /\ group[g].pages \subseteq Pages
  /\ cur \in Groups
  /\ gate \in {"none", "waiting", "signalled"}
  /\ asleep \in [Groups -> SUBSET Threads]
  /\ w \in [pc : Places, cart : Groups, primed : BOOLEAN, timed : BOOLEAN]
  /\ sync.currstate \in {"NOT_READY", "WAITING", "FLUSHING", "COMPLETED", "DEAD"}
  /\ sync.pages \subseteq Pages /\ sync.asleep \subseteq {"DBWriter", "SyncWriter"}
  /\ syncBuffers \in Nat
  /\ sw \in {"top", "waiting", "busy", "done", "exited"}
  /\ pc \in [Threads -> {"idle", "enter", "waiting", "soft", "flushwait"}]
  /\ tstate \in [Threads -> {"default", "commit"}]
  /\ recorded \subseteq Txns /\ soft \subseteq Txns

\* No thread meets a group in a state it does not expect, whatever the order of
\* signals, time-outs and shutdown: SignalDBWriter (dbwriter.c:1493),
\* AdvanceWriteGroupQueue (dbwriter.c:717), the assertions around the DBWriter's
\* wait for the gate (dbwriter.c:557, 671 and 692) and that of ResetWriteGroup
\* (dbwriter.c:802) never fail.
AssertionsHold == fatal = {}

\* The DBWriter ends the commit of a backend (ResetThreadState) only while the
\* backend waits for it: the threads it released at the log are taken off
\* WaitingThreads, so SyncWriteGroup does not end their next transaction.
NoStrayReset ==
  [][\A x \in Threads : tstate[x] = "commit" /\ tstate'[x] = "default"
                          => pc[x] \in {"waiting", "soft"}]_vars

\* A commit leaves a write group's list only after LogTransactions recorded it.
NoCommitDropped ==
  [][\A g \in Groups : Members(g) \ Members(g)' \subseteq recorded']_vars

\* A careful committer is told that it is done only when its commit has been
\* recorded.
AnsweredRecorded ==
  \A x \in Threads :
    pc[x] = "waiting" /\ tstate[x] = "default" => <<x, n[x]>> \in recorded

\* A careful committer that sleeps will be woken: while it is on the
\* broadcaster of a group with its commit already over, that group has a
\* broadcast still to come.
NoLostWakeup ==
  \A g \in Groups : \A x \in asleep[g] :
    pc[x] = "waiting" /\ tstate[x] = "default"
      => w.cart = g /\ w.pc \in {"logged", "synced"}

\* When the DBWriter has shut down, every soft commit has become a real one.
ShutdownHardens == w.pc = "exited" => soft \subseteq recorded

\* A flush returns only when everything that was registered for writing when
\* it was requested has been written.
FlushWrites ==
  [][\A x \in Threads : pc[x] = "flushwait" /\ pc'[x] = "idle"
                          => wanted[x] = {}]_vars

\* Every commit and every flush returns: a backend that waits for the DBWriter
\* or the SyncWriter is idle again some time.
RequestsAnswered == \A x \in Threads : []<>(pc[x] = "idle")

\* Once ShutdownDBWriter has set stopped, both writers exit, so that its
\* pthread_join calls return (unless an assertion fails on the way).
ShutdownCompletes ==
  stopped ~> (w.pc = "exited" /\ sw = "exited") \/ ~Alive
=============================================================================
