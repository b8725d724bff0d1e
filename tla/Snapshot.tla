------------------------------ MODULE Snapshot ------------------------------
(***************************************************************************)
(* Transactions, their snapshots and the versions of one row: the thread   *)
(* slots that GetSnapshotData scans (sinval.c, multithread.c), the start   *)
(* and the end of a transaction (xact.c), the visibility rules with their  *)
(* hint bits (tqual.c), UPDATE with its wait for a concurrent updater      *)
(* (hio.c, heapam.c, execMain.c) and the vacuum that removes versions      *)
(* below the checkpoint id (vacuumlazy.c).                                 *)
(*                                                                         *)
(* A thread's slot is guarded by its own gate only, so starts and ends of  *)
(* transactions interleave with every step of a scan, which holds          *)
(* SInvalLock.  The row lies on one page; an updater or reader that asks   *)
(* whether a transaction crashed keeps the page locked between the two     *)
(* tests of the transaction log.                                           *)
(*                                                                         *)
(* The server starts after a crash: xid 1 inserted the row and committed,  *)
(* xid 2 had deleted it when the server died.                              *)
(***************************************************************************)
EXTENDS Integers, Sequences, FiniteSets

CONSTANTS NThreads,      \* maxBackends: slots of the procState array
          Serializable,  \* threads that run XACT_SERIALIZABLE
          Soft,          \* threads whose commits are soft
          Writers,       \* threads that update the row, the others read it
          Sweepers,      \* poolsweep threads, which vacuum the row
          MaxXid,        \* bound on transaction ids
          MaxTrans,      \* bound on the transactions of each thread
          MaxCommands    \* bound on the commands of a transaction of each thread

Threads == 1 .. NThreads

ASSUME SnapshotAssumption ==
  /\ NThreads \in Nat \ {0}
  /\ Serializable \subseteq Threads /\ Soft \subseteq Threads
  /\ Writers \subseteq Threads /\ Sweepers \subseteq Threads \ Writers
  /\ MaxXid \in Nat /\ MaxXid >= 2
  /\ MaxTrans \in [Threads -> Nat] /\ MaxCommands \in [Threads -> Nat]

Xids == 1 .. MaxXid
Invalid == 0              \* InvalidTransactionId
Crashed == 2

VARIABLES
  nextXid,     \* ShmemVariableCache->nextXid
  checkpoint,  \* ShmemVariableCache->xid_checkpoint
  status,      \* pg_log: status of every transaction id
  slot,        \* the THREAD of each slot: state, xid, xmin
  scan,        \* the GetSnapshotData that holds SInvalLock
  pc,          \* place of each thread
  xid,         \* transactionIdData
  snap,        \* QuerySnapshot
  trans,       \* transactions started by each thread
  cmds,        \* commands started by the transaction
  changed,     \* SharedBufferChanged
  op,          \* what a thread does with the row: version, field, update or read
  xwait,       \* the transaction an updater waits for
  reap,        \* vacrelstats->reapid
  dead,        \* versions a vacuum found to be removable
  row,         \* versions of the row, in the order of their creation
  page,        \* thread that holds the lock of the row's page, 0 if none
  gone,        \* versions removed by vacuum
  late         \* history: ids that some scan passed before they were published

logVars == <<nextXid, checkpoint, status>>
heapVars == <<row, page, gone>>
xactVars == <<xid, trans, cmds, changed>>
workVars == <<op, xwait, reap, dead>>
vars == <<logVars, slot, scan, pc, xactVars, snap, workVars, heapVars, late>>

NoScan == [by |-> 0, at |-> 0, xmax |-> 0, xmin |-> 0, xip |-> {}, low |-> 0]
NoSnap == [xmin |-> 0, xmax |-> 0, xip |-> {}]
DefaultSlot == [state |-> "default", xid |-> Invalid, xmin |-> Invalid]
NoOp == [v |-> 0, f |-> "xmax", update |-> FALSE]
Version(x, p) ==
  [xmin |-> x, xmax |-> Invalid, hmin |-> "none", hmax |-> "none", prev |-> p]

\* The checkpoint id starts as nextXidData of pg_variable, which is above the next
\* id by what is left of the batch that start-up took its own id from.
Init ==
  /\ nextXid = 3 /\ checkpoint \in 3 .. MaxXid + 1
  /\ status = [x \in Xids |-> IF x = 1 THEN "commit" ELSE "inprogress"]
  /\ slot = [t \in Threads |-> DefaultSlot]
  /\ scan = NoScan
  /\ pc = [t \in Threads |-> "idle"]
  /\ xid = [t \in Threads |-> Invalid]
  /\ snap = [t \in Threads |-> NoSnap]
  /\ trans = [t \in Threads |-> 0]
  /\ cmds = [t \in Threads |-> 0]
  /\ changed = [t \in Threads |-> FALSE]
  /\ op = [t \in Threads |-> NoOp]
  /\ xwait = [t \in Threads |-> Invalid]
  /\ reap = [t \in Threads |-> Invalid]
  /\ dead = [t \in Threads |-> {}]
  /\ row = <<[Version(1, 0) EXCEPT !.xmax = Crashed, !.hmin = "commit"]>>
  /\ page = 0
  /\ gone = {}
  /\ late = {}

SmallerOf(a, b) == IF a < b THEN a ELSE b
Goto(t, l) == pc' = [pc EXCEPT ![t] = l]
-----------------------------------------------------------------------------
(* The transaction log and the rules of tqual.c.                           *)

\* TransactionLogTest: the invalid id counts as aborted.
LogStatus(x) == IF x = Invalid THEN "abort" ELSE status[x]

TransactionIdDidCommit(x) == LogStatus(x) \in {"commit", "soft"}

TransactionIdIsInProgress(x) == \E t \in Threads : slot[t].xid = x

TransactionIdActiveDuringSnapshot(s, x) ==
  x >= s.xmax \/ (x >= s.xmin /\ x \in s.xip)

\* A version inserted or deleted by the current command counts as not yet so.
HeapTupleSatisfiesSnapshot(t, v) ==
  LET r == row[v]
  IN  /\ r.hmin # "invalid" /\ r.xmin # xid[t]
      /\ TransactionIdDidCommit(r.xmin)
      /\ ~TransactionIdActiveDuringSnapshot(snap[t], r.xmin)
      /\ \/ r.hmax = "invalid" \/ r.xmax = xid[t]
         \/ ~TransactionIdDidCommit(r.xmax)
         \/ TransactionIdActiveDuringSnapshot(snap[t], r.xmax)

\* TransactionIdDidAbort or TransactionIdDidCrash, as the vacuum asks them.  The
\* crash test is one step here: a status that changes between its two looks at the
\* log only turns the answer to "in progress".
Failed(x) ==
  \/ LogStatus(x) = "abort"
  \/ LogStatus(x) = "inprogress" /\ (x < checkpoint \/ ~TransactionIdIsInProgress(x))

\* Mutant: the horizon itself counts as dead.
VacuumsHorizon(v, oldest) ==
  LET r == row[v]
  IN  CASE r.hmin = "invalid" \/ Failed(r.xmin) -> "stillborn"
        [] ~TransactionIdDidCommit(r.xmin) -> "insert in progress"
        [] r.hmax = "invalid" \/ Failed(r.xmax) -> "live"
        [] ~TransactionIdDidCommit(r.xmax) -> "delete in progress"
        [] r.xmax > oldest -> "recently dead"
        [] OTHER -> "dead"

HeapTupleSatisfiesVacuum(v, oldest) ==
  LET r == row[v]
  IN  CASE r.hmin = "invalid" \/ Failed(r.xmin) -> "stillborn"
        [] ~TransactionIdDidCommit(r.xmin) -> "insert in progress"
        [] r.hmax = "invalid" \/ Failed(r.xmax) -> "live"
        [] ~TransactionIdDidCommit(r.xmax) -> "delete in progress"
        [] r.xmax >= oldest -> "recently dead"
        [] OTHER -> "dead"

\* HEAP_XMIN_COMMITTED and HEAP_XMAX_COMMITTED are set after a hard commit only.
HintFor(x) == CASE status[x] = "commit" -> "commit"
                [] status[x] = "abort"  -> "invalid"
                [] OTHER                -> "none"

\* The hints that HeapTupleSatisfiesVacuum leaves behind.
Hinted(r) ==
  LET hint(x) == IF Failed(x) THEN "invalid" ELSE HintFor(x)
  IN  [r EXCEPT
         !.hmin = IF @ = "none" THEN hint(r.xmin) ELSE @,
         !.hmax = IF @ = "none" /\ TransactionIdDidCommit(r.xmin) THEN hint(r.xmax) ELSE @]
SetHint(v, f, h) ==
  IF f = "xmin" THEN [row EXCEPT ![v].hmin = h] ELSE [row EXCEPT ![v].hmax = h]
Hint(v, f) == IF f = "xmin" THEN row[v].hmin ELSE row[v].hmax
-----------------------------------------------------------------------------
(* Start of a transaction and its snapshots.                               *)

GetNewTransactionId(t) ==
  /\ pc[t] = "idle" /\ nextXid <= MaxXid /\ trans[t] < MaxTrans[t]
  /\ xid' = [xid EXCEPT ![t] = nextXid]
  /\ nextXid' = nextXid + 1
  /\ trans' = [trans EXCEPT ![t] = @ + 1]
  /\ Goto(t, "taken")
  /\ UNCHANGED <<checkpoint, status, slot, scan, snap, cmds, changed, workVars,
                 heapVars, late>>

\* With XactLockTableInsert: the thread holds the lock of its id until it is
\* idle again.
ThreadTransactionStart(t) ==
  /\ pc[t] = "taken"
  /\ slot' = [slot EXCEPT ![t] = [state |-> "start", xid |-> xid[t], xmin |-> xid[t]]]
  /\ Goto(t, "begun")
  /\ UNCHANGED <<logVars, scan, xactVars, snap, workVars, heapVars, late>>

\* SetQuerySnapshot: the first command of a transaction takes a snapshot, the
\* later ones do unless the transaction is serializable.  The thread's own slot,
\* which only counts for the checkpoint and only the thread changes, is read here.
BeginSnapshot(t) ==
  /\ \/ pc[t] = "begun"
     \/ pc[t] = "active" /\ ~changed[t] /\ t \notin Serializable \cup Sweepers
  /\ cmds[t] < MaxCommands[t]
  /\ scan.by = 0
  /\ scan' = [by |-> t, at |-> IF t = 1 THEN 2 ELSE 1, xmax |-> nextXid,
              xmin |-> xid[t], xip |-> {}, low |-> SmallerOf(xid[t], slot[t].xmin)]
  /\ Goto(t, "scan")
  /\ cmds' = [cmds EXCEPT ![t] = @ + 1]
  /\ UNCHANGED <<logVars, slot, xid, trans, changed, snap, workVars, heapVars, late>>

\* Mutant: the checkpoint follows the ids of the slots, not their xmin.
ScanIgnoresXmin(t) ==
  /\ scan.by = t /\ scan.at <= NThreads
  /\ LET p == slot[scan.at]
         running == p.state # "default"
     IN  scan' = [scan EXCEPT
           !.at = IF @ + 1 = t THEN @ + 2 ELSE @ + 1,
           !.low = IF running THEN SmallerOf(p.xid, @) ELSE @,
           !.xmin = IF running THEN SmallerOf(p.xid, @) ELSE @,
           !.xip = IF running THEN @ \cup {p.xid} ELSE @]
  /\ late' = IF pc[scan.at] = "taken" /\ xid[scan.at] < scan.xmax
             THEN late \cup {xid[scan.at]} ELSE late
  /\ UNCHANGED <<logVars, slot, pc, xactVars, snap, workVars, heapVars>>

\* One turn of the loop over the other slots, under the gate of the slot.
ScanSlot(t) ==
  /\ scan.by = t /\ scan.at <= NThreads
  /\ LET p == slot[scan.at]
         running == p.state # "default"
     IN  scan' = [scan EXCEPT
           !.at = IF @ + 1 = t THEN @ + 2 ELSE @ + 1,
           !.low = IF p.xmin # Invalid THEN SmallerOf(p.xmin, @) ELSE @,
           !.xmin = IF running THEN SmallerOf(p.xid, @) ELSE @,
           !.xip = IF running THEN @ \cup {p.xid} ELSE @]
  /\ late' = IF pc[scan.at] = "taken" /\ xid[scan.at] < scan.xmax
             THEN late \cup {xid[scan.at]} ELSE late
  /\ UNCHANGED <<logVars, slot, pc, xactVars, snap, workVars, heapVars>>

\* Mutant: ReadNewTransactionId is called after the loop.
EndReadsXmax(t) ==
  /\ scan.by = t /\ scan.at > NThreads
  /\ snap' = [snap EXCEPT ![t] = [xmin |-> scan.xmin, xmax |-> nextXid,
                                  xip |-> scan.xip]]
  /\ IF cmds[t] = 1
     THEN /\ slot' = [slot EXCEPT ![t].xmin = scan.xmin]
          /\ checkpoint' = SmallerOf(scan.low, scan.xmin)
     ELSE /\ checkpoint' = scan.low /\ UNCHANGED slot
  /\ scan' = NoScan
  /\ Goto(t, "active")
  /\ UNCHANGED <<nextXid, status, xactVars, workVars, heapVars, late>>

\* The first snapshot of a transaction is its serializable one.
EndSnapshot(t) ==
  /\ scan.by = t /\ scan.at > NThreads
  /\ snap' = [snap EXCEPT ![t] = [xmin |-> scan.xmin, xmax |-> scan.xmax,
                                  xip |-> scan.xip]]
  /\ IF cmds[t] = 1
     THEN /\ slot' = [slot EXCEPT ![t].xmin = scan.xmin]
          /\ checkpoint' = SmallerOf(scan.low, scan.xmin)
     ELSE /\ checkpoint' = scan.low /\ UNCHANGED slot
  /\ scan' = NoScan
  /\ Goto(t, "active")
  /\ UNCHANGED <<nextXid, status, xactVars, workVars, heapVars, late>>
-----------------------------------------------------------------------------
(* Reading and updating the row.                                           *)

Present == DOMAIN row \ gone
Visible(t) == {v \in DOMAIN row : HeapTupleSatisfiesSnapshot(t, v)}

\* One of the two transactions of a version, still without a hint, is looked
\* up in the log; xmax only once xmin is known to have committed.
Examined(t, v, f) ==
  /\ page = 0
  /\ Hint(v, f) = "none" /\ row[v][f] \notin {Invalid, xid[t]}
  /\ f = "xmax" => TransactionIdDidCommit(row[v].xmin)

\* A reader looks at a version.  A transaction without a status is examined
\* further with the page locked.
Read(t, v, f) ==
  /\ pc[t] = "active" /\ t \notin Writers /\ Examined(t, v, f)
  /\ LET x == row[v][f]
     IN  IF status[x] = "inprogress"
         THEN /\ op' = [op EXCEPT ![t] = [v |-> v, f |-> f, update |-> FALSE]]
              /\ page' = t
              /\ Goto(t, "doubt")
              /\ UNCHANGED row
         ELSE /\ row' = SetHint(v, f, HintFor(x))
              /\ UNCHANGED <<pc, op, page>>
  /\ UNCHANGED <<logVars, slot, scan, xactVars, snap, xwait, reap, dead, gone, late>>

\* ExecReplace is handed a version that the snapshot sees.  The update is the
\* last command of its transaction.
ExecReplace(t, v) ==
  /\ pc[t] = "active" /\ ~changed[t] /\ t \in Writers /\ cmds[t] = MaxCommands[t]
  /\ HeapTupleSatisfiesSnapshot(t, v)
  /\ op' = [op EXCEPT ![t] = [v |-> v, f |-> "xmax", update |-> TRUE]]
  /\ Goto(t, "update")
  /\ UNCHANGED <<logVars, slot, scan, xactVars, snap, xwait, reap, dead, heapVars, late>>

\* heap_update with the page locked: the old version gets its xmax, the new
\* one is put at the end.
heap_update(t, v) ==
  /\ row' = Append([row EXCEPT ![v].xmax = xid[t], ![v].hmax = "none"],
                   Version(xid[t], v))
  /\ changed' = [changed EXCEPT ![t] = TRUE]
  /\ op' = [op EXCEPT ![t] = NoOp]
  /\ Goto(t, "active")

\* LockHeapTupleForUpdate finds HeapTupleMayBeUpdated.
MayBeUpdated(t) ==
  /\ pc[t] = "update" /\ page = 0
  /\ LET r == row[op[t].v]
     IN  r.hmax = "invalid" \/ LogStatus(r.xmax) = "abort"
  /\ heap_update(t, op[t].v)
  /\ UNCHANGED <<logVars, slot, scan, xid, trans, cmds, snap, xwait, reap, dead, page, gone, late>>

\* The version that t_ctid of an updated version leads to.
Successor(v) == CHOOSE u \in DOMAIN row : row[u].prev = v /\ row[u].xmin = row[v].xmax

\* HeapTupleUpdated: a serializable transaction gives up, another one goes on
\* to the newest version (EvalPlanQual).
Updated(t) ==
  /\ pc[t] = "update" /\ page = 0
  /\ LET v == op[t].v
         x == row[v].xmax
     IN  /\ row[v].hmax # "invalid" /\ TransactionIdDidCommit(x)
         /\ row' = SetHint(v, "xmax", HintFor(x))
         /\ IF t \in Serializable
            THEN Goto(t, "abort") /\ op' = [op EXCEPT ![t] = NoOp]
            ELSE op' = [op EXCEPT ![t].v = Successor(v)] /\ UNCHANGED pc
  /\ UNCHANGED <<logVars, slot, scan, xactVars, snap, xwait, reap, dead, page, gone, late>>

\* The updater of the version has no status yet: running or crashed.
BeingUpdated(t) ==
  /\ pc[t] = "update" /\ page = 0
  /\ LET r == row[op[t].v]
     IN  r.hmax = "none" /\ LogStatus(r.xmax) = "inprogress"
  /\ page' = t
  /\ Goto(t, "doubt")
  /\ UNCHANGED <<logVars, slot, scan, xactVars, snap, workVars, row, gone, late>>

Examinee(t) == row[op[t].v][op[t].f]

\* What follows when the transaction in doubt turns out not to have crashed: a
\* reader goes on, an updater waits for it.
NotCrashed(t) ==
  /\ page' = 0
  /\ IF op[t].update
     THEN /\ xwait' = [xwait EXCEPT ![t] = Examinee(t)]
          /\ Goto(t, "wait") /\ UNCHANGED op
     ELSE /\ op' = [op EXCEPT ![t] = NoOp]
          /\ Goto(t, "active") /\ UNCHANGED xwait
  /\ UNCHANGED <<row, changed>>

\* TransactionIdDidCrash, the log having no status: is the transaction older
\* than the checkpoint or in no slot?  The slots are read under SInvalLock.
DidCrash(t) ==
  /\ pc[t] = "doubt"
  /\ LET x == Examinee(t)
     IN  /\ x < checkpoint \/ scan.by = 0
         /\ IF x < checkpoint \/ ~TransactionIdIsInProgress(x)
            THEN Goto(t, "retest") /\ UNCHANGED <<page, row, changed, op, xwait>>
            ELSE NotCrashed(t)
  /\ UNCHANGED <<logVars, slot, scan, xid, trans, cmds, snap, reap, dead, gone, late>>

\* Mutant: the first look at the log decides.
NoRetest(t) ==
  /\ pc[t] = "retest"
  /\ page' = 0 /\ UNCHANGED xwait
  /\ IF op[t].update
     THEN heap_update(t, op[t].v)
     ELSE /\ row' = SetHint(op[t].v, op[t].f, "invalid")
          /\ op' = [op EXCEPT ![t] = NoOp]
          /\ Goto(t, "active") /\ UNCHANGED changed
  /\ UNCHANGED <<logVars, slot, scan, xid, trans, cmds, snap, reap, dead, gone, late>>

\* The second look of TransactionIdDidCrash at the log.
Retest(t) ==
  /\ pc[t] = "retest"
  /\ IF status[Examinee(t)] # "inprogress"
     THEN NotCrashed(t)
     ELSE /\ page' = 0 /\ UNCHANGED xwait
          /\ IF op[t].update
             THEN heap_update(t, op[t].v)
             ELSE /\ row' = SetHint(op[t].v, op[t].f, "invalid")
                  /\ op' = [op EXCEPT ![t] = NoOp]
                  /\ Goto(t, "active") /\ UNCHANGED changed
  /\ UNCHANGED <<logVars, slot, scan, xid, trans, cmds, snap, reap, dead, gone, late>>

\* Mutant: the row is updated after the wait without being tested again.
WaitOnce(t) ==
  /\ pc[t] = "wait" /\ page = 0
  /\ ~\E u \in Threads : xid[u] = xwait[t] /\ pc[u] \notin {"idle", "taken"}
  /\ heap_update(t, op[t].v)
  /\ xwait' = [xwait EXCEPT ![t] = Invalid]
  /\ UNCHANGED <<logVars, slot, scan, xid, trans, cmds, snap, reap, dead, page, gone, late>>

\* XactLockTableWait: the lock of an id is free when its thread has let it go.
XactLockTableWait(t) ==
  /\ pc[t] = "wait"
  /\ ~\E u \in Threads : xid[u] = xwait[t] /\ pc[u] \notin {"idle", "taken"}
  /\ Goto(t, "update")
  /\ xwait' = [xwait EXCEPT ![t] = Invalid]
  /\ UNCHANGED <<logVars, slot, scan, xactVars, snap, op, reap, dead, heapVars, late>>
-----------------------------------------------------------------------------
(* The vacuum of a poolsweep thread.                                       *)

\* lazy_vacuum_rel reads the checkpoint id once.
GetCheckpointId(t) ==
  /\ pc[t] = "active" /\ t \in Sweepers /\ reap[t] = Invalid
  /\ reap' = [reap EXCEPT ![t] = checkpoint]
  /\ UNCHANGED <<logVars, slot, scan, pc, xactVars, snap, op, xwait, dead, heapVars, late>>

lazy_scan_heap(t) ==
  /\ pc[t] = "active" /\ reap[t] # Invalid /\ page = 0
  /\ dead' = [dead EXCEPT ![t] =
       {v \in Present : HeapTupleSatisfiesVacuum(v, reap[t]) \in {"dead", "stillborn"}}]
  /\ row' = [v \in DOMAIN row |-> IF v \in Present THEN Hinted(row[v]) ELSE row[v]]
  /\ Goto(t, "vacuum")
  /\ UNCHANGED <<logVars, slot, scan, xactVars, snap, op, xwait, reap, page, gone, late>>

\* The second pass removes what the first one found; it is not stopped half-way for
\* an index build that waits for the relation.
lazy_vacuum_heap(t) ==
  /\ pc[t] = "vacuum" /\ page = 0
  /\ gone' = gone \cup dead[t]
  /\ dead' = [dead EXCEPT ![t] = {}]
  /\ changed' = [changed EXCEPT ![t] = dead[t] # {}]
  /\ reap' = [reap EXCEPT ![t] = Invalid]
  /\ Goto(t, "swept")
  /\ UNCHANGED <<logVars, slot, scan, xid, trans, cmds, snap, op, xwait, row, page, late>>
-----------------------------------------------------------------------------
(* End of a transaction.                                                   *)

\* CommitTransaction: the slot goes to TRANS_COMMIT and, when the transaction
\* changed anything, its status enters the log, written by LogTransactions of
\* the DBWriter or by the backend itself when the commit is soft.  A scan does
\* not tell TRANS_COMMIT from TRANS_START, so both happen in one step.  A writer
\* commits after its update, unless it found nothing to update.
RecordTransactionCommit(t) ==
  /\ \/ /\ pc[t] = "active" /\ t \notin Sweepers
        /\ t \in Writers => changed[t] \/ Visible(t) \cap Present = {}
     \/ pc[t] = "swept"
  /\ slot' = [slot EXCEPT ![t].state = "commit"]
  /\ status' = IF changed[t]
               THEN [status EXCEPT ![xid[t]] = IF t \in Soft THEN "soft" ELSE "commit"]
               ELSE status
  /\ Goto(t, "reset")
  /\ UNCHANGED <<nextXid, checkpoint, scan, xactVars, snap, workVars, heapVars, late>>

\* The DBWriter writes the final status of a soft commit.
Harden(x) ==
  /\ status[x] = "soft"
  /\ status' = [status EXCEPT ![x] = "commit"]
  /\ UNCHANGED <<nextXid, checkpoint, slot, scan, pc, xactVars, snap, workVars,
                 heapVars, late>>

\* An abort leaves the state of the slot alone and is recorded at once; that of
\* a transaction that changed nothing is not recorded, as its commit is not.
RecordTransactionAbort(t) ==
  /\ \/ pc[t] = "abort"
     \/ pc[t] = "active" /\ changed[t]
  /\ status' = IF changed[t] THEN [status EXCEPT ![xid[t]] = "abort"] ELSE status
  /\ Goto(t, "reset")
  /\ UNCHANGED <<nextXid, checkpoint, slot, scan, xactVars, snap, workVars, heapVars, late>>

\* ResetThreadState and ThreadTransactionReset, under the gate of the slot, then
\* AtCommit_Locks and AtAbort_Locks.  A waiter cannot tell the two steps apart.
ResetThreadState(t) ==
  /\ pc[t] = "reset"
  /\ slot' = [slot EXCEPT ![t] = DefaultSlot]
  /\ Goto(t, "idle")
  /\ xid' = [xid EXCEPT ![t] = Invalid]
  /\ cmds' = [cmds EXCEPT ![t] = 0]
  /\ changed' = [changed EXCEPT ![t] = FALSE]
  /\ snap' = [snap EXCEPT ![t] = NoSnap]
  /\ UNCHANGED <<logVars, scan, trans, workVars, heapVars, late>>

Done == /\ \A t \in Threads : pc[t] = "idle"
        /\ nextXid > MaxXid \/ trans = MaxTrans
        /\ \A x \in Xids : status[x] # "soft"
        /\ UNCHANGED vars

Next ==
  \/ \E t \in Threads :
       \/ GetNewTransactionId(t) \/ ThreadTransactionStart(t)
       \/ BeginSnapshot(t) \/ ScanSlot(t) \/ EndSnapshot(t)
       \/ \E v \in Present : ExecReplace(t, v)
       \/ \E v \in Present, f \in {"xmin", "xmax"} : Read(t, v, f)
       \/ MayBeUpdated(t) \/ Updated(t) \/ BeingUpdated(t) \/ DidCrash(t) \/ Retest(t)
       \/ XactLockTableWait(t)
       \/ GetCheckpointId(t) \/ lazy_scan_heap(t) \/ lazy_vacuum_heap(t)
       \/ RecordTransactionCommit(t) \/ RecordTransactionAbort(t)
       \/ ResetThreadState(t)
  \/ \E x \in Xids : Harden(x)
  \/ Done

Spec == Init /\ [][Next]_vars
-----------------------------------------------------------------------------
(* Properties.                                                             *)

Places == {"idle", "taken", "begun", "scan", "active", "update", "doubt", "retest",
           "wait", "vacuum", "swept", "abort", "reset"}
Hints == {"none", "commit", "invalid"}

\* The variables keep their types.
TypeOK ==
  /\ nextXid \in 3 .. MaxXid + 1 /\ checkpoint \in 1 .. MaxXid + 1
  /\ status \in [Xids -> {"inprogress", "commit", "soft", "abort"}]
  /\ \A t \in Threads :
       /\ slot[t].state \in {"default", "start", "commit"}
       /\ slot[t].xid \in 0 .. MaxXid /\ slot[t].xmin \in 0 .. MaxXid
       /\ snap[t].xip \subseteq Xids
       /\ op[t].v \in 0 .. Len(row) /\ dead[t] \subseteq DOMAIN row
  /\ scan.by \in 0 .. NThreads /\ scan.xip \subseteq Xids
  /\ pc \in [Threads -> Places]
  /\ xid \in [Threads -> 0 .. MaxXid] /\ xwait \in [Threads -> 0 .. MaxXid]
  /\ reap \in [Threads -> 0 .. MaxXid + 1]
  /\ trans \in [Threads -> Nat] /\ cmds \in [Threads -> Nat] /\ changed \in [Threads -> BOOLEAN]
  /\ \A v \in DOMAIN row : row[v].hmin \in Hints /\ row[v].hmax \in Hints
  /\ page \in 0 .. NThreads /\ gone \subseteq DOMAIN row /\ late \subseteq Xids

\* Threads that read with a complete snapshot.
Open(t) == pc[t] \in {"active", "update", "doubt", "retest", "wait", "vacuum", "swept"}

\* A committed update is never overwritten: the version it replaced still names
\* it as the deleter (LockHeapTupleForUpdate waits for, or follows, whoever
\* updated the row first).
NoLostUpdate ==
  \A v \in DOMAIN row :
    row[v].prev # 0 /\ TransactionIdDidCommit(row[v].xmin)
      => row[row[v].prev].xmax = row[v].xmin

\* A hint bit tells the truth for good: "committed" is set for hard commits only,
\* "invalid" never for a transaction that may still commit, although the crash
\* test reads the log and the slots one after the other.
HintsTruthful ==
  \A v \in DOMAIN row, f \in {"xmin", "xmax"} :
    LET x == row[v][f]
    IN  /\ Hint(v, f) = "commit" => status[x] = "commit"
        /\ Hint(v, f) = "invalid" =>
             \/ LogStatus(x) = "abort"
             \/ LogStatus(x) = "inprogress" /\ \A t \in Threads : xid[t] # x

\* The checkpoint id never passes the oldest transaction that an open snapshot
\* of any thread can tell apart.
HorizonBelowSnapshots ==
  \A t \in Threads :
    slot[t].state # "default" /\ snap[t] # NoSnap => checkpoint <= slot[t].xmin

\* Vacuum removes no version that an open snapshot still sees, its deleter's id
\* having been in its slot whenever a scan passed it.
VacuumKeepsVisible ==
  \A t \in Threads, v \in gone :
    Open(t) /\ v \in Visible(t) => row[v].xmax \in late

\* What an open snapshot sees does not change any more: a transaction that it
\* takes for finished has left its outcome in the log, so no commit or abort of
\* another thread can still alter the answer; again apart from ids that were not
\* in their slot when a scan passed it.
SnapshotDecides ==
  \A t, u \in Threads :
    /\ Open(t) /\ t # u /\ pc[u] \notin {"idle", "reset"} /\ xid[u] \notin late
      => TransactionIdActiveDuringSnapshot(snap[t], xid[u])

\* Every snapshot sees one version of the row, as the comment of
\* CommitTransaction promises: the first of two consecutive updates is not seen
\* as running by a scan that takes the second one for finished.
SeesOneVersion ==
  \A t \in Threads : Open(t) /\ late = {} => Cardinality(Visible(t)) = 1
=============================================================================
