--------------------------- MODULE DelegatedScan ---------------------------
(***************************************************************************)
(* Scans that a connection delegates to helper threads: the pool of        *)
(* helpers of the connection (dolhelper.c), the hand-over of tuple         *)
(* pointers from a helper to the executor (delegatedscan.c) and the loop   *)
(* that a helper runs (nodeDelegatedSeqscan.c).                            *)
(*                                                                         *)
(* A helper has a mutex and a condition variable (guard and gate of its    *)
(* DolConnection), and so has the Delegate it shares with the executor for *)
(* one scan.  What a thread does between locking and releasing one of them *)
(* is one step; a sleeping thread has given it up.  A signal wakes the one *)
(* thread that sleeps on the condition variable.  Delegates are named by   *)
(* the helper that works on them, tuples by their place in the relation.   *)
(***************************************************************************)
EXTENDS Integers, Sequences

CONSTANTS MAX_HELPERS,  \* helpers of a connection
          TransferMax,  \* pointers in a hand-over
          NTuples,      \* tuples of the relation that a helper scans
          Fails,        \* may a helper meet an error?
          Cancels,      \* may the statement fail or be cancelled?
          MaxScans      \* bound on the scans of the connection

ASSUME ScanAssumption ==
  /\ MAX_HELPERS \in Nat \ {0} /\ TransferMax \in Nat \ {0}
  /\ NTuples \in [1 .. MAX_HELPERS -> Nat]
  /\ Fails \in BOOLEAN /\ Cancels \in BOOLEAN /\ MaxScans \in Nat

Helpers == 1 .. MAX_HELPERS

VARIABLES
  state,      \* DolState of each helper, "none" for a free slot
  hpc,        \* place of the helper
  start,      \* is there a command (conn->start)?
  cancelled,  \* env->cancelled of the helper
  hwake,      \* has the sleeping helper been signalled?
  cancel,     \* env->cancelled of the connection, or ShutdownProcessing
  mpc, at,    \* place of the main thread, and the helper it is concerned with
  mwake,      \* has the sleeping main thread been signalled?
  open,       \* scans that were started and not ended
  dele,       \* the Delegate of each scan
  next,       \* tuple the helper's scan returns next
  local,      \* scan_args->items
  done,       \* scan_args->done
  rest,       \* marker->items from marker->pointer on
  got,        \* pointers the executor has been given
  eof,        \* has DelegatedScanNext returned false?
  scans       \* scans started

helperVars == <<state, hpc, start, cancelled, hwake>>
scanVars == <<next, local, done>>
markerVars == <<rest, got, eof>>
vars == <<helperVars, cancel, mpc, at, mwake, open, dele, scanVars, markerVars, scans>>

\* DelegatedScanStart fills the Delegate with this.
NewDelegate == [size |-> 0, items |-> <<>>, collstate |-> "running", delestate |-> "running",
                collector_done |-> FALSE, delegate_done |-> FALSE]

Init ==
  /\ state = [h \in Helpers |-> "none"] /\ hpc = [h \in Helpers |-> "none"]
  /\ start = [h \in Helpers |-> FALSE] /\ cancelled = [h \in Helpers |-> FALSE]
  /\ hwake = [h \in Helpers |-> FALSE]
  /\ cancel = FALSE /\ mpc = "exec" /\ at = 0 /\ mwake = FALSE /\ open = {}
  /\ dele = [h \in Helpers |-> NewDelegate]
  /\ next = [h \in Helpers |-> 1] /\ local = [h \in Helpers |-> <<>>]
  /\ done = [h \in Helpers |-> FALSE]
  /\ rest = [h \in Helpers |-> <<>>] /\ got = [h \in Helpers |-> <<>>]
  /\ eof = [h \in Helpers |-> FALSE]
  /\ scans = 0

Goto(h, place) == hpc' = [hpc EXCEPT ![h] = place]

\* The connection is in a transaction until the locks are given up at its end.
InTransaction == mpc \notin {"ended", "destroy", "join"}

\* CheckForCancel in a helper; in the thread of the connection it is cancel.
MustStop(h) == cancelled[h] \/ cancel \/ ~InTransaction
-----------------------------------------------------------------------------
(* The loop of a helper thread (InitDolConnection).                        *)

\* The top of the loop, with the guard: a helper that has nothing to do tells a
\* waiting main thread and goes to sleep.
Top(h) ==
  /\ CASE state[h] = "shutdown" ->
            Goto(h, "gone") /\ UNCHANGED <<state, mwake>>
       [] state[h] = "primed" ->
            state' = [state EXCEPT ![h] = "running"] /\ Goto(h, "clone") /\ UNCHANGED mwake
       [] OTHER ->
            /\ mwake' = (mwake \/ state[h] = "mainwaiting")
            /\ state' = [state EXCEPT ![h] = "waiting"]
            /\ Goto(h, "asleep")
  /\ hwake' = [hwake EXCEPT ![h] = FALSE]

InitDolConnection(h) ==
  /\ hpc[h] = "init"
  /\ Top(h)
  /\ UNCHANGED <<start, cancel, cancelled, mpc, at, open, dele, scanVars, markerVars, scans>>

\* The helper comes out of its sleep; a command is run whatever the state is.
HelperWakes(h) ==
  /\ hpc[h] = "asleep" /\ hwake[h]
  /\ IF start[h]
     THEN /\ state' = [state EXCEPT ![h] = "running"]
          /\ hwake' = [hwake EXCEPT ![h] = FALSE]
          /\ Goto(h, "clone") /\ UNCHANGED mwake
     ELSE Top(h)
  /\ UNCHANGED <<start, cancel, cancelled, mpc, at, open, dele, scanVars, markerVars, scans>>

\* CloneTransactionEvironment and clearerror, which also clears the cancel flag,
\* then the start of DolHeapDelegation.
CloneTransactionEvironment(h) ==
  /\ hpc[h] = "clone"
  /\ cancelled' = [cancelled EXCEPT ![h] = FALSE]
  /\ next' = [next EXCEPT ![h] = 1]
  /\ local' = [local EXCEPT ![h] = <<>>]
  /\ done' = [done EXCEPT ![h] = FALSE]
  /\ Goto(h, "scan")
  /\ UNCHANGED <<state, start, cancel, hwake, mpc, at, mwake, open, dele, markerVars, scans>>

\* What is read from memory that was freed: it stands for any contents.
Freed == 0

\* The array of the Delegate is gone, but the Delegate still claims to hold it.
FreeItems(d) == [d EXCEPT !.items = [i \in DOMAIN @ |-> Freed]]

\* The command has returned, or the helper jumped out of it: back to the top.  The
\* jump deletes the memory context of the command, with the scan and the array of
\* the Delegate in it; before a return DelegatedDone has freed the array.
CommandDone(h) ==
  /\ \/ /\ hpc[h] = "tail"
        /\ UNCHANGED <<cancelled, dele>>
     \/ /\ hpc[h] = "error"
        /\ cancelled' = [cancelled EXCEPT ![h] = FALSE]
        /\ dele' = [dele EXCEPT ![h] = FreeItems(@)]
  /\ start' = [start EXCEPT ![h] = FALSE]
  /\ next' = [next EXCEPT ![h] = 1] /\ local' = [local EXCEPT ![h] = <<>>]
  /\ done' = [done EXCEPT ![h] = FALSE]
  /\ Goto(h, "loop")
  /\ UNCHANGED <<state, cancel, hwake, mpc, at, mwake, open, markerVars, scans>>

HelperLoops(h) ==
  /\ hpc[h] = "loop"
  /\ Top(h)
  /\ UNCHANGED <<start, cancel, cancelled, mpc, at, open, dele, scanVars, markerVars, scans>>
-----------------------------------------------------------------------------
(* The scan of a helper (DolHeapDelegation).                               *)

\* heap_getnext and the end of the loop body: a full array is transferred, and
\* what there is when the scan is done.
DolHeapDelegation(h) ==
  /\ hpc[h] = "scan"
  /\ LET valid == next[h] <= NTuples[h]
     IN  /\ local' = [local EXCEPT ![h] = IF valid THEN Append(@, next[h]) ELSE @]
         /\ next' = [next EXCEPT ![h] = IF valid THEN @ + 1 ELSE @]
         /\ done' = [done EXCEPT ![h] = @ \/ ~valid]
         /\ Goto(h, IF done'[h] \/ Len(local'[h]) = TransferMax THEN "check" ELSE "scan")
  /\ UNCHANGED <<state, start, cancel, cancelled, hwake, mpc, at, mwake, open, dele, markerVars, scans>>

\* HeapPointerTranfer, the trigger that reading a page calls in heap_getnext: a
\* collector that waits gets what there is.
HeapPointerTranfer(h) ==
  /\ hpc[h] = "scan"
  /\ dele[h].collstate = "waiting" /\ local[h] # <<>>
  /\ Goto(h, "check")
  /\ UNCHANGED <<state, start, cancel, cancelled, hwake, mpc, at, mwake, open, dele, scanVars,
                 markerVars, scans>>

\* The transfer is the one of the loop body, not the one of the trigger.
OfLoop(h) == done[h] \/ Len(local[h]) = TransferMax

\* The test that DelegatedTransferPointers begins with, before it locks.
CheckForCancel(h) ==
  /\ hpc[h] = "check"
  /\ Goto(h, IF MustStop(h) THEN "error" ELSE "transfer")
  /\ UNCHANGED <<state, start, cancel, cancelled, hwake, mpc, at, mwake, open, dele, scanVars,
                 markerVars, scans>>

\* DelegateSignal: a side that has said that it waits is signalled, and wakes up if
\* it still sleeps on the Delegate (it may have left its wait with an error).
SignalCollector(d) ==
  IF d.collstate = "waiting" THEN [d EXCEPT !.collstate = "signaled"] ELSE d
WakesCollector(h) ==
  dele[h].collstate = "waiting" /\ mpc \in {"collect", "ending"} /\ at = h

\* Mutant: the delegate is not signalled.
SignalNobody(d) == d

SignalDelegate(d) ==
  IF d.delestate = "waiting" THEN [d EXCEPT !.delestate = "signaled"] ELSE d
WakesDelegate(h) == dele[h].delestate = "waiting" /\ hpc[h] \in {"full", "donewait"}

\* There is room for the pointers.
Room(d, items) == d.size + Len(items) <= TransferMax

\* The pointers are moved behind the ones that were not collected yet.
Move(d, items) ==
  [d EXCEPT !.items = SubSeq(@, 1, d.size) \o items, !.size = @ + Len(items)]

\* DelegatedTransferPointers with the guard, from its start or from its wait for
\* room.  Only the start asks whether the collector is done.
DelegatedTransferPointers(h) ==
  /\ hpc[h] = "transfer" \/ (hpc[h] = "full" /\ hwake[h])
  /\ hwake' = [hwake EXCEPT ![h] = FALSE]
  /\ LET d == [dele[h] EXCEPT !.delestate = "running"]
         dropped == hpc[h] = "transfer" /\ d.collector_done
     IN  \/ /\ dropped
            /\ done' = [done EXCEPT ![h] = TRUE]
            /\ local' = [local EXCEPT ![h] = <<>>]
            /\ Goto(h, IF OfLoop(h) THEN "finish" ELSE "scan")
            /\ UNCHANGED <<dele, mwake>>
         \/ /\ ~dropped /\ ~Room(d, local[h])
            /\ dele' = [dele EXCEPT ![h] = [d EXCEPT !.delestate = "waiting"]]
            /\ Goto(h, "full")
            /\ UNCHANGED <<done, local, mwake>>
         \/ /\ ~dropped /\ Room(d, local[h])
            /\ dele' = [dele EXCEPT ![h] = SignalCollector(Move(d, local[h]))]
            /\ mwake' = (mwake \/ WakesCollector(h))
            /\ local' = [local EXCEPT ![h] = <<>>]
            /\ Goto(h, IF done[h] THEN "finish" ELSE "scan")
            /\ UNCHANGED done
  /\ UNCHANGED <<state, start, cancel, cancelled, mpc, at, open, next, markerVars, scans>>

\* Mutant: the end hides pointers that were not collected.
MarkEndAnyway(d) == [d EXCEPT !.size = -1]

\* Mutant: the end is not marked.
MarkNothing(d) == d

\* The mark that there are no more pointers.
MarkEnd(d) == IF d.size = 0 THEN [d EXCEPT !.size = -1] ELSE d

\* DelegatedDone, from its start or from its wait: the helper stays until the
\* collector is done.
DelegatedDone(h) ==
  /\ hpc[h] = "finish" \/ (hpc[h] = "donewait" /\ hwake[h])
  /\ hwake' = [hwake EXCEPT ![h] = FALSE]
  /\ LET d == [dele[h] EXCEPT !.delestate = "running"]
     IN  IF d.collector_done
         THEN /\ dele' = [dele EXCEPT ![h] =
                            SignalCollector([d EXCEPT !.items = <<>>, !.delegate_done = TRUE])]
              /\ Goto(h, "tail")
         ELSE /\ dele' = [dele EXCEPT ![h] =
                            [SignalCollector(MarkEnd(d)) EXCEPT !.delestate = "waiting"]]
              /\ Goto(h, "donewait")
  /\ mwake' = (mwake \/ WakesCollector(h))
  /\ UNCHANGED <<state, start, cancel, cancelled, mpc, at, open, scanVars, markerVars, scans>>

\* Mutant: the timer does not look at the cancel flag.
WaitOnAndOn(h) == FALSE

\* The four second timer of DelegateWait finds that the helper must stop.
DelegateWaitCancelled(h) ==
  /\ hpc[h] \in {"full", "donewait"} /\ MustStop(h)
  /\ hwake' = [hwake EXCEPT ![h] = FALSE]
  /\ Goto(h, "error")
  /\ UNCHANGED <<state, start, cancel, cancelled, mpc, at, mwake, open, dele, scanVars, markerVars,
                 scans>>

\* The scan itself fails.
HelperFails(h) ==
  /\ Fails /\ hpc[h] = "scan"
  /\ Goto(h, "error")
  /\ UNCHANGED <<state, start, cancel, cancelled, hwake, mpc, at, mwake, open, dele, scanVars,
                 markerVars, scans>>
-----------------------------------------------------------------------------
(* The executor.                                                           *)

\* GetDolConnection: a waiting helper, or a new one in the first free slot.  The
\* slots are looked at one after the other, so one that was passed may wait now.
GetDolConnection(h) ==
  \/ state[h] = "waiting"
  \/ state[h] = "none" /\ \A g \in Helpers : state[g] = "none" => h <= g

\* DelegatedScanStart with ProcessDolCommand.  (A helper that dropped a scan with an
\* error is not given another one before the scan is ended, so that the Delegate of
\* a scan can be named by its helper.)
DelegatedScanStart(h) ==
  /\ mpc = "exec" /\ scans < MaxScans
  /\ h \notin open /\ GetDolConnection(h)
  /\ scans' = scans + 1
  /\ open' = open \cup {h}
  /\ dele' = [dele EXCEPT ![h] = NewDelegate]
  /\ rest' = [rest EXCEPT ![h] = <<>>] /\ got' = [got EXCEPT ![h] = <<>>]
  /\ eof' = [eof EXCEPT ![h] = FALSE]
  /\ hwake' = [hwake EXCEPT ![h] = (state[h] = "waiting")]
  /\ hpc' = [hpc EXCEPT ![h] = IF state[h] = "none" THEN "init" ELSE @]
  /\ start' = [start EXCEPT ![h] = TRUE]
  /\ state' = [state EXCEPT ![h] = "primed"]
  /\ UNCHANGED <<cancelled, cancel, mpc, at, mwake, scanVars>>

\* DelegatedScanNext while there are pointers in the marker.
DelegatedScanNext(h) ==
  /\ mpc = "exec" /\ h \in open /\ rest[h] # <<>> /\ ~cancel
  /\ got' = [got EXCEPT ![h] = Append(@, Head(rest[h]))]
  /\ rest' = [rest EXCEPT ![h] = Tail(@)]
  /\ UNCHANGED <<helperVars, cancel, mpc, at, mwake, open, dele, scanVars, eof, scans>>

\* DelegatedScanNext on an empty marker, up to the lock on the Delegate: neither
\* CheckForCancel nor CheckDolHelperErrors had anything to say.
CollectBegins(h) ==
  /\ mpc = "exec" /\ h \in open /\ rest[h] = <<>> /\ ~cancel
  /\ mpc' = "begin" /\ at' = h
  /\ UNCHANGED <<helperVars, cancel, mwake, open, dele, scanVars, markerVars, scans>>

\* What CollectPointers takes leaves an empty hand-over.
TakeThem(d) == [d EXCEPT !.size = 0]

\* CollectPointers with the lock, from its start or from its wait for pointers.  The
\* start signals a delegate that waits before it looks at the hand-over, and so does
\* the collection.
CollectPointers(h) ==
  /\ at = h /\ (mpc = "begin" \/ (mpc = "collect" /\ mwake))
  /\ LET e == [dele[h] EXCEPT !.collstate = "running"]
         d == IF mpc = "begin" \/ e.size > 0 THEN SignalDelegate(e) ELSE e
         items == SubSeq(d.items, 1, d.size)
     IN  /\ hwake' = [hwake EXCEPT ![h] = @ \/ (d # e /\ WakesDelegate(h))]
         /\ \/ /\ d.size = 0
               /\ dele' = [dele EXCEPT ![h] = [d EXCEPT !.collstate = "waiting"]]
               /\ mpc' = "collect" /\ at' = h
               /\ UNCHANGED markerVars
            \/ /\ d.size < 0
               /\ dele' = [dele EXCEPT ![h] = d]
               /\ eof' = [eof EXCEPT ![h] = TRUE]
               /\ mpc' = "exec" /\ at' = 0
               /\ UNCHANGED <<rest, got>>
            \/ /\ d.size > 0
               /\ dele' = [dele EXCEPT ![h] = TakeThem(d)]
               /\ got' = [got EXCEPT ![h] = Append(@, Head(items))]
               /\ rest' = [rest EXCEPT ![h] = Tail(items)]
               /\ mpc' = "exec" /\ at' = 0
               /\ UNCHANGED eof
  /\ mwake' = FALSE
  /\ UNCHANGED <<state, cancel, hpc, start, cancelled, open, scanVars, scans>>

\* Mutant: a helper that has marked the end is taken to be done.
EndAtMark(d) == d.delegate_done \/ d.size < 0

\* The helper has left the Delegate.
Left(d) == d.delegate_done

\* DelegatedScanEnd with CleanupDelegate, at the end of the scan or before it:
\* the Delegate is freed when the helper is done with it.
DelegatedScanEnd(h) ==
  /\ \/ mpc = "exec" /\ h \in open
     \/ mpc = "ending" /\ at = h /\ mwake
  /\ LET e == [dele[h] EXCEPT !.collstate = "running", !.collector_done = TRUE]
         d == IF mpc = "exec" THEN SignalDelegate(e) ELSE e
     IN  /\ hwake' = [hwake EXCEPT ![h] = @ \/ (d # e /\ WakesDelegate(h))]
         /\ IF Left(d)
            THEN /\ mpc' = "exec" /\ at' = 0
                 /\ open' = open \ {h}
                 /\ dele' = [dele EXCEPT ![h] = d]
                 /\ rest' = [rest EXCEPT ![h] = <<>>] /\ got' = [got EXCEPT ![h] = <<>>]
                 /\ eof' = [eof EXCEPT ![h] = FALSE]
            ELSE /\ mpc' = "ending" /\ at' = h
                 /\ dele' = [dele EXCEPT ![h] = [d EXCEPT !.collstate = "waiting"]]
                 /\ UNCHANGED <<open, markerVars>>
  /\ mwake' = FALSE
  /\ UNCHANGED <<state, cancel, hpc, start, cancelled, scanVars, scans>>
-----------------------------------------------------------------------------
(* The end of a transaction and of the connection.                         *)

\* CheckDolHelperErrors, which CollectPointers begins with, meets a helper that has
\* raised an error and not cleared it yet.  (It only reports errors with a code.)
CheckDolHelperErrors ==
  /\ mpc = "exec" /\ \E h \in open : rest[h] = <<>>
  /\ \E h \in Helpers : hpc[h] = "error"

\* The main thread begins to stop its helpers.
Stop == mpc' = "stop" /\ at' = 1 /\ mwake' = FALSE

\* CommitTransaction when all scans have been ended; or an error, whose elog stops
\* the helpers before AbortTransaction does: raised by the executor, which includes
\* the one that DelegatedScanNext raises for a cancel, or found by CollectPointers.
EndTransaction ==
  /\ \/ mpc = "exec" /\ open = {} /\ scans > 0
     \/ CheckDolHelperErrors
     \/ mpc = "exec" /\ Cancels /\ scans > 0
  /\ Stop
  /\ UNCHANGED <<helperVars, cancel, open, dele, scanVars, markerVars, scans>>

\* The timer of DelegateWait finds the statement of the waiting executor cancelled.
CollectWaitCancelled ==
  /\ mpc \in {"collect", "ending"} /\ cancel
  /\ Stop
  /\ UNCHANGED <<helperVars, cancel, open, dele, scanVars, markerVars, scans>>

\* Another thread cancels the statement, or the server begins to shut down.
WCancel ==
  /\ Cancels /\ InTransaction /\ ~cancel
  /\ cancel' = TRUE
  /\ UNCHANGED <<helperVars, mpc, at, mwake, open, dele, scanVars, markerVars, scans>>

\* Mutant: a helper that has not begun yet is left alone.
IdleUnlessBegun(h) == state[h] \in {"none", "waiting", "primed"}

\* A helper that CancelDolHelpers passes over.
Idle(h) == state[h] \in {"none", "waiting"}

\* CancelDolHelpers: every helper that is not idle is cancelled and waited for.
CancelDolHelpers ==
  /\ mpc = "stop" /\ at \in Helpers
  /\ IF Idle(at)
     THEN at' = at + 1 /\ UNCHANGED <<state, cancelled, mpc>>
     ELSE /\ cancelled' = [cancelled EXCEPT ![at] = TRUE]
          /\ state' = [state EXCEPT ![at] = "mainwaiting"]
          /\ mpc' = "stopwait" /\ UNCHANGED at
  /\ UNCHANGED <<hpc, cancel, start, hwake, mwake, open, dele, scanVars, markerVars, scans>>

CancelGoesOn ==
  /\ mpc = "stopwait" /\ mwake
  /\ mpc' = "stop" /\ at' = at + 1 /\ mwake' = FALSE
  /\ UNCHANGED <<helperVars, cancel, open, dele, scanVars, markerVars, scans>>

\* The rest of CommitTransaction or AbortTransaction frees what is left.
TransactionEnded ==
  /\ mpc = "stop" /\ at > MAX_HELPERS
  /\ mpc' = "ended" /\ at' = 0 /\ open' = {}
  /\ dele' = [h \in Helpers |-> NewDelegate]
  /\ rest' = [h \in Helpers |-> <<>>] /\ got' = [h \in Helpers |-> <<>>]
  /\ eof' = [h \in Helpers |-> FALSE]
  /\ UNCHANGED <<helperVars, cancel, mwake, scanVars, scans>>

\* Another statement, for which WBegin clears the flag (there is none when the server
\* shuts down, TransactionLock sees to that), or the end of the connection.
NextStatement ==
  /\ mpc = "ended" /\ scans < MaxScans
  /\ mpc' = "exec" /\ cancel' = FALSE
  /\ UNCHANGED <<helperVars, at, mwake, open, dele, scanVars, markerVars, scans>>

ShutdownDolHelpers ==
  /\ mpc = "ended"
  /\ mpc' = "destroy" /\ at' = 1
  /\ UNCHANGED <<helperVars, cancel, mwake, open, dele, scanVars, markerVars, scans>>

\* Mutant: a sleeping helper is not signalled.
UnblockNot(h) == FALSE

\* StopDolConnection unblocks the thread if it is waiting.
Unblock(h) == state[h] = "waiting"

StopDolConnection ==
  /\ mpc = "destroy" /\ at \in Helpers
  /\ IF state[at] = "none" THEN at' = at + 1 /\ UNCHANGED <<state, start, hwake, mpc>>
     ELSE /\ hwake' = [hwake EXCEPT ![at] = @ \/ Unblock(at)]
          /\ state' = [state EXCEPT ![at] = "shutdown"]
          /\ start' = [start EXCEPT ![at] = FALSE]
          /\ mpc' = "join" /\ UNCHANGED at
  /\ UNCHANGED <<hpc, cancel, cancelled, mwake, open, dele, scanVars, markerVars, scans>>

\* pthread_join and the rest of DestroyDolConnection.
DestroyDolConnection ==
  /\ mpc = "join" /\ hpc[at] = "gone"
  /\ state' = [state EXCEPT ![at] = "none"]
  /\ hpc' = [hpc EXCEPT ![at] = "none"]
  /\ mpc' = "destroy" /\ at' = at + 1
  /\ UNCHANGED <<start, cancel, cancelled, hwake, mwake, open, dele, scanVars, markerVars, scans>>
-----------------------------------------------------------------------------
HelperStep(h) ==
  \/ InitDolConnection(h) \/ HelperWakes(h) \/ CloneTransactionEvironment(h)
  \/ CommandDone(h) \/ HelperLoops(h)
  \/ DolHeapDelegation(h) \/ CheckForCancel(h)
  \/ DelegatedTransferPointers(h) \/ DelegatedDone(h) \/ DelegateWaitCancelled(h)

\* What the main thread does by itself once it has been asked to.
MainGoesOn ==
  \/ \E h \in Helpers : \/ CollectPointers(h)
                        \/ mpc = "ending" /\ DelegatedScanEnd(h)
  \/ CollectWaitCancelled
  \/ CancelDolHelpers \/ CancelGoesOn \/ TransactionEnded
  \/ StopDolConnection \/ DestroyDolConnection

Next ==
  \/ \E h \in Helpers :
       \/ HelperStep(h) \/ HeapPointerTranfer(h) \/ HelperFails(h)
       \/ DelegatedScanStart(h) \/ DelegatedScanNext(h) \/ CollectBegins(h)
       \/ CollectPointers(h) \/ DelegatedScanEnd(h)
  \/ EndTransaction \/ CollectWaitCancelled \/ WCancel
  \/ CancelDolHelpers \/ CancelGoesOn \/ TransactionEnded
  \/ NextStatement \/ ShutdownDolHelpers \/ StopDolConnection \/ DestroyDolConnection

Spec == Init /\ [][Next]_vars

\* The threads run; what the executor asks for, errors and cancels are up to it.
FairSpec ==
  /\ Spec
  /\ \A h \in Helpers : WF_vars(HelperStep(h))
  /\ WF_vars(MainGoesOn)
-----------------------------------------------------------------------------
DolStates == {"none", "waiting", "primed", "running", "mainwaiting", "shutdown"}
Places == {"none", "init", "loop", "asleep", "clone", "scan", "check", "transfer", "full",
           "finish", "donewait", "tail", "error", "gone"}

\* Type invariant: the DolStates, the Delegate with at most TransferMax pointers in
\* it, and an array scan_args->items that is never overrun.
TypeOK ==
  /\ state \in [Helpers -> DolStates] /\ hpc \in [Helpers -> Places]
  /\ start \in [Helpers -> BOOLEAN] /\ cancelled \in [Helpers -> BOOLEAN]
  /\ hwake \in [Helpers -> BOOLEAN] /\ mwake \in BOOLEAN
  /\ cancel \in BOOLEAN
  /\ mpc \in {"exec", "begin", "collect", "ending", "stop", "stopwait", "ended", "destroy", "join"}
  /\ at \in 0 .. MAX_HELPERS + 1 /\ open \subseteq Helpers
  /\ dele \in [Helpers -> [size : -1 .. TransferMax, items : Seq(Nat),
                           collstate : {"running", "waiting", "signaled"},
                           delestate : {"running", "waiting", "signaled"},
                           collector_done : BOOLEAN, delegate_done : BOOLEAN]]
  /\ next \in [Helpers -> Nat \ {0}] /\ done \in [Helpers -> BOOLEAN]
  /\ local \in [Helpers -> Seq(Nat)]
  /\ \A h \in Helpers : Len(local[h]) <= TransferMax
  /\ rest \in [Helpers -> Seq(Nat)] /\ got \in [Helpers -> Seq(Nat)]
  /\ eof \in [Helpers -> BOOLEAN] /\ scans \in 0 .. MaxScans

Working == {"clone", "scan", "check", "transfer", "full", "finish", "donewait"}

\* The helper has given up the command without DelegatedDone, after an error.
Dropped(h) == hpc[h] \in {"loop", "asleep", "gone"} /\ ~start[h] /\ ~dele[h].delegate_done

\* The executor is given the tuples of the relation in the order of the scan, none
\* of them twice and none left out, and DelegatedScanNext says that there are no
\* more only when it has given it all of them: the mark of DelegatedDone hides no
\* pointers, whatever the steps of the two threads and the ends of other scans were.
\* Only a helper that dropped the scan leaves pointers in freed memory to the
\* executor, and then DelegatedScanNext never says that the scan is at its end.
ScanExact ==
  \A h \in open :
    /\ \A i \in 1 .. Len(got[h]) :
         got[h][i] = i \/ (got[h][i] = Freed /\ Dropped(h) /\ ~eof[h])
    /\ eof[h] => Len(got[h]) = NTuples[h]

\* The executor is never given pointers out of freed memory.  Not true: after an error
\* of the helper that CheckDolHelperErrors comes too early or too late to see,
\* CollectPointers copies the array that went with the helper's memory context.
NothingFreed == \A h \in open : \A i \in 1 .. Len(got[h]) : got[h][i] # Freed

\* A helper works on a Delegate, which lives in the marker, only while the executor
\* has not freed it in DelegatedScanEnd or at the end of the transaction.
DelegateOutlives == \A h \in Helpers : hpc[h] \in Working => h \in open

\* A helper uses the arguments of the scan, which ExecEndDelegatedSeqScan frees after
\* DelegatedScanEnd, only while they are allocated.  Not true: the last thing it does,
\* after DelegatedDone, is to free the array they hold, and the executor may have
\* freed them by then.  (ExecDelegatedSeqReScan frees them even before DelegatedScanEnd.)
ArgsOutlive == \A h \in Helpers : hpc[h] \in Working \cup {"tail"} => h \in open

\* When CancelDolHelpers has returned, all the helpers of the transaction are done
\* and stopped: asleep at the top of their loop, with no signal on its way to them.
HelpersStopped ==
  mpc = "ended" => \A h \in Helpers : /\ state[h] \in {"none", "waiting"}
                                    /\ hpc[h] \in {"none", "asleep"} /\ ~hwake[h]

\* An executor that waits for pointers gets some, or the end of the scan, or an error:
\* no signal between collector and delegate is lost, and the timer finds a cancel that
\* made the helper drop the scan.  Only a helper that dropped it by an error of its own
\* leaves the executor waiting.  And DelegatedScanEnd returns, unless the helper dropped
\* the scan like that or waits for room in a hand-over that nobody will empty again.
ExecutorReturns ==
  \A h \in Helpers :
    /\ (mpc = "collect" /\ at = h) ~> (mpc # "collect" \/ (Dropped(h) /\ ~cancel))
    /\ (mpc = "ending" /\ at = h) ~>
         (mpc # "ending" \/ ((Dropped(h) \/ hpc[h] = "full") /\ ~cancel))

\* What CancelDolHelpers asked of the helper was wiped out before the helper saw it:
\* by DOL_RUNNING over DOL_MAINWAITING, or by clearerror over cancelled.
Overlooked(h) ==
  state[h] = "running" \/ (~cancelled[h] /\ hpc[h] \in Working)

\* CancelDolHelpers returns: a helper that was asked to stop answers, wherever in its
\* scan it is, unless the request was overlooked.
StopReturns ==
  \A h \in Helpers :
    (mpc = "stopwait" /\ at = h /\ state[h] = "mainwaiting") ~> (mpc # "stopwait" \/ Overlooked(h))

\* A connection that is closed gets rid of its helpers.
HelpersJoined == (mpc = "join") ~> (mpc = "destroy")
=============================================================================
