----------------------------- MODULE BufferPool -----------------------------
(***************************************************************************)
(* The shared buffer pool: the lookup table (buf_table.c), the free list   *)
(* with its pins (freelist.c), and the operations of bufmgr.c that find,   *)
(* read, lock, release and drop a buffer.                                  *)
(*                                                                         *)
(* A step is what a thread does inside one critical section: of the guard  *)
(* of the free list, of a descriptor (cntx_lock, io_in_progress_lock), or  *)
(* of the lookup table.  The code gives the guards up between sections, so *)
(* a frame taken off the list, one about to be put on it, and one that was *)
(* looked up but is not pinned yet can all be met by other threads.        *)
(*                                                                         *)
(* A frame stays on the free list when it is pinned; it is taken off later *)
(* by GetHead or by a pin of the frame before it.  BM_USED is only kept    *)
(* with lingering buffers, the one setting that reads it.                  *)
(***************************************************************************)
EXTENDS Integers, Sequences, FiniteSets, Functions

CONSTANTS Threads,
          NBuffers,   \* frames of the pool
          Blocks,     \* blocks of relations
          Warm,       \* sequence of the blocks in the first frames at the start
          Wants,      \* lock modes each thread asks for on a page
          Writers,    \* threads that change pages
          Biasers,    \* threads that call BiasBuffer on a page
          Failing,    \* threads whose smgrread may fail
          Droppers,   \* threads that drop the buffers of a relation
          Dropped,    \* the blocks of that relation
          Lingering,  \* lingering_buffers
          MaxReads,   \* bound on the operations of each thread
          MaxBias     \* bound on the bias of a frame

DBWriter == 0
NoBlock == 0
None == -1
INVALID_DESCRIPTOR == -3
DETACHED_DESCRIPTOR == -4
Buffers == 0 .. NBuffers - 1

ASSUME PoolAssumption ==
  /\ DBWriter \notin Threads /\ NoBlock \notin Blocks
  /\ NBuffers \in Nat \ {0} /\ MaxBias \in Nat
  /\ Warm \in Seq(Blocks) /\ Len(Warm) <= NBuffers
  /\ \A i, j \in 1 .. Len(Warm) : Warm[i] = Warm[j] => i = j
  /\ Wants \in [Threads -> SUBSET {"share", "exclusive", "ref"}]
  /\ MaxReads \in [Threads -> Nat]
  /\ Writers \cup Biasers \cup Failing \cup Droppers \subseteq Threads
  /\ Dropped \subseteq Blocks /\ Lingering \in BOOLEAN

VARIABLES
  head, tail,  \* MasterList; the tail is invalid on a list of one
  table,       \* the lookup table: block -> frame
  buf,         \* the descriptors
  group,       \* block a frame is registered for in the write group
  pc, blk,     \* place of each thread, block it reads (none when it drops)
  hold,        \* frame it works on
  lck,         \* its lock on that frame, or the one it waits for
  awake,       \* waiters that were signalled
  put,         \* frame it is about to link to the tail
  left         \* operations left

listVars == <<head, tail>>
thrVars == <<pc, blk, hold, lck, left>>
vars == <<head, tail, table, buf, group, pc, blk, hold, lck, awake, put, left>>

Flag(b, f) == f \in buf[b].flags

\* InitializeBuffers and InitFreeList: every frame is on the list, and
\* deleted, except the first ones, which were read and released once.
Init ==
  LET Loaded(b) == b < Len(Warm)
      InitTag(b) == IF Loaded(b) THEN Warm[b + 1] ELSE NoBlock
  IN
  /\ head = 0 /\ tail = IF NBuffers = 1 THEN INVALID_DESCRIPTOR ELSE NBuffers - 1
  /\ buf = [b \in Buffers |->
       [tag |-> InitTag(b), page |-> InitTag(b),
        flags |-> {"FREE", IF Loaded(b) THEN "VALID" ELSE "DELETED"}, io |-> "none",
        refCount |-> 0, pageaccess |-> 0, bias |-> 0,
        freeNext |-> IF b = NBuffers - 1 THEN INVALID_DESCRIPTOR ELSE b + 1]]
  /\ table = [k \in Blocks |->
       IF \E b \in Buffers : InitTag(b) = k THEN CHOOSE b \in Buffers : InitTag(b) = k ELSE None]
  /\ group = [b \in Buffers |-> NoBlock]
  /\ pc = [t \in Threads |-> "idle"] /\ blk = [t \in Threads |-> NoBlock]
  /\ hold = [t \in Threads |-> None] /\ lck = [t \in Threads |-> "none"]
  /\ awake = {} /\ put = [t \in Threads \cup {DBWriter} |-> None]
  /\ left = MaxReads

----------------------------------------------------------------------------
(* The condition variable of a descriptor. *)

WaitingFor(b, modes) ==
  {t \in Threads : hold[t] = b /\ pc[t] = "lockwait" /\ lck[t] \in modes}
p_waiting(b) == {t \in Threads : hold[t] = b /\ pc[t] = "pinwait"}
Sleepers(b) == (p_waiting(b) \cup WaitingFor(b, {"share", "exclusive", "ref"})) \ awake

Broadcast(b) == awake' = awake \cup Sleepers(b)
\* pthread_cond_signal wakes some sleeper, whatever it waits for.
Signal(b) ==
  IF Sleepers(b) = {} THEN UNCHANGED awake
                      ELSE \E t \in Sleepers(b) : awake' = awake \cup {t}

----------------------------------------------------------------------------
(* The free list. *)

\* A thread links a frame to the tail before it does anything else.
Ready(t) == put[t] = None

Goto(t, p) == pc' = [pc EXCEPT ![t] = p]

SetTailBuffer(t) ==
  LET b == put[t]
      last == IF tail = INVALID_DESCRIPTOR THEN head ELSE tail
  IN  /\ b # None
      /\ put' = [put EXCEPT ![t] = None]
      /\ IF head = INVALID_DESCRIPTOR
           THEN head' = b /\ tail' = INVALID_DESCRIPTOR /\ UNCHANGED buf
           ELSE tail' = b /\ buf' = [buf EXCEPT ![last].freeNext = b] /\ UNCHANGED head
      /\ UNCHANGED <<table, group, thrVars, awake>>

\* A thread that finds the list empty waits for a frame; its time-out only
\* asks for a flush, after which the writer gives frames back.
GetHead(t) ==
  LET next == buf[head].freeNext
  IN  /\ Ready(t) /\ pc[t] = "gethead" /\ head # INVALID_DESCRIPTOR
      /\ head' = next
      /\ tail' = IF next = tail THEN INVALID_DESCRIPTOR ELSE tail
      /\ buf' = [buf EXCEPT ![head].flags = @ \ {"FREE"},
                            ![head].freeNext = DETACHED_DESCRIPTOR]
      /\ hold' = [hold EXCEPT ![t] = head]
      /\ Goto(t, "take")
      /\ UNCHANGED <<table, group, blk, lck, awake, put, left>>

\* GetFreeBuffer locks the frame again: it may be pinned by now, biased, or
\* recently used; otherwise it is pinned for its new block and made invalid.
GetFreeBuffer(t) ==
  LET b == hold[t]
      relist == ~Flag(b, "FREE")
  IN  /\ Ready(t) /\ pc[t] = "take"
      /\ \/ /\ buf[b].refCount > 0
            /\ buf' = [buf EXCEPT ![b].flags = @ \ {"USED"}]
            /\ Goto(t, "gethead") /\ hold' = [hold EXCEPT ![t] = None]
            /\ UNCHANGED put
         \/ /\ buf[b].refCount = 0
            /\ buf[b].bias > 0 \/ Flag(b, "USED")
            /\ buf' = [buf EXCEPT ![b].bias = IF @ > 0 THEN @ - 1 ELSE @,
                                  ![b].flags = (@ \ {"USED"}) \cup {"FREE"},
                                  ![b].freeNext = IF relist THEN INVALID_DESCRIPTOR ELSE @]
            /\ put' = [put EXCEPT ![t] = IF relist THEN b ELSE None]
            /\ Goto(t, "gethead") /\ hold' = [hold EXCEPT ![t] = None]
         \/ /\ buf[b].refCount = 0 /\ buf[b].bias = 0 /\ ~Flag(b, "USED")
            /\ buf' = [buf EXCEPT ![b].flags = @ \ {"VALID"},
                                  ![b].refCount = 1, ![b].pageaccess = 1]
            /\ Goto(t, "replace")
            /\ UNCHANGED <<hold, put>>
      /\ UNCHANGED <<listVars, table, group, blk, lck, awake, left>>

\* A frame whose replacement lost the race goes back to the head; its
\* BM_FREE is set one section before it is linked.
PutFreeBuffer(t) ==
  LET b == hold[t]
  IN  /\ pc[t] = "putfree"
      /\ IF Flag(b, "FREE")
           THEN UNCHANGED <<buf, hold>> /\ Goto(t, "lookup")
           ELSE /\ buf' = [buf EXCEPT ![b].flags = (@ \ {"USED"}) \cup {"FREE"},
                                      ![b].refCount = 0, ![b].pageaccess = 0]
                /\ Goto(t, "sethead") /\ UNCHANGED hold
      /\ UNCHANGED <<listVars, table, group, blk, lck, awake, put, left>>

SetHead(t) ==
  LET b == hold[t]
  IN  /\ pc[t] = "sethead"
      /\ tail' = IF tail = INVALID_DESCRIPTOR THEN head ELSE tail
      /\ head' = b
      /\ buf' = [buf EXCEPT ![b].freeNext = head]
      /\ Goto(t, "lookup")
      /\ UNCHANGED <<table, group, blk, hold, lck, awake, put, left>>

\* The n-th frame behind b on the list.
Behind(f, b) ==
  LET link[n \in 0 .. NBuffers] ==
        IF n = 0 THEN b
        ELSE IF link[n - 1] \in Buffers THEN f[link[n - 1]].freeNext ELSE INVALID_DESCRIPTOR
  IN  link

\* RemoveNearestNeighbor: the walk unlinks the pinned frames behind b, never
\* the last one, and moves one used frame to the tail when buffers linger.
\* It ends early when another thread holds the guard of the next frame.
\* Neighbours(f, b) has the results: the descriptors and the frame to link.
Neighbours(f, b) ==
  LET link == Behind(f, b)
      Inner(n) == link[n] \in Buffers /\ f[link[n]].freeNext # INVALID_DESCRIPTOR
      Pinned(n) == Inner(n) /\ f[link[n]].refCount > 0
      Walked(n) == \A i \in 1 .. n : Pinned(i)
      Unlink(n) ==
        [c \in Buffers |->
           IF c = b THEN [f[b] EXCEPT !.freeNext = link[n + 1]]
           ELSE IF c \in {link[i] : i \in 1 .. n}
             THEN [f[c] EXCEPT !.freeNext = DETACHED_DESCRIPTOR, !.flags = @ \ {"FREE", "USED"}]
             ELSE f[c]]
      Linger(n) ==
        LET c == link[n + 1]
        IN  [Unlink(n) EXCEPT ![b].freeNext = f[c].freeNext,
                              ![c].freeNext = INVALID_DESCRIPTOR, ![c].flags = @ \ {"USED"}]
  IN  {<<Unlink(n), None>> : n \in {n \in 0 .. NBuffers - 1 : Walked(n)}} \cup
      {<<Linger(n), link[n + 1]>> :
         n \in {n \in 0 .. NBuffers - 1 : /\ Walked(n) /\ Inner(n + 1) /\ ~Pinned(n + 1)
                                          /\ "USED" \in f[link[n + 1]].flags}}

\* ManualPin once no exclusive lock stands in its way: the descriptors and
\* the frame to link to the tail, for a frame that is valid.
Pins(b, access) ==
  LET first == buf[b].refCount = 0 /\ Lingering
      f == [buf EXCEPT ![b].refCount = @ + 1,
                       ![b].pageaccess = IF access THEN @ + 1 ELSE @,
                       ![b].flags = IF first THEN @ \cup {"USED"} ELSE @]
  IN  IF Flag(b, "FREE") THEN Neighbours(f, b) ELSE {<<f, None>>}

\* Where a thread that drops buffers goes after frame b.
NextDrop(t, b) ==
  IF b = NBuffers - 1 THEN Goto(t, "idle") /\ hold' = [hold EXCEPT ![t] = None]
                      ELSE Goto(t, "pin") /\ hold' = [hold EXCEPT ![t] = b + 1]

\* ManualPin through PinBuffer: the thread waits out a reference-exclusive
\* lock, and gets nothing when the frame is not valid any more.
ManualPin(t) ==
  LET b == hold[t]
  IN  /\ Ready(t)
      /\ pc[t] = "pin" \/ (pc[t] = "pinwait" /\ t \in awake)
      /\ awake' = awake \ {t}
      /\ \/ /\ Flag(b, "EXCLUSIVE")
            /\ Goto(t, "pinwait") /\ UNCHANGED <<buf, put, hold>>
         \/ /\ ~Flag(b, "EXCLUSIVE") /\ ~Flag(b, "VALID")
            /\ IF blk[t] # NoBlock THEN Goto(t, "lookup") /\ UNCHANGED hold
                                   ELSE NextDrop(t, b)
            /\ UNCHANGED <<buf, put>>
         \/ /\ ~Flag(b, "EXCLUSIVE") /\ Flag(b, "VALID")
            /\ \E r \in Pins(b, TRUE) : buf' = r[1] /\ put' = [put EXCEPT ![t] = r[2]]
            /\ Goto(t, "check") /\ UNCHANGED hold
      /\ UNCHANGED <<listVars, table, group, blk, lck, left>>

\* ManualUnpin: the descriptor afterwards, and whether it goes to the tail.
Unpinned(b, access) ==
  LET d == [buf[b] EXCEPT !.refCount = @ - 1, !.pageaccess = IF access THEN @ - 1 ELSE @]
  IN  IF d.refCount = 0 /\ ~Flag(b, "FREE")
        THEN [d EXCEPT !.flags = (@ \ {"USED"}) \cup {"FREE"}, !.freeNext = INVALID_DESCRIPTOR]
        ELSE d

\* Mutant: BM_FREE is not looked at before the frame is linked.
UnpinDoubleFree(t, b, access) ==
  /\ buf' = [buf EXCEPT ![b] = Unpinned(b, access)]
  /\ put' = [put EXCEPT ![t] = IF buf'[b].refCount = 0 THEN b ELSE None]
  /\ UNCHANGED awake

ManualUnpin(t, b, access) ==
  LET d == Unpinned(b, access)
      e_waiting == Cardinality(WaitingFor(b, {"ref"}))
  IN  /\ buf' = [buf EXCEPT ![b] = d]
      /\ put' = [put EXCEPT ![t] = IF d.refCount = 0 /\ ~Flag(b, "FREE") THEN b ELSE None]
      /\ IF e_waiting > 0 /\ d.pageaccess = e_waiting THEN Signal(b) ELSE UNCHANGED awake

----------------------------------------------------------------------------
(* Reading a block. *)

\* Dropping takes the relation's exclusive lock, which keeps readers out.
Dropping == \E t \in Threads : pc[t] # "idle" /\ blk[t] = NoBlock

BufTableLookup(t, k) ==
  /\ Ready(t)
  /\ \/ pc[t] = "lookup" /\ blk[t] = k /\ UNCHANGED left
     \/ /\ pc[t] = "idle" /\ left[t] > 0 /\ ~(k \in Dropped /\ Dropping)
        /\ left' = [left EXCEPT ![t] = @ - 1]
  /\ blk' = [blk EXCEPT ![t] = k]
  /\ hold' = [hold EXCEPT ![t] = table[k]]
  /\ Goto(t, IF table[k] # None THEN "pin" ELSE "gethead")
  /\ UNCHANGED <<listVars, table, buf, group, lck, awake, put>>

\* Mutant: the tag is not compared after the pin.
CheckNoTag(t) ==
  /\ Ready(t) /\ pc[t] = "check" /\ blk[t] # NoBlock
  /\ buf[hold[t]].io \notin {"inbound", "read"}
  /\ Goto(t, IF buf[hold[t]].io # "error" THEN "use" ELSE "retry")
  /\ UNCHANGED <<listVars, table, buf, group, blk, hold, lck, awake, put, left>>

\* BufferAlloc after the pin: is it still the block that was looked up?  A
\* reader then waits for the read in progress, and starts again on an error.
CheckPinned(t) ==
  LET b == hold[t]
  IN  /\ Ready(t) /\ pc[t] = "check" /\ blk[t] # NoBlock
      /\ buf[b].tag = blk[t] => buf[b].io \notin {"inbound", "read"}
      /\ Goto(t, IF buf[b].tag = blk[t] /\ buf[b].io # "error" THEN "use" ELSE "retry")
      /\ UNCHANGED <<listVars, table, buf, group, blk, hold, lck, awake, put, left>>

\* InboundBufferIO and BufTableReplace: the frame leaves its old block and is
\* entered for the new one, unless some other frame has it by now.
BufTableReplace(t) ==
  LET b == hold[t]
      k == blk[t]
      removed == IF Flag(b, "DELETED") THEN table ELSE [table EXCEPT ![buf[b].tag] = None]
  IN  /\ pc[t] = "replace"
      /\ IF removed[k] = None
           THEN /\ table' = [removed EXCEPT ![k] = b]
                /\ buf' = [buf EXCEPT ![b].tag = k, ![b].io = "inbound",
                                      ![b].flags = (@ \ {"DELETED"}) \cup {"VALID"}]
                /\ Goto(t, "readio")
           ELSE /\ table' = removed
                /\ buf' = [buf EXCEPT ![b].tag = NoBlock, ![b].io = "error",
                                      ![b].flags = @ \cup {"DELETED"}]
                /\ Goto(t, "putfree")
      /\ UNCHANGED <<listVars, group, blk, hold, lck, awake, put, left>>

ReadBufferIO(t) ==
  LET b == hold[t]
  IN  /\ pc[t] = "readio"
      /\ IF buf[b].io = "error"
           THEN UNCHANGED buf /\ Goto(t, "failed")
           ELSE buf' = [buf EXCEPT ![b].io = "read"] /\ Goto(t, "reading")
      /\ UNCHANGED <<listVars, table, group, blk, hold, lck, awake, put, left>>

\* smgrread, then TerminateBufferIO or ErrorBufferIO.
ReadBuffer(t) ==
  LET b == hold[t]
  IN  /\ pc[t] = "reading"
      /\ \/ /\ buf' = [buf EXCEPT ![b].page = blk[t], ![b].io = "none"]
            /\ Goto(t, "use")
         \/ /\ t \in Failing
            /\ buf' = [buf EXCEPT ![b].io = "error"]
            /\ Goto(t, "failed")
      /\ UNCHANGED <<listVars, table, group, blk, hold, lck, awake, put, left>>

\* InvalidateBuffer: ClearBufferIO, which waits for a read in progress, and
\* BufTableDelete.
InvalidateBuffer(b) ==
  /\ buf[b].io # "read"
  /\ IF Flag(b, "DELETED")
       THEN buf' = [buf EXCEPT ![b].io = "error"] /\ UNCHANGED table
       ELSE /\ table' = [table EXCEPT ![buf[b].tag] = None]
            /\ buf' = [buf EXCEPT ![b].io = "error", ![b].tag = NoBlock,
                                  ![b].flags = (@ \ {"VALID"}) \cup {"DELETED"}]

ReadFailed(t) ==
  /\ pc[t] = "failed"
  /\ InvalidateBuffer(hold[t])
  /\ Goto(t, "unpin")
  /\ UNCHANGED <<listVars, group, blk, hold, lck, awake, put, left>>

\* UnpinBuffer, for a reader that is done, one that starts again and a
\* thread that drops buffers.
UnpinBuffer(t) ==
  /\ Ready(t) /\ pc[t] \in {"unpin", "retry"}
  /\ ManualUnpin(t, hold[t], TRUE)
  /\ IF blk[t] = NoBlock
       THEN NextDrop(t, hold[t]) /\ UNCHANGED blk
       ELSE /\ Goto(t, IF pc[t] = "retry" THEN "lookup" ELSE "idle")
            /\ blk' = IF pc[t] = "retry" THEN blk ELSE [blk EXCEPT ![t] = NoBlock]
            /\ hold' = [hold EXCEPT ![t] = None]
  /\ UNCHANGED <<listVars, table, group, lck, left>>

\* ReleaseBuffer, also what ResetBufferPool does with a pin at abort.
ReleaseBuffer(t) ==
  /\ pc[t] = "use"
  /\ Goto(t, "unpin")
  /\ UNCHANGED <<listVars, table, buf, group, blk, hold, lck, awake, put, left>>

BiasPinned(t) ==
  /\ t \in Biasers /\ pc[t] = "use" /\ buf[hold[t]].bias < MaxBias
  /\ buf' = [buf EXCEPT ![hold[t]].bias = @ + 1]
  /\ UNCHANGED <<listVars, table, group, thrVars, awake, put>>

----------------------------------------------------------------------------
(* Writing a block: the writer's own pin, taken when the frame is first    *)
(* registered in a write group and given back once the group is written.   *)

\* Mutant: the frame is registered without a pin of the writer's own.
RegisterUnpinned(t) ==
  /\ t \in Writers /\ pc[t] = "use"
  /\ group' = [group EXCEPT ![hold[t]] = buf[hold[t]].tag]
  /\ Goto(t, "unpin")
  /\ UNCHANGED <<listVars, table, buf, blk, hold, lck, awake, put, left>>

RegisterBufferWrite(t) ==
  LET b == hold[t]
  IN  /\ t \in Writers /\ pc[t] = "use"
      /\ IF group[b] # NoBlock
           THEN UNCHANGED <<buf, put, group>>
           ELSE /\ Flag(b, "VALID")
                /\ group' = [group EXCEPT ![b] = buf[b].tag]
                /\ \E r \in Pins(b, FALSE) : buf' = r[1] /\ put' = [put EXCEPT ![t] = r[2]]
      /\ Goto(t, "unpin")
      /\ UNCHANGED <<listVars, table, blk, hold, lck, awake, left>>

ReleaseWritten(b) ==
  /\ put[DBWriter] = None /\ group[b] # NoBlock
  /\ ManualUnpin(DBWriter, b, FALSE)
  /\ group' = [group EXCEPT ![b] = NoBlock]
  /\ UNCHANGED <<listVars, table, thrVars>>

----------------------------------------------------------------------------
(* InvalidateRelationBuffers pins every valid frame of the pool in turn.   *)

InvalidateRelationBuffers(t) ==
  /\ Ready(t) /\ t \in Droppers /\ pc[t] = "idle" /\ left[t] > 0
  /\ \A u \in Threads : blk[u] \notin Dropped
  /\ ~Dropping
  /\ left' = [left EXCEPT ![t] = @ - 1]
  /\ hold' = [hold EXCEPT ![t] = 0]
  /\ Goto(t, "pin")
  /\ UNCHANGED <<listVars, table, buf, group, blk, lck, awake, put>>

\* The pinned frame is looked at under its guard, and thrown out if it is one of
\* the relation's.
CheckBufferId(t) ==
  LET b == hold[t]
  IN  /\ Ready(t) /\ pc[t] = "check" /\ blk[t] = NoBlock
      /\ IF buf[b].tag \in Dropped THEN InvalidateBuffer(b) ELSE UNCHANGED <<buf, table>>
      /\ Goto(t, "unpin")
      /\ UNCHANGED <<listVars, group, blk, hold, lck, awake, put, left>>

----------------------------------------------------------------------------
(* Page locks. *)

r_locks(b) ==
  Cardinality({t \in Threads : hold[t] = b /\ pc[t] = "locked" /\ lck[t] = "share"})

\* Mutant: a reader that was woken does not look again.
MustWaitOnce(t, b, mode) ==
  CASE mode = "ref" ->
         buf[b].pageaccess > Cardinality(WaitingFor(b, {"ref"}) \ {t}) + 1
    [] mode = "share" ->
         pc[t] = "use" /\ (Flag(b, "WRITELOCK") \/ WaitingFor(b, {"exclusive"}) # {})
    [] OTHER -> r_locks(b) > 0 \/ Flag(b, "WRITELOCK")

\* The loop conditions of LockBuffer for thread t, which does not count
\* itself; a reader that was woken looks at BM_WRITELOCK only.
MustWait(t, b, mode) ==
  CASE mode = "ref" ->
         buf[b].pageaccess > Cardinality(WaitingFor(b, {"ref"}) \ {t}) + 1
    [] mode = "share" ->
         \/ Flag(b, "WRITELOCK")
         \/ pc[t] = "use" /\ WaitingFor(b, {"exclusive"}) # {}
    [] OTHER -> r_locks(b) > 0 \/ Flag(b, "WRITELOCK")

LockBuffer(t, mode) ==
  LET b == hold[t]
  IN  /\ Ready(t)
      /\ \/ pc[t] = "use" /\ mode \in Wants[t]
         \/ pc[t] = "lockwait" /\ t \in awake /\ mode = lck[t]
      /\ awake' = awake \ {t}
      /\ lck' = [lck EXCEPT ![t] = mode]
      /\ IF MustWait(t, b, mode)
           THEN Goto(t, "lockwait") /\ UNCHANGED buf
           ELSE /\ Goto(t, "locked")
                /\ buf' = [buf EXCEPT ![b].flags = @ \cup
                             CASE mode = "ref" -> {"WRITELOCK", "EXCLUSIVE"}
                               [] mode = "exclusive" -> {"WRITELOCK"}
                               [] OTHER -> {}]
      /\ UNCHANGED <<listVars, table, group, blk, hold, put, left>>

\* Mutant: waiting readers are not woken.
UnlockForWriters(t) ==
  LET b == hold[t]
  IN  /\ Ready(t) /\ pc[t] = "locked"
      /\ buf' = [buf EXCEPT ![b].flags =
                   IF lck[t] = "share" THEN @ ELSE @ \ {"WRITELOCK", "EXCLUSIVE"}]
      /\ IF WaitingFor(b, {"exclusive", "ref"}) # {} THEN Signal(b) ELSE UNCHANGED awake
      /\ lck' = [lck EXCEPT ![t] = "none"]
      /\ Goto(t, "use")
      /\ UNCHANGED <<listVars, table, group, blk, hold, put, left>>

\* UnlockIndividualBuffer wakes everybody when a reader or a pin waits, and
\* one thread when only locks of the other kinds do.
UnlockIndividualBuffer(t) ==
  LET b == hold[t]
      free == lck[t] # "share" \/ r_locks(b) = 1
  IN  /\ Ready(t) /\ pc[t] = "locked"
      /\ buf' = [buf EXCEPT ![b].flags =
                   IF lck[t] = "share" THEN @ ELSE @ \ {"WRITELOCK", "EXCLUSIVE"}]
      /\ IF free /\ (WaitingFor(b, {"share"}) \cup p_waiting(b)) # {} THEN Broadcast(b)
         ELSE IF free /\ WaitingFor(b, {"exclusive", "ref"}) # {} THEN Signal(b)
         ELSE UNCHANGED awake
      /\ lck' = [lck EXCEPT ![t] = "none"]
      /\ Goto(t, "use")
      /\ UNCHANGED <<listVars, table, group, blk, hold, put, left>>

----------------------------------------------------------------------------

Next ==
  \/ \E b \in Buffers : ReleaseWritten(b)
  \/ \E t \in Threads \cup {DBWriter} : SetTailBuffer(t)
  \/ \E t \in Threads :
       \/ \E k \in Blocks : BufTableLookup(t, k)
       \/ ManualPin(t) \/ CheckPinned(t) \/ UnpinBuffer(t)
       \/ GetHead(t) \/ GetFreeBuffer(t) \/ PutFreeBuffer(t) \/ SetHead(t)
       \/ BufTableReplace(t) \/ ReadBufferIO(t) \/ ReadBuffer(t) \/ ReadFailed(t)
       \/ ReleaseBuffer(t) \/ BiasPinned(t) \/ RegisterBufferWrite(t)
       \/ InvalidateRelationBuffers(t) \/ CheckBufferId(t)
       \/ \E mode \in {"share", "exclusive", "ref"} : LockBuffer(t, mode)
       \/ UnlockIndividualBuffer(t)

Spec == Init /\ [][Next]_vars

----------------------------------------------------------------------------
(* Properties. *)

Pinning == {"replace", "putfree", "readio", "reading", "failed", "check", "use",
            "lockwait", "locked", "unpin", "retry"}
Pinners(b) == {t \in Threads : hold[t] = b /\ pc[t] \in Pinning}
Registered(b) == IF group[b] = NoBlock THEN 0 ELSE 1

OnList == IF head = INVALID_DESCRIPTOR THEN {}
          ELSE Range(Behind(buf, head)) \cap Buffers
Pending(b) == (\E t \in DOMAIN put : put[t] = b) \/
              (\E t \in Threads : hold[t] = b /\ pc[t] \in {"sethead", "take"})

\* Types, and the ranges the counters stay in.
TypeOK ==
  /\ head \in Buffers \cup {INVALID_DESCRIPTOR} /\ tail \in Buffers \cup {INVALID_DESCRIPTOR}
  /\ table \in [Blocks -> Buffers \cup {None}]
  /\ \A b \in Buffers : buf[b] \in
       [tag : Blocks \cup {NoBlock}, page : Blocks \cup {NoBlock},
        flags : SUBSET {"FREE", "VALID", "DELETED", "USED", "WRITELOCK", "EXCLUSIVE"},
        io : {"none", "inbound", "read", "error"}, refCount : 0 .. Cardinality(Threads) + 1,
        pageaccess : 0 .. Cardinality(Threads), bias : 0 .. MaxBias,
        freeNext : Buffers \cup {INVALID_DESCRIPTOR, DETACHED_DESCRIPTOR}]
  /\ \A t \in Threads : hold[t] \in Buffers \cup {None}

\* What a thread that read a block relies on: from the return of ReadBuffer
\* until it gives its pin up, the frame holds the bytes of the block it asked
\* for, under that block's tag, and a lookup of the block leads there.  The
\* lookup is done before the pin, and the frame can be given to another
\* block in between (BufferAlloc).
ReadsItsBlock ==
  \A t \in Threads : pc[t] \in {"use", "lockwait", "locked"} =>
    LET d == buf[hold[t]]
    IN  d.tag = blk[t] /\ d.page = blk[t] /\ "VALID" \in d.flags /\ table[blk[t]] = hold[t]

\* The lookup table and the descriptors name each other, so that no block is
\* ever in two frames (BufTableReplace, BufTableDelete).
TableAgrees ==
  /\ \A k \in Blocks : table[k] # None => buf[table[k]].tag = k /\ ~Flag(table[k], "DELETED")
  /\ \A b \in Buffers : ~Flag(b, "DELETED") => table[buf[b].tag] = b

\* A frame that is being given to another block is pinned by the thread that
\* does so and by nobody else, although the thread found it unpinned in an
\* earlier section than the one that took it off the list: what the message
\* "this should not happen" of BufTableReplace and the assertion of
\* PutFreeBuffer say.
TakenAlone ==
  \A t \in Threads : pc[t] \in {"replace", "putfree"} =>
    LET d == buf[hold[t]]
    IN  d.refCount = 1 /\ d.pageaccess = 1 /\ "VALID" \notin d.flags

\* The free list is a list of distinct frames with BM_FREE that ends at the
\* tail, and a frame with BM_FREE is on it or on its way there: what GetHead,
\* SetHead and SetTailBuffer assert, although a pin unlinks the frames behind
\* its own without the guard of the list (RemoveNearestNeighbor).
ListSound ==
  /\ \A b \in OnList : Flag(b, "FREE") /\ buf[b].freeNext # DETACHED_DESCRIPTOR
  /\ \A b, c \in OnList : buf[b].freeNext = buf[c].freeNext => b = c
  /\ head # INVALID_DESCRIPTOR =>
       buf[IF tail = INVALID_DESCRIPTOR THEN head ELSE tail].freeNext = INVALID_DESCRIPTOR
  /\ \A b \in Buffers : Flag(b, "FREE") => b \in OnList \/ Pending(b)

\* What BufferAlloc, the lookup table and the free list keep true of the frames in
\* sections under different guards: all three of the above.
PoolSound == TableAgrees /\ TakenAlone /\ ListSound

\* A frame of the write group keeps the writer's pin and the block it was
\* registered for until the writer lets go of it, unless the relation was
\* dropped: the FATAL "register write should not happen" never comes.
RegisteredKept ==
  \A b \in Buffers : group[b] # NoBlock =>
    /\ buf[b].refCount > 0
    /\ buf[b].tag = group[b] \/ (buf[b].tag = NoBlock /\ group[b] \in Dropped)

\* Page locks exclude each other, the reference-exclusive lock of vacuum
\* included, which only counts pins (LockBuffer).
LockExclusion ==
  \A t, u \in Threads : t # u /\ hold[t] = hold[u] /\ pc[t] = "locked" /\ pc[u] = "locked"
    => lck[t] = "share" /\ lck[u] = "share"

\* Nobody sleeps on a page lock that no thread holds without some waiter that
\* was woken, as long as no reference-exclusive lock is waited for: then the
\* one thread UnlockIndividualBuffer signals can only be a writer.
NoLostWakeup ==
  \A b \in Buffers :
    \/ WaitingFor(b, {"share", "exclusive"}) \cap Sleepers(b) = {}
    \/ WaitingFor(b, {"share", "exclusive"}) \cap awake # {}
    \/ \E t \in Threads : hold[t] = b /\ pc[t] = "locked"
    \/ WaitingFor(b, {"ref"}) # {}

\* "A buffer is always either pinned or on the freelist" (buf_init.c): a frame
\* that no thread and no write group has pinned is on the list or on its way.
NoBufferLost ==
  \A b \in Buffers : Pinners(b) # {} \/ group[b] # NoBlock \/ b \in OnList \/ Pending(b)
=============================================================================
