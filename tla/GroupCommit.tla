---------------------------- MODULE GroupCommit ----------------------------
(***************************************************************************)
(* How a transaction's changes become durable (dbwriter.c, bufmgr.c).      *)
(*                                                                         *)
(* Backends change pages in shared buffers, register them with the current *)
(* write group and append their transaction to it.  The DBWriter thread    *)
(* takes a group, writes its pages to the shadow log, records the group's  *)
(* transactions in pg_log, wakes the careful committers, writes the pages  *)
(* to their files, syncs the files and expires the log.  With              *)
(* MaxLogCount > 0 the page writes of several groups are handed to the     *)
(* SyncWriter thread through the sync group.  A group may also be flushed  *)
(* before it commits, when the pool runs out of free buffers.              *)
(*                                                                         *)
(* A page image is the set of transactions whose change it holds, plus     *)
(* Junk for bytes that never belonged to the page.  A crash loses the      *)
(* buffers and any file write that was not synced; recovery replays the    *)
(* log and turns soft commits into aborts.                                 *)
(***************************************************************************)
EXTENDS BufferIO, FiniteSets, FiniteSetsExt

CONSTANTS Xids,            \* transactions, one backend each
          NumPages,        \* data pages are 1 .. NumPages
          Writes,          \* pages each transaction changes
          CommitTypes,     \* outcomes a transaction may choose from
          Logging,         \* FALSE in single-user mode
          MaxLogCount,     \* max_logcount
          FirstGeneration, \* generation of the group being filled at Init
          OpenFiles,       \* data files the writers have open at Init
          MaxFlushes,      \* bound on flushes of a group
          MaxEvictions,    \* bound on pages leaving the pool
          MaxCrashes,      \* bound on crashes
          Junk, None

PgLog == NumPages + 1      \* the pg_log page, last in buffer order
DataPages == 1 .. NumPages
Groups == {1, 2}           \* the ring of log groups
Sync == 0                  \* the sync group

ASSUME SizeAssumption ==
  /\ NumPages \in Nat \ {0}
  /\ Writes \in [Xids -> SUBSET DataPages]
  /\ CommitTypes \in [Xids -> SUBSET {"careful", "synced", "soft", "abort"}]
  /\ Logging \in BOOLEAN
  /\ OpenFiles \subseteq DataPages
  /\ {MaxLogCount, FirstGeneration, MaxFlushes, MaxEvictions,
       MaxCrashes} \subseteq Nat
  /\ None \notin {"careful", "synced", "soft", "abort"}

VARIABLES
  buf, lbuf,      \* buffers of the data pages and of the pg_log page
  file, disk,     \* data files: as the kernel has them, as they survive
  ldisk,          \* pg_log on disk (always written through)
  slog, pending,  \* shadow log: committed images, images being appended
  group,          \* the write groups
  cur,            \* log_group
  bufgen,         \* buffer_generation
  syncBuffers,    \* sync_buffers
  pathCache,      \* data files the writers have open
  w, s,           \* DBWriter and SyncWriter
  pc, todo, page, type, \* the backends; type is the commit type chosen
  acked,          \* transactions whose client was told they are over
  up,             \* the server runs
  flushes, evictions, crashes

poolVars == <<buf, lbuf>>
fileVars == <<file, disk, ldisk, slog, pending>>
writerVars == <<w, s, bufgen, syncBuffers, pathCache>>
workVars == <<todo, page, type>>
backendVars == <<pc, workVars, acked>>
boundVars == <<flushes, evictions, crashes>>
vars == <<poolVars, fileVars, group, cur, writerVars, backendVars, up,
          boundVars>>

EmptyLog == [p \in {} |-> {}]
\* A page that is logged again is replayed with its later image.
Overlay(new, log) ==
  [p \in DOMAIN new \cup DOMAIN log |-> IF p \in DOMAIN new THEN new[p] ELSE log[p]]
EmptyGroup(gen) ==
  [buffers |-> {}, trans |-> {}, waiters |-> {}, syncers |-> {},
   generation |-> gen, loggable |-> Logging, currstate |-> "NOT_READY"]
IdleWriter == [pc |-> "idle", cart |-> 1, list |-> 1, i |-> 1, job |-> "commit",
               primed |-> FALSE]
IdleSync == [pc |-> "idle", i |-> 1]
InProgress == [x \in Xids |-> "inprogress"]
Garbage == [x \in Xids |-> "abort"]   \* a frame that held another page

Init ==
  /\ buf = [p \in DataPages |-> ReadIn({}, {Junk})]
  /\ lbuf = ReadIn(InProgress, Garbage)
  /\ file = [p \in DataPages |-> {}]
  /\ disk = file
  /\ ldisk = InProgress
  /\ slog = EmptyLog /\ pending = EmptyLog
  /\ group = [g \in Groups \cup {Sync} |->
                EmptyGroup(IF g = 1 THEN FirstGeneration ELSE 0)]
  /\ cur = 1
  /\ bufgen = IF FirstGeneration = 0 THEN 0 ELSE FirstGeneration - 1
  /\ syncBuffers = 0
  /\ pathCache = OpenFiles
  /\ w = IdleWriter /\ s = IdleSync
  /\ pc = [x \in Xids |-> "work"]
  /\ todo = Writes
  /\ page = [x \in Xids |-> None]
  /\ type = [x \in Xids |-> None]
  /\ acked = {}
  /\ up = TRUE
  /\ flushes = 0 /\ evictions = 0 /\ crashes = 0
-----------------------------------------------------------------------------
(* Backends. *)

\* ReadBuffer pins the page, BufferGetBlock saves the image of the group
\* being logged.
Fetch(x, p) ==
  /\ up /\ pc[x] = "work"
  /\ p \in todo[x]
  /\ buf' = [buf EXCEPT ![p] = BufferGetBlock(@, bufgen)]
  /\ pc' = [pc EXCEPT ![x] = "modify"]
  /\ page' = [page EXCEPT ![x] = p]
  /\ UNCHANGED <<lbuf, fileVars, group, cur, writerVars, todo, type,
                 acked, up, boundVars>>

Modify(x) ==
  /\ pc[x] = "modify"
  /\ buf' = [buf EXCEPT ![page[x]].data = @ \cup {x}]
  /\ pc' = [pc EXCEPT ![x] = "register"]
  /\ UNCHANGED <<lbuf, fileVars, group, cur, writerVars, workVars, acked,
                 up, boundVars>>

\* RegisterBufferWrite: the group takes over the pin of the caller.
Register(x) ==
  /\ pc[x] = "register"
  /\ group' = [group EXCEPT ![cur].buffers = @ \cup {page[x]}]
  /\ pc' = [pc EXCEPT ![x] = "dirty"]
  /\ UNCHANGED <<poolVars, fileVars, cur, writerVars, workVars, acked, up,
                 boundVars>>

\* DirtyBufferIO, after the group's mutex was released.
MarkDirty(x) ==
  /\ pc[x] = "dirty"
  /\ buf' = [buf EXCEPT ![page[x]] = DirtyBufferIO(@)]
  /\ todo' = [todo EXCEPT ![x] = @ \ {page[x]}]
  /\ page' = [page EXCEPT ![x] = None]
  /\ pc' = [pc EXCEPT ![x] = "work"]
  /\ UNCHANGED <<lbuf, fileVars, group, cur, writerVars, type, acked, up,
                 boundVars>>

\* SignalDBWriter: a commit makes an idle group ready.
Signal(state) == IF state = "NOT_READY" THEN "READY" ELSE state

\* CommitDBBufferWrites under the mutex of the current group.
Commit(x, t) ==
  /\ up /\ pc[x] = "work" /\ todo[x] = {}
  /\ group' = IF t = "abort" THEN group ELSE [group EXCEPT
       ![cur].trans = @ \cup {x},
       ![cur].waiters = IF t = "careful" THEN @ \cup {x} ELSE @,
       ![cur].syncers = IF t = "synced" THEN @ \cup {x} ELSE @,
       ![cur].loggable = @ /\ t # "synced",
       ![cur].currstate = Signal(@)]
  /\ type' = [type EXCEPT ![x] = t]
  /\ pc' = [pc EXCEPT ![x] = IF t \in {"careful", "synced"} THEN "waiting"
                                                            ELSE "status"]
  /\ UNCHANGED <<poolVars, fileVars, cur, writerVars, todo, page, acked, up,
                 boundVars>>

\* The two status bits: a soft commit ORs its bit in, the rest overwrite.
SetXidStatus(old, new) ==
  IF new # "soft" THEN new
  ELSE CASE old = "inprogress" -> "soft"
         [] old = "abort" -> "commit"
         [] OTHER -> old

\* TransBlockNumberSetXidStatus of a soft commit or an abort: change the
\* page in memory ...
SetStatus(x) ==
  LET b == BufferGetBlock(lbuf, bufgen) IN
  /\ pc[x] = "status"
  /\ lbuf' = [b EXCEPT !.data[x] = SetXidStatus(@, type[x])]
  /\ pc' = [pc EXCEPT ![x] = "statusregister"]
  /\ UNCHANGED <<buf, fileVars, group, cur, writerVars, workVars, acked, up,
                 boundVars>>

\* ... register it with the current group ...
RegisterStatus(x) ==
  /\ pc[x] = "statusregister"
  /\ group' = [group EXCEPT ![cur].buffers = @ \cup {PgLog}]
  /\ pc' = [pc EXCEPT ![x] = "statusdirty"]
  /\ UNCHANGED <<poolVars, fileVars, cur, writerVars, workVars, acked, up,
                 boundVars>>

\* ... mark it dirty; then the transaction is over (ResetThreadState).
MarkStatusDirty(x) ==
  /\ pc[x] = "statusdirty"
  /\ lbuf' = DirtyBufferIO(lbuf)
  /\ pc' = [pc EXCEPT ![x] = "done"]
  /\ acked' = acked \cup {x}
  /\ UNCHANGED <<buf, fileVars, group, cur, writerVars, workVars, up,
                 boundVars>>

\* FlushAllDirtyBuffers: the pool has no free buffer left.
RequestFlush ==
  /\ up /\ flushes < MaxFlushes   \* bound
  /\ group[cur].currstate # "FLUSHING"
  /\ group' = [group EXCEPT ![cur].currstate = "FLUSHING"]
  /\ flushes' = flushes + 1
  /\ UNCHANGED <<poolVars, fileVars, cur, writerVars, backendVars, up,
                 evictions, crashes>>

\* Mutant: a write group does not pin its pages.
PinnedByBackend(p) ==
  \E x \in Xids : page[x] = p /\ pc[x] \in {"modify", "register"}

\* An unpinned page leaves the pool; its next reader brings it back from the
\* file into a frame whose shadow still holds another page.
Pinned(p) ==
  \/ \E g \in Groups \cup {Sync} : p \in group[g].buffers
  \/ \E x \in Xids : page[x] = p /\ pc[x] \in {"modify", "register"}
Evict(p) ==
  /\ up /\ evictions < MaxEvictions   \* bound
  /\ ~Pinned(p) /\ buf[p].op = "none"
  /\ buf' = [buf EXCEPT ![p] = ReadIn(file[p], {Junk})]
  /\ evictions' = evictions + 1
  /\ UNCHANGED <<lbuf, fileVars, group, cur, writerVars, backendVars, up,
                 flushes, crashes>>

\* Mutant: a write group does not pin the pg_log page.
EvictLogAnytime ==
  /\ up /\ evictions < MaxEvictions   \* bound
  /\ \A x \in Xids : pc[x] # "statusregister"
  /\ w.pc # "transflush"
  /\ lbuf' = ReadIn(ldisk, Garbage)
  /\ evictions' = evictions + 1
  /\ UNCHANGED <<buf, fileVars, group, cur, writerVars, backendVars, up,
                 flushes, crashes>>

EvictLog ==
  /\ up /\ evictions < MaxEvictions   \* bound
  /\ \A g \in Groups \cup {Sync} : PgLog \notin group[g].buffers
  /\ \A x \in Xids : pc[x] # "statusregister"
  /\ w.pc # "transflush"
  /\ lbuf' = ReadIn(ldisk, Garbage)
  /\ evictions' = evictions + 1
  /\ UNCHANGED <<buf, fileVars, group, cur, writerVars, backendVars, up,
                 flushes, crashes>>
-----------------------------------------------------------------------------
(* DBWriter.  w.cart is the group it works for, w.list the group whose      *)
(* buffers the current loop walks, w.i the next buffer of that loop.        *)

Other(g) == 3 - g
At(p) == w.pc = p
Go(p) == w' = [w EXCEPT !.pc = p]
\* The registered buffers the loop has still to reach.
Ahead(list, i) == {p \in group[list].buffers : p >= i}

\* CheckWriteGroupState lets the group go: it was signalled, or there are
\* unsynced buffers and the wait timed out (PRIMED).  AdvanceWriteGroupQueue
\* opens the next group with the next generation.
StartGroup(primed) ==
  LET c == w.cart IN
  /\ At("idle")
  /\ \/ group[c].currstate = "READY"
     \/ group[c].currstate = "NOT_READY" /\ syncBuffers > 0 /\ primed
  /\ group' = [group EXCEPT ![c].currstate = "RUNNING",
                            ![Other(c)].currstate = "NOT_READY",
                            ![Other(c)].generation = group[c].generation + 1]
  /\ cur' = Other(c)
  /\ w' = [w EXCEPT !.pc = IF Logging THEN "beginlog" ELSE "trans",
                    !.job = "commit", !.primed = primed]
  /\ UNCHANGED <<poolVars, fileVars, s, bufgen, syncBuffers, pathCache,
                 backendVars, up, boundVars>>

\* FlushWriteGroup: the group stays current while it is flushed.
StartFlush ==
  /\ At("idle")
  /\ group[w.cart].currstate = "FLUSHING"
  /\ w' = [w EXCEPT !.pc = IF Logging THEN "beginlog" ELSE "merge",
                    !.job = "flush"]
  /\ UNCHANGED <<poolVars, fileVars, group, cur, s, bufgen, syncBuffers,
                 pathCache, backendVars, up, boundVars>>

\* LogBuffers: smgrbeginlog, SetBufferGeneration ...
BeginLog ==
  /\ At("beginlog")
  /\ bufgen' = group[w.cart].generation
  /\ w' = [w EXCEPT !.pc = "log", !.list = w.cart, !.i = 1]
  /\ UNCHANGED <<poolVars, fileVars, group, cur, s, syncBuffers, pathCache,
                 backendVars, up, boundVars>>

\* ... LogBufferIO on each registered data page ...
LogStart ==
  LET ahead == Ahead(w.list, w.i) \ {PgLog}
      p == Min(ahead)
  IN
  /\ At("log") /\ ahead # {}
  /\ LogBufferIOReady(buf[p])
  /\ buf' = [buf EXCEPT ![p] = LogBufferIO(@)]
  /\ w' = IF buf[p].dirty THEN [w EXCEPT !.pc = "logcopy", !.i = p]
                          ELSE [w EXCEPT !.i = p + 1]
  /\ UNCHANGED <<lbuf, fileVars, group, cur, s, bufgen, syncBuffers,
                 pathCache, backendVars, up, boundVars>>

\* ... AdvanceBufferIO, smgrlog, TerminateBufferIO on the dirty ones ...
LogCopy ==
  LET a == AdvanceBufferIO(buf[w.i], bufgen, FALSE) IN
  /\ At("logcopy")
  /\ pending' = Overlay([p \in {w.i} |-> a.shadow], pending)
  /\ buf' = [buf EXCEPT ![w.i] = TerminateBufferIO(a)]
  /\ w' = [w EXCEPT !.pc = "log", !.i = @ + 1]
  /\ UNCHANGED <<lbuf, file, disk, ldisk, slog, group, cur, s, bufgen,
                 syncBuffers, pathCache, backendVars, up, boundVars>>

\* Mutant: the log is begun again instead of committed.
CommitLogEmpty ==
  /\ At("log") /\ Ahead(w.list, w.i) \ {PgLog} = {}
  /\ slog' = slog
  /\ pending' = EmptyLog
  /\ Go(IF w.job = "flush" THEN "merge" ELSE "trans")
  /\ UNCHANGED <<poolVars, file, disk, ldisk, group, cur, s, bufgen,
                 syncBuffers, pathCache, backendVars, up, boundVars>>

\* ... smgrcommitlog: the images count from here on.
CommitLog ==
  /\ At("log") /\ Ahead(w.list, w.i) \ {PgLog} = {}
  /\ slog' = Overlay(pending, slog)
  /\ pending' = EmptyLog
  /\ Go(IF w.job = "flush" THEN "merge" ELSE "trans")
  /\ UNCHANGED <<poolVars, file, disk, ldisk, group, cur, s, bufgen,
                 syncBuffers, pathCache, backendVars, up, boundVars>>

\* LogTransactions sets the commit bits ...
LogTransactions ==
  LET b == BufferGetBlock(lbuf, bufgen)
      T == group[w.cart].trans
  IN
  /\ At("trans")
  /\ IF T = {} THEN Go("ack") /\ lbuf' = lbuf
     ELSE /\ lbuf' = [b EXCEPT !.data =
                        [x \in Xids |-> IF x \in T THEN SetXidStatus(@[x], "commit")
                                        ELSE @[x]]]
          /\ Go("transflush")
  /\ UNCHANGED <<buf, fileVars, group, cur, s, bufgen, syncBuffers,
                 pathCache, backendVars, up, boundVars>>

\* ... and flushes the page.
FlushTransactions ==
  LET a == AdvanceBufferIO(WriteBufferIO(lbuf, "flush"), bufgen, TRUE) IN
  /\ At("transflush")
  /\ ldisk' = a.shadow
  /\ lbuf' = TerminateBufferIO(a)
  /\ Go("ack")
  /\ UNCHANGED <<buf, file, disk, slog, pending, group, cur, s, bufgen,
                 syncBuffers, pathCache, backendVars, up, boundVars>>

\* ResetThreadState of a set of committers.
Release(X) ==
  /\ acked' = acked \cup X
  /\ pc' = [x \in Xids |-> IF x \in X THEN "done" ELSE pc[x]]

\* The rest of LogWriteGroup.
Acknowledge ==
  /\ At("ack")
  /\ Release(group[w.cart].waiters)
  /\ group' = [group EXCEPT ![w.cart].waiters = {},
                            ![w.cart].currstate = "LOGGED"]
  /\ Go(IF group[w.cart].loggable /\ syncBuffers < MaxLogCount /\ ~w.primed
          THEN "merge" ELSE "collect")
  /\ UNCHANGED <<poolVars, fileVars, cur, s, bufgen, syncBuffers, pathCache,
                 workVars, up, boundVars>>

\* GetSyncGroup asks a busy SyncWriter to stop, and waits.
GetSyncGroup ==
  /\ w.pc \in {"merge", "collect"}
  /\ group[Sync].currstate = "FLUSHING"
  /\ group' = [group EXCEPT ![Sync].currstate = "COMPLETED"]
  /\ UNCHANGED <<poolVars, fileVars, cur, writerVars, backendVars, up,
                 boundVars>>
SyncGroupFree == group[Sync].currstate \notin {"FLUSHING", "COMPLETED"}

\* MergeWriteGroups(sync, cart): the SyncWriter is to write the pages, or,
\* in a flush, the DBWriter itself.
MergeIntoSync ==
  LET moved == group[w.cart].buffers IN
  /\ At("merge") /\ SyncGroupFree
  /\ group' = [group EXCEPT
                 ![Sync].buffers = @ \cup moved,
                 ![Sync].currstate = IF w.job = "flush" THEN "FLUSHING"
                                     ELSE "WAITING",
                 ![w.cart].buffers = {}]
  /\ syncBuffers' = syncBuffers + Cardinality(moved)
  /\ w' = IF w.job = "flush" THEN [w EXCEPT !.pc = "beginsync", !.list = Sync]
                             ELSE [w EXCEPT !.pc = "finish"]
  /\ UNCHANGED <<poolVars, fileVars, cur, s, bufgen, pathCache, backendVars,
                 up, boundVars>>

\* MergeWriteGroups(cart, sync); ResetWriteGroup(sync).
CollectSync ==
  /\ At("collect") /\ SyncGroupFree
  /\ group' = [group EXCEPT ![w.cart].buffers = @ \cup group[Sync].buffers,
                            ![Sync] = EmptyGroup(0)]
  /\ syncBuffers' = 0
  /\ w' = [w EXCEPT !.pc = "beginsync", !.list = w.cart]
  /\ UNCHANGED <<poolVars, fileVars, cur, s, bufgen, pathCache, backendVars,
                 up, boundVars>>

\* SyncBuffers(list, true).
BeginSync ==
  /\ At("beginsync")
  /\ bufgen' = group[w.list].generation
  /\ w' = [w EXCEPT !.pc = "sync", !.i = 1]
  /\ UNCHANGED <<poolVars, fileVars, group, cur, s, syncBuffers, pathCache,
                 backendVars, up, boundVars>>

SyncStart ==
  LET ahead == Ahead(w.list, w.i)
      p == Min(ahead)
      mode == IF group[w.list].currstate = "FLUSHING" THEN "normal" ELSE "commit"
  IN
  /\ At("sync") /\ ahead # {} /\ p # PgLog
  /\ WriteBufferIOReady(buf[p])
  /\ buf' = [buf EXCEPT ![p] = WriteBufferIO(@, mode)]
  /\ pathCache' = pathCache \cup {p}
  /\ w' = [w EXCEPT !.pc = "synccopy", !.i = p]
  /\ UNCHANGED <<lbuf, fileVars, group, cur, s, bufgen, syncBuffers,
                 backendVars, up, boundVars>>

SyncCopy ==
  LET a == AdvanceBufferIO(buf[w.i], bufgen, TRUE) IN
  /\ At("synccopy")
  /\ file' = [file EXCEPT ![w.i] = a.shadow]
  /\ buf' = [buf EXCEPT ![w.i] = TerminateBufferIO(a)]
  /\ group' = [group EXCEPT ![w.list].buffers = @ \ {w.i}]
  /\ w' = [w EXCEPT !.pc = "sync", !.i = @ + 1]
  /\ UNCHANGED <<lbuf, disk, ldisk, slog, pending, cur, s, bufgen,
                 syncBuffers, pathCache, backendVars, up, boundVars>>

\* A pg_log page registered by a soft commit or an abort is written through.
SyncLogPage ==
  LET a == AdvanceBufferIO(WriteBufferIO(lbuf, "flush"), bufgen, FALSE) IN
  /\ At("sync") /\ Ahead(w.list, w.i) = {PgLog}
  /\ ldisk' = a.shadow
  /\ lbuf' = TerminateBufferIO(a)
  /\ group' = [group EXCEPT ![w.list].buffers = @ \ {PgLog}]
  /\ UNCHANGED <<buf, file, disk, slog, pending, cur, writerVars,
                 backendVars, up, boundVars>>

\* Mutant: the log expires before the files are synced.
EndSyncEarly ==
  /\ At("sync") /\ Ahead(w.list, w.i) = {}
  /\ Go(IF w.job = "flush" /\ syncBuffers <= MaxLogCount
          THEN "flushdone" ELSE "expire")
  /\ UNCHANGED <<poolVars, fileVars, group, cur, s, bufgen, syncBuffers,
                 pathCache, backendVars, up, boundVars>>

EndSync ==
  /\ At("sync") /\ Ahead(w.list, w.i) = {}
  /\ Go(IF w.job = "flush" /\ syncBuffers <= MaxLogCount
          THEN "flushdone" ELSE "fsync")
  /\ UNCHANGED <<poolVars, fileVars, group, cur, s, bufgen, syncBuffers,
                 pathCache, backendVars, up, boundVars>>

\* Mutant: the files are not synced.
PackageUnsynced ==
  /\ At("fsync")
  /\ disk' = disk
  /\ Go("expire")
  /\ UNCHANGED <<poolVars, file, ldisk, slog, pending, group, cur, s, bufgen,
                 syncBuffers, pathCache, backendVars, up, boundVars>>

\* CommitPackage syncs every file written since the last time.
CommitPackage ==
  /\ At("fsync")
  /\ disk' = file
  /\ Go("expire")
  /\ UNCHANGED <<poolVars, file, ldisk, slog, pending, group, cur, s, bufgen,
                 syncBuffers, pathCache, backendVars, up, boundVars>>

ClearLogs ==
  /\ At("expire")
  /\ slog' = IF Logging THEN EmptyLog ELSE slog
  /\ Go(IF w.job = "flush" THEN "flushdone" ELSE "acksync")
  /\ UNCHANGED <<poolVars, file, disk, ldisk, pending, group, cur, s, bufgen,
                 syncBuffers, pathCache, backendVars, up, boundVars>>

\* The rest of SyncWriteGroup.
AcknowledgeSync ==
  /\ At("acksync")
  /\ Release(group[w.cart].waiters \cup group[w.cart].syncers)
  /\ group' = [group EXCEPT ![w.cart].currstate = "SYNCED"]
  /\ Go("finish")
  /\ UNCHANGED <<poolVars, fileVars, cur, s, bufgen, syncBuffers, pathCache,
                 workVars, up, boundVars>>

\* FinishWriteGroup, ResetWriteGroup, GetNextTarget; the next group finds
\* this one COMPLETED and makes it NOT_READY.
FinishWriteGroup ==
  /\ At("finish")
  /\ group' = [group EXCEPT ![w.cart] = EmptyGroup(@.generation)]
  /\ w' = [IdleWriter EXCEPT !.cart = Other(w.cart)]
  /\ UNCHANGED <<poolVars, fileVars, cur, s, bufgen, syncBuffers, pathCache,
                 backendVars, up, boundVars>>

\* The end of FlushWriteGroup.
FinishFlush ==
  /\ At("flushdone")
  /\ group' = [group EXCEPT ![w.cart].currstate = "READY",
                            ![Sync].currstate = "NOT_READY"]
  /\ w' = [IdleWriter EXCEPT !.cart = w.cart]
  /\ UNCHANGED <<poolVars, fileVars, cur, s, bufgen, syncBuffers, pathCache,
                 backendVars, up, boundVars>>
-----------------------------------------------------------------------------
(* SyncWriter: SyncBuffers(sync_group, false). *)

SyncWriterWake ==
  /\ s.pc = "idle" /\ group[Sync].currstate = "WAITING"
  /\ group' = [group EXCEPT ![Sync].currstate = "FLUSHING"]
  /\ bufgen' = group[Sync].generation
  /\ s' = [pc |-> "sync", i |-> 1]
  /\ UNCHANGED <<poolVars, fileVars, cur, w, syncBuffers, pathCache,
                 backendVars, up, boundVars>>

\* pg_log pages, and pages whose file is not open, stay registered.
SyncWriterStart ==
  LET ahead == Ahead(Sync, s.i) \cap pathCache
      p == Min(ahead)
  IN
  /\ s.pc = "sync" /\ ahead # {} /\ group[Sync].currstate # "COMPLETED"
  /\ WriteBufferIOReady(buf[p])
  /\ buf' = [buf EXCEPT ![p] = WriteBufferIO(@, "normal")]
  /\ s' = [pc |-> "synccopy", i |-> p]
  /\ UNCHANGED <<lbuf, fileVars, group, cur, w, bufgen, syncBuffers,
                 pathCache, backendVars, up, boundVars>>

SyncWriterCopy ==
  LET a == AdvanceBufferIO(buf[s.i], bufgen, TRUE) IN
  /\ s.pc = "synccopy"
  /\ file' = [file EXCEPT ![s.i] = a.shadow]
  /\ buf' = [buf EXCEPT ![s.i] = TerminateBufferIO(a)]
  /\ group' = [group EXCEPT ![Sync].buffers = @ \ {s.i}]
  /\ s' = [pc |-> "sync", i |-> s.i + 1]
  /\ UNCHANGED <<lbuf, disk, ldisk, slog, pending, cur, w, bufgen,
                 syncBuffers, pathCache, backendVars, up, boundVars>>

\* Mutant: the sync group is not given back.
SyncWriterKeeps ==
  /\ s.pc = "sync"
  /\ \/ group[Sync].currstate = "COMPLETED"
     \/ Ahead(Sync, s.i) \cap pathCache = {}
  /\ group' = group
  /\ s' = IdleSync
  /\ UNCHANGED <<poolVars, fileVars, cur, w, bufgen, syncBuffers, pathCache,
                 backendVars, up, boundVars>>

SyncWriterDone ==
  /\ s.pc = "sync"
  /\ \/ group[Sync].currstate = "COMPLETED"
     \/ Ahead(Sync, s.i) \cap pathCache = {}
  /\ group' = [group EXCEPT ![Sync].currstate = "NOT_READY"]
  /\ s' = IdleSync
  /\ UNCHANGED <<poolVars, fileVars, cur, w, bufgen, syncBuffers, pathCache,
                 backendVars, up, boundVars>>
-----------------------------------------------------------------------------
\* A crash and the recovery that follows it: each unsynced file write is kept
\* or lost, smgrreplaylogs puts the logged images back, TransRecover turns
\* soft commits into aborts.  Backends that were at work are gone.
Crash(lost) ==
  LET survivor(p) == IF p \in lost THEN disk[p] ELSE file[p]
      recovered == [p \in DataPages |-> IF p \in DOMAIN slog THEN slog[p]
                                        ELSE survivor(p)]
  IN
  /\ up /\ crashes < MaxCrashes   \* bound
  /\ \A p \in lost : disk[p] # file[p]
  /\ up' = FALSE
  /\ crashes' = crashes + 1
  /\ disk' = recovered /\ file' = recovered
  /\ ldisk' = [x \in Xids |-> IF ldisk[x] = "soft" THEN "abort" ELSE ldisk[x]]
  /\ slog' = EmptyLog /\ pending' = EmptyLog
  /\ buf' = [p \in DataPages |-> ReadIn(recovered[p], {Junk})]
  /\ lbuf' = ReadIn(ldisk', Garbage)
  /\ group' = [g \in Groups \cup {Sync} |->
                 EmptyGroup(IF g = 1 THEN FirstGeneration ELSE 0)]
  /\ cur' = 1
  /\ bufgen' = IF FirstGeneration = 0 THEN 0 ELSE FirstGeneration - 1
  /\ syncBuffers' = 0 /\ pathCache' = {}
  /\ w' = IdleWriter /\ s' = IdleSync
  /\ pc' = [x \in Xids |->
              CASE pc[x] = "work" /\ todo[x] = Writes[x] -> "work"
                [] ldisk[x] = "commit" -> "done"
                [] OTHER -> "lost"]
  /\ page' = [x \in Xids |-> None]
  /\ UNCHANGED <<todo, type, acked, flushes, evictions>>

\* The server comes up again.
Restart ==
  /\ ~up
  /\ up' = TRUE
  /\ UNCHANGED <<poolVars, fileVars, group, cur, writerVars, backendVars,
                 boundVars>>

\* Every transaction is over and the writer waits for a signal.
Quiescent ==
  /\ up /\ At("idle") /\ group[w.cart].currstate = "NOT_READY"
  /\ \A x \in Xids : pc[x] \in {"done", "lost"}
  /\ UNCHANGED vars

Backend(x) ==
  \/ \E p \in DataPages : Fetch(x, p)
  \/ Modify(x) \/ Register(x) \/ MarkDirty(x)
  \/ \E t \in CommitTypes[x] : Commit(x, t)
  \/ SetStatus(x) \/ RegisterStatus(x) \/ MarkStatusDirty(x)

DBWriter ==
  \/ \E primed \in BOOLEAN : StartGroup(primed)
  \/ StartFlush
  \/ BeginLog \/ LogStart \/ LogCopy \/ CommitLog
  \/ LogTransactions \/ FlushTransactions \/ Acknowledge
  \/ GetSyncGroup \/ MergeIntoSync \/ CollectSync
  \/ BeginSync \/ SyncStart \/ SyncCopy \/ SyncLogPage \/ EndSync
  \/ CommitPackage \/ ClearLogs \/ AcknowledgeSync
  \/ FinishWriteGroup \/ FinishFlush

SyncWriter ==
  \/ SyncWriterWake \/ SyncWriterStart \/ SyncWriterCopy \/ SyncWriterDone

Next ==
  \/ \E x \in Xids : Backend(x)
  \/ DBWriter
  \/ SyncWriter
  \/ RequestFlush
  \/ \E p \in DataPages : Evict(p)
  \/ EvictLog
  \/ \E lost \in SUBSET DataPages : Crash(lost)
  \/ Restart
  \/ Quiescent

Spec == Init /\ [][Next]_vars

\* The writer threads keep running: every wait of theirs is ended by a
\* signal or by a timeout.
FairSpec == Spec /\ WF_vars(DBWriter) /\ WF_vars(SyncWriter)
-----------------------------------------------------------------------------
Images == SUBSET (Xids \cup {Junk})
Statuses == [Xids -> {"inprogress", "soft", "commit", "abort"}]
TypeOK ==
  /\ \A p \in DataPages :
       /\ {buf[p].data, buf[p].shadow, file[p], disk[p]} \subseteq Images
       /\ buf[p].generation \in Nat
  /\ {lbuf.data, lbuf.shadow, ldisk} \subseteq Statuses
  /\ DOMAIN slog \subseteq DataPages /\ DOMAIN pending \subseteq DataPages
  /\ \A g \in Groups \cup {Sync} :
       /\ group[g].buffers \subseteq DataPages \cup {PgLog}
       /\ group[g].waiters \cup group[g].syncers \subseteq group[g].trans
       /\ group[g].trans \subseteq Xids
  /\ cur \in Groups /\ bufgen \in Nat /\ syncBuffers \in Nat
  /\ acked \subseteq Xids

Hard(x) == type[x] \in {"careful", "synced"}

\* A transaction whose careful or synced commit was acknowledged is there
\* after any crash: committed in pg_log, with every one of its changes.
CommitDurable ==
  ~up => \A x \in acked : Hard(x) =>
    ldisk[x] = "commit" /\ \A p \in Writes[x] : x \in disk[p]

\* Whatever recovery finds committed is complete: LogBuffers and
\* smgrcommitlog come before LogTransactions, for soft commits too.
CommitAtomic ==
  ~up => \A x \in Xids : ldisk[x] = "commit" =>
    \A p \in Writes[x] : x \in disk[p]

\* While the server runs, a change made to a shared page never disappears
\* from it, whatever is written, unpinned, evicted and read back.
NoLostUpdate ==
  [][up /\ up' => \A p \in DataPages : buf[p].data \subseteq buf'[p].data]_vars

\* While the server runs, a transaction that was acknowledged as soft
\* committed stays visible as committed.
SoftVisible ==
  up /\ crashes = 0 => \A x \in acked : type[x] = "soft" =>
    lbuf.data[x] \in {"soft", "commit"}

\* A careful or synced commit is answered, unless the server crashes: the
\* handshakes between DBWriter, SyncWriter and flushes never get stuck.
CommitAnswered ==
  \A x \in Xids : pc[x] = "waiting" ~> pc[x] \in {"done", "lost"}
-----------------------------------------------------------------------------
(* Refinement: a transaction is durable when a crash now would leave it     *)
(* committed with all its changes.                                          *)

Recoverable(x, p) ==
  IF p \in DOMAIN slog THEN x \in slog[p] ELSE x \in disk[p] \cap file[p]
Durable ==
  {x \in Xids : ldisk[x] = "commit" /\ \A p \in Writes[x] : Recoverable(x, p)}
Asked(t) == IF t \in {"careful", "synced"} THEN "hard" ELSE t

DC == INSTANCE DurableCommit WITH
        asked <- [x \in Xids |-> Asked(type[x])],
        durable <- Durable,
        gone <- {x \in Xids : pc[x] = "lost"}

\* Group commit keeps the promise of DurableCommit: durability is reached in
\* one step and survives the writing of the pages, the expiry of the log and
\* crashes.
KeepsPromise == DC!Spec
=============================================================================
