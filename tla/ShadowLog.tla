----------------------------- MODULE ShadowLog -----------------------------
(***************************************************************************)
(* The shadow log of the vfd storage manager (vfd.c), and what it is for:  *)
(* a page is appended to pg_shadowlog, and the log completed, before the   *)
(* page is written in place, so that recovery can put back a page whose    *)
(* write was torn or lost.                                                 *)
(*                                                                         *)
(* The log is a sequence of blocks: the header of a log, followed by the   *)
(* segments it counts.  An image of a page is the number of the log that   *)
(* wrote it, 0 before any.  log is the file as the kernel has it, synced   *)
(* what of it has surely reached the disk; file and disk are the same for  *)
(* the data files.                                                         *)
(***************************************************************************)
EXTENDS Integers, FiniteSets, Sequences

CONSTANTS Pages,         \* data pages
          IndexPages,    \* those that belong to an index
          MaxBlocks,     \* max_blocks, the images one segment can hold
          Deferred,      \* may a log be left unexpired (max_logcount > 0)?
          MaxLogs,       \* bound on logs written
          MaxCrashes,    \* bound on crashes
          MaxShutdowns,  \* bound on clean shutdowns
          Torn           \* a page or block of which only a part was written

ASSUME SizeAssumption ==
  /\ IsFiniteSet(Pages) /\ IndexPages \subseteq Pages
  /\ MaxBlocks \in Nat \ {0}
  /\ Deferred \in BOOLEAN
  /\ {MaxLogs, MaxCrashes, MaxShutdowns} \subseteq Nat

VARIABLES
  log, synced,      \* pg_shadowlog
  old,              \* pg_shadowlog.old
  file, disk,       \* the data files
  pc,               \* what the server is doing
  header, log_pos,  \* LogBuffer.LogHeader and where it is in the file
  log_count,        \* next log_id
  store,            \* SegmentStore and scratch_space: pages not yet dumped
  number, body,     \* the log being written: its number and its pages
  replay,           \* state of _vfdreplaylogfile
  recovered,        \* smgraddrecoveredpage's list
  safe,             \* history: images whose log vfdcommitlog completed
  atRisk,           \* history: pages a crash caught with an unsynced write
  crashes, shutdowns

logVars == <<log, synced, old>>
dataVars == <<file, disk>>
memVars == <<header, log_pos, log_count, store>>
workVars == <<number, body>>
recVars == <<replay, recovered, atRisk>>
boundVars == <<crashes, shutdowns>>
vars == <<logVars, dataVars, pc, memVars, workVars, recVars, safe, boundVars>>

Header(id, completed, segments) ==
  [kind |-> "header", id |-> id, completed |-> completed,
   segments |-> segments]
Segment(pages, n) == [kind |-> "segment", pages |-> pages, number |-> n]
TornBlock == [kind |-> "torn", id |-> 0]   \* reads as zeros

NoHeader == Header(0, FALSE, 0)
NoReplay == [pos |-> 1, id |-> 0, left |-> 0, logged |-> FALSE,
             indexonly |-> FALSE]

Init ==
  /\ log = <<>> /\ synced = <<>> /\ old = <<>>
  /\ file = [p \in Pages |-> 0] /\ disk = file
  /\ pc = "idle"
  /\ header = NoHeader /\ log_pos = 1 /\ log_count = 0 /\ store = {}
  /\ number = 0 /\ body = {}
  /\ replay = NoReplay /\ recovered = {}
  /\ safe = file /\ atRisk = {}
  /\ crashes = 0 /\ shutdowns = 0
-----------------------------------------------------------------------------
(* Writing a log (LogBuffers). *)

\* vfdbeginlog writes an uncompleted header at the end of the file ...
vfdbeginlog ==
  /\ pc = "idle"
  /\ number < MaxLogs   \* bound
  /\ header' = Header(log_count, FALSE, 0)
  /\ log_count' = log_count + 1
  /\ log_pos' = Len(log) + 1
  /\ log' = Append(log, header')
  /\ store' = {}
  /\ number' = number + 1 /\ body' = {}
  /\ pc' = "beginsync"
  /\ UNCHANGED <<synced, old, dataVars, recVars, safe, boundVars>>

\* ... and every FileSync of the log file: after the header, after the last
\* segment, and after the completed header, which commits the log.
FileSync ==
  /\ pc \in {"beginsync", "dumpsync", "headsync"}
  /\ synced' = log
  /\ pc' = CASE pc = "beginsync" -> "logging"
             [] pc = "dumpsync" -> "complete"
             [] pc = "headsync" -> "logged"
  /\ safe' = IF pc = "headsync"
               THEN [p \in Pages |-> IF p \in body THEN number ELSE safe[p]]
               ELSE safe
  /\ UNCHANGED <<log, old, dataVars, memVars, workVars, recVars, boundVars>>

\* _vfddumplogtodisk; nothing to do for an empty store.
Dump ==
  IF store = {} THEN UNCHANGED <<log, header>>
  ELSE /\ log' = Append(log, Segment(store, number))
       /\ header' = [header EXCEPT !.segments = @ + 1]

\* vfdlog: a full segment goes to the file first.
vfdlog(p) ==
  /\ pc = "logging"
  /\ p \notin body
  /\ IF Cardinality(store) = MaxBlocks
       THEN Dump /\ store' = {p}
       ELSE store' = store \cup {p} /\ UNCHANGED <<log, header>>
  /\ body' = body \cup {p}
  /\ UNCHANGED <<synced, old, dataVars, pc, log_pos, log_count, number,
                 recVars, safe, boundVars>>

\* Mutant: the segments are not synced before the header.
CommitUnsynced ==
  /\ pc = "logging"
  /\ Dump
  /\ store' = {}
  /\ pc' = "complete"
  /\ UNCHANGED <<synced, old, dataVars, log_pos, log_count, workVars,
                 recVars, safe, boundVars>>

\* vfdcommitlog dumps the last segment ...
vfdcommitlog ==
  /\ pc = "logging"
  /\ Dump
  /\ store' = {}
  /\ pc' = "dumpsync"
  /\ UNCHANGED <<synced, old, dataVars, log_pos, log_count, workVars,
                 recVars, safe, boundVars>>

\* ... and, once that is on disk, writes the header again, now completed.
CompleteHeader ==
  /\ pc = "complete"
  /\ header' = [header EXCEPT !.completed = TRUE]
  /\ log' = [log EXCEPT ![log_pos] = header']
  /\ pc' = "headsync"
  /\ UNCHANGED <<synced, old, dataVars, log_pos, log_count, store, workVars,
                 recVars, safe, boundVars>>
-----------------------------------------------------------------------------
(* What the writers do with the logged pages. *)

\* The page is written in place: by SyncBuffers, or, when the log is kept
\* for several groups, by the SyncWriter thread at any later time.
WritePage(p) ==
  /\ IF Deferred THEN pc \notin {"down", "closed", "replay", "recovered"}
                 ELSE pc = "logged"
  /\ file[p] # safe[p]
  /\ file' = [file EXCEPT ![p] = safe[p]]
  /\ UNCHANGED <<logVars, disk, pc, memVars, workVars, recVars, safe,
                 boundVars>>

\* The group is done and its log stays.
Defer ==
  /\ pc = "logged" /\ Deferred
  /\ pc' = "idle"
  /\ UNCHANGED <<logVars, dataVars, memVars, workVars, recVars, safe,
                 boundVars>>

\* Mutant: the data files are not synced.
PackageUnsynced ==
  /\ pc = "logged" /\ file = safe
  /\ disk' = disk
  /\ pc' = "expire"
  /\ UNCHANGED <<logVars, file, memVars, workVars, recVars, safe, boundVars>>

\* CommitPackage: every written data file is synced ...
CommitPackage ==
  /\ pc = "logged" /\ file = safe
  /\ disk' = file
  /\ pc' = "expire"
  /\ UNCHANGED <<logVars, file, memVars, workVars, recVars, safe, boundVars>>

\* ... and vfdexpirelogs renames the log and starts an empty one.
vfdexpirelogs ==
  /\ pc = "expire"
  /\ old' = log
  /\ log' = <<>> /\ synced' = <<>>
  /\ pc' = "idle"
  /\ UNCHANGED <<dataVars, memVars, workVars, recVars, safe, boundVars>>

\* vfdshutdown leaves an uncompleted header behind, synced by FileClose.
\* CleanupWriteGroup has logged, synced and expired the last group before.
vfdshutdown ==
  /\ pc = "idle" /\ log = <<>>
  /\ shutdowns < MaxShutdowns   \* bound
  /\ shutdowns' = shutdowns + 1
  /\ header' = Header(log_count, FALSE, 0)
  /\ log_pos' = Len(log) + 1
  /\ log' = Append(log, header') /\ synced' = log'
  /\ pc' = "closed"
  /\ UNCHANGED <<old, dataVars, log_count, store, workVars, recVars, safe,
                 crashes>>
-----------------------------------------------------------------------------
(* Crashes and restarts. *)

\* A crash, even one between vfdshutdown and the update of pg_control, keeps
\* any part of what was not synced: the log file has some length, each block
\* after the synced ones arrived or did not, a rewritten header did or did
\* not; each data page is old, new or torn.
Survivors(len, kept) ==
  [i \in 1 .. len |-> CASE i \in kept -> log[i]
                        [] i \notin kept /\ i <= Len(synced) -> synced[i]
                        [] OTHER -> TornBlock]
Unsynced(len) ==
  {i \in 1 .. len : i > Len(synced) \/ log[i] # synced[i]}
Crash(len, kept, lost, torn) ==
  /\ pc # "down"
  /\ crashes < MaxCrashes   \* bound
  /\ crashes' = crashes + 1
  /\ kept \subseteq Unsynced(len)
  /\ lost \cup torn \subseteq {p \in Pages : file[p] # disk[p]}
  /\ lost \cap torn = {}
  /\ log' = Survivors(len, kept) /\ synced' = log'
  /\ file' = [p \in Pages |-> CASE p \in lost -> disk[p]
                                [] p \in torn -> Torn
                                [] OTHER -> file[p]]
  /\ disk' = file'
  /\ header' = NoHeader /\ log_pos' = 1 /\ log_count' = 0 /\ store' = {}
  /\ replay' = NoReplay /\ recovered' = {}
  /\ atRisk' = atRisk \cup {p \in Pages : file[p] # disk[p]}
  /\ pc' = "down"
  /\ UNCHANGED <<old, workVars, safe, shutdowns>>

\* After a clean shutdown vfdinit just opens the file again.
Start ==
  /\ pc = "closed"
  /\ header' = NoHeader /\ log_pos' = 1 /\ log_count' = 0
  /\ pc' = "idle"
  /\ UNCHANGED <<logVars, dataVars, store, workVars, recVars, safe, boundVars>>

\* After a crash InitializeTransactionLog calls vfdreplaylogs.
StartRecovery ==
  /\ pc = "down"
  /\ pc' = "replay"
  /\ UNCHANGED <<logVars, dataVars, memVars, workVars, recVars, safe,
                 boundVars>>

Source == IF replay.indexonly THEN old ELSE log

\* Does _vfdreplaylogfile accept the block as the next header?  The first
\* test of the sequence is skipped after log_id 0.
Accepts(block) ==
  /\ block.kind = "header"
  /\ block.completed
  /\ replay.id = 0 \/ replay.id + 1 = block.id

\* The outer loop reads a header into LogBuffer, even one it rejects.
ReplayHeader ==
  LET block == Source[replay.pos] IN
  /\ pc = "replay" /\ replay.left = 0
  /\ replay.pos <= Len(Source) /\ Accepts(block)
  /\ header' = block
  /\ replay' = [replay EXCEPT !.pos = @ + 1, !.id = block.id,
                              !.left = block.segments, !.logged = TRUE]
  /\ UNCHANGED <<logVars, dataVars, pc, log_pos, log_count, store, workVars,
                 recovered, safe, atRisk, boundVars>>

\* Mutant: index pages are listed only from the expired log.
ReplayUnlisted ==
  LET block == Source[replay.pos]
      valid == block.kind = "segment"
      images == IF valid /\ ~replay.indexonly THEN block.pages ELSE {}
  IN
  /\ pc = "replay" /\ replay.left > 0 /\ replay.pos <= Len(Source)
  /\ file' = [p \in Pages |-> IF p \in images THEN block.number ELSE file[p]]
  /\ disk' = file'
  /\ recovered' = recovered \cup (IF valid /\ replay.indexonly THEN block.pages \cap IndexPages
                                           ELSE {})
  /\ replay' = [replay EXCEPT !.pos = IF valid THEN @ + 1 ELSE Len(Source) + 1,
                              !.left = IF valid THEN @ - 1 ELSE 0]
  /\ UNCHANGED <<logVars, pc, memVars, workVars, safe, atRisk, boundVars>>

\* _vfdreplaysegment writes the images and closes, hence syncs, the files.
\* With indexonly it only lists the index pages.  An invalid segment leaves
\* the reader among page images, where no header is found.  The pages of one
\* segment are replayed in one step: a crash among them leaves a log that is
\* replayed again from its start.  The images are not compressed (the default).
ReplaySegment ==
  LET block == Source[replay.pos]
      valid == block.kind = "segment"
      images == IF valid /\ ~replay.indexonly THEN block.pages ELSE {}
  IN
  /\ pc = "replay" /\ replay.left > 0 /\ replay.pos <= Len(Source)
  /\ file' = [p \in Pages |-> IF p \in images THEN block.number ELSE file[p]]
  /\ disk' = file'
  /\ recovered' = recovered \cup (IF valid THEN block.pages \cap IndexPages
                                           ELSE {})
  /\ replay' = [replay EXCEPT !.pos = IF valid THEN @ + 1 ELSE Len(Source) + 1,
                              !.left = IF valid THEN @ - 1 ELSE 0]
  /\ UNCHANGED <<logVars, pc, memVars, workVars, safe, atRisk, boundVars>>

\* The loop ends.  A log file without a complete log makes vfdreplaylogs
\* look at the expired one for index pages.  The log is neither truncated
\* nor expired.
EndReplay ==
  LET atEnd == replay.pos > Len(Source)
      block == Source[replay.pos]
      last == IF atEnd THEN header ELSE block
  IN
  /\ pc = "replay"
  /\ IF atEnd THEN TRUE ELSE replay.left = 0 /\ ~Accepts(block)
  /\ header' = [header EXCEPT !.id = last.id]
  /\ log_count' = last.id + 1
  /\ IF replay.logged \/ replay.indexonly
       THEN pc' = "recovered" /\ replay' = NoReplay
       ELSE pc' = pc /\ replay' = [NoReplay EXCEPT !.indexonly = TRUE]
  /\ UNCHANGED <<logVars, dataVars, log_pos, store, workVars, recovered,
                 safe, atRisk, boundVars>>

\* The server goes into service.  What the recovery found is now the truth.
Resume ==
  /\ pc = "recovered"
  /\ safe' = file /\ atRisk' = {}
  /\ pc' = "idle"
  /\ UNCHANGED <<logVars, dataVars, memVars, workVars, replay, recovered,
                 boundVars>>

Quiescent ==
  /\ pc = "idle" /\ number = MaxLogs /\ UNCHANGED vars

Next ==
  \/ vfdbeginlog \/ FileSync \/ vfdcommitlog \/ CompleteHeader
  \/ \E p \in Pages : vfdlog(p) \/ WritePage(p)
  \/ Defer \/ CommitPackage \/ vfdexpirelogs \/ vfdshutdown
  \/ \E len \in Len(synced) .. Len(log) :
       \E kept \in SUBSET Unsynced(len) : \E lost, torn \in SUBSET Pages :
         Crash(len, kept, lost, torn)
  \/ Start \/ StartRecovery
  \/ ReplayHeader \/ ReplaySegment \/ EndReplay \/ Resume
  \/ Quiescent

Spec == Init /\ [][Next]_vars
-----------------------------------------------------------------------------
Images == (0 .. MaxLogs) \cup {Torn}
Blocks == [kind : {"header"}, id : Nat, completed : BOOLEAN, segments : Nat]
          \cup [kind : {"segment"}, pages : SUBSET Pages, number : 1 .. MaxLogs]
          \cup {TornBlock}
TypeOK ==
  /\ \A f \in {log, synced, old} : \A i \in DOMAIN f : f[i] \in Blocks
  /\ {file, disk, safe} \subseteq [Pages -> Images]
  /\ header \in Blocks /\ log_pos \in Nat \ {0} /\ log_count \in Nat
  /\ store \subseteq body /\ body \subseteq Pages
  /\ Cardinality(store) <= MaxBlocks
  /\ replay.left \in Nat /\ replay.id \in Nat
  /\ recovered \subseteq IndexPages

\* A completed log lies in the file behind one that was never completed.
Obstructed ==
  \E i, j \in DOMAIN log :
    /\ i < j /\ log[j].kind = "header" /\ log[j].completed
    /\ log[i] = TornBlock \/ (log[i].kind = "header" /\ ~log[i].completed)

\* The images the last log was about to make safe.
Attempted == [p \in Pages |-> IF p \in body THEN number ELSE safe[p]]
Restored == file = safe \/ file = Attempted

\* After vfdreplaylogs every page is whole, and the pages are those of the
\* logs that vfdcommitlog completed; of a log that was being completed all
\* pages are there or none.  This takes the order of the three syncs, of the
\* writes in place and of the expiry, and holds when a replay is itself cut
\* off.  It holds as long as no completed log lies behind an uncompleted one.
RecoveryRestores == pc = "recovered" /\ ~Obstructed => Restored

\* The same without that condition: what a commit that survives "system
\* failure" needs (env.c, the commit types).
RecoveryComplete == pc = "recovered" => Restored

\* Every index page that a crash caught with an unsynced write is on the list
\* from which index recovery is done.
RiskyIndexListed ==
  pc = "recovered" /\ ~Obstructed => atRisk \cap IndexPages \subseteq recovered

\* A page is not written in place before its image can be replayed: what is
\* in the kernel and not yet on disk is in a completed, synced log.
Logged(f, p, n) ==
  \E i, j \in DOMAIN f :
    /\ f[i].kind = "header" /\ f[i].completed
    /\ i < j /\ j <= i + f[i].segments
    /\ f[j].kind = "segment" /\ f[j].number = n /\ p \in f[j].pages
WriteAhead ==
  \A p \in Pages : file[p] # disk[p] => Logged(synced, p, file[p])
=============================================================================
