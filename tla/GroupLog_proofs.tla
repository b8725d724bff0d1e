-------------------------- MODULE GroupLog_proofs ---------------------------
(***************************************************************************)
(* Proofs about GroupCommit, first part: the invariant CommitInv, and that *)
(* the steps of the backends and of the first half of a write group        *)
(* (StartGroup to the answers to its waiters) keep it.                     *)
(*                                                                         *)
(* A commit is safe because of how five things go together, and CommitInv  *)
(* says how at every step: which group a change is pinned by until it is   *)
(* in its file (PinInv, CartInv), how far LogBuffers is with the images of *)
(* the group's pages (DirtyInv, PendingInv), that what pg_log commits can  *)
(* be recovered from the log or the files (RecoverInv), which of the three *)
(* images of the pg_log page has which status (BitInv, UnsetInv,           *)
(* StatusPinInv), and what the copies made for the DBWriter can hold       *)
(* (ShadowInv).                                                            *)
(***************************************************************************)
EXTENDS GroupCommit, WellFoundedInduction, TLAPS

-----------------------------------------------------------------------------
(* The invariant.                                                          *)

\* The settings a commit is safe with: the log is on, no more than one group is
\* logged before its pages are written, no group is flushed before it commits,
\* and buffer_generation does not start at the generation of an unused copy.
\* README.md says what goes wrong without each of them.
SafeSettings == Logging /\ MaxLogCount = 0 /\ MaxFlushes = 0 /\ 0 < FirstGeneration

Ops == {"none", "log", "write"}
DescsOf(images, leftovers) ==
  [data : images, shadow : leftovers, generation : Nat, dirty : BOOLEAN, logged : BOOLEAN, op : Ops]
Descs == DescsOf(SUBSET Xids, Images)
LogDescs == DescsOf(Statuses, Statuses)
WriteGroups ==
  [buffers : SUBSET (DataPages \cup {PgLog}), trans : SUBSET Xids,
   waiters : SUBSET Xids, syncers : SUBSET Xids, generation : Nat,
   loggable : BOOLEAN, currstate : {"NOT_READY", "READY", "RUNNING", "LOGGED", "SYNCED"}]
WriterPlaces ==
  {"idle", "beginlog", "log", "logcopy", "trans", "transflush", "ack", "collect", "beginsync",
   "sync", "synccopy", "fsync", "expire", "acksync", "finish"}
Writers == [pc : WriterPlaces, cart : Groups, list : Groups, i : Nat, job : {"commit"},
            primed : BOOLEAN]
Early == {"work", "modify", "register", "dirty"}
Ending == {"waiting", "status", "statusregister", "statusdirty", "done"}
Outcomes == {"careful", "synced", "soft", "abort"}

\* A log of images.
IsLog(l) == DOMAIN l \subseteq DataPages /\ \A p \in DOMAIN l : l[p] \subseteq Xids

Types ==
  /\ buf \in [DataPages -> Descs] /\ lbuf \in LogDescs
  /\ file \in [DataPages -> SUBSET Xids] /\ disk \in [DataPages -> SUBSET Xids]
  /\ ldisk \in Statuses /\ IsLog(slog) /\ IsLog(pending)
  /\ group \in [Groups \cup {Sync} -> WriteGroups] /\ group[Sync] = EmptyGroup(0)
  /\ cur \in Groups /\ bufgen \in Nat /\ syncBuffers = 0
  /\ w \in Writers /\ s = IdleSync
  /\ pc \in [Xids -> Early \cup Ending \cup {"lost"}]
  /\ todo \in [Xids -> SUBSET DataPages]
  /\ page \in [Xids -> DataPages \cup {None}]
  /\ type \in [Xids -> Outcomes \cup {None}]
  /\ acked \subseteq Xids /\ up \in BOOLEAN /\ flushes = 0 /\ crashes \in Nat

Cart == group[w.cart]
Idle == w.pc = "idle"
\* buffer_generation is that of the group at work.
Numbered == w.pc \notin {"idle", "beginlog"}

\* Which group is which, and the generations.
GroupInv ==
  /\ cur = IF Idle THEN w.cart ELSE Other(w.cart)
  /\ Cart.generation = IF Numbered THEN bufgen ELSE bufgen + 1
  /\ ~Idle => group[cur].generation = Cart.generation + 1
  /\ Idle => group[Other(w.cart)].buffers = {} /\ group[Other(w.cart)].trans = {}
  /\ ~up => Idle /\ Cart.currstate = "NOT_READY"
  /\ w.pc \in {"log", "logcopy", "beginsync", "sync", "synccopy"} => w.list = w.cart
\* What a group was given.
MembersInv ==
  \A g \in Groups :
    /\ \A x \in group[g].trans : pc[x] \in Ending /\ type[x] \in Outcomes \ {"abort"}
    /\ group[g].waiters \cup group[g].syncers \subseteq group[g].trans
    /\ \A x \in group[g].waiters \cup group[g].syncers : Hard(x)
\* No descriptor is ahead of buffer_generation; a copy is an earlier state of its page.
ShadowInv ==
  /\ Numbered => 0 < bufgen
  /\ lbuf.generation <= bufgen
  /\ \A p \in DataPages : buf[p].generation <= bufgen
  /\ \A p \in DataPages : buf[p].generation # 0 => buf[p].shadow \subseteq buf[p].data

\* Where the backends are.
BackendInv ==
  \A x \in Xids :
    /\ todo[x] \subseteq Writes[x]
    /\ pc[x] \in {"modify", "register", "dirty"} => page[x] \in todo[x]
    /\ pc[x] \in Early => type[x] = None
    /\ pc[x] \in Ending => todo[x] = {} /\ type[x] \in Outcomes
    /\ pc[x] = "waiting" => Hard(x)
    /\ pc[x] \in {"status", "statusregister", "statusdirty"} => ~Hard(x)
\* Their changes are in the pages.
ChangeInv ==
  \A x \in Xids :
    /\ pc[x] # "lost" => \A p \in Writes[x] \ todo[x] : x \in buf[p].data
    /\ pc[x] \in {"register", "dirty"} => x \in buf[page[x]].data
\* Who was answered.
AckInv ==
  \A x \in acked : pc[x] \in {"done", "lost"} /\ (Hard(x) => ldisk[x] = "commit")

\* The transactions on their way to pg_log, and those already there.
Trans == IF Idle THEN {} ELSE Cart.trans
Settled == Trans \cup {x \in Xids : lbuf.data[x] = "commit"}

\* Has the DBWriter gone past page p with LogBuffers?
Passed(p) ==
  \/ w.pc = "log" /\ p < w.i
  \/ w.pc = "logcopy" /\ p <= w.i
  \/ w.pc \notin {"idle", "beginlog", "log", "logcopy"}

\* The data files trail the pages in memory.
FileInv ==
  /\ \A p \in DataPages : disk[p] \subseteq file[p] /\ file[p] \subseteq buf[p].data
  /\ w.pc \notin {"sync", "synccopy", "fsync"} => disk = file
\* A change that is not in the file is pinned.
PinInv ==
  \A p \in DataPages : \A x \in buf[p].data :
    \/ x \in file[p] \/ \E g \in Groups : p \in group[g].buffers
    \/ page[x] = p /\ pc[x] = "register"
\* The pages of a group's transactions are with that group.
CartInv ==
  \A x \in Settled : \A p \in Writes[x] : x \in file[p] \/ (~Idle /\ p \in Cart.buffers)
\* A clean page is in the file, or was logged for the group at work.
DirtyInv ==
  \A x \in Xids : pc[x] # "lost" => \A p \in Writes[x] \ todo[x] :
    buf[p].dirty \/ x \in file[p] \/ (p \in Cart.buffers /\ Passed(p))
\* How far the loops of the DBWriter are.
LoopInv ==
  /\ w.pc \in {"sync", "synccopy"} => \A p \in Cart.buffers : w.i <= p
  /\ w.pc \in {"logcopy", "synccopy"} => w.i \in DataPages /\ w.i \in Cart.buffers
  /\ w.pc \in {"fsync", "expire", "acksync", "finish"} => Cart.buffers = {}
  /\ w.pc = "logcopy" => buf[w.i].op = "log"

\* When the shadow log is in use.
LogInv ==
  /\ w.pc \notin {"log", "logcopy"} => pending = EmptyLog
  /\ w.pc \in {"idle", "beginlog", "log", "logcopy", "acksync", "finish"} => slog = EmptyLog
\* The images being appended, and those to be appended, hold the group's changes.
PendingInv ==
  w.pc \in {"log", "logcopy"} =>
    /\ DOMAIN pending \subseteq Cart.buffers
    /\ \A x \in Settled : \A p \in Writes[x] \cap DOMAIN pending : x \in pending[p]
    /\ \A x \in Settled : \A p \in Writes[x] :
         buf[p].generation = bufgen => x \in buf[p].shadow
    /\ \A x \in Trans : \A p \in Writes[x] \cap Cart.buffers :
         p < w.i => p \in DOMAIN pending \/ x \in file[p]
\* What pg_log has committed, or is about to, survives a crash.
RecoverInv ==
  \A x \in Settled :
    lbuf.data[x] = "commit" \/ w.pc \notin {"idle", "beginlog", "log", "logcopy"} =>
      \A p \in Writes[x] : Recoverable(x, p)

Recorded ==
  {"ack", "collect", "beginsync", "sync", "synccopy", "fsync", "expire", "acksync", "finish"}

\* The commit bits of the pg_log page.
BitInv ==
  /\ \A x \in Xids :
       /\ ldisk[x] = "commit" => lbuf.data[x] = "commit"
       /\ lbuf.shadow[x] = "commit" => lbuf.data[x] = "commit"
       /\ lbuf.data[x] = "commit" => type[x] \in Outcomes \ {"abort"} /\ pc[x] \in Ending
       /\ Numbered /\ lbuf.generation = bufgen /\ ldisk[x] = "commit" => lbuf.shadow[x] = "commit"
  /\ w.pc = "transflush" => \A x \in Cart.trans : lbuf.data[x] = "commit"
  /\ w.pc \in Recorded => \A x \in Cart.trans : ldisk[x] = "commit"
\* No status is set before the outcome is known.
UnsetInv ==
  \A x \in Xids : pc[x] \in Early \cup {"waiting", "status"} =>
    /\ lbuf.data[x] \in {"inprogress", "commit"} /\ ldisk[x] \in {"inprogress", "commit"}
    /\ lbuf.generation # 0 => lbuf.shadow[x] \in {"inprogress", "commit"}
\* A status that is not on disk is pinned, and registered with the next group
\* when the copy for this one was made without it.
StatusPinInv ==
  \A x \in Xids :
    /\ lbuf.data[x] # ldisk[x] =>
         \/ pc[x] = "statusregister" \/ w.pc = "transflush"
         \/ \E g \in Groups : PgLog \in group[g].buffers
    /\ Numbered /\ lbuf.generation = bufgen /\ lbuf.shadow[x] # lbuf.data[x] =>
         pc[x] = "statusregister" \/ w.pc = "transflush" \/ PgLog \in group[cur].buffers
\* Soft commits show, and only a crash cuts a transaction off.
SoftInv ==
  crashes = 0 => \A x \in Xids :
    /\ pc[x] # "lost"
    /\ type[x] = "soft" /\ pc[x] \in {"statusregister", "statusdirty", "done"} =>
         lbuf.data[x] \in {"soft", "commit"}

CommitInv ==
  /\ Types
  /\ GroupInv /\ MembersInv /\ ShadowInv
  /\ BackendInv /\ ChangeInv /\ AckInv
  /\ FileInv /\ PinInv /\ CartInv /\ DirtyInv /\ LoopInv
  /\ LogInv /\ PendingInv /\ RecoverInv
  /\ BitInv /\ UnsetInv /\ StatusPinInv /\ SoftInv
-----------------------------------------------------------------------------
(* The operations on descriptors.                                          *)

\* Only the flags differ.
SameImages(c, b) == c.data = b.data /\ c.shadow = b.shadow /\ c.generation = b.generation

\* A copy of generation gen: the one that is there, or a new one.
Copied(c, b, gen) ==
  /\ c.data = b.data /\ c.dirty = b.dirty /\ c.logged = b.logged /\ c.op = b.op
  /\ c.generation = gen
  /\ c.shadow = b.data \/ (b.generation = gen /\ c.shadow = b.shadow)

LEMMA CopyFacts ==
  ASSUME NEW D, NEW S, D \subseteq S, NEW b \in DescsOf(D, S), NEW gen \in Nat,
         b.generation <= gen
  PROVE  /\ ShadowBufferIfNeeded(b, gen, FALSE) \in DescsOf(D, S)
         /\ Copied(ShadowBufferIfNeeded(b, gen, FALSE), b, gen)
<1> DEFINE c == ShadowBufferIfNeeded(b, gen, FALSE)
<1>1. CASE b.generation < gen
  <2>1. c = [b EXCEPT !.shadow = b.data, !.generation = gen]
    BY <1>1, Zenon DEF ShadowBufferIfNeeded
  <2> QED
    BY <2>1, Zenon DEF DescsOf, Copied
<1>2. CASE ~(b.generation < gen)
  <2>1. c = b
    BY <1>2, Zenon DEF ShadowBufferIfNeeded
  <2>2. b.generation \in Nat
    BY Zenon DEF DescsOf
  <2>3. b.generation = gen
    BY <2>2, <1>2
  <2> QED
    BY <2>1, <2>3, Zenon DEF Copied
<1> QED
  BY <1>1, <1>2, Zenon

\* A flush always copies.
LEMMA FlushFacts ==
  ASSUME NEW D, NEW S, D \subseteq S, NEW b \in DescsOf(D, S), NEW gen \in Nat,
         b.generation <= gen
  PROVE  /\ ShadowBufferIfNeeded(b, gen, TRUE) \in DescsOf(D, S)
         /\ Copied(ShadowBufferIfNeeded(b, gen, TRUE), b, gen)
         /\ ShadowBufferIfNeeded(b, gen, TRUE).shadow = b.data
<1> DEFINE c == ShadowBufferIfNeeded(b, gen, TRUE)
<1>1. b.generation \in Nat
  BY Zenon DEF DescsOf
<1>2. b.generation < gen \/ b.generation = gen
  BY <1>1
<1>3. c = [b EXCEPT !.shadow = b.data, !.generation = gen]
  BY <1>2, Zenon DEF ShadowBufferIfNeeded
<1> QED
  BY <1>3, Zenon DEF DescsOf, Copied

LEMMA LogFlagFacts ==
  ASSUME NEW D, NEW S, NEW b \in DescsOf(D, S)
  PROVE  /\ LogBufferIO(b) \in DescsOf(D, S) /\ SameImages(LogBufferIO(b), b)
         /\ ~LogBufferIO(b).dirty /\ (b.dirty => LogBufferIO(b).op = "log")
BY Zenon DEF LogBufferIO, DescsOf, SameImages, Ops

LEMMA WriteFlagFacts ==
  ASSUME NEW D, NEW S, NEW b \in DescsOf(D, S), NEW mode
  PROVE  WriteBufferIO(b, mode) \in DescsOf(D, S) /\ SameImages(WriteBufferIO(b, mode), b)
BY Zenon DEF WriteBufferIO, DescsOf, SameImages, Ops

LEMMA DirtyFlagFacts ==
  ASSUME NEW D, NEW S, NEW b \in DescsOf(D, S)
  PROVE  /\ DirtyBufferIO(b) \in DescsOf(D, S) /\ SameImages(DirtyBufferIO(b), b)
         /\ DirtyBufferIO(b).dirty /\ DirtyBufferIO(b).op = b.op
BY Zenon DEF DirtyBufferIO, DescsOf, SameImages, Ops

LEMMA TerminateFacts ==
  ASSUME NEW D, NEW S, NEW b \in DescsOf(D, S)
  PROVE  /\ TerminateBufferIO(b) \in DescsOf(D, S) /\ SameImages(TerminateBufferIO(b), b)
         /\ TerminateBufferIO(b).dirty = b.dirty
BY Zenon DEF TerminateBufferIO, DescsOf, SameImages, Ops

-----------------------------------------------------------------------------
(* Frames.                                                                 *)

\* A step that leaves the DBWriter where it is and gives nothing to the group
\* it works for.
Aside ==
  /\ UNCHANGED <<w, cur, bufgen>>
  /\ \A g \in Groups : g # cur => group'[g] = group[g]
  /\ \A x \in Xids : lbuf'.data[x] = "commit" <=> lbuf.data[x] = "commit"

LEMMA AsideFrame ==
  ASSUME Types, GroupInv, Aside
  PROVE  /\ Idle' = Idle /\ Numbered' = Numbered /\ (~Idle => Cart' = Cart)
         /\ Trans' = Trans /\ Settled' = Settled
         /\ \A p \in DataPages : Passed(p)' = Passed(p)
<1>1. w.cart \in Groups /\ (~Idle => w.cart # cur)
  BY DEF Types, Writers, GroupInv, Groups, Other
<1>2. w' = w /\ Idle' = Idle /\ Numbered' = Numbered
  BY Zenon DEF Aside, Idle, Numbered
<1>3. ~Idle => Cart' = Cart
  BY <1>1, <1>2, Zenon DEF Aside, Cart
<1>4. Trans' = Trans
  BY <1>2, <1>3, Zenon DEF Trans
<1>5. Settled' = Settled
  BY <1>4, Zenon DEF Settled, Aside
<1> QED
  BY <1>2, <1>3, <1>4, <1>5, Zenon DEF Passed

\* The changes of a transaction that is in pg_log, or on its way there, are in
\* the pages.
LEMMA SettledDone ==
  ASSUME CommitInv
  PROVE  \A x \in Settled :
           /\ x \in Xids /\ pc[x] \in Ending /\ todo[x] = {} /\ type[x] \in Outcomes \ {"abort"}
           /\ \A p \in Writes[x] : p \in DataPages /\ x \in buf[p].data
<1> SUFFICES ASSUME NEW x \in Settled
             PROVE  /\ x \in Xids /\ pc[x] \in Ending /\ todo[x] = {} /\ type[x] \in Outcomes \ {"abort"}
                    /\ \A p \in Writes[x] : p \in DataPages /\ x \in buf[p].data
  BY Zenon
<1>1. w.cart \in Groups /\ group[w.cart].trans \subseteq Xids
  BY Zenon DEF CommitInv, Types, Writers, WriteGroups
<1>2. x \in Xids /\ pc[x] \in Ending /\ type[x] \in Outcomes \ {"abort"}
  BY <1>1, Zenon DEF CommitInv, Settled, Trans, Cart, MembersInv, BitInv
<1>3. todo[x] = {} /\ pc[x] # "lost"
  BY <1>2, Zenon DEF CommitInv, BackendInv, Ending
<1> QED
  BY <1>2, <1>3, SizeAssumption, Zenon DEF CommitInv, ChangeInv

\* One descriptor, or one group, is replaced.
LEMMA PutPage ==
  ASSUME Types, NEW p \in DataPages, NEW c \in Descs, buf' = [buf EXCEPT ![p] = c]
  PROVE  /\ buf' \in [DataPages -> Descs] /\ buf'[p] = c
         /\ \A q \in DataPages : q # p => buf'[q] = buf[q]
BY Zenon DEF Types

LEMMA PutGroup ==
  ASSUME Types, NEW g \in Groups, NEW c \in WriteGroups, group' = [group EXCEPT ![g] = c]
  PROVE  /\ group' \in [Groups \cup {Sync} -> WriteGroups] /\ group'[Sync] = group[Sync]
         /\ group'[g] = c /\ \A h \in Groups : h # g => group'[h] = group[h]
<1>1. g # Sync /\ Sync \in Groups \cup {Sync}
  BY DEF Groups, Sync
<1> QED
  BY <1>1, Zenon DEF Types

\* Nobody leaves a group, and its members stay what they are.
LEMMA MembersFrame ==
  ASSUME Types, MembersInv,
         \A g \in Groups : /\ group'[g].trans = group[g].trans
                           /\ group'[g].waiters = group[g].waiters
                           /\ group'[g].syncers = group[g].syncers,
         \A y \in Xids : pc[y] \in Ending => pc'[y] \in Ending /\ type'[y] = type[y]
  PROVE  MembersInv'
<1>1. \A g \in Groups : group[g].trans \subseteq Xids
  BY Zenon DEF Types, WriteGroups
<1>2. \A g \in Groups : \A x \in group[g].trans : x \in Xids /\ pc[x] \in Ending
  BY <1>1, Zenon DEF MembersInv
<1> QED
  BY <1>2, Zenon DEF MembersInv, Hard

\* Changes stay in the pages.
LEMMA ChangeFrame ==
  ASSUME CommitInv, \A q \in DataPages : buf[q].data \subseteq buf'[q].data,
         \A y \in Xids :
           /\ pc'[y] # "lost" => pc[y] # "lost" /\ todo'[y] = todo[y]
           /\ pc'[y] \in {"register", "dirty"} => pc[y] \in {"register", "dirty"} /\ page'[y] = page[y]
  PROVE  ChangeInv'
<1> SUFFICES ASSUME NEW y \in Xids
             PROVE  /\ pc'[y] # "lost" => \A q \in Writes[y] \ todo'[y] : y \in buf'[q].data
                    /\ pc'[y] \in {"register", "dirty"} => y \in buf'[page'[y]].data
  BY Zenon DEF ChangeInv
<1>1. Writes[y] \subseteq DataPages
  BY SizeAssumption, Zenon
<1>2. pc[y] \in {"register", "dirty"} => page[y] \in DataPages
  BY <1>1, Zenon DEF CommitInv, BackendInv
<1> QED
  BY <1>1, <1>2, Zenon DEF CommitInv, ChangeInv

\* Pins are not given up, and no page gains a change.
LEMMA PinFrame ==
  ASSUME Types, PinInv, file' = file, \A q \in DataPages : buf'[q].data = buf[q].data,
         \A g \in Groups : group[g].buffers \subseteq group'[g].buffers,
         \A y \in Xids : pc[y] = "register" => page'[y] = page[y] /\ pc'[y] = "register"
  PROVE  PinInv'
<1>1. \A q \in DataPages : buf[q].data \subseteq Xids
  BY Zenon DEF Types, Descs, DescsOf
<1> QED
  BY <1>1 DEF PinInv

\* The images of the group being logged are kept.
LEMMA PendingFrame ==
  ASSUME CommitInv, UNCHANGED <<w, bufgen, pending, file>>, Settled' = Settled, Trans' = Trans,
         ~Idle => Cart' = Cart,
         \A q \in DataPages : buf'[q].generation = bufgen /\ Numbered =>
           \/ buf'[q].shadow = buf[q].data
           \/ buf'[q].shadow = buf[q].shadow /\ buf[q].generation = bufgen
  PROVE  PendingInv'
<1> SUFFICES ASSUME w.pc \in {"log", "logcopy"}
             PROVE  PendingInv'
  BY Zenon DEF PendingInv
<1>1. ~Idle /\ Numbered
  BY Zenon DEF Idle, Numbered
<1>2. \A x \in Settled : \A p \in Writes[x] : buf'[p].generation = bufgen => x \in buf'[p].shadow
  BY <1>1, SettledDone, Zenon DEF CommitInv, PendingInv
<1> QED
  BY <1>1, <1>2, Zenon DEF CommitInv, PendingInv
-----------------------------------------------------------------------------
(* Backends.                                                               *)

LEMMA FetchKeeps ==
  ASSUME CommitInv, NEW x \in Xids, NEW p \in DataPages, Fetch(x, p)
  PROVE  CommitInv' /\ \A q \in DataPages : buf[q].data \subseteq buf'[q].data
<1> USE DEF CommitInv
<1>1. /\ pc[x] = "work" /\ p \in todo[x] /\ pc' = [pc EXCEPT ![x] = "modify"]
      /\ page' = [page EXCEPT ![x] = p]
      /\ UNCHANGED <<lbuf, file, disk, ldisk, slog, pending, group, cur, w, s, bufgen, syncBuffers, todo,
                     type, acked, up, flushes, crashes>>
  BY Zenon DEF Fetch, fileVars, writerVars, boundVars
<1>2. /\ buf' \in [DataPages -> Descs]
      /\ \A q \in DataPages :
           /\ buf'[q].data = buf[q].data /\ buf'[q].dirty = buf[q].dirty
           /\ buf'[q].op = buf[q].op /\ buf'[q].generation <= bufgen
           /\ \/ buf'[q].shadow = buf[q].shadow /\ buf'[q].generation = buf[q].generation
              \/ buf'[q].shadow = buf[q].data /\ buf'[q].generation = bufgen
  <2> DEFINE c == BufferGetBlock(buf[p], bufgen)
  <2>1. buf[p] \in DescsOf(SUBSET Xids, Images) /\ bufgen \in Nat /\ buf[p].generation <= bufgen
    BY Zenon DEF Types, ShadowInv, Descs
  <2>2. SUBSET Xids \subseteq Images
    BY Zenon DEF Images
  <2>3. c \in Descs /\ Copied(c, buf[p], bufgen)
    BY <2>1, <2>2, CopyFacts, Zenon DEF Descs, BufferGetBlock
  <2>4. c.generation <= bufgen
    BY <2>1, <2>3 DEF Copied
  <2> HIDE DEF c
  <2>5. buf' = [buf EXCEPT ![p] = c]
    BY Zenon DEF Fetch, c
  <2> QED
    BY <2>3, <2>4, <2>5, Zenon DEF Types, ShadowInv, Copied
<1>3. /\ Idle' = Idle /\ Numbered' = Numbered /\ Cart' = Cart /\ Trans' = Trans /\ Settled' = Settled
      /\ \A q \in DataPages : Passed(q)' = Passed(q)
  BY <1>1, Zenon DEF Idle, Numbered, Cart, Trans, Settled, Passed
<1>4. Types'
  BY <1>1, <1>2, Zenon DEF Types, Early
<1>5. GroupInv'
  BY <1>1, <1>3, Zenon DEF GroupInv
<1>6. MembersInv'
  BY <1>1, MembersFrame, Zenon DEF Types, Ending
<1>7. ShadowInv'
  BY <1>1, <1>2, <1>3, Zenon DEF ShadowInv
<1>8. BackendInv'
  BY <1>1, Zenon DEF BackendInv, Types, Hard, Early, Ending
<1>9. ChangeInv'
  BY <1>1, <1>2, ChangeFrame, Zenon DEF Types
<1>10. AckInv' 
  BY <1>1, Zenon DEF AckInv, Types, Hard
<1>11. FileInv'
  BY <1>1, <1>2, Zenon DEF FileInv
<1>12. PinInv'
  BY <1>1, <1>2, PinFrame, Zenon DEF Types
<1>13. CartInv'
  BY <1>1, <1>3, ZenonT(60) DEF CartInv
<1>14. DirtyInv'
  BY <1>1, <1>2, <1>3, SizeAssumption, ZenonT(60) DEF DirtyInv, Types
<1>15. LoopInv'
  BY <1>1, <1>2, <1>3, Zenon DEF LoopInv
<1>16. LogInv'
  BY <1>1, Zenon DEF LogInv
<1>17. PendingInv'
  BY <1>1, <1>2, <1>3, PendingFrame, Zenon
<1>18. RecoverInv'
  BY <1>1, <1>3, Zenon DEF RecoverInv, Recoverable
<1>19. BitInv'
  BY <1>1, <1>3, Zenon DEF BitInv, Types, Ending
<1>20. UnsetInv'
  BY <1>1, Zenon DEF UnsetInv, Types, Early
<1>21. StatusPinInv'
  BY <1>1, <1>3, Zenon DEF StatusPinInv, Types
<1>22. SoftInv'
  BY <1>1, Zenon DEF SoftInv, Types
<1>23. \A q \in DataPages : buf[q].data \subseteq buf'[q].data
  BY <1>2, Zenon
<1> QED
  BY <1>4, <1>5, <1>6, <1>7, <1>8, <1>9, <1>10, <1>11, <1>12, <1>13, <1>14, <1>15, <1>16, <1>17, <1>18, ZenonT(60),
     <1>19, <1>20, <1>21, <1>22, <1>23, Zenon

LEMMA ModifyKeeps ==
  ASSUME CommitInv, NEW x \in Xids, Modify(x)
  PROVE  CommitInv' /\ \A q \in DataPages : buf[q].data \subseteq buf'[q].data
<1> USE DEF CommitInv
<1>1. /\ pc[x] = "modify" /\ pc' = [pc EXCEPT ![x] = "register"]
      /\ UNCHANGED <<lbuf, file, disk, ldisk, slog, pending, group, cur, w, s, bufgen, syncBuffers, todo,
                     page, type, acked, up, flushes, crashes>>
  BY Zenon DEF Modify, fileVars, writerVars, workVars, boundVars
<1> PICK p \in DataPages : page[x] = p /\ p \in todo[x]
  BY <1>1, Zenon DEF BackendInv, Types
<1>2. /\ buf' \in [DataPages -> Descs]
      /\ \A q \in DataPages :
           /\ buf'[q].dirty = buf[q].dirty /\ buf'[q].op = buf[q].op
           /\ buf'[q].shadow = buf[q].shadow /\ buf'[q].generation = buf[q].generation
           /\ buf'[q].data = IF q = p THEN buf[q].data \cup {x} ELSE buf[q].data
  <2>1. buf[p] \in Descs
    BY Zenon DEF Types
  <2> DEFINE c == [buf[p] EXCEPT !.data = @ \cup {x}]
  <2>2. buf' = [buf EXCEPT ![p] = c]
    BY Zenon DEF Modify
  <2>3. buf[p].data \cup {x} \in SUBSET Xids
    BY <2>1, Zenon DEF Descs, DescsOf
  <2>4. /\ c \in Descs /\ c.dirty = buf[p].dirty /\ c.op = buf[p].op /\ c.shadow = buf[p].shadow
        /\ c.generation = buf[p].generation /\ c.data = buf[p].data \cup {x}
    BY <2>1, <2>3, Zenon DEF Descs, DescsOf
  <2> HIDE DEF c
  <2> QED
    BY <2>2, <2>4, PutPage, Zenon
<1>3. /\ Idle' = Idle /\ Numbered' = Numbered /\ Cart' = Cart /\ Trans' = Trans /\ Settled' = Settled
      /\ \A q \in DataPages : Passed(q)' = Passed(q)
  BY <1>1, Zenon DEF Idle, Numbered, Cart, Trans, Settled, Passed
<1>4. Types'
  BY <1>1, <1>2, Zenon DEF Types, Early
<1>5. GroupInv' /\ CartInv' /\ LogInv'
  BY <1>1, <1>3, Zenon DEF GroupInv, CartInv, LogInv
<1>6. MembersInv'
  BY <1>1, MembersFrame, Zenon DEF Types, Ending
<1>7. ShadowInv'
  BY <1>1, <1>2, <1>3, Zenon DEF ShadowInv
<1>8. BackendInv'
  BY <1>1, Zenon DEF BackendInv, Types, Hard, Early, Ending
<1>9. ChangeInv'
  <2> SUFFICES ASSUME NEW y \in Xids
               PROVE  /\ pc'[y] # "lost" => \A q \in Writes[y] \ todo[y] : y \in buf'[q].data
                      /\ pc'[y] \in {"register", "dirty"} => y \in buf'[page[y]].data
    BY <1>1, Zenon DEF ChangeInv
  <2>1. \A q \in DataPages : buf[q].data \subseteq buf'[q].data
    BY <1>2, Zenon
  <2>2. Writes[y] \subseteq DataPages /\ (pc'[y] # "lost" => pc[y] # "lost")
    BY <1>1, SizeAssumption, Zenon DEF Types
  <2>3. pc'[y] \in {"register", "dirty"} =>
          (y = x /\ page[y] = p) \/ (pc'[y] = pc[y] /\ page[y] \in DataPages)
    BY <1>1, Zenon DEF Types, BackendInv
  <2>4. x \in buf'[p].data
    BY <1>2, Zenon
  <2> QED
    BY <2>1, <2>2, <2>3, <2>4, SizeAssumption, Zenon DEF ChangeInv
<1>10. AckInv'
  BY <1>1, Zenon DEF AckInv, Types, Hard
<1>11. FileInv'
  BY <1>1, <1>2, ZenonT(60) DEF FileInv
<1>12. PinInv'
  <2> SUFFICES ASSUME NEW q \in DataPages, NEW y \in buf'[q].data
               PROVE  \/ y \in file[q] \/ \E g \in Groups : q \in group[g].buffers
                      \/ page[y] = q /\ pc'[y] = "register"
    BY <1>1 DEF PinInv
  <2>1. CASE y = x /\ q = p
    BY <2>1, <1>1, Zenon DEF Types
  <2>2. CASE y \in buf[q].data
    BY <2>2, <1>1 DEF Types, PinInv
  <2>3. buf'[q].data = IF q = p THEN buf[q].data \cup {x} ELSE buf[q].data
    BY <1>2, ZenonT(60)
  <2> QED
    BY <2>1, <2>2, <2>3, Zenon
<1>14. DirtyInv'
  BY <1>1, <1>2, <1>3, SizeAssumption, ZenonT(60) DEF DirtyInv, Types
<1>15. LoopInv'
  BY <1>1, <1>2, <1>3, Zenon DEF LoopInv
<1>17. PendingInv'
  BY <1>1, <1>2, <1>3, PendingFrame, Zenon
<1>18. RecoverInv'
  BY <1>1, <1>3, Zenon DEF RecoverInv, Recoverable
<1>19. BitInv'
  BY <1>1, <1>3, Zenon DEF BitInv, Types, Ending
<1>20. UnsetInv'
  BY <1>1, Zenon DEF UnsetInv, Types, Early
<1>21. StatusPinInv'
  BY <1>1, <1>3, Zenon DEF StatusPinInv, Types
<1>22. SoftInv'
  BY <1>1, Zenon DEF SoftInv, Types
<1>23. \A q \in DataPages : buf[q].data \subseteq buf'[q].data
  BY <1>2, ZenonT(60)
<1> QED
  BY <1>4, <1>5, <1>6, <1>7, <1>8, <1>9, <1>10, <1>11, <1>12, <1>14, <1>15, <1>17, <1>18, ZenonT(60),
     <1>19, <1>20, <1>21, <1>22, <1>23, Zenon

LEMMA RegisterKeeps ==
  ASSUME CommitInv, NEW x \in Xids, Register(x)
  PROVE  CommitInv'
<1> USE DEF CommitInv
<1>1. /\ pc[x] = "register" /\ pc' = [pc EXCEPT ![x] = "dirty"]
      /\ UNCHANGED <<buf, lbuf, file, disk, ldisk, slog, pending, cur, w, s, bufgen, syncBuffers, todo,
                     page, type, acked, up, flushes, crashes>>
  BY Zenon DEF Register, poolVars, fileVars, writerVars, workVars, boundVars
<1> PICK p \in DataPages : page[x] = p /\ p \in todo[x]
  BY <1>1, Zenon DEF BackendInv, Types
<1>2. /\ group' \in [Groups \cup {Sync} -> WriteGroups] /\ group'[Sync] = group[Sync]
      /\ \A g \in Groups :
           /\ g # cur => group'[g] = group[g]
           /\ group'[g].trans = group[g].trans /\ group'[g].waiters = group[g].waiters
           /\ group'[g].syncers = group[g].syncers /\ group'[g].generation = group[g].generation
           /\ group'[g].currstate = group[g].currstate
           /\ group'[g].buffers = IF g = cur THEN group[g].buffers \cup {p} ELSE group[g].buffers
  <2> DEFINE c == [group[cur] EXCEPT !.buffers = @ \cup {p}]
  <2>1. group[cur] \in WriteGroups /\ cur \in Groups
    BY Zenon DEF Types
  <2>2. group' = [group EXCEPT ![cur] = c]
    BY Zenon DEF Register
  <2>3. group[cur].buffers \cup {p} \in SUBSET (DataPages \cup {PgLog})
    BY <2>1, Zenon DEF WriteGroups
  <2>4. /\ c \in WriteGroups /\ c.trans = group[cur].trans /\ c.waiters = group[cur].waiters
        /\ c.syncers = group[cur].syncers /\ c.generation = group[cur].generation
        /\ c.currstate = group[cur].currstate /\ c.buffers = group[cur].buffers \cup {p}
    BY <2>1, <2>3, Zenon DEF WriteGroups
  <2> HIDE DEF c
  <2> QED
    BY <2>1, <2>2, <2>4, PutGroup, Zenon
<1>3. Aside
  BY <1>1, <1>2, Zenon DEF Aside
<1>4. /\ Idle' = Idle /\ Numbered' = Numbered /\ (~Idle => Cart' = Cart)
      /\ Trans' = Trans /\ Settled' = Settled
      /\ \A q \in DataPages : Passed(q)' = Passed(q) /\ (Idle => ~Passed(q))
  BY <1>3, AsideFrame, Zenon DEF Passed, Idle
<1>5. Types'
  BY <1>1, <1>2, ZenonT(60) DEF Types, Early
<1>6. GroupInv'
  BY <1>1, <1>2, <1>4 DEF GroupInv, Cart, Types, Writers, Groups, Other
<1>7. MembersInv'
  BY <1>1, <1>2, MembersFrame, Zenon DEF Types, Ending
<1>8. ShadowInv' /\ FileInv' /\ CartInv'
  BY <1>1, <1>4, Zenon DEF ShadowInv, FileInv, CartInv
<1>9. BackendInv'
  BY <1>1, Zenon DEF BackendInv, Types, Hard, Early, Ending
<1>10. ChangeInv'
  BY <1>1, Zenon DEF ChangeInv, Types
<1>11. AckInv'
  BY <1>1, Zenon DEF AckInv, Types, Hard
<1>12. PinInv'
  <2> SUFFICES ASSUME NEW q \in DataPages, NEW y \in buf[q].data
               PROVE  \/ y \in file[q] \/ \E g \in Groups : q \in group'[g].buffers
                      \/ page[y] = q /\ pc'[y] = "register"
    BY <1>1 DEF PinInv
  <2>1. cur \in Groups /\ p \in group'[cur].buffers
    BY <1>2, Zenon DEF Types
  <2>2. CASE y = x /\ page[y] = q
    BY <2>1, <2>2, Zenon
  <2>3. CASE y # x
    <3>1. y \in Xids
      BY Zenon DEF Types, Descs, DescsOf
    <3>2. pc'[y] = pc[y]
      BY <2>3, <3>1, <1>1, Zenon DEF Types
    <3>3. \A g \in Groups : group[g].buffers \subseteq group'[g].buffers
      BY <1>2, Zenon
    <3> QED
      BY <3>2, <3>3, Zenon DEF PinInv
  <2>4. CASE page[y] # q
    BY <2>4, <1>1, <1>2, ZenonT(60) DEF PinInv
  <2> QED
    BY <2>2, <2>3, <2>4, Zenon
<1>13. DirtyInv'
  BY <1>1, <1>4, SizeAssumption, Zenon DEF DirtyInv, Types
<1>14. LoopInv' /\ LogInv' /\ PendingInv' /\ RecoverInv'
  BY <1>1, <1>4, Zenon DEF LoopInv, LogInv, PendingInv, RecoverInv, Recoverable, Idle
<1>15. BitInv'
  BY <1>1, <1>4, Zenon DEF BitInv, Types, Ending, Idle, Recorded
<1>16. UnsetInv'
  BY <1>1, ZenonT(60) DEF UnsetInv, Types, Early
<1>17. StatusPinInv'
  BY <1>1, <1>2, <1>4, ZenonT(60) DEF StatusPinInv, Types
<1>18. SoftInv'
  BY <1>1, Zenon DEF SoftInv, Types
<1> QED
  BY <1>5, <1>6, <1>7, <1>8, <1>9, <1>10, <1>11, <1>12, <1>13, <1>14, <1>15, <1>16, <1>17, <1>18, Zenon

LEMMA MarkDirtyKeeps ==
  ASSUME CommitInv, NEW x \in Xids, MarkDirty(x)
  PROVE  CommitInv' /\ \A q \in DataPages : buf[q].data \subseteq buf'[q].data
<1> USE DEF CommitInv
<1>1. /\ pc[x] = "dirty" /\ pc' = [pc EXCEPT ![x] = "work"]
      /\ UNCHANGED <<lbuf, file, disk, ldisk, slog, pending, group, cur, w, s, bufgen, syncBuffers,
                     type, acked, up, flushes, crashes>>
  BY Zenon DEF MarkDirty, fileVars, writerVars, boundVars
<1> PICK p \in DataPages : page[x] = p /\ p \in todo[x]
  BY <1>1, Zenon DEF BackendInv, Types
<1>2. todo' = [todo EXCEPT ![x] = @ \ {p}] /\ page' = [page EXCEPT ![x] = None]
  BY Zenon DEF MarkDirty
<1>3. /\ buf' \in [DataPages -> Descs]
      /\ \A q \in DataPages :
           /\ buf'[q].op = buf[q].op /\ buf'[q].shadow = buf[q].shadow
           /\ buf'[q].generation = buf[q].generation /\ buf'[q].data = buf[q].data
           /\ q # p => buf'[q].dirty = buf[q].dirty
      /\ buf'[p].dirty
  <2>1. buf[p] \in DescsOf(SUBSET Xids, Images)
    BY Zenon DEF Types, Descs
  <2> DEFINE c == DirtyBufferIO(buf[p])
  <2>2. c \in Descs /\ SameImages(c, buf[p]) /\ c.dirty /\ c.op = buf[p].op
    BY <2>1, DirtyFlagFacts, Zenon DEF Descs
  <2>3. buf' = [buf EXCEPT ![p] = c]
    BY Zenon DEF MarkDirty
  <2> HIDE DEF c
  <2> QED
    BY <2>2, <2>3, PutPage, Zenon DEF SameImages
<1>4. /\ Idle' = Idle /\ Numbered' = Numbered /\ Cart' = Cart /\ Trans' = Trans /\ Settled' = Settled
      /\ \A q \in DataPages : Passed(q)' = Passed(q)
  BY <1>1, Zenon DEF Idle, Numbered, Cart, Trans, Settled, Passed
<1>5. Types'
  BY <1>1, <1>2, <1>3, Zenon DEF Types, Early
<1>6. GroupInv' /\ CartInv' /\ LogInv' /\ RecoverInv'
  BY <1>1, <1>4, Zenon DEF GroupInv, CartInv, LogInv, RecoverInv, Recoverable
<1>7. MembersInv'
  BY <1>1, MembersFrame, Zenon DEF Types, Ending
<1>8. ShadowInv' /\ FileInv' /\ LoopInv'
  BY <1>1, <1>3, <1>4, ZenonT(60) DEF ShadowInv, FileInv, LoopInv
<1>9. BackendInv'
  BY <1>1, <1>2, Zenon DEF BackendInv, Types, Hard, Early, Ending
<1>10. ChangeInv'
  <2> SUFFICES ASSUME NEW y \in Xids
               PROVE  /\ pc'[y] # "lost" => \A q \in Writes[y] \ todo'[y] : y \in buf'[q].data
                      /\ pc'[y] \in {"register", "dirty"} => y \in buf'[page'[y]].data
    BY Zenon DEF ChangeInv
  <2>1. \A q \in DataPages : buf'[q].data = buf[q].data
    BY <1>3, Zenon
  <2>2. Writes[y] \subseteq DataPages
    BY SizeAssumption, Zenon
  <2>3. x \in buf[p].data /\ pc[x] # "lost"
    BY <1>1, Zenon DEF ChangeInv
  <2>4. CASE y = x
    <3>1. pc'[y] = "work" /\ todo'[y] = todo[x] \ {p}
      BY <2>4, <1>1, <1>2, Zenon DEF Types
    <3> QED
      BY <3>1, <2>1, <2>2, <2>3, <2>4, Zenon DEF ChangeInv
  <2>5. CASE y # x
    <3>1. pc'[y] = pc[y] /\ todo'[y] = todo[y] /\ page'[y] = page[y]
      BY <2>5, <1>1, <1>2, Zenon DEF Types
    <3>2. pc[y] \in {"register", "dirty"} => page[y] \in DataPages
      BY <2>2, Zenon DEF BackendInv
    <3> QED
      BY <3>1, <3>2, <2>1, <2>2, Zenon DEF ChangeInv
  <2> QED
    BY <2>4, <2>5, Zenon
<1>11. AckInv'
  BY <1>1, Zenon DEF AckInv, Types, Hard
<1>12. PinInv'
  BY <1>1, <1>2, <1>3, PinFrame, Zenon DEF Types
<1>13. DirtyInv'
  <2> SUFFICES ASSUME NEW y \in Xids, pc'[y] # "lost", NEW q \in Writes[y] \ todo'[y], q # p
               PROVE  buf[q].dirty \/ y \in file[q] \/ (q \in Cart.buffers /\ Passed(q))
    BY <1>1, <1>3, <1>4, SizeAssumption DEF DirtyInv
  <2>1. pc[y] # "lost" /\ q \in Writes[y] \ todo[y]
    BY <1>1, <1>2, Zenon DEF Types
  <2> QED
    BY <2>1, ZenonT(60) DEF DirtyInv
<1>14. PendingInv'
  BY <1>1, <1>3, <1>4, PendingFrame, Zenon
<1>15. BitInv'
  BY <1>1, <1>4, Zenon DEF BitInv, Types, Ending
<1>16. UnsetInv'
  BY <1>1, Zenon DEF UnsetInv, Types, Early
<1>17. StatusPinInv'
  BY <1>1, <1>4, Zenon DEF StatusPinInv, Types
<1>18. SoftInv'
  BY <1>1, Zenon DEF SoftInv, Types
<1>19. \A q \in DataPages : buf[q].data \subseteq buf'[q].data
  BY <1>3, Zenon
<1> QED
  BY <1>5, <1>6, <1>7, <1>8, <1>9, <1>10, <1>11, <1>12, <1>13, <1>14, <1>15, <1>16, <1>17, <1>18, <1>19, Zenon

LEMMA CommitKeeps ==
  ASSUME CommitInv, NEW x \in Xids, NEW t \in CommitTypes[x], Commit(x, t)
  PROVE  CommitInv'
<1> USE DEF CommitInv
<1>1. /\ up /\ pc[x] = "work" /\ todo[x] = {} /\ type' = [type EXCEPT ![x] = t]
      /\ pc' = [pc EXCEPT ![x] = IF t \in {"careful", "synced"} THEN "waiting" ELSE "status"]
      /\ UNCHANGED <<buf, lbuf, file, disk, ldisk, slog, pending, cur, w, s, bufgen, syncBuffers, todo,
                     page, acked, up, flushes, crashes>>
  BY Zenon DEF Commit, poolVars, fileVars, writerVars, boundVars
<1>2. t \in Outcomes /\ (pc'[x] = "waiting" \/ pc'[x] = "status") /\ type'[x] = t
  BY <1>1, SizeAssumption, Zenon DEF Outcomes, Types
<1>3. /\ group' \in [Groups \cup {Sync} -> WriteGroups] /\ group'[Sync] = group[Sync]
      /\ \A g \in Groups :
           /\ g # cur => group'[g] = group[g]
           /\ group'[g].buffers = group[g].buffers /\ group'[g].generation = group[g].generation
           /\ \A y \in group'[g].trans : y \in group[g].trans \/ (y = x /\ t # "abort")
           /\ group[g].trans \subseteq group'[g].trans
           /\ \A y \in group'[g].waiters \cup group'[g].syncers :
                \/ y \in group[g].waiters \cup group[g].syncers
                \/ y = x /\ x \in group'[g].trans /\ t \in {"careful", "synced"}
  <2>1. CASE t = "abort"
    <3>1. group' = group
      BY <2>1, Zenon DEF Commit
    <3> QED
      BY <3>1, Zenon DEF Types
  <2>2. CASE t # "abort"
    <3>1. group[cur] \in WriteGroups /\ cur \in Groups
      BY Zenon DEF Types
    <3> DEFINE c == [group[cur] EXCEPT !.trans = @ \cup {x},
                       !.waiters = IF t = "careful" THEN @ \cup {x} ELSE @,
                       !.syncers = IF t = "synced" THEN @ \cup {x} ELSE @,
                       !.loggable = @ /\ t # "synced",
                       !.currstate = Signal(@)]
    <3>2. group' = [group EXCEPT ![cur] = c]
      BY <2>2, <3>1, Zenon DEF Commit, Types
    <3>3. /\ c \in WriteGroups /\ c.buffers = group[cur].buffers
          /\ c.generation = group[cur].generation /\ c.trans = group[cur].trans \cup {x}
          /\ c.waiters = (IF t = "careful" THEN group[cur].waiters \cup {x} ELSE group[cur].waiters)
          /\ c.syncers = (IF t = "synced" THEN group[cur].syncers \cup {x} ELSE group[cur].syncers)
      BY <3>1, ZenonT(60) DEF WriteGroups, Signal
    <3> HIDE DEF c
    <3>4. /\ group' \in [Groups \cup {Sync} -> WriteGroups] /\ group'[Sync] = group[Sync]
          /\ group'[cur] = c /\ \A g \in Groups : g # cur => group'[g] = group[g]
      BY <3>1, <3>2, <3>3, PutGroup, Zenon
    <3> QED
      BY <3>1, <3>3, <3>4, <2>2
  <2> QED
    BY <2>1, <2>2, Zenon
<1>4. Aside
  BY <1>1, <1>3, Zenon DEF Aside
<1>5. /\ Idle' = Idle /\ Numbered' = Numbered /\ (~Idle => Cart' = Cart)
      /\ Trans' = Trans /\ Settled' = Settled
      /\ \A q \in DataPages : Passed(q)' = Passed(q) /\ (Idle => ~Passed(q))
  BY <1>4, AsideFrame, Zenon DEF Passed, Idle
<1>6. Types'
  BY <1>1, <1>2, <1>3, Zenon DEF Types, Ending
<1>7. GroupInv'
  BY <1>1, <1>3, <1>5 DEF GroupInv, Cart, Types, Writers, Groups, Other
<1>8. MembersInv'
  <2>1. \A g \in Groups : \A y \in group[g].trans : y \in Xids /\ y # x
    BY <1>1, Zenon DEF MembersInv, Ending, Types, WriteGroups
  <2>2. \A y \in Xids : y # x => pc'[y] = pc[y] /\ type'[y] = type[y]
    BY <1>1, Zenon DEF Types
  <2>3. pc'[x] \in Ending /\ type'[x] = t
    BY <1>2, Zenon DEF Ending
  <2> QED
    BY <1>2, <1>3, <2>1, <2>2, <2>3 DEF MembersInv, Hard
<1>9. ShadowInv' /\ FileInv' /\ CartInv'
  BY <1>1, <1>5, Zenon DEF ShadowInv, FileInv, CartInv
<1>10. BackendInv'
  BY <1>1, <1>2 DEF BackendInv, Types, Hard, Early, Ending, Outcomes
<1>11. ChangeInv'
  BY <1>1, <1>2, ChangeFrame, Zenon DEF Types
<1>12. AckInv'
  BY <1>1, Zenon DEF AckInv, Types, Hard
<1>13. PinInv'
  BY <1>1, <1>3, PinFrame, Zenon DEF Types
<1>14. DirtyInv'
  BY <1>1, <1>5, SizeAssumption, Zenon DEF DirtyInv, Types
<1>15. LoopInv' /\ LogInv' /\ PendingInv' /\ RecoverInv'
  BY <1>1, <1>5, Zenon DEF LoopInv, LogInv, PendingInv, RecoverInv, Recoverable, Idle
<1>16. BitInv'
  BY <1>1, <1>5, ZenonT(60) DEF BitInv, Types, Ending, Idle, Recorded
<1>17. UnsetInv'
  BY <1>1, Zenon DEF UnsetInv, Types, Early
<1>18. StatusPinInv'
  BY <1>1, <1>3, <1>5 DEF StatusPinInv, Types
<1>19. SoftInv'
  BY <1>1, Zenon DEF SoftInv, Types
<1> QED
  BY <1>6, <1>7, <1>8, <1>9, <1>10, <1>11, <1>12, <1>13, <1>14, <1>15, <1>16, <1>17, <1>18, <1>19, ZenonT(60)

LEMMA SetStatusKeeps ==
  ASSUME CommitInv, NEW x \in Xids, SetStatus(x)
  PROVE  CommitInv'
<1> USE DEF CommitInv
<1>1. /\ pc[x] = "status" /\ pc' = [pc EXCEPT ![x] = "statusregister"]
      /\ UNCHANGED <<buf, file, disk, ldisk, slog, pending, group, cur, w, s, bufgen, syncBuffers, todo,
                     page, type, acked, up, flushes, crashes>>
  BY Zenon DEF SetStatus, fileVars, writerVars, workVars, boundVars
<1>2. /\ type[x] \in {"soft", "abort"} /\ lbuf.data[x] \in {"inprogress", "commit"}
      /\ type[x] = "abort" => lbuf.data[x] = "inprogress"
  BY <1>1, Zenon DEF BackendInv, UnsetInv, BitInv, Ending, Outcomes, Hard
<1>3. PICK new \in {"soft", "commit", "abort"} :
        /\ new = SetXidStatus(lbuf.data[x], type[x])
        /\ new = "commit" <=> lbuf.data[x] = "commit"
        /\ type[x] = "soft" => new # "abort"
  BY <1>2, Zenon DEF SetXidStatus
<1>4. /\ lbuf' \in LogDescs /\ lbuf'.generation = bufgen
      /\ lbuf'.data[x] = new /\ \A y \in Xids : y # x => lbuf'.data[y] = lbuf.data[y]
      /\ \/ lbuf'.shadow = lbuf.data
         \/ lbuf.generation = bufgen /\ lbuf'.shadow = lbuf.shadow
  <2> DEFINE c == BufferGetBlock(lbuf, bufgen)
  <2>1. lbuf \in DescsOf(Statuses, Statuses) /\ bufgen \in Nat /\ lbuf.generation <= bufgen
    BY Zenon DEF Types, ShadowInv, LogDescs
  <2>2. c \in DescsOf(Statuses, Statuses) /\ Copied(c, lbuf, bufgen)
    BY <2>1, CopyFacts, Zenon DEF BufferGetBlock
  <2>3. lbuf' = [c EXCEPT !.data[x] = SetXidStatus(@, type[x])]
    BY Zenon DEF SetStatus
  <2> HIDE DEF c
  <2>4. lbuf' = [c EXCEPT !.data = [lbuf.data EXCEPT ![x] = new]]
    BY <2>2, <2>3, <1>3, Zenon DEF Copied, DescsOf, Statuses
  <2>5. [lbuf.data EXCEPT ![x] = new] \in Statuses
    BY <2>1, Zenon DEF DescsOf, Statuses
  <2>6. /\ lbuf' \in LogDescs /\ lbuf'.generation = c.generation /\ lbuf'.shadow = c.shadow
        /\ lbuf'.data = [lbuf.data EXCEPT ![x] = new]
    BY <2>2, <2>4, <2>5, Zenon DEF DescsOf, LogDescs
  <2>7. lbuf.data \in Statuses
    BY <2>1, Zenon DEF DescsOf
  <2> QED
    BY <2>2, <2>6, <2>7, Zenon DEF Copied, Statuses
<1>5. Aside
  BY <1>1, <1>3, <1>4, Zenon DEF Aside
<1>6. /\ Idle' = Idle /\ Numbered' = Numbered /\ Cart' = Cart
      /\ Trans' = Trans /\ Settled' = Settled
      /\ \A q \in DataPages : Passed(q)' = Passed(q)
  BY <1>1, <1>5, AsideFrame, Zenon DEF Cart
<1>7. Types'
  BY <1>1, <1>4, Zenon DEF Types, Ending
<1>8. GroupInv' /\ CartInv' /\ LogInv' /\ FileInv' /\ LoopInv' /\ PendingInv'
  BY <1>1, <1>6, ZenonT(60) DEF GroupInv, CartInv, LogInv, FileInv, LoopInv, PendingInv
<1>9. MembersInv'
  BY <1>1, MembersFrame, Zenon DEF Types, Ending
<1>10. ShadowInv'
  BY <1>1, <1>4, <1>6 DEF ShadowInv, Types
<1>11. BackendInv'
  BY <1>1, Zenon DEF BackendInv, Types, Hard, Early, Ending
<1>12. ChangeInv'
  BY <1>1, ChangeFrame, Zenon DEF Types
<1>13. AckInv'
  BY <1>1, Zenon DEF AckInv, Types, Hard
<1>14. PinInv'
  BY <1>1, PinFrame, Zenon DEF Types
<1>15. DirtyInv'
  BY <1>1, <1>6, SizeAssumption, Zenon DEF DirtyInv, Types
<1>16. RecoverInv'
  BY <1>1, <1>5, <1>6, SettledDone, ZenonT(60) DEF RecoverInv, Recoverable, Aside
<1>17. BitInv'
  <2>1. \A y \in Xids : pc[y] \in Ending => pc'[y] \in Ending
    BY <1>1, Zenon DEF Types, Ending
  <2>2. \A y \in Xids : lbuf'.data[y] = "commit" <=> lbuf.data[y] = "commit"
    BY <1>3, <1>4, Zenon
  <2>3. w.cart \in Groups /\ Cart.trans \subseteq Xids
    BY Zenon DEF Types, Writers, WriteGroups, Cart
  <2> QED
    BY <1>1, <1>4, <1>6, <2>1, <2>2, <2>3 DEF BitInv, Types
<1>18. UnsetInv'
  BY <1>1, <1>4, ZenonT(60) DEF UnsetInv, Types, Early
<1>19. StatusPinInv'
  BY <1>1, <1>4, <1>6 DEF StatusPinInv, Types
<1>20. SoftInv'
  BY <1>1, <1>3, <1>4, Zenon DEF SoftInv, Types
<1> QED
  BY <1>7, <1>8, <1>9, <1>10, <1>11, <1>12, <1>13, <1>14, <1>15, <1>16, <1>17, <1>18, <1>19, <1>20, ZenonT(60)

LEMMA RegisterStatusKeeps ==
  ASSUME CommitInv, NEW x \in Xids, RegisterStatus(x)
  PROVE  CommitInv'
<1> USE DEF CommitInv
<1>1. /\ pc[x] = "statusregister" /\ pc' = [pc EXCEPT ![x] = "statusdirty"]
      /\ UNCHANGED <<buf, lbuf, file, disk, ldisk, slog, pending, cur, w, s, bufgen, syncBuffers, todo,
                     page, type, acked, up, flushes, crashes>>
  BY Zenon DEF RegisterStatus, poolVars, fileVars, writerVars, workVars, boundVars
<1>2. /\ group' \in [Groups \cup {Sync} -> WriteGroups] /\ group'[Sync] = group[Sync]
      /\ \A g \in Groups :
           /\ g # cur => group'[g] = group[g]
           /\ group'[g].trans = group[g].trans /\ group'[g].waiters = group[g].waiters
           /\ group'[g].syncers = group[g].syncers /\ group'[g].generation = group[g].generation
           /\ group'[g].currstate = group[g].currstate
           /\ group'[g].buffers = IF g = cur THEN group[g].buffers \cup {PgLog} ELSE group[g].buffers
  <2> DEFINE c == [group[cur] EXCEPT !.buffers = @ \cup {PgLog}]
  <2>1. group[cur] \in WriteGroups /\ cur \in Groups
    BY Zenon DEF Types
  <2>2. group' = [group EXCEPT ![cur] = c]
    BY Zenon DEF RegisterStatus
  <2>3. group[cur].buffers \cup {PgLog} \in SUBSET (DataPages \cup {PgLog})
    BY <2>1, Zenon DEF WriteGroups
  <2>4. /\ c \in WriteGroups /\ c.trans = group[cur].trans /\ c.waiters = group[cur].waiters
        /\ c.syncers = group[cur].syncers /\ c.generation = group[cur].generation
        /\ c.currstate = group[cur].currstate /\ c.buffers = group[cur].buffers \cup {PgLog}
    BY <2>1, <2>3, Zenon DEF WriteGroups
  <2> HIDE DEF c
  <2> QED
    BY <2>1, <2>2, <2>4, PutGroup, Zenon
<1>3. Aside
  BY <1>1, <1>2, Zenon DEF Aside
<1>4. /\ Idle' = Idle /\ Numbered' = Numbered /\ (~Idle => Cart' = Cart)
      /\ Trans' = Trans /\ Settled' = Settled
      /\ \A q \in DataPages : Passed(q)' = Passed(q) /\ (Idle => ~Passed(q))
  BY <1>3, AsideFrame, Zenon DEF Passed, Idle
<1>5. Types'
  BY <1>1, <1>2, ZenonT(60) DEF Types, Ending
<1>6. GroupInv'
  BY <1>1, <1>2, <1>4 DEF GroupInv, Cart, Types, Writers, Groups, Other
<1>7. MembersInv'
  BY <1>1, <1>2, MembersFrame, Zenon DEF Types, Ending
<1>8. ShadowInv' /\ FileInv' /\ CartInv'
  BY <1>1, <1>4, Zenon DEF ShadowInv, FileInv, CartInv
<1>9. BackendInv'
  BY <1>1, Zenon DEF BackendInv, Types, Hard, Early, Ending
<1>10. ChangeInv'
  BY <1>1, ChangeFrame, Zenon DEF Types
<1>11. AckInv'
  BY <1>1, Zenon DEF AckInv, Types, Hard
<1>12. PinInv'
  <2>1. \A g \in Groups : group[g].buffers \subseteq group'[g].buffers
    BY <1>2, Zenon
  <2> QED
    BY <1>1, <2>1, PinFrame, Zenon DEF Types
<1>13. DirtyInv'
  BY <1>1, <1>4, SizeAssumption, Zenon DEF DirtyInv, Types
<1>14. LoopInv' /\ LogInv' /\ PendingInv' /\ RecoverInv'
  BY <1>1, <1>4, Zenon DEF LoopInv, LogInv, PendingInv, RecoverInv, Recoverable, Idle
<1>15. BitInv'
  BY <1>1, <1>4, Zenon DEF BitInv, Types, Ending, Idle, Recorded
<1>16. UnsetInv'
  BY <1>1, Zenon DEF UnsetInv, Types, Early
<1>17. StatusPinInv'
  <2>1. cur \in Groups /\ PgLog \in group'[cur].buffers
    BY <1>2, ZenonT(60) DEF Types
  <2> QED
    BY <2>1, <1>1, Zenon DEF StatusPinInv
<1>18. SoftInv'
  BY <1>1 DEF SoftInv, Types
<1> QED
  BY <1>5, <1>6, <1>7, <1>8, <1>9, <1>10, <1>11, <1>12, <1>13, <1>14, <1>15, <1>16, <1>17, <1>18, ZenonT(60)

LEMMA MarkStatusDirtyKeeps ==
  ASSUME CommitInv, NEW x \in Xids, MarkStatusDirty(x)
  PROVE  CommitInv'
<1> USE DEF CommitInv
<1>1. /\ pc[x] = "statusdirty" /\ pc' = [pc EXCEPT ![x] = "done"] /\ acked' = acked \cup {x}
      /\ UNCHANGED <<buf, file, disk, ldisk, slog, pending, group, cur, w, s, bufgen, syncBuffers, todo,
                     page, type, up, flushes, crashes>>
  BY Zenon DEF MarkStatusDirty, fileVars, writerVars, workVars, boundVars
<1>2. /\ lbuf' \in LogDescs /\ lbuf'.data = lbuf.data /\ lbuf'.shadow = lbuf.shadow
      /\ lbuf'.generation = lbuf.generation
  <2>1. lbuf \in DescsOf(Statuses, Statuses) /\ lbuf' = DirtyBufferIO(lbuf)
    BY Zenon DEF Types, LogDescs, MarkStatusDirty
  <2>2. lbuf' \in DescsOf(Statuses, Statuses) /\ SameImages(lbuf', lbuf)
    BY <2>1, DirtyFlagFacts, Zenon
  <2> QED
    BY <2>2, Zenon DEF LogDescs, SameImages
<1>3. /\ Idle' = Idle /\ Numbered' = Numbered /\ Cart' = Cart
      /\ Trans' = Trans /\ Settled' = Settled
      /\ \A q \in DataPages : Passed(q)' = Passed(q)
  BY <1>1, <1>2, Zenon DEF Idle, Numbered, Cart, Trans, Settled, Passed
<1>4. Types'
  BY <1>1, <1>2, Zenon DEF Types, Ending
<1>5. GroupInv' /\ CartInv' /\ LogInv' /\ FileInv' /\ LoopInv'
  BY <1>1, <1>3, ZenonT(60) DEF GroupInv, CartInv, LogInv, FileInv, LoopInv
<1>17. PendingInv' /\ ShadowInv'
  BY <1>1, <1>2, <1>3, Zenon DEF PendingInv, ShadowInv
<1>6. MembersInv'
  BY <1>1, MembersFrame, Zenon DEF Types, Ending
<1>7. BackendInv'
  BY <1>1, ZenonT(60) DEF BackendInv, Types, Hard, Early, Ending
<1>8. ChangeInv'
  BY <1>1, ChangeFrame, Zenon DEF Types
<1>9. AckInv'
  BY <1>1 DEF AckInv, Types, Hard, BackendInv
<1>10. PinInv'
  BY <1>1, PinFrame, Zenon DEF Types
<1>11. DirtyInv'
  BY <1>1, <1>3, SizeAssumption, Zenon DEF DirtyInv, Types
<1>12. RecoverInv'
  BY <1>1, <1>2, <1>3, ZenonT(60) DEF RecoverInv, Recoverable
<1>13. BitInv'
  BY <1>1, <1>2, <1>3 DEF BitInv, Types, Ending
<1>14. UnsetInv'
  BY <1>1, <1>2, Zenon DEF UnsetInv, Types, Early
<1>15. StatusPinInv'
  BY <1>1, <1>2, <1>3, Zenon DEF StatusPinInv, Types
<1>16. SoftInv'
  BY <1>1, <1>2, Zenon DEF SoftInv, Types
<1> QED
  BY <1>4, <1>5, <1>6, <1>7, <1>8, <1>9, <1>10, <1>11, <1>12, <1>13, <1>14, <1>15, <1>16, <1>17, ZenonT(60)

\* An unpinned page is the same in the file, so reading it back changes nothing.
LEMMA EvictKeeps ==
  ASSUME CommitInv, NEW p \in DataPages, Evict(p)
  PROVE  CommitInv' /\ \A q \in DataPages : buf'[q].data = buf[q].data
<1> USE DEF CommitInv
<1>1. /\ ~Pinned(p) /\ buf[p].op = "none"
      /\ UNCHANGED <<lbuf, file, disk, ldisk, slog, pending, group, cur, w, s, bufgen, syncBuffers, pc, todo,
                     page, type, acked, up, flushes, crashes>>
  BY Zenon DEF Evict, fileVars, writerVars, backendVars, workVars
<1>2. buf[p].data = file[p]
  <2>1. \A y \in buf[p].data : y \in Xids
    BY Zenon DEF Types, Descs, DescsOf
  <2>2. \A y \in buf[p].data : y \in file[p]
    BY <1>1, <2>1, Zenon DEF Pinned, PinInv
  <2> QED
    BY <2>2, Zenon DEF FileInv
<1>3. /\ buf' \in [DataPages -> Descs]
      /\ buf'[p].data = buf[p].data /\ buf'[p].generation = 0 /\ ~buf'[p].dirty
      /\ \A q \in DataPages : q # p => buf'[q] = buf[q]
  <2> DEFINE c == ReadIn(file[p], {Junk})
  <2>1. file[p] \in SUBSET Xids /\ {Junk} \in Images
    BY Zenon DEF Types, Images
  <2>2. c \in Descs /\ c.data = file[p] /\ c.generation = 0 /\ ~c.dirty
    BY <2>1, Zenon DEF ReadIn, Descs, DescsOf, Ops
  <2>3. buf' = [buf EXCEPT ![p] = c]
    BY Zenon DEF Evict
  <2> HIDE DEF c
  <2> QED
    BY <1>2, <2>2, <2>3, PutPage, Zenon
<1>4. \A q \in DataPages : buf'[q].data = buf[q].data
  BY <1>3, Zenon
<1>5. /\ Idle' = Idle /\ Numbered' = Numbered /\ Cart' = Cart /\ Trans' = Trans /\ Settled' = Settled
      /\ \A q \in DataPages : Passed(q)' = Passed(q)
  BY <1>1, Zenon DEF Idle, Numbered, Cart, Trans, Settled, Passed
<1>6. Types'
  BY <1>1, <1>3, Zenon DEF Types
<1>7. GroupInv' /\ MembersInv' /\ BackendInv' /\ AckInv' /\ CartInv' /\ LogInv' /\ RecoverInv'
  BY <1>1, <1>5, ZenonT(60)
  DEF GroupInv, MembersInv, BackendInv, AckInv, CartInv, LogInv, RecoverInv, Recoverable, Hard
<1>8. BitInv' /\ UnsetInv' /\ StatusPinInv' /\ SoftInv'
  BY <1>1, <1>5, Zenon DEF BitInv, UnsetInv, StatusPinInv, SoftInv
<1>9. ShadowInv'
  BY <1>1, <1>3, <1>5 DEF ShadowInv, Types
<1>10. ChangeInv'
  BY <1>1, <1>4, ChangeFrame, Zenon
<1>11. FileInv'
  BY <1>1, <1>4, Zenon DEF FileInv
<1>12. PinInv'
  BY <1>1, <1>4, PinFrame, Zenon
<1>13. DirtyInv'
  <2> SUFFICES ASSUME NEW y \in Xids, pc[y] # "lost", NEW q \in Writes[y] \ todo[y]
               PROVE  buf'[q].dirty \/ y \in file[q] \/ (q \in Cart.buffers /\ Passed(q))
    BY <1>1, <1>5, SizeAssumption, Zenon DEF DirtyInv
  <2>1. q \in DataPages /\ y \in buf[q].data
    BY SizeAssumption, Zenon DEF ChangeInv
  <2> QED
    BY <1>2, <1>3, <2>1, Zenon DEF DirtyInv
<1>14. LoopInv'
  <2>1. w.pc = "logcopy" => w.i # p
    BY <1>1, Zenon DEF LoopInv
  <2> QED
    BY <1>1, <1>3, <1>5, <2>1, Zenon DEF LoopInv
<1>15. PendingInv'
  <2>1. Numbered => bufgen # 0
    BY DEF ShadowInv
  <2> QED
    BY <1>1, <1>3, <1>5, <2>1, PendingFrame, Zenon
<1> QED
  BY <1>4, <1>6, <1>7, <1>8, <1>9, <1>10, <1>11, <1>12, <1>13, <1>14, <1>15, Zenon

\* The same for the pg_log page.
LEMMA EvictLogKeeps ==
  ASSUME CommitInv, EvictLog
  PROVE  CommitInv'
<1> USE DEF CommitInv
<1>1. /\ \A g \in Groups : PgLog \notin group[g].buffers
      /\ \A y \in Xids : pc[y] # "statusregister"
      /\ w.pc # "transflush"
      /\ UNCHANGED <<buf, file, disk, ldisk, slog, pending, group, cur, w, s, bufgen, syncBuffers, pc, todo,
                     page, type, acked, up, flushes, crashes>>
  BY Zenon DEF EvictLog, fileVars, writerVars, backendVars, workVars
<1>2. lbuf' \in LogDescs /\ lbuf'.data = ldisk /\ lbuf'.generation = 0 /\ lbuf'.shadow = Garbage
  <2>1. ldisk \in Statuses /\ Garbage \in Statuses
    BY Zenon DEF Types, Statuses, Garbage
  <2>2. lbuf' = ReadIn(ldisk, Garbage)
    BY Zenon DEF EvictLog
  <2> QED
    BY <2>1, <2>2, Zenon DEF ReadIn, LogDescs, DescsOf, Ops
<1>3. lbuf.data = ldisk
  <2>1. \A y \in Xids : lbuf.data[y] = ldisk[y]
    BY <1>1, Zenon DEF StatusPinInv
  <2> QED
    BY <2>1 DEF Types, LogDescs, DescsOf, Statuses
<1>4. /\ Idle' = Idle /\ Numbered' = Numbered /\ Cart' = Cart /\ Trans' = Trans /\ Settled' = Settled
      /\ \A q \in DataPages : Passed(q)' = Passed(q)
  BY <1>1, <1>2, <1>3, Zenon DEF Idle, Numbered, Cart, Trans, Settled, Passed
<1>5. Types'
  BY <1>1, <1>2, Zenon DEF Types
<1>6. GroupInv' /\ MembersInv' /\ BackendInv' /\ AckInv' /\ ChangeInv' /\ FileInv'
  BY <1>1, <1>4, Zenon DEF GroupInv, MembersInv, BackendInv, AckInv, ChangeInv, FileInv, Hard
<1>13. PinInv'
  BY <1>1, PinFrame, Zenon
<1>7. CartInv' /\ DirtyInv' /\ LoopInv' /\ LogInv' /\ PendingInv'
  BY <1>1, <1>4, SizeAssumption, Zenon DEF CartInv, DirtyInv, LoopInv, LogInv, PendingInv
<1>8. RecoverInv' /\ SoftInv'
  BY <1>1, <1>2, <1>3, <1>4, Zenon DEF RecoverInv, Recoverable, SoftInv
<1>9. ShadowInv'
  <2>1. 0 <= bufgen
    BY DEF Types
  <2> QED
    BY <1>1, <1>2, <1>4, <2>1, Zenon DEF ShadowInv
<1>10. Numbered => bufgen # 0
  BY DEF ShadowInv
<1>11. BitInv'
  <2>1. \A y \in Xids : Garbage[y] # "commit"
    BY Zenon DEF Garbage
  <2> QED
    BY <1>1, <1>2, <1>3, <1>4, <1>10, <2>1, Zenon DEF BitInv
<1>12. UnsetInv' /\ StatusPinInv'
  BY <1>1, <1>2, <1>3, <1>4, <1>10, Zenon DEF UnsetInv, StatusPinInv
<1> QED
  BY <1>5, <1>6, <1>7, <1>8, <1>9, <1>11, <1>12, <1>13, Zenon
-----------------------------------------------------------------------------
(* The DBWriter.                                                           *)

LEMMA StartGroupKeeps ==
  ASSUME SafeSettings, CommitInv, NEW primed \in BOOLEAN, StartGroup(primed)
  PROVE  CommitInv'
<1> USE DEF CommitInv
<1>1. /\ Idle /\ cur' = Other(w.cart)
      /\ w' = [w EXCEPT !.pc = "beginlog", !.job = "commit", !.primed = primed]
      /\ group' = [group EXCEPT ![w.cart].currstate = "RUNNING",
                                ![Other(w.cart)].currstate = "NOT_READY",
                                ![Other(w.cart)].generation = group[w.cart].generation + 1]
      /\ UNCHANGED <<buf, lbuf, file, disk, ldisk, slog, pending, s, bufgen, syncBuffers, pc, todo,
                     page, type, acked, up, flushes, crashes>>
  BY ZenonT(60) DEF StartGroup, At, Idle, SafeSettings, poolVars, fileVars, backendVars, workVars, boundVars
<1>2. group[w.cart].currstate = "READY" /\ up
  BY DEF StartGroup, Types, GroupInv, Cart
<1>3. /\ w.cart \in Groups /\ Other(w.cart) \in Groups /\ Other(w.cart) # w.cart
      /\ Other(Other(w.cart)) = w.cart
      /\ \A g \in Groups : g = w.cart \/ g = Other(w.cart)
  BY DEF Types, Writers, Groups, Other
<1>4. /\ w' \in Writers /\ w'.pc = "beginlog" /\ w'.cart = w.cart
  BY <1>1, Zenon DEF Types, Writers, WriterPlaces
<1>5. /\ group' \in [Groups \cup {Sync} -> WriteGroups] /\ group'[Sync] = group[Sync]
      /\ \A g \in Groups : /\ group'[g].buffers = group[g].buffers
                           /\ group'[g].trans = group[g].trans
                           /\ group'[g].waiters = group[g].waiters
                           /\ group'[g].syncers = group[g].syncers
      /\ group'[w.cart].generation = group[w.cart].generation
      /\ group'[Other(w.cart)].generation = group[w.cart].generation + 1
  <2> DEFINE o == Other(w.cart)
             c == [group[w.cart] EXCEPT !.currstate = "RUNNING"]
             d == [group[o] EXCEPT !.currstate = "NOT_READY", !.generation = group[w.cart].generation + 1]
  <2>1. group[w.cart] \in WriteGroups /\ group[o] \in WriteGroups
    BY <1>3, Zenon DEF Types
  <2>2. /\ c \in WriteGroups /\ c.buffers = group[w.cart].buffers /\ c.trans = group[w.cart].trans
        /\ c.waiters = group[w.cart].waiters /\ c.syncers = group[w.cart].syncers
        /\ c.generation = group[w.cart].generation
    BY <2>1, Zenon DEF WriteGroups
  <2>6. group[w.cart].generation + 1 \in Nat
    BY <2>1 DEF WriteGroups
  <2>3. /\ d \in WriteGroups /\ d.buffers = group[o].buffers /\ d.trans = group[o].trans
        /\ d.waiters = group[o].waiters /\ d.syncers = group[o].syncers
        /\ d.generation = group[w.cart].generation + 1
    BY <2>1, <2>6, Zenon DEF WriteGroups
  <2>4. group' = [[group EXCEPT ![w.cart] = c] EXCEPT ![o] = d]
    BY <1>1, <1>3, ZenonT(60) DEF Types
  <2> HIDE DEF c, d
  <2>5. /\ group' \in [Groups \cup {Sync} -> WriteGroups] /\ group'[Sync] = group[Sync]
        /\ group'[w.cart] = c /\ group'[o] = d
    BY <1>3, <2>2, <2>3, <2>4 DEF Types, Groups, Sync
  <2> QED
    BY <1>3, <2>2, <2>3, <2>5, Zenon
<1>6. ~Idle' /\ ~Numbered' /\ Cart' = group'[w.cart] /\ ~Numbered
  BY <1>1, <1>4, Zenon DEF Idle, Numbered, Cart
<1>7. Trans' = group[w.cart].trans /\ Settled' = group[w.cart].trans \cup Settled /\ Trans = {}
  BY <1>1, <1>3, <1>5, <1>6, Zenon DEF Trans, Settled
<1>8. \A q \in DataPages : ~Passed(q) /\ ~Passed(q)'
  BY <1>1, <1>4, Zenon DEF Passed, Idle
<1>9. Types'
  BY <1>1, <1>3, <1>4, <1>5, ZenonT(60) DEF Types
<1>10. GroupInv'
  BY <1>1, <1>2, <1>3, <1>4, <1>5, <1>6, ZenonT(60) DEF GroupInv, Cart
<1>11. MembersInv'
  BY <1>1, <1>5, MembersFrame, Zenon
<1>12. BackendInv' /\ AckInv' /\ ChangeInv' /\ SoftInv' /\ UnsetInv'
  BY <1>1, Zenon DEF BackendInv, AckInv, ChangeInv, SoftInv, UnsetInv, Hard
<1>13. ShadowInv'
  BY <1>1, <1>6, Zenon DEF ShadowInv
<1>14. FileInv'
  BY <1>1, <1>4, Zenon DEF FileInv, Idle
<1>15. PinInv'
  BY <1>1, <1>5, PinFrame, Zenon
<1>16. CartInv'
  <2> SUFFICES ASSUME NEW x \in Settled', NEW p \in Writes[x]
               PROVE  x \in file[p] \/ p \in group[w.cart].buffers
    BY <1>1, <1>3, <1>5, <1>6, Zenon DEF CartInv
  <2>1. CASE x \in Settled
    BY <1>1, <2>1, Zenon DEF CartInv
  <2>2. CASE x \in group[w.cart].trans
    <3>1. x \in Xids /\ pc[x] \in Ending
      BY <1>3, <2>2, Zenon DEF Types, WriteGroups, MembersInv
    <3>2. p \in DataPages /\ x \in buf[p].data /\ pc[x] # "register"
      BY <3>1, SizeAssumption, Zenon DEF ChangeInv, BackendInv, Ending
    <3>3. \A g \in Groups : p \in group[g].buffers => g = w.cart
      BY <1>1, <1>3, Zenon DEF GroupInv
    <3> QED
      BY <3>2, <3>3, Zenon DEF PinInv
  <2> QED
    BY <1>7, <2>1, <2>2, Zenon
<1>17. DirtyInv'
  BY <1>1, <1>8, SizeAssumption, Zenon DEF DirtyInv
<1>18. LoopInv' /\ LogInv' /\ PendingInv'
  BY <1>1, <1>4, Zenon DEF LoopInv, LogInv, PendingInv, Idle
<1>19. RecoverInv'
  <2>1. group[w.cart].trans \subseteq Xids
    BY <1>3, Zenon DEF Types, WriteGroups
  <2>2. \A x \in Settled' : lbuf.data[x] = "commit" => x \in Settled
    BY <1>7, <2>1, ZenonT(60) DEF Settled
  <2> QED
    BY <1>1, <1>4, <2>2, Zenon DEF RecoverInv, Recoverable
<1>20. BitInv' /\ StatusPinInv'
  BY <1>1, <1>4, <1>5, <1>6, ZenonT(60) DEF BitInv, StatusPinInv, Idle, Recorded
<1> QED
  BY <1>9, <1>10, <1>11, <1>12, <1>13, <1>14, <1>15, <1>16, <1>17, <1>18, <1>19, <1>20, ZenonT(60)

LEMMA BeginLogKeeps ==
  ASSUME CommitInv, BeginLog
  PROVE  CommitInv'
<1> USE DEF CommitInv
<1>1. /\ w.pc = "beginlog" /\ bufgen' = group[w.cart].generation
      /\ w' = [w EXCEPT !.pc = "log", !.list = w.cart, !.i = 1]
      /\ UNCHANGED <<buf, lbuf, file, disk, ldisk, slog, pending, group, cur, s, syncBuffers, pc, todo,
                     page, type, acked, up, flushes, crashes>>
  BY Zenon DEF BeginLog, At, poolVars, fileVars, backendVars, workVars, boundVars
<1>2. /\ w' \in Writers /\ w'.pc = "log" /\ w'.cart = w.cart /\ w'.list = w.cart /\ w'.i = 1
  BY <1>1, Zenon DEF Types, Writers, WriterPlaces
<1>3. /\ ~Idle /\ ~Idle' /\ ~Numbered /\ Numbered' /\ Cart' = Cart
      /\ Trans' = Trans /\ Settled' = Settled
  BY <1>1, <1>2 DEF Idle, Numbered, Cart, Trans, Settled
<1>4. bufgen \in Nat /\ bufgen' = bufgen + 1 /\ bufgen' \in Nat
  BY <1>1, <1>3 DEF GroupInv, Types, Cart
<1>5. \A q \in DataPages : ~Passed(q) /\ ~Passed(q)' /\ ~(q < 1)
  BY <1>1, <1>2 DEF Passed, DataPages
<1>6. /\ lbuf.generation # bufgen' /\ lbuf.generation <= bufgen'
      /\ \A q \in DataPages : buf[q].generation # bufgen' /\ buf[q].generation <= bufgen'
  <2>1. /\ lbuf.generation \in Nat /\ lbuf.generation <= bufgen
        /\ \A q \in DataPages : buf[q].generation \in Nat /\ buf[q].generation <= bufgen
    BY Zenon DEF Types, ShadowInv, Descs, LogDescs, DescsOf
  <2> QED
    BY <1>4, <2>1
<1>7. Types'
  BY <1>1, <1>2, <1>4, Zenon DEF Types
<1>8. GroupInv'
  BY <1>1, <1>2, <1>3, <1>4, Zenon DEF GroupInv
<1>9. MembersInv' /\ BackendInv' /\ AckInv' /\ ChangeInv' /\ SoftInv' /\ UnsetInv'
  BY <1>1, Zenon DEF MembersInv, BackendInv, AckInv, ChangeInv, SoftInv, UnsetInv, Hard
<1>10. ShadowInv'
  BY <1>1, <1>4, <1>6 DEF ShadowInv
<1>11. FileInv' /\ LogInv' /\ LoopInv'
  BY <1>1, <1>2, Zenon DEF FileInv, LogInv, LoopInv
<1>12. PinInv'
  BY <1>1, PinFrame, Zenon
<1>13. CartInv'
  BY <1>1, <1>3, Zenon DEF CartInv
<1>14. DirtyInv'
  BY <1>1, <1>5, SizeAssumption, Zenon DEF DirtyInv
<1>15. PendingInv'
  <2>1. DOMAIN pending = {}
    BY <1>1, Zenon DEF LogInv, EmptyLog
  <2>2. \A x \in Settled : \A p \in Writes[x] : p \in DataPages
    BY SettledDone, Zenon
  <2>3. \A x \in Trans : x \in Settled
    BY Zenon DEF Settled
  <2> QED
    BY <1>1, <1>2, <1>3, <1>5, <1>6, <2>1, <2>2, <2>3, Zenon DEF PendingInv
<1>16. RecoverInv'
  BY <1>1, <1>2, <1>3, Zenon DEF RecoverInv, Recoverable
<1>17. BitInv'
  BY <1>1, <1>2, <1>6, Zenon DEF BitInv, Recorded
<1>18. StatusPinInv'
  BY <1>1, <1>2, <1>6, Zenon DEF StatusPinInv
<1> QED
  BY <1>7, <1>8, <1>9, <1>10, <1>11, <1>12, <1>13, <1>14, <1>15, <1>16, <1>17, <1>18, Zenon

\* The least page ahead is found, and no page of the group is skipped.
LEMMA MinNat ==
  ASSUME NEW S, S \subseteq Nat, S # {}
  PROVE  Min(S) \in S /\ \A y \in S : Min(S) <= y
<1>1. PICK x \in S : \A y \in S : ~(<<y, x>> \in OpToRel(<, Nat))
  BY NatLessThanWellFounded, WFMin, Zenon
<1>2. \A y \in S : x <= y
  <2> TAKE y \in S
  <2>1. ~(y < x)
    BY <1>1, Zenon DEF OpToRel
  <2> QED
    BY <2>1
<1> QED
  BY <1>1, <1>2, Zenon DEF Min

LEMMA AheadFacts ==
  ASSUME Types, NEW S, S \subseteq Ahead(w.list, w.i), S # {}
  PROVE  /\ Min(S) \in S /\ \A q \in S : Min(S) <= q
         /\ S \subseteq Nat /\ \A q \in S : q \in group[w.list].buffers /\ w.i <= q
<1>1. group[w.list].buffers \subseteq Nat /\ w.i \in Nat
  BY SizeAssumption, SMTT(30) DEF Types, Writers, WriteGroups, DataPages, PgLog
<1>2. S \subseteq Nat /\ \A q \in S : q \in group[w.list].buffers /\ w.i <= q
  BY <1>1, Zenon DEF Ahead
<1> QED
  BY <1>2, MinNat, Zenon

LEMMA LogStartKeeps ==
  ASSUME CommitInv, LogStart
  PROVE  CommitInv' /\ \A q \in DataPages : buf'[q].data = buf[q].data
<1> USE DEF CommitInv
<1> DEFINE ahead == Ahead(w.list, w.i) \ {PgLog}
<1>1. /\ w.pc = "log" /\ ahead # {} /\ w.list = w.cart
      /\ UNCHANGED <<lbuf, file, disk, ldisk, slog, pending, group, cur, s, bufgen, syncBuffers, pc, todo,
                     page, type, acked, up, flushes, crashes>>
  BY Zenon DEF LogStart, At, GroupInv, fileVars, backendVars, workVars, boundVars
<1>2. PICK p : /\ p = Min(ahead) /\ p \in ahead /\ \A q \in ahead : p <= q
               /\ p \in Cart.buffers /\ w.i <= p
  <2>1. ahead \subseteq Ahead(w.list, w.i)
    BY Zenon
  <2> HIDE DEF ahead
  <2>2. /\ Min(ahead) \in ahead /\ \A q \in ahead : Min(ahead) <= q
        /\ \A q \in ahead : q \in group[w.list].buffers /\ w.i <= q
    BY <1>1, <2>1, AheadFacts, Zenon
  <2> QED
    BY <1>1, <2>2, Zenon DEF Cart
<1>3. p \in DataPages /\ p # PgLog /\ Cart.buffers \subseteq DataPages \cup {PgLog} /\ w.i \in Nat
  BY <1>2, ZenonT(60) DEF Types, Writers, WriteGroups, Cart
<1>4. \A q \in DataPages : q \in Cart.buffers /\ q < p => q < w.i
  <2>1. \A q \in DataPages : q # PgLog
    BY SizeAssumption DEF DataPages, PgLog
  <2>2. \A q \in DataPages : q \in Cart.buffers /\ q >= w.i => q \in ahead
    BY <1>1, <2>1, Zenon DEF Ahead, Cart
  <2> QED
    BY <1>2, <1>3, <2>2 DEF DataPages
<1> HIDE DEF ahead
<1>5. /\ buf' = [buf EXCEPT ![p] = LogBufferIO(buf[p])]
      /\ w' = IF buf[p].dirty THEN [w EXCEPT !.pc = "logcopy", !.i = p] ELSE [w EXCEPT !.i = p + 1]
  BY <1>2, Zenon DEF LogStart, ahead, Types
<1>6. /\ buf' \in [DataPages -> Descs]
      /\ \A q \in DataPages :
           /\ buf'[q].data = buf[q].data /\ buf'[q].shadow = buf[q].shadow
           /\ buf'[q].generation = buf[q].generation
           /\ q # p => buf'[q] = buf[q]
      /\ buf[p].dirty => buf'[p].op = "log"
  <2>1. buf[p] \in DescsOf(SUBSET Xids, Images)
    BY <1>3, Zenon DEF Types, Descs
  <2> DEFINE c == LogBufferIO(buf[p])
  <2>2. c \in Descs /\ SameImages(c, buf[p]) /\ (buf[p].dirty => c.op = "log")
    BY <2>1, LogFlagFacts, Zenon DEF Descs
  <2> HIDE DEF c
  <2>3. buf' = [buf EXCEPT ![p] = c]
    BY <1>5, Zenon DEF c
  <2>4. /\ buf' \in [DataPages -> Descs] /\ buf'[p] = c
        /\ \A q \in DataPages : q # p => buf'[q] = buf[q]
    BY <1>3, <2>2, <2>3, PutPage, Zenon
  <2> QED
    BY <2>2, <2>4, Zenon DEF SameImages
<1>7. /\ w' \in Writers /\ w'.cart = w.cart /\ w'.list = w.list
      /\ \/ buf[p].dirty /\ w'.pc = "logcopy" /\ w'.i = p
         \/ ~buf[p].dirty /\ w'.pc = "log" /\ w'.i = p + 1
  <2>1. w \in Writers /\ p \in Nat /\ p + 1 \in Nat
    BY <1>3 DEF Types, DataPages
  <2>2. CASE buf[p].dirty
    <3>1. w' = [w EXCEPT !.pc = "logcopy", !.i = p]
      BY <1>5, <2>2, Zenon
    <3> QED
      BY <2>1, <2>2, <3>1, Zenon DEF Writers, WriterPlaces
  <2>3. CASE ~buf[p].dirty
    <3>1. w' = [w EXCEPT !.i = p + 1]
      BY <1>5, <2>3, Zenon
    <3> QED
      BY <1>1, <2>1, <2>3, <3>1, Zenon DEF Writers, WriterPlaces
  <2> QED
    BY <2>2, <2>3, Zenon
<1>8. /\ ~Idle /\ ~Idle' /\ Numbered /\ Numbered' /\ Cart' = Cart
      /\ Trans' = Trans /\ Settled' = Settled
  BY <1>1, <1>7, Zenon DEF Idle, Numbered, Cart, Trans, Settled
<1>9. \A q \in DataPages : Passed(q) => Passed(q)'
  BY <1>1, <1>2, <1>3, <1>7 DEF Passed, DataPages
<1>10. Types'
  BY <1>1, <1>6, <1>7, Zenon DEF Types
<1>11. GroupInv'
  BY <1>1, <1>7, <1>8, Zenon DEF GroupInv
<1>12. MembersInv' /\ BackendInv' /\ AckInv' /\ SoftInv' /\ UnsetInv'
  BY <1>1, ZenonT(60) DEF MembersInv, BackendInv, AckInv, SoftInv, UnsetInv, Hard
<1>13. ChangeInv'
  BY <1>1, <1>6, ChangeFrame, Zenon
<1>14. ShadowInv'
  BY <1>1, <1>6, <1>8, Zenon DEF ShadowInv
<1>15. FileInv' /\ LogInv'
  BY <1>1, <1>6, <1>7, Zenon DEF FileInv, LogInv
<1>16. PinInv'
  BY <1>1, <1>6, PinFrame, Zenon
<1>17. CartInv'
  BY <1>1, <1>8, Zenon DEF CartInv
<1>18. DirtyInv'
  <2> SUFFICES ASSUME NEW y \in Xids, pc[y] # "lost", NEW q \in Writes[y] \ todo[y]
               PROVE  buf'[q].dirty \/ y \in file[q] \/ (q \in Cart.buffers /\ Passed(q)')
    BY <1>1, <1>8, Zenon DEF DirtyInv
  <2>1. q \in DataPages
    BY SizeAssumption, Zenon
  <2>2. CASE q # p
    BY <1>6, <1>9, <2>1, <2>2, Zenon DEF DirtyInv
  <2>3. CASE q = p
    <3>1. Passed(p)'
      BY <1>3, <1>7 DEF Passed, DataPages
    <3> QED
      BY <1>2, <2>3, <3>1, Zenon
  <2> QED
    BY <2>2, <2>3, Zenon
<1>19. LoopInv'
  BY <1>2, <1>3, <1>6, <1>7, <1>8, Zenon DEF LoopInv
<1>20. PendingInv'
  <2>1. /\ DOMAIN pending \subseteq Cart.buffers
        /\ \A x \in Settled : \A q \in Writes[x] \cap DOMAIN pending : x \in pending[q]
        /\ \A x \in Settled : \A q \in Writes[x] : buf[q].generation = bufgen => x \in buf[q].shadow
        /\ \A x \in Trans : \A q \in Writes[x] \cap Cart.buffers :
             q < w.i => q \in DOMAIN pending \/ x \in file[q]
    BY <1>1, Zenon DEF PendingInv
  <2>2. \A x \in Settled : \A q \in Writes[x] : q \in DataPages
    BY SettledDone, Zenon
  <2>3. ASSUME NEW x \in Trans, NEW q \in Writes[x] \cap Cart.buffers, q < w'.i
        PROVE  q \in DOMAIN pending \/ x \in file[q]
    <3>1. x \in Settled /\ x \in Xids /\ q \in DataPages
      BY <2>2, SettledDone, Zenon DEF Settled
    <3>2. q < w.i \/ (q = p /\ ~buf[p].dirty)
      BY <1>3, <1>4, <1>7, <2>3, <3>1 DEF DataPages
    <3>3. CASE q = p /\ ~buf[p].dirty
      <4>1. ~Passed(p)
        BY <1>1, <1>2, <1>3 DEF Passed, DataPages
      <4>2. pc[x] # "lost" /\ todo[x] = {}
        BY <3>1, SettledDone, Zenon DEF Ending
      <4> QED
        BY <3>1, <3>3, <4>1, <4>2, <2>3, ZenonT(60) DEF DirtyInv
    <3> QED
      BY <2>1, <3>2, <3>3, Zenon
  <2> QED
    BY <1>1, <1>6, <1>8, <2>1, <2>2, <2>3, ZenonT(60) DEF PendingInv
<1>21. RecoverInv'
  BY <1>1, <1>7, <1>8, ZenonT(60) DEF RecoverInv, Recoverable
<1>22. BitInv' /\ StatusPinInv'
  BY <1>1, <1>7, <1>8 DEF BitInv, StatusPinInv, Recorded
<1> QED
  BY <1>6, <1>10, <1>11, <1>12, <1>13, <1>14, <1>15, <1>16, <1>17, <1>18, <1>19, <1>20, <1>21, <1>22, Zenon

\* The image that goes to the log holds the changes of the group and of all
\* that committed before.
LEMMA LogCopyKeeps ==
  ASSUME CommitInv, LogCopy
  PROVE  CommitInv' /\ \A q \in DataPages : buf'[q].data = buf[q].data
<1> USE DEF CommitInv
<1>1. /\ w.pc = "logcopy" /\ w' = [w EXCEPT !.pc = "log", !.i = w.i + 1]
      /\ UNCHANGED <<lbuf, file, disk, ldisk, slog, group, cur, s, bufgen, syncBuffers, pc, todo,
                     page, type, acked, up, flushes, crashes>>
  BY Zenon DEF LogCopy, At, backendVars, workVars, boundVars, Types, Writers
<1>2. w.i \in DataPages /\ w.i \in Cart.buffers /\ w.i \in Nat /\ w.list = w.cart
  BY <1>1, Zenon DEF LoopInv, Types, Writers, GroupInv
<1>3. /\ ~Idle /\ ~Idle' /\ Numbered /\ Numbered' /\ w' \in Writers
      /\ w'.pc = "log" /\ w'.i = w.i + 1 /\ w'.cart = w.cart /\ w'.list = w.list
  <2>1. /\ w' \in Writers /\ w'.pc = "log" /\ w'.i = w.i + 1
        /\ w'.cart = w.cart /\ w'.list = w.list
    <3>1. w \in Writers /\ w.i + 1 \in Nat
      BY <1>2 DEF Types
    <3> QED
      BY <1>1, <3>1, ZenonT(60) DEF Writers, WriterPlaces
  <2> QED
    BY <1>1, <2>1, Zenon DEF Idle, Numbered
<1>4. Cart' = Cart /\ Trans' = Trans /\ Settled' = Settled
  BY <1>1, <1>3 DEF Cart, Trans, Settled
<1>5. bufgen \in Nat /\ bufgen # 0
  BY <1>3 DEF ShadowInv, Types
<1> DEFINE a == AdvanceBufferIO(buf[w.i], bufgen, FALSE)
<1>6. a \in Descs /\ Copied(a, buf[w.i], bufgen)
  <2>1. buf[w.i] \in DescsOf(SUBSET Xids, Images) /\ buf[w.i].generation <= bufgen
    BY <1>2, Zenon DEF Types, ShadowInv, Descs
  <2>2. SUBSET Xids \subseteq Images
    BY Zenon DEF Images
  <2> QED
    BY <1>5, <2>1, <2>2, CopyFacts, Zenon DEF Descs, AdvanceBufferIO
<1>7. pending' = Overlay([p \in {w.i} |-> a.shadow], pending) /\ buf' = [buf EXCEPT ![w.i] = TerminateBufferIO(a)]
  BY Zenon DEF LogCopy
<1> HIDE DEF a
<1>8. a.shadow \subseteq buf[w.i].data /\ a.shadow \subseteq Xids
  <2>1. buf[w.i].data \subseteq Xids
    BY <1>2, Zenon DEF Types, Descs, DescsOf
  <2> QED
    BY <1>2, <1>5, <1>6, <2>1, Zenon DEF Copied, ShadowInv
<1>9. /\ buf' \in [DataPages -> Descs]
      /\ buf'[w.i].shadow = a.shadow /\ buf'[w.i].generation = bufgen
      /\ \A q \in DataPages :
           /\ buf'[q].data = buf[q].data /\ buf'[q].dirty = buf[q].dirty
           /\ q # w.i => buf'[q] = buf[q]
  <2> DEFINE c == TerminateBufferIO(a)
  <2>1. c \in Descs /\ SameImages(c, a) /\ c.dirty = a.dirty
    BY <1>6, TerminateFacts, Zenon DEF Descs
  <2>2. c.data = buf[w.i].data /\ c.dirty = buf[w.i].dirty /\ c.shadow = a.shadow /\ c.generation = bufgen
    BY <1>6, <2>1, Zenon DEF SameImages, Copied
  <2> HIDE DEF c
  <2>3. buf' = [buf EXCEPT ![w.i] = c]
    BY <1>7, Zenon DEF c
  <2>4. /\ buf' \in [DataPages -> Descs] /\ buf'[w.i] = c
        /\ \A q \in DataPages : q # w.i => buf'[q] = buf[q]
    BY <1>2, <2>1, <2>3, PutPage, Zenon
  <2> QED
    BY <2>2, <2>4, Zenon
<1>10. /\ DOMAIN pending' = DOMAIN pending \cup {w.i} /\ pending'[w.i] = a.shadow
       /\ \A q \in DOMAIN pending : q # w.i => pending'[q] = pending[q]
  <2> DEFINE new == [p \in {w.i} |-> a.shadow]
  <2>1. DOMAIN new = {w.i} /\ new[w.i] = a.shadow
    BY Zenon
  <2> HIDE DEF new
  <2>2. pending' = [p \in DOMAIN new \cup DOMAIN pending |-> IF p \in DOMAIN new THEN new[p] ELSE pending[p]]
    BY <1>7, Zenon DEF Overlay, new
  <2> QED
    BY <2>1, <2>2, Zenon
<1>11. IsLog(pending)'
  BY <1>2, <1>8, <1>10, Zenon DEF Types, IsLog
<1>12. \A q \in DataPages : Passed(q)' = Passed(q)
  BY <1>1, <1>2, <1>3 DEF Passed, DataPages
<1>13. Types'
  BY <1>1, <1>3, <1>9, <1>11, Zenon DEF Types
<1>14. GroupInv'
  BY <1>1, <1>2, <1>3, <1>4, Zenon DEF GroupInv
<1>15. MembersInv' /\ BackendInv' /\ AckInv' /\ SoftInv' /\ UnsetInv'
  BY <1>1, ZenonT(60) DEF MembersInv, BackendInv, AckInv, SoftInv, UnsetInv, Hard
<1>16. ChangeInv'
  BY <1>1, <1>9, ChangeFrame, Zenon
<1>17. ShadowInv'
  BY <1>1, <1>3, <1>5, <1>8, <1>9 DEF ShadowInv
<1>18. FileInv' /\ LogInv' /\ LoopInv'
  BY <1>1, <1>3, <1>4, <1>9, Zenon DEF FileInv, LogInv, LoopInv
<1>19. PinInv'
  BY <1>1, <1>9, PinFrame, Zenon
<1>20. CartInv'
  BY <1>1, <1>3, <1>4, Zenon DEF CartInv
<1>21. DirtyInv'
  <2>1. \A y \in Xids : Writes[y] \subseteq DataPages
    BY SizeAssumption, Zenon
  <2> QED
    BY <1>1, <1>4, <1>9, <1>12, <2>1, Zenon DEF DirtyInv
<1>22. PendingInv'
  <2>1. /\ DOMAIN pending \subseteq Cart.buffers
        /\ \A x \in Settled : \A q \in Writes[x] \cap DOMAIN pending : x \in pending[q]
        /\ \A x \in Settled : \A q \in Writes[x] : buf[q].generation = bufgen => x \in buf[q].shadow
        /\ \A x \in Trans : \A q \in Writes[x] \cap Cart.buffers :
             q < w.i => q \in DOMAIN pending \/ x \in file[q]
    BY <1>1, Zenon DEF PendingInv
  <2>2. \A x \in Settled : \A q \in Writes[x] : q \in DataPages /\ x \in buf[q].data
    BY SettledDone, Zenon
  <2>3. \A x \in Settled : w.i \in Writes[x] => x \in a.shadow
    BY <1>6, <2>1, <2>2, Zenon DEF Copied
  <2>4. \A x \in Settled : \A q \in Writes[x] \cap DOMAIN pending' : x \in pending'[q]
    BY <1>10, <2>1, <2>3, Zenon
  <2>5. \A x \in Settled : \A q \in Writes[x] : buf'[q].generation = bufgen => x \in buf'[q].shadow
    BY <1>9, <2>1, <2>2, <2>3, Zenon
  <2>6. ASSUME NEW x \in Trans, NEW q \in Writes[x] \cap Cart.buffers, q < w.i + 1
        PROVE  q \in DOMAIN pending' \/ x \in file[q]
    <3>1. q \in Nat
      BY <2>2 DEF Settled, DataPages
    <3>2. q < w.i \/ q = w.i
      BY <1>2, <2>6, <3>1
    <3> QED
      BY <1>10, <2>1, <3>2, Zenon
  <2> QED
    BY <1>1, <1>2, <1>3, <1>4, <1>10, <2>1, <2>4, <2>5, <2>6 DEF PendingInv
<1>23. RecoverInv'
  BY <1>1, <1>3, <1>4, Zenon DEF RecoverInv, Recoverable
<1>24. BitInv' /\ StatusPinInv'
  BY <1>1, <1>3, <1>4 DEF BitInv, StatusPinInv, Recorded
<1> QED
  BY <1>9, <1>13, <1>14, <1>15, <1>16, <1>17, <1>18, <1>19, <1>20, <1>21, <1>22, <1>23, <1>24, ZenonT(60)

LEMMA CommitLogKeeps ==
  ASSUME CommitInv, CommitLog
  PROVE  CommitInv'
<1> USE DEF CommitInv
<1>1. /\ w.pc = "log" /\ Ahead(w.list, w.i) \ {PgLog} = {} /\ pending' = EmptyLog
      /\ w' = [w EXCEPT !.pc = "trans"] /\ slog' = Overlay(pending, slog)
      /\ UNCHANGED <<buf, lbuf, file, disk, ldisk, group, cur, s, bufgen, syncBuffers, pc, todo,
                     page, type, acked, up, flushes, crashes>>
  <2>1. w.job = "commit"
    BY Zenon DEF Types, Writers
  <2> QED
    BY <2>1, Zenon DEF CommitLog, At, Go, poolVars, backendVars, workVars, boundVars
<1>2. w' \in Writers /\ w'.pc = "trans" /\ w'.cart = w.cart /\ w'.list = w.list /\ w'.i = w.i
  BY <1>1, Zenon DEF Types, Writers, WriterPlaces
<1>3. /\ ~Idle /\ ~Idle' /\ Numbered /\ Numbered' /\ Cart' = Cart
      /\ Trans' = Trans /\ Settled' = Settled
  BY <1>1, <1>2 DEF Idle, Numbered, Cart, Trans, Settled
<1>4. slog = EmptyLog /\ disk = file /\ w.list = w.cart
  BY <1>1, Zenon DEF LogInv, FileInv, GroupInv
<1>5. /\ DOMAIN slog' = DOMAIN pending /\ \A q \in DOMAIN pending : slog'[q] = pending[q]
  <2>1. DOMAIN slog = {}
    BY <1>4, Zenon DEF EmptyLog
  <2>2. slog' = [p \in DOMAIN pending \cup DOMAIN slog |-> IF p \in DOMAIN pending THEN pending[p] ELSE slog[p]]
    BY <1>1, Zenon DEF Overlay
  <2> QED
    BY <2>1, <2>2, Zenon
<1>6. IsLog(slog') /\ IsLog(EmptyLog)
  BY <1>5, Zenon DEF IsLog, Types, EmptyLog
<1>7. Types'
  BY <1>1, <1>2, <1>6, Zenon DEF Types, IsLog
<1>8. GroupInv'
  BY <1>1, <1>2, <1>3, Zenon DEF GroupInv
<1>9. MembersInv' /\ BackendInv' /\ AckInv' /\ SoftInv' /\ UnsetInv' /\ ChangeInv'
  BY <1>1, ZenonT(60) DEF MembersInv, BackendInv, AckInv, SoftInv, UnsetInv, ChangeInv, Hard
<1>10. ShadowInv' /\ CartInv'
  BY <1>1, <1>3, Zenon DEF ShadowInv, CartInv
<1>11. FileInv' /\ LoopInv' /\ PendingInv' /\ LogInv'
  BY <1>1, <1>2, Zenon DEF FileInv, LoopInv, PendingInv, LogInv
<1>12. PinInv'
  BY <1>1, PinFrame, Zenon
<1>13. DirtyInv'
  <2>1. \A q : Passed(q)'
    BY <1>2, Zenon DEF Passed
  <2> QED
    BY <1>1, <1>3, <2>1, Zenon DEF DirtyInv
<1>14. RecoverInv'
  <2> SUFFICES ASSUME NEW x \in Settled, NEW p \in Writes[x]
               PROVE  IF p \in DOMAIN pending THEN x \in pending[p] ELSE x \in file[p]
    BY <1>1, <1>3, <1>4, <1>5, Zenon DEF RecoverInv, Recoverable
  <2>1. CASE p \in DOMAIN pending
    BY <1>1, <2>1, Zenon DEF PendingInv
  <2>2. CASE p \notin DOMAIN pending /\ x \in Trans
    <3>1. x \in file[p] \/ p \in Cart.buffers
      BY Zenon DEF CartInv
    <3>2. p \in DataPages
      BY SettledDone, Zenon
    <3>3. p \in Cart.buffers => p < w.i
      BY <1>1, <1>4, <3>2, SizeAssumption DEF Ahead, Cart, DataPages, PgLog, Types, Writers
    <3> QED
      BY <1>1, <2>2, <3>1, <3>3, Zenon DEF PendingInv
  <2>3. CASE p \notin DOMAIN pending /\ x \notin Trans
    <3>1. lbuf.data[x] = "commit"
      BY <2>3, Zenon DEF Settled
    <3>2. p \notin DOMAIN slog
      BY <1>4, Zenon DEF EmptyLog
    <3> QED
      BY <2>3, <3>1, <3>2, Zenon DEF RecoverInv, Recoverable
  <2> QED
    BY <2>1, <2>2, <2>3, Zenon
<1>15. BitInv' /\ StatusPinInv'
  BY <1>1, <1>2, <1>3, Zenon DEF BitInv, StatusPinInv, Recorded
<1> QED
  BY <1>7, <1>8, <1>9, <1>10, <1>11, <1>12, <1>13, <1>14, <1>15, Zenon

LEMMA LogTransactionsKeeps ==
  ASSUME CommitInv, LogTransactions
  PROVE  CommitInv' /\ UNCHANGED <<buf, ldisk, slog, disk, file, type, acked, pc>>
<1> USE DEF CommitInv
<1> DEFINE T == Cart.trans
<1>1. /\ w.pc = "trans"
      /\ UNCHANGED <<buf, file, disk, ldisk, slog, pending, group, cur, s, bufgen, syncBuffers, pc, todo,
                     page, type, acked, up, flushes, crashes>>
  BY Zenon DEF LogTransactions, At, fileVars, backendVars, workVars, boundVars
<1>2. /\ w' \in Writers /\ w'.cart = w.cart /\ w'.list = w.list /\ w'.i = w.i
      /\ w'.pc = IF T = {} THEN "ack" ELSE "transflush"
  BY DEF LogTransactions, Go, Cart, Types, Writers, WriterPlaces
<1>3. bufgen \in Nat /\ lbuf \in LogDescs /\ T \subseteq Xids /\ lbuf.generation <= bufgen
  BY Zenon DEF Types, Writers, WriteGroups, Cart, ShadowInv
<1>4. /\ lbuf' \in LogDescs /\ lbuf'.generation <= bufgen
      /\ \A x \in Xids : lbuf'.data[x] = IF x \in T THEN "commit" ELSE lbuf.data[x]
      /\ \/ lbuf'.shadow = lbuf.shadow /\ lbuf'.generation = lbuf.generation
         \/ lbuf'.shadow = lbuf.data /\ lbuf'.generation = bufgen
  <2>1. CASE T = {}
    <3>1. lbuf' = lbuf
      BY <2>1, Zenon DEF LogTransactions, Cart
    <3> QED
      BY <1>3, <2>1, <3>1, Zenon
  <2>2. CASE T # {}
    <3> DEFINE b == BufferGetBlock(lbuf, bufgen)
               d == [x \in Xids |-> IF x \in T THEN SetXidStatus(b.data[x], "commit") ELSE b.data[x]]
    <3>1. b \in LogDescs /\ Copied(b, lbuf, bufgen)
      BY <1>3, CopyFacts, Zenon DEF LogDescs, BufferGetBlock
    <3>2. lbuf' = [b EXCEPT !.data = d]
      BY <2>2, Zenon DEF LogTransactions, Cart
    <3> HIDE DEF b
    <3>3. d \in Statuses /\ \A x \in Xids : d[x] = IF x \in T THEN "commit" ELSE lbuf.data[x]
      BY <3>1, Zenon DEF LogDescs, DescsOf, Statuses, Copied, SetXidStatus
    <3> HIDE DEF d
    <3>4. /\ lbuf' \in LogDescs /\ lbuf'.data = d /\ lbuf'.shadow = b.shadow
          /\ lbuf'.generation = b.generation
      BY <3>1, <3>2, <3>3, Zenon DEF LogDescs, DescsOf
    <3>5. b.generation = bufgen /\ b.generation <= bufgen
      BY <1>3, <3>1 DEF Copied
    <3> QED
      BY <3>1, <3>3, <3>4, <3>5, Zenon DEF Copied
  <2> QED
    BY <2>1, <2>2, Zenon
<1>5. /\ ~Idle /\ ~Idle' /\ Numbered /\ Numbered' /\ Cart' = Cart /\ Trans = T
      /\ Trans' = T /\ \A p : Passed(p)'
  BY <1>1, <1>2, Zenon DEF Idle, Numbered, Cart, Trans, Passed
<1>6. Settled' = Settled
  BY <1>3, <1>4, <1>5, Zenon DEF Settled
<1> HIDE DEF T
<1>7. Types'
  BY <1>1, <1>2, <1>4, Zenon DEF Types
<1>8. GroupInv'
  BY <1>1, <1>2, <1>5, Zenon DEF GroupInv
<1>9. MembersInv' /\ BackendInv' /\ AckInv' /\ ChangeInv'
  BY <1>1, Zenon DEF MembersInv, BackendInv, AckInv, ChangeInv, Hard
<1>10. ShadowInv'
  BY <1>1, <1>4, <1>5, Zenon DEF ShadowInv
<1>11. FileInv' /\ LoopInv' /\ PendingInv' /\ LogInv'
  BY <1>1, <1>2, Zenon DEF FileInv, LoopInv, PendingInv, LogInv
<1>12. PinInv'
  BY <1>1, PinFrame, Zenon
<1>13. CartInv'
  BY <1>1, <1>5, <1>6, Zenon DEF CartInv
<1>14. DirtyInv'
  BY <1>1, <1>5, Zenon DEF DirtyInv
<1>15. RecoverInv'
  BY <1>1, <1>6, Zenon DEF RecoverInv, Recoverable
<1>16. BitInv'
  <2>1. \A x \in T : type[x] \in Outcomes \ {"abort"} /\ pc[x] \in Ending
    BY Zenon DEF MembersInv, Types, Writers, T, Cart
  <2>2. ASSUME NEW x \in Xids
        PROVE  /\ ldisk[x] = "commit" => lbuf'.data[x] = "commit"
               /\ lbuf'.shadow[x] = "commit" => lbuf'.data[x] = "commit"
               /\ lbuf'.data[x] = "commit" => type[x] \in Outcomes \ {"abort"} /\ pc[x] \in Ending
               /\ lbuf'.generation = bufgen /\ ldisk[x] = "commit" => lbuf'.shadow[x] = "commit"
    BY <1>4, <1>5, <2>1, <2>2, Zenon DEF BitInv
  <2>3. w'.pc = "transflush" => \A x \in T : lbuf'.data[x] = "commit"
    BY <1>3, <1>4, Zenon
  <2>4. w'.pc \in Recorded => T = {}
    BY <1>2, Zenon DEF Recorded
  <2> QED
    BY <1>1, <1>5, <2>2, <2>3, <2>4, Zenon DEF BitInv, T
<1>17. UnsetInv'
  <2> SUFFICES ASSUME NEW x \in Xids, pc[x] \in Early \cup {"waiting", "status"}
               PROVE  /\ lbuf'.data[x] \in {"inprogress", "commit"} /\ ldisk[x] \in {"inprogress", "commit"}
                      /\ lbuf'.generation # 0 => lbuf'.shadow[x] \in {"inprogress", "commit"}
    BY <1>1, Zenon DEF UnsetInv
  <2>1. /\ lbuf.data[x] \in {"inprogress", "commit"} /\ ldisk[x] \in {"inprogress", "commit"}
        /\ lbuf.generation # 0 => lbuf.shadow[x] \in {"inprogress", "commit"}
    BY Zenon DEF UnsetInv
  <2> QED
    BY <1>4, <2>1, Zenon
<1>18. StatusPinInv'
  <2>1. CASE T = {}
    <3>1. lbuf' = lbuf
      BY <2>1, Zenon DEF LogTransactions, Cart, T
    <3> QED
      BY <1>1, <1>5, <3>1, Zenon DEF StatusPinInv
  <2>2. CASE T # {}
    <3>1. w'.pc = "transflush"
      BY <1>2, <2>2, Zenon
    <3> QED
      BY <3>1, Zenon DEF StatusPinInv
  <2> QED
    BY <2>1, <2>2, Zenon
<1>19. SoftInv'
  <2> SUFFICES ASSUME crashes = 0, NEW x \in Xids, type[x] = "soft",
                      pc[x] \in {"statusregister", "statusdirty", "done"}
               PROVE  lbuf'.data[x] \in {"soft", "commit"}
    BY <1>1, Zenon DEF SoftInv
  <2> QED
    BY <1>4, Zenon DEF SoftInv
<1> QED
  BY <1>1, <1>7, <1>8, <1>9, <1>10, <1>11, <1>12, <1>13, <1>14, <1>15, <1>16, <1>17, <1>18, <1>19, ZenonT(60)

\* The page that is flushed is the one with every commit bit set.
LEMMA FlushTransactionsKeeps ==
  ASSUME CommitInv, FlushTransactions
  PROVE  CommitInv' /\ UNCHANGED <<buf, slog, disk, file, type, acked, pc>>
         /\ \A x \in Xids : ldisk[x] = "commit" => ldisk'[x] = "commit"
<1> USE DEF CommitInv
<1>1. /\ w.pc = "transflush" /\ w' = [w EXCEPT !.pc = "ack"]
      /\ UNCHANGED <<buf, file, disk, slog, pending, group, cur, s, bufgen, syncBuffers, pc, todo,
                     page, type, acked, up, flushes, crashes>>
  BY Zenon DEF FlushTransactions, At, Go, backendVars, workVars, boundVars
<1>2. w' \in Writers /\ w'.pc = "ack" /\ w'.cart = w.cart /\ w'.list = w.list /\ w'.i = w.i
  BY <1>1, Zenon DEF Types, Writers, WriterPlaces
<1>3. bufgen \in Nat /\ lbuf \in LogDescs /\ lbuf.generation <= bufgen
  BY Zenon DEF Types, ShadowInv
<1>4. /\ lbuf' \in LogDescs /\ lbuf'.generation = bufgen /\ lbuf'.generation <= bufgen
      /\ lbuf'.data = lbuf.data /\ lbuf'.shadow = lbuf.data /\ ldisk' = lbuf.data
      /\ ldisk' \in Statuses
  <2> DEFINE b == WriteBufferIO(lbuf, "flush")
             a == ShadowBufferIfNeeded(b, bufgen, TRUE)
             c == TerminateBufferIO(a)
  <2>1. b \in LogDescs /\ SameImages(b, lbuf)
    BY <1>3, WriteFlagFacts, Zenon DEF LogDescs
  <2>2. ldisk' = a.shadow /\ lbuf' = c
    BY Zenon DEF FlushTransactions, AdvanceBufferIO
  <2> HIDE DEF b
  <2>3. b.generation <= bufgen
    BY <1>3, <2>1, Zenon DEF SameImages
  <2>4. a \in LogDescs /\ Copied(a, b, bufgen) /\ a.shadow = b.data
    BY <1>3, <2>1, <2>3, FlushFacts, Zenon DEF LogDescs
  <2> HIDE DEF a
  <2>5. c \in LogDescs /\ SameImages(c, a)
    BY <2>4, TerminateFacts, Zenon DEF LogDescs
  <2> HIDE DEF c
  <2>6. lbuf'.generation = bufgen /\ lbuf.data \in Statuses
    BY <1>3, <2>2, <2>4, <2>5, Zenon DEF SameImages, Copied, LogDescs, DescsOf
  <2>7. lbuf'.generation <= bufgen
    BY <1>3, <2>6
  <2> QED
    BY <2>1, <2>2, <2>4, <2>5, <2>6, <2>7, Zenon DEF SameImages, Copied
<1>5. /\ ~Idle /\ ~Idle' /\ Numbered /\ Numbered' /\ Cart' = Cart
      /\ Trans' = Trans /\ Settled' = Settled /\ \A p : Passed(p)'
  BY <1>1, <1>2, <1>4 DEF Idle, Numbered, Cart, Trans, Settled, Passed
<1>6. \A x \in Xids : ldisk[x] = "commit" => ldisk'[x] = "commit"
  BY <1>4, Zenon DEF BitInv
<1>7. Types'
  BY <1>1, <1>2, <1>4, Zenon DEF Types
<1>8. GroupInv'
  BY <1>1, <1>2, <1>5, Zenon DEF GroupInv
<1>9. MembersInv' /\ BackendInv' /\ ChangeInv'
  BY <1>1, Zenon DEF MembersInv, BackendInv, ChangeInv, Hard
<1>10. AckInv'
  BY <1>1, <1>6, Zenon DEF AckInv, Hard, Types
<1>11. ShadowInv'
  BY <1>1, <1>4, <1>5, Zenon DEF ShadowInv
<1>12. FileInv' /\ LoopInv' /\ PendingInv' /\ LogInv'
  BY <1>1, <1>2, Zenon DEF FileInv, LoopInv, PendingInv, LogInv
<1>13. PinInv'
  BY <1>1, PinFrame, Zenon
<1>14. CartInv'
  BY <1>1, <1>5, Zenon DEF CartInv
<1>15. DirtyInv'
  BY <1>1, <1>5, Zenon DEF DirtyInv
<1>16. RecoverInv'
  BY <1>1, <1>4, <1>5, Zenon DEF RecoverInv, Recoverable
<1>17. BitInv'
  BY <1>1, <1>2, <1>4, <1>5, Zenon DEF BitInv
<1>18. UnsetInv' /\ SoftInv'
  BY <1>1, <1>4, Zenon DEF UnsetInv, SoftInv
<1>19. StatusPinInv'
  BY <1>4, Zenon DEF StatusPinInv
<1> QED
  BY <1>1, <1>6, <1>7, <1>8, <1>9, <1>10, <1>11, <1>12, <1>13, <1>14, <1>15, <1>16, <1>17, <1>18, <1>19, ZenonT(60)

\* The committers that are answered are in pg_log.
LEMMA AcknowledgeKeeps ==
  ASSUME SafeSettings, CommitInv, Acknowledge
  PROVE  /\ CommitInv' /\ UNCHANGED <<buf, lbuf, ldisk, slog, disk, file, type>>
         /\ acked' = acked \cup Cart.waiters
         /\ \A x \in Cart.waiters : x \in Xids /\ Hard(x) /\ ldisk[x] = "commit"
         /\ \A y \in Xids : pc'[y] = "lost" <=> pc[y] = "lost"
<1> USE DEF CommitInv
<1> DEFINE X == Cart.waiters
<1>1. /\ w.pc = "ack" /\ w' = [w EXCEPT !.pc = "collect"]
      /\ UNCHANGED <<buf, lbuf, file, disk, ldisk, slog, pending, cur, s, bufgen, syncBuffers, todo,
                     page, type, up, flushes, crashes>>
  <2>1. ~(syncBuffers < MaxLogCount)
    BY DEF Types, SafeSettings
  <2> QED
    BY <2>1, Zenon DEF Acknowledge, At, Go, poolVars, fileVars, workVars, boundVars
<1>2. w' \in Writers /\ w'.pc = "collect" /\ w'.cart = w.cart /\ w'.list = w.list /\ w'.i = w.i
  BY <1>1, Zenon DEF Types, Writers, WriterPlaces
<1>3. w.cart \in Groups /\ Cart \in WriteGroups
  BY Zenon DEF Types, Writers, Cart
<1>4. /\ group' \in [Groups \cup {Sync} -> WriteGroups] /\ group'[Sync] = group[Sync]
      /\ \A g \in Groups : /\ group'[g].buffers = group[g].buffers
                           /\ group'[g].trans = group[g].trans
                           /\ group'[g].waiters \subseteq group[g].waiters
                           /\ group'[g].syncers = group[g].syncers
                           /\ group'[g].generation = group[g].generation
                           /\ g # w.cart => group'[g] = group[g]
  <2> DEFINE c == [group[w.cart] EXCEPT !.waiters = {}, !.currstate = "LOGGED"]
  <2>1. /\ c \in WriteGroups /\ c.buffers = Cart.buffers /\ c.trans = Cart.trans /\ c.waiters = {}
        /\ c.syncers = Cart.syncers /\ c.generation = Cart.generation
    BY <1>3, Zenon DEF WriteGroups, Cart
  <2>2. group' = [group EXCEPT ![w.cart] = c]
    BY <1>3, Zenon DEF Acknowledge, Types
  <2> HIDE DEF c
  <2>3. /\ group' \in [Groups \cup {Sync} -> WriteGroups] /\ group'[Sync] = group[Sync]
        /\ group'[w.cart] = c /\ \A h \in Groups : h # w.cart => group'[h] = group[h]
    BY <1>3, <2>1, <2>2, PutGroup, Zenon
  <2> QED
    BY <2>1, <2>3, Zenon DEF Cart
<1>5. X \subseteq Xids /\ X \subseteq Cart.trans
  BY <1>3, Zenon DEF MembersInv, WriteGroups, Cart
<1>6. \A x \in X : Hard(x) /\ ldisk[x] = "commit" /\ pc[x] \in {"waiting", "done"}
  <2>1. \A x \in X : Hard(x) /\ pc[x] \in Ending
    BY <1>3, <1>5, Zenon DEF MembersInv, Cart
  <2>2. \A x \in X : ldisk[x] = "commit"
    BY <1>1, <1>5, Zenon DEF BitInv, Recorded
  <2>3. \A x \in X : pc[x] \in {"waiting", "done"}
    BY <1>5, <2>1, Zenon DEF BackendInv, Ending
  <2> QED
    BY <2>1, <2>2, <2>3, Zenon
<1>7. acked' = acked \cup X /\ pc' = [x \in Xids |-> IF x \in X THEN "done" ELSE pc[x]]
  BY Zenon DEF Acknowledge, Release, Cart
<1> HIDE DEF X
<1>8. \A y \in Xids : pc'[y] = IF y \in X THEN "done" ELSE pc[y]
  BY <1>7, Zenon
<1>9. \A y \in Xids : pc'[y] = pc[y] \/ (pc[y] \in {"waiting", "done"} /\ pc'[y] = "done" /\ y \in X)
  BY <1>6, <1>8, Zenon
<1>10. /\ ~Idle /\ ~Idle' /\ Numbered /\ Numbered' /\ \A p : Passed(p) /\ Passed(p)'
       /\ Cart'.buffers = Cart.buffers /\ Cart'.trans = Cart.trans /\ Cart'.generation = Cart.generation
  BY <1>1, <1>2, <1>3, <1>4, Zenon DEF Idle, Numbered, Cart, Passed
<1>11. Trans' = Trans /\ Settled' = Settled
  BY <1>1, <1>10, Zenon DEF Trans, Settled
<1>12. group'[cur] = group[cur] /\ cur \in Groups
  <2>1. cur # w.cart /\ cur \in Groups
    BY <1>3, <1>10 DEF GroupInv, Other, Groups, Types
  <2> QED
    BY <1>4, <2>1, ZenonT(60)
<1>13. Types'
  <2>1. pc' \in [Xids -> Early \cup Ending \cup {"lost"}]
    BY <1>7, Zenon DEF Types, Ending
  <2> QED
    BY <1>1, <1>2, <1>4, <1>5, <1>7, <2>1, ZenonT(60) DEF Types
<1>14. GroupInv'
  BY <1>1, <1>2, <1>10, <1>12, Zenon DEF GroupInv
<1>15. MembersInv'
  <2>1. \A g \in Groups : group[g].trans \subseteq Xids
    BY Zenon DEF Types, WriteGroups
  <2>2. \A y \in Xids : pc[y] \in Ending => pc'[y] \in Ending
    BY <1>9, Zenon DEF Ending
  <2> QED
    BY <1>1, <1>4, <2>1, <2>2, Zenon DEF MembersInv, Hard
<1>16. BackendInv'
  BY <1>1, <1>6, <1>9 DEF BackendInv, Hard, Early, Ending
<1>17. AckInv'
  <2>1. \A x \in acked : x \in Xids
    BY Zenon DEF Types
  <2> QED
    BY <1>1, <1>5, <1>6, <1>7, <1>8, <2>1, Zenon DEF AckInv, Hard
<1>18. ChangeInv'
  BY <1>1, <1>9, ChangeFrame, Zenon
<1>19. ShadowInv' /\ CartInv' /\ RecoverInv'
  BY <1>1, <1>2, <1>10, <1>11, Zenon DEF ShadowInv, CartInv, RecoverInv, Recoverable
<1>20. FileInv' /\ LoopInv' /\ PendingInv' /\ LogInv'
  BY <1>1, <1>2, Zenon DEF FileInv, LoopInv, PendingInv, LogInv
<1>21. PinInv'
  <2>1. \A y \in Xids : pc[y] = "register" => pc'[y] = "register"
    BY <1>9, Zenon
  <2> QED
    BY <1>1, <1>4, <2>1, PinFrame, Zenon
<1>22. DirtyInv'
  BY <1>1, <1>9, <1>10, Zenon DEF DirtyInv
<1>23. BitInv'
  <2>1. \A y \in Xids : pc[y] \in Ending => pc'[y] \in Ending
    BY <1>9, Zenon DEF Ending
  <2> QED
    BY <1>1, <1>2, <1>10, <2>1, Zenon DEF BitInv, Recorded
<1>24. UnsetInv'
  <2>1. \A y \in Xids : pc'[y] \in Early \cup {"waiting", "status"} => pc'[y] = pc[y]
    BY <1>9, Zenon DEF Early
  <2> QED
    BY <1>1, <2>1, Zenon DEF UnsetInv
<1>25. StatusPinInv'
  <2>1. \A y \in Xids : pc[y] = "statusregister" => pc'[y] = "statusregister"
    BY <1>9, Zenon
  <2> QED
    BY <1>1, <1>2, <1>4, <1>10, <1>12, <2>1, Zenon DEF StatusPinInv
<1>26. SoftInv'
  BY <1>1, <1>6, <1>8, Zenon DEF SoftInv, Hard
<1>27. \A y \in Xids : pc'[y] = "lost" <=> pc[y] = "lost"
  BY <1>9, Zenon
<1> QED
  BY <1>1, <1>5, <1>6, <1>7, <1>13, <1>14, <1>15, <1>16, <1>17, <1>18, <1>19, <1>20, <1>21, <1>22, <1>23, ZenonT(60),
     <1>24, <1>25, <1>26, <1>27, Zenon DEF X
=============================================================================
