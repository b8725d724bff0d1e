------------------------- MODULE GroupCommit_proofs -------------------------
(***************************************************************************)
(* Proofs about GroupCommit, second part: the data pages are written, the  *)
(* log is cleared, and the server stops and starts again; then what the    *)
(* invariant is for.  An answered commit is durable, a commit in pg_log is *)
(* complete, soft commits show, no change is lost while the server is up,  *)
(* and the whole implements DurableCommit.                                 *)
(***************************************************************************)
EXTENDS GroupLog_proofs

-----------------------------------------------------------------------------
(* The second half of a write group.                                       *)

LEMMA CollectSyncKeeps ==
  ASSUME CommitInv, CollectSync
  PROVE  CommitInv'
<1> USE DEF CommitInv
<1>1. /\ w.pc = "collect" /\ w' = [w EXCEPT !.pc = "beginsync", !.list = w.cart] /\ syncBuffers' = 0
      /\ UNCHANGED <<buf, lbuf, file, disk, ldisk, slog, pending, cur, s, bufgen, pc, todo,
                     page, type, acked, up, flushes, crashes>>
  BY Zenon DEF CollectSync, At, poolVars, fileVars, backendVars, workVars, boundVars
<1>2. /\ w' \in Writers /\ w'.pc = "beginsync" /\ w'.cart = w.cart /\ w'.list = w.cart
  BY <1>1, Zenon DEF Types, Writers, WriterPlaces
<1>3. group' = group
  <2> DEFINE c == [group[w.cart] EXCEPT !.buffers = group[w.cart].buffers \cup group[Sync].buffers]
  <2>1. w.cart \in Groups /\ w.cart # Sync /\ group[w.cart] \in WriteGroups
    BY DEF Types, Writers, Groups, Sync
  <2>2. group[Sync] = EmptyGroup(0) /\ group[Sync].buffers = {}
    BY DEF Types, EmptyGroup
  <2>3. c = group[w.cart]
    BY <2>1, <2>2, Zenon DEF WriteGroups
  <2>4. group' = [[group EXCEPT ![w.cart] = c] EXCEPT ![Sync] = EmptyGroup(0)]
    BY <2>1, Zenon DEF CollectSync, Types
  <2> HIDE DEF c
  <2> QED
    BY <2>1, <2>2, <2>3, <2>4, Zenon DEF Types
<1>4. /\ ~Idle /\ ~Idle' /\ Numbered /\ Numbered' /\ Cart' = Cart
      /\ Trans' = Trans /\ Settled' = Settled /\ \A p : Passed(p)'
  BY <1>1, <1>2, <1>3 DEF Idle, Numbered, Cart, Trans, Settled, Passed
<1>5. Types'
  BY <1>1, <1>2, <1>3, Zenon DEF Types
<1>6. GroupInv' /\ ShadowInv' /\ CartInv'
  BY <1>1, <1>2, <1>3, <1>4, Zenon DEF GroupInv, ShadowInv, CartInv
<1>7. MembersInv' /\ BackendInv' /\ AckInv' /\ SoftInv' /\ UnsetInv' /\ ChangeInv' /\ PinInv'
  BY <1>1, <1>3, ZenonT(60) DEF MembersInv, BackendInv, AckInv, SoftInv, UnsetInv, ChangeInv, PinInv, Hard
<1>8. FileInv' /\ LoopInv' /\ PendingInv' /\ LogInv'
  BY <1>1, <1>2, Zenon DEF FileInv, LoopInv, PendingInv, LogInv
<1>9. DirtyInv'
  BY <1>1, <1>4, Zenon DEF DirtyInv
<1>10. RecoverInv' /\ BitInv' /\ StatusPinInv'
  BY <1>1, <1>2, <1>3, <1>4, Zenon DEF RecoverInv, Recoverable, BitInv, StatusPinInv, Recorded
<1> QED
  BY <1>5, <1>6, <1>7, <1>8, <1>9, <1>10, Zenon

LEMMA BeginSyncKeeps ==
  ASSUME CommitInv, BeginSync
  PROVE  CommitInv'
<1> USE DEF CommitInv
<1>1. /\ w.pc = "beginsync" /\ w' = [w EXCEPT !.pc = "sync", !.i = 1]
      /\ UNCHANGED <<buf, lbuf, file, disk, ldisk, slog, pending, group, cur, s, syncBuffers, pc, todo,
                     page, type, acked, up, flushes, crashes>>
  BY Zenon DEF BeginSync, At, poolVars, fileVars, backendVars, workVars, boundVars
<1>2. /\ w' \in Writers /\ w'.pc = "sync" /\ w'.cart = w.cart /\ w'.list = w.list /\ w'.i = 1
  BY <1>1, Zenon DEF Types, Writers, WriterPlaces
<1>3. bufgen' = bufgen /\ w.list = w.cart
  BY <1>1, Zenon DEF BeginSync, GroupInv, Numbered, Cart
<1>4. /\ ~Idle /\ ~Idle' /\ Numbered /\ Numbered' /\ Cart' = Cart
      /\ Trans' = Trans /\ Settled' = Settled /\ \A p : Passed(p)'
  BY <1>1, <1>2 DEF Idle, Numbered, Cart, Trans, Settled, Passed
<1>5. Types'
  BY <1>1, <1>2, <1>3, Zenon DEF Types
<1>6. GroupInv' /\ ShadowInv' /\ CartInv'
  BY <1>1, <1>2, <1>3, <1>4, Zenon DEF GroupInv, ShadowInv, CartInv
<1>7. MembersInv' /\ BackendInv' /\ AckInv' /\ SoftInv' /\ UnsetInv' /\ ChangeInv' /\ PinInv'
  BY <1>1, ZenonT(60) DEF MembersInv, BackendInv, AckInv, SoftInv, UnsetInv, ChangeInv, PinInv, Hard
<1>8. FileInv' /\ PendingInv' /\ LogInv'
  BY <1>1, <1>2, Zenon DEF FileInv, PendingInv, LogInv
<1>9. LoopInv'
  <2>1. \A p \in Cart.buffers : 1 <= p
    <3>1. Cart.buffers \subseteq DataPages \cup {PgLog}
      BY Zenon DEF Types, Writers, WriteGroups, Cart
    <3>2. \A p \in DataPages \cup {PgLog} : 1 <= p
      BY SizeAssumption DEF DataPages, PgLog
    <3> QED
      BY <3>1, <3>2, Zenon
  <2> QED
    BY <1>2, <1>4, <2>1, Zenon DEF LoopInv
<1>10. DirtyInv'
  BY <1>1, <1>4, Zenon DEF DirtyInv
<1>11. RecoverInv' /\ BitInv' /\ StatusPinInv'
  BY <1>1, <1>2, <1>3, <1>4, Zenon DEF RecoverInv, Recoverable, BitInv, StatusPinInv, Recorded
<1> QED
  BY <1>5, <1>6, <1>7, <1>8, <1>9, <1>10, <1>11, Zenon

LEMMA SyncStartKeeps ==
  ASSUME CommitInv, SyncStart
  PROVE  CommitInv' /\ \A q \in DataPages : buf'[q].data = buf[q].data
<1> USE DEF CommitInv
<1> DEFINE ahead == Ahead(w.list, w.i)
           mode == IF group[w.list].currstate = "FLUSHING" THEN "normal" ELSE "commit"
<1>1. /\ w.pc = "sync" /\ ahead # {} /\ Min(ahead) # PgLog /\ w.list = w.cart
      /\ UNCHANGED <<lbuf, file, disk, ldisk, slog, pending, group, cur, s, bufgen, syncBuffers, pc, todo,
                     page, type, acked, up, flushes, crashes>>
  BY Zenon DEF SyncStart, At, GroupInv, fileVars, backendVars, workVars, boundVars
<1>2. PICK p : /\ p = Min(ahead) /\ p \in ahead /\ \A q \in ahead : p <= q
               /\ p \in Cart.buffers /\ w.i <= p
  <2>1. ahead \subseteq Ahead(w.list, w.i)
    BY Zenon
  <2> HIDE DEF ahead
  <2>2. /\ Min(ahead) \in ahead /\ \A q \in ahead : Min(ahead) <= q
        /\ \A q \in ahead : q \in group[w.list].buffers /\ w.i <= q
    BY <1>1, <2>1, AheadFacts, Zenon
  <2> QED
    BY <1>1, <2>2, Zenon DEF Cart
<1>3. p \in DataPages /\ p \in Nat /\ Cart.buffers \subseteq DataPages \cup {PgLog} /\ w.i \in Nat
  BY <1>1, <1>2 DEF Types, Writers, WriteGroups, Cart, DataPages
<1>4. \A q \in Cart.buffers : p <= q
  <2>1. \A q \in Cart.buffers : q \in Nat /\ w.i <= q
    BY <1>1, <1>3, SizeAssumption DEF LoopInv, DataPages, PgLog
  <2>2. \A q \in Cart.buffers : q \in ahead
    BY <1>1, <1>3, <2>1, Zenon DEF Ahead, Cart
  <2> QED
    BY <1>2, <2>2, Zenon
<1>5. buf' = [buf EXCEPT ![p] = WriteBufferIO(buf[p], mode)] /\ w' = [w EXCEPT !.pc = "synccopy", !.i = p]
  BY <1>2, Zenon DEF SyncStart, Types
<1> HIDE DEF ahead, mode
<1>6. /\ buf' \in [DataPages -> Descs]
      /\ \A q \in DataPages :
           /\ buf'[q].data = buf[q].data /\ buf'[q].shadow = buf[q].shadow
           /\ buf'[q].generation = buf[q].generation
           /\ q # p => buf'[q] = buf[q]
  <2>1. buf[p] \in DescsOf(SUBSET Xids, Images)
    BY <1>3, Zenon DEF Types, Descs
  <2> DEFINE c == WriteBufferIO(buf[p], mode)
  <2>2. c \in Descs /\ SameImages(c, buf[p])
    BY <2>1, WriteFlagFacts, Zenon DEF Descs
  <2> HIDE DEF c
  <2>3. buf' = [buf EXCEPT ![p] = c]
    BY <1>5, Zenon DEF c
  <2>4. /\ buf' \in [DataPages -> Descs] /\ buf'[p] = c
        /\ \A q \in DataPages : q # p => buf'[q] = buf[q]
    BY <1>3, <2>2, <2>3, PutPage, Zenon
  <2> QED
    BY <2>2, <2>4, Zenon DEF SameImages
<1>7. /\ w' \in Writers /\ w'.cart = w.cart /\ w'.list = w.list /\ w'.pc = "synccopy" /\ w'.i = p
  <2>1. w \in Writers
    BY Zenon DEF Types
  <2> QED
    BY <1>3, <1>5, <2>1, Zenon DEF Writers, WriterPlaces
<1>8. /\ ~Idle /\ ~Idle' /\ Numbered /\ Numbered' /\ Cart' = Cart
      /\ Trans' = Trans /\ Settled' = Settled /\ \A q : Passed(q) /\ Passed(q)'
  BY <1>1, <1>7, Zenon DEF Idle, Numbered, Cart, Trans, Settled, Passed
<1>9. Types'
  BY <1>1, <1>6, <1>7, Zenon DEF Types
<1>10. GroupInv'
  BY <1>1, <1>7, <1>8, Zenon DEF GroupInv
<1>11. MembersInv' /\ BackendInv' /\ AckInv' /\ SoftInv' /\ UnsetInv'
  BY <1>1, ZenonT(60) DEF MembersInv, BackendInv, AckInv, SoftInv, UnsetInv, Hard
<1>12. ChangeInv'
  BY <1>1, <1>6, ChangeFrame, Zenon
<1>13. ShadowInv' /\ CartInv'
  BY <1>1, <1>6, <1>8, Zenon DEF ShadowInv, CartInv
<1>14. FileInv' /\ LogInv' /\ PendingInv'
  BY <1>1, <1>6, <1>7, Zenon DEF FileInv, LogInv, PendingInv
<1>15. PinInv'
  BY <1>1, <1>6, PinFrame, Zenon
<1>16. DirtyInv'
  <2>1. \A y \in Xids : Writes[y] \subseteq DataPages
    BY SizeAssumption, Zenon
  <2> QED
    BY <1>1, <1>2, <1>6, <1>8, <2>1, Zenon DEF DirtyInv
<1>17. LoopInv'
  BY <1>2, <1>3, <1>4, <1>7, <1>8, ZenonT(60) DEF LoopInv
<1>18. RecoverInv' /\ BitInv' /\ StatusPinInv'
  BY <1>1, <1>7, <1>8 DEF RecoverInv, Recoverable, BitInv, StatusPinInv, Recorded
<1> QED
  BY <1>6, <1>9, <1>10, <1>11, <1>12, <1>13, <1>14, <1>15, <1>16, <1>17, <1>18, Zenon

\* The file gets every change that is in the page.
LEMMA SyncCopyKeeps ==
  ASSUME CommitInv, SyncCopy
  PROVE  CommitInv' /\ \A q \in DataPages : buf'[q].data = buf[q].data
<1> USE DEF CommitInv
<1>1. /\ w.pc = "synccopy" /\ w' = [w EXCEPT !.pc = "sync", !.i = w.i + 1]
      /\ UNCHANGED <<lbuf, disk, ldisk, slog, pending, cur, s, bufgen, syncBuffers, pc, todo,
                     page, type, acked, up, flushes, crashes>>
  BY Zenon DEF SyncCopy, At, backendVars, workVars, boundVars, Types, Writers
<1>2. w.i \in DataPages /\ w.i \in Cart.buffers /\ w.i \in Nat /\ w.list = w.cart /\ w.cart \in Groups
  BY <1>1, Zenon DEF LoopInv, Types, Writers, GroupInv
<1>3. /\ w' \in Writers /\ w'.pc = "sync" /\ w'.i = w.i + 1 /\ w'.cart = w.cart /\ w'.list = w.list
  <2>1. w \in Writers /\ w.i + 1 \in Nat
    BY <1>2 DEF Types
  <2> QED
    BY <1>1, <2>1, Zenon DEF Writers, WriterPlaces
<1> DEFINE a == ShadowBufferIfNeeded(buf[w.i], bufgen, TRUE)
<1>4. a \in Descs /\ Copied(a, buf[w.i], bufgen) /\ a.shadow = buf[w.i].data
  <2>1. bufgen \in Nat /\ buf[w.i] \in DescsOf(SUBSET Xids, Images) /\ buf[w.i].generation <= bufgen
    BY <1>2, Zenon DEF Types, ShadowInv, Descs
  <2>2. SUBSET Xids \subseteq Images
    BY Zenon DEF Images
  <2> QED
    BY <2>1, <2>2, FlushFacts, Zenon DEF Descs
<1>5. /\ file' = [file EXCEPT ![w.i] = a.shadow] /\ buf' = [buf EXCEPT ![w.i] = TerminateBufferIO(a)]
      /\ group' = [group EXCEPT ![w.list].buffers = @ \ {w.i}]
  BY Zenon DEF SyncCopy, AdvanceBufferIO
<1> HIDE DEF a
<1>6. /\ buf' \in [DataPages -> Descs]
      /\ buf'[w.i].shadow = buf[w.i].data /\ buf'[w.i].generation = bufgen
      /\ \A q \in DataPages :
           /\ buf'[q].data = buf[q].data /\ buf'[q].dirty = buf[q].dirty
           /\ q # w.i => buf'[q] = buf[q]
  <2> DEFINE c == TerminateBufferIO(a)
  <2>1. c \in Descs /\ SameImages(c, a) /\ c.dirty = a.dirty
    BY <1>4, TerminateFacts, Zenon DEF Descs
  <2>2. /\ c.data = buf[w.i].data /\ c.dirty = buf[w.i].dirty /\ c.shadow = buf[w.i].data
        /\ c.generation = bufgen
    BY <1>4, <2>1, Zenon DEF SameImages, Copied
  <2> HIDE DEF c
  <2>3. buf' = [buf EXCEPT ![w.i] = c]
    BY <1>5, Zenon DEF c
  <2>4. /\ buf' \in [DataPages -> Descs] /\ buf'[w.i] = c
        /\ \A q \in DataPages : q # w.i => buf'[q] = buf[q]
    BY <1>2, <2>1, <2>3, PutPage, Zenon
  <2> QED
    BY <2>2, <2>4, Zenon
<1>7. buf[w.i].data \subseteq Xids
  BY <1>2, Zenon DEF Types, Descs, DescsOf
<1>8. /\ file' \in [DataPages -> SUBSET Xids] /\ file'[w.i] = buf[w.i].data
      /\ \A q \in DataPages : q # w.i => file'[q] = file[q]
      /\ \A q \in DataPages : file[q] \subseteq file'[q]
  <2>1. file \in [DataPages -> SUBSET Xids] /\ \A q \in DataPages : file[q] \subseteq buf[q].data
    BY Zenon DEF Types, FileInv
  <2> QED
    BY <1>2, <1>4, <1>5, <1>7, <2>1, Zenon
<1>9. /\ group' \in [Groups \cup {Sync} -> WriteGroups] /\ group'[Sync] = group[Sync]
      /\ group'[w.cart].buffers = Cart.buffers \ {w.i}
      /\ \A g \in Groups : /\ group'[g].trans = group[g].trans
                           /\ group'[g].waiters = group[g].waiters
                           /\ group'[g].syncers = group[g].syncers
                           /\ group'[g].generation = group[g].generation
                           /\ g # w.cart => group'[g] = group[g]
  <2> DEFINE c == [group[w.cart] EXCEPT !.buffers = group[w.cart].buffers \ {w.i}]
  <2>1. group[w.cart] \in WriteGroups
    BY <1>2, Zenon DEF Types
  <2>2. /\ c \in WriteGroups /\ c.buffers = Cart.buffers \ {w.i} /\ c.trans = Cart.trans
        /\ c.waiters = Cart.waiters /\ c.syncers = Cart.syncers /\ c.generation = Cart.generation
    BY <2>1, Zenon DEF WriteGroups, Cart
  <2>3. group' = [group EXCEPT ![w.cart] = c]
    BY <1>2, <1>5, Zenon DEF Types
  <2> HIDE DEF c
  <2>4. /\ group' \in [Groups \cup {Sync} -> WriteGroups] /\ group'[Sync] = group[Sync]
        /\ group'[w.cart] = c /\ \A h \in Groups : h # w.cart => group'[h] = group[h]
    BY <1>2, <2>2, <2>3, PutGroup, Zenon
  <2> QED
    BY <2>2, <2>4, Zenon DEF Cart
<1>10. /\ ~Idle /\ ~Idle' /\ Numbered /\ Numbered' /\ \A q : Passed(q) /\ Passed(q)'
       /\ Cart'.buffers = Cart.buffers \ {w.i} /\ Cart'.trans = Cart.trans
       /\ Cart'.generation = Cart.generation
  BY <1>1, <1>2, <1>3, <1>9, Zenon DEF Idle, Numbered, Cart, Passed
<1>11. Trans' = Trans /\ Settled' = Settled
  BY <1>1, <1>10, Zenon DEF Trans, Settled
<1>12. cur # w.cart /\ group'[cur] = group[cur] /\ cur \in Groups
  <2>1. cur # w.cart /\ cur \in Groups
    BY <1>2, <1>10 DEF GroupInv, Other, Groups, Types
  <2> QED
    BY <1>9, <2>1, Zenon
<1>13. Types'
  BY <1>1, <1>3, <1>6, <1>8, <1>9, Zenon DEF Types
<1>14. GroupInv'
  BY <1>1, <1>2, <1>3, <1>10, <1>12, Zenon DEF GroupInv
<1>15. MembersInv'
  BY <1>1, <1>9, MembersFrame, Zenon
<1>16. BackendInv' /\ AckInv' /\ SoftInv' /\ UnsetInv'
  BY <1>1, Zenon DEF BackendInv, AckInv, SoftInv, UnsetInv, Hard
<1>17. ChangeInv'
  BY <1>1, <1>6, ChangeFrame, ZenonT(60)
<1>18. ShadowInv'
  BY <1>1, <1>2, <1>6, <1>10, SMTT(30) DEF ShadowInv, Types
<1>19. FileInv'
  BY <1>1, <1>3, <1>6, <1>8 DEF FileInv
<1>20. LogInv' /\ PendingInv'
  BY <1>1, <1>3, Zenon DEF LogInv, PendingInv
<1>21. PinInv'
  <2> SUFFICES ASSUME NEW q \in DataPages, NEW x \in buf[q].data, x \notin file'[q]
               PROVE  (\E g \in Groups : q \in group'[g].buffers) \/ (page[x] = q /\ pc[x] = "register")
    BY <1>1, <1>6 DEF PinInv
  <2>1. q # w.i /\ x \notin file[q]
    BY <1>8, Zenon
  <2>2. \A g \in Groups : q \in group[g].buffers => q \in group'[g].buffers
    BY <1>9, <2>1, Zenon DEF Cart
  <2> QED
    BY <2>1, <2>2, Zenon DEF PinInv
<1>22. CartInv'
  <2> SUFFICES ASSUME NEW x \in Settled, NEW q \in Writes[x]
               PROVE  x \in file'[q] \/ q \in Cart.buffers \ {w.i}
    BY <1>10, <1>11, Zenon DEF CartInv
  <2>1. q \in DataPages /\ x \in buf[q].data
    BY SettledDone, Zenon
  <2>2. x \in file[q] \/ q \in Cart.buffers
    BY Zenon DEF CartInv
  <2> QED
    BY <1>8, <2>1, <2>2, Zenon
<1>23. DirtyInv'
  <2> SUFFICES ASSUME NEW y \in Xids, pc[y] # "lost", NEW q \in Writes[y] \ todo[y]
               PROVE  buf'[q].dirty \/ y \in file'[q] \/ q \in Cart.buffers \ {w.i}
    BY <1>1, <1>10, Zenon DEF DirtyInv
  <2>1. q \in DataPages
    BY SizeAssumption, Zenon
  <2>2. y \in buf[q].data
    BY Zenon DEF ChangeInv
  <2>3. buf[q].dirty \/ y \in file[q] \/ q \in Cart.buffers
    BY Zenon DEF DirtyInv
  <2> QED
    BY <1>6, <1>8, <2>1, <2>2, <2>3, Zenon
<1>24. LoopInv'
  <2>1. \A q \in Cart.buffers \ {w.i} : w.i + 1 <= q
    <3>1. \A q \in Cart.buffers : q \in Nat /\ w.i <= q
      BY <1>1, <1>2, SizeAssumption, SMTT(30) DEF LoopInv, Types, WriteGroups, Cart, DataPages, PgLog
    <3> QED
      BY <1>2, <3>1
  <2> QED
    BY <1>3, <1>10, <2>1, Zenon DEF LoopInv
<1>25. RecoverInv'
  <2> SUFFICES ASSUME NEW x \in Settled, NEW q \in Writes[x]
               PROVE  IF q \in DOMAIN slog THEN x \in slog[q] ELSE x \in disk[q] \cap file'[q]
    BY <1>1, <1>11, Zenon DEF RecoverInv, Recoverable
  <2>1. Recoverable(x, q)
    BY <1>1 DEF RecoverInv
  <2>2. q \in DataPages
    BY SettledDone, Zenon
  <2> QED
    BY <1>8, <2>1, <2>2, Zenon DEF Recoverable
<1>26. BitInv'
  BY <1>1, <1>3, <1>10, Zenon DEF BitInv, Recorded
<1>27. StatusPinInv'
  <2>1. \A g \in Groups : PgLog \in group[g].buffers => PgLog \in group'[g].buffers
    <3>1. PgLog # w.i
      BY <1>2, SizeAssumption DEF DataPages, PgLog
    <3> QED
      BY <1>9, <3>1, Zenon DEF Cart
  <2> QED
    BY <1>1, <1>3, <1>10, <1>12, <2>1 DEF StatusPinInv
<1> QED
  BY <1>6, <1>13, <1>14, <1>15, <1>16, <1>17, <1>18, <1>19, <1>20, <1>21, <1>22, <1>23, <1>24, <1>25, ZenonT(60),
     <1>26, <1>27, Zenon

\* A status that the copy does not hold was registered with the next group.
LEMMA SyncLogPageKeeps ==
  ASSUME CommitInv, SyncLogPage
  PROVE  CommitInv' /\ UNCHANGED <<buf, slog, disk, file, type, acked, pc>>
         /\ \A x \in Xids : ldisk[x] = "commit" => ldisk'[x] = "commit"
<1> USE DEF CommitInv
<1>1. /\ w.pc = "sync" /\ Ahead(w.list, w.i) = {PgLog}
      /\ group' = [group EXCEPT ![w.list].buffers = @ \ {PgLog}]
      /\ UNCHANGED <<buf, file, disk, slog, pending, cur, w, s, bufgen, syncBuffers, pc, todo,
                     page, type, acked, up, flushes, crashes>>
  BY Zenon DEF SyncLogPage, At, writerVars, backendVars, workVars, boundVars
<1>2. w.list = w.cart /\ w.cart \in Groups
  BY <1>1, Zenon DEF GroupInv, Types, Writers
<1>3. bufgen \in Nat /\ bufgen # 0 /\ lbuf \in LogDescs /\ lbuf.generation <= bufgen
  BY <1>1 DEF Types, ShadowInv, Numbered
<1>4. /\ lbuf' \in LogDescs /\ lbuf'.generation = bufgen /\ lbuf'.generation <= bufgen
      /\ lbuf'.data = lbuf.data /\ ldisk' = lbuf'.shadow /\ ldisk' \in Statuses
      /\ lbuf'.shadow = lbuf.data \/ (lbuf.generation = bufgen /\ lbuf'.shadow = lbuf.shadow)
  <2> DEFINE b == WriteBufferIO(lbuf, "flush")
             a == ShadowBufferIfNeeded(b, bufgen, FALSE)
             c == TerminateBufferIO(a)
  <2>1. b \in LogDescs /\ SameImages(b, lbuf)
    BY <1>3, WriteFlagFacts, Zenon DEF LogDescs
  <2>2. ldisk' = a.shadow /\ lbuf' = c
    BY Zenon DEF SyncLogPage, AdvanceBufferIO
  <2> HIDE DEF b
  <2>3. b.generation <= bufgen
    BY <1>3, <2>1, Zenon DEF SameImages
  <2>4. a \in LogDescs /\ Copied(a, b, bufgen)
    BY <1>3, <2>1, <2>3, CopyFacts, Zenon DEF LogDescs
  <2> HIDE DEF a
  <2>5. c \in LogDescs /\ SameImages(c, a)
    BY <2>4, TerminateFacts, Zenon DEF LogDescs
  <2> HIDE DEF c
  <2>6. lbuf'.generation = bufgen /\ c.shadow \in Statuses
    BY <2>2, <2>4, <2>5, Zenon DEF SameImages, Copied, LogDescs, DescsOf
  <2>7. lbuf'.generation <= bufgen
    BY <1>3, <2>6
  <2> QED
    BY <2>1, <2>2, <2>4, <2>5, <2>6, <2>7, Zenon DEF SameImages, Copied
<1>5. /\ group' \in [Groups \cup {Sync} -> WriteGroups] /\ group'[Sync] = group[Sync]
      /\ group'[w.cart].buffers = Cart.buffers \ {PgLog}
      /\ \A g \in Groups : /\ group'[g].trans = group[g].trans
                           /\ group'[g].waiters = group[g].waiters
                           /\ group'[g].syncers = group[g].syncers
                           /\ group'[g].generation = group[g].generation
                           /\ g # w.cart => group'[g] = group[g]
  <2> DEFINE c == [group[w.cart] EXCEPT !.buffers = group[w.cart].buffers \ {PgLog}]
  <2>1. group[w.cart] \in WriteGroups
    BY <1>2, Zenon DEF Types
  <2>2. /\ c \in WriteGroups /\ c.buffers = Cart.buffers \ {PgLog} /\ c.trans = Cart.trans
        /\ c.waiters = Cart.waiters /\ c.syncers = Cart.syncers /\ c.generation = Cart.generation
    BY <2>1, Zenon DEF WriteGroups, Cart
  <2>3. group' = [group EXCEPT ![w.cart] = c]
    BY <1>1, <1>2, Zenon DEF Types
  <2> HIDE DEF c
  <2>4. /\ group' \in [Groups \cup {Sync} -> WriteGroups] /\ group'[Sync] = group[Sync]
        /\ group'[w.cart] = c /\ \A h \in Groups : h # w.cart => group'[h] = group[h]
    BY <1>2, <2>2, <2>3, PutGroup, Zenon
  <2> QED
    BY <2>2, <2>4, Zenon DEF Cart
<1>6. /\ ~Idle /\ ~Idle' /\ Numbered /\ Numbered' /\ \A q : Passed(q) /\ Passed(q)'
      /\ Cart'.buffers = Cart.buffers \ {PgLog} /\ Cart'.trans = Cart.trans
      /\ Cart'.generation = Cart.generation
  BY <1>1, <1>2, <1>5, Zenon DEF Idle, Numbered, Cart, Passed
<1>7. Trans' = Trans /\ Settled' = Settled
  BY <1>4, <1>6, Zenon DEF Trans, Settled
<1>8. group'[cur] = group[cur] /\ cur \in Groups
  <2>1. cur # w.cart /\ cur \in Groups
    BY <1>2, <1>6 DEF GroupInv, Other, Groups, Types
  <2> QED
    BY <1>5, <2>1, Zenon
<1>9. PgLog \notin DataPages
  BY SizeAssumption DEF DataPages, PgLog
<1>10. \A q \in DataPages : \A g \in Groups : q \in group[g].buffers => q \in group'[g].buffers
  BY <1>5, <1>9, Zenon DEF Cart
<1>11. \A x \in Xids : ldisk[x] = "commit" => ldisk'[x] = "commit"
  BY <1>4, <1>6, Zenon DEF BitInv
<1>12. Types'
  BY <1>1, <1>4, <1>5, Zenon DEF Types
<1>13. GroupInv'
  BY <1>1, <1>6, <1>8, Zenon DEF GroupInv
<1>14. MembersInv'
  BY <1>1, <1>5, MembersFrame, Zenon
<1>15. BackendInv' /\ ChangeInv'
  BY <1>1, Zenon DEF BackendInv, ChangeInv, Hard
<1>16. AckInv'
  BY <1>1, <1>11, Zenon DEF AckInv, Hard, Types
<1>17. ShadowInv'
  BY <1>1, <1>4, <1>6, Zenon DEF ShadowInv
<1>18. FileInv' /\ PendingInv' /\ LogInv'
  BY <1>1, Zenon DEF FileInv, PendingInv, LogInv
<1>19. PinInv'
  BY <1>1, <1>10 DEF PinInv
<1>20. CartInv'
  <2> SUFFICES ASSUME NEW x \in Settled, NEW q \in Writes[x]
               PROVE  x \in file[q] \/ q \in Cart.buffers \ {PgLog}
    BY <1>1, <1>6, <1>7, Zenon DEF CartInv
  <2>1. q \in DataPages
    BY SettledDone, Zenon
  <2>2. x \in file[q] \/ q \in Cart.buffers
    BY Zenon DEF CartInv
  <2> QED
    BY <1>9, <2>1, <2>2, Zenon
<1>21. DirtyInv'
  <2> SUFFICES ASSUME NEW y \in Xids, pc[y] # "lost", NEW q \in Writes[y] \ todo[y]
               PROVE  buf[q].dirty \/ y \in file[q] \/ q \in Cart.buffers \ {PgLog}
    BY <1>1, <1>6, Zenon DEF DirtyInv
  <2>1. q \in DataPages
    BY SizeAssumption, Zenon
  <2>2. buf[q].dirty \/ y \in file[q] \/ q \in Cart.buffers
    BY Zenon DEF DirtyInv
  <2> QED
    BY <1>9, <2>1, <2>2, Zenon
<1>22. LoopInv'
  BY <1>1, <1>6, Zenon DEF LoopInv
<1>23. RecoverInv'
  BY <1>1, <1>4, <1>7 DEF RecoverInv, Recoverable
<1>24. BitInv'
  <2>1. ASSUME NEW x \in Xids
        PROVE  /\ ldisk'[x] = "commit" => lbuf'.data[x] = "commit"
               /\ lbuf'.shadow[x] = "commit" => lbuf'.data[x] = "commit"
               /\ lbuf'.data[x] = "commit" => type[x] \in Outcomes \ {"abort"} /\ pc[x] \in Ending
    BY <1>4, Zenon DEF BitInv
  <2>2. \A x \in Cart.trans : ldisk'[x] = "commit"
    <3>1. \A x \in Cart.trans : x \in Xids /\ ldisk[x] = "commit"
      BY <1>1, <1>2 DEF BitInv, Recorded, Types, WriteGroups, Cart
    <3> QED
      BY <1>11, <3>1, ZenonT(60)
  <2> QED
    BY <1>1, <1>4, <1>6, <2>1, <2>2, Zenon DEF BitInv
<1>25. UnsetInv'
  <2> SUFFICES ASSUME NEW x \in Xids, pc[x] \in Early \cup {"waiting", "status"}
               PROVE  /\ lbuf'.data[x] \in {"inprogress", "commit"} /\ ldisk'[x] \in {"inprogress", "commit"}
                      /\ lbuf'.shadow[x] \in {"inprogress", "commit"}
    BY <1>1, Zenon DEF UnsetInv
  <2>1. /\ lbuf.data[x] \in {"inprogress", "commit"} /\ ldisk[x] \in {"inprogress", "commit"}
        /\ lbuf.generation # 0 => lbuf.shadow[x] \in {"inprogress", "commit"}
    BY Zenon DEF UnsetInv
  <2> QED
    BY <1>3, <1>4, <2>1, Zenon
<1>26. SoftInv'
  BY <1>1, <1>4, Zenon DEF SoftInv
<1>27. StatusPinInv'
  <2> SUFFICES ASSUME NEW x \in Xids, lbuf'.shadow[x] # lbuf.data[x]
               PROVE  pc[x] = "statusregister" \/ PgLog \in group[cur].buffers
    BY <1>1, <1>4, <1>8, Zenon DEF StatusPinInv
  <2>1. lbuf.generation = bufgen /\ lbuf.shadow[x] # lbuf.data[x]
    BY <1>4, Zenon
  <2> QED
    BY <1>1, <1>6, <2>1 DEF StatusPinInv
<1> QED
  BY <1>1, <1>11, <1>12, <1>13, <1>14, <1>15, <1>16, <1>17, <1>18, <1>19, <1>20, <1>21, <1>22, <1>23, <1>24, ZenonT(60),
     <1>25, <1>26, <1>27, Zenon

\* Every page of the group was written.
LEMMA EndSyncKeeps ==
  ASSUME CommitInv, EndSync
  PROVE  CommitInv'
<1> USE DEF CommitInv
<1>1. /\ w.pc = "sync" /\ Ahead(w.list, w.i) = {} /\ w' = [w EXCEPT !.pc = "fsync"]
      /\ UNCHANGED <<buf, lbuf, file, disk, ldisk, slog, pending, group, cur, s, bufgen, syncBuffers, pc, todo,
                     page, type, acked, up, flushes, crashes>>
  <2>1. w.job = "commit"
    BY Zenon DEF Types, Writers
  <2> QED
    BY <2>1, Zenon DEF EndSync, At, Go, poolVars, fileVars, backendVars, workVars, boundVars
<1>2. w' \in Writers /\ w'.pc = "fsync" /\ w'.cart = w.cart /\ w'.list = w.list /\ w'.i = w.i
  BY <1>1, Zenon DEF Types, Writers, WriterPlaces
<1>3. /\ ~Idle /\ ~Idle' /\ Numbered /\ Numbered' /\ Cart' = Cart
      /\ Trans' = Trans /\ Settled' = Settled /\ \A p : Passed(p) /\ Passed(p)'
  BY <1>1, <1>2 DEF Idle, Numbered, Cart, Trans, Settled, Passed
<1>4. Cart.buffers = {}
  <2>1. w.list = w.cart /\ \A p \in Cart.buffers : w.i <= p
    BY <1>1, Zenon DEF GroupInv, LoopInv
  <2>2. Cart.buffers \subseteq Nat /\ w.i \in Nat
    BY SizeAssumption DEF Types, Writers, WriteGroups, Cart, DataPages, PgLog
  <2>3. \A p \in Cart.buffers : p >= w.i
    BY <2>1, <2>2, Zenon
  <2>4. \A p \in Cart.buffers : p \in Ahead(w.list, w.i)
    BY <2>1, <2>3, Zenon DEF Ahead, Cart
  <2> QED
    BY <1>1, <2>4, Zenon
<1>5. Types'
  BY <1>1, <1>2, Zenon DEF Types
<1>6. GroupInv' /\ ShadowInv' /\ CartInv'
  BY <1>1, <1>2, <1>3, Zenon DEF GroupInv, ShadowInv, CartInv
<1>7. MembersInv' /\ BackendInv' /\ AckInv' /\ SoftInv' /\ UnsetInv' /\ ChangeInv' /\ PinInv'
  BY <1>1, ZenonT(60) DEF MembersInv, BackendInv, AckInv, SoftInv, UnsetInv, ChangeInv, PinInv, Hard
<1>8. FileInv' /\ PendingInv' /\ LogInv' /\ LoopInv'
  BY <1>1, <1>2, <1>3, <1>4, Zenon DEF FileInv, PendingInv, LogInv, LoopInv
<1>9. DirtyInv'
  BY <1>1, <1>3, Zenon DEF DirtyInv
<1>10. RecoverInv' /\ BitInv' /\ StatusPinInv'
  BY <1>1, <1>2, <1>3 DEF RecoverInv, Recoverable, BitInv, StatusPinInv, Recorded
<1> QED
  BY <1>5, <1>6, <1>7, <1>8, <1>9, <1>10, Zenon

LEMMA CommitPackageKeeps ==
  ASSUME CommitInv, CommitPackage
  PROVE  CommitInv'
<1> USE DEF CommitInv
<1>1. /\ w.pc = "fsync" /\ w' = [w EXCEPT !.pc = "expire"] /\ disk' = file
      /\ UNCHANGED <<buf, lbuf, file, ldisk, slog, pending, group, cur, s, bufgen, syncBuffers, pc, todo,
                     page, type, acked, up, flushes, crashes>>
  BY Zenon DEF CommitPackage, At, Go, poolVars, backendVars, workVars, boundVars
<1>2. w' \in Writers /\ w'.pc = "expire" /\ w'.cart = w.cart /\ w'.list = w.list /\ w'.i = w.i
  BY <1>1, Zenon DEF Types, Writers, WriterPlaces
<1>3. /\ ~Idle /\ ~Idle' /\ Numbered /\ Numbered' /\ Cart' = Cart
      /\ Trans' = Trans /\ Settled' = Settled /\ \A p : Passed(p) /\ Passed(p)'
  BY <1>1, <1>2 DEF Idle, Numbered, Cart, Trans, Settled, Passed
<1>4. Types'
  BY <1>1, <1>2, Zenon DEF Types
<1>5. GroupInv' /\ ShadowInv' /\ CartInv'
  BY <1>1, <1>2, <1>3, Zenon DEF GroupInv, ShadowInv, CartInv
<1>6. MembersInv' /\ BackendInv' /\ AckInv' /\ SoftInv' /\ UnsetInv' /\ ChangeInv' /\ PinInv'
  BY <1>1, ZenonT(60) DEF MembersInv, BackendInv, AckInv, SoftInv, UnsetInv, ChangeInv, PinInv, Hard
<1>7. FileInv' /\ PendingInv' /\ LogInv' /\ LoopInv'
  BY <1>1, <1>2, <1>3, Zenon DEF FileInv, PendingInv, LogInv, LoopInv
<1>8. DirtyInv'
  BY <1>1, <1>3, Zenon DEF DirtyInv
<1>9. BitInv' /\ StatusPinInv'
  BY <1>1, <1>2, <1>3, Zenon DEF BitInv, StatusPinInv, Recorded
<1>10. RecoverInv'
  <2> SUFFICES ASSUME NEW x \in Settled, NEW q \in Writes[x]
               PROVE  IF q \in DOMAIN slog THEN x \in slog[q] ELSE x \in file[q] \cap file[q]
    BY <1>1, <1>3, Zenon DEF RecoverInv, Recoverable
  <2>1. Recoverable(x, q)
    BY <1>1 DEF RecoverInv
  <2> QED
    BY <2>1, Zenon DEF Recoverable
<1> QED
  BY <1>4, <1>5, <1>6, <1>7, <1>8, <1>9, <1>10, Zenon

\* The log may go: the pages of the group are in the files, and the files on
\* disk.
LEMMA ClearLogsKeeps ==
  ASSUME SafeSettings, CommitInv, ClearLogs
  PROVE  CommitInv'
<1> USE DEF CommitInv
<1>1. /\ w.pc = "expire" /\ w' = [w EXCEPT !.pc = "acksync"] /\ slog' = EmptyLog
      /\ UNCHANGED <<buf, lbuf, file, disk, ldisk, pending, group, cur, s, bufgen, syncBuffers, pc, todo,
                     page, type, acked, up, flushes, crashes>>
  <2>1. w.job = "commit"
    BY Zenon DEF Types, Writers
  <2> QED
    BY <2>1, Zenon DEF ClearLogs, At, Go, SafeSettings, poolVars, backendVars, workVars, boundVars
<1>2. w' \in Writers /\ w'.pc = "acksync" /\ w'.cart = w.cart /\ w'.list = w.list /\ w'.i = w.i
  BY <1>1, Zenon DEF Types, Writers, WriterPlaces
<1>3. /\ ~Idle /\ ~Idle' /\ Numbered /\ Numbered' /\ Cart' = Cart
      /\ Trans' = Trans /\ Settled' = Settled /\ \A p : Passed(p) /\ Passed(p)'
  BY <1>1, <1>2 DEF Idle, Numbered, Cart, Trans, Settled, Passed
<1>4. IsLog(EmptyLog)
  BY Zenon DEF IsLog, EmptyLog
<1>5. Types'
  BY <1>1, <1>2, <1>4, Zenon DEF Types, IsLog
<1>6. GroupInv' /\ ShadowInv' /\ CartInv'
  BY <1>1, <1>2, <1>3, Zenon DEF GroupInv, ShadowInv, CartInv
<1>7. MembersInv' /\ BackendInv' /\ AckInv' /\ SoftInv' /\ UnsetInv' /\ ChangeInv' /\ PinInv'
  BY <1>1, ZenonT(60) DEF MembersInv, BackendInv, AckInv, SoftInv, UnsetInv, ChangeInv, PinInv, Hard
<1>8. FileInv' /\ PendingInv' /\ LogInv' /\ LoopInv'
  BY <1>1, <1>2, <1>3, Zenon DEF FileInv, PendingInv, LogInv, LoopInv
<1>9. DirtyInv'
  BY <1>1, <1>3, Zenon DEF DirtyInv
<1>10. BitInv' /\ StatusPinInv'
  BY <1>1, <1>2, <1>3 DEF BitInv, StatusPinInv, Recorded
<1>11. RecoverInv'
  <2>1. Cart.buffers = {} /\ disk = file
    BY <1>1, Zenon DEF LoopInv, FileInv
  <2>2. \A x \in Settled : \A q \in Writes[x] : x \in disk[q] \cap file[q]
    BY <2>1, Zenon DEF CartInv
  <2>3. DOMAIN slog' = {}
    BY <1>1 DEF EmptyLog
  <2> QED
    BY <1>1, <1>3, <2>2, <2>3, Zenon DEF RecoverInv, Recoverable
<1> QED
  BY <1>5, <1>6, <1>7, <1>8, <1>9, <1>10, <1>11, Zenon

\* The same for those that waited for the files.
LEMMA AcknowledgeSyncKeeps ==
  ASSUME CommitInv, AcknowledgeSync
  PROVE  /\ CommitInv' /\ UNCHANGED <<buf, lbuf, ldisk, slog, disk, file, type>>
         /\ acked' = acked \cup (Cart.waiters \cup Cart.syncers)
         /\ \A x \in Cart.waiters \cup Cart.syncers : x \in Xids /\ Hard(x) /\ ldisk[x] = "commit"
         /\ \A y \in Xids : pc'[y] = "lost" <=> pc[y] = "lost"
<1> USE DEF CommitInv
<1> DEFINE X == Cart.waiters \cup Cart.syncers
<1>1. /\ w.pc = "acksync" /\ w' = [w EXCEPT !.pc = "finish"]
      /\ UNCHANGED <<buf, lbuf, file, disk, ldisk, slog, pending, cur, s, bufgen, syncBuffers, todo,
                     page, type, up, flushes, crashes>>
  BY Zenon DEF AcknowledgeSync, At, Go, poolVars, fileVars, workVars, boundVars
<1>2. w' \in Writers /\ w'.pc = "finish" /\ w'.cart = w.cart /\ w'.list = w.list /\ w'.i = w.i
  BY <1>1, Zenon DEF Types, Writers, WriterPlaces
<1>3. w.cart \in Groups /\ Cart \in WriteGroups
  BY Zenon DEF Types, Writers, Cart
<1>4. /\ group' \in [Groups \cup {Sync} -> WriteGroups] /\ group'[Sync] = group[Sync]
      /\ \A g \in Groups : /\ group'[g].buffers = group[g].buffers
                           /\ group'[g].trans = group[g].trans
                           /\ group'[g].waiters \subseteq group[g].waiters
                           /\ group'[g].syncers = group[g].syncers
                           /\ group'[g].generation = group[g].generation
                           /\ g # w.cart => group'[g] = group[g]
  <2> DEFINE c == [group[w.cart] EXCEPT !.currstate = "SYNCED"]
  <2>1. /\ c \in WriteGroups /\ c.buffers = Cart.buffers /\ c.trans = Cart.trans /\ c.waiters = Cart.waiters
        /\ c.syncers = Cart.syncers /\ c.generation = Cart.generation
    BY <1>3, Zenon DEF WriteGroups, Cart
  <2>2. group' = [group EXCEPT ![w.cart] = c]
    BY <1>3, Zenon DEF AcknowledgeSync, Types
  <2> HIDE DEF c
  <2>3. /\ group' \in [Groups \cup {Sync} -> WriteGroups] /\ group'[Sync] = group[Sync]
        /\ group'[w.cart] = c /\ \A h \in Groups : h # w.cart => group'[h] = group[h]
    BY <1>3, <2>1, <2>2, PutGroup, Zenon
  <2> QED
    BY <2>1, <2>3, Zenon DEF Cart
<1>5. X \subseteq Xids /\ X \subseteq Cart.trans
  BY <1>3, Zenon DEF MembersInv, WriteGroups, Cart
<1>6. \A x \in X : Hard(x) /\ ldisk[x] = "commit" /\ pc[x] \in {"waiting", "done"}
  <2>1. \A x \in X : Hard(x) /\ pc[x] \in Ending
    BY <1>3, <1>5, Zenon DEF MembersInv, Cart
  <2>2. \A x \in X : ldisk[x] = "commit"
    BY <1>1, <1>5, Zenon DEF BitInv, Recorded
  <2>3. \A x \in X : pc[x] \in {"waiting", "done"}
    BY <1>5, <2>1, Zenon DEF BackendInv, Ending
  <2> QED
    BY <2>1, <2>2, <2>3, Zenon
<1>7. acked' = acked \cup X /\ pc' = [x \in Xids |-> IF x \in X THEN "done" ELSE pc[x]]
  BY Zenon DEF AcknowledgeSync, Release, Cart
<1> HIDE DEF X
<1>8. \A y \in Xids : pc'[y] = IF y \in X THEN "done" ELSE pc[y]
  BY <1>7, Zenon
<1>9. \A y \in Xids : pc'[y] = pc[y] \/ (pc[y] \in {"waiting", "done"} /\ pc'[y] = "done" /\ y \in X)
  BY <1>6, <1>8, Zenon
<1>10. /\ ~Idle /\ ~Idle' /\ Numbered /\ Numbered' /\ \A p : Passed(p) /\ Passed(p)'
       /\ Cart'.buffers = Cart.buffers /\ Cart'.trans = Cart.trans /\ Cart'.generation = Cart.generation
  BY <1>1, <1>2, <1>3, <1>4, Zenon DEF Idle, Numbered, Cart, Passed
<1>11. Trans' = Trans /\ Settled' = Settled
  BY <1>1, <1>10, Zenon DEF Trans, Settled
<1>12. group'[cur] = group[cur] /\ cur \in Groups
  <2>1. cur # w.cart /\ cur \in Groups
    BY <1>3, <1>10 DEF GroupInv, Other, Groups, Types
  <2> QED
    BY <1>4, <2>1, ZenonT(60)
<1>13. Types'
  <2>1. pc' \in [Xids -> Early \cup Ending \cup {"lost"}]
    BY <1>7 DEF Types, Ending
  <2> QED
    BY <1>1, <1>2, <1>4, <1>5, <1>7, <2>1, SMTT(30) DEF Types
<1>14. GroupInv'
  BY <1>1, <1>2, <1>10, <1>12, Zenon DEF GroupInv
<1>15. MembersInv'
  <2>1. \A g \in Groups : group[g].trans \subseteq Xids
    BY Zenon DEF Types, WriteGroups
  <2>2. \A y \in Xids : pc[y] \in Ending => pc'[y] \in Ending
    BY <1>9, Zenon DEF Ending
  <2> QED
    BY <1>1, <1>4, <2>1, <2>2, Zenon DEF MembersInv, Hard
<1>16. BackendInv'
  BY <1>1, <1>6, <1>9 DEF BackendInv, Hard, Early, Ending
<1>17. AckInv'
  <2>1. \A x \in acked : x \in Xids
    BY Zenon DEF Types
  <2> QED
    BY <1>1, <1>5, <1>6, <1>7, <1>8, <2>1, Zenon DEF AckInv, Hard
<1>18. ChangeInv'
  BY <1>1, <1>9, ChangeFrame, Zenon
<1>19. ShadowInv' /\ CartInv' /\ RecoverInv'
  BY <1>1, <1>2, <1>10, <1>11, Zenon DEF ShadowInv, CartInv, RecoverInv, Recoverable
<1>20. FileInv' /\ LoopInv' /\ PendingInv' /\ LogInv'
  BY <1>1, <1>2, <1>10, Zenon DEF FileInv, LoopInv, PendingInv, LogInv
<1>21. PinInv'
  <2>1. \A y \in Xids : pc[y] = "register" => pc'[y] = "register"
    BY <1>9, Zenon
  <2> QED
    BY <1>1, <1>4, <2>1, PinFrame, Zenon
<1>22. DirtyInv'
  BY <1>1, <1>9, <1>10, Zenon DEF DirtyInv
<1>23. BitInv'
  <2>1. \A y \in Xids : pc[y] \in Ending => pc'[y] \in Ending
    BY <1>9, Zenon DEF Ending
  <2> QED
    BY <1>1, <1>2, <1>10, <2>1, Zenon DEF BitInv, Recorded
<1>24. UnsetInv'
  <2>1. \A y \in Xids : pc'[y] \in Early \cup {"waiting", "status"} => pc'[y] = pc[y]
    BY <1>9, Zenon DEF Early
  <2> QED
    BY <1>1, <2>1, Zenon DEF UnsetInv
<1>25. StatusPinInv'
  <2>1. \A y \in Xids : pc[y] = "statusregister" => pc'[y] = "statusregister"
    BY <1>9, Zenon
  <2> QED
    BY <1>1, <1>2, <1>4, <1>10, <1>12, <2>1, Zenon DEF StatusPinInv
<1>26. SoftInv'
  BY <1>1, <1>6, <1>8, Zenon DEF SoftInv, Hard
<1>27. \A y \in Xids : pc'[y] = "lost" <=> pc[y] = "lost"
  BY <1>9
<1> QED
  BY <1>1, <1>5, <1>6, <1>7, <1>13, <1>14, <1>15, <1>16, <1>17, <1>18, <1>19, <1>20, <1>21, <1>22, <1>23, ZenonT(60),
     <1>24, <1>25, <1>26, <1>27, Zenon DEF X

LEMMA FinishWriteGroupKeeps ==
  ASSUME CommitInv, FinishWriteGroup
  PROVE  CommitInv'
<1> USE DEF CommitInv
<1>1. /\ w.pc = "finish" /\ w' = [IdleWriter EXCEPT !.cart = Other(w.cart)]
      /\ group' = [group EXCEPT ![w.cart] = EmptyGroup(@.generation)]
      /\ UNCHANGED <<buf, lbuf, file, disk, ldisk, slog, pending, cur, s, bufgen, syncBuffers, pc, todo,
                     page, type, acked, up, flushes, crashes>>
  BY Zenon DEF FinishWriteGroup, At, poolVars, fileVars, backendVars, workVars, boundVars
<1>2. /\ w.cart \in Groups /\ Other(w.cart) \in Groups /\ Other(w.cart) # w.cart
      /\ Other(Other(w.cart)) = w.cart
  BY DEF Types, Writers, Groups, Other
<1>3. w' \in Writers /\ w'.pc = "idle" /\ w'.cart = Other(w.cart)
  BY <1>1, <1>2, Zenon DEF Writers, WriterPlaces, IdleWriter, Groups
<1>4. /\ group' \in [Groups \cup {Sync} -> WriteGroups] /\ group'[Sync] = group[Sync]
      /\ group'[w.cart].buffers = {} /\ group'[w.cart].trans = {}
      /\ group'[w.cart].waiters = {} /\ group'[w.cart].syncers = {}
      /\ \A g \in Groups : g # w.cart => group'[g] = group[g]
  <2> DEFINE c == EmptyGroup(group[w.cart].generation)
  <2>1. group[w.cart].generation \in Nat
    BY <1>2, Zenon DEF Types, WriteGroups
  <2>2. c \in WriteGroups /\ c.buffers = {} /\ c.trans = {} /\ c.waiters = {} /\ c.syncers = {}
    BY <2>1, SizeAssumption, Zenon DEF EmptyGroup, WriteGroups
  <2>3. group' = [group EXCEPT ![w.cart] = c]
    BY <1>1, <1>2, Zenon DEF Types
  <2> HIDE DEF c
  <2>4. /\ group' \in [Groups \cup {Sync} -> WriteGroups] /\ group'[Sync] = group[Sync]
        /\ group'[w.cart] = c /\ \A h \in Groups : h # w.cart => group'[h] = group[h]
    BY <1>2, <2>2, <2>3, PutGroup, Zenon
  <2> QED
    BY <2>2, <2>4, Zenon
<1>5. Cart.buffers = {} /\ ~Idle /\ Idle' /\ Numbered /\ ~Numbered' /\ cur = Other(w.cart)
  BY <1>1, <1>3, Zenon DEF LoopInv, Idle, Numbered, GroupInv
<1>6. Settled' \subseteq Settled /\ Trans' = {} /\ \A x \in Settled' : lbuf.data[x] = "commit"
  BY <1>1, <1>5, Zenon DEF Settled, Trans
<1>7. \A g \in Groups : group'[g].buffers = group[g].buffers
  BY <1>4, <1>5, Zenon DEF Cart
<1>8. Types'
  BY <1>1, <1>3, <1>4, Zenon DEF Types
<1>9. GroupInv'
  BY <1>1, <1>2, <1>3, <1>4, <1>5, ZenonT(60) DEF GroupInv, Cart
<1>10. MembersInv'
  BY <1>1, <1>2, <1>4 DEF MembersInv, Hard
<1>11. BackendInv' /\ AckInv' /\ SoftInv' /\ UnsetInv' /\ ChangeInv'
  BY <1>1, ZenonT(60) DEF BackendInv, AckInv, SoftInv, UnsetInv, ChangeInv, Hard
<1>12. ShadowInv' /\ FileInv'
  BY <1>1, <1>3, <1>5, Zenon DEF ShadowInv, FileInv
<1>13. PinInv'
  BY <1>1, <1>7, PinFrame, Zenon
<1>14. CartInv'
  BY <1>1, <1>5, <1>6 DEF CartInv
<1>15. DirtyInv'
  BY <1>1, <1>5, Zenon DEF DirtyInv
<1>16. LoopInv' /\ LogInv' /\ PendingInv'
  BY <1>1, <1>3, Zenon DEF LoopInv, LogInv, PendingInv
<1>17. RecoverInv'
  BY <1>1, <1>6, Zenon DEF RecoverInv, Recoverable
<1>18. BitInv'
  BY <1>1, <1>3, <1>5, Zenon DEF BitInv, Recorded
<1>19. StatusPinInv'
  BY <1>1, <1>5, <1>7, Zenon DEF StatusPinInv
<1> QED
  BY <1>8, <1>9, <1>10, <1>11, <1>12, <1>13, <1>14, <1>15, <1>16, <1>17, <1>18, <1>19, ZenonT(60)

LEMMA RestartKeeps ==
  ASSUME CommitInv, Restart
  PROVE  CommitInv'
<1> USE DEF CommitInv
<1>1. /\ up' = TRUE
      /\ UNCHANGED <<buf, lbuf, file, disk, ldisk, slog, pending, group, cur, w, s, bufgen, syncBuffers, pc,
                     todo, page, type, acked, flushes, crashes>>
  BY Zenon DEF Restart, poolVars, fileVars, writerVars, backendVars, workVars, boundVars
<1>2. /\ Idle' = Idle /\ Numbered' = Numbered /\ Cart' = Cart
      /\ Trans' = Trans /\ Settled' = Settled /\ \A p : Passed(p)' = Passed(p)
  BY <1>1, Zenon DEF Idle, Numbered, Cart, Trans, Settled, Passed
<1>3. Types' /\ GroupInv'
  BY <1>1, <1>2, Zenon DEF Types, GroupInv, IsLog
<1>4. MembersInv' /\ BackendInv' /\ AckInv' /\ SoftInv' /\ UnsetInv' /\ ChangeInv' /\ PinInv'
  BY <1>1, ZenonT(60) DEF MembersInv, BackendInv, AckInv, SoftInv, UnsetInv, ChangeInv, PinInv, Hard
<1>5. ShadowInv' /\ CartInv' /\ FileInv' /\ LogInv' /\ BitInv'
  BY <1>1, <1>2, Zenon DEF ShadowInv, CartInv, FileInv, LogInv, BitInv
<1>6. DirtyInv' /\ LoopInv' /\ PendingInv' /\ RecoverInv' /\ StatusPinInv'
  BY <1>1, <1>2, Zenon DEF DirtyInv, LoopInv, PendingInv, RecoverInv, Recoverable, StatusPinInv
<1> QED
  BY <1>3, <1>4, <1>5, <1>6, Zenon

\* What recovery finds: every transaction that pg_log on disk shows committed,
\* and all of its changes.
LEMMA CrashKeeps ==
  ASSUME SafeSettings, CommitInv, NEW lost \in SUBSET DataPages, Crash(lost)
  PROVE  /\ CommitInv' /\ UNCHANGED <<type, acked>>
         /\ \A x \in Xids : ldisk'[x] = "commit" <=> ldisk[x] = "commit"
         /\ \A x \in Xids : pc[x] = "lost" => pc'[x] = "lost"
         /\ \A x \in Xids : pc'[x] = "lost" => ldisk[x] # "commit"
<1> USE DEF CommitInv
<1> DEFINE recovered == [p \in DataPages |-> IF p \in DOMAIN slog THEN slog[p]
                                            ELSE IF p \in lost THEN disk[p] ELSE file[p]]
<1>1. /\ up' = FALSE /\ crashes' = crashes + 1 /\ slog' = EmptyLog /\ pending' = EmptyLog
      /\ cur' = 1 /\ syncBuffers' = 0 /\ w' = IdleWriter /\ s' = IdleSync
      /\ page' = [x \in Xids |-> None] /\ UNCHANGED <<todo, type, acked, flushes>>
  BY Zenon DEF Crash
<1>2. disk' = recovered /\ file' = recovered /\ buf' = [p \in DataPages |-> ReadIn(recovered[p], {Junk})]
  BY Zenon DEF Crash
<1>3. /\ ldisk' = [x \in Xids |-> IF ldisk[x] = "soft" THEN "abort" ELSE ldisk[x]]
      /\ lbuf' = ReadIn(ldisk', Garbage)
  BY Zenon DEF Crash
<1>4. group' = [g \in Groups \cup {Sync} |-> EmptyGroup(IF g = 1 THEN FirstGeneration ELSE 0)]
  BY Zenon DEF Crash
<1>5. bufgen' = FirstGeneration - 1 /\ bufgen' \in Nat /\ FirstGeneration \in Nat
  BY SizeAssumption DEF Crash, SafeSettings
<1>6. pc' = [x \in Xids |-> CASE pc[x] = "work" /\ todo[x] = Writes[x] -> "work"
                              [] ldisk[x] = "commit" -> "done"
                              [] OTHER -> "lost"]
  BY Zenon DEF Crash
<1>7. recovered \in [DataPages -> SUBSET Xids]
  BY Zenon DEF Types, IsLog
<1>8. \A x \in Xids : ldisk[x] = "commit" =>
        /\ pc[x] \in Ending /\ todo[x] = {} /\ type[x] \in Outcomes \ {"abort"}
        /\ \A p \in Writes[x] : p \in DataPages /\ x \in recovered[p]
  <2> SUFFICES ASSUME NEW x \in Xids, ldisk[x] = "commit"
               PROVE  /\ pc[x] \in Ending /\ todo[x] = {} /\ type[x] \in Outcomes \ {"abort"}
                      /\ \A p \in Writes[x] : p \in DataPages /\ x \in recovered[p]
    BY Zenon
  <2>1. lbuf.data[x] = "commit" /\ x \in Settled
    BY Zenon DEF BitInv, Settled
  <2>2. /\ pc[x] \in Ending /\ todo[x] = {} /\ type[x] \in Outcomes \ {"abort"}
        /\ \A p \in Writes[x] : p \in DataPages
    BY <2>1, SettledDone, Zenon
  <2>3. \A p \in Writes[x] : Recoverable(x, p)
    BY <2>1, Zenon DEF RecoverInv
  <2>4. \A p \in Writes[x] : x \in recovered[p]
    BY <2>2, <2>3, Zenon DEF Recoverable
  <2> QED
    BY <2>2, <2>4, Zenon
<1> HIDE DEF recovered
<1>9. /\ buf' \in [DataPages -> Descs]
      /\ \A p \in DataPages : buf'[p].data = recovered[p] /\ buf'[p].generation = 0
  <2>1. \A p \in DataPages : recovered[p] \in SUBSET Xids
    BY <1>7, Zenon
  <2> QED
    BY <1>2, <2>1, Zenon DEF ReadIn, Descs, DescsOf, Ops, Images
<1>10. /\ ldisk' \in Statuses /\ lbuf' \in LogDescs /\ lbuf'.data = ldisk' /\ lbuf'.generation = 0
       /\ lbuf'.shadow = Garbage
       /\ \A x \in Xids : ldisk'[x] = IF ldisk[x] = "soft" THEN "abort" ELSE ldisk[x]
  <2>1. /\ ldisk' \in Statuses /\ Garbage \in Statuses
        /\ \A x \in Xids : ldisk'[x] = IF ldisk[x] = "soft" THEN "abort" ELSE ldisk[x]
    BY <1>3, Zenon DEF Types, Statuses, Garbage
  <2> QED
    BY <1>3, <2>1, Zenon DEF ReadIn, LogDescs, DescsOf, Ops
<1>11. \A x \in Xids : ldisk'[x] = "commit" <=> ldisk[x] = "commit"
  BY <1>10, Zenon
<1>12. \A x \in Xids :
         \/ pc'[x] = "work" /\ pc[x] = "work" /\ todo[x] = Writes[x] /\ ldisk[x] # "commit"
         \/ pc'[x] = "done" /\ ldisk[x] = "commit"
         \/ pc'[x] = "lost" /\ ldisk[x] # "commit"
  BY <1>6, <1>8, ZenonT(60) DEF Ending
<1>13. /\ group' \in [Groups \cup {Sync} -> WriteGroups] /\ group'[Sync] = EmptyGroup(0)
       /\ group'[1].generation = FirstGeneration /\ group'[1].currstate = "NOT_READY"
       /\ \A g \in Groups : /\ group'[g].buffers = {} /\ group'[g].trans = {}
                            /\ group'[g].waiters = {} /\ group'[g].syncers = {}
  <2>1. \A n \in Nat : EmptyGroup(n) \in WriteGroups
    BY SizeAssumption, Zenon DEF EmptyGroup, WriteGroups
  <2>2. /\ \A g \in Groups \cup {Sync} : group'[g] = EmptyGroup(IF g = 1 THEN FirstGeneration ELSE 0)
        /\ group' \in [Groups \cup {Sync} -> WriteGroups]
    BY <1>4, <1>5, <2>1, Zenon
  <2>3. group'[1] = EmptyGroup(FirstGeneration) /\ group'[2] = EmptyGroup(0) /\ group'[Sync] = EmptyGroup(0)
    BY <2>2 DEF Groups, Sync
  <2> QED
    BY <2>2, <2>3 DEF EmptyGroup, Groups
<1>14. /\ w' \in Writers /\ w'.pc = "idle" /\ w'.cart = 1 /\ cur' \in Groups
  BY <1>1, Zenon DEF IdleWriter, Writers, WriterPlaces, Groups
<1>15. Idle' /\ ~Numbered' /\ Cart' = group'[1]
  BY <1>14, Zenon DEF Idle, Numbered, Cart
<1>16. Settled' = {x \in Xids : ldisk[x] = "commit"}
  BY <1>10, <1>11, <1>15, Zenon DEF Settled, Trans
<1>17. Types'
  <2>1. pc' \in [Xids -> Early \cup Ending \cup {"lost"}]
    BY <1>6, Zenon DEF Early, Ending
  <2>2. page' \in [Xids -> DataPages \cup {None}]
    BY <1>1, Zenon
  <2>3. IsLog(EmptyLog) /\ crashes + 1 \in Nat
    BY DEF IsLog, EmptyLog, Types
  <2> QED
    BY <1>1, <1>2, <1>5, <1>7, <1>9, <1>10, <1>13, <1>14, <2>1, <2>2, <2>3, ZenonT(60) DEF Types, IsLog
<1>18. GroupInv'
  BY <1>1, <1>5, <1>13, <1>14, <1>15 DEF GroupInv, Other, Groups
<1>19. MembersInv'
  BY <1>13, Zenon DEF MembersInv
<1>20. ShadowInv'
  BY <1>5, <1>9, <1>10, <1>15 DEF ShadowInv
<1>21. BackendInv'
  BY <1>1, <1>8, <1>12, ZenonT(60) DEF BackendInv, Early, Ending
<1>22. ChangeInv' /\ DirtyInv'
  BY <1>1, <1>2, <1>8, <1>9, <1>12, ZenonT(60) DEF ChangeInv, DirtyInv
<1>23. AckInv'
  <2>1. acked \subseteq Xids
    BY Zenon DEF Types
  <2> QED
    BY <1>1, <1>11, <1>12, <2>1, Zenon DEF AckInv, Hard
<1>24. FileInv' /\ PinInv'
  BY <1>2, <1>9, Zenon DEF FileInv, PinInv
<1>25. CartInv'
  BY <1>2, <1>8, <1>16, Zenon DEF CartInv
<1>26. LoopInv' /\ LogInv' /\ PendingInv'
  BY <1>1, <1>14, Zenon DEF LoopInv, LogInv, PendingInv
<1>27. RecoverInv'
  <2>1. DOMAIN slog' = {}
    BY <1>1, ZenonT(60) DEF EmptyLog
  <2> QED
    BY <1>2, <1>8, <1>16, <2>1, Zenon DEF RecoverInv, Recoverable
<1>28. BitInv'
  <2>1. \A x \in Xids : lbuf'.shadow[x] # "commit"
    BY <1>10, Zenon DEF Garbage
  <2>2. \A x \in Xids : ldisk[x] = "commit" => pc'[x] \in Ending
    BY <1>12, Zenon DEF Ending
  <2> QED
    BY <1>1, <1>8, <1>10, <1>11, <1>14, <1>15, <2>1, <2>2, SMTT(30) DEF BitInv, Recorded
<1>29. UnsetInv'
  <2>1. \A x \in Xids : pc'[x] \in Early \cup {"waiting", "status"} => ldisk'[x] \in {"inprogress", "commit"}
    BY <1>10, <1>12 DEF UnsetInv, Early
  <2> QED
    BY <1>10, <2>1, ZenonT(60) DEF UnsetInv
<1>30. StatusPinInv'
  BY <1>10, <1>15, ZenonT(60) DEF StatusPinInv
<1>31. SoftInv'
  BY <1>1 DEF SoftInv, Types
<1>32. \A x \in Xids : pc[x] = "lost" => pc'[x] = "lost"
  BY <1>8, <1>12, Zenon DEF Ending
<1> QED
  BY <1>1, <1>11, <1>12, <1>17, <1>18, <1>19, <1>20, <1>21, <1>22, <1>23, <1>24, <1>25, <1>26, <1>27, <1>28, ZenonT(60),
     <1>29, <1>30, <1>31, <1>32

-----------------------------------------------------------------------------
(* The specification.                                                      *)

LEMMA InitKeeps ==
  ASSUME SafeSettings, Init
  PROVE  CommitInv
<1>1. /\ slog = EmptyLog /\ pending = EmptyLog /\ cur = 1 /\ syncBuffers = 0 /\ w = IdleWriter
      /\ s = IdleSync /\ pc = [x \in Xids |-> "work"] /\ todo = Writes /\ page = [x \in Xids |-> None]
      /\ type = [x \in Xids |-> None] /\ acked = {} /\ up = TRUE /\ flushes = 0 /\ crashes = 0
      /\ ldisk = InProgress /\ disk = file /\ file = [p \in DataPages |-> {}]
  BY Zenon DEF Init
<1>2. bufgen = FirstGeneration - 1 /\ bufgen \in Nat /\ FirstGeneration \in Nat
  BY SizeAssumption DEF Init, SafeSettings
<1>3. /\ buf \in [DataPages -> Descs]
      /\ \A p \in DataPages : buf[p].data = {} /\ buf[p].generation = 0
  <2>1. buf = [p \in DataPages |-> ReadIn({}, {Junk})]
    BY Zenon DEF Init
  <2> QED
    BY <2>1, Zenon DEF ReadIn, Descs, DescsOf, Ops, Images
<1>4. /\ lbuf \in LogDescs /\ lbuf.data = InProgress /\ lbuf.generation = 0 /\ lbuf.shadow = Garbage
      /\ InProgress \in Statuses
  <2>1. InProgress \in Statuses /\ Garbage \in Statuses
    BY Zenon DEF InProgress, Garbage, Statuses
  <2>2. lbuf = ReadIn(InProgress, Garbage)
    BY ZenonT(60) DEF Init
  <2> QED
    BY <2>1, <2>2, Zenon DEF ReadIn, LogDescs, DescsOf, Ops
<1>5. /\ group \in [Groups \cup {Sync} -> WriteGroups] /\ group[Sync] = EmptyGroup(0)
      /\ group[1].generation = FirstGeneration
      /\ \A g \in Groups : /\ group[g].buffers = {} /\ group[g].trans = {}
                           /\ group[g].waiters = {} /\ group[g].syncers = {}
  <2>1. \A n \in Nat : EmptyGroup(n) \in WriteGroups
    BY SizeAssumption, Zenon DEF EmptyGroup, WriteGroups
  <2>2. group = [g \in Groups \cup {Sync} |-> EmptyGroup(IF g = 1 THEN FirstGeneration ELSE 0)]
    BY Zenon DEF Init
  <2>3. /\ \A g \in Groups \cup {Sync} : group[g] = EmptyGroup(IF g = 1 THEN FirstGeneration ELSE 0)
        /\ group \in [Groups \cup {Sync} -> WriteGroups]
    BY <1>2, <2>1, <2>2, Zenon
  <2>4. group[1] = EmptyGroup(FirstGeneration) /\ group[2] = EmptyGroup(0) /\ group[Sync] = EmptyGroup(0)
    BY <2>3 DEF Groups, Sync
  <2> QED
    BY <2>3, <2>4 DEF EmptyGroup, Groups
<1>6. w \in Writers /\ w.pc = "idle" /\ w.cart = 1 /\ cur \in Groups
  BY <1>1, Zenon DEF IdleWriter, Writers, WriterPlaces, Groups
<1>7. Idle /\ ~Numbered /\ Cart = group[1]
  BY <1>6, Zenon DEF Idle, Numbered, Cart
<1>8. \A x \in Xids : pc[x] = "work" /\ type[x] = None /\ todo[x] = Writes[x] /\ page[x] = None
                     /\ lbuf.data[x] = "inprogress" /\ ldisk[x] = "inprogress" /\ lbuf.shadow[x] = "abort"
  BY <1>1, <1>4, Zenon DEF InProgress, Garbage
<1>9. Settled = {}
  BY <1>7, <1>8, Zenon DEF Settled, Trans
<1>10. Types
  <2>1. pc \in [Xids -> Early \cup Ending \cup {"lost"}]
    BY <1>1, Zenon DEF Early
  <2>2. todo \in [Xids -> SUBSET DataPages]
    BY <1>1, SizeAssumption, Zenon
  <2>3. page \in [Xids -> DataPages \cup {None}] /\ type \in [Xids -> Outcomes \cup {None}]
    BY <1>1, Zenon
  <2>4. IsLog(EmptyLog) /\ 0 \in Nat /\ {} \subseteq Xids /\ TRUE \in BOOLEAN
    BY Zenon DEF IsLog, EmptyLog
  <2>5. file \in [DataPages -> SUBSET Xids]
    BY <1>1, Zenon
  <2> QED
    BY <1>1, <1>2, <1>3, <1>4, <1>5, <1>6, <2>1, <2>2, <2>3, <2>4, <2>5, ZenonT(60) DEF Types, IsLog
<1>11. GroupInv
  BY <1>1, <1>2, <1>5, <1>6, <1>7 DEF GroupInv, Other, Groups
<1>12. MembersInv /\ AckInv
  BY <1>1, <1>5, ZenonT(60) DEF MembersInv, AckInv
<1>13. ShadowInv
  BY <1>2, <1>3, <1>4, <1>7 DEF ShadowInv
<1>14. BackendInv /\ ChangeInv /\ DirtyInv
  BY <1>8, Zenon DEF BackendInv, ChangeInv, DirtyInv, Early, Ending
<1>15. FileInv /\ PinInv
  BY <1>1, <1>3, <1>6, Zenon DEF FileInv, PinInv
<1>16. CartInv /\ RecoverInv /\ PendingInv
  BY <1>6, <1>9, Zenon DEF CartInv, RecoverInv, PendingInv
<1>17. LoopInv /\ LogInv
  BY <1>1, <1>6, Zenon DEF LoopInv, LogInv
<1>18. BitInv /\ UnsetInv /\ StatusPinInv /\ SoftInv
  BY <1>4, <1>6, <1>7, <1>8, Zenon DEF BitInv, UnsetInv, StatusPinInv, SoftInv, Recorded
<1> QED
  BY <1>10, <1>11, <1>12, <1>13, <1>14, <1>15, <1>16, <1>17, <1>18, ZenonT(60) DEF CommitInv

LEMMA StutterKeeps ==
  ASSUME CommitInv, UNCHANGED vars
  PROVE  CommitInv'
<1> USE DEF CommitInv
<1>1. UNCHANGED <<buf, lbuf, file, disk, ldisk, slog, pending, group, cur, w, s, bufgen, syncBuffers, pc,
                  todo, page, type, acked, up, flushes, crashes>>
  BY Zenon DEF vars, poolVars, fileVars, writerVars, backendVars, workVars, boundVars
<1>2. /\ Idle' = Idle /\ Numbered' = Numbered /\ Cart' = Cart
      /\ Trans' = Trans /\ Settled' = Settled /\ \A p : Passed(p)' = Passed(p)
  BY <1>1, Zenon DEF Idle, Numbered, Cart, Trans, Settled, Passed
<1>3. Types' /\ GroupInv'
  BY <1>1, <1>2, Zenon DEF Types, GroupInv, IsLog
<1>4. MembersInv' /\ BackendInv' /\ AckInv' /\ SoftInv' /\ UnsetInv' /\ ChangeInv' /\ PinInv'
  BY <1>1, ZenonT(60) DEF MembersInv, BackendInv, AckInv, SoftInv, UnsetInv, ChangeInv, PinInv, Hard
<1>5. ShadowInv' /\ CartInv' /\ FileInv' /\ LogInv' /\ BitInv'
  BY <1>1, <1>2, Zenon DEF ShadowInv, CartInv, FileInv, LogInv, BitInv
<1>6. DirtyInv' /\ LoopInv' /\ PendingInv' /\ RecoverInv' /\ StatusPinInv'
  BY <1>1, <1>2, Zenon DEF DirtyInv, LoopInv, PendingInv, RecoverInv, Recoverable, StatusPinInv
<1> QED
  BY <1>3, <1>4, <1>5, <1>6, Zenon

\* Without flushes and with max_logcount = 0 the SyncWriter has nothing to do.
LEMMA Unused ==
  ASSUME SafeSettings, CommitInv
  PROVE  ~RequestFlush /\ ~StartFlush /\ ~GetSyncGroup /\ ~MergeIntoSync /\ ~FinishFlush /\ ~SyncWriter
<1>1. /\ flushes = 0 /\ s.pc = "idle" /\ group[Sync].currstate = "NOT_READY" /\ w.pc \in WriterPlaces
      /\ group[w.cart].currstate \in {"NOT_READY", "READY", "RUNNING", "LOGGED", "SYNCED"}
  BY DEF CommitInv, Types, IdleSync, EmptyGroup, Writers, WriteGroups
<1>2. ~RequestFlush
  BY <1>1 DEF RequestFlush, SafeSettings
<1>3. ~StartFlush
  BY <1>1, Zenon DEF StartFlush
<1>4. ~GetSyncGroup
  BY <1>1, Zenon DEF GetSyncGroup
<1>5. ~MergeIntoSync /\ ~FinishFlush
  BY <1>1, Zenon DEF MergeIntoSync, FinishFlush, At, WriterPlaces
<1>6. ~SyncWriter
  BY <1>1, Zenon DEF SyncWriter, SyncWriterWake, SyncWriterStart, SyncWriterCopy, SyncWriterDone
<1> QED
  BY <1>2, <1>3, <1>4, <1>5, <1>6, ZenonT(60)

LEMMA NextKeeps ==
  ASSUME SafeSettings, CommitInv, [Next]_vars
  PROVE  CommitInv'
<1>1. ASSUME NEW x \in Xids, Backend(x)
      PROVE  CommitInv'
  BY <1>1, FetchKeeps, ModifyKeeps, RegisterKeeps, MarkDirtyKeeps, CommitKeeps, SetStatusKeeps, Zenon,
     RegisterStatusKeeps, MarkStatusDirtyKeeps, Zenon DEF Backend
<1>2. ASSUME DBWriter
      PROVE  CommitInv'
  BY <1>2, Unused, StartGroupKeeps, BeginLogKeeps, LogStartKeeps, LogCopyKeeps, CommitLogKeeps, ZenonT(60),
     LogTransactionsKeeps, FlushTransactionsKeeps, AcknowledgeKeeps, CollectSyncKeeps, BeginSyncKeeps,
     SyncStartKeeps, SyncCopyKeeps, SyncLogPageKeeps, EndSyncKeeps, CommitPackageKeeps, ClearLogsKeeps,
     AcknowledgeSyncKeeps, FinishWriteGroupKeeps, Zenon DEF DBWriter
<1>3. CASE UNCHANGED vars
  BY <1>3, StutterKeeps, Zenon
<1>4. Quiescent => UNCHANGED vars
  BY Zenon DEF Quiescent
<1> QED
  BY <1>1, <1>2, <1>3, <1>4, Unused, EvictKeeps, EvictLogKeeps, CrashKeeps, RestartKeeps, StutterKeeps, Zenon
  DEF Next

\* The invariant that the results below rest on, for any number of
\* transactions and pages, any number of crashes and of pages leaving the pool.
THEOREM CommitInvHolds ==
  ASSUME SafeSettings
  PROVE  Spec => []CommitInv
<1>1. Init => CommitInv
  BY InitKeeps, Zenon
<1>2. CommitInv /\ [Next]_vars => CommitInv'
  BY NextKeeps, Zenon
<1> QED
  BY <1>1, <1>2, PTL DEF Spec

\* A careful or synced commit whose client was answered is committed in pg_log
\* after any crash, with all its changes in the files: LogBuffers and
\* smgrcommitlog precede LogTransactions, which precedes the wake-up, and the
\* log expires only after smgrsync.
THEOREM CommitDurableHolds ==
  ASSUME SafeSettings
  PROVE  Spec => []CommitDurable
<1>1. CommitInv => CommitDurable
  <2> SUFFICES ASSUME CommitInv, ~up, NEW x \in acked, Hard(x)
               PROVE  ldisk[x] = "commit" /\ \A p \in Writes[x] : x \in disk[p]
    BY Zenon DEF CommitDurable
  <2>1. x \in Xids /\ ldisk[x] = "commit"
    BY Zenon DEF CommitInv, AckInv, Types
  <2>2. Idle /\ slog = EmptyLog
    BY Zenon DEF CommitInv, GroupInv, LogInv, Idle
  <2>3. lbuf.data[x] = "commit" /\ x \in Settled
    BY <2>1, Zenon DEF CommitInv, BitInv, Settled
  <2>4. \A p \in Writes[x] : Recoverable(x, p)
    BY <2>3, Zenon DEF CommitInv, RecoverInv
  <2>5. DOMAIN slog = {}
    BY <2>2, Zenon DEF EmptyLog
  <2> QED
    BY <2>1, <2>4, <2>5, Zenon DEF Recoverable
<1> QED
  BY <1>1, CommitInvHolds, PTL

\* Whatever recovery finds committed in pg_log, soft commits included, is there
\* with every one of its changes.
THEOREM CommitAtomicHolds ==
  ASSUME SafeSettings
  PROVE  Spec => []CommitAtomic
<1>1. CommitInv => CommitAtomic
  <2> SUFFICES ASSUME CommitInv, ~up, NEW x \in Xids, ldisk[x] = "commit"
               PROVE  \A p \in Writes[x] : x \in disk[p]
    BY Zenon DEF CommitAtomic
  <2>1. Idle /\ slog = EmptyLog
    BY Zenon DEF CommitInv, GroupInv, LogInv, Idle
  <2>2. lbuf.data[x] = "commit" /\ x \in Settled
    BY Zenon DEF CommitInv, BitInv, Settled
  <2>3. \A p \in Writes[x] : Recoverable(x, p)
    BY <2>2, Zenon DEF CommitInv, RecoverInv
  <2>4. DOMAIN slog = {}
    BY <2>1, Zenon DEF EmptyLog
  <2> QED
    BY <2>3, <2>4, Zenon DEF Recoverable
<1> QED
  BY <1>1, CommitInvHolds, PTL

\* While the server runs, a soft commit that was answered stays visible as
\* committed, whatever the group of its pg_log page does.
THEOREM SoftVisibleHolds ==
  ASSUME SafeSettings
  PROVE  Spec => []SoftVisible
<1>1. CommitInv => SoftVisible
  <2> SUFFICES ASSUME CommitInv, up, crashes = 0, NEW x \in acked, type[x] = "soft"
               PROVE  lbuf.data[x] \in {"soft", "commit"}
    BY Zenon DEF SoftVisible
  <2>1. x \in Xids /\ pc[x] \in {"done", "lost"}
    BY Zenon DEF CommitInv, AckInv, Types
  <2> QED
    BY <2>1, Zenon DEF CommitInv, SoftInv
<1> QED
  BY <1>1, CommitInvHolds, PTL

LEMMA DataGrows ==
  ASSUME SafeSettings, CommitInv, [Next]_vars, up, up'
  PROVE  \A p \in DataPages : buf[p].data \subseteq buf'[p].data
<1> DEFINE G == \A p \in DataPages : buf[p].data \subseteq buf'[p].data
<1>1. (buf' = buf => G) /\ ((\A q \in DataPages : buf'[q].data = buf[q].data) => G)
  BY Zenon
<1>2. ASSUME NEW x \in Xids, Backend(x)
      PROVE  G
  <2>1. /\ Register(x) => buf' = buf
        /\ \A t \in CommitTypes[x] : Commit(x, t) => buf' = buf
        /\ (SetStatus(x) \/ RegisterStatus(x) \/ MarkStatusDirty(x)) => buf' = buf
    BY Zenon DEF Register, Commit, SetStatus, RegisterStatus, MarkStatusDirty, poolVars
  <2> HIDE DEF G
  <2>2. \A p \in DataPages : Fetch(x, p) => G
    BY FetchKeeps, Zenon DEF G
  <2>3. (Modify(x) => G) /\ (MarkDirty(x) => G)
    BY ModifyKeeps, MarkDirtyKeeps, Zenon DEF G
  <2> QED
    BY <1>1, <1>2, <2>1, <2>2, <2>3, Zenon DEF Backend
<1>3. ASSUME DBWriter
      PROVE  G
  <2>1. (\E primed \in BOOLEAN : StartGroup(primed)) => buf' = buf
    BY Zenon DEF StartGroup, poolVars
  <2>2. (BeginLog \/ CommitLog \/ LogTransactions \/ FlushTransactions \/ Acknowledge \/ CollectSync) => buf' = buf
    BY Zenon DEF BeginLog, CommitLog, LogTransactions, FlushTransactions, Acknowledge, CollectSync, poolVars
  <2>3. (BeginSync \/ SyncLogPage \/ EndSync \/ CommitPackage \/ ClearLogs \/ AcknowledgeSync
           \/ FinishWriteGroup) => buf' = buf
    BY Zenon DEF BeginSync, SyncLogPage, EndSync, CommitPackage, ClearLogs, AcknowledgeSync,
                 FinishWriteGroup, poolVars
  <2> HIDE DEF G
  <2>4. (LogStart => G) /\ (LogCopy => G) /\ (SyncStart => G) /\ (SyncCopy => G)
    BY <1>1, LogStartKeeps, LogCopyKeeps, SyncStartKeeps, SyncCopyKeeps, Zenon
  <2> QED
    BY <1>1, <1>3, <2>1, <2>2, <2>3, <2>4, Unused, Zenon DEF DBWriter
<1>4. (EvictLog \/ Restart \/ Quiescent \/ UNCHANGED vars) => buf' = buf
  BY Zenon DEF EvictLog, Restart, Quiescent, vars, poolVars
<1>5. \A lost \in SUBSET DataPages : ~Crash(lost)
  BY Zenon DEF Crash
<1> HIDE DEF G
<1>6. \A p \in DataPages : Evict(p) => G
  BY <1>1, EvictKeeps, Zenon
<1>7. G
  BY <1>1, <1>2, <1>3, <1>4, <1>5, <1>6, Unused, Zenon DEF Next
<1> QED
  BY <1>7, Zenon DEF G

\* While the server runs, a change made to a shared page never leaves it: a page
\* that can be evicted is in its file with every change.
THEOREM NoLostUpdateHolds ==
  ASSUME SafeSettings
  PROVE  Spec => NoLostUpdate
<1>1. CommitInv /\ [Next]_vars =>
        [up /\ up' => \A p \in DataPages : buf[p].data \subseteq buf'[p].data]_vars
  BY DataGrows, Zenon
<1> QED
  BY <1>1, CommitInvHolds, PTL DEF Spec, NoLostUpdate

-----------------------------------------------------------------------------
(* The refinement of DurableCommit.                                        *)

\* What is committed in pg_log on disk is durable.
LEMMA DurableIs ==
  ASSUME CommitInv
  PROVE  Durable = {x \in Xids : ldisk[x] = "commit"}
<1>1. ASSUME NEW x \in Xids, ldisk[x] = "commit"
      PROVE  \A p \in Writes[x] : Recoverable(x, p)
  <2>1. lbuf.data[x] = "commit" /\ x \in Settled
    BY <1>1, Zenon DEF CommitInv, BitInv, Settled
  <2> QED
    BY <2>1, Zenon DEF CommitInv, RecoverInv
<1> QED
  BY <1>1, Zenon DEF Durable

LEMMA DurableIsNext ==
  ASSUME CommitInv'
  PROVE  Durable' = {x \in Xids : ldisk'[x] = "commit"}
<1>1. ASSUME NEW x \in Xids, ldisk'[x] = "commit"
      PROVE  \A p \in Writes[x] : Recoverable(x, p)'
  <2>1. lbuf'.data[x] = "commit" /\ x \in Settled'
    BY <1>1, Zenon DEF CommitInv, BitInv, Settled
  <2> QED
    BY <2>1, Zenon DEF CommitInv, RecoverInv
<1> QED
  BY <1>1, Zenon DEF Durable

Gone == {x \in Xids : pc[x] = "lost"}
AskedFor == [x \in Xids |-> Asked(type[x])]

\* A step that DurableCommit does not see.
Quiet ==
  /\ UNCHANGED <<type, acked>>
  /\ \A x \in Xids : /\ ldisk'[x] = "commit" <=> ldisk[x] = "commit"
                     /\ pc'[x] = "lost" <=> pc[x] = "lost"

LEMMA QuietStep ==
  ASSUME CommitInv, CommitInv', Quiet
  PROVE  UNCHANGED DC!vars
<1>1. Durable' = Durable
  BY DurableIs, DurableIsNext, Zenon DEF Quiet
<1>2. Gone' = Gone
  BY Zenon DEF Gone, Quiet
<1>3. AskedFor' = AskedFor /\ acked' = acked
  BY Zenon DEF AskedFor, Quiet
<1> QED
  BY <1>1, <1>2, <1>3, Zenon DEF DC!vars, Gone, AskedFor

\* pg_log reaches the disk.
LEMMA HardenStep ==
  ASSUME CommitInv, CommitInv', UNCHANGED <<type, acked, pc>>,
         \A x \in Xids : ldisk[x] = "commit" => ldisk'[x] = "commit"
  PROVE  DC!Next
<1> DEFINE X == Durable' \ Durable
<1>1. Durable = {x \in Xids : ldisk[x] = "commit"} /\ Durable' = {x \in Xids : ldisk'[x] = "commit"}
  BY DurableIs, DurableIsNext, Zenon
<1>2. X \in SUBSET Xids /\ Durable' = Durable \cup X
  BY <1>1, Zenon
<1>3. \A x \in X : pc[x] # "lost" /\ type[x] \in Outcomes \ {"abort"}
  <2>1. \A x \in Xids : ldisk'[x] = "commit" => type[x] \in Outcomes \ {"abort"} /\ pc[x] \in Ending
    BY Zenon DEF CommitInv, BitInv
  <2> QED
    BY <1>1, <2>1, Zenon DEF Ending
<1>4. \A x \in X : x \in Xids \ Gone /\ AskedFor[x] \in {"hard", "soft"}
  BY <1>2, <1>3, Zenon DEF Gone, AskedFor, Asked, Outcomes
<1>5. AskedFor' = AskedFor /\ Gone' = Gone
  BY Zenon DEF AskedFor, Gone
<1>6. DC!Harden(X)
  BY <1>2, <1>4, <1>5, Zenon DEF DC!Harden, Gone, AskedFor
<1> QED
  BY <1>2, <1>6, Zenon DEF DC!Next

\* Clients are answered.
LEMMA AnswerStep ==
  ASSUME CommitInv, CommitInv', NEW X \in SUBSET Xids, acked' = acked \cup X, type' = type,
         \A x \in X : (Hard(x) /\ ldisk[x] = "commit") \/ type[x] \in {"soft", "abort"},
         \A x \in Xids : /\ ldisk'[x] = "commit" <=> ldisk[x] = "commit"
                         /\ pc'[x] = "lost" <=> pc[x] = "lost"
  PROVE  DC!Next
<1>1. Durable = {x \in Xids : ldisk[x] = "commit"} /\ Durable' = Durable
  BY DurableIs, DurableIsNext, Zenon
<1>2. \A x \in X : \/ AskedFor[x] = "hard" /\ x \in Durable
                   \/ AskedFor[x] \in {"soft", "abort"}
  BY <1>1, Zenon DEF AskedFor, Asked, Hard
<1>3. AskedFor' = AskedFor /\ Gone' = Gone
  BY Zenon DEF AskedFor, Gone
<1>4. DC!Acknowledge(X)
  BY <1>1, <1>2, <1>3, Zenon DEF DC!Acknowledge, Gone, AskedFor
<1> QED
  BY <1>4, Zenon DEF DC!Next

\* A transaction asks for its outcome.
LEMMA AskStep ==
  ASSUME CommitInv, CommitInv', NEW x \in Xids, NEW t \in CommitTypes[x], Commit(x, t)
  PROVE  DC!Next
<1>1. /\ pc[x] = "work" /\ type' = [type EXCEPT ![x] = t] /\ UNCHANGED <<ldisk, acked>>
      /\ pc' = [pc EXCEPT ![x] = IF t \in {"careful", "synced"} THEN "waiting" ELSE "status"]
  BY ZenonT(60) DEF Commit, fileVars
<1>2. /\ type \in [Xids -> Outcomes \cup {None}] /\ pc \in [Xids -> Early \cup Ending \cup {"lost"}]
      /\ type[x] = None /\ None \notin Outcomes /\ t \in Outcomes
  <2>1. None \notin Outcomes /\ t \in Outcomes
    BY SizeAssumption, Zenon DEF Outcomes
  <2>2. pc[x] \in Early
    BY <1>1, Zenon DEF Early
  <2> QED
    BY <2>1, <2>2, Zenon DEF CommitInv, Types, BackendInv
<1>3. Gone' = Gone /\ x \notin Gone
  BY <1>1, <1>2, Zenon DEF Gone
<1>4. Durable' = Durable
  BY <1>1, DurableIs, DurableIsNext, Zenon
<1>5. AskedFor[x] = None /\ Asked(t) \in {"hard", "soft", "abort"}
  BY <1>2, Zenon DEF AskedFor, Asked, Outcomes
<1>6. AskedFor' = [AskedFor EXCEPT ![x] = Asked(t)]
  <2>1. \A y \in Xids : type'[y] = IF y = x THEN t ELSE type[y]
    BY <1>1, <1>2, Zenon
  <2>2. \A y \in Xids : Asked(type'[y]) = IF y = x THEN Asked(t) ELSE AskedFor[y]
    BY <2>1, Zenon DEF AskedFor
  <2>3. AskedFor = [y \in Xids |-> AskedFor[y]] /\ AskedFor' = [y \in Xids |-> Asked(type'[y])]
    BY Zenon DEF AskedFor
  <2> QED
    BY <2>2, <2>3, Zenon
<1>7. DC!Ask(x, Asked(t))
  BY <1>1, <1>3, <1>4, <1>5, <1>6, Zenon DEF DC!Ask, Gone, AskedFor
<1> QED
  BY <1>5, <1>7, Zenon DEF DC!Next

\* A crash cuts off only what is not durable.
LEMMA CrashStep ==
  ASSUME SafeSettings, CommitInv, CommitInv', NEW lost \in SUBSET DataPages, Crash(lost)
  PROVE  DC!Next
<1>0. PICK X : X = {x \in Xids : pc'[x] = "lost" /\ pc[x] # "lost"}
  BY Zenon
<1>1. /\ UNCHANGED <<type, acked>>
      /\ \A x \in Xids : ldisk'[x] = "commit" <=> ldisk[x] = "commit"
      /\ \A x \in Xids : pc[x] = "lost" => pc'[x] = "lost"
      /\ \A x \in Xids : pc'[x] = "lost" => ldisk[x] # "commit"
  BY CrashKeeps, Zenon
<1>2. Durable = {x \in Xids : ldisk[x] = "commit"} /\ Durable' = Durable
  BY <1>1, DurableIs, DurableIsNext, Zenon
<1>3. X \in SUBSET Xids /\ Gone' = Gone \cup X /\ X \cap Durable = {}
  BY <1>0, <1>1, <1>2, Zenon DEF Gone
<1>4. AskedFor' = AskedFor
  BY <1>1, Zenon DEF AskedFor
<1>5. DC!Crash(X)
  BY <1>1, <1>2, <1>3, <1>4, Zenon DEF DC!Crash, Gone, AskedFor
<1> QED
  BY <1>3, <1>5, Zenon DEF DC!Next

LEMMA StepRefines ==
  ASSUME SafeSettings, CommitInv, CommitInv', [Next]_vars
  PROVE  [DC!Next]_DC!vars
<1> DEFINE R == DC!Next \/ UNCHANGED DC!vars
<1>1. Quiet => R
  BY QuietStep, Zenon
<1>2. ASSUME NEW x \in Xids, Backend(x)
      PROVE  R
  <2>1. pc \in [Xids -> Early \cup Ending \cup {"lost"}]
    BY Zenon DEF CommitInv, Types
  <2>2. (\E p \in DataPages : Fetch(x, p)) => Quiet
    BY <2>1, Zenon DEF Fetch, fileVars, Quiet
  <2>3. (Modify(x) => Quiet) /\ (Register(x) => Quiet)
    BY <2>1, Zenon DEF Modify, Register, fileVars, workVars, Quiet
  <2>4. MarkDirty(x) => Quiet
    BY <2>1, Zenon DEF MarkDirty, fileVars, Quiet
  <2>5. (SetStatus(x) => Quiet) /\ (RegisterStatus(x) => Quiet)
    BY <2>1, Zenon DEF SetStatus, RegisterStatus, fileVars, workVars, Quiet
  <2>6. ASSUME MarkStatusDirty(x)
        PROVE  DC!Next
    <3>1. /\ pc[x] = "statusdirty" /\ pc' = [pc EXCEPT ![x] = "done"] /\ acked' = acked \cup {x}
          /\ UNCHANGED <<type, ldisk>>
      BY <2>6, Zenon DEF MarkStatusDirty, fileVars, workVars
    <3>2. type[x] \in {"soft", "abort"}
      BY <3>1, Zenon DEF CommitInv, BackendInv, Ending, Outcomes, Hard
    <3>3. \A y \in Xids : pc'[y] = "lost" <=> pc[y] = "lost"
      BY <2>1, <3>1, Zenon
    <3>4. {x} \in SUBSET Xids
      BY Zenon
    <3> QED
      BY <3>1, <3>2, <3>3, <3>4, AnswerStep, Zenon
  <2>7. \A t \in CommitTypes[x] : Commit(x, t) => DC!Next
    BY AskStep, Zenon
  <2> QED
    BY <1>1, <1>2, <2>2, <2>3, <2>4, <2>5, <2>6, <2>7, ZenonT(60) DEF Backend
<1>3. ASSUME DBWriter
      PROVE  R
  <2>1. (\E primed \in BOOLEAN : StartGroup(primed)) => Quiet
    BY Zenon DEF StartGroup, fileVars, backendVars, workVars, Quiet
  <2>2. (BeginLog => Quiet) /\ (LogStart => Quiet) /\ (LogCopy => Quiet) /\ (CommitLog => Quiet)
    BY Zenon DEF BeginLog, LogStart, LogCopy, CommitLog, fileVars, backendVars, workVars, Quiet
  <2>3. LogTransactions => Quiet
    BY Zenon DEF LogTransactions, fileVars, backendVars, workVars, Quiet
  <2>4. (CollectSync => Quiet) /\ (BeginSync => Quiet) /\ (SyncStart => Quiet) /\ (SyncCopy => Quiet)
    BY Zenon DEF CollectSync, BeginSync, SyncStart, SyncCopy, fileVars, backendVars, workVars, Quiet
  <2>5. (EndSync => Quiet) /\ (CommitPackage => Quiet) /\ (ClearLogs => Quiet) /\ (FinishWriteGroup => Quiet)
    BY Zenon DEF EndSync, CommitPackage, ClearLogs, FinishWriteGroup, fileVars, backendVars, workVars, Quiet
  <2>6. (FlushTransactions => DC!Next) /\ (SyncLogPage => DC!Next)
    BY FlushTransactionsKeeps, SyncLogPageKeeps, HardenStep, Zenon
  <2>7. ASSUME Acknowledge
        PROVE  DC!Next
    <3>1. /\ UNCHANGED <<ldisk, type>> /\ acked' = acked \cup Cart.waiters
          /\ \A x \in Cart.waiters : x \in Xids /\ Hard(x) /\ ldisk[x] = "commit"
          /\ \A y \in Xids : pc'[y] = "lost" <=> pc[y] = "lost"
      BY <2>7, AcknowledgeKeeps, Zenon
    <3>2. Cart.waiters \in SUBSET Xids
      BY <3>1, Zenon
    <3> QED
      BY <3>1, <3>2, AnswerStep, Zenon
  <2>8. ASSUME AcknowledgeSync
        PROVE  DC!Next
    <3> DEFINE X == Cart.waiters \cup Cart.syncers
    <3>1. /\ UNCHANGED <<ldisk, type>> /\ acked' = acked \cup X
          /\ \A x \in X : x \in Xids /\ Hard(x) /\ ldisk[x] = "commit"
          /\ \A y \in Xids : pc'[y] = "lost" <=> pc[y] = "lost"
      BY <2>8, AcknowledgeSyncKeeps, Zenon
    <3> HIDE DEF X
    <3>2. X \in SUBSET Xids
      BY <3>1, Zenon
    <3> QED
      BY <3>1, <3>2, AnswerStep, Zenon
  <2> QED
    BY <1>1, <1>3, <2>1, <2>2, <2>3, <2>4, <2>5, <2>6, <2>7, <2>8, Unused, ZenonT(60) DEF DBWriter
<1>4. /\ (\E p \in DataPages : Evict(p)) => Quiet
      /\ (EvictLog => Quiet) /\ (Restart => Quiet)
  BY Zenon DEF Evict, EvictLog, Restart, fileVars, backendVars, workVars, Quiet
<1>5. (Quiescent => Quiet) /\ (UNCHANGED vars => Quiet)
  BY Zenon DEF Quiescent, vars, fileVars, backendVars, workVars, Quiet
<1>6. \A lost \in SUBSET DataPages : Crash(lost) => DC!Next
  BY CrashStep, Zenon
<1> HIDE DEF R
<1>7. R
  BY <1>1, <1>2, <1>3, <1>4, <1>5, <1>6, Unused, Zenon DEF Next, R
<1> QED
  BY <1>7, Zenon DEF R

LEMMA InitRefines ==
  ASSUME SafeSettings, Init
  PROVE  DC!Init
<1>1. Durable = {x \in Xids : ldisk[x] = "commit"}
  BY InitKeeps, DurableIs, Zenon
<1>2. /\ ldisk = [x \in Xids |-> "inprogress"] /\ pc = [x \in Xids |-> "work"]
      /\ type = [x \in Xids |-> None] /\ acked = {}
  BY Zenon DEF Init, InProgress
<1>3. Durable = {} /\ Gone = {}
  BY <1>1, <1>2, Zenon DEF Gone
<1>4. AskedFor = [x \in Xids |-> None]
  <2>1. Asked(None) = None
    BY SizeAssumption, Zenon DEF Asked
  <2>2. \A x \in Xids : Asked(type[x]) = None
    BY <1>2, <2>1, Zenon
  <2> QED
    BY <2>2, Zenon DEF AskedFor
<1> QED
  BY <1>2, <1>3, <1>4, Zenon DEF DC!Init, Gone, AskedFor

\* Group commit implements DurableCommit: a transaction becomes durable in the
\* one step that writes pg_log, is answered as a hard commit only afterwards,
\* and is still durable after every later write, log expiry and crash.
THEOREM KeepsPromiseHolds ==
  ASSUME SafeSettings
  PROVE  Spec => KeepsPromise
<1>1. Init => DC!Init
  BY InitRefines, Zenon
<1>2. CommitInv /\ CommitInv' /\ [Next]_vars => [DC!Next]_DC!vars
  BY StepRefines, Zenon
<1> QED
  BY <1>1, <1>2, CommitInvHolds, PTL DEF Spec, KeepsPromise, DC!Spec
=============================================================================
