-------------------------- MODULE Snapshot_proofs --------------------------
(***************************************************************************)
(* Proofs about Snapshot for any number of threads, transactions and       *)
(* commands: a snapshot decides for good what it sees, the checkpoint id   *)
(* that vacuum goes by stays below every open snapshot, and the versions   *)
(* of a row are updated, hinted and vacuumed accordingly.                  *)
(*                                                                         *)
(* The first two follow from what a scan knows about the slots it has      *)
(* passed, which other threads keep changing behind it (SnapInv).  The     *)
(* versions need three more layers: what the slot and the log say of each  *)
(* transaction (XactInv), which transactions the horizons, wherever they   *)
(* were copied to, have left behind (HorizonInv), and what is true of each *)
(* version and of each thread that is in the middle of judging one         *)
(* (RowInv).                                                               *)
(***************************************************************************)
EXTENDS Snapshot, SequenceTheorems, TLAPS

Slots == [state : {"default", "start", "commit"}, xid : Nat, xmin : Nat]
Snapshots == [xmin : Nat, xmax : Nat, xip : SUBSET Nat]
Scans == [by : 0 .. NThreads, at : Nat, xmax : Nat, xmin : Nat, xip : SUBSET Nat, low : Nat]

ScanTypes ==
  /\ nextXid \in Nat /\ 0 < nextXid /\ checkpoint \in Nat
  /\ pc \in [Threads -> Places] /\ xid \in [Threads -> Nat]
  /\ slot \in [Threads -> Slots] /\ snap \in [Threads -> Snapshots] /\ scan \in Scans

\* A slot shows the id of its transaction from ThreadTransactionStart to
\* ResetThreadState.
SlotInv ==
  \A t \in Threads :
    /\ pc[t] # "idle" => 0 < xid[t] /\ xid[t] < nextXid
    /\ pc[t] \in {"idle", "taken"} => slot[t].state = "default" /\ snap[t] = NoSnap
    /\ pc[t] \notin {"idle", "taken"} =>
         slot[t].state # "default" /\ slot[t].xid = xid[t] /\ 0 < slot[t].xmin
    /\ Open(t) => snap[t].xmax <= nextXid

\* The scan has counted the transaction of thread u as running, or as one to come.
Counted(u) ==
  pc[u] \notin {"idle", "reset"} /\ xid[u] \notin late =>
    TransactionIdActiveDuringSnapshot(scan, xid[u])

\* The checkpoint id of the scan is not beyond the snapshot of thread u.
Respected(u) ==
  slot[u].state # "default" /\ snap[u] # NoSnap => scan.low <= slot[u].xmin

\* What a scan in progress knows of the slots it has passed.
ScanInv ==
  scan.by # 0 =>
    /\ pc[scan.by] = "scan" /\ 0 < scan.at
    /\ scan.xmax <= nextXid /\ 0 < scan.xmin /\ scan.low <= slot[scan.by].xmin
    /\ \A u \in Threads : u < scan.at /\ u # scan.by => Counted(u) /\ Respected(u)

SnapInv ==
  ScanTypes /\ SlotInv /\ ScanInv /\ SnapshotDecides /\ HorizonBelowSnapshots

LEMMA SnapInitial == Init => SnapInv
<1> SUFFICES ASSUME Init PROVE SnapInv
  BY Zenon
<1>1. pc = [t \in Threads |-> "idle"] /\ xid = [t \in Threads |-> 0]
      /\ slot = [t \in Threads |-> DefaultSlot] /\ snap = [t \in Threads |-> NoSnap]
      /\ scan = NoScan /\ nextXid = 3 /\ checkpoint \in 3 .. MaxXid + 1
  BY Zenon DEF Init, Invalid
<1>2. DefaultSlot \in Slots /\ NoSnap \in Snapshots /\ NoScan \in Scans /\ "idle" \in Places
  BY SnapshotAssumption DEF DefaultSlot, NoSnap, NoScan, Slots, Snapshots, Scans, Places, Invalid
<1>3. ScanTypes
  BY <1>1, <1>2 DEF ScanTypes
<1>4. SlotInv
  BY <1>1, Zenon DEF SlotInv, Open, DefaultSlot
<1>5. ScanInv
  BY <1>1, Zenon DEF ScanInv, NoScan
<1>6. SnapshotDecides /\ HorizonBelowSnapshots
  BY <1>1, Zenon DEF SnapshotDecides, HorizonBelowSnapshots, Open
<1> QED
  BY <1>3, <1>4, <1>5, <1>6, Zenon DEF SnapInv

\* Steps of a thread that touch no slot, no scan, no id and no snapshot: reading,
\* updating, waiting, vacuuming and the log.
Quiet ==
  /\ UNCHANGED <<nextXid, checkpoint, slot, scan, xid, snap, late>>
  /\ pc' \in [Threads -> Places]
  /\ \A u \in Threads :
       \/ pc'[u] = pc[u]
       \/ Open(u) /\ pc'[u] \notin {"idle", "taken", "begun", "scan"}
       \/ pc[u] = "abort" /\ pc'[u] = "reset"

LEMMA QuietKeeps ==
  ASSUME SnapInv, Quiet
  PROVE  SnapInv'
<1> USE DEF SnapInv, Quiet
<1>1. \A u \in Threads :
        /\ pc'[u] = "idle" <=> pc[u] = "idle"
        /\ pc'[u] = "taken" <=> pc[u] = "taken"
        /\ pc'[u] = "scan" <=> pc[u] = "scan"
        /\ pc'[u] \notin {"idle", "reset"} => pc[u] \notin {"idle", "reset"}
        /\ Open(u)' => Open(u)
  BY Zenon DEF Open
<1>2. ScanTypes'
  BY Zenon DEF ScanTypes
<1>3. SlotInv'
  BY <1>1, Zenon DEF SlotInv
<1>4. ScanInv'
  <2> SUFFICES ASSUME scan.by # 0 PROVE ScanInv'
    BY Zenon DEF ScanInv
  <2>1. scan.by \in Threads
    BY SnapshotAssumption DEF ScanTypes, Scans, Threads
  <2>2. pc'[scan.by] = "scan"
    BY <1>1, <2>1, Zenon DEF ScanInv
  <2>3. \A u \in Threads : (Counted(u) => Counted(u)') /\ (Respected(u) => Respected(u)')
    BY <1>1, Zenon DEF Counted, Respected, TransactionIdActiveDuringSnapshot
  <2> QED
    BY <2>2, <2>3, Zenon DEF ScanInv
<1>5. SnapshotDecides'
  BY <1>1, Zenon DEF SnapshotDecides, TransactionIdActiveDuringSnapshot
<1>6. HorizonBelowSnapshots'
  BY Zenon DEF HorizonBelowSnapshots
<1> QED
  BY <1>2, <1>3, <1>4, <1>5, <1>6, Zenon

\* A new id is not below the xmax of any snapshot or scan.
LEMMA NewXidKeeps ==
  ASSUME SnapInv, NEW t \in Threads, GetNewTransactionId(t)
  PROVE  SnapInv'
<1> USE DEF SnapInv
<1>1. /\ pc[t] = "idle" /\ nextXid' = nextXid + 1
      /\ xid' = [xid EXCEPT ![t] = nextXid] /\ pc' = [pc EXCEPT ![t] = "taken"]
      /\ UNCHANGED <<checkpoint, slot, scan, snap, late>>
  BY Zenon DEF GetNewTransactionId, Goto
<1>2. /\ nextXid \in Nat /\ 0 < nextXid /\ xid \in [Threads -> Nat] /\ pc \in [Threads -> Places]
      /\ snap \in [Threads -> Snapshots]
  BY Zenon DEF ScanTypes
<1>3. ScanTypes'
  BY <1>1 DEF ScanTypes, Places
<1>4. SlotInv'
  BY <1>1, <1>2 DEF SlotInv, Open, Snapshots
<1>5. ScanInv'
  <2> SUFFICES ASSUME scan.by # 0 PROVE ScanInv'
    BY <1>1, Zenon DEF ScanInv
  <2>1. scan.by \in Threads /\ scan.xmax \in Nat /\ scan.xmin \in Nat
    BY SnapshotAssumption, SMTT(30) DEF ScanTypes, Scans, Threads
  <2>2. pc[scan.by] = "scan" /\ pc'[scan.by] = "scan"
    BY <1>1, <1>2, <2>1, Zenon DEF ScanInv
  <2>3. scan.xmax <= nextXid' /\ 0 < scan.xmin /\ scan.low <= slot[scan.by].xmin
    BY <1>1, <1>2, <2>1 DEF ScanInv
  <2>4. \A u \in Threads : u < scan.at /\ u # scan.by => Counted(u)'
    <3> SUFFICES ASSUME NEW u \in Threads, u < scan.at, u # scan.by PROVE Counted(u)'
      BY Zenon
    <3>1. CASE u = t
      BY <1>1, <1>2, <2>1, <3>1, Zenon DEF Counted, TransactionIdActiveDuringSnapshot, ScanInv
    <3>2. CASE u # t
      BY <1>1, <1>2, <3>2, Zenon DEF Counted, TransactionIdActiveDuringSnapshot, ScanInv
    <3> QED
      BY <3>1, <3>2, Zenon
  <2>5. \A u \in Threads : Respected(u) => Respected(u)'
    BY <1>1, Zenon DEF Respected
  <2> QED
    BY <1>1, <2>2, <2>3, <2>4, <2>5, Zenon DEF ScanInv
<1>6. SnapshotDecides'
  <2> SUFFICES ASSUME NEW w \in Threads, NEW u \in Threads, Open(w)', w # u,
                      pc'[u] \notin {"idle", "reset"}, xid'[u] \notin late
               PROVE  TransactionIdActiveDuringSnapshot(snap[w], xid'[u])
    BY <1>1, Zenon DEF SnapshotDecides, TransactionIdActiveDuringSnapshot
  <2>1. w # t /\ Open(w)
    BY <1>1, <1>2, Zenon DEF Open
  <2>2. snap[w].xmax <= nextXid
    BY <2>1, Zenon DEF SlotInv
  <2>3. CASE u = t
    BY <1>1, <1>2, <2>2, <2>3, Zenon DEF TransactionIdActiveDuringSnapshot
  <2>4. CASE u # t
    BY <1>1, <1>2, <2>1, <2>4, Zenon DEF SnapshotDecides
  <2> QED
    BY <2>3, <2>4, Zenon
<1>7. HorizonBelowSnapshots'
  BY <1>1, Zenon DEF HorizonBelowSnapshots
<1> QED
  BY <1>3, <1>4, <1>5, <1>6, <1>7, Zenon

\* A slot that is published behind a scan belongs to an id the scan left out of
\* account as late, or is at or above its xmax.
LEMMA StartKeeps ==
  ASSUME SnapInv, NEW t \in Threads, ThreadTransactionStart(t)
  PROVE  SnapInv'
<1> USE DEF SnapInv
<1>1. /\ pc[t] = "taken" /\ pc' = [pc EXCEPT ![t] = "begun"]
      /\ slot' = [slot EXCEPT ![t] = [state |-> "start", xid |-> xid[t], xmin |-> xid[t]]]
      /\ UNCHANGED <<nextXid, checkpoint, xid, scan, snap, late>>
  BY Zenon DEF ThreadTransactionStart, Goto, logVars, xactVars
<1>2. /\ pc \in [Threads -> Places] /\ slot \in [Threads -> Slots] /\ xid \in [Threads -> Nat]
      /\ snap[t] = NoSnap /\ 0 < xid[t]
  BY <1>1, Zenon DEF ScanTypes, SlotInv
<1>3. /\ slot'[t] = [state |-> "start", xid |-> xid[t], xmin |-> xid[t]]
      /\ \A u \in Threads \ {t} : slot'[u] = slot[u] /\ pc'[u] = pc[u]
      /\ pc'[t] = "begun"
  BY <1>1, <1>2, Zenon
<1>4. ScanTypes'
  BY <1>1, <1>2, Zenon DEF ScanTypes, Slots, Places
<1>5. SlotInv'
  BY <1>1, <1>2, <1>3, Zenon DEF SlotInv, Open
<1>6. ScanInv'
  <2> SUFFICES ASSUME scan.by # 0 PROVE ScanInv'
    BY <1>1, Zenon DEF ScanInv
  <2>1. scan.by \in Threads
    BY SnapshotAssumption, SMTT(30) DEF ScanTypes, Scans, Threads
  <2>2. scan.by # t
    BY <1>1, Zenon DEF ScanInv
  <2>3. \A u \in Threads : (Counted(u) => Counted(u)') /\ (Respected(u) => Respected(u)')
    BY <1>1, <1>2, <1>3, Zenon DEF Counted, Respected, TransactionIdActiveDuringSnapshot
  <2> QED
    BY <1>1, <1>3, <2>1, <2>2, <2>3, Zenon DEF ScanInv
<1>7. SnapshotDecides'
  BY <1>1, <1>3, Zenon DEF SnapshotDecides, TransactionIdActiveDuringSnapshot, Open
<1>8. HorizonBelowSnapshots'
  BY <1>1, <1>2, <1>3, Zenon DEF HorizonBelowSnapshots
<1> QED
  BY <1>4, <1>5, <1>6, <1>7, <1>8, Zenon

\* A scan begins with its own slot and has passed no other.
LEMMA BeginKeeps ==
  ASSUME SnapInv, NEW t \in Threads, BeginSnapshot(t)
  PROVE  SnapInv'
<1> USE DEF SnapInv
<1>1. /\ pc[t] \in {"begun", "active"} /\ pc' = [pc EXCEPT ![t] = "scan"]
      /\ scan' = [by |-> t, at |-> IF t = 1 THEN 2 ELSE 1, xmax |-> nextXid,
                  xmin |-> xid[t], xip |-> {}, low |-> SmallerOf(xid[t], slot[t].xmin)]
      /\ UNCHANGED <<nextXid, checkpoint, slot, xid, snap, late>>
  BY Zenon DEF BeginSnapshot, Goto, logVars
<1>2. /\ pc \in [Threads -> Places] /\ slot \in [Threads -> Slots] /\ xid \in [Threads -> Nat]
      /\ nextXid \in Nat /\ t \in 1 .. NThreads /\ NThreads \in Nat
      /\ 0 < xid[t] /\ slot[t].xmin \in Nat
  BY <1>1, SnapshotAssumption, Zenon DEF ScanTypes, SlotInv, Threads, Slots
<1>3. /\ scan'.by = t /\ scan'.at = (IF t = 1 THEN 2 ELSE 1) /\ scan'.xmax = nextXid
      /\ scan'.xmin = xid[t] /\ scan'.low \in Nat /\ scan'.low <= slot[t].xmin
      /\ pc'[t] = "scan" /\ \A u \in Threads \ {t} : pc'[u] = pc[u]
  BY <1>1, <1>2 DEF SmallerOf
<1>4. ScanTypes'
  <2>1. scan' \in Scans
    BY <1>1, <1>2 DEF Scans, SmallerOf
  <2> QED
    BY <1>1, <1>2, <2>1, Zenon DEF ScanTypes, Places
<1>5. SlotInv'
  BY <1>1, <1>2, <1>3, Zenon DEF SlotInv, Open
<1>6. ScanInv'
  <2>1. \A u \in Threads : ~(u < scan'.at /\ u # scan'.by)
    BY <1>2, <1>3 DEF Threads
  <2> QED
    BY <1>1, <1>2, <1>3, <2>1 DEF ScanInv
<1>7. SnapshotDecides'
  BY <1>1, <1>3, Zenon DEF SnapshotDecides, TransactionIdActiveDuringSnapshot, Open
<1>8. HorizonBelowSnapshots'
  BY <1>1, Zenon DEF HorizonBelowSnapshots
<1> QED
  BY <1>4, <1>5, <1>6, <1>7, <1>8, Zenon

\* The slot a scan passes is counted, or its id has been taken and not published.
LEMMA ScanSlotKeeps ==
  ASSUME SnapInv, NEW t \in Threads, ScanSlot(t)
  PROVE  SnapInv'
<1> USE DEF SnapInv
<1>0. scan.by = t /\ scan.by # 0 /\ scan.at \in Threads
  BY SnapshotAssumption DEF ScanSlot, ScanTypes, ScanInv, Scans, Threads
<1> PICK c \in Threads : c = scan.at
  BY <1>0, Zenon
<1> DEFINE p == slot[c]
           running == p.state # "default"
<1>1. /\ scan.by = t /\ c <= NThreads
      /\ scan' = [scan EXCEPT
           !.at = IF @ + 1 = t THEN @ + 2 ELSE @ + 1,
           !.low = IF p.xmin # Invalid THEN SmallerOf(p.xmin, @) ELSE @,
           !.xmin = IF running THEN SmallerOf(p.xid, @) ELSE @,
           !.xip = IF running THEN @ \cup {p.xid} ELSE @]
      /\ late' = IF pc[c] = "taken" /\ xid[c] < scan.xmax THEN late \cup {xid[c]} ELSE late
      /\ UNCHANGED <<nextXid, checkpoint, slot, pc, xid, snap>>
  BY Zenon DEF ScanSlot, logVars, xactVars
<1>2. /\ pc \in [Threads -> Places] /\ slot \in [Threads -> Slots] /\ xid \in [Threads -> Nat]
      /\ snap \in [Threads -> Snapshots] /\ scan \in Scans /\ nextXid \in Nat
  BY Zenon DEF ScanTypes
<1>n. NThreads \in Nat /\ \A u \in Threads : u \in Nat /\ 0 < u
  BY SnapshotAssumption DEF Threads
<1>3. /\ scan.by # 0 /\ pc[t] = "scan" /\ scan.xmax <= nextXid /\ 0 < scan.xmin
      /\ scan.low <= slot[t].xmin /\ c \in Nat /\ 0 < c
      /\ scan.xmin \in Nat /\ scan.low \in Nat /\ scan.xip \in SUBSET Nat /\ scan.xmax \in Nat
  BY <1>0, <1>1, <1>2, <1>n, Zenon DEF ScanInv, Scans
<1>4. p \in Slots /\ p.xid \in Nat /\ p.xmin \in Nat
      /\ (running => p.xid = xid[c] /\ 0 < p.xid /\ 0 < p.xmin)
  BY <1>2, <1>3, Zenon DEF SlotInv, Slots
<1>5. /\ scan'.by = t /\ scan'.xmax = scan.xmax
      /\ scan'.at = IF c + 1 = t THEN c + 2 ELSE c + 1
      /\ scan'.low = IF p.xmin # 0 THEN SmallerOf(p.xmin, scan.low) ELSE scan.low
      /\ scan'.xmin = IF running THEN SmallerOf(p.xid, scan.xmin) ELSE scan.xmin
      /\ scan'.xip = IF running THEN scan.xip \cup {p.xid} ELSE scan.xip
  BY <1>1, <1>2, Zenon DEF Scans, Invalid
<1>6. /\ scan'.at \in Nat /\ 0 < scan'.at
      /\ scan'.low \in Nat /\ scan'.low <= scan.low /\ (p.xmin # 0 => scan'.low <= p.xmin)
      /\ scan'.xmin \in Nat /\ 0 < scan'.xmin /\ scan'.xmin <= scan.xmin
      /\ (running => scan'.xmin <= p.xid)
      /\ scan'.xip \in SUBSET Nat /\ scan.xip \subseteq scan'.xip /\ late \subseteq late'
  BY <1>1, <1>3, <1>4, <1>5, SMTT(30) DEF SmallerOf
<1>7. ScanTypes'
  <2>1. scan' = [by |-> scan'.by, at |-> scan'.at, xmax |-> scan'.xmax, xmin |-> scan'.xmin,
                 xip |-> scan'.xip, low |-> scan'.low]
    BY <1>1, <1>2, Zenon DEF Scans
  <2>2. scan'.by \in 0 .. NThreads
    BY <1>5, SnapshotAssumption, SMTT(30) DEF Threads
  <2>3. scan' \in Scans
    BY <1>3, <1>5, <1>6, <2>1, <2>2, Zenon DEF Scans
  <2> QED
    BY <1>1, <2>3, Zenon DEF ScanTypes
<1>8. SlotInv'
  BY <1>1, Zenon DEF SlotInv, Open
<1> HIDE DEF p, running
<1>9. ASSUME NEW u \in Threads, u < scan.at, u # t
      PROVE  Counted(u)' /\ Respected(u)'
  <2>1. Counted(u) /\ Respected(u)
    BY <1>1, <1>3, <1>9, Zenon DEF ScanInv
  <2>2. xid[u] \in Nat /\ slot[u].xmin \in Nat
    BY <1>2, Zenon DEF Slots
  <2>3. Counted(u)'
    BY <1>1, <1>3, <1>5, <1>6, <2>1, <2>2 DEF Counted, TransactionIdActiveDuringSnapshot
  <2>4. Respected(u)'
    BY <1>1, <1>3, <1>6, <2>1, <2>2 DEF Respected
  <2> QED
    BY <2>3, <2>4, Zenon
<1>10. Counted(c)'
  <2> SUFFICES ASSUME pc[c] \notin {"idle", "reset"}, xid[c] \notin late'
               PROVE  xid[c] >= scan'.xmax \/ (xid[c] >= scan'.xmin /\ xid[c] \in scan'.xip)
    BY <1>1, Zenon DEF Counted, TransactionIdActiveDuringSnapshot
  <2>1. CASE pc[c] = "taken"
    BY <1>1, <1>2, <1>3, <1>5, <2>1
  <2>2. CASE pc[c] # "taken"
    <3>1. running
      BY <1>3, <2>2, Zenon DEF SlotInv, running, p
    <3> QED
      BY <1>4, <1>5, <1>6, <3>1, Zenon
  <2> QED
    BY <2>1, <2>2, Zenon
<1>11. Respected(c)'
  <2>1. running => p.xmin # 0
    BY <1>4
  <2> QED
    BY <1>1, <1>6, <2>1, Zenon DEF Respected, running, p
<1>12. ScanInv'
  <2>1. \A u \in Threads : u < scan'.at /\ u # t => (u < c \/ u = c)
    BY <1>n, <1>3, <1>5
  <2>2. scan'.low <= slot[t].xmin
    BY <1>2, <1>3, <1>6 DEF Slots
  <2> QED
    BY <1>1, <1>3, <1>5, <1>6, <1>9, <1>10, <1>11, <2>1, <2>2, Zenon DEF ScanInv
<1>13. SnapshotDecides'
  BY <1>1, <1>6, Zenon DEF SnapshotDecides, TransactionIdActiveDuringSnapshot, Open
<1>14. HorizonBelowSnapshots'
  BY <1>1, Zenon DEF HorizonBelowSnapshots
<1> QED
  BY <1>7, <1>8, <1>12, <1>13, <1>14, Zenon

\* A scan that has passed every slot becomes the snapshot and the checkpoint id.
LEMMA EndKeeps ==
  ASSUME SnapInv, NEW t \in Threads, EndSnapshot(t)
  PROVE  SnapInv'
<1> USE DEF SnapInv
<1>1. /\ scan.by = t /\ scan.at > NThreads /\ scan' = NoScan /\ pc' = [pc EXCEPT ![t] = "active"]
      /\ snap' = [snap EXCEPT ![t] = [xmin |-> scan.xmin, xmax |-> scan.xmax, xip |-> scan.xip]]
      /\ \/ /\ slot' = [slot EXCEPT ![t].xmin = scan.xmin]
            /\ checkpoint' = SmallerOf(scan.low, scan.xmin)
         \/ slot' = slot /\ checkpoint' = scan.low
      /\ UNCHANGED <<nextXid, xid, late>>
  BY Zenon DEF EndSnapshot, Goto, xactVars
<1>2. /\ pc \in [Threads -> Places] /\ slot \in [Threads -> Slots] /\ xid \in [Threads -> Nat]
      /\ snap \in [Threads -> Snapshots] /\ scan \in Scans /\ nextXid \in Nat
  BY Zenon DEF ScanTypes
<1>3. NThreads \in Nat /\ \A u \in Threads : u \in Nat /\ 0 < u /\ u <= NThreads
  BY SnapshotAssumption DEF Threads
<1>4. /\ pc[t] = "scan" /\ scan.xmax <= nextXid /\ 0 < scan.xmin /\ scan.low <= slot[t].xmin
      /\ scan.xmin \in Nat /\ scan.low \in Nat /\ scan.xip \in SUBSET Nat /\ scan.xmax \in Nat
      /\ \A u \in Threads \ {t} : Counted(u) /\ Respected(u)
  BY <1>1, <1>2, <1>3 DEF ScanInv, Scans
<1>5. /\ checkpoint' \in Nat /\ checkpoint' <= scan.low /\ checkpoint' <= slot'[t].xmin
      /\ slot' \in [Threads -> Slots] /\ 0 < slot'[t].xmin
      /\ slot'[t].xid = slot[t].xid /\ slot'[t].state = slot[t].state
      /\ \A u \in Threads \ {t} : slot'[u] = slot[u]
  <2>1. slot[t] \in Slots /\ 0 < slot[t].xmin
    BY <1>2, <1>4, Zenon DEF SlotInv
  <2>2. CASE /\ slot' = [slot EXCEPT ![t].xmin = scan.xmin]
             /\ checkpoint' = SmallerOf(scan.low, scan.xmin)
    BY <1>2, <1>4, <2>1, <2>2 DEF Slots, SmallerOf
  <2>3. CASE slot' = slot /\ checkpoint' = scan.low
    BY <1>2, <1>4, <2>1, <2>3
  <2> QED
    BY <1>1, <2>2, <2>3, Zenon
<1>6. /\ snap'[t] = [xmin |-> scan.xmin, xmax |-> scan.xmax, xip |-> scan.xip]
      /\ pc'[t] = "active" /\ \A u \in Threads \ {t} : snap'[u] = snap[u] /\ pc'[u] = pc[u]
  BY <1>1, <1>2, Zenon
<1>7. ScanTypes'
  <2>1. snap' \in [Threads -> Snapshots]
    BY <1>1, <1>2, <1>4, Zenon DEF Snapshots
  <2>2. scan' \in Scans
    BY <1>1, <1>3 DEF Scans, NoScan
  <2> QED
    BY <1>1, <1>2, <1>5, <2>1, <2>2, Zenon DEF ScanTypes, Places
<1>8. SlotInv'
  <2> SUFFICES ASSUME NEW u \in Threads
               PROVE  /\ pc'[u] # "idle" => 0 < xid[u] /\ xid[u] < nextXid
                      /\ pc'[u] \in {"idle", "taken"} => slot'[u].state = "default" /\ snap'[u] = NoSnap
                      /\ pc'[u] \notin {"idle", "taken"} =>
                           slot'[u].state # "default" /\ slot'[u].xid = xid[u] /\ 0 < slot'[u].xmin
                      /\ Open(u)' => snap'[u].xmax <= nextXid
    BY <1>1, Zenon DEF SlotInv
  <2>1. CASE u = t
    BY <1>4, <1>5, <1>6, <2>1, SMTT(30) DEF SlotInv
  <2>2. CASE u # t
    BY <1>5, <1>6, <2>2, Zenon DEF SlotInv, Open
  <2> QED
    BY <2>1, <2>2, Zenon
<1>9. ScanInv'
  BY <1>1, Zenon DEF ScanInv, NoScan
<1>10. SnapshotDecides'
  <2> SUFFICES ASSUME NEW w \in Threads, NEW u \in Threads, Open(w)', w # u,
                      pc'[u] \notin {"idle", "reset"}, xid[u] \notin late
               PROVE  TransactionIdActiveDuringSnapshot(snap'[w], xid[u])
    BY <1>1, Zenon DEF SnapshotDecides, TransactionIdActiveDuringSnapshot
  <2>1. CASE w = t
    <3>1. Counted(u) /\ pc[u] = pc'[u]
      BY <1>4, <1>6, <2>1, Zenon
    <3> QED
      BY <1>6, <2>1, <3>1 DEF Counted, TransactionIdActiveDuringSnapshot
  <2>2. CASE w # t
    <3>1. Open(w) /\ pc[u] \notin {"idle", "reset"}
      BY <1>4, <1>6, <2>2, Zenon DEF Open
    <3> QED
      BY <1>6, <2>2, <3>1, Zenon DEF SnapshotDecides
  <2> QED
    BY <2>1, <2>2, Zenon
<1>11. HorizonBelowSnapshots'
  <2> SUFFICES ASSUME NEW u \in Threads, slot'[u].state # "default", snap'[u] # NoSnap
               PROVE  checkpoint' <= slot'[u].xmin
    BY Zenon DEF HorizonBelowSnapshots
  <2>1. CASE u = t
    BY <1>5, <2>1, Zenon
  <2>2. CASE u # t
    <3>1. scan.low <= slot[u].xmin /\ slot'[u] = slot[u] /\ slot[u].xmin \in Nat
      BY <1>2, <1>4, <1>5, <1>6, <2>2, Zenon DEF Respected, Slots
    <3> QED
      BY <1>4, <1>5, <3>1
  <2> QED
    BY <2>1, <2>2, Zenon
<1> QED
  BY <1>7, <1>8, <1>9, <1>10, <1>11, Zenon

\* A transaction that ends stays in its slot until ResetThreadState.
LEMMA FinishKeeps ==
  ASSUME SnapInv, NEW t \in Threads, RecordTransactionCommit(t) \/ ResetThreadState(t)
  PROVE  SnapInv'
<1> USE DEF SnapInv
<1>1. /\ \/ /\ Open(t) /\ pc' = [pc EXCEPT ![t] = "reset"] /\ UNCHANGED <<xid, snap>>
            /\ slot' = [slot EXCEPT ![t].state = "commit"]
         \/ /\ pc[t] = "reset" /\ pc' = [pc EXCEPT ![t] = "idle"]
            /\ slot' = [slot EXCEPT ![t] = DefaultSlot]
            /\ xid' = [xid EXCEPT ![t] = Invalid] /\ snap' = [snap EXCEPT ![t] = NoSnap]
      /\ UNCHANGED <<nextXid, checkpoint, scan, late>>
  BY Zenon DEF RecordTransactionCommit, ResetThreadState, Goto, Open, xactVars, logVars
<1>2. /\ pc \in [Threads -> Places] /\ slot \in [Threads -> Slots] /\ xid \in [Threads -> Nat]
      /\ snap \in [Threads -> Snapshots] /\ scan \in Scans /\ nextXid \in Nat
  BY Zenon DEF ScanTypes
<1>3. /\ pc'[t] \in {"idle", "reset"} /\ pc[t] \notin {"idle", "taken", "scan"}
      /\ \A u \in Threads \ {t} :
           pc'[u] = pc[u] /\ slot'[u] = slot[u] /\ xid'[u] = xid[u] /\ snap'[u] = snap[u]
      /\ pc'[t] = "reset" =>
           /\ slot'[t].state = "commit" /\ slot'[t].xid = slot[t].xid
           /\ slot'[t].xmin = slot[t].xmin /\ xid' = xid /\ snap' = snap
      /\ pc'[t] = "idle" => slot'[t].state = "default" /\ snap'[t] = NoSnap
  BY <1>1, <1>2 DEF Open, DefaultSlot, Slots
<1>4. ScanTypes'
  <2>1. DefaultSlot \in Slots /\ NoSnap \in Snapshots /\ Invalid \in Nat
    BY Zenon DEF DefaultSlot, NoSnap, Slots, Snapshots, Invalid
  <2>2. slot' \in [Threads -> Slots]
    BY <1>1, <1>2, <2>1 DEF Slots
  <2>3. snap' \in [Threads -> Snapshots] /\ xid' \in [Threads -> Nat]
    BY <1>1, <1>2, <2>1, Zenon
  <2> QED
    BY <1>1, <2>2, <2>3, Zenon DEF ScanTypes, Places
<1>5. SlotInv'
  BY <1>1, <1>3 DEF SlotInv, Open
<1>6. ScanInv'
  <2> SUFFICES ASSUME scan.by # 0 PROVE ScanInv'
    BY <1>1, Zenon DEF ScanInv
  <2>1. scan.by \in Threads
    BY SnapshotAssumption DEF ScanTypes, Scans, Threads
  <2>2. scan.by # t
    BY <1>3, Zenon DEF ScanInv
  <2>3. \A u \in Threads \ {t} : (Counted(u) => Counted(u)') /\ (Respected(u) => Respected(u)')
    BY <1>1, <1>3, Zenon DEF Counted, Respected, TransactionIdActiveDuringSnapshot
  <2>4. Counted(t)' /\ (Respected(t) => Respected(t)')
    BY <1>1, <1>3, Zenon DEF Counted, Respected, SlotInv
  <2> QED
    BY <1>1, <1>3, <2>1, <2>2, <2>3, <2>4, Zenon DEF ScanInv
<1>7. SnapshotDecides'
  BY <1>1, <1>3, Zenon DEF SnapshotDecides, TransactionIdActiveDuringSnapshot, Open
<1>8. HorizonBelowSnapshots'
  BY <1>1, <1>3, Zenon DEF HorizonBelowSnapshots, SlotInv
<1> QED
  BY <1>4, <1>5, <1>6, <1>7, <1>8, Zenon

\* A thread goes from a place with an open snapshot to another place.
LEMMA MoveQuiet ==
  ASSUME SnapInv, NEW t \in Threads, NEW l \in Places, pc' = [pc EXCEPT ![t] = l],
         \/ Open(t) /\ l \notin {"idle", "taken", "begun", "scan"}
         \/ pc[t] = "abort" /\ l = "reset",
         UNCHANGED <<nextXid, checkpoint, slot, scan, xid, snap, late>>
  PROVE  Quiet
<1>1. pc \in [Threads -> Places]
  BY Zenon DEF SnapInv, ScanTypes
<1> QED
  BY <1>1, Zenon DEF Quiet

\* The steps on the row and on the log are quiet.
LEMMA RowQuiet ==
  ASSUME SnapInv, NEW t \in Threads,
         \/ \E v \in Present : ExecReplace(t, v)
         \/ \E v \in Present, f \in {"xmin", "xmax"} : Read(t, v, f)
         \/ MayBeUpdated(t) \/ Updated(t) \/ BeingUpdated(t) \/ DidCrash(t) \/ Retest(t)
         \/ XactLockTableWait(t)
         \/ GetCheckpointId(t) \/ lazy_scan_heap(t) \/ lazy_vacuum_heap(t)
         \/ RecordTransactionAbort(t)
  PROVE  Quiet
<1> DEFINE Same == UNCHANGED <<nextXid, checkpoint, slot, scan, xid, snap, late>>
           Moves(l) == pc' = [pc EXCEPT ![t] = l]
<1>0. pc \in [Threads -> Places]
  BY Zenon DEF SnapInv, ScanTypes
<1>s. ASSUME Same, UNCHANGED pc PROVE Quiet
  BY <1>0, <1>s, Zenon DEF Quiet
<1>m. ASSUME Same, Open(t), NEW l \in Places \ {"idle", "taken", "begun", "scan"}, Moves(l)
      PROVE  Quiet
  BY <1>m, MoveQuiet, Zenon
<1>p. {"active", "update", "doubt", "retest", "wait", "vacuum", "swept", "abort", "reset"}
        \subseteq Places \ {"idle", "taken", "begun", "scan"}
  BY Zenon DEF Places
<1> USE DEF Goto, logVars, xactVars, workVars, heapVars
<1>1. ASSUME NEW v \in Present, ExecReplace(t, v) PROVE Quiet
  <2>1. Same /\ Open(t) /\ Moves("update")
    BY <1>1, Zenon DEF ExecReplace, Open
  <2> QED
    BY <2>1, <1>m, <1>p, Zenon
<1>2. ASSUME NEW v \in Present, NEW f \in {"xmin", "xmax"}, Read(t, v, f) PROVE Quiet
  <2>1. Same /\ Open(t) /\ (Moves("doubt") \/ UNCHANGED pc)
    BY <1>2, Zenon DEF Read, Open
  <2> QED
    BY <2>1, <1>m, <1>s, <1>p, Zenon
<1>3. CASE MayBeUpdated(t)
  <2>1. Same /\ Open(t) /\ Moves("active")
    BY <1>3, Zenon DEF MayBeUpdated, heap_update, Open
  <2> QED
    BY <2>1, <1>m, <1>p, Zenon
<1>4. CASE Updated(t)
  <2>1. Same /\ Open(t) /\ (Moves("abort") \/ UNCHANGED pc)
    BY <1>4, Zenon DEF Updated, Open
  <2> QED
    BY <2>1, <1>m, <1>s, <1>p, Zenon
<1>5. CASE BeingUpdated(t)
  <2>1. Same /\ Open(t) /\ Moves("doubt")
    BY <1>5, Zenon DEF BeingUpdated, Open
  <2> QED
    BY <2>1, <1>m, <1>p, Zenon
<1>6. CASE DidCrash(t)
  <2>1. Same /\ Open(t) /\ (Moves("retest") \/ Moves("wait") \/ Moves("active"))
    BY <1>6, Zenon DEF DidCrash, NotCrashed, Open
  <2> QED
    BY <2>1, <1>m, <1>p, Zenon
<1>7. CASE Retest(t)
  <2>1. Same /\ Open(t) /\ (Moves("wait") \/ Moves("active"))
    BY <1>7, Zenon DEF Retest, NotCrashed, heap_update, Open
  <2> QED
    BY <2>1, <1>m, <1>p, Zenon
<1>8. CASE XactLockTableWait(t)
  <2>1. Same /\ Open(t) /\ Moves("update")
    BY <1>8, Zenon DEF XactLockTableWait, Open
  <2> QED
    BY <2>1, <1>m, <1>p, Zenon
<1>9. CASE GetCheckpointId(t)
  BY <1>9, <1>s, Zenon DEF GetCheckpointId
<1>10. CASE lazy_scan_heap(t)
  <2>1. Same /\ Open(t) /\ Moves("vacuum")
    BY <1>10, Zenon DEF lazy_scan_heap, Open
  <2> QED
    BY <2>1, <1>m, <1>p, Zenon
<1>11. CASE lazy_vacuum_heap(t)
  <2>1. Same /\ Open(t) /\ Moves("swept")
    BY <1>11, Zenon DEF lazy_vacuum_heap, Open
  <2> QED
    BY <2>1, <1>m, <1>p, Zenon
<1>12. CASE RecordTransactionAbort(t)
  <2>1. Same /\ (Open(t) \/ pc[t] = "abort") /\ Moves("reset")
    BY <1>12, Zenon DEF RecordTransactionAbort, Open
  <2> QED
    BY <2>1, <1>p, MoveQuiet, Zenon
<1> QED
  BY <1>1, <1>2, <1>3, <1>4, <1>5, <1>6, <1>7, <1>8, <1>9, <1>10, <1>11, <1>12, Zenon

LEMMA SnapStep ==
  ASSUME SnapInv, [Next]_vars
  PROVE  SnapInv'
<1>1. ASSUME NEW t \in Threads, GetNewTransactionId(t) PROVE SnapInv'
  BY <1>1, NewXidKeeps, Zenon
<1>2. ASSUME NEW t \in Threads, ThreadTransactionStart(t) PROVE SnapInv'
  BY <1>2, StartKeeps, Zenon
<1>3. ASSUME NEW t \in Threads, BeginSnapshot(t) PROVE SnapInv'
  BY <1>3, BeginKeeps, Zenon
<1>4. ASSUME NEW t \in Threads, ScanSlot(t) PROVE SnapInv'
  BY <1>4, ScanSlotKeeps, Zenon
<1>5. ASSUME NEW t \in Threads, EndSnapshot(t) PROVE SnapInv'
  BY <1>5, EndKeeps, Zenon
<1>6. ASSUME NEW t \in Threads, RecordTransactionCommit(t) \/ ResetThreadState(t) PROVE SnapInv'
  BY <1>6, FinishKeeps, Zenon
<1>7. ASSUME NEW t \in Threads,
             \/ \E v \in Present : ExecReplace(t, v)
             \/ \E v \in Present, f \in {"xmin", "xmax"} : Read(t, v, f)
             \/ MayBeUpdated(t) \/ Updated(t) \/ BeingUpdated(t) \/ DidCrash(t) \/ Retest(t)
             \/ XactLockTableWait(t)
             \/ GetCheckpointId(t) \/ lazy_scan_heap(t) \/ lazy_vacuum_heap(t)
             \/ RecordTransactionAbort(t)
      PROVE  SnapInv'
  BY <1>7, RowQuiet, QuietKeeps, Zenon
<1>8. CASE (\E x \in Xids : Harden(x)) \/ Done \/ UNCHANGED vars
  <2>1. UNCHANGED <<nextXid, checkpoint, slot, scan, pc, xid, snap, late>>
    BY <1>8, Zenon DEF Harden, Done, vars, logVars, xactVars
  <2>2. Quiet
    BY <2>1, Zenon DEF Quiet, SnapInv, ScanTypes
  <2> QED
    BY <2>2, QuietKeeps, Zenon
<1> QED
  BY <1>1, <1>2, <1>3, <1>4, <1>5, <1>6, <1>7, <1>8, Zenon DEF Next

\* What GetSnapshotData promises to any number of threads: once a snapshot is
\* complete, no transaction that it takes for finished is still running, except
\* one whose id was taken but not yet in its slot when a scan passed the slot.
THEOREM SnapshotsDecide == Spec => []SnapshotDecides
<1>1. SnapInv => SnapshotDecides
  BY Zenon DEF SnapInv
<1> QED
  BY <1>1, SnapInitial, SnapStep, PTL DEF Spec

\* The checkpoint id that GetSnapshotData leaves for vacuum never passes the xmin
\* that a thread with a snapshot has published, however starts, ends and scans of
\* other threads interleave.
THEOREM CheckpointBelowSnapshots == Spec => []HorizonBelowSnapshots
<1>1. SnapInv => HorizonBelowSnapshots
  BY Zenon DEF SnapInv
<1> QED
  BY <1>1, SnapInitial, SnapStep, PTL DEF Spec
-----------------------------------------------------------------------------
(* Transactions and the log.                                               *)

Statuses == {"inprogress", "commit", "soft", "abort"}

\* An id is handed out once, its status is set once, by its thread, and a thread
\* that has changed the row is published, with a snapshot.
XactOf(t) ==
  /\ pc[t] = "idle" => xid[t] = 0
  /\ xid[t] # 0 => Crashed < xid[t]
  /\ pc[t] \notin {"idle", "reset"} => status[xid[t]] = "inprogress"
  /\ changed[t] => pc[t] \notin {"idle", "taken"}
  /\ Open(t) \/ changed[t] => snap[t] # NoSnap
  /\ pc[t] \notin {"idle", "taken"} => slot[t].xmin <= xid[t]
  /\ pc[t] \in {"idle", "taken", "begun"} => cmds[t] = 0
  /\ pc[t] = "scan" /\ snap[t] = NoSnap => cmds[t] = 1
  /\ \A u \in Threads : u # t /\ xid[t] # 0 => xid[u] # xid[t]

XactInv ==
  /\ Crashed < nextXid /\ nextXid <= MaxXid + 1
  /\ status \in [Xids -> Statuses] /\ changed \in [Threads -> BOOLEAN] /\ cmds \in [Threads -> Nat]
  /\ \A x \in Xids : x >= nextXid \/ x = Crashed => status[x] = "inprogress"
  /\ \A t \in Threads : XactOf(t)
  /\ scan.by # 0 => scan.xmin <= xid[scan.by]

LEMMA XactInitial == Init => XactInv
<1> SUFFICES ASSUME Init PROVE XactInv
  BY Zenon
<1>1. /\ pc = [t \in Threads |-> "idle"] /\ xid = [t \in Threads |-> 0]
      /\ changed = [t \in Threads |-> FALSE] /\ cmds = [t \in Threads |-> 0]
      /\ status = [x \in Xids |-> IF x = 1 THEN "commit" ELSE "inprogress"]
      /\ scan = NoScan /\ nextXid = 3
  BY Zenon DEF Init, Invalid
<1>2. MaxXid \in Nat /\ 2 <= MaxXid /\ Xids = 1 .. MaxXid /\ Crashed = 2
  BY SnapshotAssumption, Zenon DEF Xids, Crashed
<1>3. \A t \in Threads : XactOf(t)
  BY <1>1, Zenon DEF XactOf, Open
<1>4. \A x \in Xids : x >= nextXid \/ x = Crashed => status[x] = "inprogress"
  BY <1>1, <1>2
<1>5. status \in [Xids -> Statuses]
  BY <1>1, Zenon DEF Statuses
<1> QED
  BY <1>1, <1>2, <1>3, <1>4, <1>5 DEF XactInv, NoScan

\* Ids: what the types say of them.
LEMMA XidFacts ==
  ASSUME SnapInv, XactInv
  PROVE  /\ MaxXid \in Nat /\ nextXid \in Nat /\ Crashed \in Xids /\ Invalid = 0 /\ 0 \notin Xids
         /\ \A x \in Xids : x \in Nat
         /\ \A x \in Nat : 0 < x /\ x < nextXid => x \in Xids
         /\ \A t \in Threads :
              /\ xid[t] \in Nat /\ xid[t] < nextXid
              /\ xid[t] # 0 => xid[t] \in Xids /\ pc[t] # "idle"
              /\ pc[t] # "idle" => xid[t] # 0
<1>1. MaxXid \in Nat /\ 2 <= MaxXid /\ nextXid \in Nat /\ Crashed < nextXid /\ nextXid <= MaxXid + 1
  BY SnapshotAssumption, Zenon DEF SnapInv, ScanTypes, XactInv
<1>2. Xids = 1 .. MaxXid /\ Crashed = 2 /\ Invalid = 0
  BY Zenon DEF Xids, Crashed, Invalid
<1>3. \A t \in Threads :
        /\ xid[t] \in Nat /\ (pc[t] # "idle" => 0 < xid[t] /\ xid[t] < nextXid)
        /\ pc[t] = "idle" => xid[t] = 0
  BY Zenon DEF SnapInv, ScanTypes, SlotInv, XactInv, XactOf
<1> QED
  BY <1>1, <1>2, <1>3

\* A thread that a step leaves alone.
LEMMA XactOther ==
  ASSUME SnapInv, XactInv, NEW u \in Threads,
         pc'[u] = pc[u], xid'[u] = xid[u], slot'[u] = slot[u], snap'[u] = snap[u],
         changed'[u] = changed[u], cmds'[u] = cmds[u],
         pc[u] \notin {"idle", "reset"} => status'[xid[u]] = "inprogress",
         \A w \in Threads : xid'[w] = xid[w] \/ xid'[w] = 0 \/ xid'[w] = nextXid
  PROVE  XactOf(u)'
<1>1. XactOf(u) /\ xid[u] \in Nat /\ xid[u] < nextXid /\ nextXid \in Nat
  BY XidFacts, Zenon DEF XactInv
<1>2. \A w \in Threads : w # u /\ xid[u] # 0 => xid'[w] # xid[u]
  BY <1>1 DEF XactOf
<1>3. Open(u)' <=> Open(u)
  BY Zenon DEF Open
<1> QED
  BY <1>1, <1>2, <1>3, Zenon DEF XactOf

\* Steps on the row: neither ids nor the log change.
LEMMA XactCalm ==
  ASSUME SnapInv, XactInv, Quiet, UNCHANGED <<status, cmds>>,
         changed' \in [Threads -> BOOLEAN],
         \A u \in Threads : changed'[u] => changed[u] \/ Open(u)
  PROVE  XactInv'
<1>1. ASSUME NEW u \in Threads PROVE XactOf(u)'
  <2>1. XactOf(u) /\ (Open(u)' => Open(u))
    BY Zenon DEF XactInv, Quiet, Open
  <2>2. /\ pc'[u] = "idle" <=> pc[u] = "idle"
        /\ pc'[u] = "taken" <=> pc[u] = "taken"
        /\ pc'[u] = "begun" <=> pc[u] = "begun"
        /\ pc'[u] = "scan" <=> pc[u] = "scan"
        /\ pc'[u] \notin {"idle", "reset"} => pc[u] \notin {"idle", "reset"}
    BY Zenon DEF Quiet, Open
  <2>3. Open(u) => snap[u] # NoSnap /\ pc[u] \notin {"idle", "taken"}
    BY <2>1, Zenon DEF XactOf, Open
  <2>4. UNCHANGED <<nextXid, slot, scan, xid, snap>>
    BY Zenon DEF Quiet
  <2> QED
    BY <2>1, <2>2, <2>3, <2>4, Zenon DEF XactOf
<1>2. UNCHANGED <<nextXid, scan, xid>>
  BY Zenon DEF Quiet
<1> QED
  BY <1>1, <1>2, Zenon DEF XactInv

\* GetNewTransactionId hands out an id without a status.
LEMMA XactNew ==
  ASSUME SnapInv, XactInv, NEW t \in Threads, GetNewTransactionId(t)
  PROVE  XactInv'
<1>1. /\ pc[t] = "idle" /\ nextXid <= MaxXid /\ nextXid' = nextXid + 1
      /\ xid' = [xid EXCEPT ![t] = nextXid] /\ pc' = [pc EXCEPT ![t] = "taken"]
      /\ UNCHANGED <<status, slot, scan, snap, cmds, changed>>
  BY Zenon DEF GetNewTransactionId, Goto
<1>2. /\ pc \in [Threads -> Places] /\ xid \in [Threads -> Nat] /\ nextXid \in Nat
      /\ MaxXid \in Nat /\ Crashed < nextXid /\ nextXid \in Xids
      /\ \A w \in Threads : xid[w] < nextXid
  BY <1>1, XidFacts DEF SnapInv, ScanTypes, XactInv, Xids, Crashed
<1>3. /\ xid'[t] = nextXid /\ pc'[t] = "taken"
      /\ \A u \in Threads \ {t} : xid'[u] = xid[u] /\ pc'[u] = pc[u]
  BY <1>1, <1>2, Zenon
<1>4. ASSUME NEW u \in Threads, u # t PROVE XactOf(u)'
  <2>1. pc[u] \notin {"idle", "reset"} => status'[xid[u]] = "inprogress"
    BY <1>1, Zenon DEF XactInv, XactOf
  <2> QED
    BY <1>1, <1>3, <1>4, <2>1, XactOther, Zenon
<1>5. XactOf(t)'
  <2>1. XactOf(t) /\ status[nextXid] = "inprogress"
    BY <1>2 DEF XactInv
  <2> QED
    BY <1>1, <1>2, <1>3, <2>1 DEF XactOf, Open
<1>6. scan.by # 0 => scan.by # t /\ scan.by \in Threads
  BY <1>1, SnapshotAssumption DEF SnapInv, ScanInv, ScanTypes, Scans, Threads
<1>7. \A x \in Xids : x >= nextXid' \/ x = Crashed => status[x] = "inprogress"
  BY <1>1, <1>2 DEF XactInv, Xids
<1>8. Crashed < nextXid' /\ nextXid' <= MaxXid + 1
  BY <1>1, <1>2 DEF Crashed
<1>9. scan.by # 0 => scan.xmin <= xid'[scan.by]
  BY <1>3, <1>6, Zenon DEF XactInv
<1> QED
  BY <1>1, <1>4, <1>5, <1>7, <1>8, <1>9, Zenon DEF XactInv

\* ThreadTransactionStart publishes the id.
LEMMA XactStart ==
  ASSUME SnapInv, XactInv, NEW t \in Threads, ThreadTransactionStart(t)
  PROVE  XactInv'
<1>1. /\ pc[t] = "taken" /\ pc' = [pc EXCEPT ![t] = "begun"]
      /\ slot' = [slot EXCEPT ![t] = [state |-> "start", xid |-> xid[t], xmin |-> xid[t]]]
      /\ UNCHANGED <<nextXid, status, xid, scan, snap, cmds, changed>>
  BY Zenon DEF ThreadTransactionStart, Goto, logVars, xactVars
<1>2. /\ pc \in [Threads -> Places] /\ slot \in [Threads -> Slots] /\ xid[t] \in Nat
  BY Zenon DEF SnapInv, ScanTypes
<1>3. /\ slot'[t].xmin = xid[t] /\ pc'[t] = "begun"
      /\ \A u \in Threads \ {t} : slot'[u] = slot[u] /\ pc'[u] = pc[u]
  BY <1>1, <1>2, Zenon
<1>4. ASSUME NEW u \in Threads, u # t PROVE XactOf(u)'
  <2>1. pc[u] \notin {"idle", "reset"} => status'[xid[u]] = "inprogress"
    BY <1>1, Zenon DEF XactInv, XactOf
  <2> QED
    BY <1>1, <1>3, <1>4, <2>1, XactOther, Zenon
<1>5. XactOf(t)'
  <2>1. XactOf(t)
    BY Zenon DEF XactInv
  <2> QED
    BY <1>1, <1>2, <1>3, <2>1 DEF XactOf, Open
<1> QED
  BY <1>1, <1>4, <1>5, Zenon DEF XactInv

\* BeginSnapshot counts the command.
LEMMA XactBegin ==
  ASSUME SnapInv, XactInv, NEW t \in Threads, BeginSnapshot(t)
  PROVE  XactInv'
<1>1. /\ pc[t] \in {"begun", "active"} /\ pc' = [pc EXCEPT ![t] = "scan"]
      /\ scan'.by = t /\ scan'.xmin = xid[t]
      /\ cmds' = [cmds EXCEPT ![t] = @ + 1]
      /\ UNCHANGED <<nextXid, status, slot, xid, snap, changed>>
  BY Zenon DEF BeginSnapshot, Goto, logVars
<1>2. pc \in [Threads -> Places] /\ cmds \in [Threads -> Nat] /\ xid[t] \in Nat
  BY Zenon DEF SnapInv, ScanTypes, XactInv
<1>3. /\ pc'[t] = "scan" /\ cmds'[t] = cmds[t] + 1 /\ cmds' \in [Threads -> Nat]
      /\ \A u \in Threads \ {t} : cmds'[u] = cmds[u] /\ pc'[u] = pc[u]
  BY <1>1, <1>2
<1>4. ASSUME NEW u \in Threads, u # t PROVE XactOf(u)'
  <2>1. pc[u] \notin {"idle", "reset"} => status'[xid[u]] = "inprogress"
    BY <1>1, Zenon DEF XactInv, XactOf
  <2> QED
    BY <1>1, <1>3, <1>4, <2>1, XactOther, Zenon
<1>5. XactOf(t)'
  <2>1. XactOf(t)
    BY Zenon DEF XactInv
  <2> QED
    BY <1>1, <1>2, <1>3, <2>1 DEF XactOf, Open
<1> QED
  BY <1>1, <1>2, <1>3, <1>4, <1>5 DEF XactInv

\* ScanSlot only lowers the xmin of the scan.
LEMMA XactScan ==
  ASSUME SnapInv, XactInv, NEW t \in Threads, ScanSlot(t)
  PROVE  XactInv'
<1>1. UNCHANGED <<nextXid, status, slot, pc, xid, snap, cmds, changed>>
  BY Zenon DEF ScanSlot, logVars, xactVars
<1>2. scan.by = t /\ scan.by # 0 /\ scan.at \in Threads
  BY SnapshotAssumption DEF ScanSlot, SnapInv, ScanTypes, ScanInv, Scans, Threads
<1>3. scan \in Scans /\ slot[scan.at] \in Slots /\ xid[t] \in Nat
  BY <1>2, Zenon DEF SnapInv, ScanTypes
<1>4. scan'.by = t /\ scan'.xmin \in Nat /\ scan'.xmin <= scan.xmin /\ scan.xmin \in Nat
  BY <1>2, <1>3 DEF ScanSlot, Scans, Slots, SmallerOf
<1>5. \A u \in Threads : XactOf(u)'
  BY <1>1, Zenon DEF XactInv, XactOf, Open
<1> QED
  BY <1>1, <1>2, <1>3, <1>4, <1>5 DEF XactInv

\* EndSnapshot gives its thread a snapshot.
LEMMA XactEnd ==
  ASSUME SnapInv, XactInv, NEW t \in Threads, EndSnapshot(t)
  PROVE  XactInv'
<1>1. /\ scan.by = t /\ scan' = NoScan /\ pc' = [pc EXCEPT ![t] = "active"]
      /\ snap' = [snap EXCEPT ![t] = [xmin |-> scan.xmin, xmax |-> scan.xmax, xip |-> scan.xip]]
      /\ slot' = [slot EXCEPT ![t].xmin = scan.xmin] \/ slot' = slot
      /\ UNCHANGED <<nextXid, status, xid, cmds, changed>>
  BY Zenon DEF EndSnapshot, Goto, xactVars
<1>2. /\ pc \in [Threads -> Places] /\ slot \in [Threads -> Slots] /\ xid[t] \in Nat
      /\ snap \in [Threads -> Snapshots] /\ scan \in Scans
      /\ scan.by # 0 /\ pc[t] = "scan" /\ 0 < scan.xmin /\ scan.xmin <= xid[t]
  BY <1>1, SnapshotAssumption DEF SnapInv, ScanTypes, ScanInv, XactInv, Threads
<1>3. /\ pc'[t] = "active" /\ snap'[t].xmin = scan.xmin
      /\ slot'[t].xmin \in {scan.xmin, slot[t].xmin}
      /\ \A u \in Threads \ {t} : snap'[u] = snap[u] /\ slot'[u] = slot[u] /\ pc'[u] = pc[u]
  BY <1>1, <1>2, Zenon DEF Slots
<1>4. ASSUME NEW u \in Threads, u # t PROVE XactOf(u)'
  <2>1. pc[u] \notin {"idle", "reset"} => status'[xid[u]] = "inprogress"
    BY <1>1, Zenon DEF XactInv, XactOf
  <2> QED
    BY <1>1, <1>3, <1>4, <2>1, XactOther, Zenon
<1>5. XactOf(t)'
  <2>1. XactOf(t)
    BY Zenon DEF XactInv
  <2>2. snap'[t] # NoSnap
    BY <1>2, <1>3 DEF NoSnap, Scans
  <2> QED
    BY <1>1, <1>2, <1>3, <2>1, <2>2, Zenon DEF XactOf, Open
<1> QED
  BY <1>1, <1>4, <1>5, Zenon DEF XactInv, NoScan

\* The status of a transaction is set by its thread, once.
LEMMA XactRecord ==
  ASSUME SnapInv, XactInv, NEW t \in Threads, RecordTransactionCommit(t) \/ RecordTransactionAbort(t)
  PROVE  XactInv'
<1>1. /\ pc[t] \in {"active", "swept", "abort"} /\ pc' = [pc EXCEPT ![t] = "reset"]
      /\ slot' = slot \/ slot' = [slot EXCEPT ![t].state = "commit"]
      /\ status' = status \/ \E s \in Statuses : status' = [status EXCEPT ![xid[t]] = s]
      /\ UNCHANGED <<nextXid, scan, xid, snap, cmds, changed>>
  BY Zenon DEF RecordTransactionCommit, RecordTransactionAbort, Goto, Statuses, xactVars
<1>2. /\ pc \in [Threads -> Places] /\ slot \in [Threads -> Slots]
      /\ status \in [Xids -> Statuses] /\ xid[t] \in Xids
      /\ Crashed < xid[t] /\ xid[t] < nextXid /\ nextXid \in Nat
  BY <1>1, XidFacts, Zenon DEF SnapInv, ScanTypes, XactInv, XactOf
<1>3. /\ pc'[t] = "reset" /\ slot'[t].xmin = slot[t].xmin
      /\ \A u \in Threads \ {t} : slot'[u] = slot[u] /\ pc'[u] = pc[u]
      /\ status' \in [Xids -> Statuses] /\ \A x \in Xids : x # xid[t] => status'[x] = status[x]
  BY <1>1, <1>2 DEF Slots
<1>4. ASSUME NEW u \in Threads, u # t PROVE XactOf(u)'
  <2>1. pc[u] \notin {"idle", "reset"} => status'[xid[u]] = "inprogress"
    <3> SUFFICES ASSUME pc[u] \notin {"idle", "reset"} PROVE status'[xid[u]] = "inprogress"
      BY Zenon
    <3>1. status[xid[u]] = "inprogress" /\ xid[u] \in Xids /\ xid[u] # xid[t]
      BY <1>4, XidFacts, Zenon DEF XactInv, XactOf
    <3> QED
      BY <1>3, <3>1, Zenon
  <2> QED
    BY <1>1, <1>3, <1>4, <2>1, XactOther, Zenon
<1>5. XactOf(t)'
  <2>1. XactOf(t)
    BY Zenon DEF XactInv
  <2> QED
    BY <1>1, <1>3, <2>1, Zenon DEF XactOf, Open
<1>6. \A x \in Xids : x >= nextXid \/ x = Crashed => status'[x] = "inprogress"
  BY <1>2, <1>3 DEF XactInv, Xids
<1> QED
  BY <1>1, <1>3, <1>4, <1>5, <1>6, Zenon DEF XactInv

\* ResetThreadState gives the id up.
LEMMA XactReset ==
  ASSUME SnapInv, XactInv, NEW t \in Threads, ResetThreadState(t)
  PROVE  XactInv'
<1>1. /\ pc[t] = "reset" /\ pc' = [pc EXCEPT ![t] = "idle"]
      /\ slot' = [slot EXCEPT ![t] = DefaultSlot]
      /\ xid' = [xid EXCEPT ![t] = 0] /\ snap' = [snap EXCEPT ![t] = NoSnap]
      /\ cmds' = [cmds EXCEPT ![t] = 0] /\ changed' = [changed EXCEPT ![t] = FALSE]
      /\ UNCHANGED <<nextXid, status, scan>>
  BY Zenon DEF ResetThreadState, Goto, logVars, Invalid
<1>2. /\ pc \in [Threads -> Places] /\ slot \in [Threads -> Slots] /\ xid \in [Threads -> Nat]
      /\ snap \in [Threads -> Snapshots] /\ cmds \in [Threads -> Nat]
      /\ changed \in [Threads -> BOOLEAN]
  BY Zenon DEF SnapInv, ScanTypes, XactInv
<1>3. /\ pc'[t] = "idle" /\ xid'[t] = 0 /\ cmds'[t] = 0 /\ changed'[t] = FALSE
      /\ \A u \in Threads \ {t} :
           /\ slot'[u] = slot[u] /\ pc'[u] = pc[u] /\ xid'[u] = xid[u] /\ snap'[u] = snap[u]
           /\ cmds'[u] = cmds[u] /\ changed'[u] = changed[u]
      /\ cmds' \in [Threads -> Nat] /\ changed' \in [Threads -> BOOLEAN]
  BY <1>1, <1>2, Zenon
<1>4. ASSUME NEW u \in Threads, u # t PROVE XactOf(u)'
  <2>1. pc[u] \notin {"idle", "reset"} => status'[xid[u]] = "inprogress"
    BY <1>1, Zenon DEF XactInv, XactOf
  <2>2. \A w \in Threads : xid'[w] = xid[w] \/ xid'[w] = 0
    BY <1>3, Zenon
  <2> QED
    BY <1>3, <1>4, <2>1, <2>2, XactOther, Zenon
<1>5. XactOf(t)'
  BY <1>3, Zenon DEF XactOf, Open
<1>6. scan.by # 0 => scan.by # t /\ scan.by \in Threads
  BY <1>1, SnapshotAssumption DEF SnapInv, ScanInv, ScanTypes, Scans, Threads
<1> QED
  BY <1>1, <1>3, <1>4, <1>5, <1>6 DEF XactInv

\* The DBWriter hardens only what is committed already.
LEMMA XactHarden ==
  ASSUME SnapInv, XactInv, NEW x \in Xids, Harden(x)
  PROVE  XactInv'
<1>1. /\ status[x] = "soft" /\ status' = [status EXCEPT ![x] = "commit"]
      /\ UNCHANGED <<nextXid, slot, scan, pc, xid, snap, cmds, changed>>
  BY Zenon DEF Harden, xactVars
<1>2. /\ status' \in [Xids -> Statuses]
      /\ \A y \in Xids : status[y] = "inprogress" => status'[y] = "inprogress"
  BY <1>1, Zenon DEF XactInv, Statuses
<1>3. \A u \in Threads : XactOf(u)'
  BY <1>1, <1>2, XidFacts DEF XactInv, XactOf, Open
<1> QED
  BY <1>1, <1>2, <1>3, Zenon DEF XactInv

\* The steps of a thread on the row.
RowAction(t) ==
  \/ \E v \in Present : ExecReplace(t, v)
  \/ \E v \in Present, f \in {"xmin", "xmax"} : Read(t, v, f)
  \/ MayBeUpdated(t) \/ Updated(t) \/ BeingUpdated(t) \/ DidCrash(t) \/ Retest(t)
  \/ XactLockTableWait(t)
  \/ GetCheckpointId(t) \/ lazy_scan_heap(t) \/ lazy_vacuum_heap(t)

\* The row steps change no status and no command count.
LEMMA XactRow ==
  ASSUME SnapInv, XactInv, NEW t \in Threads, RowAction(t)
  PROVE  XactInv'
<1>1. Quiet
  BY RowQuiet, Zenon DEF RowAction
<1>2. /\ UNCHANGED <<status, cmds>>
      /\ \/ UNCHANGED changed
         \/ Open(t) /\ \E b \in BOOLEAN : changed' = [changed EXCEPT ![t] = b]
  BY Zenon DEF RowAction, ExecReplace, Read, MayBeUpdated, Updated, BeingUpdated, DidCrash, Retest,
         NotCrashed, heap_update, XactLockTableWait, GetCheckpointId, lazy_scan_heap,
         lazy_vacuum_heap, logVars, xactVars, Open
<1>3. changed \in [Threads -> BOOLEAN]
  BY Zenon DEF XactInv
<1>4. /\ changed' \in [Threads -> BOOLEAN]
      /\ \A u \in Threads : changed'[u] => changed[u] \/ Open(u)
  BY <1>2, <1>3, Zenon
<1> QED
  BY <1>1, <1>2, <1>4, XactCalm, Zenon

LEMMA XactStep ==
  ASSUME SnapInv, XactInv, [Next]_vars
  PROVE  XactInv'
<1>1. ASSUME NEW t \in Threads, GetNewTransactionId(t) PROVE XactInv'
  BY <1>1, XactNew, Zenon
<1>2. ASSUME NEW t \in Threads, ThreadTransactionStart(t) PROVE XactInv'
  BY <1>2, XactStart, Zenon
<1>3. ASSUME NEW t \in Threads, BeginSnapshot(t) PROVE XactInv'
  BY <1>3, XactBegin, Zenon
<1>4. ASSUME NEW t \in Threads, ScanSlot(t) PROVE XactInv'
  BY <1>4, XactScan, Zenon
<1>5. ASSUME NEW t \in Threads, EndSnapshot(t) PROVE XactInv'
  BY <1>5, XactEnd, Zenon
<1>6. ASSUME NEW t \in Threads, RecordTransactionCommit(t) \/ RecordTransactionAbort(t) PROVE XactInv'
  BY <1>6, XactRecord, Zenon
<1>7. ASSUME NEW t \in Threads, ResetThreadState(t) PROVE XactInv'
  BY <1>7, XactReset, Zenon
<1>8. ASSUME NEW t \in Threads, RowAction(t) PROVE XactInv'
  BY <1>8, XactRow, Zenon
<1>9. ASSUME NEW x \in Xids, Harden(x) PROVE XactInv'
  BY <1>9, XactHarden, Zenon
<1>10. CASE Done \/ UNCHANGED vars
  <2>1. UNCHANGED vars
    BY <1>10, Zenon DEF Done
  <2>2. UNCHANGED <<nextXid, status, slot, scan, pc, xid, snap, cmds, changed>>
    BY <2>1, Zenon DEF vars, logVars, xactVars
  <2>3. \A t \in Threads : XactOf(t)'
    BY <2>2, Zenon DEF XactInv, XactOf, Open
  <2> QED
    BY <2>2, <2>3, Zenon DEF XactInv
<1> QED
  BY <1>1, <1>2, <1>3, <1>4, <1>5, <1>6, <1>7, <1>8, <1>9, <1>10, Zenon DEF Next, RowAction

-----------------------------------------------------------------------------
(* The horizon of a vacuum.                                                *)

\* The ids that run, and those that the snapshot of t, complete or being taken,
\* takes for running or for ids to come.
Running == {x \in Xids : \E u \in Threads : xid[u] = x}
Active(t) == {x \in Xids : Open(t) /\ TransactionIdActiveDuringSnapshot(snap[t], x)}
Scanned(t) == {x \in Xids : scan.by = t /\ (x >= scan.xmax \/ x \in scan.xip)}
Known(t) == Running \cup Active(t) \cup Scanned(t)

\* No snapshot, complete or being taken, tells the ids below a horizon apart.
Horizons == {h \in 0 .. nextXid : \A t \in Threads : \A x \in Known(t) \ late : h <= x}

\* The xmin of a thread with a snapshot bounds what the thread tells apart.
Bounds(t) ==
  snap[t] # NoSnap => slot[t].xmin <= nextXid /\ \A x \in Known(t) \ late : slot[t].xmin <= x

\* The scan has taken the transaction of u into account, ended or not.
Seen(u) ==
  xid[u] # 0 /\ xid[u] \notin late => scan.low <= xid[u] /\ scan.xmin <= xid[u]

ScanBounds ==
  scan.by # 0 =>
    /\ scan.low <= scan.xmax /\ scan.xmin <= scan.xmax
    /\ \A u \in Threads : u < scan.at \/ u = scan.by => Seen(u)
    /\ \A x \in scan.xip : scan.xmin <= x

\* The checkpoint id is a horizon from the first snapshot on; the one of start-up
\* is not, and nobody goes by it.
CheckpointInv == checkpoint \in Horizons \/ \A t \in Threads : snap[t] = NoSnap

HorizonInv ==
  /\ reap \in [Threads -> Nat] /\ CheckpointInv
  /\ \A t \in Threads : (reap[t] # 0 => reap[t] \in Horizons) /\ Bounds(t)
  /\ ScanBounds

LEMMA HorizonInitial == Init => HorizonInv
<1> SUFFICES ASSUME Init PROVE HorizonInv
  BY Zenon
<1>1. /\ xid = [t \in Threads |-> 0] /\ pc = [t \in Threads |-> "idle"]
      /\ snap = [t \in Threads |-> NoSnap] /\ reap = [t \in Threads |-> 0]
      /\ scan.by = 0
  BY Zenon DEF Init, Invalid, NoScan
<1>2. \A t \in Threads : Known(t) = {}
  <2> SUFFICES ASSUME NEW t \in Threads, NEW x \in Known(t) PROVE FALSE
    BY Zenon
  <2>1. x \in Xids /\ x # 0 /\ t # 0
    BY SnapshotAssumption DEF Known, Running, Active, Scanned, Xids, Threads
  <2>2. x \notin Running
    BY <1>1, <2>1, Zenon DEF Running
  <2>3. x \notin Active(t) /\ x \notin Scanned(t)
    BY <1>1, <2>1, Zenon DEF Active, Scanned, Open
  <2> QED
    BY <2>2, <2>3, Zenon DEF Known
<1>3. CheckpointInv
  BY <1>1, Zenon DEF CheckpointInv
<1>4. \A t \in Threads : (reap[t] # 0 => reap[t] \in Horizons) /\ Bounds(t)
  BY <1>1, Zenon DEF Bounds
<1> QED
  BY <1>1, <1>3, <1>4, Zenon DEF HorizonInv, ScanBounds

\* A step of one thread only adds ids to come to what the threads tell apart.
Narrows ==
  /\ nextXid' \in Nat /\ nextXid <= nextXid' /\ late \subseteq late'
  /\ \A t \in Threads : \A x \in Known(t)' : x \in Known(t) \/ nextXid <= x

LEMMA NarrowsQuiet ==
  ASSUME SnapInv, XactInv, Quiet
  PROVE  Narrows
<1>1. UNCHANGED <<nextXid, scan, xid, snap, late>> /\ \A u \in Threads : Open(u)' => Open(u)
  BY Zenon DEF Quiet, Open
<1>2. \A t \in Threads : Active(t)' \subseteq Active(t) /\ Scanned(t)' = Scanned(t)
  BY <1>1, Zenon DEF Active, Scanned, TransactionIdActiveDuringSnapshot
<1>3. Running' = Running
  BY <1>1, Zenon DEF Running
<1> QED
  BY <1>1, <1>2, <1>3 DEF Narrows, Known, SnapInv, ScanTypes

LEMMA NarrowsNew ==
  ASSUME SnapInv, XactInv, NEW t \in Threads, GetNewTransactionId(t)
  PROVE  Narrows
<1>1. /\ pc[t] = "idle" /\ nextXid' = nextXid + 1
      /\ xid' = [xid EXCEPT ![t] = nextXid] /\ pc' = [pc EXCEPT ![t] = "taken"]
      /\ UNCHANGED <<scan, snap, late>>
  BY Zenon DEF GetNewTransactionId, Goto
<1>2. nextXid \in Nat /\ xid \in [Threads -> Nat] /\ pc \in [Threads -> Places]
  BY Zenon DEF SnapInv, ScanTypes
<1>3. \A u \in Threads : Open(u)' => Open(u)
  BY <1>1, <1>2, Zenon DEF Open
<1>4. \A u \in Threads : Active(u)' \subseteq Active(u) /\ Scanned(u)' = Scanned(u)
  BY <1>1, <1>3, Zenon DEF Active, Scanned, TransactionIdActiveDuringSnapshot
<1>5. \A x \in Running' : x \in Running \/ x = nextXid
  BY <1>1, <1>2, Zenon DEF Running
<1> QED
  BY <1>1, <1>2, <1>4, <1>5 DEF Narrows, Known

LEMMA NarrowsStart ==
  ASSUME SnapInv, XactInv, NEW t \in Threads, ThreadTransactionStart(t)
  PROVE  Narrows
<1>1. /\ pc' = [pc EXCEPT ![t] = "begun"] /\ UNCHANGED <<nextXid, xid, scan, snap, late>>
  BY Zenon DEF ThreadTransactionStart, Goto, logVars, xactVars
<1>2. pc \in [Threads -> Places] /\ nextXid \in Nat
  BY Zenon DEF SnapInv, ScanTypes
<1>3. \A u \in Threads : Open(u)' => Open(u)
  BY <1>1, <1>2, Zenon DEF Open
<1>4. \A u \in Threads : Active(u)' \subseteq Active(u) /\ Scanned(u)' = Scanned(u)
  BY <1>1, <1>3, Zenon DEF Active, Scanned, TransactionIdActiveDuringSnapshot
<1>5. Running' = Running
  BY <1>1, Zenon DEF Running
<1> QED
  BY <1>1, <1>2, <1>4, <1>5 DEF Narrows, Known

LEMMA NarrowsBegin ==
  ASSUME SnapInv, XactInv, NEW t \in Threads, BeginSnapshot(t)
  PROVE  Narrows
<1>1. /\ pc' = [pc EXCEPT ![t] = "scan"] /\ scan.by = 0
      /\ scan'.by = t /\ scan'.xmax = nextXid /\ scan'.xip = {}
      /\ UNCHANGED <<nextXid, xid, snap, late>>
  BY Zenon DEF BeginSnapshot, Goto, logVars
<1>2. pc \in [Threads -> Places] /\ nextXid \in Nat
  BY Zenon DEF SnapInv, ScanTypes
<1>3. \A u \in Threads : Open(u)' => Open(u)
  BY <1>1, <1>2, Zenon DEF Open
<1>4. \A u \in Threads : Active(u)' \subseteq Active(u)
  BY <1>1, <1>3, Zenon DEF Active, TransactionIdActiveDuringSnapshot
<1>5. \A u \in Threads : \A x \in Scanned(u)' : nextXid <= x
  BY <1>1, <1>2, Zenon DEF Scanned, Xids
<1>6. Running' = Running
  BY <1>1, Zenon DEF Running
<1> QED
  BY <1>1, <1>2, <1>4, <1>5, <1>6 DEF Narrows, Known

LEMMA NarrowsScan ==
  ASSUME SnapInv, XactInv, NEW t \in Threads, ScanSlot(t)
  PROVE  Narrows
<1>1. UNCHANGED <<nextXid, pc, xid, snap>> /\ late \subseteq late'
  BY Zenon DEF ScanSlot, logVars, xactVars
<1>2. scan.by = t /\ scan.by # 0 /\ scan.at \in Threads /\ scan \in Scans /\ nextXid \in Nat
  BY SnapshotAssumption DEF ScanSlot, SnapInv, ScanTypes, ScanInv, Scans, Threads
<1>3. /\ scan'.by = scan.by /\ scan'.xmax = scan.xmax
      /\ \/ scan'.xip = scan.xip
         \/ slot[scan.at].state # "default" /\ scan'.xip = scan.xip \cup {slot[scan.at].xid}
  BY <1>2, Zenon DEF ScanSlot, Scans
<1>4. slot[scan.at].state # "default" => slot[scan.at].xid = xid[scan.at]
  BY <1>2, Zenon DEF SnapInv, SlotInv
<1>5. \A u \in Threads : Active(u)' = Active(u)
  BY <1>1, Zenon DEF Active, TransactionIdActiveDuringSnapshot, Open
<1>6. Running' = Running
  BY <1>1, Zenon DEF Running
<1>7. \A u \in Threads : \A x \in Scanned(u)' : x \in Scanned(u) \/ x \in Running
  BY <1>2, <1>3, <1>4, Zenon DEF Scanned, Running
<1> QED
  BY <1>1, <1>2, <1>5, <1>6, <1>7 DEF Narrows, Known

LEMMA NarrowsEnd ==
  ASSUME SnapInv, XactInv, NEW t \in Threads, EndSnapshot(t)
  PROVE  Narrows
<1>1. /\ scan.by = t /\ scan'.by = 0 /\ pc' = [pc EXCEPT ![t] = "active"]
      /\ snap' = [snap EXCEPT ![t] = [xmin |-> scan.xmin, xmax |-> scan.xmax, xip |-> scan.xip]]
      /\ UNCHANGED <<nextXid, xid, late>>
  BY Zenon DEF EndSnapshot, Goto, xactVars, NoScan
<1>2. pc \in [Threads -> Places] /\ nextXid \in Nat /\ snap \in [Threads -> Snapshots]
  BY Zenon DEF SnapInv, ScanTypes
<1>3. /\ snap'[t].xmax = scan.xmax /\ snap'[t].xip = scan.xip
      /\ \A u \in Threads \ {t} : snap'[u] = snap[u] /\ pc'[u] = pc[u]
  BY <1>1, <1>2, Zenon
<1>4. \A u \in Threads \ {t} : Active(u)' \subseteq Active(u)
  BY <1>3, Zenon DEF Active, TransactionIdActiveDuringSnapshot, Open
<1>5. Active(t)' \subseteq Scanned(t)
  BY <1>1, <1>3, Zenon DEF Active, Scanned, TransactionIdActiveDuringSnapshot
<1>6. \A u \in Threads : Scanned(u)' = {}
  BY <1>1, SnapshotAssumption DEF Scanned, Threads
<1>7. Running' = Running
  BY <1>1, Zenon DEF Running
<1> QED
  BY <1>1, <1>2, <1>4, <1>5, <1>6, <1>7 DEF Narrows, Known

LEMMA NarrowsFinish ==
  ASSUME SnapInv, XactInv, NEW t \in Threads, RecordTransactionCommit(t) \/ ResetThreadState(t)
  PROVE  Narrows
<1>1. /\ \/ pc' = [pc EXCEPT ![t] = "reset"] /\ UNCHANGED <<xid, snap>>
         \/ /\ pc' = [pc EXCEPT ![t] = "idle"]
            /\ xid' = [xid EXCEPT ![t] = 0] /\ snap' = [snap EXCEPT ![t] = NoSnap]
      /\ UNCHANGED <<nextXid, scan, late>>
  BY Zenon DEF RecordTransactionCommit, ResetThreadState, Goto, xactVars, logVars, Invalid
<1>2. /\ pc \in [Threads -> Places] /\ nextXid \in Nat /\ snap \in [Threads -> Snapshots]
      /\ xid \in [Threads -> Nat] /\ 0 \notin Xids
  BY XidFacts, Zenon DEF SnapInv, ScanTypes
<1>3. /\ ~Open(t)'
      /\ \A u \in Threads \ {t} : snap'[u] = snap[u] /\ pc'[u] = pc[u]
  BY <1>1, <1>2, Zenon DEF Open
<1>4. \A u \in Threads : Active(u)' \subseteq Active(u)
  BY <1>3, Zenon DEF Active, TransactionIdActiveDuringSnapshot, Open
<1>5. \A u \in Threads : Scanned(u)' = Scanned(u)
  BY <1>1, Zenon DEF Scanned
<1>6. Running' \subseteq Running
  BY <1>1, <1>2, Zenon DEF Running
<1> QED
  BY <1>1, <1>2, <1>4, <1>5, <1>6 DEF Narrows, Known

\* So a horizon stays one.
LEMMA HorizonStays ==
  ASSUME SnapInv, Narrows
  PROVE  Horizons \subseteq Horizons'
<1> SUFFICES ASSUME NEW h \in Horizons PROVE h \in Horizons'
  BY Zenon
<1>1. nextXid \in Nat /\ nextXid' \in Nat /\ nextXid <= nextXid' /\ h \in 0 .. nextXid
  BY Zenon DEF SnapInv, ScanTypes, Narrows, Horizons
<1>2. ASSUME NEW t \in Threads, NEW x \in Known(t)', x \notin late' PROVE h <= x
  <2>1. x \in Nat /\ x \notin late /\ (x \in Known(t) \/ nextXid <= x)
    BY <1>2, SnapshotAssumption DEF Narrows, Known, Running, Active, Scanned, Xids
  <2> QED
    BY <1>1, <2>1 DEF Horizons
<1> QED
  BY <1>1, <1>2 DEF Horizons

\* And the xmin of a thread stays a bound, until the thread replaces it.
LEMMA BoundStays ==
  ASSUME SnapInv, Narrows, NEW t \in Threads, Bounds(t),
         snap'[t] = NoSnap \/ (snap[t] # NoSnap /\ slot'[t].xmin = slot[t].xmin)
  PROVE  Bounds(t)'
<1> SUFFICES ASSUME snap'[t] # NoSnap PROVE Bounds(t)'
  BY Zenon DEF Bounds
<1>1. /\ nextXid \in Nat /\ nextXid' \in Nat /\ nextXid <= nextXid' /\ slot[t].xmin \in Nat
      /\ slot'[t].xmin = slot[t].xmin /\ slot[t].xmin <= nextXid
  BY Zenon DEF SnapInv, ScanTypes, Slots, Narrows, Bounds
<1>2. ASSUME NEW x \in Known(t)', x \notin late' PROVE slot[t].xmin <= x
  <2>1. x \in Nat /\ x \notin late /\ (x \in Known(t) \/ nextXid <= x)
    BY <1>2, SnapshotAssumption DEF Narrows, Known, Running, Active, Scanned, Xids
  <2> QED
    BY <1>1, <2>1 DEF Bounds
<1> QED
  BY <1>1, <1>2 DEF Bounds

\* A step that leaves the checkpoint id, the slots and the scan alone.
LEMMA HorizonCalm ==
  ASSUME SnapInv, HorizonInv, Narrows,
         UNCHANGED <<checkpoint, scan>>,
         \A u \in Threads :
           snap'[u] = NoSnap \/ (snap'[u] = snap[u] /\ slot'[u].xmin = slot[u].xmin),
         \A u \in Threads : xid'[u] = xid[u] \/ xid'[u] = 0 \/ xid'[u] = nextXid,
         reap' \in [Threads -> Nat],
         \A u \in Threads : reap'[u] = reap[u] \/ reap'[u] = 0 \/ reap'[u] \in Horizons
  PROVE  HorizonInv'
<1>1. Horizons \subseteq Horizons'
  BY HorizonStays, Zenon
<1>2. CheckpointInv' /\ \A u \in Threads : reap'[u] # 0 => reap'[u] \in Horizons'
  BY <1>1, Zenon DEF HorizonInv, CheckpointInv
<1>3. ASSUME NEW u \in Threads PROVE Bounds(u)'
  <2>1. Bounds(u)
    BY Zenon DEF HorizonInv
  <2>2. CASE snap'[u] = NoSnap
    BY <2>2, Zenon DEF Bounds
  <2>3. CASE snap'[u] # NoSnap
    BY <2>1, <2>3, BoundStays, Zenon
  <2> QED
    BY <2>2, <2>3, Zenon
<1>4. ScanBounds'
  <2> SUFFICES ASSUME scan.by # 0 PROVE ScanBounds'
    BY Zenon DEF ScanBounds
  <2>1. /\ scan.low <= scan.xmax /\ scan.xmin <= scan.xmax /\ scan.xmax <= nextXid
        /\ scan.low \in Nat /\ scan.xmin \in Nat /\ scan.xmax \in Nat /\ nextXid \in Nat
    BY Zenon DEF HorizonInv, ScanBounds, SnapInv, ScanInv, ScanTypes, Scans
  <2>2. ASSUME NEW u \in Threads, Seen(u) PROVE Seen(u)'
    <3>1. late \subseteq late'
      BY Zenon DEF Narrows
    <3>2. scan.low <= nextXid /\ scan.xmin <= nextXid
      BY <2>1
    <3> QED
      BY <2>2, <3>1, <3>2, Zenon DEF Seen
  <2> QED
    BY <2>2, Zenon DEF HorizonInv, ScanBounds
<1> QED
  BY <1>2, <1>3, <1>4, Zenon DEF HorizonInv

\* A scan begins below its own id.
LEMMA HorizonBegin ==
  ASSUME SnapInv, XactInv, HorizonInv, NEW t \in Threads, BeginSnapshot(t)
  PROVE  HorizonInv'
<1>1. /\ pc[t] \in {"begun", "active"}
      /\ scan'.by = t /\ scan'.at = (IF t = 1 THEN 2 ELSE 1) /\ scan'.xmax = nextXid
      /\ scan'.xmin = xid[t] /\ scan'.xip = {} /\ scan'.low = SmallerOf(xid[t], slot[t].xmin)
      /\ UNCHANGED <<nextXid, checkpoint, slot, xid, snap, reap>>
  BY Zenon DEF BeginSnapshot, logVars, workVars
<1>2. Narrows
  BY NarrowsBegin, Zenon
<1>3. /\ xid[t] \in Nat /\ slot[t].xmin \in Nat /\ nextXid \in Nat /\ xid[t] < nextXid
      /\ scan'.low <= xid[t] /\ scan'.low \in Nat
  <2>1. xid[t] \in Nat /\ slot[t].xmin \in Nat /\ nextXid \in Nat /\ xid[t] < nextXid
    BY XidFacts, Zenon DEF SnapInv, ScanTypes, Slots
  <2> QED
    BY <1>1, <2>1 DEF SmallerOf
<1>4. \A u \in Threads : u < scan'.at \/ u = scan'.by => u = t
  BY <1>1, SnapshotAssumption DEF Threads
<1>5. ScanBounds'
  BY <1>1, <1>3, <1>4 DEF ScanBounds, Seen
<1>6. Horizons \subseteq Horizons' /\ \A u \in Threads : Bounds(u)'
  BY <1>1, <1>2, HorizonStays, BoundStays, Zenon DEF HorizonInv
<1> QED
  BY <1>1, <1>5, <1>6, Zenon DEF HorizonInv, CheckpointInv

\* The slot a scan passes lowers its bounds to the transaction of the slot.
LEMMA HorizonScan ==
  ASSUME SnapInv, XactInv, HorizonInv, NEW t \in Threads, ScanSlot(t)
  PROVE  HorizonInv'
<1>0. scan.by = t /\ scan.by # 0 /\ scan.at \in Threads /\ scan \in Scans
  BY SnapshotAssumption DEF ScanSlot, SnapInv, ScanTypes, ScanInv, Scans, Threads
<1> PICK c \in Threads : c = scan.at
  BY <1>0, Zenon
<1> DEFINE p == slot[c]
           running == p.state # "default"
<1>1. /\ UNCHANGED <<nextXid, checkpoint, slot, pc, xid, snap, reap>>
      /\ late' = IF pc[c] = "taken" /\ xid[c] < scan.xmax THEN late \cup {xid[c]} ELSE late
      /\ scan'.by = t /\ scan'.xmax = scan.xmax
      /\ scan'.at = IF c + 1 = t THEN c + 2 ELSE c + 1
      /\ scan'.low = IF p.xmin # 0 THEN SmallerOf(p.xmin, scan.low) ELSE scan.low
      /\ scan'.xmin = IF running THEN SmallerOf(p.xid, scan.xmin) ELSE scan.xmin
      /\ scan'.xip = IF running THEN scan.xip \cup {p.xid} ELSE scan.xip
  BY <1>0, Zenon DEF ScanSlot, Scans, Invalid, logVars, xactVars, workVars
<1>2. /\ p.xid \in Nat /\ p.xmin \in Nat /\ xid[c] \in Nat
      /\ running => p.xid = xid[c] /\ 0 < p.xmin /\ p.xmin <= xid[c]
      /\ xid[c] # 0 /\ ~running => pc[c] = "taken"
  BY DEF SnapInv, ScanTypes, SlotInv, Slots, XactInv, XactOf
<1>3. /\ scan.xmin \in Nat /\ scan.low \in Nat /\ scan.xip \in SUBSET Nat /\ scan.xmax \in Nat
      /\ scan.low <= scan.xmax /\ scan.xmin <= scan.xmax
      /\ \A u \in Threads : u < c \/ u = t => Seen(u)
      /\ \A x \in scan.xip : scan.xmin <= x
  BY <1>0, Zenon DEF Scans, HorizonInv, ScanBounds
<1>4. /\ scan'.low \in Nat /\ scan'.low <= scan.low /\ (p.xmin # 0 => scan'.low <= p.xmin)
      /\ scan'.xmin \in Nat /\ scan'.xmin <= scan.xmin /\ (running => scan'.xmin <= p.xid)
      /\ late \subseteq late'
  BY <1>1, <1>2, <1>3 DEF SmallerOf
<1>5. \A u \in Threads : u < c \/ u = t => Seen(u)'
  <2> SUFFICES ASSUME NEW u \in Threads, Seen(u) PROVE Seen(u)'
    BY <1>3, Zenon
  <2>1. xid[u] \in Nat
    BY Zenon DEF SnapInv, ScanTypes
  <2> QED
    BY <1>1, <1>3, <1>4, <2>1 DEF Seen
<1>6. Seen(c)'
  <2> SUFFICES ASSUME xid[c] # 0, xid[c] \notin late'
               PROVE  scan'.low <= xid[c] /\ scan'.xmin <= xid[c]
    BY <1>1, Zenon DEF Seen
  <2>1. CASE running
    BY <1>2, <1>4, <2>1
  <2>2. CASE ~running
    <3>1. scan.xmax <= xid[c]
      BY <1>1, <1>2, <1>3, <2>2
    <3> QED
      BY <1>2, <1>3, <1>4, <3>1
  <2> QED
    BY <2>1, <2>2, Zenon
<1>7. \A x \in scan'.xip : scan'.xmin <= x
  BY <1>1, <1>2, <1>3, <1>4
<1>8. ScanBounds'
  <2>1. \A u \in Threads : u < scan'.at \/ u = t => u < c \/ u = c \/ u = t
    <3> HIDE DEF p, running
    <3>1. scan'.at = (IF c + 1 = t THEN c + 2 ELSE c + 1)
      BY <1>1, Zenon
    <3>2. NThreads \in Nat
      BY SnapshotAssumption, Zenon
    <3> QED
      BY <3>1, <3>2 DEF Threads
  <2>2. scan'.low <= scan'.xmax /\ scan'.xmin <= scan'.xmax
    BY <1>1, <1>3, <1>4
  <2> QED
    BY <1>1, <1>5, <1>6, <1>7, <2>1, <2>2, Zenon DEF ScanBounds
<1>9. Horizons \subseteq Horizons' /\ \A u \in Threads : Bounds(u)'
  BY <1>1, NarrowsScan, HorizonStays, BoundStays, Zenon DEF HorizonInv
<1> QED
  BY <1>1, <1>8, <1>9, Zenon DEF HorizonInv, CheckpointInv

\* A scan that has passed every slot gives a horizon and, to a new transaction, its
\* bound.
LEMMA HorizonEnd ==
  ASSUME SnapInv, XactInv, HorizonInv, NEW t \in Threads, EndSnapshot(t)
  PROVE  HorizonInv'
<1>1. /\ scan.by = t /\ scan.at > NThreads /\ scan'.by = 0 /\ pc' = [pc EXCEPT ![t] = "active"]
      /\ snap' = [snap EXCEPT ![t] = [xmin |-> scan.xmin, xmax |-> scan.xmax, xip |-> scan.xip]]
      /\ \/ /\ cmds[t] = 1 /\ slot' = [slot EXCEPT ![t].xmin = scan.xmin]
            /\ checkpoint' = SmallerOf(scan.low, scan.xmin)
         \/ cmds[t] # 1 /\ slot' = slot /\ checkpoint' = scan.low
      /\ UNCHANGED <<nextXid, xid, late, reap>>
  BY Zenon DEF EndSnapshot, Goto, xactVars, workVars, NoScan
<1>2. /\ pc \in [Threads -> Places] /\ slot \in [Threads -> Slots] /\ snap \in [Threads -> Snapshots]
      /\ scan \in Scans /\ nextXid \in Nat /\ \A u \in Threads : slot[u].xmin \in Nat
  BY Zenon DEF SnapInv, ScanTypes, Slots
<1>3. NThreads \in Nat /\ \A u \in Threads : u \in Nat /\ 0 < u /\ u <= NThreads
  BY SnapshotAssumption DEF Threads
<1>4. /\ pc[t] = "scan" /\ scan.xmax <= nextXid /\ scan.low <= slot[t].xmin
      /\ scan.xmin \in Nat /\ scan.low \in Nat /\ scan.xip \in SUBSET Nat /\ scan.xmax \in Nat
      /\ scan.low <= scan.xmax /\ scan.xmin <= scan.xmax
      /\ \A u \in Threads : Seen(u)
      /\ \A u \in Threads \ {t} : Respected(u)
      /\ \A x \in scan.xip : scan.xmin <= x
  BY <1>1, <1>2, <1>3 DEF SnapInv, ScanInv, HorizonInv, ScanBounds, Scans
<1>5. /\ snap'[t].xmax = scan.xmax /\ snap'[t].xip = scan.xip
      /\ \A u \in Threads \ {t} : snap'[u] = snap[u] /\ pc'[u] = pc[u] /\ slot'[u] = slot[u]
      /\ cmds[t] = 1 => slot'[t].xmin = scan.xmin
  BY <1>1, <1>2 DEF Slots
<1>6. Narrows
  BY NarrowsEnd, Zenon
<1>7. Horizons \subseteq Horizons'
  BY <1>6, HorizonStays, Zenon
<1>8. \A u \in Threads : \A x \in Known(u)' :
        x \in Running \/ (u # t /\ x \in Active(u)) \/ (u = t /\ x \in Scanned(t))
  <2>1. \A u \in Threads \ {t} : Active(u)' \subseteq Active(u)
    BY <1>5, Zenon DEF Active, TransactionIdActiveDuringSnapshot, Open
  <2>2. Active(t)' \subseteq Scanned(t)
    BY <1>1, <1>5, Zenon DEF Active, Scanned, TransactionIdActiveDuringSnapshot
  <2>3. \A u \in Threads : Scanned(u)' = {}
    BY <1>1, <1>3 DEF Scanned
  <2>4. Running' = Running
    BY <1>1, Zenon DEF Running
  <2> QED
    BY <2>1, <2>2, <2>3, <2>4, Zenon DEF Known
<1>9. \A x \in Running \ late : scan.low <= x /\ scan.xmin <= x
  <2> SUFFICES ASSUME NEW x \in Running, x \notin late PROVE scan.low <= x /\ scan.xmin <= x
    BY Zenon
  <2>1. PICK u \in Threads : xid[u] = x
    BY Zenon DEF Running
  <2>2. x # 0
    BY XidFacts, Zenon DEF Running
  <2> QED
    BY <1>4, <2>1, <2>2, Zenon DEF Seen
<1>10. cmds[t] # 1 => snap[t] # NoSnap
  BY <1>4, Zenon DEF XactInv, XactOf
<1>11. \A x \in Scanned(t) \ late :
         /\ x \in Nat /\ (scan.xmax <= x \/ scan.xmin <= x)
         /\ cmds[t] # 1 => slot[t].xmin <= x
  <2>1. cmds[t] # 1 => \A x \in Known(t) \ late : slot[t].xmin <= x
    BY <1>10, Zenon DEF HorizonInv, Bounds
  <2>2. \A x \in Scanned(t) : x \in Nat /\ (scan.xmax <= x \/ x \in scan.xip)
    BY SnapshotAssumption DEF Scanned, Xids
  <2> QED
    BY <1>4, <2>1, <2>2, Zenon DEF Known
<1>12. checkpoint' \in Nat /\ checkpoint' <= scan.low /\ (cmds[t] = 1 => checkpoint' <= scan.xmin)
  BY <1>1, <1>4 DEF SmallerOf
<1>13. ASSUME NEW u \in Threads, NEW x \in Known(u)', x \notin late PROVE checkpoint' <= x
  <2>1. x \in Nat
    BY SnapshotAssumption DEF Known, Running, Active, Scanned, Xids
  <2>2. CASE x \in Running
    BY <1>4, <1>9, <1>12, <1>13, <2>1, <2>2
  <2>3. CASE u # t /\ x \in Active(u)
    <3>1. snap[u] # NoSnap /\ slot[u].state # "default"
      BY <2>3, Zenon DEF Active, Open, XactInv, XactOf, SnapInv, SlotInv
    <3>2. scan.low <= slot[u].xmin
      BY <1>4, <2>3, <3>1, Zenon DEF Respected
    <3>3. slot[u].xmin <= x
      BY <1>13, <2>3, <3>1, Zenon DEF HorizonInv, Bounds, Known
    <3> QED
      BY <1>2, <1>4, <1>12, <2>1, <3>2, <3>3
  <2>4. CASE x \in Scanned(t)
    <3>1. scan.xmax <= x \/ scan.xmin <= x
      BY <1>11, <1>13, <2>4, Zenon
    <3>2. cmds[t] # 1 => slot[t].xmin <= x
      BY <1>11, <1>13, <2>4, Zenon
    <3> QED
      BY <1>2, <1>4, <1>12, <2>1, <3>1, <3>2
  <2> QED
    BY <1>8, <2>2, <2>3, <2>4, Zenon
<1>14. checkpoint' \in Horizons'
  <2>1. checkpoint' \in 0 .. nextXid'
    BY <1>1, <1>2, <1>4, <1>12
  <2> QED
    BY <1>1, <1>13, <2>1, Zenon DEF Horizons
<1>15. Bounds(t)'
  <2>1. CASE cmds[t] # 1
    BY <1>1, <1>6, <1>10, <2>1, BoundStays, Zenon DEF HorizonInv
  <2>2. CASE cmds[t] = 1
    <3>1. slot'[t].xmin = scan.xmin /\ scan.xmin <= nextXid'
      BY <1>1, <1>2, <1>4, <1>5, <2>2
    <3>2. ASSUME NEW x \in Known(t)', x \notin late PROVE scan.xmin <= x
      <4>1. x \in Running \/ x \in Scanned(t)
        BY <1>8, Zenon
      <4>2. CASE x \in Running
        BY <1>9, <3>2, <4>2, Zenon
      <4>3. CASE x \in Scanned(t)
        BY <1>4, <1>11, <3>2, <4>3
      <4> QED
        BY <4>1, <4>2, <4>3, Zenon
    <3> QED
      BY <1>1, <3>1, <3>2, Zenon DEF Bounds
  <2> QED
    BY <2>1, <2>2, Zenon
<1>16. \A u \in Threads \ {t} : Bounds(u)'
  <2> SUFFICES ASSUME NEW u \in Threads, u # t PROVE Bounds(u)'
    BY Zenon
  <2>1. CASE snap'[u] = NoSnap
    BY <2>1, Zenon DEF Bounds
  <2>2. CASE snap'[u] # NoSnap
    BY <1>5, <1>6, <2>2, BoundStays, Zenon DEF HorizonInv
  <2> QED
    BY <2>1, <2>2, Zenon
<1>17. ScanBounds'
  BY <1>1, Zenon DEF ScanBounds
<1> QED
  BY <1>1, <1>7, <1>14, <1>15, <1>16, <1>17, Zenon DEF HorizonInv, CheckpointInv

LEMMA NarrowsStep ==
  ASSUME SnapInv, XactInv, [Next]_vars
  PROVE  Narrows
<1>1. ASSUME NEW t \in Threads, GetNewTransactionId(t) PROVE Narrows
  BY <1>1, NarrowsNew, Zenon
<1>2. ASSUME NEW t \in Threads, ThreadTransactionStart(t) PROVE Narrows
  BY <1>2, NarrowsStart, Zenon
<1>3. ASSUME NEW t \in Threads, BeginSnapshot(t) PROVE Narrows
  BY <1>3, NarrowsBegin, Zenon
<1>4. ASSUME NEW t \in Threads, ScanSlot(t) PROVE Narrows
  BY <1>4, NarrowsScan, Zenon
<1>5. ASSUME NEW t \in Threads, EndSnapshot(t) PROVE Narrows
  BY <1>5, NarrowsEnd, Zenon
<1>6. ASSUME NEW t \in Threads, RecordTransactionCommit(t) \/ ResetThreadState(t) PROVE Narrows
  BY <1>6, NarrowsFinish, Zenon
<1>7. ASSUME NEW t \in Threads, RowAction(t) \/ RecordTransactionAbort(t) PROVE Narrows
  BY <1>7, RowQuiet, NarrowsQuiet, Zenon DEF RowAction
<1>8. CASE (\E x \in Xids : Harden(x)) \/ Done \/ UNCHANGED vars
  <2>1. UNCHANGED <<nextXid, checkpoint, slot, scan, pc, xid, snap, late>>
    BY <1>8, Zenon DEF Harden, Done, vars, logVars, xactVars
  <2>2. Quiet
    BY <2>1, Zenon DEF Quiet, SnapInv, ScanTypes
  <2> QED
    BY <2>2, NarrowsQuiet, Zenon
<1> QED
  BY <1>1, <1>2, <1>3, <1>4, <1>5, <1>6, <1>7, <1>8, Zenon DEF Next, RowAction

LEMMA HorizonStep ==
  ASSUME SnapInv, XactInv, HorizonInv, [Next]_vars
  PROVE  HorizonInv'
<1>0. Narrows
  BY NarrowsStep, Zenon
<1>r. /\ reap \in [Threads -> Nat] /\ xid \in [Threads -> Nat]
      /\ checkpoint \in Nat /\ slot \in [Threads -> Slots]
      /\ snap \in [Threads -> Snapshots]
  BY Zenon DEF HorizonInv, SnapInv, ScanTypes
<1>q. ASSUME Quiet, reap' \in [Threads -> Nat],
             \A u \in Threads : reap'[u] = reap[u] \/ reap'[u] = 0 \/ reap'[u] \in Horizons
      PROVE  HorizonInv'
  BY <1>0, <1>q, HorizonCalm, Zenon DEF Quiet
<1>1. ASSUME NEW t \in Threads, GetNewTransactionId(t) PROVE HorizonInv'
  <2>1. /\ xid' = [xid EXCEPT ![t] = nextXid] /\ UNCHANGED <<checkpoint, slot, scan, snap, reap>>
    BY <1>1, Zenon DEF GetNewTransactionId, workVars
  <2> QED
    BY <1>0, <1>r, <2>1, HorizonCalm, Zenon
<1>2. ASSUME NEW t \in Threads, ThreadTransactionStart(t) PROVE HorizonInv'
  <2>1. /\ slot' = [slot EXCEPT ![t] = [state |-> "start", xid |-> xid[t], xmin |-> xid[t]]]
        /\ UNCHANGED <<checkpoint, xid, scan, snap, reap>>
    BY <1>2, Zenon DEF ThreadTransactionStart, logVars, xactVars, workVars
  <2>2. snap[t] = NoSnap
    BY <1>2, Zenon DEF ThreadTransactionStart, SnapInv, SlotInv
  <2> QED
    BY <1>0, <1>r, <2>1, <2>2, HorizonCalm, Zenon
<1>3. ASSUME NEW t \in Threads, BeginSnapshot(t) PROVE HorizonInv'
  BY <1>3, HorizonBegin, Zenon
<1>4. ASSUME NEW t \in Threads, ScanSlot(t) PROVE HorizonInv'
  BY <1>4, HorizonScan, Zenon
<1>5. ASSUME NEW t \in Threads, EndSnapshot(t) PROVE HorizonInv'
  BY <1>5, HorizonEnd, Zenon
<1>6. ASSUME NEW t \in Threads, RecordTransactionCommit(t) PROVE HorizonInv'
  <2>1. /\ slot' = [slot EXCEPT ![t].state = "commit"] /\ UNCHANGED <<checkpoint, xid, scan, snap, reap>>
    BY <1>6, Zenon DEF RecordTransactionCommit, xactVars, workVars
  <2>2. \A u \in Threads : slot'[u].xmin = slot[u].xmin
    BY <1>r, <2>1, Zenon DEF Slots
  <2> QED
    BY <1>0, <1>r, <2>1, <2>2, HorizonCalm, Zenon
<1>7. ASSUME NEW t \in Threads, ResetThreadState(t) PROVE HorizonInv'
  <2>1. /\ slot' = [slot EXCEPT ![t] = DefaultSlot] /\ snap' = [snap EXCEPT ![t] = NoSnap]
        /\ xid' = [xid EXCEPT ![t] = 0] /\ UNCHANGED <<checkpoint, scan, reap>>
    BY <1>7, Zenon DEF ResetThreadState, logVars, workVars, Invalid
  <2> QED
    BY <1>0, <1>r, <2>1, HorizonCalm, Zenon
<1>8. ASSUME NEW t \in Threads, RowAction(t) \/ RecordTransactionAbort(t) PROVE HorizonInv'
  <2>1. Quiet
    BY <1>8, RowQuiet, Zenon DEF RowAction
  <2>2. \/ reap' = reap \/ reap' = [reap EXCEPT ![t] = 0]
        \/ pc[t] = "active" /\ reap' = [reap EXCEPT ![t] = checkpoint]
    BY <1>8, Zenon DEF RowAction, ExecReplace, Read, MayBeUpdated, Updated, BeingUpdated, DidCrash, Retest,
         NotCrashed, heap_update, XactLockTableWait, GetCheckpointId, lazy_scan_heap,
         lazy_vacuum_heap, RecordTransactionAbort, workVars, Invalid
  <2>3. pc[t] = "active" => checkpoint \in Horizons
    BY Zenon DEF XactInv, XactOf, Open, HorizonInv, CheckpointInv
  <2>4. /\ reap' \in [Threads -> Nat]
        /\ \A u \in Threads : reap'[u] = reap[u] \/ reap'[u] = 0 \/ reap'[u] \in Horizons
    BY <1>r, <2>2, <2>3
  <2> QED
    BY <1>q, <2>1, <2>4, Zenon
<1>9. CASE (\E x \in Xids : Harden(x)) \/ Done \/ UNCHANGED vars
  <2>1. UNCHANGED <<nextXid, checkpoint, slot, scan, pc, xid, snap, late, reap>>
    BY <1>9, Zenon DEF Harden, Done, vars, logVars, xactVars, workVars
  <2>2. Quiet
    BY <2>1, Zenon DEF Quiet, SnapInv, ScanTypes
  <2> QED
    BY <1>q, <1>r, <2>1, <2>2, Zenon
<1> QED
  BY <1>1, <1>2, <1>3, <1>4, <1>5, <1>6, <1>7, <1>8, <1>9, Zenon DEF Next, RowAction

-----------------------------------------------------------------------------
(* The versions of the row.                                                *)

\* The transaction x will never commit.
Dead(x) ==
  \/ LogStatus(x) = "abort"
  \/ LogStatus(x) = "inprogress" /\ \A t \in Threads : xid[t] # x

\* What a hint h says of the transaction x.
TrueHint(x, h) ==
  /\ h = "commit" => x # 0 /\ status[x] = "commit"
  /\ h = "invalid" => Dead(x)

\* x committed and no snapshot tells it apart any more, unless a scan missed it.
Settled(x) ==
  TransactionIdDidCommit(x) /\ (x \in late \/ \A t \in Threads : x \notin Known(t))

Versions == [xmin : Xids, xmax : 0 .. MaxXid, hmin : Hints, hmax : Hints, prev : Nat]

\* The ids of a version were handed out, those of running transactions to threads
\* that know they have changed the row; a deleter that did not crash left a
\* successor, and the version that an update replaced names that update, unless it
\* will never commit.
VersionOf(v) ==
  /\ row[v].xmin < nextXid /\ row[v].xmax < nextXid /\ row[v].prev < v
  /\ \A t \in Threads :
       xid[t] # 0 /\ xid[t] \in {row[v].xmin, row[v].xmax} => changed[t] /\ t \notin Sweepers
  /\ \/ row[v].xmax \in {Invalid, Crashed}
     \/ \E u \in DOMAIN row : row[u].prev = v /\ row[u].xmin = row[v].xmax
  /\ row[v].prev # 0 => Dead(row[v].xmin) \/ row[row[v].prev].xmax = row[v].xmin
  /\ TrueHint(row[v].xmin, row[v].hmin) /\ TrueHint(row[v].xmax, row[v].hmax)

Removable(v) == Dead(row[v].xmin) \/ Settled(row[v].xmax)

VersionsInv ==
  /\ row \in Seq(Versions) /\ \A v \in DOMAIN row : VersionOf(v)
  /\ gone \in SUBSET DOMAIN row /\ \A v \in gone : Removable(v)
  /\ dead \in [Threads -> SUBSET DOMAIN row] /\ \A t \in Threads : \A v \in dead[t] : Removable(v)

Ops == [v : Nat, f : {"xmin", "xmax"}, update : BOOLEAN]

\* The version a thread works on, and what it knows of it.
OpOf(t) ==
  /\ pc[t] \in {"update", "doubt", "retest", "wait"} =>
       op[t].v \in DOMAIN row /\ (op[t].update => op[t].f = "xmax" /\ t \in Writers)
  /\ pc[t] \in {"doubt", "retest"} <=> page = t
  /\ pc[t] \in {"update", "wait"} => op[t].update
  /\ pc[t] \in {"doubt", "retest"} => Examinee(t) # Invalid
  /\ pc[t] = "retest" => \A u \in Threads : xid[u] # Examinee(t)
  /\ pc[t] = "vacuum" \/ reap[t] # 0 => t \in Sweepers

OpsInv == op \in [Threads -> Ops] /\ \A t \in Threads : OpOf(t)

RowInv == VersionsInv /\ OpsInv

\* An id that was handed out is not handed out again, and its status is final.
Forward ==
  /\ nextXid <= nextXid'
  /\ \A t \in Threads : xid'[t] \in {xid[t], 0, nextXid}
  /\ \A x \in Xids : x < nextXid =>
       \/ status'[x] = status[x]
       \/ status[x] = "soft" /\ status'[x] = "commit"
       \/ status[x] = "inprogress" /\ \E t \in Threads : xid[t] = x

LEMMA ForwardStep ==
  ASSUME SnapInv, XactInv, [Next]_vars
  PROVE  Forward
<1>0. /\ nextXid \in Nat /\ xid \in [Threads -> Nat] /\ status \in [Xids -> Statuses]
  BY Zenon DEF SnapInv, ScanTypes, XactInv
<1>1. ASSUME UNCHANGED <<nextXid, xid, status>> PROVE Forward
  BY <1>0, <1>1 DEF Forward
<1>2. ASSUME NEW t \in Threads, GetNewTransactionId(t) PROVE Forward
  <2>1. nextXid' = nextXid + 1 /\ xid' = [xid EXCEPT ![t] = nextXid] /\ status' = status
    BY <1>2, Zenon DEF GetNewTransactionId
  <2> QED
    BY <1>0, <2>1 DEF Forward
<1>3. ASSUME NEW t \in Threads, RecordTransactionCommit(t) \/ RecordTransactionAbort(t) PROVE Forward
  <2>1. /\ UNCHANGED <<nextXid, xid>> /\ pc[t] \in {"active", "swept", "abort"}
        /\ status' = status \/ \E s \in Statuses : status' = [status EXCEPT ![xid[t]] = s]
    BY <1>3, Zenon DEF RecordTransactionCommit, RecordTransactionAbort, xactVars, Statuses
  <2>2. status[xid[t]] = "inprogress"
    BY <2>1, Zenon DEF XactInv, XactOf
  <2> QED
    BY <1>0, <2>1, <2>2 DEF Forward
<1>4. ASSUME NEW t \in Threads, ResetThreadState(t) PROVE Forward
  <2>1. xid' = [xid EXCEPT ![t] = 0] /\ UNCHANGED <<nextXid, status>>
    BY <1>4, Zenon DEF ResetThreadState, logVars, Invalid
  <2> QED
    BY <1>0, <2>1 DEF Forward
<1>5. ASSUME NEW x \in Xids, Harden(x) PROVE Forward
  <2>1. status[x] = "soft" /\ status' = [status EXCEPT ![x] = "commit"] /\ UNCHANGED <<nextXid, xid>>
    BY <1>5, Zenon DEF Harden, xactVars
  <2> QED
    BY <1>0, <2>1 DEF Forward
<1>6. ASSUME NEW t \in Threads, RowAction(t) PROVE Forward
  <2>1. UNCHANGED <<nextXid, xid, status>>
    BY <1>6, Zenon DEF RowAction, ExecReplace, Read, MayBeUpdated, Updated, BeingUpdated, DidCrash, Retest,
         NotCrashed, heap_update, XactLockTableWait, GetCheckpointId, lazy_scan_heap,
         lazy_vacuum_heap, logVars, xactVars
  <2> QED
    BY <1>1, <2>1, Zenon
<1>7. ASSUME NEW t \in Threads,
             ThreadTransactionStart(t) \/ BeginSnapshot(t) \/ ScanSlot(t) \/ EndSnapshot(t)
      PROVE  Forward
  <2>1. UNCHANGED <<nextXid, xid, status>>
    BY <1>7, Zenon DEF ThreadTransactionStart, BeginSnapshot, ScanSlot, EndSnapshot, logVars, xactVars
  <2> QED
    BY <1>1, <2>1, Zenon
<1>8. CASE Done \/ UNCHANGED vars
  BY <1>1, <1>8, Zenon DEF Done, vars, logVars, xactVars
<1> QED
  BY <1>2, <1>3, <1>4, <1>5, <1>6, <1>7, <1>8, Zenon DEF Next, RowAction

\* What is settled about an id stays so.
LEMMA Final ==
  ASSUME SnapInv, XactInv, Forward, Narrows, NEW x \in Nat, x < nextXid
  PROVE  /\ x # 0 /\ (\A t \in Threads : xid[t] # x) => \A t \in Threads : xid'[t] # x
         /\ Dead(x) => Dead(x)'
         /\ TransactionIdDidCommit(x) => TransactionIdDidCommit(x)'
         /\ Settled(x) => Settled(x)'
         /\ \A h \in Hints : TrueHint(x, h) => TrueHint(x, h)'
<1>1. nextXid \in Nat /\ (x # 0 => x \in Xids) /\ xid \in [Threads -> Nat]
  BY XidFacts DEF SnapInv, ScanTypes
<1>2. x # 0 /\ (\A t \in Threads : xid[t] # x) => \A t \in Threads : xid'[t] # x
  BY <1>1 DEF Forward
<1>3. /\ LogStatus(x) = "abort" => LogStatus(x)' = "abort"
      /\ x # 0 /\ status[x] = "commit" => status'[x] = "commit"
      /\ TransactionIdDidCommit(x) => TransactionIdDidCommit(x)'
  BY <1>1, Zenon DEF Forward, LogStatus, TransactionIdDidCommit, Invalid
<1>4. Dead(x) => Dead(x)'
  <2> SUFFICES ASSUME LogStatus(x) = "inprogress", \A t \in Threads : xid[t] # x PROVE Dead(x)'
    BY <1>3, Zenon DEF Dead
  <2>1. x # 0 /\ status[x] = "inprogress"
    BY Zenon DEF LogStatus, Invalid
  <2>2. status'[x] = status[x]
    BY <1>1, <2>1, Zenon DEF Forward
  <2> QED
    BY <1>2, <2>1, <2>2, Zenon DEF Dead, LogStatus, Invalid
<1>5. Settled(x) => Settled(x)'
  <2>1. \A t \in Threads : x \notin Known(t) => x \notin Known(t)'
    BY <1>1 DEF Narrows
  <2>2. x \in late => x \in late'
    BY Zenon DEF Narrows
  <2> QED
    BY <1>3, <2>1, <2>2, Zenon DEF Settled
<1>6. \A h \in Hints : TrueHint(x, h) => TrueHint(x, h)'
  BY <1>3, <1>4, Zenon DEF TrueHint
<1> QED
  BY <1>2, <1>3, <1>4, <1>5, <1>6, Zenon

\* The versions keep their ids; a hint may be added if it tells the truth.
Rehinted ==
  /\ row' \in Seq(Versions) /\ DOMAIN row' = DOMAIN row
  /\ \A v \in DOMAIN row :
       /\ row'[v].xmin = row[v].xmin /\ row'[v].xmax = row[v].xmax /\ row'[v].prev = row[v].prev
       /\ row'[v].hmin = row[v].hmin \/ TrueHint(row[v].xmin, row'[v].hmin)
       /\ row'[v].hmax = row[v].hmax \/ TrueHint(row[v].xmax, row'[v].hmax)

LEMMA VersionTypes ==
  ASSUME SnapInv, XactInv, VersionsInv, NEW v \in DOMAIN row
  PROVE  /\ v \in Nat /\ v # 0 /\ row[v] \in Versions
         /\ row[v].xmin \in Xids /\ row[v].xmin \in Nat /\ row[v].xmin # 0
         /\ row[v].xmax \in Nat /\ (row[v].xmax # 0 => row[v].xmax \in Xids)
         /\ row[v].hmin \in Hints /\ row[v].hmax \in Hints /\ row[v].prev \in Nat
<1>1. v \in 1 .. Len(row) /\ Len(row) \in Nat /\ row[v] \in Versions
  BY DEF VersionsInv
<1>2. MaxXid \in Nat /\ Xids = 1 .. MaxXid
  BY SnapshotAssumption, Zenon DEF Xids
<1> QED
  BY <1>1, <1>2 DEF Versions

\* Steps that only add hints, or leave the versions alone.
LEMMA VersionsKept ==
  ASSUME SnapInv, XactInv, VersionsInv, Forward, Narrows, Rehinted,
         \A t \in Threads : xid'[t] # 0 /\ xid'[t] = xid[t] /\ changed[t] /\ t \notin Sweepers => changed'[t],
         gone' \in SUBSET DOMAIN row, \A v \in gone' : Removable(v),
         dead' \in [Threads -> SUBSET DOMAIN row],
         \A t \in Threads : \A v \in dead'[t] : Removable(v)
  PROVE  VersionsInv'
<1>1. ASSUME NEW v \in DOMAIN row PROVE VersionOf(v)' /\ (Removable(v) => Removable(v)')
  <2>1. VersionOf(v) /\ row'[v].hmin \in Hints /\ row'[v].hmax \in Hints
    <3>1. v \in 1 .. Len(row') /\ row'[v] \in Versions
      BY DEF Rehinted
    <3> QED
      BY <3>1, Zenon DEF VersionsInv, Versions
  <2>2. /\ v \in Nat /\ row[v].xmin \in Nat /\ row[v].xmax \in Nat /\ row[v].xmin # 0
        /\ row[v].prev \in Nat /\ row[v].hmin \in Hints /\ row[v].hmax \in Hints
    BY VersionTypes, Zenon
  <2>3. /\ row[v].xmin < nextXid /\ row[v].xmax < nextXid /\ nextXid \in Nat
        /\ nextXid' \in Nat /\ nextXid <= nextXid'
    BY <2>1, Zenon DEF VersionOf, SnapInv, ScanTypes, Narrows
  <2>4. /\ row'[v].xmin = row[v].xmin /\ row'[v].xmax = row[v].xmax /\ row'[v].prev = row[v].prev
        /\ row'[v].hmin = row[v].hmin \/ TrueHint(row[v].xmin, row'[v].hmin)
        /\ row'[v].hmax = row[v].hmax \/ TrueHint(row[v].xmax, row'[v].hmax)
    BY Zenon DEF Rehinted
  <2>5. PICK a \in Nat, b \in Nat : a = row[v].xmin /\ b = row[v].xmax
    BY <2>2, Zenon
  <2>6. /\ (Dead(a) => Dead(a)') /\ (Settled(b) => Settled(b)')
        /\ TrueHint(a, row'[v].hmin) /\ TrueHint(b, row'[v].hmax)
    BY <2>1, <2>2, <2>3, <2>4, <2>5, Final, Zenon DEF VersionOf
  <2>7. TrueHint(a, row[v].hmin)' /\ TrueHint(b, row[v].hmax)'
    <3>1. \A h \in Hints : TrueHint(a, h) => TrueHint(a, h)'
      BY <2>3, <2>5, Final, Zenon
    <3>2. \A h \in Hints : TrueHint(b, h) => TrueHint(b, h)'
      BY <2>3, <2>5, Final, Zenon
    <3> QED
      BY <2>1, <2>6, <3>1, <3>2, Zenon DEF TrueHint
  <2>8. \A t \in Threads : xid'[t] # 0 /\ xid'[t] \in {a, b} => changed'[t] /\ t \notin Sweepers
    BY <2>1, <2>3, <2>5 DEF VersionOf, Forward
  <2>9. \/ b \in {Invalid, Crashed}
        \/ \E u \in DOMAIN row' : row'[u].prev = v /\ row'[u].xmin = b
    BY <2>1, <2>5, Zenon DEF VersionOf, Rehinted
  <2>10. row[v].prev # 0 => Dead(a)' \/ row'[row[v].prev].xmax = a
    <3> SUFFICES ASSUME row[v].prev # 0, row[row[v].prev].xmax = a PROVE row'[row[v].prev].xmax = a
      BY <2>1, <2>5, <2>6, Zenon DEF VersionOf
    <3>1. row[v].prev \in DOMAIN row
      <4>1. row[v].prev < v
        BY <2>1, Zenon DEF VersionOf
      <4>2. DOMAIN row = 1 .. Len(row) /\ Len(row) \in Nat
        BY DEF VersionsInv
      <4> QED
        BY <2>2, <4>1, <4>2
    <3> QED
      BY <3>1, Zenon DEF Rehinted
  <2>11. VersionOf(v)'
    <3>1. row'[v].xmin < nextXid' /\ row'[v].xmax < nextXid' /\ row'[v].prev < v
      BY <2>1, <2>2, <2>3, <2>4 DEF VersionOf
    <3>2. TrueHint(row[v].xmin, row[v].hmin)' /\ TrueHint(row[v].xmax, row[v].hmax)'
      BY <2>4, <2>5, <2>7, Zenon DEF TrueHint, Dead, LogStatus
    <3>3. row'[v].prev # 0 => Dead(row[v].xmin)' \/ row'[row'[v].prev].xmax = row'[v].xmin
      BY <2>4, <2>5, <2>10, Zenon DEF Dead, LogStatus
    <3> QED
      BY <2>4, <2>5, <2>8, <2>9, <3>1, <3>2, <3>3, ZenonT(30) DEF VersionOf
  <2>12. Removable(v) => Removable(v)'
    <3>1. Dead(row[v].xmin) => Dead(row[v].xmin)'
      BY <2>4, <2>5, <2>6, Zenon DEF Dead, LogStatus
    <3>2. Settled(row[v].xmax) => Settled(row[v].xmax)'
      BY <2>4, <2>5, <2>6, Zenon DEF Settled, TransactionIdDidCommit, LogStatus
    <3> QED
      BY <3>1, <3>2, Zenon DEF Removable
  <2> QED
    BY <2>11, <2>12, Zenon
<1> QED
  BY <1>1, Zenon DEF VersionsInv, Rehinted

\* A transaction that is found in a version and that is below the checkpoint id, or
\* in no slot, runs no more.
LEMMA NotRunning ==
  ASSUME SnapInv, XactInv, VersionsInv, NEW v \in DOMAIN row,
         NEW x \in {row[v].xmin, row[v].xmax}, x # 0,
         x < checkpoint \/ ~TransactionIdIsInProgress(x)
  PROVE  \A u \in Threads : xid[u] # x
<1> SUFFICES ASSUME NEW u \in Threads, xid[u] = x PROVE FALSE
  BY Zenon
<1>1. changed[u]
  BY Zenon DEF VersionsInv, VersionOf
<1>2. pc[u] \notin {"idle", "taken"} /\ snap[u] # NoSnap /\ slot[u].xmin <= xid[u]
  BY <1>1, Zenon DEF XactInv, XactOf
<1>3. slot[u].state # "default" /\ slot[u].xid = x
  BY <1>2, Zenon DEF SnapInv, SlotInv
<1>4. checkpoint <= slot[u].xmin
  BY <1>2, <1>3, Zenon DEF SnapInv, HorizonBelowSnapshots
<1>5. checkpoint \in Nat /\ slot[u].xmin \in Nat /\ xid[u] \in Nat
  BY Zenon DEF SnapInv, ScanTypes, Slots
<1> QED
  BY <1>2, <1>3, <1>4, <1>5 DEF TransactionIdIsInProgress

LEMMA FailedDead ==
  ASSUME SnapInv, XactInv, VersionsInv, NEW v \in DOMAIN row,
         NEW x \in {row[v].xmin, row[v].xmax}, Failed(x)
  PROVE  Dead(x)
<1>1. CASE LogStatus(x) = "abort"
  BY <1>1, Zenon DEF Dead
<1>2. CASE LogStatus(x) = "inprogress" /\ (x < checkpoint \/ ~TransactionIdIsInProgress(x))
  <2>1. x # 0
    BY <1>2, Zenon DEF LogStatus, Invalid
  <2> QED
    BY <1>2, <2>1, NotRunning, Zenon DEF Dead
<1> QED
  BY <1>1, <1>2, Zenon DEF Failed

LEMMA DeadNotCommitted ==
  ASSUME NEW x, Dead(x)
  PROVE  ~TransactionIdDidCommit(x)
BY Zenon DEF Dead, TransactionIdDidCommit

\* HintFor and the crash test tell the truth.
LEMMA HintForTrue ==
  ASSUME NEW x, x # 0
  PROVE  TrueHint(x, HintFor(x)) /\ HintFor(x) \in Hints
BY Zenon DEF TrueHint, HintFor, Dead, LogStatus, Hints, Invalid

\* One hint is set.
LEMMA SetHintRehints ==
  ASSUME SnapInv, XactInv, VersionsInv, NEW v \in DOMAIN row, NEW f \in {"xmin", "xmax"},
         NEW h \in Hints, row' = SetHint(v, f, h), TrueHint(row[v][f], h)
  PROVE  Rehinted
<1>1. row \in Seq(Versions) /\ row[v] \in Versions /\ v \in 1 .. Len(row) /\ Len(row) \in Nat
  BY DEF VersionsInv
<1>2. CASE f = "xmin"
  <2>1. row' = [row EXCEPT ![v] = [row[v] EXCEPT !.hmin = h]]
    BY <1>2, Zenon DEF SetHint
  <2>2. [row[v] EXCEPT !.hmin = h] \in Versions
    BY <1>1, Zenon DEF Versions
  <2>3. row' \in Seq(Versions) /\ DOMAIN row' = DOMAIN row
    BY <1>1, <2>1, <2>2
  <2>4. TrueHint(row[v].xmin, h)
    BY <1>2, Zenon
  <2>5. \A w \in DOMAIN row : w # v => row'[w] = row[w]
    BY <1>1, <2>1, Zenon
  <2>6. /\ row'[v].xmin = row[v].xmin /\ row'[v].xmax = row[v].xmax /\ row'[v].prev = row[v].prev
        /\ row'[v].hmin = h /\ row'[v].hmax = row[v].hmax
    BY <1>1, <2>1, Zenon DEF Versions
  <2> QED
    BY <2>3, <2>4, <2>5, <2>6, Zenon DEF Rehinted
<1>3. CASE f = "xmax"
  <2>1. row' = [row EXCEPT ![v] = [row[v] EXCEPT !.hmax = h]]
    BY <1>3, Zenon DEF SetHint
  <2>2. [row[v] EXCEPT !.hmax = h] \in Versions
    BY <1>1, Zenon DEF Versions
  <2>3. row' \in Seq(Versions) /\ DOMAIN row' = DOMAIN row
    BY <1>1, <2>1, <2>2
  <2>4. TrueHint(row[v].xmax, h)
    BY <1>3, Zenon
  <2>5. \A w \in DOMAIN row : w # v => row'[w] = row[w]
    BY <1>1, <2>1, Zenon
  <2>6. /\ row'[v].xmin = row[v].xmin /\ row'[v].xmax = row[v].xmax /\ row'[v].prev = row[v].prev
        /\ row'[v].hmax = h /\ row'[v].hmin = row[v].hmin
    BY <1>1, <2>1, Zenon DEF Versions
  <2> QED
    BY <2>3, <2>4, <2>5, <2>6, Zenon DEF Rehinted
<1> QED
  BY <1>2, <1>3, Zenon

LEMMA SameRehints ==
  ASSUME VersionsInv, row' = row
  PROVE  Rehinted
BY Zenon DEF VersionsInv, Rehinted

\* The hints that a vacuum leaves behind.
LEMMA ScanRehints ==
  ASSUME SnapInv, XactInv, VersionsInv,
         row' = [v \in DOMAIN row |-> IF v \in Present THEN Hinted(row[v]) ELSE row[v]]
  PROVE  Rehinted
<1> DEFINE hint(x) == IF Failed(x) THEN "invalid" ELSE HintFor(x)
<1>1. ASSUME NEW v \in DOMAIN row, NEW x \in {row[v].xmin, row[v].xmax}
      PROVE  hint(x) \in Hints /\ TrueHint(x, hint(x))
  <2>1. CASE Failed(x)
    BY <1>1, <2>1, FailedDead, Zenon DEF TrueHint, Hints
  <2>2. CASE ~Failed(x)
    <3>1. x # 0
      BY <2>2, Zenon DEF Failed, LogStatus, Invalid
    <3> QED
      BY <2>2, <3>1, HintForTrue, Zenon
  <2> QED
    BY <2>1, <2>2, Zenon
<1>2. ASSUME NEW v \in DOMAIN row
      PROVE  \E a \in Hints, b \in Hints :
               /\ row'[v] = [row[v] EXCEPT !.hmin = a, !.hmax = b]
               /\ a = row[v].hmin \/ TrueHint(row[v].xmin, a)
               /\ b = row[v].hmax \/ TrueHint(row[v].xmax, b)
  <2>1. row[v] \in Versions /\ row[v].hmin \in Hints /\ row[v].hmax \in Hints
    BY VersionTypes, Zenon
  <2>2. CASE v \in Present
    <3>1. row'[v] = [row[v] EXCEPT
                       !.hmin = IF row[v].hmin = "none" THEN hint(row[v].xmin) ELSE row[v].hmin,
                       !.hmax = IF row[v].hmax = "none" /\ TransactionIdDidCommit(row[v].xmin)
                                THEN hint(row[v].xmax) ELSE row[v].hmax]
      BY <2>1, <2>2, Zenon DEF Hinted, Versions
    <3>2. /\ hint(row[v].xmin) \in Hints /\ TrueHint(row[v].xmin, hint(row[v].xmin))
          /\ hint(row[v].xmax) \in Hints /\ TrueHint(row[v].xmax, hint(row[v].xmax))
      BY <1>1, Zenon
    <3> HIDE DEF hint
    <3> QED
      BY <2>1, <3>1, <3>2, Zenon
  <2>3. CASE v \notin Present
    <3>1. row'[v] = [row[v] EXCEPT !.hmin = row[v].hmin, !.hmax = row[v].hmax]
      BY <2>1, <2>3, Zenon DEF Versions
    <3> QED
      BY <2>1, <3>1, Zenon
  <2> QED
    BY <2>2, <2>3, Zenon
<1>3. DOMAIN row' = DOMAIN row /\ DOMAIN row = 1 .. Len(row) /\ Len(row) \in Nat
  BY DEF VersionsInv
<1>4. ASSUME NEW v \in DOMAIN row
      PROVE  /\ row'[v] \in Versions
             /\ row'[v].xmin = row[v].xmin /\ row'[v].xmax = row[v].xmax /\ row'[v].prev = row[v].prev
             /\ row'[v].hmin = row[v].hmin \/ TrueHint(row[v].xmin, row'[v].hmin)
             /\ row'[v].hmax = row[v].hmax \/ TrueHint(row[v].xmax, row'[v].hmax)
  <2>1. PICK a \in Hints, b \in Hints :
               /\ row'[v] = [row[v] EXCEPT !.hmin = a, !.hmax = b]
               /\ a = row[v].hmin \/ TrueHint(row[v].xmin, a)
               /\ b = row[v].hmax \/ TrueHint(row[v].xmax, b)
    BY <1>2, Zenon
  <2>2. row[v] \in Versions
    BY VersionTypes, Zenon
  <2>3. /\ row'[v] \in Versions /\ row'[v].hmin = a /\ row'[v].hmax = b
        /\ row'[v].xmin = row[v].xmin /\ row'[v].xmax = row[v].xmax /\ row'[v].prev = row[v].prev
    BY <2>1, <2>2, Zenon DEF Versions
  <2> QED
    BY <2>1, <2>3, Zenon
<1>5. row' \in Seq(Versions)
  <2>1. row' \in [1 .. Len(row) -> Versions]
    BY <1>3, <1>4, Zenon
  <2> QED
    BY <1>3, <2>1, SeqDef
<1> QED
  BY <1>3, <1>4, <1>5, Zenon DEF Rehinted

\* heap_update on a version whose deleter will never commit.
LEMMA UpdateKeeps ==
  ASSUME SnapInv, XactInv, VersionsInv, Forward, Narrows, UNCHANGED <<nextXid, xid, status, gone, dead>>,
         NEW t \in Threads, t \in Writers, Open(t),
         NEW p \in DOMAIN row, Dead(row[p].xmax), heap_update(t, p)
  PROVE  VersionsInv'
<1> PICK x : x = xid[t]
  BY Zenon
<1> DEFINE old == [row[p] EXCEPT !.xmax = x, !.hmax = "none"]
<1>1. /\ row \in Seq(Versions) /\ Len(row) \in Nat /\ DOMAIN row = 1 .. Len(row)
      /\ p \in 1 .. Len(row) /\ row[p] \in Versions
  BY DEF VersionsInv
<1> PICK n \in Nat : n = Len(row) + 1
  BY <1>1
<1>2. x \in Xids /\ x \in Nat /\ x # 0 /\ x < nextXid /\ Crashed < x
  BY XidFacts, Zenon DEF Open, XactInv, XactOf
<1>3. old \in Versions /\ Version(x, p) \in Versions
  <2>1. x \in 0 .. MaxXid /\ 0 \in 0 .. MaxXid /\ p \in Nat
    BY <1>1, <1>2, SnapshotAssumption DEF Xids
  <2> QED
    BY <1>1, <1>2, <2>1, Zenon DEF Versions, Version, Hints, Invalid
<1>4. row' = Append([row EXCEPT ![p] = old], Version(x, p))
  <2>1. [row EXCEPT ![p].xmax = x, ![p].hmax = "none"] = [row EXCEPT ![p] = old]
    BY <1>1, Zenon DEF Versions
  <2> QED
    BY <2>1, Zenon DEF heap_update
<1> HIDE DEF old
<1>5. /\ row' \in Seq(Versions) /\ DOMAIN row' = 1 .. n
      /\ row'[p] = old /\ row'[n] = Version(x, p)
      /\ \A v \in DOMAIN row : v # p => row'[v] = row[v]
  <2>1. [row EXCEPT ![p] = old] \in Seq(Versions) /\ Len([row EXCEPT ![p] = old]) = Len(row)
    BY <1>1, <1>3
  <2>2. row' \in Seq(Versions) /\ Len(row') = n
    BY <1>3, <1>4, <2>1
  <2>3. /\ \A v \in 1 .. Len(row) : row'[v] = [row EXCEPT ![p] = old][v]
        /\ row'[n] = Version(x, p)
    BY <1>1, <1>3, <1>4, <2>1
  <2> QED
    BY <1>1, <2>2, <2>3
<1>6. /\ row'[p].xmin = row[p].xmin /\ row'[p].xmax = x /\ row'[p].prev = row[p].prev
      /\ row'[p].hmin = row[p].hmin /\ row'[p].hmax = "none"
      /\ row'[n].xmin = x /\ row'[n].xmax = 0 /\ row'[n].prev = p
      /\ row'[n].hmin = "none" /\ row'[n].hmax = "none"
  BY <1>1, <1>5 DEF old, Version, Versions, Invalid
<1>7. /\ n \notin DOMAIN row /\ p \in DOMAIN row' /\ n \in DOMAIN row' /\ n # p
      /\ DOMAIN row \subseteq DOMAIN row'
      /\ \A v \in DOMAIN row' : v \in DOMAIN row \/ v = n
      /\ p < n /\ p # 0 /\ n \in Nat /\ p \in Nat
  BY <1>1, <1>5
<1>8. changed'[t] /\ t \notin Sweepers /\ \A u \in Threads : changed[u] => changed'[u]
  BY SnapshotAssumption, Zenon DEF heap_update, XactInv
<1>9. \A y : (Dead(y) => Dead(y)') /\ (\A h : TrueHint(y, h) => TrueHint(y, h)')
  BY Zenon DEF Dead, TrueHint, LogStatus
<1>10. ASSUME NEW v \in DOMAIN row
       PROVE  /\ row'[v].xmin = row[v].xmin /\ row'[v].prev = row[v].prev /\ row'[v].hmin = row[v].hmin
              /\ v # p => row'[v].xmax = row[v].xmax /\ row'[v].hmax = row[v].hmax
  BY <1>5, <1>6, Zenon
<1>11. ASSUME NEW v \in DOMAIN row PROVE VersionOf(v)'
  <2>0. VersionOf(v)
    BY Zenon DEF VersionsInv
  <2>1. /\ v \in Nat /\ row[v].xmin \in Nat /\ row[v].xmax \in Nat /\ row[v].prev \in Nat
    BY VersionTypes, Zenon
  <2>2. row'[v].xmin < nextXid' /\ row'[v].xmax < nextXid' /\ row'[v].prev < v
    BY <1>2, <1>6, <1>10, <2>0 DEF VersionOf
  <2>3. ASSUME NEW u \in Threads, xid[u] # 0, xid[u] \in {row'[v].xmin, row'[v].xmax}
        PROVE  changed'[u] /\ u \notin Sweepers
    <3>1. CASE xid[u] \in {row[v].xmin, row[v].xmax}
      BY <1>8, <2>0, <2>3, <3>1, Zenon DEF VersionOf
    <3>2. CASE v = p /\ xid[u] = x
      <4>1. u = t
        BY <2>3, <3>2, Zenon DEF XactInv, XactOf
      <4> QED
        BY <1>8, <4>1, Zenon
    <3> QED
      BY <1>6, <1>10, <2>3, <3>1, <3>2, Zenon
  <2>4. \/ row'[v].xmax \in {Invalid, Crashed}
        \/ \E u \in DOMAIN row' : row'[u].prev = v /\ row'[u].xmin = row'[v].xmax
    <3>1. CASE v = p
      BY <1>6, <1>7, <3>1, Zenon
    <3>2. CASE v # p /\ row[v].xmax \notin {Invalid, Crashed}
      <4>1. PICK u \in DOMAIN row : row[u].prev = v /\ row[u].xmin = row[v].xmax
        BY <2>0, <3>2, Zenon DEF VersionOf
      <4> QED
        BY <1>7, <1>10, <3>2, <4>1
    <3> QED
      BY <1>10, <3>1, <3>2, Zenon
  <2>5. row[v].prev # 0 => Dead(row[v].xmin) \/ row'[row[v].prev].xmax = row[v].xmin
    <3> SUFFICES ASSUME row[v].prev # 0, row[row[v].prev].xmax = row[v].xmin
                 PROVE  Dead(row[v].xmin) \/ row'[row[v].prev].xmax = row[v].xmin
      BY <2>0, Zenon DEF VersionOf
    <3>1. row[v].prev \in DOMAIN row
      BY <1>1, <2>0, <2>1 DEF VersionOf
    <3>2. CASE row[v].prev = p
      BY <3>2, Zenon
    <3>3. CASE row[v].prev # p
      BY <1>10, <3>1, <3>3, Zenon
    <3> QED
      BY <3>2, <3>3, Zenon
  <2>6. row'[v].prev # 0 => Dead(row[v].xmin)' \/ row'[row'[v].prev].xmax = row'[v].xmin
    <3>1. Dead(row[v].xmin) => Dead(row[v].xmin)'
      BY <1>10, Zenon DEF Dead, LogStatus
    <3> QED
      BY <1>10, <2>5, <3>1, Zenon
  <2>7. TrueHint(row[v].xmin, row[v].hmin)' /\ TrueHint(row[v].xmax, row[v].hmax)'
    <3>1. TrueHint(row[v].xmin, row[v].hmin) /\ TrueHint(row[v].xmax, row[v].hmax)
      BY <2>0, Zenon DEF VersionOf
    <3>2. TrueHint(row[v].xmin, row[v].hmin)'
      BY <1>10, <3>1, Zenon DEF TrueHint, Dead, LogStatus
    <3>3. CASE v = p
      BY <1>6, <3>2, <3>3, ZenonT(30) DEF TrueHint
    <3>4. CASE v # p
      BY <1>10, <3>1, <3>2, <3>4, ZenonT(30) DEF TrueHint, Dead, LogStatus
    <3> QED
      BY <3>3, <3>4, Zenon
  <2> QED
    BY <2>2, <2>3, <2>4, <2>6, <2>7, Zenon DEF VersionOf
<1>12. VersionOf(n)'
  <2>1. TrueHint(row[n].xmin, row[n].hmin)' /\ TrueHint(row[n].xmax, row[n].hmax)'
    BY <1>6, Zenon DEF TrueHint
  <2>2. \A u \in Threads : xid[u] # 0 /\ xid[u] \in {x, 0} => u = t
    BY <1>2, Zenon DEF XactInv, XactOf
  <2>3. 0 < nextXid
    BY Zenon DEF SnapInv, ScanTypes
  <2> QED
    BY <1>2, <1>6, <1>7, <1>8, <2>1, <2>2, <2>3, Zenon DEF VersionOf, Invalid
<1>13. ASSUME NEW v \in DOMAIN row, Removable(v) PROVE Removable(v)'
  <2>1. CASE Dead(row[v].xmin)
    <3>1. Dead(row[v].xmin)'
      BY <1>10, <2>1, Zenon DEF Dead, LogStatus
    <3> QED
      BY <3>1, Zenon DEF Removable
  <2>2. CASE Settled(row[v].xmax)
    <3>1. v # p
      BY <2>2, DeadNotCommitted, Zenon DEF Settled
    <3>2. PICK b \in Nat : b = row[v].xmax
      BY VersionTypes, Zenon
    <3>3. b < nextXid
      BY <3>2, Zenon DEF VersionsInv, VersionOf
    <3>4. Settled(b)'
      BY <2>2, <3>2, <3>3, Final, Zenon
    <3>5. Settled(row[v].xmax)'
      BY <1>10, <3>1, <3>2, <3>4, Zenon DEF Settled, TransactionIdDidCommit, LogStatus
    <3> QED
      BY <3>5, Zenon DEF Removable
  <2> QED
    BY <1>13, <2>1, <2>2, Zenon DEF Removable
<1>14. \A v \in DOMAIN row' : VersionOf(v)'
  BY <1>7, <1>11, <1>12, Zenon
<1>15. /\ gone' \in SUBSET DOMAIN row' /\ \A v \in gone' : Removable(v)'
       /\ dead' \in [Threads -> SUBSET DOMAIN row']
       /\ \A u \in Threads : \A v \in dead'[u] : Removable(v)'
  BY <1>7, <1>13, Zenon DEF VersionsInv
<1> QED
  BY <1>5, <1>14, <1>15, Zenon DEF VersionsInv

LEMMA RowInitial == Init => RowInv
<1> SUFFICES ASSUME Init PROVE RowInv
  BY Zenon
<1>1. /\ gone = {} /\ dead = [t \in Threads |-> {}] /\ page = 0 /\ nextXid = 3
      /\ pc = [t \in Threads |-> "idle"] /\ xid = [t \in Threads |-> 0]
      /\ op = [t \in Threads |-> NoOp] /\ reap = [t \in Threads |-> 0]
      /\ status = [x \in Xids |-> IF x = 1 THEN "commit" ELSE "inprogress"]
  BY Zenon DEF Init, Invalid
<1>x. 1 \in Xids /\ 2 \in 0 .. MaxXid /\ status[1] = "commit"
  BY <1>1, SnapshotAssumption DEF Xids
<1>r. PICK r : r = [Version(1, 0) EXCEPT !.xmax = Crashed, !.hmin = "commit"]
  BY Zenon
<1>2. row = <<r>> /\ r \in Versions /\ row \in Seq(Versions) /\ DOMAIN row = {1} /\ row[1] = r
  <2>1. Version(1, 0) \in Versions
    BY <1>x, SnapshotAssumption DEF Version, Versions, Hints, Invalid
  <2>2. r \in Versions
    BY <1>r, <1>x, <2>1, Zenon DEF Versions, Hints, Crashed
  <2>3. row = <<r>>
    BY <1>r, Zenon DEF Init
  <2> QED
    BY <2>2, <2>3
<1>3. VersionOf(1)
  <2>1. r.xmin = 1 /\ r.xmax = 2 /\ r.hmin = "commit" /\ r.hmax = "none" /\ r.prev = 0
    BY <1>r, Zenon DEF Version, Crashed
  <2> QED
    BY <1>1, <1>2, <1>x, <2>1 DEF VersionOf, TrueHint, Crashed
<1>4. VersionsInv
  BY <1>1, <1>2, <1>3, Zenon DEF VersionsInv
<1>5. OpsInv
  <2>1. op \in [Threads -> Ops]
    BY <1>1, Zenon DEF Ops, NoOp
  <2>2. \A t \in Threads : t # 0
    BY SnapshotAssumption DEF Threads
  <2> QED
    BY <1>1, <2>1, <2>2, Zenon DEF OpsInv, OpOf
<1> QED
  BY <1>4, <1>5, Zenon DEF RowInv

\* The id in doubt is one of the two of its version.
LEMMA ExamineeField ==
  ASSUME OpsInv, NEW t \in Threads
  PROVE  Examinee(t) \in {row[op[t].v].xmin, row[op[t].v].xmax} /\ op[t] \in Ops
         /\ (op[t].f = "xmax" => Examinee(t) = row[op[t].v].xmax)
<1>1. op[t] \in Ops /\ op[t].f \in {"xmin", "xmax"}
  BY Zenon DEF OpsInv, Ops
<1> QED
  BY <1>1, Zenon DEF Examinee

\* A thread that a step leaves alone.
LEMMA OpOther ==
  ASSUME SnapInv, XactInv, RowInv, Forward, NEW u \in Threads,
         op'[u] = op[u], reap'[u] = reap[u], page' = u <=> page = u,
         \/ pc'[u] = pc[u]
         \/ /\ pc[u] \notin {"update", "doubt", "retest", "wait", "vacuum"}
            /\ pc'[u] \notin {"update", "doubt", "retest", "wait", "vacuum"},
         DOMAIN row \subseteq DOMAIN row',
         page = u => \A v \in DOMAIN row : row'[v].xmin = row[v].xmin /\ row'[v].xmax = row[v].xmax
  PROVE  OpOf(u)'
<1>1. OpOf(u)
  BY Zenon DEF RowInv, OpsInv
<1>2. CASE pc'[u] # pc[u]
  BY <1>1, <1>2, Zenon DEF OpOf
<1>3. CASE pc'[u] = pc[u]
  <2>1. pc[u] \in {"doubt", "retest"} =>
          /\ Examinee(u)' = Examinee(u) /\ Examinee(u) \in Nat /\ Examinee(u) < nextXid
    <3> SUFFICES ASSUME pc[u] \in {"doubt", "retest"}
                 PROVE  /\ Examinee(u)' = Examinee(u) /\ Examinee(u) \in Nat /\ Examinee(u) < nextXid
      BY Zenon
    <3>1. page = u /\ op[u].v \in DOMAIN row
      BY <1>1, Zenon DEF OpOf
    <3>2. op[u].f \in {"xmin", "xmax"}
      BY Zenon DEF RowInv, OpsInv, Ops
    <3>3. Examinee(u)' = Examinee(u)
      BY <3>1, <3>2, Zenon DEF Examinee
    <3>4. Examinee(u) \in {row[op[u].v].xmin, row[op[u].v].xmax}
      BY ExamineeField, Zenon DEF RowInv
    <3>5. /\ row[op[u].v].xmin \in Nat /\ row[op[u].v].xmax \in Nat
          /\ row[op[u].v].xmin < nextXid /\ row[op[u].v].xmax < nextXid
      BY <3>1, VersionTypes, Zenon DEF RowInv, VersionsInv, VersionOf
    <3> QED
      BY <3>3, <3>4, <3>5, Zenon
  <2>2. pc[u] = "retest" => \A w \in Threads : xid'[w] # Examinee(u)
    <3>1. nextXid \in Nat
      BY Zenon DEF SnapInv, ScanTypes
    <3>2. pc[u] = "retest" => Examinee(u) # 0 /\ \A w \in Threads : xid[w] # Examinee(u)
      BY <1>1, Zenon DEF OpOf, Invalid
    <3> QED
      BY <2>1, <3>1, <3>2 DEF Forward
  <2> QED
    BY <1>1, <1>3, <2>1, <2>2, Zenon DEF OpOf
<1> QED
  BY <1>2, <1>3, Zenon

\* The other threads, when t works on the row.
LEMMA OpsKept ==
  ASSUME SnapInv, XactInv, RowInv, Forward, NEW t \in Threads,
         \A u \in Threads \ {t} : pc'[u] = pc[u] /\ op'[u] = op[u] /\ reap'[u] = reap[u],
         op' \in [Threads -> Ops], DOMAIN row \subseteq DOMAIN row',
         \/ page \in {0, t} /\ page' \in {0, t}
         \/ page' = page /\ Rehinted,
         OpOf(t)'
  PROVE  OpsInv'
<1>1. ASSUME NEW u \in Threads, u # t PROVE OpOf(u)'
  <2>1. u # 0
    BY SnapshotAssumption DEF Threads
  <2>2. /\ page' = u <=> page = u
        /\ page = u => \A v \in DOMAIN row : row'[v].xmin = row[v].xmin /\ row'[v].xmax = row[v].xmax
    BY <1>1, <2>1, Zenon DEF Rehinted
  <2> QED
    BY <1>1, <2>2, OpOther, Zenon
<1> QED
  BY <1>1, Zenon DEF OpsInv

\* ExecReplace chooses a version.
LEMMA ReplaceKeeps ==
  ASSUME SnapInv, XactInv, RowInv, Forward, Narrows, NEW t \in Threads, NEW v \in Present, ExecReplace(t, v)
  PROVE  RowInv'
<1>1. /\ pc[t] = "active" /\ t \in Writers /\ pc' = [pc EXCEPT ![t] = "update"]
      /\ op' = [op EXCEPT ![t] = [v |-> v, f |-> "xmax", update |-> TRUE]]
      /\ UNCHANGED <<xid, changed, reap, dead, row, page, gone>>
  BY Zenon DEF ExecReplace, Goto, xactVars, heapVars
<1>2. pc \in [Threads -> Places] /\ op \in [Threads -> Ops] /\ OpOf(t) /\ v \in DOMAIN row /\ v \in Nat
  BY VersionTypes, Zenon DEF SnapInv, ScanTypes, RowInv, OpsInv, Present
<1>3. Rehinted
  BY <1>1, SameRehints, Zenon DEF RowInv
<1>4. VersionsInv'
  BY <1>1, <1>3, VersionsKept, Zenon DEF RowInv, VersionsInv
<1>5. /\ pc'[t] = "update" /\ op'[t].v = v /\ op'[t].f = "xmax" /\ op'[t].update
      /\ op' \in [Threads -> Ops]
      /\ \A u \in Threads \ {t} : pc'[u] = pc[u] /\ op'[u] = op[u]
  BY <1>1, <1>2, Zenon DEF Ops
<1>6. OpOf(t)'
  BY <1>1, <1>2, <1>5, Zenon DEF OpOf
<1>7. OpsInv'
  BY <1>1, <1>3, <1>5, <1>6, OpsKept, Zenon
<1> QED
  BY <1>4, <1>7, Zenon DEF RowInv

\* A reader sets a hint, or holds the page for the crash test.
LEMMA ReadKeeps ==
  ASSUME SnapInv, XactInv, RowInv, Forward, Narrows, NEW t \in Threads, NEW v \in Present,
         NEW f \in {"xmin", "xmax"}, Read(t, v, f)
  PROVE  RowInv'
<1>1. /\ pc[t] = "active" /\ page = 0 /\ row[v][f] # 0
      /\ UNCHANGED <<xid, changed, reap, dead, gone>>
  BY Zenon DEF Read, Examined, xactVars, Invalid
<1>2. pc \in [Threads -> Places] /\ op \in [Threads -> Ops] /\ OpOf(t) /\ v \in DOMAIN row /\ v \in Nat
  BY VersionTypes, Zenon DEF SnapInv, ScanTypes, RowInv, OpsInv, Present
<1>3. CASE status[row[v][f]] = "inprogress"
  <2>1. /\ pc' = [pc EXCEPT ![t] = "doubt"] /\ page' = t /\ row' = row
        /\ op' = [op EXCEPT ![t] = [v |-> v, f |-> f, update |-> FALSE]]
    BY <1>3, Zenon DEF Read, Goto
  <2>2. Rehinted
    BY <2>1, SameRehints, Zenon DEF RowInv
  <2>3. VersionsInv'
    BY <1>1, <2>2, VersionsKept, Zenon DEF RowInv, VersionsInv
  <2>4. /\ pc'[t] = "doubt" /\ op'[t] = [v |-> v, f |-> f, update |-> FALSE] /\ op' \in [Threads -> Ops]
        /\ \A u \in Threads \ {t} : pc'[u] = pc[u] /\ op'[u] = op[u]
    BY <1>2, <2>1, Zenon DEF Ops
  <2>5. Examinee(t)' # Invalid
    BY <1>1, <2>1, <2>4, Zenon DEF Examinee, Invalid
  <2>6. OpOf(t)'
    BY <1>1, <1>2, <2>1, <2>4, <2>5, Zenon DEF OpOf
  <2>7. OpsInv'
    BY <1>1, <2>1, <2>4, <2>6, OpsKept, Zenon
  <2> QED
    BY <2>3, <2>7, Zenon DEF RowInv
<1>4. CASE status[row[v][f]] # "inprogress"
  <2>1. row' = SetHint(v, f, HintFor(row[v][f])) /\ UNCHANGED <<pc, op, page>>
    BY <1>4, Zenon DEF Read
  <2>2. Rehinted
    BY <1>1, <1>2, <2>1, HintForTrue, SetHintRehints, Zenon DEF RowInv
  <2>3. VersionsInv'
    BY <1>1, <2>2, VersionsKept, Zenon DEF RowInv, VersionsInv
  <2>4. OpOf(t)'
    BY <1>1, <2>1, <2>2, OpOther, Zenon DEF Rehinted
  <2>5. OpsInv'
    BY <1>1, <1>2, <2>1, <2>2, <2>4, OpsKept, Zenon DEF Rehinted
  <2> QED
    BY <2>3, <2>5, Zenon DEF RowInv
<1> QED
  BY <1>3, <1>4, Zenon

\* An update, of a version whose deleter will never commit, with the page locked.
LEMMA HeapUpdateKeeps ==
  ASSUME SnapInv, XactInv, RowInv, Forward, Narrows, NEW t \in Threads,
         pc[t] \in {"update", "retest"}, op[t].update, page \in {0, t}, page' = 0,
         Dead(row[op[t].v].xmax), heap_update(t, op[t].v),
         UNCHANGED <<nextXid, xid, status, reap, dead, gone>>
  PROVE  RowInv'
<1>1. /\ pc \in [Threads -> Places] /\ op \in [Threads -> Ops] /\ OpOf(t)
      /\ op[t].v \in DOMAIN row /\ t \in Writers /\ Open(t) /\ row \in Seq(Versions)
  BY Zenon DEF SnapInv, ScanTypes, RowInv, OpsInv, OpOf, Open, VersionsInv
<1>2. VersionsInv'
  BY <1>1, UpdateKeeps, Zenon DEF RowInv
<1>3. pc' = [pc EXCEPT ![t] = "active"] /\ op' = [op EXCEPT ![t] = NoOp]
  BY Zenon DEF heap_update, Goto
<1>4. /\ pc'[t] = "active" /\ op' \in [Threads -> Ops]
      /\ \A u \in Threads \ {t} : pc'[u] = pc[u] /\ op'[u] = op[u]
  BY <1>1, <1>3, Zenon DEF Ops, NoOp
<1>5. DOMAIN row \subseteq DOMAIN row'
  <2>1. PICK w : w = [row EXCEPT ![op[t].v].xmax = xid[t], ![op[t].v].hmax = "none"]
    BY Zenon
  <2>2. DOMAIN w = 1 .. Len(row) /\ Len(row) \in Nat /\ Len(row') = Len(row) + 1 /\ row' \in Seq(Versions)
    <3>1. row' = Append(w, Version(xid[t], op[t].v))
      BY <2>1, Zenon DEF heap_update
    <3>2. DOMAIN w = 1 .. Len(row) /\ Len(row) \in Nat
      BY <1>1, <2>1
    <3>3. Len(w) = Len(row)
      BY <3>2
    <3> QED
      BY <1>2, <3>1, <3>2, <3>3 DEF VersionsInv
  <2> QED
    BY <1>1, <2>2
<1>6. t # 0
  BY SnapshotAssumption DEF Threads
<1>7. OpOf(t)'
  BY <1>1, <1>4, <1>6, Zenon DEF OpOf
<1>8. OpsInv'
  BY <1>4, <1>5, <1>7, OpsKept, Zenon
<1> QED
  BY <1>2, <1>8, Zenon DEF RowInv

LEMMA MayBeKeeps ==
  ASSUME SnapInv, XactInv, RowInv, Forward, Narrows, NEW t \in Threads, MayBeUpdated(t)
  PROVE  RowInv'
<1>1. /\ pc[t] = "update" /\ page = 0 /\ page' = 0 /\ heap_update(t, op[t].v)
      /\ row[op[t].v].hmax = "invalid" \/ LogStatus(row[op[t].v].xmax) = "abort"
      /\ UNCHANGED <<nextXid, xid, status, reap, dead, gone>>
  BY Zenon DEF MayBeUpdated, logVars
<1>2. op[t].update /\ op[t].v \in DOMAIN row
  BY <1>1, Zenon DEF RowInv, OpsInv, OpOf
<1>3. Dead(row[op[t].v].xmax)
  BY <1>1, <1>2, Zenon DEF RowInv, VersionsInv, VersionOf, TrueHint, Dead
<1> QED
  BY <1>1, <1>2, <1>3, HeapUpdateKeeps, Zenon

\* An updater follows, or gives up before, a committed update.
LEMMA UpdatedKeeps ==
  ASSUME SnapInv, XactInv, RowInv, Forward, Narrows, NEW t \in Threads, Updated(t)
  PROVE  RowInv'
<1> PICK v : v = op[t].v
  BY Zenon
<1>1. /\ pc[t] = "update" /\ page = 0 /\ page' = 0 /\ TransactionIdDidCommit(row[v].xmax)
      /\ row' = SetHint(v, "xmax", HintFor(row[v].xmax))
      /\ \/ pc' = [pc EXCEPT ![t] = "abort"] /\ op' = [op EXCEPT ![t] = NoOp]
         \/ pc' = pc /\ op' = [op EXCEPT ![t].v = Successor(v)]
      /\ UNCHANGED <<xid, changed, reap, dead, gone>>
  BY Zenon DEF Updated, Goto, xactVars
<1>2. /\ pc \in [Threads -> Places] /\ op \in [Threads -> Ops] /\ OpOf(t) /\ v \in DOMAIN row
      /\ op[t].update /\ op[t].f = "xmax" /\ t \in Writers
  BY <1>1, Zenon DEF SnapInv, ScanTypes, RowInv, OpsInv, OpOf
<1>3. row[v].xmax # 0 /\ row[v].xmax # Crashed
  <2>1. status[Crashed] = "inprogress"
    BY XidFacts, Zenon DEF XactInv
  <2> QED
    BY <1>1, <2>1, Zenon DEF TransactionIdDidCommit, LogStatus, Invalid, Crashed
<1>4. Rehinted
  <2>1. TrueHint(row[v].xmax, HintFor(row[v].xmax)) /\ HintFor(row[v].xmax) \in Hints
    BY <1>3, HintForTrue, Zenon
  <2> QED
    BY <1>1, <1>2, <2>1, SetHintRehints, Zenon DEF RowInv
<1>5. VersionsInv'
  BY <1>1, <1>4, VersionsKept, Zenon DEF RowInv, VersionsInv
<1>6. Successor(v) \in DOMAIN row /\ Successor(v) \in Nat
  <2>1. \E u \in DOMAIN row : row[u].prev = v /\ row[u].xmin = row[v].xmax
    BY <1>2, <1>3, Zenon DEF RowInv, VersionsInv, VersionOf, Invalid
  <2>2. Successor(v) \in DOMAIN row
    BY <2>1, Zenon DEF Successor
  <2> QED
    BY <2>2, VersionTypes, Zenon DEF RowInv
<1> HIDE DEF Successor
<1>7. CASE pc' = [pc EXCEPT ![t] = "abort"] /\ op' = [op EXCEPT ![t] = NoOp]
  <2>1. /\ pc'[t] = "abort" /\ op' \in [Threads -> Ops]
        /\ \A u \in Threads \ {t} : pc'[u] = pc[u] /\ op'[u] = op[u]
    BY <1>2, <1>7, Zenon DEF Ops, NoOp
  <2>2. OpOf(t)'
    BY <1>1, <1>2, <2>1, Zenon DEF OpOf
  <2> QED
    BY <1>1, <1>4, <1>5, <2>1, <2>2, OpsKept, Zenon DEF RowInv, Rehinted
<1>8. CASE pc' = pc /\ op' = [op EXCEPT ![t].v = Successor(v)]
  <2>1. /\ op'[t].v = Successor(v) /\ op'[t].update = op[t].update /\ op'[t].f = op[t].f
        /\ op' \in [Threads -> Ops] /\ \A u \in Threads \ {t} : op'[u] = op[u]
    BY <1>2, <1>6, <1>8, Zenon DEF Ops
  <2>2. DOMAIN row' = DOMAIN row
    BY <1>4, Zenon DEF Rehinted
  <2>3. OpOf(t)'
    BY <1>1, <1>2, <1>6, <1>8, <2>1, <2>2, Zenon DEF OpOf
  <2> QED
    BY <1>1, <1>4, <1>5, <1>8, <2>1, <2>2, <2>3, OpsKept, Zenon DEF RowInv
<1> QED
  BY <1>1, <1>7, <1>8, Zenon

\* The steps that leave the versions alone.
LEMMA SameRowKeeps ==
  ASSUME SnapInv, XactInv, RowInv, Forward, Narrows, NEW t \in Threads,
         UNCHANGED <<row, changed, dead, gone>>,
         \A u \in Threads \ {t} : pc'[u] = pc[u] /\ op'[u] = op[u] /\ reap'[u] = reap[u],
         op' \in [Threads -> Ops], page' = page \/ (page \in {0, t} /\ page' \in {0, t}), OpOf(t)'
  PROVE  RowInv'
<1>1. Rehinted
  BY SameRehints, Zenon DEF RowInv
<1>2. VersionsInv'
  BY <1>1, VersionsKept, Zenon DEF RowInv, VersionsInv
<1>3. OpsInv'
  BY <1>1, OpsKept, Zenon
<1> QED
  BY <1>2, <1>3, Zenon DEF RowInv

\* The updater of the version has no status yet: the page stays locked.
LEMMA BeingKeeps ==
  ASSUME SnapInv, XactInv, RowInv, Forward, Narrows, NEW t \in Threads, BeingUpdated(t)
  PROVE  RowInv'
<1>1. /\ pc[t] = "update" /\ page = 0 /\ page' = t /\ pc' = [pc EXCEPT ![t] = "doubt"]
      /\ LogStatus(row[op[t].v].xmax) = "inprogress"
      /\ UNCHANGED <<row, changed, dead, gone, op, reap>>
  BY Zenon DEF BeingUpdated, Goto, xactVars, workVars
<1>2. pc \in [Threads -> Places] /\ op \in [Threads -> Ops] /\ OpOf(t)
  BY Zenon DEF SnapInv, ScanTypes, RowInv, OpsInv
<1>3. pc'[t] = "doubt" /\ \A u \in Threads \ {t} : pc'[u] = pc[u]
  BY <1>1, <1>2, Zenon
<1>4. row[op[t].v].xmax # Invalid /\ op[t].f = "xmax"
  BY <1>1, <1>2, Zenon DEF LogStatus, OpOf
<1>5. Examinee(t)' # Invalid
  BY <1>1, <1>4, Zenon DEF Examinee
<1>6. OpOf(t)'
  BY <1>1, <1>2, <1>3, <1>5, Zenon DEF OpOf
<1> QED
  BY <1>1, <1>2, <1>3, <1>6, SameRowKeeps, Zenon

\* The transaction in doubt did not crash.
LEMMA NotCrashedKeeps ==
  ASSUME SnapInv, XactInv, RowInv, Forward, Narrows, NEW t \in Threads,
         pc[t] \in {"doubt", "retest"}, NotCrashed(t), UNCHANGED <<dead, gone, reap>>
  PROVE  RowInv'
<1>1. /\ page' = 0 /\ UNCHANGED <<row, changed>>
      /\ \/ op[t].update /\ pc' = [pc EXCEPT ![t] = "wait"] /\ op' = op
         \/ pc' = [pc EXCEPT ![t] = "active"] /\ op' = [op EXCEPT ![t] = NoOp]
  BY Zenon DEF NotCrashed, Goto
<1>2. pc \in [Threads -> Places] /\ op \in [Threads -> Ops] /\ OpOf(t) /\ page = t /\ t # 0
  BY SnapshotAssumption DEF SnapInv, ScanTypes, RowInv, OpsInv, OpOf, Threads
<1>3. CASE op[t].update /\ pc' = [pc EXCEPT ![t] = "wait"] /\ op' = op
  <2>1. pc'[t] = "wait" /\ \A u \in Threads \ {t} : pc'[u] = pc[u]
    BY <1>2, <1>3, Zenon
  <2>2. OpOf(t)'
    BY <1>1, <1>2, <1>3, <2>1, Zenon DEF OpOf
  <2> QED
    BY <1>1, <1>2, <1>3, <2>1, <2>2, SameRowKeeps, Zenon
<1>4. CASE pc' = [pc EXCEPT ![t] = "active"] /\ op' = [op EXCEPT ![t] = NoOp]
  <2>1. /\ pc'[t] = "active" /\ op' \in [Threads -> Ops]
        /\ \A u \in Threads \ {t} : pc'[u] = pc[u] /\ op'[u] = op[u]
    BY <1>2, <1>4, Zenon DEF Ops, NoOp
  <2>2. OpOf(t)'
    BY <1>1, <1>2, <2>1, Zenon DEF OpOf
  <2> QED
    BY <1>1, <1>2, <2>1, <2>2, SameRowKeeps, Zenon
<1> QED
  BY <1>1, <1>3, <1>4, Zenon

\* The crash test: a transaction below the checkpoint id or in no slot runs no more.
LEMMA DidCrashKeeps ==
  ASSUME SnapInv, XactInv, RowInv, Forward, Narrows, NEW t \in Threads, DidCrash(t)
  PROVE  RowInv'
<1>1. pc[t] = "doubt" /\ UNCHANGED <<dead, gone, reap, xid>>
  BY Zenon DEF DidCrash
<1>2. pc \in [Threads -> Places] /\ op \in [Threads -> Ops] /\ OpOf(t) /\ page = t
  BY <1>1, Zenon DEF SnapInv, ScanTypes, RowInv, OpsInv, OpOf
<1>3. CASE Examinee(t) < checkpoint \/ ~TransactionIdIsInProgress(Examinee(t))
  <2>1. pc' = [pc EXCEPT ![t] = "retest"] /\ UNCHANGED <<page, row, changed, op>>
    BY <1>3, Zenon DEF DidCrash, Goto
  <2>2. \A u \in Threads : xid[u] # Examinee(t)
    <3>1. op[t].v \in DOMAIN row /\ Examinee(t) # 0
      BY <1>1, <1>2, Zenon DEF OpOf, Invalid
    <3>2. Examinee(t) \in {row[op[t].v].xmin, row[op[t].v].xmax}
      BY ExamineeField, Zenon DEF RowInv
    <3> QED
      BY <1>3, <3>1, <3>2, NotRunning, Zenon DEF RowInv
  <2>3. pc'[t] = "retest" /\ \A u \in Threads \ {t} : pc'[u] = pc[u]
    BY <1>2, <2>1, Zenon
  <2>4. Examinee(t)' = Examinee(t)
    BY <2>1, Zenon DEF Examinee
  <2>5. OpOf(t)'
    BY <1>1, <1>2, <2>1, <2>2, <2>3, <2>4, Zenon DEF OpOf
  <2> QED
    BY <1>1, <1>2, <2>1, <2>3, <2>5, SameRowKeeps, Zenon
<1>4. CASE ~(Examinee(t) < checkpoint \/ ~TransactionIdIsInProgress(Examinee(t)))
  <2>1. NotCrashed(t)
    BY <1>4, Zenon DEF DidCrash
  <2> QED
    BY <1>1, <2>1, NotCrashedKeeps, Zenon
<1> QED
  BY <1>3, <1>4, Zenon

\* The second look at the log: what still has no status will never commit.
LEMMA RetestKeeps ==
  ASSUME SnapInv, XactInv, RowInv, Forward, Narrows, NEW t \in Threads, Retest(t)
  PROVE  RowInv'
<1>1. pc[t] = "retest" /\ UNCHANGED <<nextXid, xid, status, dead, gone, reap>>
  BY Zenon DEF Retest, logVars
<1>2. /\ pc \in [Threads -> Places] /\ op \in [Threads -> Ops] /\ OpOf(t) /\ page = t /\ t # 0
      /\ op[t].v \in DOMAIN row /\ op[t].v \in Nat /\ op[t].f \in {"xmin", "xmax"}
  BY <1>1, SnapshotAssumption DEF SnapInv, ScanTypes, RowInv, OpsInv, OpOf, Ops, Threads
<1>3. CASE status[Examinee(t)] # "inprogress"
  <2>1. NotCrashed(t)
    BY <1>3, Zenon DEF Retest
  <2> QED
    BY <1>1, <2>1, NotCrashedKeeps, Zenon
<1>4. CASE status[Examinee(t)] = "inprogress"
  <2>1. page' = 0
    BY <1>4, Zenon DEF Retest
  <2>2. Dead(Examinee(t))
    BY <1>1, <1>2, <1>4, Zenon DEF OpOf, Dead, LogStatus
  <2>3. CASE op[t].update
    <3>1. heap_update(t, op[t].v)
      BY <1>4, <2>3, Zenon DEF Retest
    <3>2. Examinee(t) = row[op[t].v].xmax
      BY <1>1, <1>2, <2>3, ExamineeField, Zenon DEF OpOf, RowInv
    <3>3. Dead(row[op[t].v].xmax)
      BY <2>2, <3>2, Zenon
    <3> QED
      BY <1>1, <1>2, <2>1, <2>3, <3>1, <3>3, HeapUpdateKeeps, Zenon
  <2>4. CASE ~op[t].update
    <3>1. /\ row' = SetHint(op[t].v, op[t].f, "invalid") /\ op' = [op EXCEPT ![t] = NoOp]
          /\ pc' = [pc EXCEPT ![t] = "active"] /\ changed' = changed
      BY <1>4, <2>4, Zenon DEF Retest, Goto
    <3>2. TrueHint(row[op[t].v][op[t].f], "invalid") /\ "invalid" \in Hints
      BY <2>2, Zenon DEF TrueHint, Hints, Examinee
    <3>3. Rehinted
      BY <1>2, <3>1, <3>2, SetHintRehints, Zenon DEF RowInv
    <3>4. VersionsInv'
      BY <1>1, <3>1, <3>3, VersionsKept, Zenon DEF RowInv, VersionsInv
    <3>5. /\ pc'[t] = "active" /\ op' \in [Threads -> Ops]
          /\ \A u \in Threads \ {t} : pc'[u] = pc[u] /\ op'[u] = op[u]
      BY <1>2, <3>1, Zenon DEF Ops, NoOp
    <3>6. OpOf(t)'
      BY <1>1, <1>2, <2>1, <3>5, Zenon DEF OpOf
    <3>7. DOMAIN row \subseteq DOMAIN row'
      BY <3>3, Zenon DEF Rehinted
    <3>8. OpsInv'
      BY <1>1, <1>2, <2>1, <3>5, <3>6, <3>7, OpsKept, Zenon
    <3> QED
      BY <3>4, <3>8, Zenon DEF RowInv
  <2> QED
    BY <2>3, <2>4, Zenon
<1> QED
  BY <1>3, <1>4, Zenon

\* The wait for another updater ends, or a vacuum reads its horizon.
LEMMA WaitKeeps ==
  ASSUME SnapInv, XactInv, RowInv, Forward, Narrows, NEW t \in Threads,
         XactLockTableWait(t) \/ GetCheckpointId(t)
  PROVE  RowInv'
<1>1. UNCHANGED <<row, page, changed, dead, gone, op>>
  BY Zenon DEF XactLockTableWait, GetCheckpointId, xactVars, heapVars
<1>3. pc \in [Threads -> Places] /\ op \in [Threads -> Ops] /\ OpOf(t)
  BY Zenon DEF SnapInv, ScanTypes, RowInv, OpsInv
<1>4. CASE XactLockTableWait(t)
  <2>1. pc[t] = "wait" /\ pc' = [pc EXCEPT ![t] = "update"] /\ reap' = reap
    BY <1>4, Zenon DEF XactLockTableWait, Goto
  <2>2. pc'[t] = "update" /\ \A u \in Threads \ {t} : pc'[u] = pc[u]
    BY <1>3, <2>1, Zenon
  <2>3. OpOf(t)'
    BY <1>1, <1>3, <2>1, <2>2, Zenon DEF OpOf
  <2> QED
    BY <1>1, <1>3, <2>1, <2>2, <2>3, SameRowKeeps, Zenon
<1>5. CASE GetCheckpointId(t)
  <2>1. pc[t] = "active" /\ t \in Sweepers /\ pc' = pc /\ reap' = [reap EXCEPT ![t] = checkpoint]
    BY <1>5, Zenon DEF GetCheckpointId
  <2>2. \A u \in Threads \ {t} : reap'[u] = reap[u]
    BY <2>1
  <2>3. OpOf(t)'
    BY <1>1, <1>3, <2>1, Zenon DEF OpOf
  <2> QED
    BY <1>1, <1>3, <2>1, <2>2, <2>3, SameRowKeeps, Zenon
<1> QED
  BY <1>4, <1>5, Zenon

\* What a vacuum takes for removable is: its inserter will never commit, or its
\* deleter committed below a horizon.
LEMMA VacuumFinds ==
  ASSUME SnapInv, XactInv, HorizonInv, RowInv, NEW t \in Threads, reap[t] # 0, NEW v \in DOMAIN row,
         HeapTupleSatisfiesVacuum(v, reap[t]) \in {"dead", "stillborn"}
  PROVE  Removable(v)
<1>1. VersionOf(v) /\ row[v].xmax \in Nat /\ row[v].xmin \in Nat
  BY VersionTypes, Zenon DEF RowInv, VersionsInv
<1>2. CASE row[v].hmin = "invalid" \/ Failed(row[v].xmin)
  <2>1. CASE row[v].hmin = "invalid"
    BY <1>1, <2>1, Zenon DEF VersionOf, TrueHint, Removable
  <2>2. CASE Failed(row[v].xmin)
    BY <2>2, FailedDead, Zenon DEF RowInv, Removable
  <2> QED
    BY <1>2, <2>1, <2>2, Zenon
<1>3. CASE ~(row[v].hmin = "invalid" \/ Failed(row[v].xmin))
  <2>1. TransactionIdDidCommit(row[v].xmax) /\ ~(row[v].xmax >= reap[t])
    BY <1>3, Zenon DEF HeapTupleSatisfiesVacuum
  <2>2. reap[t] \in Horizons /\ reap[t] \in Nat
    BY Zenon DEF HorizonInv
  <2>3. \A u \in Threads : row[v].xmax \notin Known(u) \ late
    BY <1>1, <2>1, <2>2, Zenon DEF Horizons
  <2> QED
    BY <2>1, <2>3, Zenon DEF Removable, Settled
<1> QED
  BY <1>2, <1>3, Zenon

LEMMA VacuumKeeps ==
  ASSUME SnapInv, XactInv, HorizonInv, RowInv, Forward, Narrows, NEW t \in Threads,
         lazy_scan_heap(t) \/ lazy_vacuum_heap(t)
  PROVE  RowInv'
<1>1. /\ pc \in [Threads -> Places] /\ op \in [Threads -> Ops] /\ OpOf(t)
      /\ reap \in [Threads -> Nat] /\ dead \in [Threads -> SUBSET DOMAIN row]
      /\ changed \in [Threads -> BOOLEAN]
  BY Zenon DEF SnapInv, ScanTypes, RowInv, OpsInv, HorizonInv, VersionsInv, XactInv
<1>2. CASE lazy_scan_heap(t)
  <2>1. /\ pc[t] = "active" /\ reap[t] # 0 /\ page = 0 /\ pc' = [pc EXCEPT ![t] = "vacuum"]
        /\ dead' = [dead EXCEPT ![t] =
             {v \in Present : HeapTupleSatisfiesVacuum(v, reap[t]) \in {"dead", "stillborn"}}]
        /\ row' = [v \in DOMAIN row |-> IF v \in Present THEN Hinted(row[v]) ELSE row[v]]
        /\ UNCHANGED <<xid, changed, op, reap, page, gone>>
    BY <1>2, Zenon DEF lazy_scan_heap, Goto, xactVars, Invalid
  <2>2. PICK D : D = {v \in Present : HeapTupleSatisfiesVacuum(v, reap[t]) \in {"dead", "stillborn"}}
    BY Zenon
  <2>3. D \in SUBSET DOMAIN row /\ \A v \in D : Removable(v)
    BY <2>1, <2>2, VacuumFinds, Zenon DEF Present
  <2>4. dead' = [dead EXCEPT ![t] = D]
    BY <2>1, <2>2, Zenon
  <2>5. dead' \in [Threads -> SUBSET DOMAIN row] /\ \A u \in Threads : \A v \in dead'[u] : Removable(v)
    BY <1>1, <2>3, <2>4, Zenon DEF RowInv, VersionsInv
  <2>6. Rehinted
    BY <2>1, ScanRehints, Zenon DEF RowInv
  <2>7. VersionsInv'
    BY <2>1, <2>5, <2>6, VersionsKept, Zenon DEF RowInv, VersionsInv
  <2>8. pc'[t] = "vacuum" /\ \A u \in Threads \ {t} : pc'[u] = pc[u]
    BY <1>1, <2>1, Zenon
  <2>9. OpOf(t)'
    BY <1>1, <2>1, <2>8, Zenon DEF OpOf
  <2>10. OpsInv'
    BY <1>1, <2>1, <2>6, <2>8, <2>9, OpsKept DEF Rehinted
  <2> QED
    BY <2>7, <2>10, Zenon DEF RowInv
<1>3. CASE lazy_vacuum_heap(t)
  <2>1. /\ pc[t] = "vacuum" /\ pc' = [pc EXCEPT ![t] = "swept"] /\ gone' = gone \cup dead[t]
        /\ dead' = [dead EXCEPT ![t] = {}] /\ changed' = [changed EXCEPT ![t] = dead[t] # {}]
        /\ reap' = [reap EXCEPT ![t] = 0] /\ UNCHANGED <<xid, op, row, page>>
    BY <1>3, Zenon DEF lazy_vacuum_heap, Goto, Invalid
  <2>2. t \in Sweepers
    BY <1>1, <2>1, Zenon DEF OpOf
  <2>3. gone' \in SUBSET DOMAIN row /\ \A v \in gone' : Removable(v)
    BY <2>1, Zenon DEF RowInv, VersionsInv
  <2>4. dead' \in [Threads -> SUBSET DOMAIN row] /\ \A u \in Threads : \A v \in dead'[u] : Removable(v)
    BY <1>1, <2>1, Zenon DEF RowInv, VersionsInv
  <2>5. \A u \in Threads : changed[u] /\ u \notin Sweepers => changed'[u]
    BY <1>1, <2>1, <2>2, Zenon
  <2>6. Rehinted
    BY <2>1, SameRehints, Zenon DEF RowInv
  <2>7. VersionsInv'
    BY <2>3, <2>4, <2>5, <2>6, VersionsKept, Zenon DEF RowInv
  <2>8. pc'[t] = "swept" /\ reap'[t] = 0 /\ \A u \in Threads \ {t} : pc'[u] = pc[u] /\ reap'[u] = reap[u]
    BY <1>1, <2>1, Zenon
  <2>9. OpOf(t)'
    BY <1>1, <2>1, <2>8, Zenon DEF OpOf
  <2>10. OpsInv'
    BY <1>1, <2>1, <2>6, <2>8, <2>9, OpsKept, Zenon
  <2> QED
    BY <2>7, <2>10, Zenon DEF RowInv
<1> QED
  BY <1>2, <1>3, Zenon

\* The steps that do not concern the row.
LEMMA RowIdle ==
  ASSUME SnapInv, XactInv, RowInv, Forward, Narrows, UNCHANGED <<row, op, page, gone, dead, reap>>,
         \A u \in Threads :
           \/ pc'[u] = pc[u]
           \/ /\ pc[u] \notin {"update", "doubt", "retest", "wait", "vacuum"}
              /\ pc'[u] \notin {"update", "doubt", "retest", "wait", "vacuum"},
         \A u \in Threads : xid'[u] # 0 /\ changed[u] => changed'[u]
  PROVE  RowInv'
<1>1. Rehinted
  BY SameRehints, Zenon DEF RowInv
<1>2. VersionsInv'
  BY <1>1, VersionsKept, Zenon DEF RowInv, VersionsInv
<1>3. \A u \in Threads : OpOf(u)'
  BY OpOther
<1> QED
  BY <1>2, <1>3, Zenon DEF RowInv, OpsInv

LEMMA RowStep ==
  ASSUME SnapInv, XactInv, HorizonInv, RowInv, [Next]_vars
  PROVE  RowInv'
<1>0. Forward /\ Narrows
  BY ForwardStep, NarrowsStep, Zenon
<1>t. /\ pc \in [Threads -> Places] /\ xid \in [Threads -> Nat] /\ changed \in [Threads -> BOOLEAN]
  BY Zenon DEF SnapInv, ScanTypes, XactInv
<1>i. ASSUME NEW t \in Threads, UNCHANGED <<row, op, page, gone, dead, reap, changed>>,
             NEW l \in {"taken", "begun", "scan", "active", "reset"},
             pc[t] \in {"idle", "taken", "begun", "scan", "active", "swept", "abort"},
             pc' = [pc EXCEPT ![t] = l] \/ pc' = pc
      PROVE  RowInv'
  <2>1. \A u \in Threads :
           \/ pc'[u] = pc[u]
           \/ /\ pc[u] \notin {"update", "doubt", "retest", "wait", "vacuum"}
              /\ pc'[u] \notin {"update", "doubt", "retest", "wait", "vacuum"}
    BY <1>t, <1>i, Zenon
  <2> QED
    BY <1>0, <1>i, <2>1, RowIdle, Zenon
<1> USE DEF Goto, logVars, xactVars, workVars, heapVars
<1>1. ASSUME NEW t \in Threads, GetNewTransactionId(t) PROVE RowInv'
  BY <1>1, <1>i, Zenon DEF GetNewTransactionId
<1>2. ASSUME NEW t \in Threads, ThreadTransactionStart(t) PROVE RowInv'
  BY <1>2, <1>i, Zenon DEF ThreadTransactionStart
<1>3. ASSUME NEW t \in Threads, BeginSnapshot(t) PROVE RowInv'
  BY <1>3, <1>i, Zenon DEF BeginSnapshot
<1>4. ASSUME NEW t \in Threads, ScanSlot(t) PROVE RowInv'
  <2>1. UNCHANGED <<row, op, page, gone, dead, reap, changed, pc>>
    BY <1>4, Zenon DEF ScanSlot
  <2> QED
    BY <1>0, <2>1, RowIdle, Zenon
<1>5. ASSUME NEW t \in Threads, EndSnapshot(t) PROVE RowInv'
  <2>1. pc[t] = "scan"
    BY <1>5, SnapshotAssumption DEF EndSnapshot, SnapInv, ScanInv, Threads
  <2>2. UNCHANGED <<row, op, page, gone, dead, reap, changed>> /\ pc' = [pc EXCEPT ![t] = "active"]
    BY <1>5, Zenon DEF EndSnapshot
  <2> QED
    BY <1>i, <2>1, <2>2, Zenon
<1>6. ASSUME NEW t \in Threads, RecordTransactionCommit(t) \/ RecordTransactionAbort(t) PROVE RowInv'
  <2>1. /\ pc[t] \in {"active", "swept", "abort"} /\ pc' = [pc EXCEPT ![t] = "reset"]
        /\ UNCHANGED <<row, op, page, gone, dead, reap, changed>>
    BY <1>6, Zenon DEF RecordTransactionCommit, RecordTransactionAbort
  <2> QED
    BY <1>i, <2>1, Zenon
<1>7. ASSUME NEW t \in Threads, ResetThreadState(t) PROVE RowInv'
  <2>1. /\ pc[t] = "reset" /\ pc' = [pc EXCEPT ![t] = "idle"] /\ xid' = [xid EXCEPT ![t] = 0]
        /\ changed' = [changed EXCEPT ![t] = FALSE] /\ UNCHANGED <<row, op, page, gone, dead, reap>>
    BY <1>7, Zenon DEF ResetThreadState, Invalid
  <2>2. \A u \in Threads :
           \/ pc'[u] = pc[u]
           \/ /\ pc[u] \notin {"update", "doubt", "retest", "wait", "vacuum"}
              /\ pc'[u] \notin {"update", "doubt", "retest", "wait", "vacuum"}
    BY <1>t, <2>1, Zenon
  <2>3. \A u \in Threads : xid'[u] # 0 /\ changed[u] => changed'[u]
    BY <1>t, <2>1, Zenon
  <2> QED
    BY <1>0, <2>1, <2>2, <2>3, RowIdle, Zenon
<1>8. CASE (\E x \in Xids : Harden(x)) \/ Done \/ UNCHANGED vars
  <2>1. UNCHANGED <<row, op, page, gone, dead, reap, changed, pc>>
    BY <1>8 DEF Harden, Done, vars
  <2> QED
    BY <1>0, <2>1, RowIdle, Zenon
<1>9. ASSUME NEW t \in Threads, RowAction(t) PROVE RowInv'
  <2>1. ASSUME NEW v \in Present, ExecReplace(t, v) PROVE RowInv'
    BY <1>0, <2>1, ReplaceKeeps, Zenon
  <2>2. ASSUME NEW v \in Present, NEW f \in {"xmin", "xmax"}, Read(t, v, f) PROVE RowInv'
    BY <1>0, <2>2, ReadKeeps, Zenon
  <2>3. CASE MayBeUpdated(t)
    BY <1>0, <2>3, MayBeKeeps, Zenon
  <2>4. CASE Updated(t)
    BY <1>0, <2>4, UpdatedKeeps, Zenon
  <2>5. CASE BeingUpdated(t)
    BY <1>0, <2>5, BeingKeeps
  <2>6. CASE DidCrash(t)
    BY <1>0, <2>6, DidCrashKeeps, Zenon
  <2>7. CASE Retest(t)
    BY <1>0, <2>7, RetestKeeps, Zenon
  <2>8. CASE XactLockTableWait(t) \/ GetCheckpointId(t)
    BY <1>0, <2>8, WaitKeeps, Zenon
  <2>9. CASE lazy_scan_heap(t) \/ lazy_vacuum_heap(t)
    BY <1>0, <2>9, VacuumKeeps, Zenon
  <2> QED
    BY <1>9, <2>1, <2>2, <2>3, <2>4, <2>5, <2>6, <2>7, <2>8, <2>9, Zenon DEF RowAction
<1> QED
  BY <1>1, <1>2, <1>3, <1>4, <1>5, <1>6, <1>7, <1>8, <1>9, Zenon DEF Next, RowAction
-----------------------------------------------------------------------------
\* All of it together is inductive.
RowVersionInv == SnapInv /\ XactInv /\ HorizonInv /\ RowInv

LEMMA RowVersionInductive == Spec => []RowVersionInv
<1>1. Init => RowVersionInv
  BY SnapInitial, XactInitial, HorizonInitial, RowInitial, Zenon DEF RowVersionInv
<1>2. RowVersionInv /\ [Next]_vars => RowVersionInv'
  BY SnapStep, XactStep, HorizonStep, RowStep, Zenon DEF RowVersionInv
<1> QED
  BY <1>1, <1>2, PTL DEF Spec

\* For any number of threads and updates, a committed update of the row is never
\* overwritten by an updater that did not see it: the version that it replaced
\* still names it as its deleter, whoever waited, followed t_ctid or took the
\* deleter before it for crashed (LockHeapTupleForUpdate, TransactionIdDidCrash).
THEOREM UpdatesNotLost == Spec => []NoLostUpdate
<1>1. RowVersionInv => NoLostUpdate
  <2> SUFFICES ASSUME RowVersionInv, NEW v \in DOMAIN row, row[v].prev # 0,
                      TransactionIdDidCommit(row[v].xmin)
               PROVE  row[row[v].prev].xmax = row[v].xmin
    BY Zenon DEF NoLostUpdate
  <2>1. VersionOf(v)
    BY Zenon DEF RowVersionInv, RowInv, VersionsInv
  <2> QED
    BY <2>1, DeadNotCommitted, Zenon DEF VersionOf
<1> QED
  BY <1>1, RowVersionInductive, PTL

\* A hint bit set by a reader, an updater or a vacuum is true for good: "committed"
\* of a hard commit, "invalid" of a transaction that aborted or that crashed and
\* cannot commit any more, although TransactionIdDidCrash looks at the log, at the
\* checkpoint id and at the slots in separate steps.
THEOREM HintsStayTruthful == Spec => []HintsTruthful
<1>1. RowVersionInv => HintsTruthful
  <2> SUFFICES ASSUME RowVersionInv, NEW v \in DOMAIN row, NEW f \in {"xmin", "xmax"}
               PROVE  /\ Hint(v, f) = "commit" => status[row[v][f]] = "commit"
                      /\ Hint(v, f) = "invalid" => Dead(row[v][f])
    BY Zenon DEF HintsTruthful, Dead
  <2>1. TrueHint(row[v].xmin, row[v].hmin) /\ TrueHint(row[v].xmax, row[v].hmax)
    BY Zenon DEF RowVersionInv, RowInv, VersionsInv, VersionOf
  <2>2. CASE f = "xmin"
    <3>1. row[v][f] = row[v].xmin /\ Hint(v, f) = row[v].hmin
      BY <2>2, Zenon DEF Hint
    <3> QED
      BY <2>1, <3>1, Zenon DEF TrueHint
  <2>3. CASE f = "xmax"
    <3>1. row[v][f] = row[v].xmax /\ Hint(v, f) = row[v].hmax
      BY <2>3, Zenon DEF Hint
    <3> QED
      BY <2>1, <3>1, Zenon DEF TrueHint
  <2> QED
    BY <2>2, <2>3, Zenon
<1> QED
  BY <1>1, RowVersionInductive, PTL

\* A lazy vacuum removes no version that an open snapshot of any thread sees, even
\* one taken after the vacuum read the checkpoint id, unless a scan of the slots
\* passed the deleter between taking its id and publishing it.
THEOREM VacuumSafe == Spec => []VacuumKeepsVisible
<1>1. RowVersionInv => VacuumKeepsVisible
  <2> SUFFICES ASSUME RowVersionInv, NEW t \in Threads, NEW v \in gone, Open(t), v \in Visible(t)
               PROVE  row[v].xmax \in late
    BY Zenon DEF VacuumKeepsVisible
  <2>1. v \in DOMAIN row /\ Removable(v) /\ TrueHint(row[v].xmax, row[v].hmax)
    BY Zenon DEF RowVersionInv, RowInv, VersionsInv, VersionOf
  <2>2. HeapTupleSatisfiesSnapshot(t, v)
    BY Zenon DEF Visible
  <2>3. Settled(row[v].xmax)
    BY <2>1, <2>2, DeadNotCommitted, Zenon DEF Removable, HeapTupleSatisfiesSnapshot
  <2>4. row[v].xmax \in Xids
    <3>1. row[v].xmax # 0
      BY <2>3, Zenon DEF Settled, TransactionIdDidCommit, LogStatus, Invalid
    <3> QED
      BY <2>1, <3>1, VersionTypes, Zenon DEF RowVersionInv, RowInv
  <2>5. row[v].hmax # "invalid"
    BY <2>1, <2>3, DeadNotCommitted, Zenon DEF Settled, TrueHint
  <2>6. \/ row[v].xmax = xid[t] \/ TransactionIdActiveDuringSnapshot(snap[t], row[v].xmax)
    BY <2>2, <2>3, <2>5, Zenon DEF HeapTupleSatisfiesSnapshot, Settled
  <2>7. row[v].xmax \in Known(t)
    BY <2>4, <2>6, Zenon DEF Known, Running, Active
  <2> QED
    BY <2>3, <2>7, Zenon DEF Settled
<1> QED
  BY <1>1, RowVersionInductive, PTL
=============================================================================
