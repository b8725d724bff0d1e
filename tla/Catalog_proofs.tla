-------------------------- MODULE Catalog_proofs --------------------------
(***************************************************************************)
(* Proofs about SharedInval for any set of backends, any size of the ring  *)
(* and any wraparound: no unread message is ever overwritten.  Proofs      *)
(* about Catalog for any number of connections: transactions and the       *)
(* DBWriter use the invalidation queue the way SharedInval says, and so    *)
(* never lose a message that is to be read; and nobody who works under a   *)
(* lock works with a stale cache, in a build with assertions, where no two *)
(* hold conflicting locks (LockTable_proofs).                              *)
(*                                                                         *)
(* The last one is about three things at once: the cache, the ring and the *)
(* locks.  A cache entry is true, or a message about it is in the ring and *)
(* unread, or the thread that is to send the message still holds its lock. *)
(* Whoever has got a lock since has read the ring to its end, so only the  *)
(* first is left for it.                                                   *)
(***************************************************************************)
EXTENDS Catalog, FiniteSetTheorems, WellFoundedInduction, TLAPS

-----------------------------------------------------------------------------
(* The queue.                                                              *)

\* A non-empty set of message numbers has a least one, which Min returns.
LEMMA MinNat ==
  ASSUME NEW S, S \subseteq Nat, S # {}
  PROVE  Min(S) \in S /\ \A y \in S : Min(S) <= y
<1>1. PICK x \in S : \A y \in S : ~(<<y, x>> \in OpToRel(<, Nat))
  BY NatLessThanWellFounded, WFMin, Zenon
<1>2. \A y \in S : x <= y
  <2> TAKE y \in S
  <2>1. ~(y < x)
    BY <1>1, Zenon DEF OpToRel
  <2> QED
    BY <2>1
<1> QED
  BY <1>1, <1>2, Zenon DEF Min

\* What the queue keeps from call to call.
InvalInv == InvalTypeOK /\ UnreadKept

\* SIDelExpiredDataEntries finds a number that no reader is behind, and which
\* is not beyond the newest message nor before the old oldest one.
LEMMA OldestFacts ==
  ASSUME InvalInv
  PROVE  /\ OldestUnread \in Nat
         /\ minMsgNum <= OldestUnread /\ OldestUnread <= maxMsgNum
         /\ \A b \in Active : OldestUnread <= nextMsgNum[b]
<1> DEFINE S == {maxMsgNum} \cup {nextMsgNum[b] : b \in Active}
<1>1. S \subseteq Nat /\ S # {}
  BY DEF InvalInv, InvalTypeOK, Active
<1>2. Min(S) \in S /\ \A y \in S : Min(S) <= y
  BY <1>1, MinNat, Zenon
<1>3. \A y \in S : minMsgNum <= y
  BY Zenon DEF InvalInv, InvalTypeOK, UnreadKept, Active
<1>4. OldestUnread = Min(S)
  BY Zenon DEF OldestUnread
<1> QED
  BY <1>1, <1>2, <1>3, <1>4

\* The clean-up leaves every reader in the ring, under the lowered numbers too.
LEMMA ExpiredFacts ==
  ASSUME InvalInv
  PROVE  /\ Lowered \in Nat /\ Expired \in Nat /\ maxMsgNum - Lowered \in Nat
         /\ Expired <= maxMsgNum - Lowered
         /\ maxMsgNum - Lowered - Expired <= MAXNUMMESSAGES
         /\ Positions \in [Backends -> Nat \cup {-1}]
         /\ \A b \in Backends :
              Positions[b] >= 0 =>
                /\ Expired <= Positions[b] /\ Positions[b] <= maxMsgNum - Lowered
<1> USE InvalAssumption
<1>1. /\ OldestUnread \in Nat /\ minMsgNum <= OldestUnread /\ OldestUnread <= maxMsgNum
      /\ \A b \in Active : OldestUnread <= nextMsgNum[b]
  BY OldestFacts, Zenon
<1>2. /\ minMsgNum \in Nat /\ maxMsgNum \in Nat /\ maxMsgNum - minMsgNum <= MAXNUMMESSAGES
      /\ nextMsgNum \in [Backends -> Nat \cup {-1}]
      /\ \A b \in Active : minMsgNum <= nextMsgNum[b] /\ nextMsgNum[b] <= maxMsgNum
      /\ MSGNUMWRAPAROUND \in Nat /\ MAXNUMMESSAGES \in Nat
  BY Zenon DEF InvalInv, InvalTypeOK, UnreadKept
<1>3. CASE minMsgNum = maxMsgNum
  <2>1. Lowered = 0 /\ Expired = minMsgNum
    BY <1>3, Zenon DEF Lowered, Expired
  <2>2. Positions = nextMsgNum
    BY <1>2, <2>1 DEF Positions
  <2> QED
    BY <1>2, <1>3, <2>1, <2>2 DEF Active
<1>4. CASE minMsgNum # maxMsgNum
  <2>1. /\ Lowered \in Nat /\ Lowered <= OldestUnread
        /\ Expired = OldestUnread - Lowered
    BY <1>1, <1>2, <1>4 DEF Lowered, Expired
  <2>2. \A b \in Active : Positions[b] = nextMsgNum[b] - Lowered
    BY <1>2, Zenon DEF Positions, Active
  <2>3. \A b \in Backends \ Active : Positions[b] = -1
    BY <1>2 DEF Positions, Active
  <2>4. Positions \in [Backends -> Nat \cup {-1}]
    <3>1. \A b \in Active : nextMsgNum[b] - Lowered \in Nat
      BY <1>1, <1>2, <2>1 DEF Active
    <3> QED
      BY <1>2, <3>1, Zenon DEF Positions, Active
  <2>5. \A b \in Active : Expired <= Positions[b] /\ Positions[b] <= maxMsgNum - Lowered
    BY <1>1, <1>2, <2>1, <2>2 DEF Active
  <2> QED
    BY <1>1, <1>2, <2>1, <2>3, <2>4, <2>5 DEF Active
<1> QED
  BY <1>3, <1>4, Zenon

\* The queue starts empty.
LEMMA InvalInitial == InvalInit => InvalInv
<1> SUFFICES ASSUME InvalInit PROVE InvalInv
  BY Zenon
<1>1. nextMsgNum = [b \in Backends |-> -1] /\ minMsgNum = 0 /\ maxMsgNum = 0
  BY Zenon DEF InvalInit
<1>2. /\ buffer \in [0 .. MAXNUMMESSAGES - 1 -> Messages \cup {NoMessage}]
      /\ overflow \in BOOLEAN
  BY Zenon DEF InvalInit
<1>3. resetState \in [Backends -> 0 .. 2]
  BY DEF InvalInit
<1>4. UnreadKept
  BY <1>1, InvalAssumption DEF UnreadKept, Active
<1> QED
  BY <1>1, <1>2, <1>3, <1>4, Zenon DEF InvalInv, InvalTypeOK

\* A message goes into a slot that no reader needs, or the ring is emptied.
LEMMA InsertKeeps ==
  ASSUME InvalInv, NEW data \in Messages, SIInsertDataEntry(data)
  PROVE  InvalInv'
<1> USE InvalAssumption
<1>1. /\ minMsgNum \in Nat /\ maxMsgNum \in Nat
      /\ minMsgNum <= maxMsgNum /\ maxMsgNum - minMsgNum <= MAXNUMMESSAGES
      /\ buffer \in [0 .. MAXNUMMESSAGES - 1 -> Messages \cup {NoMessage}]
      /\ nextMsgNum \in [Backends -> Nat \cup {-1}]
      /\ resetState \in [Backends -> 0 .. 2] /\ overflow \in BOOLEAN
      /\ \A b \in Active : minMsgNum <= nextMsgNum[b] /\ nextMsgNum[b] <= maxMsgNum
  BY Zenon DEF InvalInv, InvalTypeOK, UnreadKept
<1>2. ASSUME NEW m \in Nat, NEW n \in Nat, NEW p \in [Backends -> Nat \cup {-1}],
             n - m < MAXNUMMESSAGES, m <= n,
             \A b \in Backends : p[b] >= 0 => m <= p[b] /\ p[b] <= n,
             Inserted(data, m, n, p)
      PROVE  InvalInv'
  <2>1. minMsgNum' = m /\ maxMsgNum' = n + 1 /\ nextMsgNum' = p
    BY <1>2, Zenon DEF Inserted
  <2>2. InvalTypeOK'
    BY <1>1, <1>2, <2>1 DEF Inserted, InvalTypeOK
  <2>3. UnreadKept'
    BY <1>2, <2>1 DEF UnreadKept, Active
  <2> QED
    BY <2>2, <2>3, Zenon DEF InvalInv
<1>3. CASE /\ ~(maxMsgNum - minMsgNum >= MAXNUMMESSAGES)
           /\ Inserted(data, minMsgNum, maxMsgNum, nextMsgNum)
  BY <1>1, <1>2, <1>3 DEF Active
<1>4. CASE /\ ~(maxMsgNum - Lowered - Expired >= MAXNUMMESSAGES)
           /\ Inserted(data, Expired, maxMsgNum - Lowered, Positions)
  BY <1>1, <1>2, <1>4, ExpiredFacts
<1>5. CASE SISetProcStateInvalid(1)
  <2>1. InvalTypeOK'
    BY <1>1, <1>5 DEF SISetProcStateInvalid, InvalTypeOK
  <2>2. UnreadKept'
    BY <1>1, <1>5 DEF SISetProcStateInvalid, UnreadKept, Active
  <2> QED
    BY <2>1, <2>2, Zenon DEF InvalInv
<1> QED
  BY <1>3, <1>4, <1>5, Zenon DEF SIInsertDataEntry

\* Every call keeps the readers in the ring.
LEMMA InvalStep ==
  ASSUME InvalInv, [InvalNext]_invalVars
  PROVE  InvalInv'
<1> USE InvalAssumption
<1>1. /\ minMsgNum \in Nat /\ maxMsgNum \in Nat
      /\ minMsgNum <= maxMsgNum /\ maxMsgNum - minMsgNum <= MAXNUMMESSAGES
      /\ buffer \in [0 .. MAXNUMMESSAGES - 1 -> Messages \cup {NoMessage}]
      /\ nextMsgNum \in [Backends -> Nat \cup {-1}]
      /\ resetState \in [Backends -> 0 .. 2] /\ overflow \in BOOLEAN
      /\ \A b \in Active : minMsgNum <= nextMsgNum[b] /\ nextMsgNum[b] <= maxMsgNum
  BY Zenon DEF InvalInv, InvalTypeOK, UnreadKept
<1>2. ASSUME NEW b \in Backends, NEW n \in Nat \cup {-1}, NEW r \in 0 .. 2,
             n >= 0 => minMsgNum <= n /\ n <= maxMsgNum,
             nextMsgNum' = [nextMsgNum EXCEPT ![b] = n],
             resetState' = [resetState EXCEPT ![b] = r],
             UNCHANGED <<minMsgNum, maxMsgNum, buffer, overflow>>
      PROVE  InvalInv'
  <2>1. InvalTypeOK'
    BY <1>1, <1>2, Zenon DEF InvalTypeOK
  <2>2. UnreadKept'
    BY <1>1, <1>2, Zenon DEF UnreadKept, Active
  <2> QED
    BY <2>1, <2>2, Zenon DEF InvalInv
<1>3. ASSUME NEW b \in Backends, SIBackendInit(b)
      PROVE  InvalInv'
  <2>1. /\ nextMsgNum' = [nextMsgNum EXCEPT ![b] = maxMsgNum]
        /\ resetState' = [resetState EXCEPT ![b] = 0]
        /\ UNCHANGED <<minMsgNum, maxMsgNum, buffer, overflow>>
    BY <1>3, Zenon DEF SIBackendInit
  <2>2. /\ maxMsgNum \in Nat \cup {-1} /\ 0 \in 0 .. 2
        /\ minMsgNum <= maxMsgNum /\ maxMsgNum <= maxMsgNum
    BY <1>1
  <2> QED
    BY <1>2, <1>3, <2>1, <2>2
<1>4. ASSUME NEW b \in Active, CleanupInvalidationState(b)
      PROVE  InvalInv'
  <2>1. /\ nextMsgNum' = [nextMsgNum EXCEPT ![b] = -1]
        /\ resetState' = [resetState EXCEPT ![b] = 0]
        /\ UNCHANGED <<minMsgNum, maxMsgNum, buffer, overflow>>
    BY <1>4, Zenon DEF CleanupInvalidationState
  <2>2. b \in Backends /\ -1 \in Nat \cup {-1} /\ 0 \in 0 .. 2 /\ ~(-1 >= 0)
    BY <1>4 DEF Active
  <2> QED
    BY <1>2, <2>1, <2>2, Zenon
<1>5. ASSUME NEW b \in Active, SIGetDataEntry(b)
      PROVE  InvalInv'
  <2>1. b \in Backends /\ nextMsgNum[b] \in Nat /\ resetState[b] \in 0 .. 2
    BY <1>1, <1>5 DEF Active
  <2> DEFINE n == IF GetResult(b) < 0 THEN maxMsgNum ELSE nextMsgNum[b] + GetResult(b)
             r == IF GetResult(b) < 0 THEN 0 ELSE resetState[b]
  <2>2. n \in Nat /\ minMsgNum <= n /\ n <= maxMsgNum /\ r \in 0 .. 2
    BY <1>1, <1>5, <2>1 DEF GetResult
  <2>3. nextMsgNum' = [nextMsgNum EXCEPT ![b] = n] /\ resetState' = [resetState EXCEPT ![b] = r]
    BY <1>5, Zenon DEF SIGetDataEntry
  <2>4. UNCHANGED <<minMsgNum, maxMsgNum, buffer, overflow>>
    BY <1>5, Zenon DEF SIGetDataEntry
  <2> HIDE DEF n, r
  <2> QED
    BY <1>2, <2>1, <2>2, <2>3, <2>4
<1>6. ASSUME NEW data \in Messages, SIInsertDataEntry(data)
      PROVE  InvalInv'
  BY <1>6, InsertKeeps, Zenon
<1>7. CASE SIDelExpiredDataEntries
  <2>1. InvalTypeOK'
    BY <1>1, <1>7, ExpiredFacts DEF SIDelExpiredDataEntries, InvalTypeOK
  <2>2. UnreadKept'
    BY <1>7, ExpiredFacts, Zenon DEF SIDelExpiredDataEntries, UnreadKept, Active
  <2> QED
    BY <2>1, <2>2, Zenon DEF InvalInv
<1>8. CASE UNCHANGED invalVars
  BY <1>8, Zenon DEF invalVars, InvalInv, InvalTypeOK, UnreadKept, Active
<1> QED
  BY <1>3, <1>4, <1>5, <1>6, <1>7, <1>8 DEF InvalNext

\* SIInsertDataEntry, SIGetDataEntry and SIDelExpiredDataEntries, called in any
\* order by any number of backends that come and go, never overwrite a message
\* somebody has yet to read.
THEOREM UnreadSafe == InvalSpec => []UnreadKept
<1>1. InvalInit => InvalInv
  BY InvalInitial, Zenon
<1>2. InvalInv /\ [InvalNext]_invalVars => InvalInv'
  BY InvalStep, Zenon
<1>3. InvalInv => UnreadKept
  BY Zenon DEF InvalInv
<1> QED
  BY <1>1, <1>2, <1>3, PTL DEF InvalSpec

-----------------------------------------------------------------------------
(* The server that uses it.                                                *)

\* A connection has an entry in the queue from Connect to Disconnect, and the
\* DBWriter from its start on; what is sent and read is a message of the queue.
Places == {"off", "idle", "discard", "run", "lock", "unlock", "send", "abort", "release"}
JoinInv ==
  /\ cpc \in [Threads -> Places]
  /\ \A t \in Threads : cpc[t] # "off" => t \in Active
  /\ dpc # "off" => DBWriter \in Active
  /\ forall \in [Threads -> Seq(Messages)]
  /\ dtodo \in Seq(Backends)

QueueInv == InvalInv /\ JoinInv

\* The environments that DiscardAllInvalids goes through are those of backends.
LEMMA TodoType == Environments \in Seq(Backends)
<1> DEFINE Order == [1 .. Cardinality(Threads) -> Threads]
<1>1. IsFiniteSet(Threads) /\ Backends = Threads \cup {DBWriter}
  BY LockAssumption, CatalogAssumption, Zenon
<1>2. Cardinality(Threads) \in Nat /\ ExistsBijection(1 .. Cardinality(Threads), Threads)
  BY <1>1, FS_CardinalityType, Zenon
<1>3. \E f \in Order : IsInjective(f)
  BY <1>2, Zenon DEF ExistsBijection, Bijection, Injection, IsInjective
<1>4. (CHOOSE s \in Order : IsInjective(s)) \in Order
  BY <1>3, Zenon
<1>5. (CHOOSE s \in Order : IsInjective(s)) \in Seq(Backends)
  BY <1>1, <1>2, <1>4
<1>6. <<DBWriter>> \in Seq(Backends)
  BY <1>1
<1> QED
  BY <1>5, <1>6 DEF Environments

\* Nobody but CleanupInvalidationState takes an entry out of use.
LEMMA ActiveKept ==
  ASSUME InvalInv,
         \/ UNCHANGED invalVars
         \/ \E b \in Backends : SIBackendInit(b)
         \/ \E b \in Active : SIGetDataEntry(b)
         \/ \E data \in Messages : SIInsertDataEntry(data)
         \/ SIDelExpiredDataEntries
  PROVE  Active \subseteq Active'
<1> USE DEF InvalInv
<1>1. nextMsgNum \in [Backends -> Nat \cup {-1}] /\ maxMsgNum \in Nat
      /\ resetState \in [Backends -> 0 .. 2]
  BY Zenon DEF InvalTypeOK
<1>2. ASSUME NEW b \in Active PROVE Positions[b] >= 0
  <2>1. OldestUnread \in Nat /\ OldestUnread <= nextMsgNum[b] /\ nextMsgNum[b] \in Nat
        /\ MSGNUMWRAPAROUND \in Nat
    BY <1>1, OldestFacts, InvalAssumption DEF Active
  <2>2. Lowered \in Nat /\ Lowered <= nextMsgNum[b]
    BY <2>1 DEF Lowered
  <2>3. Positions[b] = nextMsgNum[b] - Lowered
    BY Zenon DEF Positions, Active
  <2> QED
    BY <2>1, <2>2, <2>3
<1>3. CASE UNCHANGED invalVars
  BY <1>3, Zenon DEF invalVars, Active
<1>4. CASE \E b \in Backends : SIBackendInit(b)
  BY <1>1, <1>4 DEF SIBackendInit, Active
<1>5. CASE \E b \in Active : SIGetDataEntry(b)
  <2> PICK b \in Active : SIGetDataEntry(b)
    BY <1>5, Zenon
  <2>1. GetResult(b) \in {-2, -1, 0, 1} /\ nextMsgNum[b] \in Nat
    BY <1>1 DEF GetResult, Active
  <2> DEFINE m == IF GetResult(b) < 0 THEN maxMsgNum ELSE nextMsgNum[b] + GetResult(b)
  <2>2. nextMsgNum' = [nextMsgNum EXCEPT ![b] = m]
    BY Zenon DEF SIGetDataEntry
  <2>3. ASSUME NEW n \in Nat, nextMsgNum' = [nextMsgNum EXCEPT ![b] = n]
        PROVE  Active \subseteq Active'
    BY <1>1, <2>3 DEF Active
  <2>4. m \in Nat
    BY <1>1, <2>1
  <2> HIDE DEF m
  <2> QED
    BY <2>2, <2>3, <2>4, Zenon
<1>6. CASE \E data \in Messages : SIInsertDataEntry(data)
  <2>1. \/ nextMsgNum' = nextMsgNum
        \/ nextMsgNum' = Positions
        \/ nextMsgNum' = [b \in Backends |-> IF b \in Active THEN 0 ELSE nextMsgNum[b]]
    BY <1>6, Zenon DEF SIInsertDataEntry, Inserted, SISetProcStateInvalid
  <2> QED
    BY <1>1, <1>2, <2>1 DEF Active
<1>7. CASE SIDelExpiredDataEntries
  BY <1>2, <1>7, Zenon DEF SIDelExpiredDataEntries, Active
<1> QED
  BY <1>3, <1>4, <1>5, <1>6, <1>7

\* A step of the rest of the server leaves the queue alone.
LEMMA ElsewhereKeeps ==
  ASSUME QueueInv, UNCHANGED <<invalVars, dbwVars>>,
         cpc' \in [Threads -> Places], \A u \in Threads : cpc[u] = "off" => cpc'[u] = "off",
         forall' \in [Threads -> Seq(Messages)]
  PROVE  [InvalNext]_invalVars /\ JoinInv'
<1>1. Active' = Active
  BY Zenon DEF invalVars, Active
<1> QED
  BY <1>1, Zenon DEF QueueInv, JoinInv, dbwVars

LEMMA MoveKeeps ==
  ASSUME QueueInv, UNCHANGED <<invalVars, dbwVars>>,
         NEW t \in Threads, NEW l \in Places, NEW x \in Seq(Messages), cpc[t] # "off",
         cpc' = [cpc EXCEPT ![t] = l],
         forall' = forall \/ forall' = [forall EXCEPT ![t] = x]
  PROVE  [InvalNext]_invalVars /\ JoinInv'
<1>1. cpc \in [Threads -> Places] /\ forall \in [Threads -> Seq(Messages)]
  BY Zenon DEF QueueInv, JoinInv
<1>2. cpc' \in [Threads -> Places] /\ \A u \in Threads : cpc[u] = "off" => cpc'[u] = "off"
  BY <1>1, Zenon
<1>3. forall' \in [Threads -> Seq(Messages)]
  BY <1>1, Zenon
<1> QED
  BY <1>2, <1>3, ElsewhereKeeps

\* A call that takes no entry out of use.
LEMMA CallKeeps ==
  ASSUME QueueInv, UNCHANGED dbwVars,
         \/ \E b \in Backends : SIBackendInit(b)
         \/ \E b \in Active : SIGetDataEntry(b)
         \/ \E data \in Messages : SIInsertDataEntry(data),
         cpc' \in [Threads -> Places],
         \A u \in Threads : cpc[u] = "off" => cpc'[u] = "off" \/ u \in Active',
         forall' \in [Threads -> Seq(Messages)]
  PROVE  [InvalNext]_invalVars /\ JoinInv'
<1>1. InvalNext
  BY Zenon DEF InvalNext, Active
<1>2. Active \subseteq Active'
  BY ActiveKept, Zenon DEF QueueInv
<1> QED
  BY <1>1, <1>2, Zenon DEF QueueInv, JoinInv, dbwVars

\* Steps of a connection are calls of the queue, one at a time or none.
LEMMA ThreadUses ==
  ASSUME QueueInv, NEW t \in Threads, ThreadNext(t)
  PROVE  [InvalNext]_invalVars /\ JoinInv'
<1> DEFINE Elsewhere == UNCHANGED <<invalVars, dbwVars>>
           Uses == [InvalNext]_invalVars /\ JoinInv'
           Moves(l) == cpc[t] # "off" /\ cpc' = [cpc EXCEPT ![t] = l]
<1>0. /\ cpc \in [Threads -> Places] /\ forall \in [Threads -> Seq(Messages)] /\ InvalInv
      /\ t \in Backends /\ \A u \in Threads : u \in Backends
  BY CatalogAssumption, Zenon DEF QueueInv, JoinInv
<1>x. <<>> \in Seq(Messages) /\ <<"rel", "sys">> \in Seq(Messages)
  BY CatalogAssumption
<1>e. ASSUME Elsewhere, UNCHANGED forall, NEW l \in Places, Moves(l) PROVE Uses
  BY <1>e, <1>x, MoveKeeps, Zenon
<1>f. ASSUME Elsewhere, UNCHANGED <<cpc, forall>> PROVE Uses
  BY <1>0, <1>f, ElsewhereKeeps, Zenon
<1>p. {"idle", "discard", "run", "lock", "unlock", "send", "abort", "release"} \subseteq Places
  BY Zenon DEF Places
<1> SUFFICES Uses
  BY Zenon
<1> HIDE DEF Uses
<1>1. CASE Connect(t)
  <2>1. SIBackendInit(t) /\ cpc' = [cpc EXCEPT ![t] = "idle"] /\ UNCHANGED <<forall, dbwVars>>
    BY <1>1, Zenon DEF Connect, Goto, catVars
  <2>2. t \in Active'
    BY <1>0, <2>1 DEF SIBackendInit, Active, InvalInv, InvalTypeOK
  <2>3. cpc' \in [Threads -> Places]
        /\ \A u \in Threads : cpc[u] = "off" => cpc'[u] = "off" \/ u \in Active'
    BY <1>0, <1>p, <2>1, <2>2, Zenon
  <2> QED
    BY <1>0, <2>1, <2>3, CallKeeps, Zenon DEF Uses
<1>2. CASE Disconnect(t)
  <2>1. CleanupInvalidationState(t) /\ t \in Active /\ cpc' = [cpc EXCEPT ![t] = "off"]
        /\ UNCHANGED <<forall, dbwVars>>
    BY <1>2, Zenon DEF Disconnect, Goto, QueueInv, JoinInv
  <2>2. \A b \in Active \ {t} : b \in Active'
    BY <1>0, <2>1 DEF CleanupInvalidationState, Active
  <2>3. InvalNext
    BY <1>0, <2>1, Zenon DEF InvalNext
  <2>4. cpc' \in [Threads -> Places] /\ \A u \in Threads : cpc'[u] # "off" => u \in Active'
    BY <1>0, <2>1, <2>2 DEF Places, QueueInv, JoinInv
  <2>5. dpc' # "off" => DBWriter \in Active'
    BY <2>1, <2>2, CatalogAssumption DEF QueueInv, JoinInv, dbwVars
  <2> QED
    BY <1>0, <2>1, <2>3, <2>4, <2>5 DEF Uses, QueueInv, JoinInv, dbwVars
<1>3. CASE StartTransaction(t)
  <2>1. Elsewhere /\ UNCHANGED forall /\ Moves("discard")
    BY <1>3, Zenon DEF StartTransaction, Goto
  <2> QED
    BY <2>1, <1>e, <1>p, Zenon
<1>4. CASE DiscardInvalid(t)
  <2>1. SIGetDataEntry(t) /\ t \in Active /\ UNCHANGED <<forall, dbwVars>>
        /\ (cpc' = [cpc EXCEPT ![t] = "run"] \/ cpc' = cpc) /\ cpc[t] # "off"
    BY <1>4, Zenon DEF DiscardInvalid, Goto, QueueInv, JoinInv
  <2>2. cpc' \in [Threads -> Places] /\ \A u \in Threads : cpc[u] = "off" => cpc'[u] = "off"
    BY <1>0, <1>p, <2>1
  <2> QED
    BY <1>0, <2>1, <2>2, CallKeeps DEF Uses
<1>5. CASE \E m \in Modes : heap_open(t, m) \/ heap_close(t, m)
  <2>1. Elsewhere /\ UNCHANGED forall /\ (Moves("lock") \/ Moves("unlock"))
    BY <1>5, Zenon DEF heap_open, heap_close, Goto
  <2> QED
    BY <2>1, <1>e, <1>p
<1>6. CASE LockRelation(t)
  <2>1. Elsewhere /\ UNCHANGED forall /\ cpc[t] = "lock"
        /\ \/ cpc' = [cpc EXCEPT ![t] = "abort"] \/ cpc' = [cpc EXCEPT ![t] = "run"]
           \/ cpc' = [cpc EXCEPT ![t] = "discard"] \/ cpc' = cpc
    BY <1>6, Zenon DEF LockRelation, Goto, catVars
  <2> QED
    BY <2>1, <1>e, <1>f, <1>p
<1>7. CASE CommandCounterIncrement(t)
  <2>1. Elsewhere /\ Moves("discard") /\ forall' = [forall EXCEPT ![t] = <<"rel", "sys">>]
    BY <1>7, Zenon DEF CommandCounterIncrement, Goto
  <2> QED
    BY <2>1, <1>p, <1>x, MoveKeeps, Zenon DEF Uses
<1>8. CASE UnlockRelation(t) \/ RecordTransactionCommit(t)
  <2>1. Elsewhere /\ UNCHANGED forall /\ (Moves("run") \/ Moves("send"))
    BY <1>8, Zenon DEF UnlockRelation, RecordTransactionCommit, Goto, catVars
  <2> QED
    BY <2>1, <1>e, <1>p, Zenon
<1>9. CASE RegisterSharedInvalid(t)
  <2>1. /\ SIInsertDataEntry(Head(forall[t])) /\ forall[t] # <<>> /\ UNCHANGED <<cpc, dbwVars>>
        /\ forall' = [forall EXCEPT ![t] = Tail(forall[t])]
    BY <1>9, Zenon DEF RegisterSharedInvalid, envVars
  <2>2. forall[t] \in Seq(Messages)
    BY <1>0, Zenon
  <2>3. Head(forall[t]) \in Messages /\ Tail(forall[t]) \in Seq(Messages)
    BY <2>1, <2>2
  <2>4. forall' \in [Threads -> Seq(Messages)]
    BY <1>0, <2>1, <2>3, Zenon
  <2> QED
    BY <1>0, <2>1, <2>3, <2>4, CallKeeps DEF Uses
<1>10. CASE AbortTransaction(t)
  <2>1. Elsewhere /\ Moves("send") /\ forall' = [forall EXCEPT ![t] = <<>>]
    BY <1>10, Zenon DEF AbortTransaction, Goto
  <2> QED
    BY <2>1, <1>p, <1>x, MoveKeeps, Zenon DEF Uses
<1>11. CASE ThreadReleaseLocks(t) \/ TransactionUnlock(t)
  <2>1. Elsewhere /\ UNCHANGED forall /\ (Moves("release") \/ Moves("idle"))
    BY <1>11, Zenon DEF ThreadReleaseLocks, TransactionUnlock, Goto, catVars
  <2> QED
    BY <2>1, <1>e, <1>p
<1> QED
  BY <1>1, <1>2, <1>3, <1>4, <1>5, <1>6, <1>7, <1>8, <1>9, <1>10, <1>11 DEF ThreadNext

\* So are the steps of the DBWriter, those for other connections included.
LEMMA DBWriterUses ==
  ASSUME QueueInv,
         \/ DBWriterStart \/ DBWriterTurn \/ DBWriterDiscard \/ DBWriterExpire
         \/ DiscardAllInvalids
  PROVE  [InvalNext]_invalVars /\ JoinInv'
<1>0. /\ InvalInv /\ DBWriter \in Backends /\ dtodo \in Seq(Backends)
      /\ dpc # "off" => DBWriter \in Active
  BY CatalogAssumption, Zenon DEF QueueInv, JoinInv
<1>1. ASSUME UNCHANGED <<cpc, forall>>, [InvalNext]_invalVars, Active \subseteq Active',
             dpc' # "off" => DBWriter \in Active', dtodo' \in Seq(Backends)
      PROVE  [InvalNext]_invalVars /\ JoinInv'
  BY <1>1, Zenon DEF QueueInv, JoinInv
<1>2. CASE DBWriterStart
  <2>1. SIBackendInit(DBWriter) /\ UNCHANGED <<cpc, forall, dtodo>>
    BY <1>2, Zenon DEF DBWriterStart, catVars, envVars
  <2>2. DBWriter \in Active'
    BY <1>0, <2>1 DEF SIBackendInit, Active, InvalInv, InvalTypeOK
  <2>3. Active \subseteq Active'
    BY <1>0, <2>1, ActiveKept, Zenon
  <2>4. InvalNext
    BY <1>0, <2>1, Zenon DEF InvalNext
  <2> QED
    BY <1>0, <1>1, <2>1, <2>2, <2>3, <2>4
<1>3. CASE DBWriterTurn
  <2>1. UNCHANGED <<cpc, forall, dtodo, invalVars>> /\ dpc # "off"
    BY <1>3, Zenon DEF DBWriterTurn, catVars, envVars
  <2>2. Active' = Active
    BY <2>1, Zenon DEF invalVars, Active
  <2> QED
    BY <1>0, <1>1, <2>1, <2>2
<1>4. CASE DBWriterDiscard
  <2>1. SIGetDataEntry(DBWriter) /\ DBWriter \in Active /\ UNCHANGED <<cpc, forall, dtodo>>
    BY <1>0, <1>4, Zenon DEF DBWriterDiscard, catVars, envVars
  <2>2. InvalNext
    BY <1>0, <2>1, Zenon DEF InvalNext
  <2>3. Active \subseteq Active'
    BY <1>0, <2>1, ActiveKept
  <2> QED
    BY <1>0, <1>1, <2>1, <2>2, <2>3
<1>5. CASE DBWriterExpire
  <2>1. /\ SIDelExpiredDataEntries /\ UNCHANGED <<cpc, forall>> /\ dpc # "off"
        /\ \/ dtodo' = dtodo
           \/ dtodo' = Environments
           \/ dtodo # <<>> /\ dtodo' = Tail(dtodo)
    BY <1>5, Zenon DEF DBWriterExpire, catVars, envVars
  <2>2. InvalNext
    BY <2>1, Zenon DEF InvalNext
  <2>3. Active \subseteq Active'
    BY <1>0, <2>1, ActiveKept
  <2>4. dtodo # <<>> => Tail(dtodo) \in Seq(Backends)
    BY <1>0
  <2>5. dtodo' \in Seq(Backends)
    BY <1>0, <2>1, <2>4, TodoType, Zenon
  <2> QED
    BY <1>0, <1>1, <2>1, <2>2, <2>3, <2>5
<1>6. CASE DiscardAllInvalids
  <2>1. UNCHANGED <<cpc, forall>> /\ dpc # "off"
    BY <1>6, Zenon DEF DiscardAllInvalids, envVars
  <2>2. CASE UNCHANGED invalVars /\ (dtodo' = dtodo \/ (dtodo # <<>> /\ dtodo' = Tail(dtodo)))
    <3>1. Active' = Active
      BY <2>2 DEF invalVars, Active
    <3>2. dtodo # <<>> => Tail(dtodo) \in Seq(Backends)
      BY <1>0
    <3> QED
      BY <1>0, <1>1, <2>1, <2>2, <3>1, <3>2
  <2>3. CASE /\ dtodo # <<>> /\ nextMsgNum[Head(dtodo)] >= 0 /\ SIGetDataEntry(Head(dtodo))
             /\ dtodo' = dtodo
    <3>1. Head(dtodo) \in Backends
      BY <1>0, <2>3
    <3>2. Head(dtodo) \in Active
      BY <2>3, <3>1, Zenon DEF Active
    <3>3. InvalNext
      BY <2>3, <3>1, <3>2, Zenon DEF InvalNext
    <3>4. Active \subseteq Active'
      BY <1>0, <2>3, <3>2, ActiveKept, Zenon
    <3> QED
      BY <1>0, <1>1, <2>1, <2>3, <3>3, <3>4
  <2>4. nextMsgNum \in [Backends -> Nat \cup {-1}]
    BY <1>0, Zenon DEF InvalInv, InvalTypeOK
  <2>5. dtodo # <<>> => nextMsgNum[Head(dtodo)] \in Int
    <3>1. dtodo # <<>> => Head(dtodo) \in Backends
      BY <1>0
    <3> QED
      BY <2>4, <3>1
  <2> QED
    BY <1>6, <2>2, <2>3, <2>5 DEF DiscardAllInvalids, dbwVars
<1> QED
  BY <1>2, <1>3, <1>4, <1>5, <1>6

LEMMA QueueStep ==
  ASSUME QueueInv, [Next]_vars
  PROVE  QueueInv' /\ [InvalNext]_invalVars
<1>1. [InvalNext]_invalVars /\ JoinInv'
  <2>1. CASE UNCHANGED vars
    <3>1. UNCHANGED <<invalVars, dbwVars, cpc, forall>>
      BY <2>1, Zenon DEF vars, catVars, envVars
    <3> QED
      BY <3>1, ElsewhereKeeps, Zenon DEF QueueInv, JoinInv
  <2>2. ASSUME NEW t \in Threads, ThreadNext(t)
        PROVE  [InvalNext]_invalVars /\ JoinInv'
    BY <2>2, ThreadUses, Zenon
  <2>3. CASE \/ DBWriterStart \/ DBWriterTurn \/ DBWriterDiscard \/ DBWriterExpire
             \/ DiscardAllInvalids
    BY <2>3, DBWriterUses, Zenon
  <2> QED
    BY <2>1, <2>2, <2>3, Zenon DEF Next
<1> QED
  BY <1>1, InvalStep, Zenon DEF QueueInv

LEMMA QueueInitial == Init => QueueInv
<1> SUFFICES ASSUME Init PROVE QueueInv
  BY Zenon
<1>1. InvalInv
  BY InvalInitial, Zenon DEF Init
<1>2. JoinInv
  BY DEF Init, JoinInv, Places
<1> QED
  BY <1>1, <1>2, Zenon DEF QueueInv

\* Whatever connections, transactions, locks and the DBWriter do, the queue sees a
\* sequence of calls that SharedInval allows: nobody reads it without an entry in
\* it, the DBWriter that reads for idle connections included.
THEOREM UsesQueue == Spec => InvalSpec
<1>1. Init => QueueInv
  BY QueueInitial, Zenon
<1>2. QueueInv /\ [Next]_vars => QueueInv' /\ [InvalNext]_invalVars
  BY QueueStep, Zenon
<1>3. Init => InvalInit
  BY Zenon DEF Init
<1> QED
  BY <1>1, <1>2, <1>3, PTL DEF Spec, InvalSpec

\* No connection ever misses a message of RegisterSharedInvalid because its slot
\* was used again, for any number of connections and any size of the queue.
THEOREM CatalogUnread == Spec => []UnreadKept
BY UsesQueue, UnreadSafe, PTL

-----------------------------------------------------------------------------
(* What a reader has before it.                                            *)

\* A number is its quotient and its remainder.
LEMMA Division ==
  ASSUME NEW M \in Nat \ {0}, NEW a \in Nat
  PROVE  /\ a % M \in 0 .. M - 1 /\ a \div M \in Nat
         /\ a = M * (a \div M) + (a % M)
OBVIOUS

\* Two numbers less than a ring apart have different slots.
LEMMA SlotsDiffer ==
  ASSUME NEW M \in Nat \ {0}, NEW a \in Nat, NEW b \in Nat, a < b, b - a < M
  PROVE  a % M # b % M
<1> SUFFICES ASSUME a % M = b % M PROVE FALSE
  OBVIOUS
<1> DEFINE p == a \div M
           q == b \div M
<1>1. a = M * p + (a % M) /\ b = M * q + (b % M) /\ p \in Nat /\ q \in Nat
  BY Division, Zenon
<1>2. b - a = M * (q - p) /\ p \in Int /\ q \in Int
  BY <1>1
<1> HIDE DEF p, q
<1>3. CASE q - p <= 0
  BY <1>2, <1>3
<1>4. CASE q - p >= 1
  BY <1>2, <1>4
<1> QED
  BY <1>2, <1>3, <1>4

\* Numbers lowered by a multiple of the ring keep their slots.
LEMMA SlotsKept ==
  ASSUME NEW M \in Nat \ {0}, NEW a \in Nat, NEW d \in Nat, d % M = 0, d <= a
  PROVE  (a - d) % M = a % M
<1> DEFINE q == a \div M
           p == d \div M
           r == (a - d) \div M
<1>1. a = M * q + (a % M) /\ d = M * p /\ a - d = M * r + ((a - d) % M)
  BY Division
<1>2. ((a - d) % M) - (a % M) = M * (q - p - r) /\ q \in Int /\ p \in Int /\ r \in Int
  BY <1>1
<1>3. (a - d) % M \in 0 .. M - 1 /\ a % M \in 0 .. M - 1
  BY Division
<1> HIDE DEF p, q, r
<1>4. CASE q - p - r <= -1
  BY <1>2, <1>3, <1>4
<1>5. CASE q - p - r >= 1
  BY <1>2, <1>3, <1>5
<1>6. CASE q - p - r = 0
  BY <1>2, <1>3, <1>6
<1> QED
  BY <1>2, <1>4, <1>5, <1>6

\* Message k is in the ring and b has not read it.
Unread(b, k) ==
  \E n \in Nat : nextMsgNum[b] <= n /\ n < maxMsgNum /\ buffer[n % MAXNUMMESSAGES] = k

\* b has read everything.
HasRead(b) == nextMsgNum[b] >= maxMsgNum

LEMMA ActivePosition ==
  ASSUME InvalInv, NEW b \in Active
  PROVE  /\ b \in Backends /\ nextMsgNum[b] \in Nat /\ minMsgNum \in Nat /\ maxMsgNum \in Nat
         /\ minMsgNum <= nextMsgNum[b] /\ nextMsgNum[b] <= maxMsgNum
         /\ maxMsgNum - minMsgNum <= MAXNUMMESSAGES /\ MAXNUMMESSAGES \in Nat \ {0}
BY InvalAssumption DEF InvalInv, InvalTypeOK, UnreadKept, Active

\* The clean-up takes no message from a reader and gives it none.
LEMMA LoweredReads ==
  ASSUME InvalInv, NEW b \in Active,
         nextMsgNum'[b] = Positions[b], maxMsgNum' = maxMsgNum - Lowered, buffer' = buffer
  PROVE  /\ HasRead(b) => HasRead(b)'
         /\ \A k : Unread(b, k) => Unread(b, k)'
<1>1. /\ nextMsgNum[b] \in Nat /\ maxMsgNum \in Nat /\ MAXNUMMESSAGES \in Nat \ {0}
      /\ b \in Backends
  BY ActivePosition
<1>2. /\ Lowered \in Nat /\ Lowered <= nextMsgNum[b] /\ Lowered % MAXNUMMESSAGES = 0
  <2>1. OldestUnread \in Nat /\ OldestUnread <= nextMsgNum[b]
    BY OldestFacts, Zenon
  <2>2. Lowered = 0 \/ (Lowered = MSGNUMWRAPAROUND /\ OldestUnread >= MSGNUMWRAPAROUND)
    BY Zenon DEF Lowered
  <2>3. 0 % MAXNUMMESSAGES = 0
    BY <1>1
  <2> QED
    BY <1>1, <2>1, <2>2, <2>3, InvalAssumption
<1>3. nextMsgNum'[b] = nextMsgNum[b] - Lowered
  BY <1>1, Zenon DEF Positions
<1>4. HasRead(b) => HasRead(b)'
  BY <1>1, <1>2, <1>3 DEF HasRead
<1>5. ASSUME NEW k, Unread(b, k) PROVE Unread(b, k)'
  <2>1. PICK n \in Nat : nextMsgNum[b] <= n /\ n < maxMsgNum /\ buffer[n % MAXNUMMESSAGES] = k
    BY <1>5, Zenon DEF Unread
  <2>2. Lowered <= n
    BY <1>1, <1>2, <2>1
  <2>3. (n - Lowered) % MAXNUMMESSAGES = n % MAXNUMMESSAGES
    BY <1>1, <1>2, <2>2, SlotsKept, Zenon
  <2>4. n - Lowered \in Nat /\ nextMsgNum'[b] <= n - Lowered /\ n - Lowered < maxMsgNum'
    BY <1>1, <1>2, <1>3, <2>1, <2>2
  <2> QED
    BY <2>1, <2>3, <2>4, Zenon DEF Unread
<1> QED
  BY <1>4, <1>5, Zenon

\* A message that goes into the ring is there for every reader, and takes the slot
\* of none that somebody has yet to read.
LEMMA InsertReads ==
  ASSUME InvalInv, NEW data \in Messages, SIInsertDataEntry(data), ~overflow', NEW b \in Active
  PROVE  /\ ~overflow /\ resetState' = resetState
         /\ Unread(b, data)'
         /\ \A k : Unread(b, k) => Unread(b, k)'
<1> USE InvalAssumption
<1>1. /\ nextMsgNum[b] \in Nat /\ maxMsgNum \in Nat /\ minMsgNum \in Nat
      /\ minMsgNum <= nextMsgNum[b] /\ nextMsgNum[b] <= maxMsgNum
      /\ MAXNUMMESSAGES \in Nat \ {0} /\ b \in Backends
  BY ActivePosition, Zenon
<1>2. buffer \in [0 .. MAXNUMMESSAGES - 1 -> Messages \cup {NoMessage}]
  BY Zenon DEF InvalInv, InvalTypeOK
<1>3. ASSUME NEW m \in Nat, NEW n \in Nat, NEW p \in [Backends -> Nat \cup {-1}],
             n - m < MAXNUMMESSAGES, m <= p[b], p[b] <= n, p[b] \in Nat,
             Inserted(data, m, n, p)
      PROVE  /\ ~overflow /\ resetState' = resetState
             /\ Unread(b, data)'
             /\ \A k : (\E i \in Nat : p[b] <= i /\ i < n /\ buffer[i % MAXNUMMESSAGES] = k) =>
                         Unread(b, k)'
  <2>1. /\ buffer' = [buffer EXCEPT ![n % MAXNUMMESSAGES] = data]
        /\ maxMsgNum' = n + 1 /\ nextMsgNum' = p
        /\ resetState' = resetState /\ overflow' = overflow
    BY <1>3, Zenon DEF Inserted
  <2>2. n % MAXNUMMESSAGES \in 0 .. MAXNUMMESSAGES - 1
    BY <1>1, Division, Zenon
  <2>3. buffer'[n % MAXNUMMESSAGES] = data
    BY <1>2, <2>1, <2>2, Zenon
  <2>4. n < n + 1
    BY <1>3
  <2>5. Unread(b, data)'
    BY <1>3, <2>1, <2>3, <2>4, Zenon DEF Unread
  <2>6. ASSUME NEW k, NEW i \in Nat, p[b] <= i, i < n, buffer[i % MAXNUMMESSAGES] = k
        PROVE  Unread(b, k)'
    <3>1. i < n + 1 /\ n - i < MAXNUMMESSAGES
      BY <1>1, <1>3, <2>6
    <3>2. i % MAXNUMMESSAGES # n % MAXNUMMESSAGES
      BY <1>1, <1>3, <2>6, <3>1, SlotsDiffer, Zenon
    <3>3. i % MAXNUMMESSAGES \in 0 .. MAXNUMMESSAGES - 1
      BY <1>1, Division, Zenon
    <3>4. buffer'[i % MAXNUMMESSAGES] = k
      BY <1>2, <2>1, <2>6, <3>2, <3>3, Zenon
    <3> QED
      BY <2>1, <2>6, <3>1, <3>4, Zenon DEF Unread
  <2> QED
    BY <2>1, <2>5, <2>6, Zenon
<1>4. CASE /\ ~(maxMsgNum - minMsgNum >= MAXNUMMESSAGES)
           /\ Inserted(data, minMsgNum, maxMsgNum, nextMsgNum)
  <2>1. nextMsgNum \in [Backends -> Nat \cup {-1}]
    BY Zenon DEF InvalInv, InvalTypeOK
  <2>2. maxMsgNum - minMsgNum < MAXNUMMESSAGES
    BY <1>1, <1>4
  <2> QED
    BY <1>1, <1>3, <1>4, <2>1, <2>2, Zenon DEF Unread
<1>5. CASE /\ ~(maxMsgNum - Lowered - Expired >= MAXNUMMESSAGES)
           /\ Inserted(data, Expired, maxMsgNum - Lowered, Positions)
  <2>1. /\ Lowered \in Nat /\ Expired \in Nat /\ maxMsgNum - Lowered \in Nat
        /\ Positions \in [Backends -> Nat \cup {-1}]
        /\ \A c \in Backends :
             Positions[c] >= 0 => Expired <= Positions[c] /\ Positions[c] <= maxMsgNum - Lowered
    BY ExpiredFacts, Zenon
  <2>2. /\ Lowered <= nextMsgNum[b] /\ Lowered % MAXNUMMESSAGES = 0
        /\ Positions[b] = nextMsgNum[b] - Lowered
    <3>1. OldestUnread \in Nat /\ OldestUnread <= nextMsgNum[b]
      BY OldestFacts, Zenon
    <3>2. Lowered = 0 \/ (Lowered = MSGNUMWRAPAROUND /\ OldestUnread >= MSGNUMWRAPAROUND)
      BY Zenon DEF Lowered
    <3>3. 0 % MAXNUMMESSAGES = 0
      BY <1>1
    <3>4. Positions[b] = nextMsgNum[b] - Lowered
      BY <1>1, Zenon DEF Positions
    <3> QED
      BY <1>1, <3>1, <3>2, <3>3, <3>4
  <2>3. /\ Positions[b] \in Nat /\ Expired <= Positions[b] /\ Positions[b] <= maxMsgNum - Lowered
        /\ maxMsgNum - Lowered - Expired < MAXNUMMESSAGES
    BY <1>1, <1>5, <2>1, <2>2
  <2>4. /\ ~overflow /\ resetState' = resetState
        /\ Unread(b, data)'
        /\ \A k : (\E i \in Nat : /\ Positions[b] <= i /\ i < maxMsgNum - Lowered
                                  /\ buffer[i % MAXNUMMESSAGES] = k) => Unread(b, k)'
    BY <1>3, <1>5, <2>1, <2>3, Zenon
  <2>5. ASSUME NEW k, Unread(b, k) PROVE Unread(b, k)'
    <3>1. PICK n \in Nat : nextMsgNum[b] <= n /\ n < maxMsgNum /\ buffer[n % MAXNUMMESSAGES] = k
      BY <2>5, Zenon DEF Unread
    <3>2. Lowered <= n
      BY <1>1, <2>1, <2>2, <3>1
    <3>3. (n - Lowered) % MAXNUMMESSAGES = n % MAXNUMMESSAGES
      BY <1>1, <2>1, <2>2, <3>2, SlotsKept, Zenon
    <3>4. n - Lowered \in Nat /\ Positions[b] <= n - Lowered /\ n - Lowered < maxMsgNum - Lowered
      BY <1>1, <2>1, <2>2, <3>1, <3>2
    <3> QED
      BY <2>4, <3>1, <3>3, <3>4, Zenon
  <2> QED
    BY <2>4, <2>5, Zenon
<1>6. ~SISetProcStateInvalid(1)
  BY Zenon DEF SISetProcStateInvalid
<1> QED
  BY <1>4, <1>5, <1>6, Zenon DEF SIInsertDataEntry

\* One message less, or none was left.
LEMMA GetReads ==
  ASSUME InvalInv, NEW b \in Active, SIGetDataEntry(b), resetState[b] = 0
  PROVE  /\ resetState' = resetState /\ overflow' = overflow /\ GetResult(b) \in {0, 1}
         /\ GetResult(b) = 0 => HasRead(b) /\ HasRead(b)' /\ \A k : Unread(b, k) => Unread(b, k)'
         /\ GetResult(b) = 1 => \A k : Unread(b, k) /\ k # NextMessage(b) => Unread(b, k)'
         /\ \A c \in Backends \ {b} : /\ HasRead(c) => HasRead(c)'
                                      /\ \A k : Unread(c, k) => Unread(c, k)'
<1>1. /\ nextMsgNum[b] \in Nat /\ maxMsgNum \in Nat /\ b \in Backends
      /\ nextMsgNum \in [Backends -> Nat \cup {-1}] /\ resetState \in [Backends -> 0 .. 2]
  BY ActivePosition, Zenon DEF InvalInv, InvalTypeOK
<1>2. GetResult(b) = IF nextMsgNum[b] >= maxMsgNum THEN 0 ELSE 1
  BY Zenon DEF GetResult
<1>3. ~(GetResult(b) < 0) /\ GetResult(b) \in {0, 1}
  BY <1>2
<1>4. /\ nextMsgNum' = [nextMsgNum EXCEPT ![b] = nextMsgNum[b] + GetResult(b)]
      /\ resetState' = [resetState EXCEPT ![b] = resetState[b]]
      /\ UNCHANGED <<minMsgNum, maxMsgNum, buffer, overflow>>
  BY <1>3, Zenon DEF SIGetDataEntry
<1>5. resetState' = resetState
  BY <1>1, <1>4, Zenon
<1>6. CASE GetResult(b) = 0
  <2>1. nextMsgNum[b] + 0 = nextMsgNum[b] /\ HasRead(b)
    BY <1>1, <1>2, <1>6 DEF HasRead
  <2>2. nextMsgNum' = nextMsgNum
    BY <1>1, <1>4, <1>6, <2>1, Zenon
  <2>3. 0 # 1
    OBVIOUS
  <2> QED
    BY <1>3, <1>4, <1>5, <1>6, <2>1, <2>2, <2>3, Zenon DEF HasRead, Unread
<1>7. CASE GetResult(b) = 1
  <2>1. nextMsgNum'[b] = nextMsgNum[b] + 1
    BY <1>1, <1>4, <1>7, Zenon
  <2>2. ASSUME NEW k, Unread(b, k), k # NextMessage(b) PROVE Unread(b, k)'
    <3>1. PICK n \in Nat : nextMsgNum[b] <= n /\ n < maxMsgNum /\ buffer[n % MAXNUMMESSAGES] = k
      BY <2>2, Zenon DEF Unread
    <3>2. n # nextMsgNum[b]
      BY <2>2, <3>1, Zenon DEF NextMessage
    <3>3. nextMsgNum'[b] <= n
      BY <1>1, <2>1, <3>1, <3>2
    <3> QED
      BY <1>4, <3>1, <3>3, Zenon DEF Unread
  <2>3. \A c \in Backends \ {b} : nextMsgNum'[c] = nextMsgNum[c]
    BY <1>1, <1>4, Zenon
  <2>4. 0 # 1
    OBVIOUS
  <2> QED
    BY <1>3, <1>4, <1>5, <1>7, <2>2, <2>3, <2>4, Zenon DEF HasRead, Unread
<1> QED
  BY <1>3, <1>6, <1>7, Zenon

-----------------------------------------------------------------------------
(* What keeps the caches fresh.                                            *)

Kinds == {"rel", "sys"}
LockPlaces == {"out", "acquire", "asleep", "failed", "release", "releaseAll"}

\* What the lock manager promises (LockTable_proofs).
LockSound ==
  /\ lpc \in [Threads -> LockPlaces] /\ want \in [Threads -> Modes \cup {NoMode}]
  /\ holds \in [Threads -> [Modes -> Nat]]
  /\ NoConflictingModes

CacheTypes ==
  /\ version \in Nat \ {0}
  /\ mine \in [Threads -> BOOLEAN] /\ ref \in [Threads -> BOOLEAN]
  /\ cache \in [Threads -> [Kinds -> Nat]]
  /\ forall \in [Threads -> {<<>>, <<"sys">>, <<"rel", "sys">>}]

\* Where a transaction is with its lock, its change and the descriptor it uses.
Client(t) ==
  /\ lpc[t] \in {"acquire", "asleep"} => cpc[t] = "lock"
  /\ lpc[t] \in {"release", "releaseAll"} => cpc[t] \in {"unlock", "release"}
  /\ mine[t] => cpc[t] \in {"discard", "run", "lock", "abort"} /\ forall[t] = <<"rel", "sys">>
  /\ forall[t] # <<>> => (mine[t] \/ cpc[t] = "send") /\ holds[t]["AccessExclusive"] > 0
  /\ cpc[t] = "off" => \A k \in Kinds : cache[t][k] = 0
  /\ ref[t] => cpc[t] \in {"discard", "run", "lock", "unlock", "abort"} /\ cache[t]["rel"] # 0

\* The thread relies on what it has read of the queue.
Reading(t) == cpc[t] \in {"run", "unlock"} \/ (cpc[t] = "lock" /\ want[t] \in NoWait)
Relies(t) == \E m \in Modes \ NoWait : holds[t][m] > 0
ReadInv(t) == Reading(t) /\ Relies(t) => HasRead(t)

\* u has committed a change and has yet to publish it.
Unsent(u, k) ==
  ~mine[u] /\ (forall[u] = <<"rel", "sys">> \/ (k = "sys" /\ forall[u] = <<"sys">>))

\* What t has cached is true, or t will be told: the message is in the ring, or
\* its sender still holds its lock.
Fresh(t) ==
  \A k \in Kinds : \/ cache[t][k] \in {0, Seen(t)} \/ Unread(t, k)
                   \/ \E u \in Threads \ {t} : Unsent(u, k)

NoResets == \A b \in Backends : resetState[b] = 0

CatInv ==
  /\ CacheTypes /\ \A t \in Threads : Client(t)
  /\ ~overflow => NoResets /\ \A t \in Threads : ReadInv(t) /\ Fresh(t)

\* Nothing about u changes.
Same(u) ==
  /\ cpc'[u] = cpc[u] /\ lpc'[u] = lpc[u] /\ want'[u] = want[u]
  /\ mine'[u] = mine[u] /\ ref'[u] = ref[u] /\ forall'[u] = forall[u]

\* Whoever has a change to publish keeps its lock.
LEMMA ChangerHolds ==
  ASSUME LockSound, LockSound', HoldsChange, NEW t \in Threads, Client(t), forall[t] # <<>>
  PROVE  holds'[t]["AccessExclusive"] > 0
<1>1. "AccessExclusive" \in Modes
  BY Zenon DEF Modes
<1>2. /\ holds[t]["AccessExclusive"] \in Nat /\ holds'[t]["AccessExclusive"] \in Nat
      /\ holds[t]["AccessExclusive"] > 0
  BY <1>1, Zenon DEF LockSound, Client
<1>3. lpc[t] \notin {"release", "releaseAll"}
  BY Zenon DEF Client
<1>4. ~(holds'[t]["AccessExclusive"] < holds[t]["AccessExclusive"])
  BY <1>1, <1>3, Zenon DEF HoldsChange
<1> QED
  BY <1>2, <1>4

\* While it does, nobody else has one.
LEMMA ChangerAlone ==
  ASSUME LockSound, NEW t \in Threads, Client(t), forall[t] # <<>>, NEW u \in Threads \ {t}
  PROVE  ~Relies(u) /\ ~(holds[u]["AccessExclusive"] > 0)
<1>1. "AccessExclusive" \in Modes /\ LockConflicts["AccessExclusive"] = Modes
  BY Zenon DEF Modes, LockConflicts
<1>2. "AccessExclusive" \in HoldLock(holds, t)
  BY <1>1, Zenon DEF Client, HoldLock
<1>3. Modes \cap HoldLock(holds, u) = {}
  BY <1>1, <1>2, Zenon DEF LockSound, NoConflictingModes
<1> QED
  BY <1>1, <1>3, Zenon DEF HoldLock, Relies

\* A thread that relies on the queue is given no lock it has to read it for.
LEMMA RelianceOld ==
  ASSUME LockSound, LockSound', HoldsChange, NEW t \in Threads, Client(t), Reading(t), Relies(t)'
  PROVE  Relies(t)
<1>1. PICK m \in Modes \ NoWait : holds'[t][m] > 0
  BY Zenon DEF Relies
<1>2. ~(holds'[t][m] > holds[t][m])
  BY <1>1, Zenon DEF HoldsChange, Client, Reading
<1>3. holds[t][m] \in Nat /\ holds'[t][m] \in Nat
  BY <1>1, Zenon DEF LockSound
<1>4. holds[t][m] > 0
  BY <1>1, <1>2, <1>3
<1> QED
  BY <1>1, <1>4, Zenon DEF Relies

\* The others while t takes a step.
LEMMA OtherClient ==
  ASSUME LockSound, LockSound', HoldsChange, NEW u \in Threads, Client(u), Same(u),
         cache'[u] = cache[u]
  PROVE  Client(u)'
<1>1. forall[u] # <<>> => holds'[u]["AccessExclusive"] > 0
  BY ChangerHolds, Zenon
<1> QED
  BY <1>1, Zenon DEF Client, Same

LEMMA OtherReads ==
  ASSUME LockSound, LockSound', HoldsChange, NEW u \in Threads, Client(u), Same(u), ReadInv(u),
         HasRead(u) => HasRead(u)'
  PROVE  ReadInv(u)'
<1>1. Reading(u)' => Reading(u)
  BY Zenon DEF Reading, Same
<1> QED
  BY <1>1, RelianceOld, Zenon DEF ReadInv

LEMMA OtherFresh ==
  ASSUME NEW u \in Threads, Fresh(u), version' = version, mine'[u] = mine[u],
         cache'[u] = cache[u], \A k : Unread(u, k) => Unread(u, k)',
         \A v \in Threads \ {u}, k \in Kinds : Unsent(v, k) => Unsent(v, k)'
  PROVE  Fresh(u)'
<1>1. Seen(u)' = Seen(u)
  BY Zenon DEF Seen
<1> QED
  BY <1>1, Zenon DEF Fresh

\* A step of t: what is left to show for t itself and for the others' caches.
LEMMA StepKeeps ==
  ASSUME CatInv, LockSound, LockSound', HoldsChange, CacheTypes', NEW t \in Threads,
         \A u \in Threads \ {t} : Same(u) /\ cache'[u] = cache[u],
         Client(t)',
         ~overflow' =>
           /\ ~overflow /\ NoResets' /\ ReadInv(t)' /\ \A u \in Threads : Fresh(u)'
           /\ forall[t] # <<>> \/ \A u \in Threads \ {t} : HasRead(u) => HasRead(u)'
  PROVE  CatInv'
<1>1. \A u \in Threads : Client(u)'
  BY OtherClient, Zenon DEF CatInv
<1>2. ASSUME ~overflow', NEW u \in Threads \ {t} PROVE ReadInv(u)'
  <2>1. ReadInv(u) /\ Client(u) /\ Client(t) /\ Same(u)
    BY <1>2, Zenon DEF CatInv
  <2>2. CASE HasRead(u) => HasRead(u)'
    BY <2>1, <2>2, OtherReads, Zenon
  <2>3. CASE forall[t] # <<>>
    <3>1. ~Relies(u)
      BY <2>1, <2>3, ChangerAlone, Zenon
    <3>2. Reading(u)' => Reading(u)
      BY <2>1, Zenon DEF Reading, Same
    <3> QED
      BY <2>1, <3>1, <3>2, RelianceOld, Zenon DEF ReadInv
  <2> QED
    BY <1>2, <2>2, <2>3, Zenon
<1> QED
  BY <1>1, <1>2, Zenon DEF CatInv

\* A step that touches neither the queue nor what is cached.
LEMMA QuietKeeps ==
  ASSUME CatInv, LockSound, LockSound', HoldsChange, NEW t \in Threads,
         \A u \in Threads \ {t} : Same(u),
         UNCHANGED <<version, mine, cache, forall, invalVars>>, ref' \in [Threads -> BOOLEAN],
         Client(t)', Reading(t)' => Reading(t)
  PROVE  CatInv'
<1>1. UNCHANGED <<maxMsgNum, buffer, nextMsgNum, resetState, overflow>>
  BY Zenon DEF invalVars
<1>2. CacheTypes'
  BY Zenon DEF CatInv, CacheTypes
<1>3. \A u \in Threads : \A k : Unread(u, k) => Unread(u, k)'
  BY <1>1, Zenon DEF Unread
<1>4. \A u \in Threads, k \in Kinds : Unsent(u, k) => Unsent(u, k)'
  BY Zenon DEF Unsent
<1>5. ~overflow => \A u \in Threads : Fresh(u)'
  BY <1>3, <1>4, OtherFresh, Zenon DEF CatInv
<1>6. \A u \in Threads : HasRead(u) => HasRead(u)'
  BY <1>1, Zenon DEF HasRead
<1>7. ~overflow => ReadInv(t)'
  BY <1>6, RelianceOld, Zenon DEF CatInv, ReadInv
<1>8. ~overflow => NoResets'
  BY <1>1, Zenon DEF CatInv, NoResets
<1> QED
  BY <1>1, <1>2, <1>5, <1>6, <1>7, <1>8, StepKeeps, Zenon

\* Steps that change nothing but the lock and the place.
LEMMA PlaceKeeps ==
  ASSUME CatInv, cpc \in [Threads -> Places], LockSound, LockSound', HoldsChange,
         NEW t \in Threads, NEW l \in LockPlaces, NEW m, NEW to \in Places,
         cpc' = [cpc EXCEPT ![t] = to], lpc' = [lpc EXCEPT ![t] = l],
         want' = want \/ want' = [want EXCEPT ![t] = m],
         UNCHANGED <<version, mine, ref, cache, forall, invalVars>>,
         l \in {"acquire", "asleep"} => to = "lock",
         l \in {"release", "releaseAll"} => to \in {"unlock", "release"},
         mine[t] => to \in {"discard", "run", "lock", "abort"},
         forall[t] # <<>> => mine[t] \/ to = "send",
         ref[t] => to \in {"discard", "run", "lock", "unlock", "abort"},
         to # "off",
         Reading(t)' => Reading(t)
  PROVE  CatInv'
<1>1. /\ cpc'[t] = to /\ lpc'[t] = l
      /\ \A u \in Threads \ {t} : cpc'[u] = cpc[u] /\ lpc'[u] = lpc[u] /\ want'[u] = want[u]
  BY Zenon DEF LockSound
<1>2. \A u \in Threads \ {t} : Same(u)
  BY <1>1, Zenon DEF Same
<1>3. Client(t)
  BY Zenon DEF CatInv
<1>4. forall[t] # <<>> => holds'[t]["AccessExclusive"] > 0
  BY <1>3, ChangerHolds, Zenon
<1>5. Client(t)'
  BY <1>1, <1>3, <1>4, Zenon DEF Client
<1>6. ref' \in [Threads -> BOOLEAN]
  BY Zenon DEF CatInv, CacheTypes
<1> QED
  BY <1>2, <1>5, <1>6, QuietKeeps, Zenon

\* Steps of the lock manager and of the transaction around it.
LEMMA LockStepsKeep ==
  ASSUME CatInv, QueueInv, LockSound, LockSound', HoldsChange, NEW t \in Threads,
         \/ StartTransaction(t) \/ LockRelation(t) \/ UnlockRelation(t)
         \/ ThreadReleaseLocks(t) \/ TransactionUnlock(t)
  PROVE  CatInv'
<1>1. cpc \in [Threads -> Places] /\ lpc \in [Threads -> LockPlaces] /\ Client(t)
  BY Zenon DEF CatInv, QueueInv, JoinInv, LockSound
<1>2. lpc = [lpc EXCEPT ![t] = lpc[t]] /\ lpc[t] \in LockPlaces
  BY <1>1, Zenon
<1>3. {"idle", "discard", "run", "lock", "unlock", "send", "abort", "release"} \subseteq Places
      /\ {"out", "acquire", "asleep", "failed", "release", "releaseAll"} \subseteq LockPlaces
  BY Zenon DEF Places, LockPlaces
<1>4. ASSUME NEW to \in Places, cpc' = [cpc EXCEPT ![t] = to] PROVE cpc'[t] = to
  BY <1>1, <1>4, Zenon
<1>5. CASE StartTransaction(t)
  <2>1. /\ cpc[t] = "idle" /\ cpc' = [cpc EXCEPT ![t] = "discard"]
        /\ UNCHANGED <<lpc, want, version, mine, ref, cache, forall, invalVars>>
    BY <1>5, Zenon DEF StartTransaction, Goto, lockVars
  <2>2. ~Reading(t)'
    BY <1>3, <1>4, <2>1, Zenon DEF Reading
  <2> QED
    BY <1>1, <1>2, <1>3, <2>1, <2>2, PlaceKeeps, Zenon DEF Client
<1>6. CASE LockRelation(t)
  <2>1. /\ cpc[t] = "lock" /\ (LockAcquire(t) \/ WaitOnLock(t) \/ ThreadSleepCancelled(t))
        /\ UNCHANGED <<version, mine, ref, cache, forall, invalVars>>
        /\ CASE lpc'[t] = "failed" -> cpc' = [cpc EXCEPT ![t] = "abort"]
             [] lpc'[t] = "out" ->
                  cpc' = [cpc EXCEPT ![t] = IF want[t] \in NoWait THEN "run" ELSE "discard"]
             [] OTHER -> cpc' = cpc
    BY <1>6, Zenon DEF LockRelation, Goto, catVars
  <2>2. PICK l \in {"out", "asleep", "failed"} : lpc' = [lpc EXCEPT ![t] = l] /\ want' = want
    BY <2>1, Zenon DEF LockAcquire, WaitOnLock, ThreadSleepCancelled
  <2>3. lpc'[t] = l
    BY <1>1, <2>2, Zenon
  <2>4. cpc = [cpc EXCEPT ![t] = "lock"]
    BY <1>1, <2>1, Zenon
  <2>5. PICK to \in {"abort", "run", "discard", "lock"} :
          /\ cpc' = [cpc EXCEPT ![t] = to]
          /\ to = "lock" <=> l = "asleep"
          /\ to = "run" => want[t] \in NoWait
    BY <2>1, <2>2, <2>3, <2>4
  <2>6. to \in Places /\ l \in LockPlaces /\ cpc'[t] = to /\ to \notin {"off", "unlock", "send"}
    BY <1>1, <1>3, <2>5, Zenon
  <2>7. Reading(t)' => Reading(t)
    BY <2>1, <2>2, <2>5, <2>6, Zenon DEF Reading
  <2>8. forall[t] # <<>> => mine[t]
    BY <1>1, <2>1, Zenon DEF Client
  <2>9. mine[t] => to \in {"discard", "run", "lock", "abort"}
    BY <2>5, Zenon
  <2>10. /\ l \in {"acquire", "asleep"} => to = "lock"
         /\ l \in {"release", "releaseAll"} => to \in {"unlock", "release"}
    BY <2>2, <2>5, Zenon
  <2> QED
    BY <1>1, <2>1, <2>2, <2>5, <2>6, <2>7, <2>8, <2>9, <2>10, PlaceKeeps, Zenon
<1>7. CASE UnlockRelation(t)
  <2>1. /\ cpc[t] = "unlock" /\ cpc' = [cpc EXCEPT ![t] = "run"]
        /\ lpc' = [lpc EXCEPT ![t] = "out"] /\ want' = want
        /\ UNCHANGED <<version, mine, ref, cache, forall, invalVars>>
    BY <1>7, Zenon DEF UnlockRelation, Goto, LockRelease, catVars
  <2>2. Reading(t)
    BY <2>1, Zenon DEF Reading
  <2> QED
    BY <1>1, <1>3, <2>1, <2>2, PlaceKeeps, Zenon DEF Client
<1>8. CASE ThreadReleaseLocks(t)
  <2>1. /\ cpc[t] = "send" /\ forall[t] = <<>> /\ cpc' = [cpc EXCEPT ![t] = "release"]
        /\ lpc' = [lpc EXCEPT ![t] = "releaseAll"] /\ want' = [want EXCEPT ![t] = NoMode]
        /\ UNCHANGED <<version, mine, ref, cache, forall, invalVars>>
    BY <1>8, Zenon DEF ThreadReleaseLocks, Goto, LockReleaseAllFind, Find, catVars
  <2>2. ~Reading(t)'
    BY <1>3, <1>4, <2>1, Zenon DEF Reading
  <2> QED
    BY <1>1, <1>3, <2>1, <2>2, PlaceKeeps, Zenon DEF Client
<1>9. CASE TransactionUnlock(t)
  <2>1. /\ cpc[t] \in {"release", "send"} /\ cpc' = [cpc EXCEPT ![t] = "idle"]
        /\ lpc' = [lpc EXCEPT ![t] = "out"] \/ (cpc[t] = "send" /\ forall[t] = <<>> /\ lpc' = lpc)
        /\ want' = want
        /\ UNCHANGED <<version, mine, ref, cache, forall, invalVars>>
    BY <1>9, Zenon DEF TransactionUnlock, Goto, LockReleaseAll, catVars, lockVars
  <2>2. ~Reading(t)'
    BY <1>3, <1>4, <2>1, Zenon DEF Reading
  <2>3. cpc[t] = "release" \/ forall[t] = <<>>
    BY <1>9, Zenon DEF TransactionUnlock
  <2>4. CASE lpc' = [lpc EXCEPT ![t] = "out"]
    BY <1>1, <1>3, <2>1, <2>2, <2>3, <2>4, PlaceKeeps, Zenon DEF Client
  <2>5. CASE cpc[t] = "send" /\ forall[t] = <<>> /\ lpc' = lpc
    BY <1>1, <1>2, <1>3, <2>1, <2>2, <2>5, PlaceKeeps, Zenon DEF Client
  <2> QED
    BY <2>1, <2>4, <2>5, Zenon
<1> QED
  BY <1>5, <1>6, <1>7, <1>8, <1>9, Zenon

\* What a scan of the catalogues shows is a version.
LEMMA SeenType ==
  ASSUME CacheTypes, NEW t \in Threads
  PROVE  Seen(t) \in Nat /\ Seen(t) # 0
<1>1. version \in Nat /\ version # 0 /\ version + 1 \in Nat /\ version + 1 # 0
  BY DEF CacheTypes
<1> QED
  BY <1>1, Zenon DEF Seen

\* Opening the relation fills the cache with what t sees.
LEMMA OpenKeeps ==
  ASSUME CatInv, QueueInv, LockSound, LockSound', HoldsChange, NEW t \in Threads,
         NEW m \in Modes, heap_open(t, m)
  PROVE  CatInv'
<1>1. /\ cpc \in [Threads -> Places] /\ lpc \in [Threads -> LockPlaces] /\ Client(t)
      /\ CacheTypes /\ want \in [Threads -> Modes \cup {NoMode}]
  BY Zenon DEF CatInv, QueueInv, JoinInv, LockSound
<1> DEFINE C == [x \in {"rel", "sys"} |-> IF cache[t][x] = 0 THEN Seen(t) ELSE cache[t][x]]
<1>2. /\ cpc[t] = "run" /\ cpc' = [cpc EXCEPT ![t] = "lock"]
      /\ lpc' = [lpc EXCEPT ![t] = "acquire"] /\ want' = [want EXCEPT ![t] = m]
      /\ cache' = [cache EXCEPT ![t] = C] /\ ref' = [ref EXCEPT ![t] = TRUE]
      /\ UNCHANGED <<version, mine, forall>>
  BY Zenon DEF heap_open, Goto, Enter
<1>3. UNCHANGED <<maxMsgNum, buffer, nextMsgNum, resetState, overflow>>
  BY Zenon DEF heap_open, invalVars
<1>4. Seen(t) \in Nat /\ Seen(t) # 0
  BY <1>1, SeenType, Zenon
<1>5. cache \in [Threads -> [Kinds -> Nat]] /\ ref \in [Threads -> BOOLEAN]
  BY <1>1, Zenon DEF CacheTypes
<1>6. C \in [Kinds -> Nat] /\ \A k \in Kinds : C[k] = IF cache[t][k] = 0 THEN Seen(t) ELSE cache[t][k]
  BY <1>4, <1>5, Zenon DEF Kinds
<1> HIDE DEF C
<1>7. /\ cache' \in [Threads -> [Kinds -> Nat]] /\ cache'[t] = C
      /\ ref' \in [Threads -> BOOLEAN] /\ ref'[t]
      /\ cpc'[t] = "lock" /\ lpc'[t] = "acquire"
  BY <1>1, <1>2, <1>5, <1>6, Zenon
<1>8. CacheTypes'
  BY <1>1, <1>2, <1>7, Zenon DEF CacheTypes
<1>9. \A u \in Threads \ {t} : Same(u) /\ cache'[u] = cache[u]
  BY <1>1, <1>2, <1>5, Zenon DEF Same
<1>10. Client(t)'
  <2>1. "rel" \in Kinds
    BY Zenon DEF Kinds
  <2>2. cache'[t]["rel"] # 0
    BY <1>4, <1>6, <1>7, <2>1, Zenon
  <2>3. forall[t] # <<>> => holds'[t]["AccessExclusive"] > 0
    BY <1>1, ChangerHolds, Zenon
  <2> QED
    BY <1>1, <1>2, <1>7, <2>2, <2>3, Zenon DEF Client
<1>11. \A u \in Threads : \A k : Unread(u, k) => Unread(u, k)'
  BY <1>3, Zenon DEF Unread
<1>12. \A u \in Threads, k \in Kinds : Unsent(u, k) => Unsent(u, k)'
  BY <1>2, Zenon DEF Unsent
<1>13. ASSUME ~overflow', NEW u \in Threads PROVE Fresh(u)'
  <2>1. Fresh(u)
    BY <1>3, <1>13, Zenon DEF CatInv
  <2>2. CASE u # t
    BY <1>2, <1>9, <1>11, <1>12, <2>1, <2>2, OtherFresh, Zenon
  <2>3. CASE u = t
    <3>1. Seen(t)' = Seen(t)
      BY <1>2, Zenon DEF Seen
    <3> QED
      BY <1>6, <1>7, <1>11, <1>12, <2>1, <2>3, <3>1, Zenon DEF Fresh
  <2> QED
    BY <2>2, <2>3, Zenon
<1>14. \A u \in Threads : HasRead(u) => HasRead(u)'
  BY <1>3, Zenon DEF HasRead
<1>15. ~overflow' => ReadInv(t)'
  <2>1. Reading(t)
    BY <1>2, Zenon DEF Reading
  <2> QED
    BY <1>1, <1>3, <1>14, <2>1, RelianceOld, Zenon DEF CatInv, ReadInv
<1>16. ~overflow' => ~overflow /\ NoResets'
  BY <1>3, Zenon DEF CatInv, NoResets
<1> QED
  BY <1>8, <1>9, <1>10, <1>13, <1>14, <1>15, <1>16, StepKeeps, Zenon

\* Closing it.
LEMMA CloseKeeps ==
  ASSUME CatInv, QueueInv, LockSound, LockSound', HoldsChange, NEW t \in Threads,
         NEW m \in Modes, heap_close(t, m)
  PROVE  CatInv'
<1>1. /\ cpc \in [Threads -> Places] /\ lpc \in [Threads -> LockPlaces] /\ Client(t)
      /\ CacheTypes /\ want \in [Threads -> Modes \cup {NoMode}] /\ ref \in [Threads -> BOOLEAN]
  BY Zenon DEF CatInv, QueueInv, JoinInv, LockSound, CacheTypes
<1> DEFINE r == ref[t] /\ nHolding(holds, t) > 1
<1>2. /\ cpc[t] = "run" /\ cpc' = [cpc EXCEPT ![t] = "unlock"] /\ ~mine[t]
      /\ lpc' = [lpc EXCEPT ![t] = "release"] /\ want' = [want EXCEPT ![t] = m]
      /\ ref' = [ref EXCEPT ![t] = r]
      /\ UNCHANGED <<version, mine, cache, forall, invalVars>>
  BY Zenon DEF heap_close, Goto, LockReleaseFind, Find
<1>3. r \in BOOLEAN /\ (r => ref[t])
  BY Zenon
<1> HIDE DEF r
<1>4. /\ ref' \in [Threads -> BOOLEAN] /\ (ref'[t] => ref[t])
      /\ cpc'[t] = "unlock" /\ lpc'[t] = "release"
      /\ \A u \in Threads \ {t} : Same(u)
  BY <1>1, <1>2, <1>3, Zenon DEF Same
<1>5. Client(t)'
  BY <1>1, <1>2, <1>4, Zenon DEF Client
<1>6. Reading(t)
  BY <1>2, Zenon DEF Reading
<1> QED
  BY <1>2, <1>4, <1>5, <1>6, QuietKeeps, Zenon

\* Who has nothing to send has nothing unsent.
LEMMA NoneLeft ==
  ASSUME NEW t \in Threads, mine[t] \/ forall[t] = <<>>, NEW k
  PROVE  ~Unsent(t, k)
<1>1. <<>> # <<"rel", "sys">> /\ <<>> # <<"sys">>
  OBVIOUS
<1> QED
  BY <1>1, Zenon DEF Unsent

\* A change is seen by its own transaction only.
LEMMA CommandKeeps ==
  ASSUME CatInv, QueueInv, LockSound, LockSound', HoldsChange, NEW t \in Threads,
         CommandCounterIncrement(t)
  PROVE  CatInv'
<1>1. /\ cpc \in [Threads -> Places] /\ Client(t) /\ CacheTypes
  BY Zenon DEF CatInv, QueueInv, JoinInv
<1> DEFINE C == [rel |-> version + 1, sys |-> 0]
<1>2. /\ cpc[t] = "run" /\ cpc' = [cpc EXCEPT ![t] = "discard"] /\ ~mine[t]
      /\ holds[t]["AccessExclusive"] > 0
      /\ mine' = [mine EXCEPT ![t] = TRUE] /\ forall' = [forall EXCEPT ![t] = <<"rel", "sys">>]
      /\ cache' = [cache EXCEPT ![t] = C]
      /\ UNCHANGED <<lpc, want, holds, version, ref>>
  BY Zenon DEF CommandCounterIncrement, Goto, lockVars
<1>3. UNCHANGED <<maxMsgNum, buffer, nextMsgNum, resetState, overflow>>
  BY Zenon DEF CommandCounterIncrement, invalVars
<1>4. version + 1 \in Nat /\ version + 1 # 0
  BY <1>1 DEF CacheTypes
<1>5. C \in [Kinds -> Nat] /\ C["rel"] = version + 1 /\ C["sys"] = 0
  BY <1>4 DEF Kinds
<1> HIDE DEF C
<1>6. /\ mine \in [Threads -> BOOLEAN] /\ cache \in [Threads -> [Kinds -> Nat]]
      /\ forall \in [Threads -> {<<>>, <<"sys">>, <<"rel", "sys">>}]
  BY <1>1, Zenon DEF CacheTypes
<1>7. /\ cache' \in [Threads -> [Kinds -> Nat]] /\ cache'[t] = C
      /\ mine' \in [Threads -> BOOLEAN] /\ mine'[t]
      /\ forall' \in [Threads -> {<<>>, <<"sys">>, <<"rel", "sys">>}] /\ forall'[t] = <<"rel", "sys">>
      /\ cpc'[t] = "discard"
  BY <1>1, <1>2, <1>5, <1>6, Zenon
<1>8. CacheTypes'
  BY <1>1, <1>2, <1>7, Zenon DEF CacheTypes
<1>9. \A u \in Threads \ {t} : Same(u) /\ cache'[u] = cache[u]
  BY <1>1, <1>2, <1>6, Zenon DEF Same
<1>10. Client(t)'
  BY <1>1, <1>2, <1>4, <1>5, <1>7, Zenon DEF Client
<1>11. \A u \in Threads : \A k : Unread(u, k) => Unread(u, k)'
  BY <1>3, Zenon DEF Unread
<1>12. \A u \in Threads, k \in Kinds : Unsent(u, k) => Unsent(u, k)'
  <2>1. mine[t] \/ forall[t] = <<>>
    BY <1>1, <1>2, Zenon DEF Client
  <2>2. \A k : ~Unsent(t, k)
    BY <2>1, NoneLeft, Zenon
  <2> QED
    BY <1>9, <2>2, Zenon DEF Unsent, Same
<1>13. ASSUME ~overflow', NEW u \in Threads PROVE Fresh(u)'
  <2>1. Fresh(u)
    BY <1>3, <1>13, Zenon DEF CatInv
  <2>2. CASE u # t
    BY <1>2, <1>9, <1>11, <1>12, <2>1, <2>2, OtherFresh, Zenon DEF Same
  <2>3. CASE u = t
    <3>1. Seen(t)' = version + 1
      BY <1>2, <1>7, Zenon DEF Seen
    <3> QED
      BY <1>5, <1>7, <2>3, <3>1, Zenon DEF Fresh, Kinds
  <2> QED
    BY <2>2, <2>3, Zenon
<1>14. \A u \in Threads : HasRead(u) => HasRead(u)'
  BY <1>3, Zenon DEF HasRead
<1>15. ReadInv(t)'
  BY <1>7, Zenon DEF ReadInv, Reading
<1>16. ~overflow' => ~overflow /\ NoResets'
  BY <1>3, Zenon DEF CatInv, NoResets
<1> QED
  BY <1>8, <1>9, <1>10, <1>13, <1>14, <1>15, <1>16, StepKeeps, Zenon

\* A commit makes the others' caches stale, while it keeps them out of the relation.
LEMMA CommitKeeps ==
  ASSUME CatInv, QueueInv, LockSound, LockSound', HoldsChange, NEW t \in Threads,
         RecordTransactionCommit(t)
  PROVE  CatInv'
<1>1. /\ cpc \in [Threads -> Places] /\ Client(t) /\ CacheTypes
  BY Zenon DEF CatInv, QueueInv, JoinInv
<1>2. /\ cpc[t] = "run" /\ cpc' = [cpc EXCEPT ![t] = "send"] /\ version' = Seen(t)
      /\ mine' = [mine EXCEPT ![t] = FALSE] /\ ref' = [ref EXCEPT ![t] = FALSE]
      /\ UNCHANGED <<lpc, want, holds, cache, forall>>
  BY Zenon DEF RecordTransactionCommit, Goto, lockVars
<1>3. UNCHANGED <<maxMsgNum, buffer, nextMsgNum, resetState, overflow>>
  BY Zenon DEF RecordTransactionCommit, invalVars
<1>4. Seen(t) \in Nat \ {0}
  BY <1>1, SeenType, Zenon
<1>5. mine \in [Threads -> BOOLEAN] /\ ref \in [Threads -> BOOLEAN]
  BY <1>1, Zenon DEF CacheTypes
<1>6. /\ mine' \in [Threads -> BOOLEAN] /\ ~mine'[t] /\ ref' \in [Threads -> BOOLEAN] /\ ~ref'[t]
      /\ cpc'[t] = "send"
  BY <1>1, <1>2, <1>5, Zenon
<1>7. CacheTypes'
  BY <1>1, <1>2, <1>4, <1>6, Zenon DEF CacheTypes
<1>8. \A u \in Threads \ {t} : Same(u) /\ cache'[u] = cache[u]
  BY <1>1, <1>2, <1>5, Zenon DEF Same
<1>9. Client(t)'
  BY <1>1, <1>2, <1>6, Zenon DEF Client
<1>10. \A u \in Threads : \A k : Unread(u, k) => Unread(u, k)'
  BY <1>3, Zenon DEF Unread
<1>11. \A u \in Threads, k \in Kinds : Unsent(u, k) => Unsent(u, k)'
  BY <1>2, <1>6, <1>8, Zenon DEF Unsent, Same
<1>12. Seen(t)' = Seen(t)
  BY <1>2, <1>6, Zenon DEF Seen
<1>13. ASSUME ~overflow', NEW u \in Threads PROVE Fresh(u)'
  <2>1. Fresh(u)
    BY <1>3, <1>13, Zenon DEF CatInv
  <2>2. CASE u = t
    BY <1>2, <1>10, <1>11, <1>12, <2>1, <2>2, Zenon DEF Fresh
  <2>3. CASE u # t /\ mine[t]
    <3>1. \A k : Unsent(t, k)'
      BY <1>1, <1>2, <1>6, <2>3, Zenon DEF Unsent, Client
    <3> QED
      BY <2>3, <3>1, Zenon DEF Fresh
  <2>4. CASE u # t /\ ~mine[t]
    <3>1. version' = version
      BY <1>2, <2>4, Zenon DEF Seen
    <3> QED
      BY <1>8, <1>10, <1>11, <2>1, <2>4, <3>1, OtherFresh, Zenon DEF Same
  <2> QED
    BY <2>2, <2>3, <2>4, Zenon
<1>14. \A u \in Threads : HasRead(u) => HasRead(u)'
  BY <1>3, Zenon DEF HasRead
<1>15. ReadInv(t)'
  BY <1>6, Zenon DEF ReadInv, Reading
<1>16. ~overflow' => ~overflow /\ NoResets'
  BY <1>3, Zenon DEF CatInv, NoResets
<1> QED
  BY <1>7, <1>8, <1>9, <1>13, <1>14, <1>15, <1>16, StepKeeps, Zenon

\* A failed transaction forgets what it cached of its change.
LEMMA AbortKeeps ==
  ASSUME CatInv, QueueInv, LockSound, LockSound', HoldsChange, NEW t \in Threads,
         AbortTransaction(t)
  PROVE  CatInv'
<1>1. /\ cpc \in [Threads -> Places] /\ Client(t) /\ CacheTypes
  BY Zenon DEF CatInv, QueueInv, JoinInv
<1>2. /\ cpc[t] \in {"abort", "run"} /\ cpc' = [cpc EXCEPT ![t] = "send"]
      /\ cache' = [cache EXCEPT ![t] = IF mine[t] THEN NoCache ELSE cache[t]]
      /\ mine' = [mine EXCEPT ![t] = FALSE] /\ ref' = [ref EXCEPT ![t] = FALSE]
      /\ forall' = [forall EXCEPT ![t] = <<>>]
      /\ UNCHANGED <<lpc, want, holds, version>>
  BY Zenon DEF AbortTransaction, Goto, lockVars
<1>3. UNCHANGED <<maxMsgNum, buffer, nextMsgNum, resetState, overflow>>
  BY Zenon DEF AbortTransaction, invalVars
<1>4. NoCache \in [Kinds -> Nat] /\ \A k \in Kinds : NoCache[k] = 0
  BY DEF NoCache, Kinds
<1>5. /\ mine \in [Threads -> BOOLEAN] /\ ref \in [Threads -> BOOLEAN]
      /\ cache \in [Threads -> [Kinds -> Nat]]
      /\ forall \in [Threads -> {<<>>, <<"sys">>, <<"rel", "sys">>}]
  BY <1>1, Zenon DEF CacheTypes
<1>6. /\ mine' \in [Threads -> BOOLEAN] /\ ~mine'[t] /\ ref' \in [Threads -> BOOLEAN] /\ ~ref'[t]
      /\ forall' \in [Threads -> {<<>>, <<"sys">>, <<"rel", "sys">>}] /\ forall'[t] = <<>>
      /\ cache' \in [Threads -> [Kinds -> Nat]] /\ cache'[t] = (IF mine[t] THEN NoCache ELSE cache[t])
      /\ cpc'[t] = "send"
  BY <1>1, <1>2, <1>4, <1>5, Zenon
<1>7. CacheTypes'
  BY <1>1, <1>2, <1>6, Zenon DEF CacheTypes
<1>8. \A u \in Threads \ {t} : Same(u) /\ cache'[u] = cache[u]
  BY <1>1, <1>2, <1>5, Zenon DEF Same
<1>9. Client(t)'
  BY <1>1, <1>2, <1>6, Zenon DEF Client
<1>10. \A u \in Threads : \A k : Unread(u, k) => Unread(u, k)'
  BY <1>3, Zenon DEF Unread
<1>11. \A u \in Threads, k \in Kinds : Unsent(u, k) => Unsent(u, k)'
  <2>1. mine[t] \/ forall[t] = <<>>
    BY <1>1, <1>2, Zenon DEF Client
  <2>2. \A k : ~Unsent(t, k)
    BY <2>1, NoneLeft, Zenon
  <2> QED
    BY <1>8, <2>2, Zenon DEF Unsent, Same
<1>12. ASSUME ~overflow', NEW u \in Threads PROVE Fresh(u)'
  <2>1. Fresh(u)
    BY <1>3, <1>12, Zenon DEF CatInv
  <2>2. CASE u # t
    BY <1>2, <1>8, <1>10, <1>11, <2>1, <2>2, OtherFresh, Zenon DEF Same
  <2>3. CASE u = t /\ mine[t]
    BY <1>4, <1>6, <2>3, Zenon DEF Fresh
  <2>4. CASE u = t /\ ~mine[t]
    <3>1. Seen(t)' = Seen(t)
      BY <1>2, <1>6, <2>4, Zenon DEF Seen
    <3> QED
      BY <1>6, <1>10, <1>11, <2>1, <2>4, <3>1, Zenon DEF Fresh
  <2> QED
    BY <2>2, <2>3, <2>4, Zenon
<1>13. \A u \in Threads : HasRead(u) => HasRead(u)'
  BY <1>3, Zenon DEF HasRead
<1>14. ReadInv(t)'
  BY <1>6, Zenon DEF ReadInv, Reading
<1>15. ~overflow' => ~overflow /\ NoResets'
  BY <1>3, Zenon DEF CatInv, NoResets
<1> QED
  BY <1>7, <1>8, <1>9, <1>12, <1>13, <1>14, <1>15, StepKeeps, Zenon

\* A published change is in the ring for every connection that caches it.
LEMMA PublishKeeps ==
  ASSUME CatInv, QueueInv, LockSound, LockSound', HoldsChange, NEW t \in Threads,
         RegisterSharedInvalid(t)
  PROVE  CatInv'
<1> DEFINE d == Head(forall[t])
           x == Tail(forall[t])
<1>1. /\ cpc \in [Threads -> Places] /\ Client(t) /\ CacheTypes /\ InvalInv
      /\ \A u \in Threads : cpc[u] # "off" => u \in Active
  BY Zenon DEF CatInv, QueueInv, JoinInv
<1>2. /\ cpc[t] = "send" /\ forall[t] # <<>> /\ SIInsertDataEntry(d)
      /\ forall' = [forall EXCEPT ![t] = x]
      /\ UNCHANGED <<cpc, lpc, want, holds, version, mine, ref, cache>>
  BY Zenon DEF RegisterSharedInvalid, lockVars, envVars
<1>3. forall \in [Threads -> {<<>>, <<"sys">>, <<"rel", "sys">>}]
  BY <1>1, Zenon DEF CacheTypes
<1>4. ~mine[t]
  BY <1>1, <1>2, Zenon DEF Client
<1>5. \/ forall[t] = <<"rel", "sys">> /\ d = "rel" /\ x = <<"sys">>
      \/ forall[t] = <<"sys">> /\ d = "sys" /\ x = <<>>
  <2>1. forall[t] = <<"sys">> \/ forall[t] = <<"rel", "sys">>
    BY <1>2, <1>3, Zenon
  <2>2. CASE forall[t] = <<"sys">>
    BY <2>2
  <2>3. CASE forall[t] = <<"rel", "sys">>
    BY <2>3
  <2> QED
    BY <2>1, <2>2, <2>3, Zenon
<1> HIDE DEF d, x
<1>6. d \in Messages /\ x \in {<<>>, <<"sys">>, <<"rel", "sys">>}
  BY <1>5, CatalogAssumption, Zenon
<1>7. forall' \in [Threads -> {<<>>, <<"sys">>, <<"rel", "sys">>}] /\ forall'[t] = x
  BY <1>2, <1>3, <1>6, Zenon
<1>8. CacheTypes'
  BY <1>1, <1>2, <1>7, Zenon DEF CacheTypes
<1>9. \A u \in Threads \ {t} : Same(u) /\ cache'[u] = cache[u]
  BY <1>2, <1>3, Zenon DEF Same
<1>10. holds'[t]["AccessExclusive"] > 0
  BY <1>1, <1>2, ChangerHolds, Zenon
<1>11. Client(t)'
  BY <1>1, <1>2, <1>4, <1>10, Zenon DEF Client
<1>12. ReadInv(t)'
  BY <1>2, Zenon DEF ReadInv, Reading
<1>13. ASSUME ~overflow' PROVE ~overflow /\ NoResets' /\ \A u \in Threads : Fresh(u)'
  <2>0. PICK c \in Messages : c = d
    BY <1>6, Zenon
  <2>1. \A u \in Active : /\ ~overflow /\ resetState' = resetState /\ Unread(u, c)'
                          /\ \A k : Unread(u, k) => Unread(u, k)'
    BY <1>1, <1>2, <1>13, <2>0, InsertReads, Zenon
  <2>2. t \in Active
    BY <1>1, <1>2, Zenon
  <2>3. ~overflow /\ resetState' = resetState
    BY <2>1, <2>2, Zenon
  <2>4. NoResets'
    BY <2>3, Zenon DEF CatInv, NoResets
  <2>5. ASSUME NEW k \in Kinds, Unsent(t, k), k # c PROVE Unsent(t, k)'
    <3>1. <<"sys">> # <<"rel", "sys">>
      OBVIOUS
    <3> QED
      BY <1>2, <1>4, <1>5, <1>7, <2>0, <2>5, <3>1, Zenon DEF Unsent, Kinds
  <2>6. \A v \in Threads \ {t}, k \in Kinds : Unsent(v, k) => Unsent(v, k)'
    BY <1>9, Zenon DEF Unsent, Same
  <2>7. ASSUME NEW u \in Threads PROVE Fresh(u)'
    <3>1. Fresh(u) /\ Client(u)
      BY <2>3, Zenon DEF CatInv
    <3>2. Seen(u)' = Seen(u)
      BY <1>2, Zenon DEF Seen
    <3>3. CASE cpc[u] = "off"
      BY <1>2, <3>1, <3>3, Zenon DEF Client, Fresh
    <3>4. CASE cpc[u] # "off"
      <4>1. Unread(u, c)' /\ \A k : Unread(u, k) => Unread(u, k)'
        BY <1>1, <2>1, <3>4, Zenon
      <4>2. SUFFICES ASSUME NEW k \in Kinds
                     PROVE  \/ cache'[u][k] \in {0, Seen(u)'} \/ Unread(u, k)'
                            \/ \E v \in Threads \ {u} : Unsent(v, k)'
        BY Zenon DEF Fresh
      <4>3. \/ cache[u][k] \in {0, Seen(u)} \/ Unread(u, k)
            \/ \E v \in Threads \ {u} : Unsent(v, k)
        BY <3>1, Zenon DEF Fresh
      <4>4. ASSUME NEW v \in Threads \ {u}, Unsent(v, k) PROVE Unread(u, k)' \/ Unsent(v, k)'
        BY <2>5, <2>6, <4>1, <4>4, Zenon
      <4> QED
        BY <1>2, <3>2, <4>1, <4>3, <4>4, Zenon
    <3> QED
      BY <3>3, <3>4, Zenon
  <2> QED
    BY <2>3, <2>4, <2>7, Zenon
<1> QED
  BY <1>2, <1>8, <1>9, <1>11, <1>12, <1>13, StepKeeps, Zenon

\* A connection comes with an empty cache and all messages read ...
LEMMA ConnectKeeps ==
  ASSUME CatInv, QueueInv, LockSound, LockSound', HoldsChange, NEW t \in Threads, Connect(t)
  PROVE  CatInv'
<1>1. /\ cpc \in [Threads -> Places] /\ Client(t) /\ CacheTypes /\ InvalInv /\ t \in Backends
  BY CatalogAssumption, Zenon DEF CatInv, QueueInv, JoinInv
<1>2. /\ cpc[t] = "off" /\ cpc' = [cpc EXCEPT ![t] = "idle"] /\ SIBackendInit(t)
      /\ UNCHANGED <<lpc, want, holds, version, mine, ref, forall, cache>>
  BY Zenon DEF Connect, Goto, lockVars, catVars
<1>3. /\ nextMsgNum' = [nextMsgNum EXCEPT ![t] = maxMsgNum]
      /\ resetState' = [resetState EXCEPT ![t] = 0]
      /\ UNCHANGED <<maxMsgNum, buffer, overflow>>
  BY <1>2, Zenon DEF SIBackendInit
<1>4. nextMsgNum \in [Backends -> Nat \cup {-1}] /\ resetState \in [Backends -> 0 .. 2]
  BY <1>1, Zenon DEF InvalInv, InvalTypeOK
<1>5. CacheTypes' /\ cpc'[t] = "idle"
  BY <1>1, <1>2, Zenon DEF CacheTypes
<1>6. \A u \in Threads \ {t} : Same(u) /\ cache'[u] = cache[u]
  BY <1>1, <1>2, Zenon DEF Same
<1>7. Client(t)' /\ \A k \in Kinds : cache[t][k] = 0
  BY <1>1, <1>2, <1>5, Zenon DEF Client
<1>8. \A u \in Threads \ {t} : /\ HasRead(u) => HasRead(u)'
                               /\ \A k : Unread(u, k) => Unread(u, k)'
  BY <1>1, <1>3, <1>4, CatalogAssumption, Zenon DEF HasRead, Unread
<1>9. \A u \in Threads, k \in Kinds : Unsent(u, k) => Unsent(u, k)'
  BY <1>2, Zenon DEF Unsent
<1>10. ASSUME ~overflow', NEW u \in Threads PROVE Fresh(u)'
  <2>1. CASE u = t
    BY <1>2, <1>7, <2>1, Zenon DEF Fresh
  <2>2. CASE u # t
    BY <1>2, <1>3, <1>8, <1>9, <1>10, <2>2, OtherFresh, Zenon DEF CatInv
  <2> QED
    BY <2>1, <2>2, Zenon
<1>11. ReadInv(t)'
  BY <1>5, Zenon DEF ReadInv, Reading
<1>12. ~overflow' => ~overflow /\ NoResets'
  BY <1>1, <1>3, <1>4, Zenon DEF CatInv, NoResets
<1> QED
  BY <1>5, <1>6, <1>7, <1>8, <1>10, <1>11, <1>12, StepKeeps, Zenon

\* ... and leaves an empty cache behind.
LEMMA DisconnectKeeps ==
  ASSUME CatInv, QueueInv, LockSound, LockSound', HoldsChange, NEW t \in Threads, Disconnect(t)
  PROVE  CatInv'
<1>1. /\ cpc \in [Threads -> Places] /\ Client(t) /\ CacheTypes /\ InvalInv /\ t \in Backends
  BY CatalogAssumption, Zenon DEF CatInv, QueueInv, JoinInv
<1>2. /\ cpc[t] = "idle" /\ cpc' = [cpc EXCEPT ![t] = "off"] /\ CleanupInvalidationState(t)
      /\ cache' = [cache EXCEPT ![t] = NoCache]
      /\ UNCHANGED <<lpc, want, holds, version, mine, ref, forall>>
  BY Zenon DEF Disconnect, Goto, lockVars
<1>3. /\ nextMsgNum' = [nextMsgNum EXCEPT ![t] = -1]
      /\ resetState' = [resetState EXCEPT ![t] = 0]
      /\ UNCHANGED <<maxMsgNum, buffer, overflow>>
  BY <1>2, Zenon DEF CleanupInvalidationState
<1>4. /\ nextMsgNum \in [Backends -> Nat \cup {-1}] /\ resetState \in [Backends -> 0 .. 2]
      /\ cache \in [Threads -> [Kinds -> Nat]]
  BY <1>1, Zenon DEF InvalInv, InvalTypeOK, CacheTypes
<1>5. NoCache \in [Kinds -> Nat] /\ \A k \in Kinds : NoCache[k] = 0
  BY DEF NoCache, Kinds
<1>6. /\ cache' \in [Threads -> [Kinds -> Nat]] /\ cache'[t] = NoCache /\ cpc'[t] = "off"
  BY <1>1, <1>2, <1>4, <1>5, Zenon
<1>7. CacheTypes'
  BY <1>1, <1>2, <1>6, Zenon DEF CacheTypes
<1>8. \A u \in Threads \ {t} : Same(u) /\ cache'[u] = cache[u]
  BY <1>1, <1>2, <1>4, Zenon DEF Same
<1>9. Client(t)'
  BY <1>1, <1>2, <1>5, <1>6, Zenon DEF Client
<1>10. \A u \in Threads \ {t} : /\ HasRead(u) => HasRead(u)'
                                /\ \A k : Unread(u, k) => Unread(u, k)'
  BY <1>1, <1>3, <1>4, CatalogAssumption, Zenon DEF HasRead, Unread
<1>11. \A u \in Threads, k \in Kinds : Unsent(u, k) => Unsent(u, k)'
  BY <1>2, Zenon DEF Unsent
<1>12. ASSUME ~overflow', NEW u \in Threads PROVE Fresh(u)'
  <2>1. CASE u = t
    BY <1>5, <1>6, <2>1, Zenon DEF Fresh
  <2>2. CASE u # t
    BY <1>2, <1>3, <1>8, <1>10, <1>11, <1>12, <2>2, OtherFresh, Zenon DEF CatInv
  <2> QED
    BY <2>1, <2>2, Zenon
<1>13. ReadInv(t)'
  BY <1>6, Zenon DEF ReadInv, Reading
<1>14. ~overflow' => ~overflow /\ NoResets'
  BY <1>1, <1>3, <1>4, Zenon DEF CatInv, NoResets
<1> QED
  BY <1>7, <1>8, <1>9, <1>10, <1>12, <1>13, <1>14, StepKeeps, Zenon

\* CacheIdInvalidate changes the one entry of the one cache.
LEMMA InvalidatedFacts ==
  ASSUME CacheTypes, NEW t \in Threads, NEW m
  PROVE  /\ Invalidated(t, m) \in [Threads -> [Kinds -> Nat]]
         /\ \A u \in Threads \ {t} : Invalidated(t, m)[u] = cache[u]
         /\ \A k \in Kinds \ {m} : Invalidated(t, m)[t][k] = cache[t][k]
         /\ m \in Kinds => Invalidated(t, m)[t][m] =
                             IF m = "rel" /\ cache[t][m] # 0 /\ ref[t] THEN Seen(t) ELSE 0
<1>1. cache \in [Threads -> [Kinds -> Nat]] /\ Seen(t) \in Nat /\ 0 \in Nat
  BY SeenType DEF CacheTypes
<1> DEFINE x == IF m = "rel" /\ cache[t][m] # 0 /\ ref[t] THEN Seen(t) ELSE 0
           c == [cache[t] EXCEPT ![m] = x]
<1>2. Invalidated(t, m) = [cache EXCEPT ![t] = c]
  BY Zenon DEF Invalidated
<1>3. x \in Nat
  BY <1>1, Zenon
<1> HIDE DEF x
<1>4. /\ c \in [Kinds -> Nat] /\ \A k \in Kinds \ {m} : c[k] = cache[t][k]
      /\ m \in Kinds => c[m] = x
  BY <1>1, <1>3, Zenon
<1> HIDE DEF c
<1>5. /\ Invalidated(t, m) \in [Threads -> [Kinds -> Nat]] /\ Invalidated(t, m)[t] = c
      /\ \A u \in Threads \ {t} : Invalidated(t, m)[u] = cache[u]
  BY <1>1, <1>2, <1>4, Zenon
<1> QED
  BY <1>4, <1>5, Zenon DEF x

\* One turn of InvalidateSharedInvalid.
LEMMA ProcessedFacts ==
  ASSUME CacheTypes, InvalInv, NEW t \in Threads, t \in Backends, Processed(t)
  PROVE  /\ cache' \in [Threads -> [Kinds -> Nat]]
         /\ \A u \in Threads \ {t} : cache'[u] = cache[u]
         /\ ref[t] /\ cache[t]["rel"] # 0 => cache'[t]["rel"] # 0
         /\ (\A k \in Kinds : cache[t][k] = 0) => \A k \in Kinds : cache'[t][k] = 0
         /\ GetResult(t) = 0 => cache' = cache
         /\ GetResult(t) = 1 => \A k \in Kinds : IF k = NextMessage(t) THEN cache'[t][k] \in {0, Seen(t)}
                                                 ELSE cache'[t][k] = cache[t][k]
<1>1. cache \in [Threads -> [Kinds -> Nat]] /\ "rel" \in Kinds /\ "sys" \in Kinds /\ "rel" # "sys"
  BY Zenon DEF CacheTypes, Kinds
<1>2. Seen(t) \in Nat /\ Seen(t) # 0
  BY SeenType, Zenon
<1>3. 1 # 0 /\ -1 # 0 /\ -2 # 0 /\ 1 # -1 /\ 1 # -2 /\ -1 # -2 /\ 0 \in Nat
  OBVIOUS
<1>4. resetState[t] \in 0 .. 2
  BY Zenon DEF InvalInv, InvalTypeOK
<1>5. GetResult(t) \in {0, 1, -1, -2}
  BY <1>4 DEF GetResult
<1>6. CASE GetResult(t) = 0
  <2>1. cache' = cache
    BY <1>3, <1>6, Zenon DEF Processed
  <2> QED
    BY <1>1, <1>3, <1>6, <2>1, Zenon
<1>7. CASE GetResult(t) = 1
  <2>0. PICK m : m = NextMessage(t)
    OBVIOUS
  <2>1. cache' = Invalidated(t, m)
    BY <1>3, <1>7, <2>0, Zenon DEF Processed
  <2>2. /\ cache' \in [Threads -> [Kinds -> Nat]]
        /\ \A u \in Threads \ {t} : cache'[u] = cache[u]
        /\ \A k \in Kinds \ {m} : cache'[t][k] = cache[t][k]
        /\ m \in Kinds => cache'[t][m] =
                            IF m = "rel" /\ cache[t][m] # 0 /\ ref[t] THEN Seen(t) ELSE 0
    <3>1. /\ Invalidated(t, m) \in [Threads -> [Kinds -> Nat]]
          /\ \A u \in Threads \ {t} : Invalidated(t, m)[u] = cache[u]
          /\ \A k \in Kinds \ {m} : Invalidated(t, m)[t][k] = cache[t][k]
          /\ m \in Kinds => Invalidated(t, m)[t][m] =
                              IF m = "rel" /\ cache[t][m] # 0 /\ ref[t] THEN Seen(t) ELSE 0
      BY InvalidatedFacts, Zenon
    <3> QED
      BY <2>1, <3>1, Zenon
  <2>3. \A k \in Kinds : IF k = m THEN cache'[t][k] \in {0, Seen(t)} ELSE cache'[t][k] = cache[t][k]
    BY <2>2, Zenon
  <2>4. ref[t] /\ cache[t]["rel"] # 0 => cache'[t]["rel"] # 0
    BY <1>1, <1>2, <2>2, Zenon
  <2>5. (\A k \in Kinds : cache[t][k] = 0) => \A k \in Kinds : cache'[t][k] = 0
    BY <2>2, Zenon
  <2> QED
    BY <1>3, <1>7, <2>0, <2>2, <2>3, <2>4, <2>5, Zenon
<1>8. CASE GetResult(t) = -1
  <2> DEFINE I == Invalidated(t, "rel")
             c == [I[t] EXCEPT !["sys"] = 0]
  <2>1. /\ I \in [Threads -> [Kinds -> Nat]]
        /\ \A u \in Threads \ {t} : I[u] = cache[u]
        /\ I[t]["rel"] = IF cache[t]["rel"] # 0 /\ ref[t] THEN Seen(t) ELSE 0
    BY <1>1, InvalidatedFacts, Zenon
  <2>2. cache' = [I EXCEPT ![t] = c]
    <3>1. cache' = [I EXCEPT ![t].sys = 0]
      BY <1>3, <1>8, Zenon DEF Processed
    <3> QED
      BY <3>1, Zenon
  <2> HIDE DEF I
  <2>3. c \in [Kinds -> Nat] /\ c["rel"] = I[t]["rel"] /\ c["sys"] = 0
    BY <1>1, <1>3, <2>1, Zenon
  <2> HIDE DEF c
  <2>4. /\ cache' \in [Threads -> [Kinds -> Nat]] /\ cache'[t] = c
        /\ \A u \in Threads \ {t} : cache'[u] = cache[u]
    BY <2>1, <2>2, <2>3, Zenon
  <2>5. ref[t] /\ cache[t]["rel"] # 0 => cache'[t]["rel"] # 0
    BY <1>2, <2>1, <2>3, <2>4, Zenon
  <2>6. (\A k \in Kinds : cache[t][k] = 0) => \A k \in Kinds : cache'[t][k] = 0
    BY <2>1, <2>3, <2>4, Zenon DEF Kinds
  <2> QED
    BY <1>3, <1>8, <2>4, <2>5, <2>6, Zenon
<1>9. CASE GetResult(t) = -2
  <2>1. cache' = Invalidated(t, "sys")
    BY <1>3, <1>9, Zenon DEF Processed
  <2>2. /\ cache' \in [Threads -> [Kinds -> Nat]]
        /\ \A u \in Threads \ {t} : cache'[u] = cache[u]
        /\ cache'[t]["rel"] = cache[t]["rel"] /\ cache'[t]["sys"] = 0
    <3>1. PICK m : m = "sys"
      OBVIOUS
    <3>2. /\ Invalidated(t, m) \in [Threads -> [Kinds -> Nat]]
          /\ \A u \in Threads \ {t} : Invalidated(t, m)[u] = cache[u]
          /\ \A k \in Kinds \ {m} : Invalidated(t, m)[t][k] = cache[t][k]
          /\ m \in Kinds => Invalidated(t, m)[t][m] =
                              IF m = "rel" /\ cache[t][m] # 0 /\ ref[t] THEN Seen(t) ELSE 0
      BY InvalidatedFacts, Zenon
    <3>3. cache' = Invalidated(t, m) /\ m # "rel" /\ m \in Kinds
      BY <1>1, <2>1, <3>1, Zenon
    <3>4. cache'[t][m] = 0 /\ cache'[t]["rel"] = cache[t]["rel"]
      BY <1>1, <3>2, <3>3, Zenon
    <3> QED
      BY <3>1, <3>2, <3>3, <3>4, Zenon
  <2>3. (\A k \in Kinds : cache[t][k] = 0) => \A k \in Kinds : cache'[t][k] = 0
    BY <2>2, Zenon DEF Kinds
  <2> QED
    BY <1>3, <1>9, <2>2, <2>3, Zenon
<1> QED
  BY <1>5, <1>6, <1>7, <1>8, <1>9, Zenon

\* Reading a message: the thread goes on to work only when there is none left.
LEMMA ReadKeeps ==
  ASSUME CatInv, InvalInv, LockSound, LockSound', HoldsChange, NEW t \in Threads, t \in Active,
         Processed(t), SIGetDataEntry(t),
         UNCHANGED <<lockVars, version, mine, ref, forall>>,
         \A u \in Threads \ {t} : cpc'[u] = cpc[u],
         \/ cpc'[t] = cpc[t]
         \/ cpc[t] = "discard" /\ cpc'[t] = "run" /\ GetResult(t) = 0
  PROVE  CatInv'
<1>1. CacheTypes /\ Client(t) /\ \A u \in Threads : u \in Backends
  BY CatalogAssumption, Zenon DEF CatInv
<1>2. UNCHANGED <<lpc, want, holds>>
  BY Zenon DEF lockVars
<1>3. /\ cache' \in [Threads -> [Kinds -> Nat]]
      /\ \A u \in Threads \ {t} : cache'[u] = cache[u]
      /\ ref[t] /\ cache[t]["rel"] # 0 => cache'[t]["rel"] # 0
      /\ (\A k \in Kinds : cache[t][k] = 0) => \A k \in Kinds : cache'[t][k] = 0
      /\ GetResult(t) = 0 => cache' = cache
      /\ GetResult(t) = 1 => \A k \in Kinds : IF k = NextMessage(t) THEN cache'[t][k] \in {0, Seen(t)}
                                              ELSE cache'[t][k] = cache[t][k]
  BY <1>1, ProcessedFacts, Zenon
<1>4. CacheTypes'
  BY <1>1, <1>3, Zenon DEF CacheTypes
<1>5. \A u \in Threads \ {t} : Same(u)
  BY <1>2, Zenon DEF Same
<1>6. Client(t)'
  BY <1>1, <1>2, <1>3, Zenon DEF Client
<1>7. \A u \in Threads, k \in Kinds : Unsent(u, k) => Unsent(u, k)'
  BY Zenon DEF Unsent
<1>8. overflow' = overflow
  BY Zenon DEF SIGetDataEntry
<1>9. ASSUME ~overflow'
      PROVE  /\ ~overflow /\ NoResets' /\ ReadInv(t)' /\ \A u \in Threads : Fresh(u)'
             /\ \A u \in Threads \ {t} : HasRead(u) => HasRead(u)'
  <2>1. ~overflow /\ NoResets /\ ReadInv(t) /\ \A u \in Threads : Fresh(u)
    BY <1>8, <1>9, Zenon DEF CatInv
  <2>2. resetState[t] = 0
    BY <1>1, <2>1, Zenon DEF NoResets
  <2>3. /\ resetState' = resetState /\ GetResult(t) \in {0, 1}
        /\ GetResult(t) = 0 => HasRead(t) /\ HasRead(t)' /\ \A k : Unread(t, k) => Unread(t, k)'
        /\ GetResult(t) = 1 => \A k : Unread(t, k) /\ k # NextMessage(t) => Unread(t, k)'
        /\ \A u \in Backends \ {t} : /\ HasRead(u) => HasRead(u)'
                                     /\ \A k : Unread(u, k) => Unread(u, k)'
    BY <2>2, GetReads, Zenon
  <2>4. NoResets'
    BY <2>1, <2>3, Zenon DEF NoResets
  <2>5. HasRead(t) => HasRead(t)'
    <3>1. HasRead(t) => GetResult(t) = 0
      BY <2>2, Zenon DEF HasRead, GetResult
    <3> QED
      BY <2>3, <3>1, Zenon
  <2>6. ReadInv(t)'
    <3>1. CASE cpc'[t] = cpc[t]
      BY <1>2, <2>1, <2>5, <3>1, Zenon DEF ReadInv, Reading, Relies
    <3>2. CASE GetResult(t) = 0
      BY <2>3, <3>2, Zenon DEF ReadInv
    <3> QED
      BY <3>1, <3>2, Zenon
  <2>7. \A u \in Threads : Seen(u)' = Seen(u)
    BY Zenon DEF Seen
  <2>8. Fresh(t)'
    <3>1. CASE GetResult(t) = 0
      BY <1>3, <1>7, <2>1, <2>3, <2>7, <3>1, Zenon DEF Fresh
    <3>2. CASE GetResult(t) = 1
      BY <1>3, <1>7, <2>1, <2>3, <2>7, <3>2, Zenon DEF Fresh
    <3> QED
      BY <2>3, <3>1, <3>2, Zenon
  <2>9. \A u \in Threads \ {t} : Fresh(u)'
    BY <1>1, <1>3, <1>7, <2>1, <2>3, OtherFresh, Zenon
  <2> QED
    BY <1>1, <2>1, <2>3, <2>4, <2>6, <2>8, <2>9, Zenon
<1> QED
  BY <1>3, <1>4, <1>5, <1>6, <1>9, StepKeeps, Zenon

LEMMA DiscardKeeps ==
  ASSUME CatInv, QueueInv, LockSound, LockSound', HoldsChange, NEW t \in Threads,
         DiscardInvalid(t)
  PROVE  CatInv'
<1>1. cpc \in [Threads -> Places] /\ InvalInv /\ \A u \in Threads : cpc[u] # "off" => u \in Active
  BY Zenon DEF QueueInv, JoinInv
<1>2. /\ cpc[t] = "discard" /\ Processed(t) /\ SIGetDataEntry(t)
      /\ IF GetResult(t) = 0 THEN cpc' = [cpc EXCEPT ![t] = "run"] ELSE UNCHANGED cpc
      /\ UNCHANGED <<lockVars, version, mine, ref, forall>>
  BY Zenon DEF DiscardInvalid, Goto
<1>3. t \in Active
  BY <1>1, <1>2, Zenon
<1>4. /\ \A u \in Threads \ {t} : cpc'[u] = cpc[u]
      /\ cpc'[t] = cpc[t] \/ (cpc[t] = "discard" /\ cpc'[t] = "run" /\ GetResult(t) = 0)
  BY <1>1, <1>2, Zenon
<1> QED
  BY <1>1, <1>2, <1>3, <1>4, ReadKeeps, Zenon

\* What happens to the queue alone takes nothing from a connection.
LEMMA QueueKeeps ==
  ASSUME CatInv, LockSound, LockSound', HoldsChange,
         UNCHANGED <<lockVars, version, mine, cache, ref, forall, cpc>>,
         ~overflow' =>
           /\ ~overflow /\ NoResets'
           /\ \A u \in Threads : cpc[u] # "off" => /\ HasRead(u) => HasRead(u)'
                                                   /\ \A k : Unread(u, k) => Unread(u, k)'
  PROVE  CatInv'
<1>1. UNCHANGED <<lpc, want, holds>>
  BY Zenon DEF lockVars
<1>2. CacheTypes' /\ \A u \in Threads : Client(u)'
  BY <1>1, Zenon DEF CatInv, CacheTypes, Client
<1>3. \A u \in Threads, k \in Kinds : Unsent(u, k) => Unsent(u, k)'
  BY Zenon DEF Unsent
<1>4. ASSUME ~overflow', NEW u \in Threads PROVE ReadInv(u)' /\ Fresh(u)'
  <2>1. ReadInv(u) /\ Fresh(u) /\ Client(u)
    BY <1>4, Zenon DEF CatInv
  <2>2. CASE cpc[u] = "off"
    <3>1. ~Reading(u)'
      BY <2>2, Zenon DEF Reading
    <3> QED
      BY <2>1, <2>2, <3>1, Zenon DEF ReadInv, Fresh, Client
  <2>3. CASE cpc[u] # "off"
    <3>1. /\ HasRead(u) => HasRead(u)'
          /\ \A k : Unread(u, k) => Unread(u, k)'
      BY <1>4, <2>3, Zenon
    <3>2. ReadInv(u)'
      BY <1>1, <2>1, <3>1, Zenon DEF ReadInv, Reading, Relies
    <3>3. Fresh(u)'
      BY <1>3, <2>1, <3>1, OtherFresh, Zenon
    <3> QED
      BY <3>2, <3>3, Zenon
  <2> QED
    BY <2>2, <2>3, Zenon
<1> QED
  BY <1>2, <1>4, Zenon DEF CatInv

\* The DBWriter has no cache of the relation.
LEMMA NoOwnCache ==
  ASSUME CatInv, InvalInv, DBWriter \in Backends, Processed(DBWriter)
  PROVE  cache' = cache
<1>1. DBWriter \notin Threads /\ cache \in [Threads -> [Kinds -> Nat]]
  BY CatalogAssumption, Zenon DEF CatInv, CacheTypes
<1>2. \A c : [cache EXCEPT ![DBWriter] = c] = cache
  BY <1>1, Zenon
<1>3. \A m : Invalidated(DBWriter, m) = cache
  BY <1>2, Zenon DEF Invalidated
<1>4. 1 # 0 /\ -1 # 0 /\ -2 # 0 /\ 1 # -1 /\ 1 # -2 /\ -1 # -2
  OBVIOUS
<1>5. resetState[DBWriter] \in 0 .. 2
  BY Zenon DEF InvalInv, InvalTypeOK
<1>6. GetResult(DBWriter) \in {0, 1, -1, -2}
  BY <1>5 DEF GetResult
<1>7. [Invalidated(DBWriter, "rel") EXCEPT ![DBWriter].sys = 0] = cache
  BY <1>2, <1>3, Zenon
<1> QED
  BY <1>3, <1>4, <1>6, <1>7, Zenon DEF Processed

\* The DBWriter reads and cleans up, also in the place of idle connections.
LEMMA DBWriterKeeps ==
  ASSUME CatInv, QueueInv, LockSound, LockSound', HoldsChange,
         \/ DBWriterStart \/ DBWriterTurn \/ DBWriterDiscard \/ DBWriterExpire \/ DiscardAllInvalids
  PROVE  CatInv'
<1> DEFINE Still == UNCHANGED <<lockVars, version, mine, cache, ref, forall, cpc>>
           Reads(u) == /\ HasRead(u) => HasRead(u)'
                       /\ \A k : Unread(u, k) => Unread(u, k)'
<1>1. /\ InvalInv /\ DBWriter \in Backends /\ DBWriter \notin Threads
      /\ \A u \in Threads : u \in Backends /\ (cpc[u] # "off" => u \in Active)
      /\ dpc # "off" => DBWriter \in Active
      /\ nextMsgNum \in [Backends -> Nat \cup {-1}] /\ resetState \in [Backends -> 0 .. 2]
  BY CatalogAssumption, Zenon DEF QueueInv, JoinInv, InvalInv, InvalTypeOK
<1>2. ASSUME Still, UNCHANGED invalVars PROVE CatInv'
  <2>1. UNCHANGED <<maxMsgNum, buffer, nextMsgNum, resetState, overflow>>
    BY <1>2, Zenon DEF invalVars
  <2>2. \A u \in Threads : Reads(u)
    BY <2>1, Zenon DEF HasRead, Unread
  <2>3. ~overflow' => ~overflow /\ NoResets'
    BY <2>1, Zenon DEF CatInv, NoResets
  <2> QED
    BY <1>2, <2>2, <2>3, QueueKeeps, Zenon
<1>3. ASSUME Still, DBWriter \in Active, SIGetDataEntry(DBWriter) PROVE CatInv'
  <2>1. overflow' = overflow
    BY <1>3, Zenon DEF SIGetDataEntry
  <2>2. ASSUME ~overflow' PROVE NoResets' /\ \A u \in Threads : Reads(u)
    <3>1. NoResets
      BY <2>1, <2>2, Zenon DEF CatInv
    <3>2. resetState[DBWriter] = 0
      BY <1>1, <3>1, Zenon DEF NoResets
    <3>3. resetState' = resetState /\ \A u \in Backends \ {DBWriter} : Reads(u)
      BY <1>1, <1>3, <3>2, GetReads, Zenon
    <3> QED
      BY <1>1, <3>1, <3>3, Zenon DEF NoResets
  <2> QED
    BY <1>3, <2>1, <2>2, QueueKeeps, Zenon
<1>4. CASE DBWriterStart
  <2>1. Still /\ SIBackendInit(DBWriter)
    BY <1>4, Zenon DEF DBWriterStart, catVars, envVars
  <2>2. /\ nextMsgNum' = [nextMsgNum EXCEPT ![DBWriter] = maxMsgNum]
        /\ resetState' = [resetState EXCEPT ![DBWriter] = 0]
        /\ UNCHANGED <<maxMsgNum, buffer, overflow>>
    BY <2>1, Zenon DEF SIBackendInit
  <2>3. \A u \in Threads : nextMsgNum'[u] = nextMsgNum[u]
    BY <1>1, <2>2, Zenon
  <2>4. \A u \in Threads : Reads(u)
    BY <2>2, <2>3, Zenon DEF HasRead, Unread
  <2>5. ~overflow' => ~overflow /\ NoResets'
    BY <1>1, <2>2, Zenon DEF CatInv, NoResets
  <2> QED
    BY <2>1, <2>4, <2>5, QueueKeeps, Zenon
<1>5. CASE DBWriterTurn
  BY <1>2, <1>5, Zenon DEF DBWriterTurn, catVars, envVars
<1>6. CASE DBWriterDiscard
  <2>1. dpc = "read" /\ Still /\ SIGetDataEntry(DBWriter)
    BY <1>6, Zenon DEF DBWriterDiscard, catVars, envVars
  <2>2. DBWriter \in Active
    BY <1>1, <2>1, Zenon
  <2> QED
    BY <1>3, <2>1, <2>2, Zenon
<1>7. CASE DBWriterExpire
  <2>1. Still /\ SIDelExpiredDataEntries
    BY <1>7, Zenon DEF DBWriterExpire, catVars, envVars
  <2>2. /\ nextMsgNum' = Positions /\ maxMsgNum' = maxMsgNum - Lowered
        /\ UNCHANGED <<buffer, resetState, overflow>>
    BY <2>1, Zenon DEF SIDelExpiredDataEntries
  <2>3. \A u \in Active : Reads(u)
    BY <1>1, <2>2, LoweredReads, Zenon
  <2>4. ~overflow' => ~overflow /\ NoResets'
    BY <2>2, Zenon DEF CatInv, NoResets
  <2> QED
    BY <1>1, <2>1, <2>3, <2>4, QueueKeeps, Zenon
<1>8. CASE DiscardAllInvalids
  <2> DEFINE h == Head(dtodo)
  <2>1. UNCHANGED <<lockVars, version, mine, ref, forall, cpc>>
    BY <1>8, Zenon DEF DiscardAllInvalids, envVars
  <2>2. \/ UNCHANGED <<invalVars, cache>>
        \/ dtodo # <<>> /\ ~(nextMsgNum[h] < 0) /\ Processed(h) /\ SIGetDataEntry(h)
    BY <1>8, Zenon DEF DiscardAllInvalids
  <2>3. CASE UNCHANGED <<invalVars, cache>>
    BY <1>2, <2>1, <2>3, Zenon
  <2>4. CASE dtodo # <<>> /\ ~(nextMsgNum[h] < 0) /\ Processed(h) /\ SIGetDataEntry(h)
    <3>1. dtodo \in Seq(Backends)
      BY Zenon DEF QueueInv, JoinInv
    <3>2. h \in Backends
      BY <2>4, <3>1
    <3>3. PICK b \in Backends : b = h
      BY <3>2, Zenon
    <3>4. ~(nextMsgNum[b] < 0) /\ Processed(b) /\ SIGetDataEntry(b)
      BY <2>4, <3>3, Zenon
    <3>5. b \in Active
      BY <1>1, <3>4 DEF Active
    <3>6. CASE b \in Threads
      BY <1>1, <2>1, <3>4, <3>5, <3>6, ReadKeeps, Zenon
    <3>7. CASE b = DBWriter
      <4>1. cache' = cache
        BY <1>1, <3>4, <3>7, NoOwnCache, Zenon
      <4> QED
        BY <1>3, <2>1, <3>4, <3>5, <3>7, <4>1, Zenon
    <3> QED
      BY <3>6, <3>7, CatalogAssumption, Zenon
  <2> QED
    BY <2>2, <2>3, <2>4, Zenon
<1> QED
  BY <1>4, <1>5, <1>6, <1>7, <1>8, Zenon

\* The invariant holds at the start ...
LEMMA CatInitial == Init => CatInv
<1> SUFFICES ASSUME Init PROVE CatInv
  BY Zenon
<1>1. NoCache \in [Kinds -> Nat] /\ \A k \in Kinds : NoCache[k] = 0
  BY DEF NoCache, Kinds
<1>2. /\ version = 1 /\ mine = [t \in Threads |-> FALSE] /\ cache = [t \in Threads |-> NoCache]
      /\ ref = [t \in Threads |-> FALSE] /\ cpc = [t \in Threads |-> "off"]
      /\ forall = [t \in Threads |-> <<>>] /\ lpc = [t \in Threads |-> "out"]
      /\ resetState = [b \in Backends |-> 0]
  BY Zenon DEF Init, LockInit, InvalInit
<1>3. version \in Nat \ {0}
  BY <1>2
<1>4. CacheTypes
  BY <1>1, <1>2, <1>3, Zenon DEF CacheTypes
<1>5. ASSUME NEW t \in Threads PROVE Client(t) /\ ReadInv(t) /\ Fresh(t)
  <2>1. /\ cpc[t] = "off" /\ lpc[t] = "out" /\ ~mine[t] /\ ~ref[t] /\ forall[t] = <<>>
        /\ cache[t] = NoCache
    BY <1>2, Zenon
  <2> QED
    BY <1>1, <2>1, Zenon DEF Client, ReadInv, Reading, Fresh
<1>6. NoResets
  BY <1>2, Zenon DEF NoResets
<1> QED
  BY <1>4, <1>5, <1>6, Zenon DEF CatInv

\* ... every step keeps it ...
LEMMA CatStep ==
  ASSUME CatInv, QueueInv, LockSound, LockSound', HoldsChange, [Next]_vars
  PROVE  CatInv'
<1>1. CASE UNCHANGED vars
  <2>1. /\ UNCHANGED <<lockVars, version, mine, cache, ref, forall, cpc>>
        /\ UNCHANGED <<maxMsgNum, buffer, nextMsgNum, resetState, overflow>>
    BY <1>1, Zenon DEF vars, catVars, envVars, invalVars
  <2>2. \A u \in Threads : /\ HasRead(u) => HasRead(u)'
                           /\ \A k : Unread(u, k) => Unread(u, k)'
    BY <2>1, Zenon DEF HasRead, Unread
  <2>3. ~overflow' => ~overflow /\ NoResets'
    BY <2>1, Zenon DEF CatInv, NoResets
  <2> QED
    BY <2>1, <2>2, <2>3, QueueKeeps, Zenon
<1>2. ASSUME NEW t \in Threads, ThreadNext(t) PROVE CatInv'
  <2>1. CASE Connect(t) \/ Disconnect(t) \/ DiscardInvalid(t)
    BY <2>1, ConnectKeeps, DisconnectKeeps, DiscardKeeps, Zenon
  <2>2. CASE \E m \in Modes : heap_open(t, m) \/ heap_close(t, m)
    BY <2>2, OpenKeeps, CloseKeeps, Zenon
  <2>3. CASE \/ StartTransaction(t) \/ LockRelation(t) \/ UnlockRelation(t)
             \/ ThreadReleaseLocks(t) \/ TransactionUnlock(t)
    BY <2>3, LockStepsKeep, Zenon
  <2>4. CASE \/ CommandCounterIncrement(t) \/ RecordTransactionCommit(t)
             \/ RegisterSharedInvalid(t) \/ AbortTransaction(t)
    BY <2>4, CommandKeeps, CommitKeeps, PublishKeeps, AbortKeeps, Zenon
  <2> QED
    BY <1>2, <2>1, <2>2, <2>3, <2>4, Zenon DEF ThreadNext
<1>3. CASE \/ DBWriterStart \/ DBWriterTurn \/ DBWriterDiscard \/ DBWriterExpire
           \/ DiscardAllInvalids
  BY <1>3, DBWriterKeeps, Zenon
<1> QED
  BY <1>1, <1>2, <1>3, Zenon DEF Next

\* ... and it means that nobody works with a stale cache: who holds a lock and has
\* read the queue has nothing left to read, and no change is on its way.
LEMMA CatFresh ==
  ASSUME CatInv, QueueInv, LockSound
  PROVE  CatalogFresh
<1>1. SUFFICES ASSUME ~overflow, NEW t \in Threads, cpc[t] = "run", Relies(t)
               PROVE  (ref[t] => cache[t].rel = Seen(t)) /\ cache[t].sys \in {0, Seen(t)}
  BY Zenon DEF CatalogFresh, UsesFresh, Relies
<1>2. Client(t) /\ ReadInv(t) /\ Fresh(t) /\ \A u \in Threads : Client(u)
  BY <1>1, Zenon DEF CatInv
<1>3. HasRead(t)
  BY <1>1, <1>2, Zenon DEF ReadInv, Reading
<1>4. \A k : ~Unread(t, k)
  <2>1. t \in Active
    BY <1>1, Zenon DEF QueueInv, JoinInv
  <2>2. nextMsgNum[t] \in Nat /\ maxMsgNum \in Nat
    BY <2>1, ActivePosition, Zenon DEF QueueInv
  <2> QED
    BY <1>3, <2>2 DEF HasRead, Unread
<1>5. ASSUME NEW u \in Threads \ {t}, NEW k PROVE ~Unsent(u, k)
  <2>1. forall[u] = <<>>
    BY <1>1, <1>2, ChangerAlone, Zenon
  <2> QED
    BY <2>1, NoneLeft, Zenon
<1>6. cache[t]["rel"] \in {0, Seen(t)} /\ cache[t]["sys"] \in {0, Seen(t)}
  BY <1>2, <1>4, <1>5, Zenon DEF Fresh, Kinds
<1> QED
  BY <1>2, <1>6, Zenon DEF Client

-----------------------------------------------------------------------------
(* The lock manager underneath.  What LockTable_proofs shows of it holds here: *)
(* every step of the server is a step of one thread in the lock manager, or    *)
(* leaves it alone.                                                            *)

LEMMA LockUse ==
  ASSUME [Next]_vars
  PROVE  [LockNext]_lockVars
<1>1. ASSUME NEW t \in Threads, ThreadNext(t) PROVE [LockNext]_lockVars
  <2>1. CASE \E m \in Modes : heap_open(t, m) \/ heap_close(t, m)
    <3>1. PICK m \in Modes : Enter(t, m) \/ LockReleaseFind(t, m)
      BY <2>1, Zenon DEF heap_open, heap_close
    <3> QED
      BY <3>1, Zenon DEF LockNext
  <2>2. CASE LockRelation(t) \/ UnlockRelation(t) \/ ThreadReleaseLocks(t) \/ TransactionUnlock(t)
    <3>1. LockStep(t) \/ LockReleaseAllFind(t) \/ UNCHANGED lockVars
      BY <2>2, Zenon DEF LockRelation, UnlockRelation, ThreadReleaseLocks, TransactionUnlock, LockStep
    <3> QED
      BY <3>1, Zenon DEF LockNext
  <2>3. CASE Connect(t) \/ Disconnect(t) \/ StartTransaction(t) \/ DiscardInvalid(t)
    BY <2>3, Zenon DEF Connect, Disconnect, StartTransaction, DiscardInvalid
  <2>4. CASE \/ CommandCounterIncrement(t) \/ RecordTransactionCommit(t)
             \/ RegisterSharedInvalid(t) \/ AbortTransaction(t)
    BY <2>4, Zenon DEF CommandCounterIncrement, RecordTransactionCommit, RegisterSharedInvalid,
       AbortTransaction
  <2> QED
    BY <1>1, <2>1, <2>2, <2>3, <2>4, Zenon DEF ThreadNext
<1>2. CASE DBWriterStart \/ DBWriterTurn \/ DBWriterDiscard \/ DBWriterExpire \/ DiscardAllInvalids
  BY <1>2, Zenon DEF DBWriterStart, DBWriterTurn, DBWriterDiscard, DBWriterExpire, DiscardAllInvalids
<1>3. CASE UNCHANGED vars
  BY <1>3, Zenon DEF vars
<1> QED
  BY <1>1, <1>2, <1>3, Zenon DEF Next

\* heap_open, heap_close and the ends of a transaction use the lock of the relation
\* the way the lock manager expects it.
THEOREM UsesLocks == Spec => LockSpec
<1>1. Init => LockInit
  BY Zenon DEF Init
<1>2. [Next]_vars => [LockNext]_lockVars
  BY LockUse, ZenonT(60)
<1> QED
  BY <1>1, <1>2, PTL DEF Spec, LockSpec

Locks == INSTANCE LockTable_proofs

\* The definitions it brings are those of LockTable.
LEMMA SameOperators ==
  ASSUME NEW t, NEW m, NEW l, NEW h, NEW q, NEW gone, NEW bits, NEW n, NEW sum, NEW looked
  PROVE  /\ Locks!Granted(t, m) <=> Granted(t, m)
         /\ Locks!ThreadEnqueue(t, m) = ThreadEnqueue(t, m)
         /\ Locks!ThreadLockWakeup(l, h) = ThreadLockWakeup(l, h)
         /\ Locks!ThreadDequeue(q, gone) = ThreadDequeue(q, gone)
         /\ Locks!GrantLock(h, t, m) = GrantLock(h, t, m)
         /\ Locks!GrantCounts(l, m) = GrantCounts(l, m)
         /\ Locks!Asked(l, m) = Asked(l, m) /\ Locks!Unasked(l, m) = Unasked(l, m)
         /\ Locks!WaitBits(l, m, bits) = WaitBits(l, m, bits)
         /\ Locks!Released(l, n, sum, looked) = Released(l, n, sum, looked)
         /\ Locks!Cleared(l) = Cleared(l)
         /\ Locks!nHolding(h, t) = nHolding(h, t)
<1>1. Locks!Granted(t, m) <=> Granted(t, m)
  BY ZenonT(60) DEF Granted, Locks!Granted, LockResolveConflicts, Locks!LockResolveConflicts,
     HoldLock, Locks!HoldLock, nHolding, Locks!nHolding, Modes,
     Locks!Modes, LockConflicts, Locks!LockConflicts, NoMode, Locks!NoMode,
     MapThenSumSet, Locks!MapThenSumSet, MapThenFoldSet, Locks!MapThenFoldSet
<1>2. Locks!ThreadEnqueue(t, m) = ThreadEnqueue(t, m)
  BY ZenonT(60) DEF ThreadEnqueue, Locks!ThreadEnqueue, EnqueueStep, Locks!EnqueueStep,
     HoldLock, Locks!HoldLock, Asked, Locks!Asked, size, Locks!size, Modes, Locks!Modes,
     LockConflicts, Locks!LockConflicts, WalkQueue, Locks!WalkQueue, Max, Locks!Max,
     MapThenFoldSet, Locks!MapThenFoldSet
<1>3. Locks!ThreadLockWakeup(l, h) = ThreadLockWakeup(l, h)
  BY Zenon DEF ThreadLockWakeup, Locks!ThreadLockWakeup, WakeStep, Locks!WakeStep,
     WakeStart, Locks!WakeStart, GrantLock, Locks!GrantLock, GrantCounts, Locks!GrantCounts,
     LockResolveConflicts, Locks!LockResolveConflicts, size, Locks!size, Modes, Locks!Modes,
     LockConflicts, Locks!LockConflicts, NoMode, Locks!NoMode, WalkQueue, Locks!WalkQueue,
     Max, Locks!Max, MapThenFoldSet, Locks!MapThenFoldSet
<1>4. Locks!ThreadDequeue(q, gone) = ThreadDequeue(q, gone)
  BY ZenonT(60) DEF ThreadDequeue, Locks!ThreadDequeue, WalkQueue, Locks!WalkQueue, Max,
     Locks!Max, MapThenFoldSet, Locks!MapThenFoldSet
<1>5. /\ Locks!GrantLock(h, t, m) = GrantLock(h, t, m)
      /\ Locks!GrantCounts(l, m) = GrantCounts(l, m)
      /\ Locks!Asked(l, m) = Asked(l, m) /\ Locks!Unasked(l, m) = Unasked(l, m)
      /\ Locks!WaitBits(l, m, bits) = WaitBits(l, m, bits)
  BY ZenonT(60) DEF GrantLock, Locks!GrantLock, GrantCounts, Locks!GrantCounts, Asked, Locks!Asked,
     Unasked, Locks!Unasked, WaitBits, Locks!WaitBits
<1>6. /\ Locks!Released(l, n, sum, looked) = Released(l, n, sum, looked)
      /\ Locks!Cleared(l) = Cleared(l)
  BY ZenonT(60) DEF Released, Locks!Released, Cleared, Locks!Cleared, NewLock, Locks!NewLock,
     NoHolds, Locks!NoHolds, Modes, Locks!Modes
<1>7. Locks!nHolding(h, t) = nHolding(h, t)
  BY Zenon DEF nHolding, Locks!nHolding, Modes, Locks!Modes, MapThenSumSet,
     Locks!MapThenSumSet, MapThenFoldSet, Locks!MapThenFoldSet
<1> QED
  BY <1>1, <1>2, <1>3, <1>4, <1>5, <1>6, <1>7, Zenon

LEMMA SameStep ==
  ASSUME NEW t \in Threads
  PROVE  /\ \A m \in Modes : Enter(t, m) => Locks!Enter(t, m)
         /\ \A m \in Modes : LockReleaseFind(t, m) => Locks!LockReleaseFind(t, m)
         /\ LockReleaseAllFind(t) => Locks!LockReleaseAllFind(t)
         /\ LockStep(t) => Locks!LockStep(t)
<1>1. ASSUME NEW m \in Modes, Enter(t, m) PROVE Locks!Enter(t, m)
  <2>1. Locks!nHolding(holds, t) = nHolding(holds, t) /\ Locks!NewLock = NewLock
    BY SameOperators, ZenonT(60) DEF NewLock, Locks!NewLock, NoHolds, Locks!NoHolds, Modes, Locks!Modes
  <2> QED
    BY <1>1, <2>1, Zenon DEF Enter, Locks!Enter
<1>2. ASSUME NEW m \in Modes, LockReleaseFind(t, m) PROVE Locks!LockReleaseFind(t, m)
  BY <1>2, ZenonT(60) DEF LockReleaseFind, Locks!LockReleaseFind, Find, Locks!Find
<1>3. ASSUME LockReleaseAllFind(t) PROVE Locks!LockReleaseAllFind(t)
  BY <1>3, Zenon DEF LockReleaseAllFind, Locks!LockReleaseAllFind, Find, Locks!Find,
     NoMode, Locks!NoMode
<1>4. ASSUME LockAcquire(t) PROVE Locks!LockAcquire(t)
  <2> DEFINE m == want[t]
  <2>1. (Locks!Granted(t, m) <=> Granted(t, m)) /\ Locks!ThreadEnqueue(t, m) = ThreadEnqueue(t, m)
    BY SameOperators, ZenonT(60)
  <2>2. /\ Locks!GrantLock(holds, t, m) = GrantLock(holds, t, m)
        /\ Locks!Asked(lock, m) = Asked(lock, m)
        /\ \A l : Locks!GrantCounts(l, m) = GrantCounts(l, m)
        /\ \A bits : Locks!WaitBits(lock, m, bits) = WaitBits(lock, m, bits)
        /\ Locks!nHolding(holds, t) = nHolding(holds, t)
    BY SameOperators, Zenon
  <2>3. \A k : Locks!SHMQueueInsertTL(queue, k, t) = SHMQueueInsertTL(queue, k, t)
    BY Zenon DEF SHMQueueInsertTL, Locks!SHMQueueInsertTL
  <2> QED
    BY <1>4, <2>1, <2>2, <2>3, Zenon DEF LockAcquire, Locks!LockAcquire
<1>5. ASSUME WaitOnLock(t) PROVE Locks!WaitOnLock(t)
  <2>1. Locks!WaitBits(lock, want[t], waitMask) = WaitBits(lock, want[t], waitMask)
    BY SameOperators, Zenon
  <2> QED
    BY <1>5, <2>1, Zenon DEF WaitOnLock, Locks!WaitOnLock, Range, Locks!Range
<1>6. ASSUME ThreadSleepCancelled(t) PROVE Locks!ThreadSleepCancelled(t)
  <2>1. /\ Locks!ThreadDequeue(queue, {t}) = ThreadDequeue(queue, {t})
        /\ Locks!Unasked(lock, want[t]) = Unasked(lock, want[t])
        /\ Locks!WaitBits(lock', want[t], orig[t]) = WaitBits(lock', want[t], orig[t])
        /\ Locks!Range(queue) = Range(queue)
    BY SameOperators, Zenon DEF Range, Locks!Range
  <2> QED
    BY <1>6, <2>1, Zenon DEF ThreadSleepCancelled, Locks!ThreadSleepCancelled
<1>7. ASSUME NEW l, NEW h PROVE (Wake(l, h) => Locks!Wake(l, h)) /\ (NoWake(l, h) => Locks!NoWake(l, h))
  <2>1. Locks!ThreadLockWakeup(l, h) = ThreadLockWakeup(l, h)
    BY SameOperators, Zenon
  <2>2. \A q, gone : Locks!ThreadDequeue(q, gone) = ThreadDequeue(q, gone)
    BY SameOperators, Zenon
  <2> QED
    BY <2>1, <2>2, Zenon DEF Wake, Locks!Wake, NoWake, Locks!NoWake
<1>8. \A h : Locks!nHolding(h, t) = nHolding(h, t)
  BY SameOperators, Zenon
<1>9. HashRemove => Locks!HashRemove
  BY Zenon DEF HashRemove, Locks!HashRemove
<1>10. ASSUME LockRelease(t) PROVE Locks!LockRelease(t)
  <2> DEFINE h == [holds EXCEPT ![t][want[t]] = @ - 1]
             l == Released(lock, [NoHolds EXCEPT ![want[t]] = 1], 1, {want[t]})
  <2>1. /\ lpc[t] = "release" /\ (IF l.nHolding # 0 THEN Wake(l, h) ELSE NoWake(l, h))
        /\ holder' = [holder EXCEPT ![t] = nHolding(h, t) # 0]
        /\ HashRemove /\ lpc' = [lpc EXCEPT ![t] = "out"] /\ UNCHANGED <<want, twice, waitMask, orig>>
    BY <1>10, Zenon DEF LockRelease
  <2>2. Locks!Released(lock, [Locks!NoHolds EXCEPT ![want[t]] = 1], 1, {want[t]}) = l
    <3>1. Locks!NoHolds = NoHolds
      BY Zenon DEF NoHolds, Locks!NoHolds, Modes, Locks!Modes
    <3> QED
      BY <3>1, SameOperators, Zenon
  <2>3. /\ IF l.nHolding # 0 THEN Locks!Wake(l, h) ELSE Locks!NoWake(l, h)
        /\ Locks!nHolding(h, t) = nHolding(h, t)
    BY <1>7, <1>8, <2>1, Zenon
  <2> QED
    BY <1>9, <2>1, <2>2, <2>3, Zenon DEF Locks!LockRelease
<1>11. ASSUME LockReleaseAll(t) PROVE Locks!LockReleaseAll(t)
  <2> DEFINE h == [holds EXCEPT ![t] = NoHolds]
             n == nHolding(holds, t)
             l == Released(lock, holds[t], n, Modes)
             wakeupNeeded == \E m \in HoldLock(holds, t) : LockConflicts[m] \cap waitMask # {}
  <2>1. /\ lpc[t] = "releaseAll"
        /\ IF lock.nHolding = n THEN NoWake(Cleared(lock), h)
           ELSE IF wakeupNeeded THEN Wake(l, h) ELSE NoWake(l, h)
        /\ holder' = [holder EXCEPT ![t] = FALSE]
        /\ HashRemove /\ lpc' = [lpc EXCEPT ![t] = "out"] /\ UNCHANGED <<want, twice, waitMask, orig>>
    BY <1>11, Zenon DEF LockReleaseAll
  <2>2. /\ Locks!NoHolds = NoHolds /\ Locks!HoldLock(holds, t) = HoldLock(holds, t)
        /\ Locks!LockConflicts = LockConflicts /\ Locks!Modes = Modes
    BY ZenonT(60) DEF NoHolds, Locks!NoHolds, HoldLock, Locks!HoldLock, LockConflicts,
       Locks!LockConflicts, Modes, Locks!Modes
  <2>3. /\ Locks!nHolding(holds, t) = n /\ Locks!Released(lock, holds[t], n, Modes) = l
        /\ Locks!Cleared(lock) = Cleared(lock)
    BY SameOperators, Zenon
  <2>4. IF lock.nHolding = n THEN Locks!NoWake(Cleared(lock), h)
        ELSE IF wakeupNeeded THEN Locks!Wake(l, h) ELSE Locks!NoWake(l, h)
    BY <1>7, <2>1, Zenon
  <2> HIDE DEF n, l
  <2> QED
    BY <1>9, <2>1, <2>2, <2>3, <2>4, Zenon DEF Locks!LockReleaseAll
<1> QED
  BY <1>1, <1>2, <1>3, <1>4, <1>5, <1>6, <1>10, <1>11, Zenon DEF LockStep, Locks!LockStep

LEMMA SameLocks == LockSpec => Locks!LockSpec
<1>1. LockInit => Locks!LockInit
  BY Zenon DEF LockInit, Locks!LockInit, NoMode, Locks!NoMode, NewLock, Locks!NewLock,
     NoHolds, Locks!NoHolds, Modes, Locks!Modes
<1>2. Locks!lockVars = lockVars /\ Locks!Modes = Modes
  BY Zenon DEF lockVars, Locks!lockVars, Modes, Locks!Modes
<1>3. LockNext => Locks!LockNext
  BY <1>2, SameStep, Zenon DEF LockNext, Locks!LockNext
<1>4. [LockNext]_lockVars => [Locks!LockNext]_(Locks!lockVars)
  BY <1>3, ZenonT(60) DEF lockVars, Locks!lockVars
<1> QED
  BY <1>1, <1>4, PTL DEF LockSpec, Locks!LockSpec

\* What the lock manager promises, as the caches use it, in a build with assertions.
LEMMA LocksHold ==
  ASSUME Asserts
  PROVE  Spec => []LockSound /\ [][HoldsChange]_lockVars
<1>1. Locks!LockSpec => []Locks!LockInv /\ [][Locks!HoldsChange]_(Locks!lockVars)
  <2>1. Locks!LockSpec => []Locks!LockInv
    BY LockAssumption, Locks!LockInvariant, Zenon DEF Modes, Locks!Modes, IsFiniteSet, Locks!IsFiniteSet
  <2>2. Locks!LockSpec => [][Locks!HoldsChange]_(Locks!lockVars)
    BY LockAssumption, Locks!HoldsAsAsked, Zenon DEF Modes, Locks!Modes, IsFiniteSet, Locks!IsFiniteSet
  <2> QED
    BY <2>1, <2>2, Zenon
<1>2. Locks!LockInv => LockSound
  <2>1. Locks!LockInv => Locks!LockTypes /\ Locks!ConflictFree(holds)
    BY Zenon DEF Locks!LockInv, Locks!CountsInv, Locks!Exact
  <2>2. Locks!LockTypes => /\ lpc \in [Threads -> LockPlaces] /\ want \in [Threads -> Modes \cup {NoMode}]
                           /\ holds \in [Threads -> [Modes -> Nat]]
    BY Zenon DEF Locks!LockTypes, Locks!HoldsType, LockPlaces, Modes, Locks!Modes, NoMode, Locks!NoMode
  <2>3. Locks!ConflictFree(holds) => NoConflictingModes
    BY Zenon DEF NoConflictingModes, Locks!ConflictFree, HoldLock,
       Locks!HoldLock, LockConflicts, Locks!LockConflicts, Modes, Locks!Modes
  <2> QED
    BY <2>1, <2>2, <2>3, ZenonT(60) DEF LockSound
<1>3. [Locks!HoldsChange]_(Locks!lockVars) => [HoldsChange]_lockVars
  BY Zenon DEF HoldsChange, Locks!HoldsChange, lockVars, Locks!lockVars, Modes,
     Locks!Modes
<1> QED
  BY <1>1, <1>2, <1>3, UsesLocks, SameLocks, PTL

\* The relation cache and the catalogue cache of a connection that works with the
\* relation are never stale, for any number of connections and messages, as long as
\* the queue has not overflowed: LockRelation reads the queue once it has the lock,
\* and CommitTransaction publishes before it unlocks.  That the changer is alone with
\* its lock is only so in a build whose assertions do not let a granted sleeper be
\* dequeued a second time.
THEOREM CachesFresh ==
  ASSUME Asserts
  PROVE  Spec => []CatalogFresh
<1>1. Init => CatInv
  BY CatInitial, Zenon
<1>2. LockSound /\ [HoldsChange]_lockVars => HoldsChange
  <2> SUFFICES ASSUME LockSound, UNCHANGED lockVars PROVE HoldsChange
    BY Zenon
  <2>1. \A t \in Threads, m \in Modes : holds[t][m] \in Nat
    BY Zenon DEF LockSound
  <2>2. \A t \in Threads, m \in Modes : ~(holds[t][m] > holds[t][m]) /\ ~(holds[t][m] < holds[t][m])
    BY <2>1
  <2> QED
    BY <2>2, Zenon DEF HoldsChange, lockVars
<1>3. CatInv /\ QueueInv /\ LockSound /\ LockSound' /\ [HoldsChange]_lockVars /\ [Next]_vars => CatInv'
  BY <1>2, CatStep, Zenon
<1>4. CatInv /\ QueueInv /\ LockSound => CatalogFresh
  BY CatFresh, Zenon
<1>5. Init => QueueInv
  BY QueueInitial, Zenon
<1>6. QueueInv /\ [Next]_vars => QueueInv'
  BY QueueStep, Zenon
<1> QED
  BY <1>1, <1>3, <1>4, <1>5, <1>6, LocksHold, PTL DEF Spec
=============================================================================
