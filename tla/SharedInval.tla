---------------------------- MODULE SharedInval ----------------------------
(***************************************************************************)
(* The shared invalidation queue (sinvaladt.c, sinval.c): a ring of        *)
(* messages in shared memory, a read position for every backend, and the   *)
(* clean-up that only the DBWriter and a writer that finds the ring full   *)
(* perform.  Everything here happens under SInvalLock, one call at a time. *)
(***************************************************************************)
EXTENDS Integers, FiniteSetsExt

CONSTANTS Backends,          \* connections, sweepers and the DBWriter
          Messages,          \* contents of a message
          MAXNUMMESSAGES,    \* slots of the ring
          MSGNUMWRAPAROUND   \* message numbers are lowered by this much

ASSUME InvalAssumption ==
  /\ MAXNUMMESSAGES \in Nat \ {0}
  /\ MSGNUMWRAPAROUND \in Nat \ {0} /\ MSGNUMWRAPAROUND % MAXNUMMESSAGES = 0

VARIABLES
  minMsgNum,   \* oldest message still needed
  maxMsgNum,   \* number of the next message
  buffer,      \* the ring
  nextMsgNum,  \* next message to read, -1 for an inactive entry
  resetState,  \* "reset" flag of each entry
  overflow     \* history: has the queue ever been emptied unread?

invalVars == <<minMsgNum, maxMsgNum, buffer, nextMsgNum, resetState, overflow>>

NoMessage == "zero"   \* what the fresh segment holds

InvalInit ==
  /\ minMsgNum = 0 /\ maxMsgNum = 0 /\ overflow = FALSE
  /\ buffer = [i \in 0 .. MAXNUMMESSAGES - 1 |-> NoMessage]
  /\ nextMsgNum = [b \in Backends |-> -1]
  /\ resetState = [b \in Backends |-> 0]

Active == {b \in Backends : nextMsgNum[b] >= 0}

\* A backend joins with all extant messages already read ...
SIBackendInit(b) ==
  /\ nextMsgNum[b] = -1
  /\ nextMsgNum' = [nextMsgNum EXCEPT ![b] = maxMsgNum]
  /\ resetState' = [resetState EXCEPT ![b] = 0]
  /\ UNCHANGED <<minMsgNum, maxMsgNum, buffer, overflow>>

\* ... and leaves.
CleanupInvalidationState(b) ==
  /\ nextMsgNum' = [nextMsgNum EXCEPT ![b] = -1]
  /\ resetState' = [resetState EXCEPT ![b] = 0]
  /\ UNCHANGED <<minMsgNum, maxMsgNum, buffer, overflow>>

\* The oldest message an active backend has not read.
OldestUnread == Min({maxMsgNum} \cup {nextMsgNum[b] : b \in Active})

\* How far SIDelExpiredDataEntries lowers the numbers.
Lowered == IF minMsgNum # maxMsgNum /\ OldestUnread >= MSGNUMWRAPAROUND
           THEN MSGNUMWRAPAROUND ELSE 0

\* SIDelExpiredDataEntries: the new oldest number and the new positions.
Expired == IF minMsgNum = maxMsgNum THEN minMsgNum ELSE OldestUnread - Lowered
Positions == [b \in Backends |->
                IF b \in Active THEN nextMsgNum[b] - Lowered ELSE nextMsgNum[b]]

SIDelExpiredDataEntries ==
  /\ minMsgNum' = Expired
  /\ maxMsgNum' = maxMsgNum - Lowered
  /\ nextMsgNum' = Positions
  /\ UNCHANGED <<buffer, resetState, overflow>>

\* The test that ends SIDelExpiredDataEntries, on the count from before it.
CloseToCapacity == maxMsgNum - minMsgNum = (MAXNUMMESSAGES * 70) \div 100

\* The message is in the ring under number n, and the oldest number is m.
Inserted(data, m, n, positions) ==
  /\ buffer' = [buffer EXCEPT ![n % MAXNUMMESSAGES] = data]
  /\ minMsgNum' = m /\ maxMsgNum' = n + 1
  /\ nextMsgNum' = positions
  /\ UNCHANGED <<resetState, overflow>>

\* SISetProcStateInvalid lowers the flag of the active backends to state.
SISetProcStateInvalid(state) ==
  /\ minMsgNum' = 0 /\ maxMsgNum' = 0
  /\ nextMsgNum' = [b \in Backends |-> IF b \in Active THEN 0 ELSE nextMsgNum[b]]
  /\ resetState' = [b \in Backends |->
                      IF b \in Active /\ state < resetState[b] THEN state ELSE resetState[b]]
  /\ overflow' = TRUE
  /\ UNCHANGED buffer

\* Mutant: the ring takes one message too many.
InsertOverfull(data) ==
  IF maxMsgNum - minMsgNum > MAXNUMMESSAGES THEN SISetProcStateInvalid(1)
  ELSE Inserted(data, minMsgNum, maxMsgNum, nextMsgNum)

SIInsertDataEntry(data) ==
  LET full == maxMsgNum - minMsgNum >= MAXNUMMESSAGES
      stillFull == maxMsgNum - Lowered - Expired >= MAXNUMMESSAGES
  IN  \/ /\ ~full
         /\ Inserted(data, minMsgNum, maxMsgNum, nextMsgNum)
      \/ /\ full /\ ~stillFull
         /\ Inserted(data, Expired, maxMsgNum - Lowered, Positions)
      \/ /\ full /\ stillFull
         /\ SISetProcStateInvalid(1)

\* What SIGetDataEntry has for b: 0 nothing, 1 a message, -1 and -2 a reset.
GetResult(b) ==
  IF resetState[b] # 0 THEN -resetState[b]
  ELSE IF nextMsgNum[b] >= maxMsgNum THEN 0 ELSE 1

NextMessage(b) == buffer[nextMsgNum[b] % MAXNUMMESSAGES]

SIGetDataEntry(b) ==
  /\ nextMsgNum' = [nextMsgNum EXCEPT ![b] =
                      IF GetResult(b) < 0 THEN maxMsgNum ELSE @ + GetResult(b)]
  /\ resetState' = [resetState EXCEPT ![b] = IF GetResult(b) < 0 THEN 0 ELSE @]
  /\ UNCHANGED <<minMsgNum, maxMsgNum, buffer, overflow>>

InvalNext ==
  \/ \E b \in Backends : \/ SIBackendInit(b)
                         \/ b \in Active /\ (CleanupInvalidationState(b) \/ SIGetDataEntry(b))
  \/ \E data \in Messages : SIInsertDataEntry(data)
  \/ SIDelExpiredDataEntries

InvalSpec == InvalInit /\ [][InvalNext]_invalVars
-----------------------------------------------------------------------------
(* Properties.                                                             *)

\* The types of the queue.
InvalTypeOK ==
  /\ minMsgNum \in Nat /\ maxMsgNum \in Nat
  /\ buffer \in [0 .. MAXNUMMESSAGES - 1 -> Messages \cup {NoMessage}]
  /\ nextMsgNum \in [Backends -> Nat \cup {-1}]
  /\ resetState \in [Backends -> 0 .. 2]
  /\ overflow \in BOOLEAN

\* No message that a backend has yet to read is overwritten: the numbers in use
\* fit the ring, and every reader stands between the oldest and the newest, also
\* across the clean-up of the DBWriter, the clean-up of a writer that finds the
\* ring full, the lowering of all numbers and the coming and going of backends.
UnreadKept ==
  /\ minMsgNum <= maxMsgNum /\ maxMsgNum - minMsgNum <= MAXNUMMESSAGES
  /\ \A b \in Active : minMsgNum <= nextMsgNum[b] /\ nextMsgNum[b] <= maxMsgNum
=============================================================================
