------------------------------ MODULE BufferIO ------------------------------
(***************************************************************************)
(* The I/O half of a shared buffer descriptor (bufmgr.c).  Every buffer    *)
(* has a page, data, that backends change, and a second copy, shadow, that *)
(* is what the storage manager is handed for the shadow log and for the    *)
(* data file.  A copy is made when the descriptor's generation is behind   *)
(* the global buffer_generation, which the writer threads set to the       *)
(* generation of the write group they are working on.                      *)
(*                                                                         *)
(* A descriptor is a record with (at least) the fields                     *)
(*   data, shadow   page images                                            *)
(*   generation     BufferDesc.generation                                  *)
(*   dirty, logged  BM_DIRTY and BM_LOGGED                                 *)
(*   op             the BM_IOOP_MASK bits: "none", "log" or "write"        *)
(* Each operator is one critical section of io_in_progress_lock.           *)
(***************************************************************************)
EXTENDS Integers

\* memmove(shadow, data) when this generation has not been copied yet, or,
\* for a flush, also when it has.
ShadowBufferIfNeeded(buf, gen, forflush) ==
  IF buf.generation < gen \/ (forflush /\ buf.generation = gen)
    THEN [buf EXCEPT !.shadow = buf.data, !.generation = gen]
    ELSE buf

\* A backend asking for the page keeps the image of the group being logged.
BufferGetBlock(buf, gen) == ShadowBufferIfNeeded(buf, gen, FALSE)

\* The block handed to the storage manager is the shadow of the result.
AdvanceBufferIO(buf, gen, forflush) == ShadowBufferIfNeeded(buf, gen, forflush)

\* smgrread fills data and resets the generation; the shadow keeps what the
\* frame held before.
ReadIn(image, leftover) ==
  [data |-> image, shadow |-> leftover, generation |-> 0,
   dirty |-> FALSE, logged |-> FALSE, op |-> "none"]

\* LogBufferIO waits for other I/O and succeeds only on a dirty buffer.
LogBufferIOReady(buf) == buf.op = "none"
LogBufferIO(buf) ==
  IF buf.dirty THEN [buf EXCEPT !.op = "log", !.dirty = FALSE] ELSE buf

\* WriteBufferIO: a flush and a commit write clear both flags, a normal
\* write only BM_LOGGED, so that the page is still logged later.
WriteBufferIOReady(buf) == buf.op = "none"
WriteBufferIO(buf, mode) ==
  LET needed == mode = "flush" \/ buf.dirty \/ buf.logged
  IN  [buf EXCEPT !.logged = FALSE,
                  !.dirty = IF mode = "normal" THEN @ ELSE FALSE,
                  !.op = IF needed THEN "write" ELSE @]

DirtyBufferIO(buf) == [buf EXCEPT !.dirty = TRUE]

TerminateBufferIO(buf) ==
  [buf EXCEPT !.logged = (@ \/ buf.op = "log"), !.op = "none"]
=============================================================================
