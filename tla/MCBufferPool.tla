---------------------------- MODULE MCBufferPool ----------------------------
(* Instances of BufferPool for TLC. *)
EXTENDS BufferPool

\* Three threads on three warm frames: a writer, a reader and a vacuum.
Locks == <<{"exclusive"}, {"share"}, {"ref"}>>
Reads == <<1, 1, 1>>
Warm3 == <<1, 2, 3>>

\* Two threads that only read, on two warm frames.
NoLocks == <<{}, {}>>
ReadsLost == <<2, 3>>
Warm2 == <<1, 2>>
=============================================================================
