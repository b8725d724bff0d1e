-------------------------- MODULE ShadowLog_proofs --------------------------
(***************************************************************************)
(* What the shadow log promises, proved for any pages, bounds and number   *)
(* of crashes: a page is logged before it is written in place              *)
(* (PagesLoggedFirst), a recovery puts back the images of the completed    *)
(* logs (RecoverySound) and lists the index pages at risk                  *)
(* (RiskyIndexesListed).                                                   *)
(*                                                                         *)
(* LogInv says at every step of LogBuffers what a recovery would find if   *)
(* the server stopped there.  FileInv is the shape of the file; WriteInv   *)
(* and SyncInv say how far the log being written has come and what of it   *)
(* is on disk; PageInv, that replaying what is on disk gives the safe      *)
(* images (or, once the completed header may be there, the attempted       *)
(* ones); ReplayInv, what _vfdreplaylogfile has put back so far.           *)
(***************************************************************************)
EXTENDS ShadowLog, SequenceTheorems, TLAPS

\* The blocks that _vfdreplaylogfile accepts and those that stop it, and the
\* last block of the log at i.
Completed(b) == b.kind = "header" /\ b.completed
Open(b) == b.kind = "torn" \/ (b.kind = "header" /\ ~b.completed)
End(f, i) == i + f[i].segments

\* Obstructed, for any file.
Blocked(f) == \E i, j \in DOMAIN f : i < j /\ Completed(f[j]) /\ Open(f[i])

\* Block j of the file is a segment of a completed log and holds an image of p.
Covers(f, j, p) ==
  \E i \in DOMAIN f :
    /\ Completed(f[i]) /\ i < j /\ j <= End(f, i)
    /\ f[j].kind = "segment" /\ p \in f[j].pages

\* n is the last image of p in the completed logs.
Newest(f, p, n) == Logged(f, p, n) /\ \A j \in DOMAIN f : Covers(f, j, p) => f[j].number <= n

\* What replaying the file f would leave in the data files.
Recoverable(f, v) ==
  \A p \in Pages :
    \/ Newest(f, p, v[p])
    \/ (\A j \in DOMAIN f : ~Covers(f, j, p)) /\ file[p] = v[p] /\ disk[p] = v[p]

Places == {"idle", "beginsync", "logging", "dumpsync", "complete", "headsync", "logged",
           "expire", "closed", "down", "replay", "recovered"}
Writes == {"beginsync", "logging", "dumpsync", "complete", "headsync"}
Recovers == {"down", "replay", "recovered"}

Replays == [pos : Nat \ {0}, id : Nat, left : Nat, logged : BOOLEAN, indexonly : BOOLEAN]

\* TypeOK with files as sequences.
Types ==
  /\ log \in Seq(Blocks) /\ synced \in Seq(Blocks) /\ old \in Seq(Blocks)
  /\ file \in [Pages -> Images] /\ disk \in [Pages -> Images] /\ safe \in [Pages -> Images]
  /\ pc \in Places
  /\ header \in [kind : {"header"}, id : Nat, completed : BOOLEAN, segments : Nat]
  /\ log_pos \in Nat /\ log_count \in Nat /\ number \in 0 .. MaxLogs
  /\ body \subseteq Pages /\ store \subseteq body
  /\ replay \in Replays
  /\ recovered \subseteq Pages /\ atRisk \subseteq Pages

\* A completed log has all its segments and nothing but a header, or a torn
\* block, behind them; the images get newer along the file.
Whole(f) ==
  /\ f # <<>> => f[1].kind # "segment"
  /\ \A i \in DOMAIN f : Completed(f[i]) =>
       /\ End(f, i) <= Len(f)
       /\ \A j \in i + 1 .. End(f, i) : f[j].kind = "segment"
       /\ End(f, i) + 1 \in DOMAIN f => f[End(f, i) + 1].kind # "segment"
  /\ \A j, k \in DOMAIN f :
       j < k /\ f[j].kind = "segment" /\ f[k].kind = "segment" => f[j].number <= f[k].number

\* The header behind a completed log has the next log_id, so the reader
\* does not stop between them.
Chain(f) ==
  \A i \in DOMAIN f :
    Completed(f[i]) /\ End(f, i) + 1 \in DOMAIN f /\ f[End(f, i) + 1].kind = "header" =>
      f[End(f, i) + 1].id = f[i].id + 1

FileInv ==
  /\ Whole(log) /\ Whole(synced) /\ Whole(old)
  /\ ~Blocked(log) => Chain(log)
  /\ ~Blocked(synced) => Chain(synced)
  /\ \A j \in DOMAIN log : log[j].kind = "segment" => log[j].number <= number

\* The next vfdbeginlog continues the sequence.
CountInv ==
  pc \notin Writes \cup {"down", "replay"} /\ ~Blocked(log) =>
    \A i \in DOMAIN log : Completed(log[i]) /\ End(log, i) = Len(log) => log_count = log[i].id + 1

\* The log being written is the last of the file: LogBuffer.LogHeader is
\* its header, and every page of the body is in a segment or in the store.
WriteInv ==
  pc \in Writes =>
    /\ header.id + 1 = log_count
    /\ log_pos \in DOMAIN log /\ log_pos + header.segments = Len(log)
    /\ pc = "headsync" => header.completed = TRUE /\ log[log_pos] = header
    /\ pc # "headsync" => header.completed = FALSE /\ log[log_pos] = Header(header.id, FALSE, 0)
    /\ \A j \in log_pos + 1 .. Len(log) :
         log[j].kind = "segment" /\ log[j].number = number /\ log[j].pages \subseteq body
    /\ \A p \in body : p \in store \/ \E j \in log_pos + 1 .. Len(log) : p \in log[j].pages
    /\ pc = "beginsync" => body = {}
    /\ pc \in {"dumpsync", "complete", "headsync"} => store = {}
    /\ number >= 1

\* What of the file is on disk after each FileSync.
SyncInv ==
  /\ pc \notin {"beginsync", "logging", "dumpsync", "headsync"} => synced = log
  /\ pc = "closed" => \A i \in DOMAIN log : ~Completed(log[i])
  /\ pc = "beginsync" => log_pos = Len(log) /\ Len(log) = Len(synced) + 1
  /\ pc \in {"logging", "dumpsync"} => log_pos <= Len(synced) /\ Len(synced) <= Len(log)
  /\ pc \in {"beginsync", "logging", "dumpsync"} => \A i \in DOMAIN synced : synced[i] = log[i]
  /\ pc = "headsync" => /\ Len(synced) = Len(log)
                        /\ \A i \in DOMAIN log : i # log_pos => synced[i] = log[i]
                        /\ synced[log_pos] = Header(header.id, FALSE, 0)

\* What is not in place can be replayed, and replaying what is on disk gives
\* the safe images; after a crash, those or the attempted ones.
PageInv ==
  /\ pc \notin Recovers => atRisk = {} /\ \A p \in Pages : file[p] # safe[p] => Logged(synced, p, safe[p])
  /\ pc \in Recovers => file = disk /\ \A p \in atRisk : \E j \in DOMAIN log : Covers(log, j, p)
  /\ pc = "expire" => file = safe /\ disk = safe
  /\ pc \notin Recovers /\ ~Blocked(synced) => Recoverable(synced, safe)
  /\ pc \in Recovers /\ ~Blocked(log) => Recoverable(log, safe) \/ Recoverable(log, Attempted)

\* What the replay of the blocks before k has put back and listed.
Replayed(k) ==
  \A j \in DOMAIN log : j < k =>
    \A p \in Pages : Covers(log, j, p) =>
      /\ Logged(log, p, file[p]) /\ log[j].number <= file[p]
      /\ p \in IndexPages => p \in recovered

\* The reader is at the start, or in or behind a completed log.
Position ==
  \/ replay.pos = 1 /\ replay.left = 0 /\ replay.id = 0 /\ ~replay.logged
  \/ \E i \in DOMAIN Source :
       /\ Completed(Source[i]) /\ replay.left <= Source[i].segments
       /\ replay.pos = End(Source, i) + 1 - replay.left
       /\ replay.id = Source[i].id /\ replay.logged /\ header.id = replay.id

ReplayInv ==
  /\ pc = "down" => replay = NoReplay /\ recovered = {}
  /\ pc = "replay" => Position
  /\ pc = "replay" /\ ~replay.indexonly /\ ~Blocked(log) => Replayed(replay.pos)
  /\ pc = "replay" /\ replay.indexonly /\ ~Blocked(log) => \A i \in DOMAIN log : ~Completed(log[i])
  /\ pc = "recovered" /\ ~Blocked(log) => Replayed(Len(log) + 1)

LogInv ==
  Types /\ FileInv /\ CountInv /\ WriteInv /\ SyncInv /\ WriteAhead /\ PageInv /\ ReplayInv
-----------------------------------------------------------------------------
(* Log files.                                                              *)

LEMMA BlockTypes ==
  ASSUME NEW b \in Blocks
  PROVE  /\ b.kind \in {"header", "segment", "torn"}
         /\ b.kind = "header" => b.id \in Nat /\ b.completed \in BOOLEAN /\ b.segments \in Nat
         /\ b.kind = "segment" => b.pages \subseteq Pages /\ b.number \in 1 .. MaxLogs
         /\ b.kind = "torn" <=> b = TornBlock
         /\ b.kind # "segment" => b.id \in Nat
BY DEF Blocks, TornBlock

LEMMA FileTypes ==
  ASSUME NEW f \in Seq(Blocks)
  PROVE  /\ Len(f) \in Nat /\ DOMAIN f = 1 .. Len(f)
         /\ \A i \in DOMAIN f :
              /\ f[i] \in Blocks /\ f[i].kind \in {"header", "segment", "torn"}
              /\ f[i].kind = "header" => f[i].segments \in Nat /\ End(f, i) \in Nat
              /\ f[i].kind = "segment" => f[i].number \in Nat
              /\ Completed(f[i]) => f[i].kind = "header"
              /\ Open(f[i]) => f[i].kind # "segment" /\ ~Completed(f[i])
<1>1. Len(f) \in Nat /\ DOMAIN f = 1 .. Len(f)
  BY LenProperties, Zenon
<1>2. ASSUME NEW i \in DOMAIN f
      PROVE  /\ f[i] \in Blocks /\ f[i].kind \in {"header", "segment", "torn"}
             /\ f[i].kind = "header" => f[i].segments \in Nat /\ End(f, i) \in Nat
             /\ f[i].kind = "segment" => f[i].number \in Nat
             /\ Completed(f[i]) => f[i].kind = "header"
             /\ Open(f[i]) => f[i].kind # "segment" /\ ~Completed(f[i])
  <2>1. f[i] \in Blocks /\ i \in Nat
    BY <1>1, ElementOfSeq
  <2> QED
    BY <2>1, BlockTypes DEF End, Completed, Open
<1> QED
  BY <1>1, <1>2, Zenon

\* A completed log ends before the next header or torn block.
LEMMA LogsDisjoint ==
  ASSUME NEW f \in Seq(Blocks), Whole(f), NEW i \in DOMAIN f, NEW k \in DOMAIN f,
         Completed(f[i]), i < k, f[k].kind # "segment"
  PROVE  End(f, i) < k
<1>1. i \in Nat /\ k \in Nat /\ End(f, i) \in Nat
  BY FileTypes
<1>2. \A j \in i + 1 .. End(f, i) : f[j].kind = "segment"
  BY Zenon DEF Whole
<1> QED
  BY <1>1, <1>2

LEMMA LoggedCovers ==
  ASSUME NEW f \in Seq(Blocks), NEW p, NEW n
  PROVE  Logged(f, p, n) <=> \E j \in DOMAIN f : Covers(f, j, p) /\ f[j].number = n
BY Zenon DEF Logged, Covers, Completed, End

LEMMA CoversTypes ==
  ASSUME NEW f \in Seq(Blocks), NEW j \in DOMAIN f, NEW p, Covers(f, j, p)
  PROVE  f[j].number \in Nat /\ f[j].kind = "segment" /\ p \in Pages
<1>1. f[j].kind = "segment" /\ p \in f[j].pages
  BY Zenon DEF Covers
<1>2. f[j] \in Blocks
  BY FileTypes, Zenon
<1> QED
  BY <1>1, <1>2, BlockTypes

LEMMA EmptyFile ==
  /\ <<>> \in Seq(Blocks) /\ Whole(<<>>) /\ Chain(<<>>) /\ ~Blocked(<<>>)
  /\ \A j \in DOMAIN <<>> : FALSE
  /\ \A p, n : ~Logged(<<>>, p, n)
<1>1. <<>> \in Seq(Blocks) /\ DOMAIN <<>> = {}
  BY EmptySeq
<1> QED
  BY <1>1, Zenon DEF Whole, Chain, Blocked, Logged

\* g has further blocks, none of which is a completed header.
Extends(f, g) ==
  /\ Len(f) <= Len(g)
  /\ \A i \in DOMAIN f : g[i] = f[i]
  /\ \A i \in DOMAIN g : i > Len(f) => ~Completed(g[i])

LEMMA ExtendsSame ==
  ASSUME NEW f \in Seq(Blocks), NEW g \in Seq(Blocks), Whole(f), Extends(f, g)
  PROVE  /\ \A j \in DOMAIN g, p \in Pages : Covers(g, j, p) <=> j \in DOMAIN f /\ Covers(f, j, p)
         /\ \A p, n : Logged(g, p, n) <=> Logged(f, p, n)
         /\ Blocked(g) <=> Blocked(f)
         /\ \A p \in Pages : \A n : Newest(g, p, n) <=> Newest(f, p, n)
<1>1. /\ Len(f) \in Nat /\ Len(g) \in Nat /\ DOMAIN f = 1 .. Len(f) /\ DOMAIN g = 1 .. Len(g)
      /\ Len(f) <= Len(g) /\ \A i \in DOMAIN f : g[i] = f[i] /\ End(g, i) = End(f, i)
  BY FileTypes, Zenon DEF Extends, End
<1>2. \A i \in DOMAIN g : Completed(g[i]) => i \in DOMAIN f
  BY <1>1 DEF Extends
<1>3. \A i \in DOMAIN f : Completed(f[i]) => End(f, i) <= Len(f) /\ End(f, i) \in Nat
  BY FileTypes, Zenon DEF Whole
<1>4. ASSUME NEW j \in DOMAIN g, NEW p PROVE Covers(g, j, p) <=> j \in DOMAIN f /\ Covers(f, j, p)
  <2>1. ASSUME Covers(g, j, p) PROVE j \in DOMAIN f /\ Covers(f, j, p)
    <3>1. PICK i \in DOMAIN g : /\ Completed(g[i]) /\ i < j /\ j <= End(g, i)
                                /\ g[j].kind = "segment" /\ p \in g[j].pages
      BY <2>1, Zenon DEF Covers
    <3>2. i \in DOMAIN f /\ f[i] = g[i] /\ End(f, i) = End(g, i) /\ End(f, i) <= Len(f) /\ End(f, i) \in Nat
      BY <1>1, <1>2, <1>3, <3>1, Zenon
    <3>3. j \in DOMAIN f /\ f[j] = g[j]
      BY <1>1, <3>1, <3>2
    <3> QED
      BY <3>1, <3>2, <3>3, Zenon DEF Covers
  <2>2. ASSUME j \in DOMAIN f, Covers(f, j, p) PROVE Covers(g, j, p)
    <3>1. PICK i \in DOMAIN f : /\ Completed(f[i]) /\ i < j /\ j <= End(f, i)
                                /\ f[j].kind = "segment" /\ p \in f[j].pages
      BY <2>2, Zenon DEF Covers
    <3>2. i \in DOMAIN g /\ f[i] = g[i] /\ End(f, i) = End(g, i) /\ f[j] = g[j]
      BY <1>1, <3>1, <2>2
    <3> QED
      BY <3>1, <3>2, Zenon DEF Covers
  <2> QED
    BY <2>1, <2>2, Zenon
<1>5. \A p, n : Logged(g, p, n) <=> Logged(f, p, n)
  <2> SUFFICES ASSUME NEW p, NEW n PROVE Logged(g, p, n) <=> Logged(f, p, n)
    BY Zenon
  <2>1. DOMAIN f \subseteq DOMAIN g
    BY <1>1
  <2> QED
    BY <2>1, <1>1, <1>4, LoggedCovers
<1>6. Blocked(g) <=> Blocked(f)
  <2>1. ASSUME Blocked(g) PROVE Blocked(f)
    <3>1. PICK i \in DOMAIN g, j \in DOMAIN g : i < j /\ Completed(g[j]) /\ Open(g[i])
      BY <2>1, Zenon DEF Blocked
    <3>2. j \in DOMAIN f /\ i \in DOMAIN f /\ f[i] = g[i] /\ f[j] = g[j]
      BY <1>1, <1>2, <3>1
    <3> QED
      BY <3>1, <3>2, Zenon DEF Blocked
  <2>2. ASSUME Blocked(f) PROVE Blocked(g)
    <3>1. PICK i \in DOMAIN f, j \in DOMAIN f : i < j /\ Completed(f[j]) /\ Open(f[i])
      BY <2>2, Zenon DEF Blocked
    <3>2. j \in DOMAIN g /\ i \in DOMAIN g /\ f[i] = g[i] /\ f[j] = g[j]
      BY <1>1, <3>1
    <3> QED
      BY <3>1, <3>2, Zenon DEF Blocked
  <2> QED
    BY <2>1, <2>2, Zenon
<1>7. ASSUME NEW p \in Pages, NEW n PROVE Newest(g, p, n) <=> Newest(f, p, n)
  <2>1. DOMAIN f \subseteq DOMAIN g
    BY <1>1
  <2> QED
    BY <2>1, <1>1, <1>4, <1>5, Zenon DEF Newest
<1> QED
  BY <1>4, <1>5, <1>6, <1>7, Zenon

LEMMA ExtendsWhole ==
  ASSUME NEW f \in Seq(Blocks), NEW g \in Seq(Blocks), Whole(f), Extends(f, g),
         Len(f) + 1 \in DOMAIN g /\ (f = <<>> \/ \E i \in DOMAIN f : Completed(f[i]) /\ End(f, i) = Len(f))
           => g[Len(f) + 1].kind # "segment",
         \A j, k \in DOMAIN g :
           j < k /\ g[j].kind = "segment" /\ g[k].kind = "segment" => g[j].number <= g[k].number
  PROVE  Whole(g)
<1>1. /\ Len(f) \in Nat /\ Len(g) \in Nat /\ DOMAIN f = 1 .. Len(f) /\ DOMAIN g = 1 .. Len(g)
      /\ Len(f) <= Len(g) /\ \A i \in DOMAIN f : g[i] = f[i] /\ End(g, i) = End(f, i)
  BY FileTypes, Zenon DEF Extends, End
<1>2. \A i \in DOMAIN g : Completed(g[i]) => i \in DOMAIN f
  BY <1>1 DEF Extends
<1>3. ASSUME g # <<>> PROVE g[1].kind # "segment"
  <2>1. CASE f = <<>>
    <3>1. Len(f) = 0 /\ 1 \in DOMAIN g
      BY <2>1, <1>1, <1>3, EmptySeq
    <3> QED
      BY <2>1, <3>1
  <2>2. CASE f # <<>>
    BY <2>2, <1>1, EmptySeq DEF Whole
  <2> QED
    BY <2>1, <2>2, Zenon
<1>4. ASSUME NEW i \in DOMAIN g, Completed(g[i])
      PROVE  /\ End(g, i) <= Len(g)
             /\ \A j \in i + 1 .. End(g, i) : g[j].kind = "segment"
             /\ End(g, i) + 1 \in DOMAIN g => g[End(g, i) + 1].kind # "segment"
  <2>1. i \in DOMAIN f /\ Completed(f[i]) /\ End(g, i) = End(f, i) /\ i \in Nat
    BY <1>1, <1>2, <1>4
  <2>2. /\ End(f, i) <= Len(f) /\ End(f, i) \in Nat
        /\ \A j \in i + 1 .. End(f, i) : f[j].kind = "segment"
        /\ End(f, i) + 1 \in DOMAIN f => f[End(f, i) + 1].kind # "segment"
    BY <2>1, FileTypes, Zenon DEF Whole
  <2>3. \A j \in i + 1 .. End(f, i) : g[j] = f[j]
    BY <2>1, <2>2, <1>1
  <2>4. ASSUME End(g, i) + 1 \in DOMAIN g PROVE g[End(g, i) + 1].kind # "segment"
    <3>1. CASE End(f, i) = Len(f)
      BY <3>1, <2>1, <2>4, Zenon
    <3>2. CASE End(f, i) < Len(f)
      <4>1. End(f, i) + 1 \in DOMAIN f
        BY <3>2, <2>2, <1>1
      <4> QED
        BY <4>1, <2>1, <2>2, <1>1, Zenon
    <3> QED
      BY <3>1, <3>2, <2>2, <1>1
  <2> QED
    BY <2>1, <2>2, <2>3, <2>4, <1>1
<1> QED
  BY <1>3, <1>4, Zenon DEF Whole

LEMMA ExtendsChain ==
  ASSUME NEW f \in Seq(Blocks), NEW g \in Seq(Blocks), Whole(f), Extends(f, g), Chain(f),
         \A i \in DOMAIN f :
           /\ Completed(f[i]) /\ End(f, i) = Len(f)
           /\ Len(f) + 1 \in DOMAIN g /\ g[Len(f) + 1].kind = "header"
           => g[Len(f) + 1].id = f[i].id + 1
  PROVE  Chain(g)
<1>1. /\ Len(f) \in Nat /\ Len(g) \in Nat /\ DOMAIN f = 1 .. Len(f) /\ DOMAIN g = 1 .. Len(g)
      /\ Len(f) <= Len(g) /\ \A i \in DOMAIN f : g[i] = f[i] /\ End(g, i) = End(f, i)
  BY FileTypes, Zenon DEF Extends, End
<1> SUFFICES ASSUME NEW i \in DOMAIN g, Completed(g[i]), End(g, i) + 1 \in DOMAIN g,
                    g[End(g, i) + 1].kind = "header"
             PROVE  g[End(g, i) + 1].id = g[i].id + 1
  BY Zenon DEF Chain
<1>2. i \in DOMAIN f /\ Completed(f[i]) /\ f[i] = g[i] /\ End(g, i) = End(f, i)
  BY <1>1 DEF Extends
<1>3. End(f, i) <= Len(f) /\ End(f, i) \in Nat
  BY <1>2, FileTypes, Zenon DEF Whole
<1>4. CASE End(f, i) = Len(f)
  BY <1>2, <1>4, Zenon
<1>5. CASE End(f, i) < Len(f)
  <2>1. End(f, i) + 1 \in DOMAIN f /\ g[End(f, i) + 1] = f[End(f, i) + 1]
    BY <1>1, <1>3, <1>5
  <2> QED
    BY <2>1, <1>2, Zenon DEF Chain
<1> QED
  BY <1>1, <1>3, <1>4, <1>5

\* g is f with the header at k completed, for the segments behind it.
Completes(f, g, k, n, B) ==
  /\ Len(f) = Len(g) /\ k \in DOMAIN g
  /\ \A i \in DOMAIN g : i # k => f[i] = g[i]
  /\ f[k].kind = "header" /\ ~f[k].completed
  /\ Completed(g[k]) /\ g[k].id = f[k].id /\ End(g, k) = Len(g)
  /\ \A j \in k + 1 .. Len(g) : g[j].kind = "segment" /\ g[j].number = n /\ g[j].pages \subseteq B
  /\ \A p \in B : \E j \in k + 1 .. Len(g) : p \in g[j].pages
  /\ \A j \in DOMAIN g : g[j].kind = "segment" => g[j].number <= n

LEMMA CompletesCovers ==
  ASSUME NEW f \in Seq(Blocks), NEW g \in Seq(Blocks), NEW k, NEW n, NEW B, Completes(f, g, k, n, B)
  PROVE  \A j \in DOMAIN g : \A p :
           Covers(g, j, p) <=> Covers(f, j, p) \/ (k < j /\ p \in g[j].pages)
<1>1. /\ Len(f) \in Nat /\ DOMAIN f = 1 .. Len(f) /\ DOMAIN g = DOMAIN f /\ Len(f) = Len(g)
      /\ k \in DOMAIN f /\ \A i \in DOMAIN f : i # k => g[i] = f[i] /\ End(g, i) = End(f, i)
  BY FileTypes, Zenon DEF Completes, End
<1>2. ~Completed(f[k]) /\ f[k].kind # "segment" /\ g[k].kind # "segment"
  BY Zenon DEF Completes, Completed
<1> SUFFICES ASSUME NEW j \in DOMAIN g, NEW p
             PROVE  Covers(g, j, p) <=> Covers(f, j, p) \/ (k < j /\ p \in g[j].pages)
  BY Zenon
<1>3. ASSUME Covers(g, j, p) PROVE Covers(f, j, p) \/ (k < j /\ p \in g[j].pages)
  <2>1. PICK i \in DOMAIN g : /\ Completed(g[i]) /\ i < j /\ j <= End(g, i)
                              /\ g[j].kind = "segment" /\ p \in g[j].pages
    BY <1>3, Zenon DEF Covers
  <2>2. CASE i = k
    BY <2>1, <2>2, Zenon
  <2>3. CASE i # k
    <3>1. i \in DOMAIN f /\ f[i] = g[i] /\ End(f, i) = End(g, i) /\ f[j] = g[j]
      BY <1>1, <1>2, <2>1, <2>3, Zenon
    <3> QED
      BY <2>1, <3>1, Zenon DEF Covers
  <2> QED
    BY <2>2, <2>3, Zenon
<1>4. ASSUME Covers(f, j, p) PROVE Covers(g, j, p)
  <2>1. PICK i \in DOMAIN f : /\ Completed(f[i]) /\ i < j /\ j <= End(f, i)
                              /\ f[j].kind = "segment" /\ p \in f[j].pages
    BY <1>4, Zenon DEF Covers
  <2>2. i # k /\ j # k
    BY <1>2, <2>1, Zenon
  <2>3. i \in DOMAIN g /\ f[i] = g[i] /\ End(f, i) = End(g, i) /\ f[j] = g[j]
    BY <1>1, <2>1, <2>2, Zenon
  <2> QED
    BY <2>1, <2>3, Zenon DEF Covers
<1>5. ASSUME k < j, p \in g[j].pages PROVE Covers(g, j, p)
  <2>1. j \in k + 1 .. Len(g) /\ k \in DOMAIN g
    BY <1>1, <1>5
  <2> QED
    BY <2>1, <1>1, <1>5 DEF Covers, Completes
<1> QED
  BY <1>3, <1>4, <1>5, Zenon

LEMMA CompletesFile ==
  ASSUME NEW f \in Seq(Blocks), NEW g \in Seq(Blocks), NEW k, NEW n, NEW B, Completes(f, g, k, n, B)
  PROVE  /\ Whole(f) => Whole(g)
         /\ Chain(f) => Chain(g)
         /\ Blocked(f) => Blocked(g)
<1>1. /\ Len(f) \in Nat /\ DOMAIN f = 1 .. Len(f) /\ DOMAIN g = DOMAIN f /\ Len(f) = Len(g)
      /\ k \in DOMAIN f /\ \A i \in DOMAIN f : i # k => g[i] = f[i] /\ End(g, i) = End(f, i)
  BY FileTypes, Zenon DEF Completes, End
<1>2. /\ ~Completed(f[k]) /\ f[k].kind = "header" /\ g[k].kind = "header" /\ g[k].id = f[k].id
      /\ End(g, k) = Len(g) /\ \A j \in k + 1 .. Len(g) : g[j].kind = "segment"
  BY Zenon DEF Completes, Completed
<1>3. \A i \in DOMAIN f : /\ g[i].kind = f[i].kind
                          /\ g[i].kind = "segment" => g[i] = f[i]
                          /\ g[i].kind = "header" => g[i].id = f[i].id
  BY <1>1, <1>2, Zenon
<1>4. ASSUME Whole(f) PROVE Whole(g)
  <2>1. ASSUME g # <<>> PROVE g[1].kind # "segment"
    <3>1. f # <<>> /\ 1 \in DOMAIN f
      BY <2>1, <1>1, EmptySeq
    <3> QED
      BY <3>1, <1>3, <1>4, Zenon DEF Whole
  <2>2. ASSUME NEW i \in DOMAIN g, Completed(g[i])
        PROVE  /\ End(g, i) <= Len(g)
               /\ \A j \in i + 1 .. End(g, i) : g[j].kind = "segment"
               /\ End(g, i) + 1 \in DOMAIN g => g[End(g, i) + 1].kind # "segment"
    <3>1. CASE i = k
      BY <3>1, <1>1, <1>2
    <3>2. CASE i # k
      <4>1. /\ Completed(f[i]) /\ End(g, i) = End(f, i) /\ End(f, i) \in Nat /\ i \in Nat
            /\ End(f, i) <= Len(f)
            /\ \A j \in i + 1 .. End(f, i) : f[j].kind = "segment"
            /\ End(f, i) + 1 \in DOMAIN f => f[End(f, i) + 1].kind # "segment"
        BY <3>2, <2>2, <1>1, <1>4, FileTypes DEF Whole
      <4>2. \A j \in i + 1 .. End(f, i) : j \in DOMAIN f
        BY <4>1, <1>1
      <4> QED
        BY <4>1, <4>2, <1>1, <1>3, Zenon
    <3> QED
      BY <3>1, <3>2, Zenon
  <2>3. ASSUME NEW j \in DOMAIN g, NEW l \in DOMAIN g,
               j < l, g[j].kind = "segment", g[l].kind = "segment"
        PROVE  g[j].number <= g[l].number
    BY <2>3, <1>1, <1>3, <1>4, Zenon DEF Whole
  <2> QED
    BY <2>1, <2>2, <2>3, Zenon DEF Whole
<1>5. ASSUME Chain(f) PROVE Chain(g)
  <2> SUFFICES ASSUME NEW i \in DOMAIN g, Completed(g[i]), End(g, i) + 1 \in DOMAIN g,
                      g[End(g, i) + 1].kind = "header"
               PROVE  g[End(g, i) + 1].id = g[i].id + 1
    BY Zenon DEF Chain
  <2>1. i # k
    BY <1>1, <1>2
  <2>2. Completed(f[i]) /\ End(g, i) = End(f, i) /\ g[i] = f[i]
    BY <2>1, <1>1, Zenon
  <2>3. f[End(f, i) + 1].id = f[i].id + 1
    BY <2>2, <1>1, <1>3, <1>5, Zenon DEF Chain
  <2> QED
    BY <2>2, <2>3, <1>1, <1>3, Zenon
<1>6. ASSUME Blocked(f) PROVE Blocked(g)
  <2>1. PICK i \in DOMAIN f, j \in DOMAIN f : i < j /\ Completed(f[j]) /\ Open(f[i])
    BY <1>6, Zenon DEF Blocked
  <2>2. j # k /\ Completed(g[j]) /\ g[j].kind = "header"
    BY <2>1, <1>1, <1>2, Zenon DEF Completed
  <2>3. i # k
    BY <2>1, <2>2, <1>1, <1>2
  <2>4. Open(g[i])
    BY <2>1, <2>3, <1>1, Zenon
  <2> QED
    BY <2>1, <2>2, <2>4, <1>1, Zenon DEF Blocked
<1> QED
  BY <1>4, <1>5, <1>6, Zenon

-----------------------------------------------------------------------------
(* Steps that leave the log file alone.                                    *)

LEMMA LogInitial == Init => LogInv
<1> SUFFICES ASSUME Init PROVE LogInv
  BY Zenon
<1> USE DEF Init
<1>1. Types
  BY SizeAssumption, EmptySeq DEF Types, Places, Replays, Images, NoHeader, NoReplay, Header
<1>2. FileInv
  BY EmptyFile, Zenon DEF FileInv
<1>3. CountInv
  BY EmptyFile, Zenon DEF CountInv
<1>4. PageInv
  BY EmptyFile, Zenon DEF PageInv, Recovers, Recoverable
<1>5. WriteInv /\ SyncInv /\ WriteAhead /\ ReplayInv
  BY Zenon DEF WriteInv, Writes, SyncInv, WriteAhead, ReplayInv
<1> QED
  BY <1>1, <1>2, <1>3, <1>4, <1>5, Zenon DEF LogInv

LEMMA WritePageKeeps ==
  ASSUME LogInv, NEW p \in Pages, WritePage(p)
  PROVE  LogInv'
<1>1. Types /\ FileInv /\ CountInv /\ WriteInv /\ SyncInv /\ WriteAhead /\ PageInv /\ ReplayInv
  BY Zenon DEF LogInv
<1>2. /\ pc \notin Recovers /\ pc \notin {"expire"} /\ pc' = pc
      /\ file[p] # safe[p] /\ file' = [file EXCEPT ![p] = safe[p]]
      /\ UNCHANGED <<log, synced, old, disk, safe, atRisk>>
  BY <1>1, Zenon DEF WritePage, Recovers, logVars, recVars, PageInv
<1>3. /\ file'[p] = safe[p] /\ \A q \in Pages : q # p => file'[q] = file[q]
      /\ file' \in [Pages -> Images]
  BY <1>1, <1>2, Zenon DEF Types
<1>4. Types'
  BY <1>1, <1>3, Zenon DEF Types, WritePage, logVars, memVars, workVars, recVars
<1>5. FileInv' /\ CountInv' /\ WriteInv' /\ SyncInv'
  BY <1>1, ZenonT(30) DEF FileInv, CountInv, WriteInv, SyncInv, WritePage, logVars, memVars, workVars
<1>6. Logged(synced, p, safe[p])
  BY <1>1, <1>2, Zenon DEF PageInv
<1>7. WriteAhead'
  BY <1>1, <1>2, <1>3, <1>6, Zenon DEF WriteAhead
<1>8. Recoverable(synced, safe) => Recoverable(synced, safe)'
  BY <1>2, <1>3, Zenon DEF Recoverable
<1>9. PageInv'
  BY <1>1, <1>2, <1>3, <1>8, Zenon DEF PageInv, Recovers
<1>10. ReplayInv'
  BY <1>2, Zenon DEF ReplayInv, Recovers
<1> QED
  BY <1>4, <1>5, <1>7, <1>9, <1>10, Zenon DEF LogInv

LEMMA DeferKeeps ==
  ASSUME LogInv, Defer \/ StartRecovery
  PROVE  LogInv'
<1>1. Types /\ FileInv /\ CountInv /\ WriteInv /\ SyncInv /\ WriteAhead /\ PageInv /\ ReplayInv
  BY Zenon DEF LogInv
<1>2. /\ \/ pc = "logged" /\ pc' = "idle"
         \/ pc = "down" /\ pc' = "replay"
      /\ UNCHANGED <<logVars, dataVars, memVars, workVars, recVars, safe>>
  BY Zenon DEF Defer, StartRecovery
<1> USE <1>2 DEF logVars, dataVars, memVars, workVars, recVars
<1>3. Types'
  BY <1>1, Zenon DEF Types, Places
<1>4. FileInv' /\ CountInv' /\ WriteInv' /\ SyncInv' /\ WriteAhead'
  BY <1>1, Zenon DEF FileInv, CountInv, WriteInv, SyncInv, WriteAhead, Writes
<1>5. PageInv'
  BY <1>1, Zenon DEF PageInv, Recovers, Recoverable, Attempted
<1>6. ReplayInv'
  <2>1. \A j \in DOMAIN log : ~(j < 1)
    BY <1>1, FileTypes DEF Types
  <2>2. CASE pc = "down"
    <3>1. /\ replay' = NoReplay /\ replay'.pos = 1 /\ replay'.left = 0 /\ replay'.id = 0
          /\ ~replay'.logged /\ ~replay'.indexonly
      BY <1>1, <2>2 DEF ReplayInv, NoReplay
    <3>2. Position' /\ Replayed(replay.pos)'
      BY <2>1, <3>1, Zenon DEF Position, Replayed
    <3> QED
      BY <2>2, <3>1, <3>2, Zenon DEF ReplayInv
  <2>3. CASE pc = "logged"
    BY <2>3, Zenon DEF ReplayInv
  <2> QED
    BY <2>2, <2>3, Zenon
<1> QED
  BY <1>3, <1>4, <1>5, <1>6, Zenon DEF LogInv

LEMMA CommitPackageKeeps ==
  ASSUME LogInv, CommitPackage
  PROVE  LogInv'
<1>1. Types /\ FileInv /\ CountInv /\ WriteInv /\ SyncInv /\ WriteAhead /\ PageInv /\ ReplayInv
  BY Zenon DEF LogInv
<1>2. /\ pc = "logged" /\ pc' = "expire" /\ file = safe /\ disk' = file
      /\ UNCHANGED <<logVars, file, memVars, workVars, recVars, safe>>
  BY Zenon DEF CommitPackage
<1> USE <1>2 DEF logVars, memVars, workVars, recVars
<1>3. Types'
  BY <1>1, Zenon DEF Types, Places
<1>4. FileInv' /\ CountInv' /\ WriteInv' /\ SyncInv' /\ WriteAhead'
  BY <1>1, Zenon DEF FileInv, CountInv, WriteInv, SyncInv, WriteAhead, Writes
<1>5. PageInv'
  BY <1>1, Zenon DEF PageInv, Recovers, Recoverable
<1>6. ReplayInv'
  BY <1>1, Zenon DEF ReplayInv
<1> QED
  BY <1>3, <1>4, <1>5, <1>6, Zenon DEF LogInv

LEMMA StartKeeps ==
  ASSUME LogInv, Start
  PROVE  LogInv'
<1>1. Types /\ FileInv /\ CountInv /\ WriteInv /\ SyncInv /\ WriteAhead /\ PageInv /\ ReplayInv
  BY Zenon DEF LogInv
<1>2. /\ pc = "closed" /\ pc' = "idle" /\ header' = NoHeader /\ log_pos' = 1 /\ log_count' = 0
      /\ UNCHANGED <<logVars, dataVars, store, workVars, recVars, safe>>
  BY Zenon DEF Start
<1> USE <1>2 DEF logVars, dataVars, workVars, recVars
<1>3. Types'
  BY <1>1, Zenon DEF Types, Places, NoHeader, Header
<1>4. FileInv' /\ WriteInv' /\ SyncInv' /\ WriteAhead'
  BY <1>1, Zenon DEF FileInv, WriteInv, SyncInv, WriteAhead, Writes
<1>5. PageInv'
  BY <1>1, Zenon DEF PageInv, Recovers, Recoverable
<1>6. CountInv'
  BY <1>1, Zenon DEF CountInv, FileInv, SyncInv
<1>7. ReplayInv'
  BY <1>1, Zenon DEF ReplayInv
<1> QED
  BY <1>3, <1>4, <1>5, <1>6, <1>7, Zenon DEF LogInv

-----------------------------------------------------------------------------
(* Recovery.                                                               *)

LEMMA ReplayFields ==
  ASSUME NEW r \in Replays
  PROVE  /\ r.pos \in Nat \ {0} /\ r.id \in Nat /\ r.left \in Nat
         /\ r.logged \in BOOLEAN /\ r.indexonly \in BOOLEAN
BY Zenon DEF Replays

LEMMA ReplayStarts ==
  /\ NoReplay \in Replays
  /\ \A s : s = [NoReplay EXCEPT !.indexonly = TRUE] =>
       /\ s \in Replays /\ s.indexonly /\ s.pos = 1 /\ s.left = 0 /\ s.id = 0 /\ ~s.logged
<1>1. /\ NoReplay \in Replays /\ NoReplay.pos = 1 /\ NoReplay.left = 0 /\ NoReplay.id = 0
      /\ NoReplay.logged = FALSE
  BY DEF Replays, NoReplay
<1> QED
  BY <1>1, Zenon DEF Replays

\* The reader stands at the start of the file, in a completed log or behind one.
LEMMA ReaderAt ==
  ASSUME LogInv, pc = "replay"
  PROVE  /\ Source \in Seq(Blocks) /\ Whole(Source) /\ replay.pos \in Nat /\ replay.left \in Nat
         /\ replay.pos \in DOMAIN Source <=> replay.pos <= Len(Source)
         /\ replay.left > 0 => replay.pos \in DOMAIN Source /\ Source[replay.pos].kind = "segment"
         /\ replay.left = 0 /\ replay.pos \in DOMAIN Source => Source[replay.pos].kind # "segment"
<1>1. Source \in Seq(Blocks) /\ Whole(Source) /\ Position
  BY Zenon DEF LogInv, Types, FileInv, ReplayInv, Source
<1>2. replay.pos \in Nat \ {0} /\ replay.left \in Nat
  BY Zenon DEF LogInv, Types, Replays
<1>3. Len(Source) \in Nat /\ DOMAIN Source = 1 .. Len(Source)
  BY <1>1, FileTypes, Zenon
<1>4. CASE replay.pos = 1 /\ replay.left = 0
  BY <1>1, <1>2, <1>3, <1>4, EmptySeq DEF Whole
<1>5. CASE \E i \in DOMAIN Source : /\ Completed(Source[i]) /\ replay.left <= Source[i].segments
                                    /\ replay.pos = End(Source, i) + 1 - replay.left
  <2>1. PICK i \in DOMAIN Source : /\ Completed(Source[i]) /\ replay.left <= Source[i].segments
                                   /\ replay.pos = End(Source, i) + 1 - replay.left
    BY <1>5, Zenon
  <2>2. /\ End(Source, i) <= Len(Source) /\ End(Source, i) \in Nat /\ Source[i].segments \in Nat
        /\ i \in Nat /\ End(Source, i) = i + Source[i].segments
        /\ \A j \in i + 1 .. End(Source, i) : Source[j].kind = "segment"
        /\ End(Source, i) + 1 \in DOMAIN Source => Source[End(Source, i) + 1].kind # "segment"
    BY <2>1, <1>1, <1>3, FileTypes DEF Whole, End
  <2>3. CASE replay.left > 0
    <3>0. \A a, l, m \in Nat : 0 < l /\ l <= m => (a + m) + 1 - l \in a + 1 .. a + m
      OBVIOUS
    <3>1. replay.pos \in i + 1 .. End(Source, i)
      BY <3>0, <2>1, <2>2, <2>3, <1>2, Zenon
    <3>2. Source[replay.pos].kind = "segment"
      BY <3>1, <2>2, Zenon
    <3>3. replay.pos \in DOMAIN Source /\ replay.pos <= Len(Source)
      BY <3>1, <2>2, <1>2, <1>3, SMTT(30)
    <3> QED
      BY <3>2, <3>3, <2>3, <1>1, <1>2
  <2>4. CASE replay.left = 0
    BY <2>1, <2>2, <2>4, <1>1, <1>2, <1>3
  <2> QED
    BY <2>3, <2>4, <1>2
<1> QED
  BY <1>1, <1>4, <1>5, Zenon DEF Position

LEMMA ReplayHeaderKeeps ==
  ASSUME LogInv, ReplayHeader
  PROVE  LogInv'
<1>1. Types /\ FileInv /\ CountInv /\ WriteInv /\ SyncInv /\ WriteAhead /\ PageInv /\ ReplayInv
  BY Zenon DEF LogInv
<1> DEFINE block == Source[replay.pos]
<1>2. /\ pc = "replay" /\ pc' = pc /\ replay.left = 0 /\ replay.pos <= Len(Source) /\ Accepts(block)
      /\ header' = block
      /\ replay' = [replay EXCEPT !.pos = @ + 1, !.id = block.id,
                                  !.left = block.segments, !.logged = TRUE]
      /\ UNCHANGED <<logVars, dataVars, log_pos, log_count, store, workVars, recovered, safe, atRisk>>
  BY Zenon DEF ReplayHeader
<1>3. replay.pos \in DOMAIN Source /\ replay.pos \in Nat /\ Source \in Seq(Blocks)
  BY <1>2, ReaderAt, Zenon
<1>4. block \in [kind : {"header"}, id : Nat, completed : BOOLEAN, segments : Nat] /\ Completed(block)
  BY <1>2, <1>3, FileTypes DEF Accepts, Blocks, TornBlock, Completed
<1> HIDE DEF block
<1>5. /\ replay'.pos = replay.pos + 1 /\ replay'.id = block.id /\ replay'.left = block.segments
      /\ replay'.logged /\ replay'.indexonly = replay.indexonly
      /\ replay' \in Replays
  <2>1. block.id \in Nat /\ block.segments \in Nat /\ replay.pos + 1 \in Nat \ {0} /\ replay \in Replays
    BY <1>1, <1>3, <1>4 DEF Types
  <2> QED
    BY <2>1, <1>2, ReplayFields, Zenon DEF Replays
<1>6. Source' = Source
  BY <1>2, <1>5, Zenon DEF Source, logVars
<1>7. Types'
  BY <1>1, <1>2, <1>4, <1>5, Zenon DEF Types, logVars, dataVars, workVars
<1>8. FileInv' /\ CountInv' /\ WriteInv' /\ SyncInv' /\ WriteAhead'
  BY <1>1, <1>2, Zenon DEF FileInv, CountInv, WriteInv, SyncInv, WriteAhead, Writes, logVars, dataVars, workVars
<1>9. PageInv'
  BY <1>1, <1>2, Zenon DEF PageInv, Recovers, Recoverable, Attempted, logVars, dataVars, workVars
<1>10. Position'
  <2>1. replay.pos \in DOMAIN Source /\ Completed(Source[replay.pos])
    BY <1>3, <1>4, Zenon DEF block
  <2>2. replay.pos + 1 = End(Source, replay.pos) + 1 - block.segments
    BY <1>3, <1>4 DEF End, block
  <2>3. block = Source[replay.pos] /\ block.segments <= block.segments
    BY <1>4 DEF block
  <2> QED
    BY <2>1, <2>2, <2>3, <1>2, <1>5, <1>6, Zenon DEF Position
<1>11. ASSUME ~replay.indexonly, Replayed(replay.pos) PROVE Replayed(replay.pos)'
  <2>1. log' = log /\ file' = file /\ recovered' = recovered /\ Source = log
    BY <1>2, <1>11, Zenon DEF logVars, dataVars, Source
  <2>2. \A p : ~Covers(log, replay.pos, p)
    BY <2>1, <1>3, <1>4, CoversTypes, Zenon DEF block, Completed
  <2>3. \A j \in DOMAIN log : j < replay.pos + 1 => j < replay.pos \/ j = replay.pos
    BY <2>1, <1>3, FileTypes
  <2> QED
    BY <2>1, <2>2, <2>3, <1>5, <1>11, Zenon DEF Replayed
<1>12. ReplayInv'
  BY <1>1, <1>2, <1>5, <1>10, <1>11, Zenon DEF ReplayInv, logVars
<1> QED
  BY <1>7, <1>8, <1>9, <1>12, Zenon DEF LogInv

LEMMA ReplaySegmentKeeps ==
  ASSUME LogInv, ReplaySegment
  PROVE  LogInv'
<1>1. Types /\ FileInv /\ CountInv /\ WriteInv /\ SyncInv /\ WriteAhead /\ PageInv /\ ReplayInv
  BY Zenon DEF LogInv
<1> DEFINE block == Source[replay.pos]
           images == IF ~replay.indexonly THEN block.pages ELSE {}
<1>2. /\ replay.pos \in DOMAIN Source /\ replay.pos \in Nat /\ Source \in Seq(Blocks)
      /\ block.kind = "segment" /\ pc = "replay" /\ replay.left > 0 /\ replay.left \in Nat
      /\ block.pages \subseteq Pages /\ block.number \in 1 .. MaxLogs
  <2>1. pc = "replay" /\ replay.left > 0
    BY Zenon DEF ReplaySegment
  <2>2. /\ replay.pos \in DOMAIN Source /\ replay.pos \in Nat /\ Source \in Seq(Blocks)
        /\ block.kind = "segment" /\ replay.left \in Nat
    BY <2>1, ReaderAt, Zenon
  <2> QED
    BY <2>1, <2>2, FileTypes, BlockTypes, Zenon
<1>3. /\ pc' = pc
      /\ file' = [p \in Pages |-> IF p \in images THEN block.number ELSE file[p]]
      /\ disk' = file'
      /\ recovered' = recovered \cup (block.pages \cap IndexPages)
      /\ replay' = [replay EXCEPT !.pos = @ + 1, !.left = @ - 1]
      /\ UNCHANGED <<logVars, memVars, workVars, safe, atRisk>>
  BY <1>2, Zenon DEF ReplaySegment
<1> HIDE DEF block, images
<1>4. /\ replay'.pos = replay.pos + 1 /\ replay'.left = replay.left - 1 /\ replay'.id = replay.id
      /\ replay'.logged = replay.logged /\ replay'.indexonly = replay.indexonly
      /\ replay' \in Replays
  <2>1. replay.left - 1 \in Nat /\ replay.pos + 1 \in Nat \ {0} /\ replay \in Replays
    BY <1>1, <1>2, SMTT(30) DEF Types
  <2> QED
    BY <2>1, <1>3, ReplayFields, Zenon DEF Replays
<1>5. Source' = Source
  BY <1>3, <1>4, Zenon DEF Source, logVars
<1>6. /\ file' \in [Pages -> Images]
      /\ \A p \in Pages : file'[p] = IF p \in images THEN block.number ELSE file[p]
  BY <1>1, <1>2, <1>3, SMTT(30) DEF Types, Images
<1>7. Types'
  BY <1>1, <1>2, <1>3, <1>4, <1>6, Zenon DEF Types, logVars, memVars, workVars
<1>8. FileInv' /\ CountInv' /\ WriteInv' /\ SyncInv' /\ WriteAhead'
  BY <1>1, <1>2, <1>3, Zenon DEF FileInv, CountInv, WriteInv, SyncInv, WriteAhead, Writes, logVars, memVars, workVars
<1>9. Position'
  <2>1. PICK i \in DOMAIN Source :
          /\ Completed(Source[i]) /\ replay.left <= Source[i].segments
          /\ replay.pos = End(Source, i) + 1 - replay.left
          /\ replay.id = Source[i].id /\ replay.logged /\ header.id = replay.id
    BY <1>1, <1>2 DEF ReplayInv, Position
  <2>2. Source[i].segments \in Nat /\ End(Source, i) \in Nat /\ header' = header
    BY <2>1, <1>2, <1>3, FileTypes, Zenon DEF memVars
  <2>3. /\ replay.left - 1 <= Source[i].segments
        /\ replay.pos + 1 = End(Source, i) + 1 - (replay.left - 1)
    BY <2>1, <2>2, <1>2, SMTT(30)
  <2> QED
    BY <2>1, <2>2, <2>3, <1>4, <1>5, Zenon DEF Position
<1>10. CASE replay.indexonly
  <2>1. file' = file /\ disk' = disk /\ log' = log
    <3>1. images = {} /\ file = disk
      BY <1>1, <1>2, <1>10, Zenon DEF images, PageInv, Recovers
    <3> QED
      BY <3>1, <1>1, <1>3, Zenon DEF Types, logVars
  <2>2. PageInv'
    BY <2>1, <1>1, <1>2, <1>3 DEF PageInv, Recovers, Recoverable, Attempted, logVars, workVars
  <2>3. ReplayInv'
    BY <2>1, <1>1, <1>2, <1>3, <1>4, <1>9, <1>10, Zenon DEF ReplayInv
  <2> QED
    BY <1>7, <1>8, <2>2, <2>3, Zenon DEF LogInv
<1>11. CASE ~replay.indexonly
  <2>1. Source = log /\ images = block.pages /\ log' = log /\ block = log[replay.pos] /\ log \in Seq(Blocks)
    BY <1>1, <1>3, <1>11, Zenon DEF Source, images, block, logVars, Types
  <2>2. \A p \in block.pages : Covers(log, replay.pos, p) /\ Logged(log, p, block.number)
    <3>1. \A p \in block.pages : Covers(log, replay.pos, p)
      <4>1. PICK i \in DOMAIN Source :
              /\ Completed(Source[i]) /\ replay.left <= Source[i].segments
              /\ replay.pos = End(Source, i) + 1 - replay.left
        BY <1>1, <1>2 DEF ReplayInv, Position
      <4>2. i < replay.pos /\ replay.pos <= End(Source, i)
        <5>1. i \in Nat /\ Source[i].segments \in Nat /\ End(Source, i) = i + Source[i].segments
          BY <4>1, <1>2, FileTypes DEF End
        <5> QED
          BY <5>1, <4>1, <1>2
      <4> QED
        BY <4>1, <4>2, <2>1, <1>2, Zenon DEF Covers
    <3> QED
      BY <3>1, <2>1, <1>2, LoggedCovers, Zenon
  <2>3. PageInv'
    <3>1. ASSUME NEW v, Recoverable(log, v) PROVE Recoverable(log, v)'
      BY <3>1, <2>1, <2>2, <1>2, <1>3, <1>6, Zenon DEF Recoverable
    <3> QED
      BY <3>1, <2>1, <1>1, <1>2, <1>3, Zenon DEF PageInv, Recovers, Attempted, workVars, logVars
  <2>4. ASSUME Replayed(replay.pos) PROVE Replayed(replay.pos)'
    <3> SUFFICES ASSUME NEW j \in DOMAIN log, j < replay.pos + 1, NEW p \in Pages, Covers(log, j, p)
                 PROVE  /\ Logged(log, p, file'[p]) /\ log[j].number <= file'[p]
                        /\ p \in IndexPages => p \in recovered'
      BY <2>1, <1>4, Zenon DEF Replayed
    <3>1. j < replay.pos \/ j = replay.pos
      BY <2>1, <1>2, FileTypes
    <3>2. log[j].kind = "segment" /\ log[j].number \in Nat
      BY <2>1, CoversTypes, Zenon
    <3>3. CASE p \in block.pages
      <4>1. log[j].number <= block.number
        BY <3>1, <3>2, <2>1, <1>1, <1>2 DEF FileInv, Whole
      <4> QED
        BY <4>1, <3>3, <2>1, <2>2, <1>3, <1>6, Zenon
    <3>4. CASE p \notin block.pages
      <4>1. j < replay.pos
        BY <3>1, <3>4, <2>1, Zenon DEF Covers
      <4> QED
        BY <4>1, <3>4, <2>1, <2>4, <1>3, <1>6, Zenon DEF Replayed
    <3> QED
      BY <3>3, <3>4, Zenon
  <2>5. ReplayInv'
    BY <2>1, <2>4, <1>1, <1>2, <1>3, <1>4, <1>9, <1>11, Zenon DEF ReplayInv
  <2> QED
    BY <1>7, <1>8, <2>3, <2>5, Zenon DEF LogInv
<1> QED
  BY <1>10, <1>11, Zenon

\* Where no completed log is behind an uncompleted one, the reader stops behind the last
\* completed log.
LEMMA ReaderStops ==
  ASSUME LogInv, pc = "replay", ~replay.indexonly, ~Blocked(log), replay.left = 0,
         replay.pos > Len(log) \/ ~Accepts(log[replay.pos])
  PROVE  /\ \A i \in DOMAIN log : Completed(log[i]) => End(log, i) < replay.pos
         /\ ~replay.logged => \A i \in DOMAIN log : ~Completed(log[i])
         /\ \A i \in DOMAIN log : Completed(log[i]) /\ End(log, i) = Len(log) =>
              replay.pos > Len(log) /\ header.id = log[i].id
<1>1. /\ Source = log /\ log \in Seq(Blocks) /\ Whole(log) /\ replay.pos \in Nat /\ Chain(log) /\ Position
      /\ replay.pos \in DOMAIN log => log[replay.pos].kind # "segment"
      /\ replay.pos \in DOMAIN log <=> replay.pos <= Len(log)
  BY ReaderAt, Zenon DEF Source, LogInv, FileInv, ReplayInv
<1>2. Len(log) \in Nat /\ DOMAIN log = 1 .. Len(log)
  BY <1>1, FileTypes, Zenon
<1>3. ASSUME replay.pos \in DOMAIN log, ~Completed(log[replay.pos]), NEW k \in DOMAIN log, Completed(log[k])
      PROVE  k < replay.pos
  <2>1. Open(log[replay.pos])
    BY <1>1, <1>3, FileTypes, Zenon DEF Open, Completed
  <2>2. ~(replay.pos < k)
    BY <2>1, <1>3, Zenon DEF Blocked
  <2> QED
    BY <2>2, <1>1, <1>2, <1>3, SMTT(30)
<1>4. CASE replay.pos = 1 /\ replay.id = 0 /\ ~replay.logged
  <2>1. ASSUME NEW k \in DOMAIN log PROVE ~Completed(log[k])
    <3>1. replay.pos \in DOMAIN log /\ ~Accepts(log[replay.pos])
      BY <1>1, <1>2, <1>4
    <3>2. ~Completed(log[replay.pos])
      BY <3>1, <1>4, Zenon DEF Accepts, Completed
    <3> QED
      BY <3>1, <3>2, <1>2, <1>3, <1>4
  <2> QED
    BY <2>1, Zenon
<1>5. CASE \E i \in DOMAIN Source :
              /\ Completed(Source[i]) /\ replay.left <= Source[i].segments
              /\ replay.pos = End(Source, i) + 1 - replay.left
              /\ replay.id = Source[i].id /\ replay.logged /\ header.id = replay.id
  <2>1. PICK i \in DOMAIN log :
              /\ Completed(log[i]) /\ replay.pos = End(log, i) + 1 - replay.left
              /\ replay.id = log[i].id /\ replay.logged /\ header.id = replay.id
    BY <1>1, <1>5, Zenon
  <2>2. End(log, i) \in Nat /\ i \in Nat /\ replay.pos = End(log, i) + 1 /\ i <= End(log, i)
    BY <2>1, <1>1, <1>2, FileTypes, SMTT(30) DEF End
  <2>3. replay.pos \in DOMAIN log => ~Completed(log[replay.pos])
    <3> SUFFICES ASSUME replay.pos \in DOMAIN log, Completed(log[replay.pos]) PROVE FALSE
      BY Zenon
    <3>1. ~Accepts(log[replay.pos]) /\ log[replay.pos].kind = "header"
      BY <1>1, SMTT(30) DEF Completed
    <3>2. log[replay.pos].id = log[i].id + 1
      BY <3>1, <2>1, <2>2, <1>1, Zenon DEF Chain
    <3> QED
      BY <3>1, <3>2, <2>1, Zenon DEF Accepts, Completed
  <2>4. ASSUME NEW k \in DOMAIN log, Completed(log[k]) PROVE k <= i
    <3> SUFFICES ASSUME i < k PROVE FALSE
      BY <2>2, <1>2, SMTT(30)
    <3>1. End(log, i) < k
      BY <2>1, <2>4, <1>1, LogsDisjoint, FileTypes, Zenon DEF Completed
    <3>2. replay.pos \in DOMAIN log
      BY <3>1, <2>2, <1>2
    <3>3. k < replay.pos
      BY <3>2, <2>3, <2>4, <1>3, Zenon
    <3> QED
      BY <3>1, <3>3, <2>2, <1>2
  <2>5. ASSUME NEW k \in DOMAIN log, Completed(log[k]), k # i PROVE End(log, k) < i
    <3>1. k < i
      BY <2>2, <2>4, <2>5, <1>2
    <3> QED
      BY <3>1, <2>1, <2>5, <1>1, LogsDisjoint, Zenon DEF Completed
  <2>6. ASSUME NEW k \in DOMAIN log, Completed(log[k]) PROVE End(log, k) < replay.pos
    <3>1. End(log, k) \in Nat
      BY <2>6, <1>1, FileTypes, Zenon DEF Completed
    <3> QED
      BY <3>1, <2>2, <2>5, <2>6, SMTT(30)
  <2>7. ASSUME NEW k \in DOMAIN log, Completed(log[k]), End(log, k) = Len(log)
        PROVE  replay.pos > Len(log) /\ header.id = log[k].id
    <3>1. k = i
      BY <2>5, <2>7, <2>2, <1>2
    <3> QED
      BY <3>1, <2>1, <2>2, <2>7, <1>2
  <2> QED
    BY <2>1, <2>6, <2>7, Zenon
<1> QED
  BY <1>1, <1>4, <1>5, Zenon DEF Position

LEMMA EndReplayKeeps ==
  ASSUME LogInv, EndReplay
  PROVE  LogInv'
<1>1. Types /\ FileInv /\ CountInv /\ WriteInv /\ SyncInv /\ WriteAhead /\ PageInv /\ ReplayInv
  BY Zenon DEF LogInv
<1> DEFINE block == Source[replay.pos]
           last == IF replay.pos > Len(Source) THEN header ELSE block
<1>2. /\ pc = "replay" /\ replay.pos \in Nat /\ Source \in Seq(Blocks)
      /\ replay.pos > Len(Source) \/ (replay.left = 0 /\ ~Accepts(block))
      /\ header' = [header EXCEPT !.id = last.id] /\ log_count' = last.id + 1
      /\ IF replay.logged \/ replay.indexonly
           THEN pc' = "recovered" /\ replay' = NoReplay
           ELSE pc' = pc /\ replay' = [NoReplay EXCEPT !.indexonly = TRUE]
      /\ UNCHANGED <<logVars, dataVars, log_pos, store, workVars, recovered, safe, atRisk>>
  BY ReaderAt, Zenon DEF EndReplay
<1>3. replay.left = 0 /\ last.id \in Nat
  <2>1. Len(Source) \in Nat
    BY <1>2, FileTypes, Zenon
  <2>2. replay.left = 0
    BY <2>1, <1>2, ReaderAt
  <2>3. ASSUME ~(replay.pos > Len(Source)) PROVE block.id \in Nat
    <3>1. replay.pos \in DOMAIN Source /\ block.kind # "segment"
      BY <2>1, <2>2, <2>3, <1>2, ReaderAt
    <3> QED
      BY <3>1, <1>2, FileTypes, BlockTypes, Zenon
  <2>4. header.id \in Nat
    BY <1>1, Zenon DEF Types
  <2> QED
    BY <2>2, <2>3, <2>4, Zenon
<1> HIDE DEF last
<1>4. Types'
  <2>1. header' \in [kind : {"header"}, id : Nat, completed : BOOLEAN, segments : Nat]
    BY <1>1, <1>2, <1>3, Zenon DEF Types
  <2>2. replay' \in Replays /\ pc' \in Places /\ log_count' \in Nat
    BY <1>2, <1>3, ReplayStarts DEF Places
  <2> QED
    BY <2>1, <2>2, <1>1, <1>2, Zenon DEF Types, logVars, dataVars, workVars
<1>5. FileInv' /\ WriteInv' /\ SyncInv' /\ WriteAhead'
  BY <1>1, <1>2, Zenon DEF FileInv, WriteInv, SyncInv, WriteAhead, Writes, logVars, dataVars, workVars
<1>6. PageInv'
  BY <1>1, <1>2, Zenon DEF PageInv, Recovers, Recoverable, Attempted, logVars, dataVars, workVars
<1>7. CASE replay.indexonly
  <2>1. pc' = "recovered" /\ log' = log
    BY <1>2, <1>7, Zenon DEF logVars
  <2>2. ~Blocked(log) => \A i \in DOMAIN log : ~Completed(log[i])
    BY <1>1, <1>2, <1>7, Zenon DEF ReplayInv
  <2>3. CountInv'
    BY <2>1, <2>2, Zenon DEF CountInv
  <2>4. ReplayInv'
    BY <2>1, <2>2, Zenon DEF ReplayInv, Replayed, Covers
  <2> QED
    BY <2>3, <2>4, <1>4, <1>5, <1>6, Zenon DEF LogInv
<1>8. CASE ~replay.indexonly
  <2>1. Source = log /\ log' = log
    BY <1>2, <1>8, Zenon DEF Source, logVars
  <2>2. replay.pos > Len(log) \/ ~Accepts(log[replay.pos])
    BY <2>1, <1>2, Zenon
  <2>3. CASE ~replay.logged
    <3>1. ~Blocked(log) => \A i \in DOMAIN log : ~Completed(log[i])
      BY <2>2, <2>3, <1>2, <1>3, <1>8, ReaderStops, Zenon
    <3>2. /\ pc' = "replay" /\ replay'.indexonly /\ replay'.pos = 1 /\ replay'.left = 0
          /\ replay'.id = 0 /\ ~replay'.logged
      BY <2>3, <1>2, <1>8, ReplayStarts, Zenon
    <3>3. CountInv'
      BY <3>2, Zenon DEF CountInv
    <3>4. ReplayInv'
      BY <3>1, <3>2, <2>1, Zenon DEF ReplayInv, Position
    <3> QED
      BY <3>3, <3>4, <1>4, <1>5, <1>6, Zenon DEF LogInv
  <2>4. CASE replay.logged
    <3>1. pc' = "recovered" /\ file' = file /\ recovered' = recovered
      BY <2>4, <1>2, Zenon DEF dataVars
    <3>2. CountInv'
      <4> SUFFICES ASSUME ~Blocked(log), NEW i \in DOMAIN log, Completed(log[i]), End(log, i) = Len(log)
                   PROVE  log_count' = log[i].id + 1
        BY <2>1, <3>1, Zenon DEF CountInv
      <4>1. replay.pos > Len(log) /\ header.id = log[i].id
        BY <2>2, <1>2, <1>3, <1>8, ReaderStops, Zenon
      <4> QED
        BY <4>1, <2>1, <1>2, Zenon DEF last
    <3>3. ReplayInv'
      <4>1. ASSUME ~Blocked(log) PROVE Replayed(Len(log) + 1)
        <5>1. Replayed(replay.pos)
          BY <4>1, <1>1, <1>2, <1>8, Zenon DEF ReplayInv
        <5>2. ASSUME NEW j \in DOMAIN log, NEW p, Covers(log, j, p) PROVE j < replay.pos
          <6>1. PICK i \in DOMAIN log : Completed(log[i]) /\ j <= End(log, i)
            BY <5>2, Zenon DEF Covers
          <6>2. End(log, i) < replay.pos /\ End(log, i) \in Nat /\ j \in Nat
            BY <6>1, <4>1, <2>1, <2>2, <1>2, <1>3, <1>8, ReaderStops, FileTypes DEF Completed
          <6> QED
            BY <6>1, <6>2, <1>2, SMTT(30)
        <5> QED
          BY <5>1, <5>2, Zenon DEF Replayed
      <4> QED
        BY <4>1, <3>1, <2>1, Zenon DEF ReplayInv, Replayed
    <3> QED
      BY <3>2, <3>3, <1>4, <1>5, <1>6, Zenon DEF LogInv
  <2> QED
    BY <2>3, <2>4, Zenon
<1> QED
  BY <1>7, <1>8, Zenon

LEMMA ResumeKeeps ==
  ASSUME LogInv, Resume
  PROVE  LogInv'
<1>1. Types /\ FileInv /\ CountInv /\ WriteInv /\ SyncInv /\ WriteAhead /\ PageInv /\ ReplayInv
  BY Zenon DEF LogInv
<1>2. /\ pc = "recovered" /\ pc' = "idle" /\ safe' = file /\ atRisk' = {}
      /\ UNCHANGED <<logVars, dataVars, memVars, workVars, replay, recovered>>
  BY Zenon DEF Resume
<1>3. Types'
  BY <1>1, <1>2, Zenon DEF Types, Places, logVars, dataVars, memVars, workVars
<1>4. FileInv' /\ CountInv' /\ WriteInv' /\ SyncInv' /\ WriteAhead'
  BY <1>1, <1>2, Zenon DEF FileInv, CountInv, WriteInv, SyncInv, WriteAhead, Writes, logVars, dataVars, memVars, workVars
<1>5. ReplayInv'
  BY <1>2, Zenon DEF ReplayInv
<1>6. PageInv'
  <2>1. file = disk /\ synced = log /\ file' = file /\ disk' = disk /\ log' = log /\ synced' = synced
    BY <1>1, <1>2, Zenon DEF PageInv, SyncInv, Recovers, logVars, dataVars
  <2>2. ASSUME ~Blocked(log) PROVE Recoverable(log, file)
    <3> SUFFICES ASSUME NEW p \in Pages, NEW k \in DOMAIN log, Covers(log, k, p) PROVE Newest(log, p, file[p])
      BY <2>1, Zenon DEF Recoverable
    <3>1. \A j \in DOMAIN log : j < Len(log) + 1
      BY <1>1, FileTypes, SMTT(30) DEF Types
    <3>2. \A j \in DOMAIN log : Covers(log, j, p) => Logged(log, p, file[p]) /\ log[j].number <= file[p]
      BY <3>1, <2>2, <1>1, <1>2, Zenon DEF ReplayInv, Replayed
    <3> QED
      BY <3>2, Zenon DEF Newest
  <2>3. Recoverable(log, file) => Recoverable(synced, safe)'
    BY <2>1, <1>2, Zenon DEF Recoverable
  <2> QED
    BY <2>1, <2>2, <2>3, <1>2, Zenon DEF PageInv, Recovers
<1> QED
  BY <1>3, <1>4, <1>5, <1>6, Zenon DEF LogInv

-----------------------------------------------------------------------------
(* Writing a log.                                                          *)

\* The log being written is behind all completed ones.
LEMMA LastLog ==
  ASSUME LogInv, pc \in Writes, pc # "headsync"
  PROVE  /\ log_pos \in DOMAIN log /\ log[log_pos].kind = "header" /\ ~Completed(log[log_pos])
         /\ \A i \in DOMAIN log : i > log_pos => log[i].kind = "segment" /\ ~Completed(log[i])
         /\ \A i \in DOMAIN log : Completed(log[i]) => End(log, i) < log_pos
<1>1. log \in Seq(Blocks) /\ Whole(log)
  BY Zenon DEF LogInv, Types, FileInv
<1>2. /\ log_pos \in DOMAIN log /\ log[log_pos] = Header(header.id, FALSE, 0)
      /\ \A i \in log_pos + 1 .. Len(log) : log[i].kind = "segment"
  BY Zenon DEF LogInv, WriteInv
<1>3. log[log_pos].kind = "header" /\ ~Completed(log[log_pos])
  BY <1>2 DEF Header, Completed
<1>4. ASSUME NEW i \in DOMAIN log, i > log_pos PROVE log[i].kind = "segment" /\ ~Completed(log[i])
  <2>1. i \in log_pos + 1 .. Len(log)
    BY <1>1, <1>2, <1>4, FileTypes, SMTT(30)
  <2> QED
    BY <2>1, <1>2, Zenon DEF Completed
<1>5. ASSUME NEW i \in DOMAIN log, Completed(log[i]) PROVE End(log, i) < log_pos
  <2>0. i \in Nat /\ log_pos \in Nat
    BY <1>1, <1>2, FileTypes
  <2>1. i < log_pos
    BY <2>0, <1>3, <1>4, <1>5
  <2> QED
    BY <2>1, <1>1, <1>2, <1>3, <1>5, LogsDisjoint, Zenon
<1> QED
  BY <1>2, <1>3, <1>4, <1>5, Zenon

\* What is not yet synced holds no completed header, except while the header is synced.
LEMMA SyncedBehind ==
  ASSUME LogInv, pc # "headsync"
  PROVE  Extends(synced, log)
<1>1. log \in Seq(Blocks) /\ synced \in Seq(Blocks) /\ SyncInv
  BY Zenon DEF LogInv, Types
<1>2. Len(log) \in Nat /\ DOMAIN log = 1 .. Len(log) /\ Len(synced) \in Nat /\ DOMAIN synced = 1 .. Len(synced)
  BY <1>1, FileTypes, Zenon
<1>3. CASE pc \in {"beginsync", "logging", "dumpsync"}
  <2>1. /\ Len(synced) <= Len(log) /\ log_pos <= Len(synced) + 1 /\ log_pos \in Nat
        /\ \A i \in DOMAIN synced : synced[i] = log[i]
    <3>1. \A i \in DOMAIN synced : synced[i] = log[i]
      BY <1>1, <1>3, Zenon DEF SyncInv
    <3>2. log_pos \in Nat
      BY Zenon DEF LogInv, Types
    <3>3. \/ log_pos = Len(log) /\ Len(log) = Len(synced) + 1
          \/ log_pos <= Len(synced) /\ Len(synced) <= Len(log)
      BY <1>1, <1>3, Zenon DEF SyncInv
    <3>4. \A a, b, c \in Nat : (a = b /\ b = c + 1) \/ (a <= c /\ c <= b) => c <= b /\ a <= c + 1
      OBVIOUS
    <3>5. Len(synced) <= Len(log) /\ log_pos <= Len(synced) + 1
      BY <3>2, <3>3, <3>4, <1>2, Zenon
    <3> QED
      BY <3>1, <3>2, <3>5, Zenon
  <2>2. \A i \in DOMAIN log : i > Len(synced) => i >= log_pos
    BY <2>1, <1>2
  <2>3. \A i \in DOMAIN log : i >= log_pos => ~Completed(log[i])
    BY <1>2, <1>3, LastLog DEF Writes
  <2> QED
    BY <2>1, <2>2, <2>3, Zenon DEF Extends
<1>4. CASE pc \notin {"beginsync", "logging", "dumpsync"}
  <2>1. synced = log
    BY <1>1, <1>4, Zenon DEF SyncInv
  <2> QED
    BY <2>1, <1>2 DEF Extends
<1> QED
  BY <1>3, <1>4, Zenon

LEMMA BeginKeeps ==
  ASSUME LogInv, vfdbeginlog
  PROVE  LogInv'
<1>1. Types /\ FileInv /\ CountInv /\ WriteInv /\ SyncInv /\ WriteAhead /\ PageInv /\ ReplayInv
  BY Zenon DEF LogInv
<1> DEFINE b == Header(log_count, FALSE, 0)
<1>2. /\ pc = "idle" /\ number < MaxLogs /\ header' = b /\ log_count' = log_count + 1
      /\ log_pos' = Len(log) + 1 /\ log' = Append(log, b) /\ store' = {}
      /\ number' = number + 1 /\ body' = {} /\ pc' = "beginsync"
      /\ UNCHANGED <<synced, old, dataVars, recVars, safe>>
  BY Zenon DEF vfdbeginlog
<1>3. /\ b \in [kind : {"header"}, id : Nat, completed : BOOLEAN, segments : Nat] /\ b \in Blocks
      /\ b.id = log_count /\ b.completed = FALSE /\ b.segments = 0 /\ b.kind = "header" /\ ~Completed(b)
  BY <1>1, Zenon DEF Types, Header, Blocks, Completed
<1> HIDE DEF b
<1>4. /\ log \in Seq(Blocks) /\ log' \in Seq(Blocks) /\ Len(log) \in Nat /\ Len(log') = Len(log) + 1
      /\ log'[Len(log) + 1] = b /\ \A i \in 1 .. Len(log) : log'[i] = log[i]
      /\ DOMAIN log' = 1 .. Len(log) + 1 /\ DOMAIN log = 1 .. Len(log)
  BY <1>1, <1>2, <1>3, AppendProperties, LenProperties DEF Types
<1>5. Extends(log, log')
  BY <1>3, <1>4, SMTT(30) DEF Extends
<1>6. Types'
  <2>1. /\ log_pos' \in Nat /\ log_count' \in Nat /\ number' \in 0 .. MaxLogs /\ pc' \in Places
    BY <1>1, <1>2, <1>4, SizeAssumption DEF Types, Places
  <2>2. body' \subseteq Pages /\ store' \subseteq body'
    BY <1>2, Zenon
  <2> QED
    BY <2>1, <2>2, <1>1, <1>2, <1>3, <1>4, Zenon DEF Types, dataVars, recVars
<1>7. FileInv'
  <2>1. ASSUME NEW j \in DOMAIN log', log'[j].kind = "segment" PROVE j \in DOMAIN log /\ log'[j] = log[j]
    BY <2>1, <1>3, <1>4, SMTT(30)
  <2>2. Whole(log')
    <3>1. \A j, k \in DOMAIN log' : j < k /\ log'[j].kind = "segment" /\ log'[k].kind = "segment"
                                    => log'[j].number <= log'[k].number
      BY <2>1, <1>1, Zenon DEF FileInv, Whole
    <3>2. Whole(log)
      BY <1>1, Zenon DEF FileInv
    <3> QED
      BY <3>1, <3>2, <1>3, <1>4, <1>5, ExtendsWhole, Zenon
  <2>3. ASSUME ~Blocked(log') PROVE Chain(log')
    <3>1. Whole(log) /\ ~Blocked(log) /\ Chain(log)
      BY <2>3, <1>1, <1>4, <1>5, ExtendsSame, Zenon DEF FileInv
    <3>2. \A i \in DOMAIN log : Completed(log[i]) /\ End(log, i) = Len(log) => b.id = log[i].id + 1
      BY <3>1, <1>1, <1>2, <1>3, Zenon DEF CountInv, Writes
    <3> QED
      BY <3>1, <3>2, <1>4, <1>5, ExtendsChain, Zenon
  <2>4. ASSUME NEW j \in DOMAIN log', log'[j].kind = "segment" PROVE log'[j].number <= number + 1
    <3>1. log'[j].number \in Nat /\ log'[j].number <= number /\ number \in Nat
      BY <2>1, <2>4, <1>1, <1>4, FileTypes, SMTT(30) DEF FileInv, Types
    <3> QED
      BY <3>1, SMTT(30)
  <2> QED
    BY <2>2, <2>3, <2>4, <1>1, <1>2, Zenon DEF FileInv
<1>8. CountInv' /\ ReplayInv'
  BY <1>2, Zenon DEF CountInv, ReplayInv, Writes
<1>9. WriteInv'
  <2>1. b = Header(b.id, FALSE, 0)
    BY <1>3, Zenon DEF b
  <2>2. \A j \in log_pos' + 1 .. Len(log') : FALSE
    BY <1>2, <1>4
  <2>3. log_pos' \in DOMAIN log' /\ log_pos' + 0 = Len(log') /\ log'[log_pos'] = b
    BY <1>2, <1>4
  <2>4. number' >= 1
    BY <1>1, <1>2 DEF Types
  <2> QED
    BY <2>1, <2>2, <2>3, <2>4, <1>2, <1>3, Zenon DEF WriteInv
<1>10. SyncInv'
  <2>1. synced' = log
    BY <1>1, <1>2, Zenon DEF SyncInv
  <2> QED
    BY <2>1, <1>2, <1>4, Zenon DEF SyncInv
<1>11. WriteAhead' /\ PageInv'
  BY <1>1, <1>2, Zenon DEF WriteAhead, PageInv, Recovers, Recoverable, dataVars, recVars
<1> QED
  BY <1>6, <1>7, <1>8, <1>9, <1>10, <1>11, Zenon DEF LogInv

\* What vfdlog and vfdcommitlog have in common.
Logs ==
  /\ pc = "logging" /\ pc' \in {"logging", "dumpsync"}
  /\ body \subseteq body' /\ body' \subseteq Pages /\ store' \subseteq body'
  /\ \A p \in body' : p \in body \/ p \in store'
  /\ pc' = "dumpsync" => store' = {}
  /\ UNCHANGED <<synced, log_pos, log_count, number, old, dataVars, recVars, safe>>

LEMMA LogsUndumped ==
  ASSUME LogInv, Logs, log' = log, header' = header, store \subseteq store'
  PROVE  LogInv'
<1>1. Types /\ FileInv /\ CountInv /\ WriteInv /\ SyncInv /\ WriteAhead /\ PageInv /\ ReplayInv
  BY Zenon DEF LogInv
<1>2. Types'
  BY <1>1, Zenon DEF Types, Logs, Places, dataVars, recVars
<1>3. FileInv' /\ CountInv' /\ SyncInv' /\ WriteAhead' /\ ReplayInv'
  BY <1>1, Zenon DEF FileInv, CountInv, SyncInv, WriteAhead, ReplayInv, Logs, Writes, dataVars, recVars
<1>4. PageInv'
  BY <1>1, Zenon DEF PageInv, Recoverable, Recovers, Logs, dataVars, recVars
<1>5. WriteInv'
  <2>1. /\ header.id + 1 = log_count /\ header.completed = FALSE
        /\ log_pos \in DOMAIN log /\ log_pos + header.segments = Len(log)
        /\ log[log_pos] = Header(header.id, FALSE, 0) /\ number >= 1
    BY <1>1, Zenon DEF WriteInv, Writes, Logs
  <2>0. /\ \A j \in log_pos + 1 .. Len(log) :
             log[j].kind = "segment" /\ log[j].number = number /\ log[j].pages \subseteq body
        /\ \A p \in body : p \in store \/ \E j \in log_pos + 1 .. Len(log) : p \in log[j].pages
    BY <1>1, Zenon DEF WriteInv, Writes, Logs
  <2>2. \A j \in log_pos + 1 .. Len(log) : log[j].pages \subseteq body'
    BY <2>0, Zenon DEF Logs
  <2>3. \A p \in body' : p \in store' \/ \E j \in log_pos + 1 .. Len(log) : p \in log[j].pages
    BY <2>0, Zenon DEF Logs
  <2>4. /\ pc' # "headsync" /\ pc' # "beginsync"
        /\ pc' \in {"dumpsync", "complete", "headsync"} => store' = {}
        /\ log_pos' = log_pos /\ log_count' = log_count /\ number' = number
    BY Zenon DEF Logs
  <2> QED
    BY <2>0, <2>1, <2>2, <2>3, <2>4, Zenon DEF WriteInv
<1> QED
  BY <1>2, <1>3, <1>4, <1>5, Zenon DEF LogInv

Dumps ==
  /\ log' = Append(log, Segment(store, number))
  /\ header' = [header EXCEPT !.segments = @ + 1]

LEMMA LogsDumped ==
  ASSUME LogInv, Logs, Dumps
  PROVE  LogInv'
<1>1. Types /\ FileInv /\ CountInv /\ WriteInv /\ SyncInv /\ WriteAhead /\ PageInv /\ ReplayInv
  BY Zenon DEF LogInv
<1> DEFINE b == Segment(store, number)
           n == Len(log)
<1>2. /\ header.id + 1 = log_count /\ header.completed = FALSE
      /\ log_pos \in DOMAIN log /\ log_pos + header.segments = n
      /\ log[log_pos] = Header(header.id, FALSE, 0) /\ number >= 1
  BY <1>1, Zenon DEF WriteInv, Writes, Logs
<1>0. /\ \A j \in log_pos + 1 .. n :
           log[j].kind = "segment" /\ log[j].number = number /\ log[j].pages \subseteq body
      /\ \A p \in body : p \in store \/ \E j \in log_pos + 1 .. n : p \in log[j].pages
  BY <1>1, Zenon DEF WriteInv, Writes, Logs
<1>3. /\ b.kind = "segment" /\ b.number = number /\ b.pages = store /\ ~Completed(b)
  BY Zenon DEF Segment, Completed
<1>4. b \in Blocks
  <2>1. number \in 1 .. MaxLogs /\ store \subseteq Pages
    BY <1>1, <1>2 DEF Types
  <2> QED
    BY <2>1, Zenon DEF Segment, Blocks
<1> HIDE DEF b
<1>5. log \in Seq(Blocks) /\ log' = Append(log, b) /\ n \in Nat /\ DOMAIN log = 1 .. n
  BY <1>1, FileTypes, Zenon DEF Types, Dumps, b
<1>6. /\ log' \in Seq(Blocks) /\ Len(log') = n + 1 /\ DOMAIN log' = 1 .. n + 1
      /\ log'[n + 1] = b /\ \A i \in 1 .. n : log'[i] = log[i]
  BY <1>4, <1>5, AppendProperties, SMTT(30)
<1>7. Extends(log, log')
  BY <1>3, <1>5, <1>6 DEF Extends, b
<1> HIDE DEF n
<1>8. /\ header' \in [kind : {"header"}, id : Nat, completed : BOOLEAN, segments : Nat]
      /\ header'.id = header.id /\ header'.completed = header.completed /\ header'.segments = header.segments + 1
      /\ header.segments \in Nat /\ log_pos \in Nat /\ log_pos \in 1 .. n
  <2>1. header \in [kind : {"header"}, id : Nat, completed : BOOLEAN, segments : Nat] /\ log_pos \in Nat
    BY <1>1, Zenon DEF Types
  <2>2. header' = [header EXCEPT !.segments = @ + 1]
    BY Zenon DEF Dumps
  <2>3. log_pos \in 1 .. n
    BY <1>2, <1>5, Zenon
  <2> QED
    BY <2>1, <2>2, <2>3
<1>9. /\ pc' \in {"logging", "dumpsync"} /\ log_pos' = log_pos /\ log_count' = log_count /\ number' = number
      /\ synced' = synced
  BY Zenon DEF Logs
<1>10. Types'
  <2>1. pc' \in Places /\ body' \subseteq Pages /\ store' \subseteq body'
    BY Zenon DEF Logs, Places
  <2> QED
    BY <2>1, <1>1, <1>6, <1>8, <1>9, Zenon DEF Types, Logs, dataVars, recVars
<1>11. FileInv'
  <2>1. Whole(log) /\ \A j \in DOMAIN log : log[j].kind = "segment" => log[j].number <= number
    BY <1>1, Zenon DEF FileInv
  <2>2. \A j \in DOMAIN log' : log'[j].kind = "segment" => log'[j].number <= number
    <3>1. number <= number
      BY <1>1 DEF Types
    <3> QED
      BY <3>1, <2>1, <1>3, <1>5, <1>6
  <2>3. log # <<>> /\ \A i \in DOMAIN log : Completed(log[i]) => End(log, i) # Len(log)
    <3>1. \A i \in DOMAIN log : Completed(log[i]) => End(log, i) < log_pos /\ End(log, i) \in Nat
      BY <1>5, LastLog, FileTypes, Zenon DEF Logs, Writes
    <3>2. \A a \in Nat : a < log_pos => a # n
      BY <1>5, <1>8
    <3>3. n # 0 /\ n = Len(log)
      BY <1>5, <1>8 DEF n
    <3>4. log # <<>>
      BY <3>3, EmptySeq, Zenon
    <3> QED
      BY <3>1, <3>2, <3>3, <3>4, Zenon
  <2>4. Whole(log')
    <3>1. \A j, k \in DOMAIN log' : j < k /\ log'[j].kind = "segment" /\ log'[k].kind = "segment"
                                    => log'[j].number <= log'[k].number
      <4> SUFFICES ASSUME NEW j \in DOMAIN log', NEW k \in DOMAIN log', j < k,
                          log'[j].kind = "segment", log'[k].kind = "segment"
                   PROVE  log'[j].number <= log'[k].number
        BY Zenon
      <4>1. CASE k = n + 1
        BY <4>1, <2>2, <1>3, <1>6, Zenon
      <4>2. CASE k # n + 1
        <5>1. j \in DOMAIN log /\ k \in DOMAIN log
          BY <4>2, <1>5, <1>6, SMTT(30)
        <5> QED
          BY <5>1, <2>1, <1>5, <1>6, Zenon DEF Whole
      <4> QED
        BY <4>1, <4>2, Zenon
    <3> QED
      BY <3>1, <2>1, <2>3, <1>5, <1>6, <1>7, ExtendsWhole, Zenon
  <2>5. ASSUME ~Blocked(log') PROVE Chain(log')
    <3>1. Chain(log)
      BY <2>5, <2>1, <1>1, <1>5, <1>6, <1>7, ExtendsSame, Zenon DEF FileInv
    <3> QED
      BY <3>1, <2>1, <2>3, <1>5, <1>6, <1>7, ExtendsChain, Zenon
  <2> QED
    BY <2>2, <2>4, <2>5, <1>1, <1>9, Zenon DEF FileInv, Logs
<1>12. CountInv' /\ ReplayInv'
  BY <1>9, Zenon DEF CountInv, ReplayInv, Writes
<1>13. WriteInv'
  <2>1. \A j \in log_pos + 1 .. n + 1 :
          log'[j].kind = "segment" /\ log'[j].number = number /\ log'[j].pages \subseteq body'
    <3> SUFFICES ASSUME NEW j \in log_pos + 1 .. n + 1
                 PROVE  log'[j].kind = "segment" /\ log'[j].number = number /\ log'[j].pages \subseteq body'
      BY Zenon
    <3>1. body \subseteq body' /\ store \subseteq body
      BY <1>1, Zenon DEF Logs, Types
    <3>2. CASE j = n + 1
      BY <3>1, <3>2, <1>3, <1>6, Zenon
    <3>3. CASE j # n + 1
      <4>1. j \in log_pos + 1 .. n /\ j \in 1 .. n
        BY <3>3, <1>5, <1>8
      <4> QED
        BY <4>1, <3>1, <1>0, <1>6, Zenon
    <3> QED
      BY <3>2, <3>3, Zenon
  <2>2. \A p \in body' : p \in store' \/ \E j \in log_pos + 1 .. n + 1 : p \in log'[j].pages
    <3> SUFFICES ASSUME NEW p \in body', p \notin store'
                 PROVE  \E j \in log_pos + 1 .. n + 1 : p \in log'[j].pages
      BY Zenon
    <3>1. p \in body
      BY Zenon DEF Logs
    <3>2. CASE p \in store
      <4>1. n + 1 \in log_pos + 1 .. n + 1
        BY <1>5, <1>8
      <4> QED
        BY <4>1, <3>2, <1>3, <1>6, Zenon
    <3>3. CASE p \notin store
      <4>1. PICK j \in log_pos + 1 .. n : p \in log[j].pages
        BY <3>1, <3>3, <1>0, Zenon
      <4>2. j \in log_pos + 1 .. n + 1 /\ j \in 1 .. n
        BY <1>5, <1>8
      <4> QED
        BY <4>1, <4>2, <1>6, Zenon
    <3> QED
      BY <3>2, <3>3, Zenon
  <2>3. log_pos \in DOMAIN log' /\ log_pos + header'.segments = n + 1 /\ log'[log_pos] = log[log_pos]
    <3>1. \A a, b1 \in Nat : a + b1 = n => a + (b1 + 1) = n + 1
      BY <1>5
    <3>2. log_pos \in 1 .. n + 1
      BY <1>5, <1>8
    <3> QED
      BY <3>1, <3>2, <1>2, <1>6, <1>8, ZenonT(60)
  <2>4. pc' = "dumpsync" => store' = {}
    BY Zenon DEF Logs
  <2>5. /\ pc' # "headsync" /\ pc' # "beginsync"
        /\ pc' \in {"dumpsync", "complete", "headsync"} => store' = {}
    BY <2>4, <1>9, Zenon
  <2>6. header'.completed = FALSE /\ header'.id + 1 = log_count /\ log'[log_pos] = Header(header'.id, FALSE, 0)
    BY <2>3, <1>2, <1>8, Zenon
  <2>7. Len(log') = n + 1 /\ number >= 1
    BY <1>2, <1>6, Zenon
  <2> QED
    BY <2>1, <2>2, <2>3, <2>5, <2>6, <2>7, <1>9, Zenon DEF WriteInv
<1>14. SyncInv'
  <2>1. /\ log_pos <= Len(synced) /\ Len(synced) <= n /\ \A i \in DOMAIN synced : synced[i] = log[i]
        /\ Len(synced) \in Nat /\ DOMAIN synced = 1 .. Len(synced)
    BY <1>1, FileTypes, Zenon DEF SyncInv, Types, Logs, n
  <2>2. Len(synced) <= n + 1 /\ DOMAIN synced \subseteq 1 .. n
    BY <2>1, <1>5
  <2> QED
    BY <2>1, <2>2, <1>6, <1>9, Zenon DEF SyncInv
<1>15. WriteAhead' /\ PageInv'
  BY <1>1, <1>9, Zenon DEF WriteAhead, PageInv, Recovers, Recoverable, Logs, dataVars, recVars
<1> QED
  BY <1>10, <1>11, <1>12, <1>13, <1>14, <1>15, Zenon DEF LogInv

LEMMA LogKeeps ==
  ASSUME LogInv, NEW p \in Pages, vfdlog(p)
  PROVE  LogInv'
<1>1. body \subseteq Pages /\ store \subseteq body
  BY Zenon DEF LogInv, Types
<1>2. /\ pc = "logging" /\ pc' = pc /\ body' = body \cup {p}
      /\ UNCHANGED <<synced, old, dataVars, log_pos, log_count, number, recVars, safe>>
  BY Zenon DEF vfdlog
<1>3. \/ store' = {p} /\ (Dumps \/ (store = {} /\ log' = log /\ header' = header))
      \/ store' = store \cup {p} /\ log' = log /\ header' = header
  BY Zenon DEF vfdlog, Dump, Dumps
<1>4. Logs
  <2>1. store' \subseteq body'
    BY <1>1, <1>2, <1>3, Zenon
  <2>2. \A q \in body' : q \in body \/ q \in store'
    BY <1>2, <1>3, Zenon
  <2> QED
    BY <1>1, <1>2, <2>1, <2>2, Zenon DEF Logs
<1>5. CASE Dumps
  BY <1>4, <1>5, LogsDumped, Zenon
<1>6. CASE store \subseteq store' /\ log' = log /\ header' = header
  BY <1>4, <1>6, LogsUndumped, Zenon
<1> QED
  BY <1>3, <1>5, <1>6, Zenon

LEMMA CommitKeeps ==
  ASSUME LogInv, vfdcommitlog
  PROVE  LogInv'
<1>1. body \subseteq Pages /\ store \subseteq body
  BY Zenon DEF LogInv, Types
<1>2. /\ pc = "logging" /\ pc' = "dumpsync" /\ body' = body /\ store' = {} /\ number' = number
      /\ UNCHANGED <<synced, old, dataVars, log_pos, log_count, recVars, safe>>
  BY Zenon DEF vfdcommitlog, workVars
<1>3. Dumps \/ (store = {} /\ log' = log /\ header' = header)
  BY Zenon DEF vfdcommitlog, Dump, Dumps
<1>4. Logs
  BY <1>1, <1>2, Zenon DEF Logs
<1>5. CASE Dumps
  BY <1>4, <1>5, LogsDumped, Zenon
<1>6. CASE store = {} /\ log' = log /\ header' = header
  BY <1>4, <1>6, LogsUndumped, Zenon
<1> QED
  BY <1>3, <1>5, <1>6, Zenon

LEMMA CompleteKeeps ==
  ASSUME LogInv, CompleteHeader
  PROVE  LogInv'
<1>1. Types /\ FileInv /\ CountInv /\ WriteInv /\ SyncInv /\ WriteAhead /\ PageInv /\ ReplayInv
  BY Zenon DEF LogInv
<1>2. /\ pc = "complete" /\ pc' = "headsync"
      /\ UNCHANGED <<synced, old, dataVars, log_pos, log_count, store, workVars, recVars, safe>>
  BY Zenon DEF CompleteHeader
<1>3. /\ header.id + 1 = log_count /\ header.completed = FALSE
      /\ log_pos \in DOMAIN log /\ log_pos + header.segments = Len(log)
      /\ log[log_pos] = Header(header.id, FALSE, 0) /\ number >= 1 /\ store = {} /\ synced = log
  BY <1>1, <1>2, Zenon DEF WriteInv, SyncInv, Writes
<1>4. /\ \A j \in log_pos + 1 .. Len(log) :
           log[j].kind = "segment" /\ log[j].number = number /\ log[j].pages \subseteq body
      /\ \A p \in body : \E j \in log_pos + 1 .. Len(log) : p \in log[j].pages
  BY <1>1, <1>2, <1>3, Zenon DEF WriteInv, Writes
<1>5. /\ header' \in [kind : {"header"}, id : Nat, completed : BOOLEAN, segments : Nat] /\ header' \in Blocks
      /\ header'.kind = "header" /\ header'.id = header.id /\ header'.completed = TRUE
      /\ header'.segments = header.segments
  <2>1. header' = [header EXCEPT !.completed = TRUE]
    BY Zenon DEF CompleteHeader
  <2>2. header \in [kind : {"header"}, id : Nat, completed : BOOLEAN, segments : Nat]
    BY <1>1, Zenon DEF Types
  <2> QED
    BY <2>1, <2>2, Zenon DEF Blocks
<1>6. log \in Seq(Blocks) /\ Len(log) \in Nat /\ DOMAIN log = 1 .. Len(log)
  BY <1>1, FileTypes, Zenon DEF Types
<1>7. /\ log' \in Seq(Blocks) /\ Len(log') = Len(log) /\ DOMAIN log' = DOMAIN log
      /\ log'[log_pos] = header' /\ \A i \in DOMAIN log : i # log_pos => log'[i] = log[i]
  <2>1. log' = [log EXCEPT ![log_pos] = header']
    BY Zenon DEF CompleteHeader
  <2> QED
    BY <2>1, <1>3, <1>5, <1>6, ExceptSeq
<1>8. Completes(log, log', log_pos, number, body)
  <2>1. log_pos \in 1 .. Len(log) /\ \A j \in log_pos + 1 .. Len(log) : j \in DOMAIN log /\ j # log_pos
    BY <1>3, <1>6, SMTT(30)
  <2>2. log[log_pos].kind = "header" /\ ~log[log_pos].completed /\ log[log_pos].id = header.id
    BY <1>3, SMTT(30) DEF Header
  <2>3. Completed(log'[log_pos]) /\ log'[log_pos].id = header.id /\ End(log', log_pos) = Len(log')
    BY <1>3, <1>5, <1>7, Zenon DEF Completed, End
  <2>4. \A j \in log_pos + 1 .. Len(log') : log'[j] = log[j]
    BY <2>1, <1>7, Zenon
  <2>5. \A j \in DOMAIN log' : log'[j].kind = "segment" => log'[j].number <= number
    BY <1>1, <1>5, <1>7, Zenon DEF FileInv
  <2>6. /\ \A j \in log_pos + 1 .. Len(log') :
             log'[j].kind = "segment" /\ log'[j].number = number /\ log'[j].pages \subseteq body
        /\ \A p \in body : \E j \in log_pos + 1 .. Len(log') : p \in log'[j].pages
    BY <2>4, <1>4, <1>7, Zenon
  <2> QED
    BY <2>2, <2>3, <2>5, <2>6, <1>3, <1>7, Zenon DEF Completes
<1>9. Types'
  BY <1>1, <1>2, <1>5, <1>7, Zenon DEF Types, Places, dataVars, workVars, recVars
<1>10. FileInv'
  <2>1. Whole(log') /\ (~Blocked(log') => Chain(log'))
    BY <1>1, <1>6, <1>7, <1>8, CompletesFile, Zenon DEF FileInv
  <2>2. \A j \in DOMAIN log' : log'[j].kind = "segment" => log'[j].number <= number
    BY <1>8, Zenon DEF Completes
  <2> QED
    BY <2>1, <2>2, <1>1, <1>2, Zenon DEF FileInv, workVars
<1>11. CountInv' /\ ReplayInv'
  BY <1>2, Zenon DEF CountInv, ReplayInv, Writes
<1>12. WriteInv'
  <2>1. /\ \A j \in log_pos + 1 .. Len(log') :
             log'[j].kind = "segment" /\ log'[j].number = number /\ log'[j].pages \subseteq body
        /\ \A p \in body : \E j \in log_pos + 1 .. Len(log') : p \in log'[j].pages
    BY <1>8, Zenon DEF Completes
  <2>2. header'.id + 1 = log_count /\ log_pos \in DOMAIN log' /\ log_pos + header'.segments = Len(log')
    BY <1>3, <1>5, <1>7, Zenon
  <2> QED
    BY <2>1, <2>2, <1>2, <1>3, <1>5, <1>7, Zenon DEF WriteInv, workVars
<1>13. SyncInv'
  BY <1>2, <1>3, <1>5, <1>7, Zenon DEF SyncInv
<1>14. WriteAhead' /\ PageInv'
  BY <1>1, <1>2, Zenon DEF WriteAhead, PageInv, Recovers, Recoverable, dataVars, recVars
<1> QED
  BY <1>9, <1>10, <1>11, <1>12, <1>13, <1>14, Zenon DEF LogInv

-----------------------------------------------------------------------------
(* Syncing, expiring and closing the log.                                  *)

LEMMA RecoverableExtends ==
  ASSUME NEW f \in Seq(Blocks), NEW g \in Seq(Blocks), Whole(f), Extends(f, g), NEW v, Recoverable(f, v)
  PROVE  Recoverable(g, v)
<1>1. \A j \in DOMAIN g, p \in Pages : Covers(g, j, p) <=> j \in DOMAIN f /\ Covers(f, j, p)
  BY ExtendsSame, Zenon
<1>2. \A p \in Pages : \A n : Newest(g, p, n) <=> Newest(f, p, n)
  BY ExtendsSame, Zenon
<1> QED
  BY <1>1, <1>2, Zenon DEF Recoverable

\* The images v with those of the pages B replaced by n.
Raised(v, B, n) == [p \in Pages |-> IF p \in B THEN n ELSE v[p]]

LEMMA RecoverableCompletes ==
  ASSUME NEW f \in Seq(Blocks), NEW g \in Seq(Blocks), NEW k, NEW n, NEW B \in SUBSET Pages,
         Completes(f, g, k, n, B), NEW v
  PROVE  /\ \A p, m : Logged(f, p, m) => Logged(g, p, m)
         /\ \A p \in B : Logged(g, p, n)
         /\ Recoverable(f, v) => Recoverable(g, Raised(v, B, n))
<1>1. /\ DOMAIN g = DOMAIN f /\ k \in DOMAIN f /\ Len(g) \in Nat /\ DOMAIN g = 1 .. Len(g)
      /\ \A i \in DOMAIN f : i # k => g[i] = f[i]
      /\ f[k].kind # "segment" /\ g[k].kind # "segment"
  BY FileTypes, Zenon DEF Completes, Completed
<1>2. \A j \in DOMAIN g : \A p : Covers(g, j, p) <=> Covers(f, j, p) \/ (k < j /\ p \in g[j].pages)
  BY CompletesCovers, Zenon
<1>3. \A j \in DOMAIN g : \A p : Covers(f, j, p) => j # k /\ g[j] = f[j]
  BY <1>1, Zenon DEF Covers
<1>4. ASSUME NEW p, NEW m, Logged(f, p, m) PROVE Logged(g, p, m)
  <2>1. PICK j \in DOMAIN f : Covers(f, j, p) /\ f[j].number = m
    BY <1>4, LoggedCovers
  <2>2. j \in DOMAIN g /\ Covers(g, j, p) /\ g[j] = f[j]
    BY <2>1, <1>1, <1>2, <1>3, Zenon
  <2> QED
    BY <2>1, <2>2, LoggedCovers, Zenon
<1>5. ASSUME NEW p \in B PROVE Logged(g, p, n)
  <2>1. PICK j \in k + 1 .. Len(g) : p \in g[j].pages
    BY Zenon DEF Completes
  <2>2. j \in DOMAIN g /\ k < j /\ g[j].number = n
    BY <1>1, SMTT(30) DEF Completes
  <2> QED
    BY <2>1, <2>2, <1>2, LoggedCovers, Zenon
<1>6. ASSUME Recoverable(f, v), NEW p \in Pages
      PROVE  LET w == IF p \in B THEN n ELSE v[p]
             IN  \/ Newest(g, p, w)
                 \/ (\A j \in DOMAIN g : ~Covers(g, j, p)) /\ file[p] = w /\ disk[p] = w
  <2>1. CASE p \in B
    <3>1. ASSUME NEW j \in DOMAIN g, Covers(g, j, p) PROVE g[j].number <= n
      BY <3>1, Zenon DEF Covers, Completes
    <3> QED
      BY <2>1, <3>1, <1>5, Zenon DEF Newest
  <2>2. CASE p \notin B
    <3>1. ASSUME NEW j \in DOMAIN g PROVE ~(k < j /\ p \in g[j].pages)
      <4>1. ASSUME k < j PROVE j \in k + 1 .. Len(g)
        BY <4>1, <1>1, SMTT(30)
      <4> QED
        BY <2>2, <4>1, Zenon DEF Completes
    <3>2. \A j \in DOMAIN g : Covers(g, j, p) <=> Covers(f, j, p)
      BY <3>1, <1>2, Zenon
    <3>3. Newest(f, p, v[p]) => Newest(g, p, v[p])
      BY <3>2, <1>1, <1>3, <1>4, Zenon DEF Newest
    <3> QED
      BY <2>2, <3>2, <3>3, <1>1, <1>6, Zenon DEF Recoverable
  <2> QED
    BY <2>1, <2>2, Zenon
<1>7. ASSUME Recoverable(f, v) PROVE Recoverable(g, Raised(v, B, n))
  <2> DEFINE w == Raised(v, B, n)
  <2>1. \A p \in Pages : w[p] = IF p \in B THEN n ELSE v[p]
    BY Zenon DEF Raised
  <2> HIDE DEF w
  <2>2. Recoverable(g, w)
    BY <2>1, <1>6, <1>7, Zenon DEF Recoverable
  <2> QED
    BY <2>2, Zenon DEF w
<1> QED
  BY <1>4, <1>5, <1>7, Zenon

LEMMA HeadCompletes ==
  ASSUME LogInv, pc = "headsync"
  PROVE  Completes(synced, log, log_pos, number, body)
<1>0. Types /\ FileInv /\ WriteInv /\ SyncInv
  BY Zenon DEF LogInv
<1>1. /\ header.completed = TRUE /\ log_pos \in DOMAIN log /\ log_pos + header.segments = Len(log)
      /\ log[log_pos] = header /\ store = {}
  BY <1>0, Zenon DEF WriteInv, Writes
<1>2. /\ \A j \in log_pos + 1 .. Len(log) :
           log[j].kind = "segment" /\ log[j].number = number /\ log[j].pages \subseteq body
      /\ \A p \in body : \E j \in log_pos + 1 .. Len(log) : p \in log[j].pages
  BY <1>1, <1>0, Zenon DEF WriteInv, Writes
<1>3. /\ Len(synced) = Len(log) /\ \A i \in DOMAIN log : i # log_pos => synced[i] = log[i]
      /\ synced[log_pos] = Header(header.id, FALSE, 0)
  BY <1>0, Zenon DEF SyncInv
<1>4. synced[log_pos].kind = "header" /\ ~synced[log_pos].completed /\ synced[log_pos].id = header.id
  BY <1>3 DEF Header
<1>5. header.kind = "header"
  BY <1>0, Zenon DEF Types
<1>6. Completed(log[log_pos]) /\ log[log_pos].id = synced[log_pos].id /\ End(log, log_pos) = Len(log)
  BY <1>1, <1>4, <1>5, Zenon DEF Completed, End
<1>7. \A j \in DOMAIN log : log[j].kind = "segment" => log[j].number <= number
  BY <1>0, Zenon DEF FileInv
<1> QED
  BY <1>1, <1>2, <1>3, <1>4, <1>6, <1>7, Zenon DEF Completes

LEMMA SyncKeeps ==
  ASSUME LogInv, FileSync
  PROVE  LogInv'
<1>1. Types /\ FileInv /\ CountInv /\ WriteInv /\ SyncInv /\ WriteAhead /\ PageInv /\ ReplayInv
  BY Zenon DEF LogInv
<1>2. /\ synced' = log /\ log' = log /\ old' = old /\ file' = file /\ disk' = disk
      /\ UNCHANGED <<header, log_pos, log_count, store, number, body>>
      /\ UNCHANGED <<replay, recovered, atRisk>>
  BY Zenon DEF FileSync, dataVars, memVars, workVars, recVars
<1>3. log \in Seq(Blocks) /\ synced \in Seq(Blocks) /\ body \in SUBSET Pages /\ number \in Nat
  BY <1>1, SMTT(30) DEF Types
<1>4. Whole(log) /\ Whole(synced)
  BY <1>1, Zenon DEF FileInv
<1>5. FileInv'
  BY <1>1, <1>2, Zenon DEF FileInv
<1>6. CASE pc \in {"beginsync", "dumpsync"}
  <2>1. safe' = safe /\ pc' \in {"logging", "complete"} /\ (pc' = "logging" => pc = "beginsync")
        /\ (pc' = "complete" => pc = "dumpsync")
    BY <1>6, Zenon DEF FileSync
  <2>2. Extends(synced, log)
    BY <1>6, SyncedBehind, Zenon
  <2>3. Types'
    BY <2>1, <1>1, <1>2, Zenon DEF Types, Places
  <2>4. CountInv' /\ ReplayInv'
    BY <2>1, Zenon DEF CountInv, ReplayInv, Writes
  <2>5. WriteInv'
    <3>1. pc \in Writes /\ pc # "headsync" /\ pc' # "headsync" /\ pc' # "beginsync"
          /\ (pc' \in {"dumpsync", "complete", "headsync"} => pc \in {"dumpsync", "complete", "headsync"})
      BY <1>6, <2>1, Zenon DEF Writes
    <3> QED
      BY <3>1, <1>1, <1>2, Zenon DEF WriteInv
  <2>6. SyncInv'
    <3>1. log_pos <= Len(log) /\ Len(log) <= Len(log)
      <4>1. log_pos \in DOMAIN log
        BY <1>1, <1>6, Zenon DEF WriteInv, Writes
      <4> QED
        BY <4>1, <1>3, FileTypes
    <3> QED
      BY <3>1, <2>1, <1>2, Zenon DEF SyncInv
  <2>7. WriteAhead'
    BY <2>2, <1>1, <1>2, <1>3, <1>4, ExtendsSame, Zenon DEF WriteAhead
  <2>8. PageInv'
    <3>1. pc \notin Recovers /\ pc' \notin Recovers /\ pc' # "expire"
      BY <1>6, <2>1, Zenon DEF Recovers
    <3>2. /\ atRisk = {} /\ \A p \in Pages : file[p] # safe[p] => Logged(synced, p, safe[p])
          /\ ~Blocked(synced) => Recoverable(synced, safe)
      BY <3>1, <1>1, Zenon DEF PageInv
    <3>3. \A p \in Pages : file[p] # safe[p] => Logged(log, p, safe[p])
      BY <3>2, <2>2, <1>3, <1>4, ExtendsSame, Zenon
    <3>4. ~Blocked(log) => Recoverable(log, safe)
      BY <3>2, <2>2, <1>3, <1>4, ExtendsSame, RecoverableExtends, Zenon
    <3>5. Recoverable(log, safe) => Recoverable(synced, safe)'
      BY <2>1, <1>2, Zenon DEF Recoverable
    <3>6. Blocked(synced)' <=> Blocked(log)
      BY <1>2, Zenon
    <3> QED
      BY <3>1, <3>2, <3>3, <3>4, <3>5, <3>6, <2>1, <1>2, Zenon DEF PageInv
  <2> QED
    BY <2>3, <2>4, <2>5, <2>6, <2>7, <2>8, <1>5, Zenon DEF LogInv
<1>7. CASE pc = "headsync"
  <2>1. pc' = "logged" /\ safe' = [p \in Pages |-> IF p \in body THEN number ELSE safe[p]]
    BY <1>7, Zenon DEF FileSync
  <2>2. Completes(synced, log, log_pos, number, body)
    BY <1>7, HeadCompletes, Zenon
  <2>3. /\ \A p, m : Logged(synced, p, m) => Logged(log, p, m)
        /\ \A p \in body : Logged(log, p, number)
        /\ Recoverable(synced, safe) => Recoverable(log, safe')
        /\ Blocked(synced) => Blocked(log)
    <3>1. safe' = Raised(safe, body, number)
      BY <2>1, Zenon DEF Raised
    <3>2. /\ \A p, m : Logged(synced, p, m) => Logged(log, p, m)
          /\ \A p \in body : Logged(log, p, number)
          /\ Recoverable(synced, safe) => Recoverable(log, Raised(safe, body, number))
      BY <2>2, <1>3, RecoverableCompletes, Zenon
    <3>3. Blocked(synced) => Blocked(log)
      BY <2>2, <1>3, CompletesFile, Zenon
    <3> QED
      BY <3>1, <3>2, <3>3, Zenon
  <2>4. Types'
    <3>1. safe' \in [Pages -> Images]
      BY <2>1, <1>1, Zenon DEF Types, Images
    <3> QED
      BY <3>1, <2>1, <1>1, <1>2, Zenon DEF Types, Places
  <2>5. CountInv'
    <3>1. log_pos \in DOMAIN log /\ log[log_pos] = header /\ header.id + 1 = log_count
          /\ \A j \in log_pos + 1 .. Len(log) : log[j].kind = "segment"
      BY <1>1, <1>7, Zenon DEF WriteInv, Writes
    <3>2. Len(log) \in Nat /\ DOMAIN log = 1 .. Len(log) /\ log[log_pos].kind = "header"
      BY <1>3, <2>2, FileTypes, Zenon DEF Completes, Completed
    <3>3. ASSUME NEW i \in DOMAIN log, Completed(log[i]), End(log, i) = Len(log) PROVE i = log_pos
      <4>1. ~(i < log_pos)
        <5>1. ASSUME i < log_pos PROVE End(log, i) < log_pos
          BY <5>1, <3>1, <3>2, <3>3, <1>3, <1>4, LogsDisjoint, Zenon
        <5> QED
          BY <5>1, <3>1, <3>2, <3>3, SMTT(30)
      <4>2. ~(log_pos < i)
        <5>1. ASSUME log_pos < i PROVE log[i].kind = "segment"
          BY <5>1, <3>1, <3>2, SMTT(30)
        <5> QED
          BY <5>1, <3>3, Zenon DEF Completed
      <4> QED
        BY <4>1, <4>2, <3>1, <3>2, SMTT(30)
    <3>4. \A i \in DOMAIN log : Completed(log[i]) /\ End(log, i) = Len(log) => log_count = log[i].id + 1
      BY <3>1, <3>3, Zenon
    <3> QED
      BY <3>4, <1>2, Zenon DEF CountInv
  <2>6. WriteInv' /\ SyncInv' /\ ReplayInv'
    BY <2>1, <1>2, Zenon DEF WriteInv, SyncInv, ReplayInv, Writes
  <2>7. WriteAhead'
    BY <2>3, <1>1, <1>2, Zenon DEF WriteAhead
  <2>8. PageInv'
    <3>1. pc \notin Recovers /\ pc' \notin Recovers /\ pc' # "expire"
      BY <1>7, <2>1, Zenon DEF Recovers
    <3>2. /\ atRisk = {} /\ \A p \in Pages : file[p] # safe[p] => Logged(synced, p, safe[p])
          /\ ~Blocked(synced) => Recoverable(synced, safe)
      BY <3>1, <1>1, Zenon DEF PageInv
    <3>3. ASSUME NEW p \in Pages, file[p] # safe'[p] PROVE Logged(log, p, safe'[p])
      <4>1. CASE p \in body
        BY <4>1, <2>1, <2>3, Zenon
      <4>2. CASE p \notin body
        <5>1. safe'[p] = safe[p]
          BY <4>2, <2>1, Zenon
        <5> QED
          BY <5>1, <3>2, <3>3, <2>3, Zenon
      <4> QED
        BY <4>1, <4>2, Zenon
    <3>4. ~Blocked(log) => Recoverable(log, safe')
      BY <3>2, <2>3, Zenon
    <3>5. Recoverable(log, safe') => Recoverable(synced, safe)'
      BY <1>2, Zenon DEF Recoverable
    <3>6. Blocked(synced)' <=> Blocked(log)
      BY <1>2, Zenon
    <3> QED
      BY <3>1, <3>2, <3>3, <3>4, <3>5, <3>6, <1>2, Zenon DEF PageInv
  <2> QED
    BY <2>4, <2>5, <2>6, <2>7, <2>8, <1>5, Zenon DEF LogInv
<1> QED
  BY <1>6, <1>7, Zenon DEF FileSync

LEMMA ExpireKeeps ==
  ASSUME LogInv, vfdexpirelogs
  PROVE  LogInv'
<1>1. Types /\ FileInv /\ CountInv /\ WriteInv /\ SyncInv /\ WriteAhead /\ PageInv /\ ReplayInv
  BY Zenon DEF LogInv
<1>2. /\ pc = "expire" /\ pc' = "idle" /\ old' = log /\ log' = <<>> /\ synced' = <<>>
      /\ UNCHANGED <<dataVars, memVars, workVars, recVars, safe>>
  BY Zenon DEF vfdexpirelogs
<1>3. Types'
  BY <1>1, <1>2, EmptyFile, Zenon DEF Types, Places, dataVars, memVars, workVars, recVars
<1>4. FileInv'
  BY <1>1, <1>2, EmptyFile, Zenon DEF FileInv
<1>5. CountInv' /\ WriteInv' /\ SyncInv' /\ ReplayInv'
  BY <1>2, EmptyFile, Zenon DEF CountInv, WriteInv, SyncInv, ReplayInv, Writes
<1>6. file' = safe' /\ disk' = safe' /\ atRisk' = {}
  BY <1>1, <1>2, Zenon DEF PageInv, Recovers, dataVars, recVars
<1>7. WriteAhead'
  BY <1>6, Zenon DEF WriteAhead
<1>8. PageInv'
  <2>1. Recoverable(synced, safe)'
    BY <1>2, <1>6, EmptyFile, Zenon DEF Recoverable
  <2> QED
    BY <2>1, <1>2, <1>6, Zenon DEF PageInv, Recovers
<1> QED
  BY <1>3, <1>4, <1>5, <1>7, <1>8, Zenon DEF LogInv

LEMMA ShutdownKeeps ==
  ASSUME LogInv, vfdshutdown
  PROVE  LogInv'
<1>1. Types /\ FileInv /\ CountInv /\ WriteInv /\ SyncInv /\ WriteAhead /\ PageInv /\ ReplayInv
  BY Zenon DEF LogInv
<1> DEFINE b == Header(log_count, FALSE, 0)
<1>2. /\ pc = "idle" /\ log = <<>> /\ header' = b /\ log_pos' = Len(log) + 1
      /\ synced' = log' /\ pc' = "closed"
      /\ UNCHANGED <<old, dataVars, log_count, store, workVars, recVars, safe>>
  BY Zenon DEF vfdshutdown
<1>3. /\ b \in [kind : {"header"}, id : Nat, completed : BOOLEAN, segments : Nat] /\ b \in Blocks
      /\ b.kind = "header" /\ ~Completed(b)
  BY <1>1, Zenon DEF Types, Header, Blocks, Completed
<1>4. log' = Append(<<>>, b)
  BY <1>2, Zenon DEF vfdshutdown
<1> HIDE DEF b
<1>5. log' \in Seq(Blocks) /\ Len(log') = 1 /\ DOMAIN log' = {1} /\ log'[1] = b
  BY <1>3, <1>4, EmptySeq, AppendProperties, SMTT(30)
<1>6. log = <<>> /\ log \in Seq(Blocks) /\ Len(log) = 0 /\ DOMAIN log = {} /\ synced = log
  BY <1>1, <1>2, EmptySeq DEF SyncInv
<1>7. Extends(log, log')
  BY <1>3, <1>5, <1>6, SMTT(30) DEF Extends
<1>8. Whole(log) /\ Whole(log') /\ ~Blocked(log') /\ Chain(log')
  BY <1>3, <1>5, <1>6, EmptyFile, Zenon DEF Whole, Blocked, Chain
<1>9. Types'
  BY <1>1, <1>2, <1>3, <1>5, <1>6, SMTT(30) DEF Types, Places, dataVars, workVars, recVars
<1>10. FileInv'
  BY <1>1, <1>2, <1>3, <1>5, <1>8, Zenon DEF FileInv
<1>11. CountInv' /\ WriteInv' /\ SyncInv' /\ ReplayInv'
  BY <1>2, <1>3, <1>5, Zenon DEF CountInv, WriteInv, SyncInv, ReplayInv, Writes
<1>12. /\ file' = file /\ disk' = disk /\ safe' = safe /\ atRisk' = atRisk /\ synced' = log'
       /\ pc \notin Recovers /\ pc' \notin Recovers /\ pc' # "expire"
  BY <1>2, Zenon DEF dataVars, recVars, Recovers
<1>13. \A p, n : Logged(log', p, n) <=> Logged(synced, p, n)
  BY <1>5, <1>6, <1>7, <1>8, ExtendsSame, Zenon
<1>14. WriteAhead'
  BY <1>1, <1>12, <1>13, Zenon DEF WriteAhead
<1>15. PageInv'
  <2>1. /\ atRisk = {} /\ \A p \in Pages : file[p] # safe[p] => Logged(synced, p, safe[p])
        /\ Recoverable(log, safe)
    BY <1>1, <1>6, <1>12, EmptyFile, Zenon DEF PageInv
  <2>2. Recoverable(log', safe)
    BY <2>1, <1>5, <1>6, <1>7, <1>8, RecoverableExtends, Zenon
  <2>3. Recoverable(log', safe) => Recoverable(synced, safe)'
    BY <1>12, Zenon DEF Recoverable
  <2> QED
    BY <2>1, <2>2, <2>3, <1>12, <1>13, Zenon DEF PageInv
<1> QED
  BY <1>9, <1>10, <1>11, <1>14, <1>15, Zenon DEF LogInv

-----------------------------------------------------------------------------
(* Crashes.                                                                *)

\* What the blocks of the surviving file are.
LEMMA SurvivorBlocks ==
  ASSUME LogInv, NEW len \in Len(synced) .. Len(log), NEW kept \in SUBSET Unsynced(len)
  PROVE  LET g == Survivors(len, kept)
         IN  /\ g \in Seq(Blocks) /\ Len(g) = len /\ DOMAIN g = 1 .. len
             /\ \A i \in 1 .. len :
                  \/ i \in kept /\ g[i] = log[i]
                  \/ i <= Len(synced) /\ g[i] = synced[i]
                  \/ i > Len(synced) /\ g[i] = TornBlock
<1>1. log \in Seq(Blocks) /\ synced \in Seq(Blocks)
  BY Zenon DEF LogInv, Types
<1>2. /\ Len(log) \in Nat /\ DOMAIN log = 1 .. Len(log) /\ Len(synced) \in Nat /\ DOMAIN synced = 1 .. Len(synced)
      /\ (\A i \in DOMAIN log : log[i] \in Blocks) /\ (\A i \in DOMAIN synced : synced[i] \in Blocks)
  BY <1>1, FileTypes, Zenon
<1>3. len \in Nat /\ len <= Len(log) /\ Len(synced) <= len
  BY <1>2
<1>4. TornBlock \in Blocks
  BY Zenon DEF Blocks
<1> DEFINE g == Survivors(len, kept)
<1>5. DOMAIN g = 1 .. len
  BY Zenon DEF Survivors
<1>6. ASSUME NEW i \in 1 .. len
      PROVE  \/ i \in kept /\ g[i] = log[i]
             \/ i <= Len(synced) /\ g[i] = synced[i]
             \/ i > Len(synced) /\ g[i] = TornBlock
  <2>1. CASE i \in kept
    BY <2>1, Zenon DEF Survivors
  <2>2. CASE i \notin kept /\ i <= Len(synced)
    BY <2>2, Zenon DEF Survivors
  <2>3. CASE i \notin kept /\ ~(i <= Len(synced))
    <3>1. g[i] = TornBlock
      BY <2>3, Zenon DEF Survivors
    <3>2. i > Len(synced)
      BY <2>3, <1>2, <1>3, SMTT(30)
    <3> QED
      BY <3>1, <3>2, Zenon
  <2> QED
    BY <2>1, <2>2, <2>3, Zenon
<1>7. ASSUME NEW i \in 1 .. len PROVE g[i] \in Blocks
  <2>1. i \in DOMAIN log /\ (i <= Len(synced) => i \in DOMAIN synced)
    BY <1>2, <1>3
  <2> QED
    BY <2>1, <1>2, <1>4, <1>6, Zenon
<1>8. g = [i \in 1 .. len |-> g[i]]
  BY Zenon DEF Survivors
<1> HIDE DEF g
<1>9. g \in Seq(Blocks) /\ Len(g) = len
  BY <1>3, <1>5, <1>7, <1>8, SeqDef, LenProperties, SMTT(30)
<1> QED
  BY <1>5, <1>6, <1>9, Zenon DEF g

\* The surviving file is as sound as the written one; it holds the completed
\* logs that were synced, and at most the one whose header was being synced.
LEMMA SurvivorFile ==
  ASSUME LogInv, NEW len \in Len(synced) .. Len(log), NEW kept \in SUBSET Unsynced(len)
  PROVE  LET g == Survivors(len, kept)
         IN  /\ g \in Seq(Blocks) /\ Whole(g) /\ (~Blocked(g) => Chain(g))
             /\ \A j \in DOMAIN g : g[j].kind = "segment" => g[j].number <= number
             /\ Extends(synced, g) \/ (pc = "headsync" /\ g = log)
<1> DEFINE g == Survivors(len, kept)
<1>1. /\ log \in Seq(Blocks) /\ synced \in Seq(Blocks) /\ Whole(log) /\ Whole(synced) /\ SyncInv
      /\ (~Blocked(log) => Chain(log)) /\ (~Blocked(synced) => Chain(synced))
      /\ \A j \in DOMAIN log : log[j].kind = "segment" => log[j].number <= number
  BY Zenon DEF LogInv, Types, FileInv
<1>2. Len(log) \in Nat /\ DOMAIN log = 1 .. Len(log) /\ Len(synced) \in Nat /\ DOMAIN synced = 1 .. Len(synced)
  BY <1>1, FileTypes, Zenon
<1>3. len \in Nat /\ len <= Len(log) /\ Len(synced) <= len
  BY <1>2, SMTT(30)
<1>4. /\ g \in Seq(Blocks) /\ Len(g) = len /\ DOMAIN g = 1 .. len
      /\ \A i \in 1 .. len : \/ i \in kept /\ g[i] = log[i]
                             \/ i <= Len(synced) /\ g[i] = synced[i]
                             \/ i > Len(synced) /\ g[i] = TornBlock
  BY SurvivorBlocks, Zenon
<1>5. \A i \in kept : i \in 1 .. len /\ (i > Len(synced) \/ log[i] # synced[i])
  BY Zenon DEF Unsynced
<1> HIDE DEF g
<1>6. CASE pc # "headsync"
  <2>1. /\ Extends(synced, log) /\ \A i \in DOMAIN synced : synced[i] = log[i]
        /\ \A i \in DOMAIN log : i > Len(synced) => ~Completed(log[i])
    BY <1>6, SyncedBehind, Zenon DEF Extends
  <2>2. ASSUME NEW i \in DOMAIN synced PROVE i \in 1 .. len /\ g[i] = synced[i]
    <3>1. i \in 1 .. len /\ ~(i > Len(synced)) /\ i \notin kept
      BY <2>1, <1>2, <1>3, <1>5
    <3> QED
      BY <3>1, <1>4, Zenon
  <2>3. ASSUME NEW i \in 1 .. len PROVE i \in DOMAIN log /\ (g[i] = log[i] \/ (g[i] = TornBlock /\ i > Len(synced)))
    <3>1. i \in DOMAIN log /\ (i <= Len(synced) => i \in DOMAIN synced)
      BY <1>2, <1>3
    <3> QED
      BY <3>1, <2>1, <1>4, Zenon
  <2>4. TornBlock.kind = "torn" /\ ~Completed(TornBlock)
    BY Zenon DEF TornBlock, Completed
  <2>5. Extends(synced, g)
    <3>1. \A i \in DOMAIN g : i > Len(synced) => ~Completed(g[i])
      BY <2>1, <2>3, <2>4, <1>4, Zenon
    <3> QED
      BY <3>1, <2>2, <1>3, <1>4, Zenon DEF Extends
  <2>6. \A j \in DOMAIN g : g[j].kind = "segment" => g[j] = log[j] /\ j \in DOMAIN log
    BY <2>3, <2>4, <1>4, Zenon
  <2>7. \A j \in DOMAIN g : g[j].kind = "segment" => g[j].number <= number
    BY <2>6, <1>1, Zenon
  <2>8. Whole(g)
    <3>1. \A j, k \in DOMAIN g : j < k /\ g[j].kind = "segment" /\ g[k].kind = "segment" => g[j].number <= g[k].number
      BY <2>6, <1>1, Zenon DEF Whole
    <3>2. ASSUME Len(synced) + 1 \in DOMAIN g, g[Len(synced) + 1].kind = "segment",
                 synced = <<>> \/ \E i \in DOMAIN synced : Completed(synced[i]) /\ End(synced, i) = Len(synced)
          PROVE  FALSE
      <4>1. Len(synced) + 1 \in DOMAIN log /\ log[Len(synced) + 1].kind = "segment"
        BY <2>6, <3>2, Zenon
      <4>2. CASE synced = <<>>
        <5>1. Len(synced) = 0
          BY <4>2, EmptySeq, Zenon
        <5>2. log # <<>> /\ log[1].kind = "segment"
          BY <5>1, <4>1, <1>2, EmptySeq, SMTT(30)
        <5> QED
          BY <5>2, <1>1, Zenon DEF Whole
      <4>3. ASSUME NEW i \in DOMAIN synced, Completed(synced[i]), End(synced, i) = Len(synced) PROVE FALSE
        <5>1. i \in DOMAIN log /\ log[i] = synced[i]
          BY <2>1, <1>2, <1>3, <4>3, SMTT(30)
        <5>2. Completed(log[i]) /\ End(log, i) = Len(synced)
          BY <5>1, <4>3, Zenon DEF End
        <5> QED
          BY <5>1, <5>2, <4>1, <1>1, Zenon DEF Whole
      <4> QED
        BY <4>2, <4>3, <3>2, Zenon
    <3> QED
      BY <3>1, <3>2, <2>5, <1>1, <1>4, ExtendsWhole, Zenon
  <2>9. ASSUME ~Blocked(g) PROVE Chain(g)
    <3>1. ~Blocked(synced) /\ ~Blocked(log) /\ Chain(synced) /\ Chain(log)
      BY <2>1, <2>5, <2>9, <1>1, <1>4, ExtendsSame, Zenon
    <3>2. ASSUME NEW i \in DOMAIN synced, Completed(synced[i]), End(synced, i) = Len(synced),
                 Len(synced) + 1 \in DOMAIN g, g[Len(synced) + 1].kind = "header"
          PROVE  g[Len(synced) + 1].id = synced[i].id + 1
      <4>1. i \in DOMAIN log /\ log[i] = synced[i]
        BY <2>1, <1>2, <1>3, <3>2, SMTT(30)
      <4>2. Completed(log[i]) /\ End(log, i) = Len(synced)
        BY <4>1, <3>2, Zenon DEF End
      <4>3. Len(synced) + 1 \in DOMAIN log /\ g[Len(synced) + 1] = log[Len(synced) + 1]
        BY <3>2, <2>3, <2>4, <1>4, Zenon
      <4> QED
        BY <4>1, <4>2, <4>3, <3>1, <3>2, Zenon DEF Chain
    <3> QED
      BY <3>1, <3>2, <2>5, <1>1, <1>4, ExtendsChain, Zenon
  <2> QED
    BY <2>5, <2>7, <2>8, <2>9, <1>4, Zenon DEF g
<1>7. CASE pc = "headsync"
  <2>1. Completes(synced, log, log_pos, number, body)
    BY <1>7, HeadCompletes, Zenon
  <2>2. /\ Len(synced) = Len(log) /\ len = Len(log) /\ log_pos \in DOMAIN log /\ DOMAIN g = DOMAIN log
        /\ \A i \in DOMAIN log : i # log_pos => synced[i] = log[i]
    BY <2>1, <1>2, <1>3, <1>4, SMTT(30) DEF Completes
  <2>3. \A i \in DOMAIN log : i # log_pos => g[i] = log[i] /\ g[i] = synced[i]
    BY <2>2, <1>2, <1>4, <1>5, SMTT(30)
  <2>4. g[log_pos] = log[log_pos] \/ g[log_pos] = synced[log_pos]
    BY <2>2, <1>2, <1>4, SMTT(30)
  <2>5. CASE g[log_pos] = log[log_pos]
    <3>1. g = log
      <4>1. \A i \in 1 .. Len(g) : g[i] = log[i]
        BY <2>2, <2>3, <2>5, <1>2, SMTT(30)
      <4> QED
        BY <4>1, <2>2, <1>1, <1>4, SeqEqual, Zenon
    <3> QED
      BY <3>1, <1>1, <1>7, Zenon DEF g
  <2>6. CASE g[log_pos] = synced[log_pos]
    <3>1. g = synced
      <4>1. \A i \in 1 .. Len(g) : g[i] = synced[i]
        BY <2>2, <2>3, <2>6, <1>2, SMTT(30)
      <4> QED
        BY <4>1, <2>2, <1>1, <1>4, SeqEqual, Zenon
    <3>2. Extends(synced, g)
      BY <3>1, <1>2, SMTT(30) DEF Extends
    <3>3. \A j \in DOMAIN synced : synced[j].kind = "segment" => synced[j].number <= number
      <4>1. synced[log_pos].kind # "segment"
        BY <2>1, Zenon DEF Completes
      <4> QED
        BY <4>1, <2>2, <1>1, <1>2, Zenon
    <3> QED
      BY <3>1, <3>2, <3>3, <1>1, Zenon DEF g
  <2> QED
    BY <2>4, <2>5, <2>6, Zenon
<1> QED
  BY <1>6, <1>7, Zenon

LEMMA CrashKeeps ==
  ASSUME LogInv, NEW len \in Len(synced) .. Len(log), NEW kept \in SUBSET Unsynced(len),
         NEW lost \in SUBSET Pages, NEW torn \in SUBSET Pages, Crash(len, kept, lost, torn)
  PROVE  LogInv'
<1>1. Types /\ FileInv /\ CountInv /\ WriteInv /\ SyncInv /\ WriteAhead /\ PageInv /\ ReplayInv
  BY Zenon DEF LogInv
<1> DEFINE g == Survivors(len, kept)
           risky == {p \in Pages : file[p] # disk[p]}
<1>2. /\ log' = g /\ synced' = g /\ disk' = file' /\ pc' = "down" /\ atRisk' = atRisk \cup risky
      /\ header' = NoHeader /\ log_pos' = 1 /\ log_count' = 0 /\ store' = {}
      /\ replay' = NoReplay /\ recovered' = {} /\ old' = old /\ number' = number /\ body' = body /\ safe' = safe
  BY Zenon DEF Crash, workVars
<1>3. /\ lost \cup torn \subseteq risky
      /\ file' = [p \in Pages |-> CASE p \in lost -> disk[p] [] p \in torn -> Torn [] OTHER -> file[p]]
  BY Zenon DEF Crash
<1>4. /\ g \in Seq(Blocks) /\ Whole(g) /\ (~Blocked(g) => Chain(g))
      /\ \A j \in DOMAIN g : g[j].kind = "segment" => g[j].number <= number
      /\ Extends(synced, g) \/ (pc = "headsync" /\ g = log)
  BY SurvivorFile, Zenon
<1> HIDE DEF g
<1>5. log \in Seq(Blocks) /\ synced \in Seq(Blocks) /\ Whole(synced) /\ body \in SUBSET Pages
  BY <1>1, Zenon DEF Types, FileInv
<1>7. /\ \A p, n : Logged(synced, p, n) => Logged(g, p, n)
      /\ Blocked(synced) => Blocked(g)
      /\ ~Blocked(g) /\ Recoverable(synced, safe) => Recoverable(g, safe) \/ Recoverable(g, Attempted)
  <2>1. CASE Extends(synced, g)
    BY <2>1, <1>4, <1>5, ExtendsSame, RecoverableExtends, Zenon
  <2>2. CASE pc = "headsync" /\ g = log
    <3>1. Completes(synced, g, log_pos, number, body)
      BY <2>2, HeadCompletes, Zenon
    <3>2. Attempted = Raised(safe, body, number)
      BY Zenon DEF Attempted, Raised
    <3>3. /\ \A p, n : Logged(synced, p, n) => Logged(g, p, n)
          /\ Recoverable(synced, safe) => Recoverable(g, Raised(safe, body, number))
      BY <3>1, <1>4, <1>5, RecoverableCompletes, Zenon
    <3>4. Blocked(synced) => Blocked(g)
      BY <3>1, <1>4, <1>5, CompletesFile, Zenon
    <3> QED
      BY <3>2, <3>3, <3>4, Zenon
  <2> QED
    BY <2>1, <2>2, <1>4, Zenon
<1>8. ASSUME NEW p \in risky PROVE \E j \in DOMAIN g : Covers(g, j, p)
  <2>1. Logged(g, p, file[p])
    BY <1>1, <1>7, Zenon DEF WriteAhead
  <2> QED
    BY <2>1, <1>4, LoggedCovers, Zenon
<1>9. \A p \in Pages : p \notin risky => file'[p] = file[p] /\ file[p] = disk[p]
  BY <1>3, Zenon
<1> HIDE DEF risky
<1>10. ASSUME NEW v, Recoverable(g, v)
       PROVE  \A p \in Pages :
                \/ Newest(g, p, v[p])
                \/ (\A j \in DOMAIN g : ~Covers(g, j, p)) /\ file'[p] = v[p] /\ disk'[p] = v[p]
  BY <1>2, <1>8, <1>9, <1>10, Zenon DEF Recoverable
<1>11. Types'
  <2>1. file' \in [Pages -> Images]
    <3>1. \A p \in Pages : file[p] \in Images /\ disk[p] \in Images /\ Torn \in Images
      BY <1>1, Zenon DEF Types, Images
    <3>2. \A p \in Pages : (CASE p \in lost -> disk[p] [] p \in torn -> Torn [] OTHER -> file[p]) \in Images
      BY <3>1, Zenon
    <3> QED
      BY <3>2, <1>3, Zenon
  <2>2. /\ header' \in [kind : {"header"}, id : Nat, completed : BOOLEAN, segments : Nat]
        /\ replay' \in Replays
    BY <1>2, SMTT(30) DEF NoHeader, Header, NoReplay, Replays
  <2>3. atRisk' \subseteq Pages /\ pc' \in Places /\ log_pos' \in Nat /\ log_count' \in Nat
    BY <1>1, <1>2, Zenon DEF Types, Places, risky
  <2> QED
    BY <2>1, <2>2, <2>3, <1>1, <1>2, <1>4, Zenon DEF Types
<1>12. FileInv'
  BY <1>1, <1>2, <1>4, Zenon DEF FileInv
<1>13. CountInv' /\ WriteInv' /\ SyncInv' /\ ReplayInv' /\ WriteAhead'
  BY <1>2, Zenon DEF CountInv, WriteInv, SyncInv, ReplayInv, WriteAhead, Writes
<1>14. PageInv'
  <2>1. ASSUME NEW p \in atRisk' PROVE \E j \in DOMAIN g : Covers(g, j, p)
    <3>1. CASE p \in risky
      BY <3>1, <1>8, Zenon
    <3>2. CASE p \in atRisk
      <4>1. pc \in Recovers /\ synced = log /\ pc # "headsync" /\ p \in Pages
        BY <3>2, <1>1, Zenon DEF PageInv, SyncInv, Recovers, Types
      <4>2. PICK j \in DOMAIN log : Covers(log, j, p)
        BY <3>2, <4>1, <1>1, Zenon DEF PageInv
      <4>3. Extends(log, g) /\ Whole(log)
        BY <4>1, <1>4, <1>5, Zenon
      <4>4. DOMAIN log \subseteq DOMAIN g
        BY <4>3, <1>4, <1>5, FileTypes DEF Extends
      <4> QED
        BY <4>1, <4>2, <4>3, <4>4, <1>4, <1>5, ExtendsSame, Zenon
    <3> QED
      BY <3>1, <3>2, <1>2, Zenon
  <2>2. ASSUME ~Blocked(g) PROVE Recoverable(g, safe) \/ Recoverable(g, Attempted)
    <3>1. CASE pc \notin Recovers
      BY <3>1, <2>2, <1>1, <1>7, Zenon DEF PageInv
    <3>2. CASE pc \in Recovers
      <4>1. synced = log /\ pc # "headsync"
        BY <3>2, <1>1, Zenon DEF SyncInv, Recovers
      <4>2. Extends(log, g) /\ Whole(log) /\ ~Blocked(log)
        BY <4>1, <2>2, <1>4, <1>5, <1>7, Zenon
      <4>3. Recoverable(log, safe) \/ Recoverable(log, Attempted)
        BY <3>2, <4>2, <1>1, Zenon DEF PageInv
      <4> QED
        BY <4>2, <4>3, <1>4, <1>5, RecoverableExtends, Zenon
    <3> QED
      BY <3>1, <3>2, Zenon
  <2>3. Attempted' = Attempted
    BY <1>2, Zenon DEF Attempted
  <2>4. /\ Recoverable(g, safe) => Recoverable(log, safe)'
        /\ Recoverable(g, Attempted) => Recoverable(log, Attempted)'
    BY <2>3, <1>2, <1>10, Zenon DEF Recoverable
  <2>5. pc' \in Recovers /\ pc' # "expire" /\ (Blocked(log)' <=> Blocked(g))
    BY <1>2, Zenon DEF Recovers
  <2> QED
    BY <2>1, <2>2, <2>4, <2>5, <1>2, Zenon DEF PageInv
<1> QED
  BY <1>11, <1>12, <1>13, <1>14, Zenon DEF LogInv
-----------------------------------------------------------------------------
LEMMA StutterKeeps ==
  ASSUME LogInv, UNCHANGED vars
  PROVE  LogInv'
<1>1. Types'
  BY Zenon DEF LogInv, Types, vars, logVars, dataVars, memVars, workVars, recVars
<1>2. FileInv' /\ CountInv' /\ WriteInv'
  BY Zenon DEF LogInv, FileInv, CountInv, WriteInv, vars, logVars, memVars, workVars
<1>3. SyncInv' /\ WriteAhead'
  BY Zenon DEF LogInv, SyncInv, WriteAhead, vars, logVars, dataVars, memVars
<1>4. PageInv'
  BY Zenon DEF LogInv, PageInv, Recoverable, Attempted, vars, logVars, dataVars, workVars, recVars
<1>5. ReplayInv'
  BY Zenon DEF LogInv, ReplayInv, Position, Source, Replayed, vars, logVars, dataVars, memVars, recVars
<1> QED
  BY <1>1, <1>2, <1>3, <1>4, <1>5, Zenon DEF LogInv

\* The invariant of vfd.c's shadow log: the shape of the file, what of it is
\* synced at each step of LogBuffers, what a replay of it would put back, and
\* what _vfdreplaylogfile has put back so far.
THEOREM LogInvariant == Spec => []LogInv
<1>1. Init => LogInv
  BY LogInitial, Zenon
<1>2. LogInv /\ [Next]_vars => LogInv'
  <2> SUFFICES ASSUME LogInv, [Next]_vars PROVE LogInv'
    BY Zenon
  <2>1. CASE vfdbeginlog \/ FileSync \/ vfdcommitlog \/ CompleteHeader
    BY <2>1, BeginKeeps, SyncKeeps, CommitKeeps, CompleteKeeps, Zenon
  <2>2. CASE \E p \in Pages : vfdlog(p) \/ WritePage(p)
    BY <2>2, LogKeeps, WritePageKeeps, Zenon
  <2>3. CASE Defer \/ CommitPackage \/ vfdexpirelogs \/ vfdshutdown
    BY <2>3, DeferKeeps, CommitPackageKeeps, ExpireKeeps, ShutdownKeeps, Zenon
  <2>4. CASE \E len \in Len(synced) .. Len(log) :
               \E kept \in SUBSET Unsynced(len) : \E lost, torn \in SUBSET Pages :
                 Crash(len, kept, lost, torn)
    BY <2>4, CrashKeeps, Zenon
  <2>5. CASE Start \/ StartRecovery
    BY <2>5, StartKeeps, DeferKeeps, Zenon
  <2>6. CASE ReplayHeader \/ ReplaySegment \/ EndReplay \/ Resume
    BY <2>6, ReplayHeaderKeeps, ReplaySegmentKeeps, EndReplayKeeps, ResumeKeeps, Zenon
  <2>7. CASE Quiescent \/ UNCHANGED vars
    BY <2>7, StutterKeeps, Zenon DEF Quiescent
  <2> QED
    BY <2>1, <2>2, <2>3, <2>4, <2>5, <2>6, <2>7, Zenon DEF Next
<1> QED
  BY <1>1, <1>2, PTL DEF Spec

\* A page is not written in place before its image can be replayed: the order
\* of the three syncs in vfdbeginlog and vfdcommitlog and of the writes that
\* SyncBuffers does after them.
THEOREM PagesLoggedFirst == Spec => []WriteAhead
<1>1. LogInv => WriteAhead
  BY Zenon DEF LogInv
<1> QED
  BY <1>1, LogInvariant, PTL

LEMMA ObstructedBlocked ==
  ASSUME LogInv
  PROVE  Obstructed <=> Blocked(log)
<1>1. \A i \in DOMAIN log : log[i].kind = "torn" <=> log[i] = TornBlock
  BY FileTypes, BlockTypes, Zenon DEF LogInv, Types
<1> QED
  BY <1>1, Zenon DEF Obstructed, Blocked, Open, Completed

\* Where the file is not obstructed, vfdreplaylogs leaves in every page the
\* image of the last completed log that holds it.
LEMMA ReplayRestores ==
  ASSUME LogInv, pc = "recovered", ~Blocked(log), NEW v \in [Pages -> Images], Recoverable(log, v)
  PROVE  file = v
<1>1. log \in Seq(Blocks) /\ file \in [Pages -> Images]
  BY Zenon DEF LogInv, Types
<1>2. \A j \in DOMAIN log : j < Len(log) + 1
  BY <1>1, FileTypes, SMTT(30)
<1>3. Replayed(Len(log) + 1)
  BY Zenon DEF LogInv, ReplayInv
<1>4. ASSUME NEW p \in Pages PROVE file[p] = v[p]
  <2>1. CASE Newest(log, p, v[p])
    <3>1. PICK j \in DOMAIN log : Covers(log, j, p) /\ log[j].number = v[p]
      BY <2>1, <1>1, LoggedCovers, SMTT(30) DEF Newest
    <3>2. Logged(log, p, file[p]) /\ v[p] <= file[p]
      BY <3>1, <1>2, <1>3, Zenon DEF Replayed
    <3>3. PICK k \in DOMAIN log : Covers(log, k, p) /\ log[k].number = file[p]
      BY <3>2, <1>1, LoggedCovers, SMTT(30)
    <3>4. file[p] <= v[p]
      BY <3>3, <2>1, Zenon DEF Newest
    <3>5. v[p] \in Nat /\ file[p] \in Nat
      BY <3>1, <3>3, <1>1, CoversTypes, Zenon
    <3> QED
      BY <3>2, <3>4, <3>5, SMTT(30)
  <2>2. CASE ~Newest(log, p, v[p])
    BY <2>2, Zenon DEF Recoverable
  <2> QED
    BY <2>1, <2>2, Zenon
<1> QED
  BY <1>1, <1>4

\* After vfdreplaylogs every page is whole and the pages are those of the
\* completed logs; of a log that was being completed all are there or none.
THEOREM RecoverySound == Spec => []RecoveryRestores
<1>1. LogInv => RecoveryRestores
  <2> SUFFICES ASSUME LogInv, pc = "recovered", ~Blocked(log) PROVE Restored
    BY ObstructedBlocked, Zenon DEF RecoveryRestores
  <2>1. safe \in [Pages -> Images] /\ Attempted \in [Pages -> Images]
    BY Zenon DEF LogInv, Types, Attempted, Images
  <2>2. Recoverable(log, safe) \/ Recoverable(log, Attempted)
    BY Zenon DEF LogInv, PageInv, Recovers
  <2> QED
    BY <2>1, <2>2, ReplayRestores, Zenon DEF Restored
<1> QED
  BY <1>1, LogInvariant, PTL

\* Every index page a crash caught with an unsynced write is on the list that
\* smgraddrecoveredpage builds for index recovery.
THEOREM RiskyIndexesListed == Spec => []RiskyIndexListed
<1>1. LogInv => RiskyIndexListed
  <2> SUFFICES ASSUME LogInv, pc = "recovered", ~Blocked(log), NEW p \in atRisk, p \in IndexPages
               PROVE  p \in recovered
    BY ObstructedBlocked, Zenon DEF RiskyIndexListed
  <2>1. log \in Seq(Blocks) /\ p \in Pages
    BY Zenon DEF LogInv, Types
  <2>2. PICK j \in DOMAIN log : Covers(log, j, p)
    BY Zenon DEF LogInv, PageInv, Recovers
  <2>3. j < Len(log) + 1
    BY <2>1, FileTypes
  <2>4. Replayed(Len(log) + 1)
    BY Zenon DEF LogInv, ReplayInv
  <2> QED
    BY <2>1, <2>2, <2>3, <2>4, Zenon DEF Replayed
<1> QED
  BY <1>1, LogInvariant, PTL
=============================================================================
