---------------------------- MODULE IdGen_proofs ----------------------------
(***************************************************************************)
(* Proofs about IdGen for any set of threads, any prefetches, any bounds:  *)
(* while no group is flushed early (Spec, not FlushSpec), ids are handed   *)
(* out in increasing order and stay covered by the page on disk.           *)
(***************************************************************************)
EXTENDS IdGen, TLAPS

\* BufferGetBlock never touches the page, and its copy catches up with
\* buffer_generation.
LEMMA GetBlockFacts ==
  ASSUME NEW b \in Buffers, NEW g \in Nat, b.generation <= g
  PROVE  /\ BufferGetBlock(b, g) \in Buffers
         /\ BufferGetBlock(b, g).data = b.data
         /\ BufferGetBlock(b, g).generation = g
<1>1. CASE b.generation < g
  <2>1. BufferGetBlock(b, g) = [b EXCEPT !.shadow = b.data, !.generation = g]
    BY <1>1, Zenon DEF BufferGetBlock, ShadowBufferIfNeeded
  <2> QED
    BY <2>1, Zenon DEF Buffers
<1>2. CASE ~(b.generation < g)
  BY <1>2 DEF BufferGetBlock, ShadowBufferIfNeeded, Buffers
<1> QED
  BY <1>1, <1>2, Zenon

\* A flush of a page whose copy is not ahead of buffer_generation writes the
\* page as it stands.
LEMMA FlushFacts ==
  ASSUME NEW b \in Buffers, NEW g \in Nat, b.generation <= g
  PROVE  LET a == AdvanceBufferIO(WriteBufferIO(b, "flush"), g, TRUE) IN
         /\ a.shadow = b.data
         /\ TerminateBufferIO(a) \in Buffers
         /\ TerminateBufferIO(a).data = b.data
         /\ TerminateBufferIO(a).generation = g
<1> DEFINE w == WriteBufferIO(b, "flush")
           a == AdvanceBufferIO(w, g, TRUE)
<1>1. w = [b EXCEPT !.logged = FALSE, !.dirty = FALSE, !.op = "write"]
  BY Zenon DEF WriteBufferIO, Buffers
<1>2. /\ w \in Buffers /\ w.data = b.data /\ w.generation = b.generation
      /\ w.op = "write"
  BY <1>1, Zenon DEF Buffers
<1>3. a = [w EXCEPT !.shadow = w.data, !.generation = g]
  BY <1>2 DEF AdvanceBufferIO, ShadowBufferIfNeeded, Buffers
<1>4. a \in Buffers /\ a.shadow = b.data /\ a.data = b.data
      /\ a.generation = g /\ a.op = "write"
  BY <1>2, <1>3, Zenon DEF Buffers
<1>5. TerminateBufferIO(a) = [a EXCEPT !.logged = a.logged, !.op = "none"]
  BY <1>4, Zenon DEF TerminateBufferIO, Buffers
<1> QED
  BY <1>4, <1>5, Zenon DEF Buffers

\* A page that was just read in.
LEMMA ReadInFacts ==
  ASSUME NEW p \in Pages, NEW q \in Pages
  PROVE  /\ ReadIn(p, q) \in Buffers
         /\ ReadIn(p, q).data = p
         /\ ReadIn(p, q).generation = 0
BY Zenon DEF ReadIn, Buffers

\* What appending one element does to a history of ids.
LEMMA AppendFacts ==
  ASSUME NEW s \in Seq(Nat), NEW x \in Nat
  PROVE  /\ Append(s, x) \in Seq(Nat)
         /\ DOMAIN Append(s, x) = 1 .. Len(s) + 1
         /\ DOMAIN s = 1 .. Len(s)
         /\ \A i \in DOMAIN s : s[i] \in Nat /\ Append(s, x)[i] = s[i]
         /\ Append(s, x)[Len(s) + 1] = x
OBVIOUS

-----------------------------------------------------------------------------
\* A virgin database satisfies the inductive invariant.
LEMMA InitInd == Init => IndInv
<1> SUFFICES ASSUME Init PROVE IndInv
  BY Zenon
<1>1. Virgin \in Pages /\ ZeroPage \in Pages
  BY BaseAssumption, Zenon DEF Virgin, ZeroPage, Pages
<1>2. TypeOK
  <2>1. vbuf \in Buffers /\ disk \in [Kinds -> Nat]
    BY <1>1, ReadInFacts, Zenon DEF Init, Pages
  <2>2. next \in [Kinds -> Nat] /\ count \in [Kinds -> Nat \cup {-1}]
    BY Zenon DEF Init, ZeroPage
  <2>3. pc \in [Threads -> PcValues] /\ want \in [Threads -> Kinds]
        /\ got \in [Threads -> Nat]
    BY Zenon DEF Init, PcValues, Kinds
  <2>4. granted \in [Kinds -> Seq(Nat)]
    BY DEF Init
  <2> QED
    BY <2>1, <2>2, <2>3, <2>4, PrefetchAssumption, Zenon DEF Init, TypeOK
<1>3. WriterInv /\ PageInv
  BY <1>1, ReadInFacts DEF Init, WriterInv, PageInv
<1>4. FetchInv
  BY Zenon DEF Init, FetchInv, Fetching
<1>5. CacheInv
  BY <1>1 DEF Init, CacheInv, ZeroPage, Pages
<1>6. IdsIncrease /\ NoIdAboveNext /\ HorizonAboveGranted
  BY DEF Init, IdsIncrease, NoIdAboveNext, HorizonAboveGranted, ZeroPage
<1> QED
  BY <1>2, <1>3, <1>4, <1>5, <1>6, Zenon DEF IndInv

-----------------------------------------------------------------------------
\* Steps that touch neither the ids nor the page: entry, the relation lock
\* and the failure of the read.
LEMMA EnterInd ==
  ASSUME IndInv, NEW t \in Threads, NEW k \in Kinds, Enter(t, k)
  PROVE  IndInv'
<1> USE DEF IndInv, Enter, writerVars
<1>1. TypeOK'
  BY Zenon DEF TypeOK, PcValues
<1>2. WriterInv' /\ CacheInv' /\ IdsIncrease' /\ NoIdAboveNext'
      /\ HorizonAboveGranted'
  BY Zenon DEF WriterInv, CacheInv, IdsIncrease, NoIdAboveNext, HorizonAboveGranted
<1>3. PageInv'
  BY Zenon DEF PageInv, TypeOK
<1>4. FetchInv'
  BY Zenon DEF FetchInv, Fetching, TypeOK
<1> QED
  BY <1>1, <1>2, <1>3, <1>4, Zenon

LEMMA LockInd ==
  ASSUME IndInv, NEW t \in Threads, LockVariableRelation(t)
  PROVE  IndInv'
<1> USE DEF IndInv, LockVariableRelation, writerVars
<1>1. TypeOK'
  BY Zenon DEF TypeOK, PcValues
<1>2. WriterInv' /\ CacheInv' /\ IdsIncrease' /\ NoIdAboveNext'
      /\ HorizonAboveGranted'
  BY Zenon DEF WriterInv, CacheInv, IdsIncrease, NoIdAboveNext, HorizonAboveGranted
<1>3. PageInv'
  BY ThreadAssumption, Zenon DEF PageInv, TypeOK
<1>4. FetchInv'
  BY DEF FetchInv, Fetching, TypeOK
<1> QED
  BY <1>1, <1>2, <1>3, <1>4, Zenon

LEMMA FetchErrorInd ==
  ASSUME IndInv, NEW t \in Threads, FetchError(t)
  PROVE  IndInv'
<1> USE DEF IndInv, FetchError, writerVars
<1>1. TypeOK'
  BY Zenon DEF TypeOK, PcValues
<1>2. WriterInv' /\ CacheInv' /\ IdsIncrease' /\ NoIdAboveNext'
      /\ HorizonAboveGranted'
  BY Zenon DEF WriterInv, CacheInv, IdsIncrease, NoIdAboveNext, HorizonAboveGranted
<1>3. PageInv'
  BY Zenon DEF PageInv, TypeOK
<1>4. FetchInv'
  BY Zenon DEF FetchInv, Fetching, TypeOK
<1> QED
  BY <1>1, <1>2, <1>3, <1>4, Zenon

\* Taking an id: it is above every id taken before, and covered by the page.
LEMMA TakeInd ==
  ASSUME IndInv, NEW t \in Threads, Take(t)
  PROVE  IndInv'
<1> USE DEF IndInv, Take, writerVars
<1> DEFINE k == want[t]
<1>k. k \in Kinds /\ next[k] \in Nat /\ granted[k] \in Seq(Nat)
      /\ count[k] \in Nat /\ disk[k] \in Nat
  BY DEF TypeOK
<1>n. next[k] > 0 /\ next[k] + count[k] <= disk[k] + 1 /\ count[k] > 0
  BY <1>k, Zenon DEF CacheInv
<1>g. /\ granted'[k] = Append(granted[k], next[k])
      /\ next'[k] = next[k] + 1 /\ count'[k] = count[k] - 1
      /\ \A j \in Kinds \ {k} : /\ granted'[j] = granted[j]
                                /\ next'[j] = next[j] /\ count'[j] = count[j]
  BY <1>k, Zenon DEF TypeOK
<1>h. /\ DOMAIN granted'[k] = 1 .. Len(granted[k]) + 1
      /\ DOMAIN granted[k] = 1 .. Len(granted[k])
      /\ Len(granted[k]) \in Nat
      /\ \A i \in 1 .. Len(granted[k]) : granted[k][i] \in Nat
                                         /\ granted'[k][i] = granted[k][i]
      /\ granted'[k][Len(granted[k]) + 1] = next[k]
  BY <1>k, <1>g, AppendFacts, SMTT(30)
<1>b. \A i \in 1 .. Len(granted[k]) : granted[k][i] < next[k]
  BY <1>k, <1>n, <1>h, Zenon DEF HorizonAboveGranted
<1>1. TypeOK'
  <2>1. granted' \in [Kinds -> Seq(Nat)]
    BY <1>k, AppendFacts, Zenon DEF TypeOK
  <2>2. count[k] - 1 \in Nat /\ next[k] + 1 \in Nat
    BY <1>k, <1>n, SMTT(30)
  <2>3. count' \in [Kinds -> Nat \cup {-1}] /\ next' \in [Kinds -> Nat]
    BY <2>2, Zenon DEF TypeOK
  <2> QED
    BY <2>1, <2>3, Zenon DEF TypeOK, PcValues
<1>2. WriterInv'
  BY Zenon DEF WriterInv
<1>3. PageInv'
  BY Zenon DEF PageInv, TypeOK
<1>4. FetchInv'
  <2>1. \A u \in Threads : Fetching(u)' =>
          Fetching(u) /\ pc'[u] = pc[u] /\ want[u] \in Kinds \ {k}
    BY <1>n, <1>k DEF Fetching, FetchInv, TypeOK
  <2>2. \A u \in Threads : pc'[u] \in {"flush", "install"} => Fetching(u)'
    BY Zenon DEF Fetching
  <2>3. UNCHANGED <<vbuf, disk, prefetch, want, got>>
    BY Zenon
  <2> HIDE DEF Take
  <2>4. ASSUME NEW u \in Threads
        PROVE  /\ Fetching(u)' => count'[want'[u]] = -1
               /\ \A v \in Threads :
                    Fetching(u)' /\ Fetching(v)' /\ want'[u] = want'[v]
                      => u = v
    BY <2>1, <2>3, <1>g, Zenon DEF FetchInv
  <2>5. ASSUME NEW u \in Threads, pc'[u] = "flush"
        PROVE  /\ vbuf'.data[want'[u]] = got'[u] + prefetch'[want'[u]]
               /\ disk'[want'[u]] <= got'[u]
    BY <2>1, <2>2, <2>3, <2>5, Zenon DEF FetchInv
  <2>6. ASSUME NEW u \in Threads, pc'[u] = "install"
        PROVE  /\ disk'[want'[u]] = got'[u] + prefetch'[want'[u]]
               /\ next'[want'[u]] <= got'[u] + 1
               /\ \A i \in DOMAIN granted'[want'[u]] :
                    granted'[want'[u]][i] <= got'[u]
    BY <2>1, <2>2, <2>3, <2>6, <1>g, Zenon DEF FetchInv
  <2> QED
    BY <2>4, <2>5, <2>6, Zenon DEF FetchInv
<1>5. CacheInv'
  <2> SUFFICES ASSUME NEW j \in Kinds
      PROVE  /\ next'[j] <= disk[j] + 1
             /\ count'[j] > 0 => /\ next'[j] > 0
                                 /\ next'[j] + count'[j] <= disk[j] + 1
    BY Zenon DEF CacheInv
  <2>1. CASE j = k
    <3> HIDE DEF IndInv, Take, k
    <3>1. next[k] + 1 <= disk[k] + 1
      BY <1>k, <1>n
    <3>2. next[k] + 1 + (count[k] - 1) <= disk[k] + 1
      BY <1>k, <1>n
    <3> QED
      BY <2>1, <3>1, <3>2, <1>k, <1>n, <1>g
  <2>2. CASE j # k
    BY <2>2, <1>g, Zenon DEF CacheInv
  <2> QED
    BY <2>1, <2>2, Zenon
<1>6. IdsIncrease'
  <2> HIDE DEF Take
  <2>1. ASSUME NEW i \in DOMAIN granted'[k], NEW j \in DOMAIN granted'[k], i < j
        PROVE  granted'[k][i] < granted'[k][j]
    <3>1. i \in 1 .. Len(granted[k]) /\ i \in Int /\ j \in Int
      BY <2>1, <1>h
    <3>2. CASE j \in 1 .. Len(granted[k])
      BY <2>1, <3>1, <3>2, <1>k, <1>h, Zenon DEF IdsIncrease
    <3>3. CASE j = Len(granted[k]) + 1
      BY <3>1, <3>3, <1>h, <1>b, Zenon
    <3> QED
      BY <3>2, <3>3, <1>h
  <2> QED
    BY <2>1, <1>g, Zenon DEF IdsIncrease
<1>7. NoIdAboveNext'
  <2>1. next[k] <= disk[k]
    BY <1>k, <1>n
  <2> QED
    BY <2>1, <1>k, <1>g, <1>h, SMTT(30) DEF NoIdAboveNext
<1>8. HorizonAboveGranted'
  BY <1>k, <1>g, <1>h, <1>b, SMTT(30) DEF HorizonAboveGranted
<1> QED
  BY <1>1, <1>2, <1>3, <1>4, <1>5, <1>6, <1>7, <1>8, Zenon

\* Becoming the one thread that refills a cache.
LEMMA StartFetchInd ==
  ASSUME IndInv, NEW t \in Threads, StartFetch(t)
  PROVE  IndInv'
<1> USE DEF IndInv, StartFetch, writerVars
<1>1. TypeOK'
  BY Zenon DEF TypeOK, PcValues
<1>2. WriterInv' /\ IdsIncrease' /\ NoIdAboveNext' /\ HorizonAboveGranted'
  BY Zenon DEF WriterInv, IdsIncrease, NoIdAboveNext, HorizonAboveGranted
<1>3. PageInv'
  BY Zenon DEF PageInv, TypeOK
<1>4. FetchInv'
  BY SMTT(30) DEF FetchInv, Fetching, TypeOK
<1>5. CacheInv'
  BY DEF CacheInv, TypeOK
<1> QED
  BY <1>1, <1>2, <1>3, <1>4, <1>5, Zenon

\* Advancing the page: the fetched value is what is on disk, and the page in
\* memory covers the range to be installed.
LEMMA BumpInd ==
  ASSUME IndInv, NEW t \in Threads, Bump(t)
  PROVE  IndInv'
<1> DEFINE k == want[t]
           b == BufferGetBlock(vbuf, bufgen)
           base == Base(k, b.data)
<1>t. TypeOK
  BY Zenon DEF IndInv
<1>k. /\ k \in Kinds /\ disk[k] \in Nat /\ prefetch[k] \in Nat \ {0}
      /\ vbuf \in Buffers /\ bufgen \in Nat /\ pc[t] = "bump"
  BY Zenon DEF IndInv, TypeOK, Bump
<1>b. b \in Buffers /\ b.data = vbuf.data /\ b.generation = bufgen
  BY <1>k, GetBlockFacts, Zenon DEF IndInv, WriterInv
<1>d. /\ vbuf.data[k] = disk[k]
      /\ \A u \in Threads : pc[u] # "flush"
      /\ \A u \in Threads : Fetching(u) /\ want[u] = k => u = t
  BY <1>k, Zenon DEF IndInv, PageInv, FetchInv, Fetching
<1>e. base \in Nat /\ base + prefetch[k] \in Nat /\ disk[k] <= base
  BY <1>k, <1>b, <1>d, BaseAssumption DEF Base
<1>v. /\ vbuf' \in Buffers /\ vbuf'.generation = bufgen
      /\ vbuf'.data = [vbuf.data EXCEPT ![k] = base + prefetch[k]]
      /\ vbuf.data \in [Kinds -> Nat]
  <2>1. vbuf' = [b EXCEPT !.data = [b.data EXCEPT ![k] = base + prefetch[k]]]
    BY Zenon DEF Bump
  <2>2. [b.data EXCEPT ![k] = base + prefetch[k]] \in Pages
    BY <1>b, <1>e, <1>k, Zenon DEF Buffers, Pages
  <2> QED
    BY <2>1, <2>2, <1>b, <1>k, Zenon DEF Buffers, Pages
<1>u. /\ UNCHANGED <<disk, next, count, prefetch, relLock, want, bufgen,
                     grpgen, flushing, granted>>
      /\ got' = [got EXCEPT ![t] = base]
      /\ pc' = [pc EXCEPT ![t] = "flush"]
  BY Zenon DEF Bump, writerVars
<1> HIDE DEF base, b
<1>1. TypeOK'
  BY <1>t, <1>v, <1>e, <1>u, Zenon DEF TypeOK, PcValues
<1>2. WriterInv'
  BY <1>t, <1>v, <1>u DEF IndInv, WriterInv, TypeOK
<1>3. PageInv'
  BY <1>t, <1>k, <1>v, <1>d, <1>u, SMTT(30) DEF IndInv, PageInv, TypeOK
<1>4. FetchInv'
  <2>1. \A u \in Threads : Fetching(u)' <=> Fetching(u)
    BY <1>t, <1>k, <1>u, Zenon DEF Fetching, TypeOK
  <2>2. pc'[t] = "flush" /\ got'[t] = base
        /\ vbuf'.data[k] = base + prefetch[k]
    BY <1>t, <1>k, <1>u, <1>v DEF TypeOK
  <2>3. \A u \in Threads \ {t} : pc'[u] = pc[u] /\ got'[u] = got[u]
    BY <1>t, <1>u, Zenon DEF TypeOK
  <2>4. ASSUME NEW u \in Threads, pc'[u] = "install"
        PROVE  /\ disk'[want'[u]] = got'[u] + prefetch'[want'[u]]
               /\ next'[want'[u]] <= got'[u] + 1
               /\ \A i \in DOMAIN granted'[want'[u]] :
                    granted'[want'[u]][i] <= got'[u]
    BY <2>2, <2>3, <2>4, <1>u, Zenon DEF IndInv, FetchInv
  <2>5. ASSUME NEW u \in Threads, pc'[u] = "flush"
        PROVE  u = t
    BY <2>3, <2>5, <1>d, Zenon
  <2> QED
    BY <2>1, <2>2, <2>4, <2>5, <1>u, <1>e, Zenon DEF IndInv, FetchInv
<1>5. CacheInv' /\ IdsIncrease' /\ NoIdAboveNext' /\ HorizonAboveGranted'
  BY <1>u, Zenon DEF IndInv, CacheInv, IdsIncrease, NoIdAboveNext,
              HorizonAboveGranted
<1> QED
  BY <1>1, <1>2, <1>3, <1>4, <1>5, Zenon DEF IndInv

\* The flush puts the page in memory on disk.
LEMMA FlushInd ==
  ASSUME IndInv, NEW t \in Threads, Flush(t)
  PROVE  IndInv'
<1> DEFINE k == want[t]
<1>t. TypeOK
  BY Zenon DEF IndInv
<1>k. /\ k \in Kinds /\ disk \in [Kinds -> Nat] /\ got[t] \in Nat
      /\ prefetch[k] \in Nat \ {0} /\ next \in [Kinds -> Nat]
      /\ vbuf \in Buffers /\ bufgen \in Nat /\ pc[t] = "flush"
      /\ vbuf.data \in [Kinds -> Nat]
  BY Zenon DEF IndInv, TypeOK, Flush, Buffers, Pages
<1>v. /\ disk' = vbuf.data /\ vbuf' \in Buffers
      /\ vbuf'.data = vbuf.data /\ vbuf'.generation = bufgen
  BY <1>k, FlushFacts, Zenon DEF IndInv, WriterInv, Flush
<1>d. /\ vbuf.data[k] = got[t] + prefetch[k] /\ disk[k] <= got[t]
      /\ \A u \in Threads : pc[u] = "flush" => u = t
      /\ \A j \in Kinds \ {k} : vbuf.data[j] = disk[j]
      /\ \A u \in Threads : Fetching(u) /\ want[u] = k => u = t
  BY <1>k, ThreadAssumption DEF IndInv, PageInv, FetchInv, Fetching
<1>e. \A j \in Kinds : disk[j] \in Nat /\ disk'[j] \in Nat
                       /\ disk[j] <= disk'[j]
  BY <1>k, <1>v, <1>d
<1>u. /\ UNCHANGED <<next, count, prefetch, want, got, bufgen, grpgen,
                     flushing, granted>>
      /\ relLock' = NoThread
      /\ pc' = [pc EXCEPT ![t] = "install"]
  BY Zenon DEF Flush, writerVars
<1>1. TypeOK'
  BY <1>t, <1>v, <1>k, <1>u, Zenon DEF TypeOK, PcValues
<1>2. WriterInv'
  BY <1>t, <1>v, <1>u DEF IndInv, WriterInv, TypeOK
<1>3. PageInv'
  <2>1. \A u \in Threads : pc'[u] \notin {"bump", "flush"}
    BY <1>t, <1>k, <1>u, ThreadAssumption, Zenon DEF IndInv, PageInv, TypeOK
  <2> QED
    BY <2>1, <1>v, Zenon DEF PageInv
<1>4. FetchInv'
  <2>1. \A u \in Threads : Fetching(u)' <=> Fetching(u)
    BY <1>t, <1>k, <1>u, Zenon DEF Fetching, TypeOK
  <2>2. \A u \in Threads \ {t} : pc'[u] = pc[u]
    BY <1>t, <1>u, Zenon DEF TypeOK
  <2>3. \A u \in Threads : pc'[u] # "flush"
    BY <1>t, <1>d, <1>u, Zenon DEF TypeOK
  <2>4. /\ disk'[k] = got[t] + prefetch[k]
        /\ next[k] <= got[t] + 1
        /\ \A i \in DOMAIN granted[k] : granted[k][i] <= got[t]
    <3>1. next[k] <= disk[k] + 1
      BY <1>k, Zenon DEF IndInv, CacheInv
    <3>2. \A i \in DOMAIN granted[k] :
            granted[k][i] <= disk[k] /\ granted[k][i] \in Nat
      BY <1>t, <1>k, SMTT(30) DEF IndInv, NoIdAboveNext, TypeOK
    <3> QED
      BY <3>1, <3>2, <1>k, <1>v, <1>d
  <2>5. ASSUME NEW u \in Threads, u # t, pc'[u] = "install"
        PROVE  /\ disk'[want[u]] = got[u] + prefetch[want[u]]
               /\ next[want[u]] <= got[u] + 1
               /\ \A i \in DOMAIN granted[want[u]] :
                    granted[want[u]][i] <= got[u]
    <3>1. pc[u] = "install" /\ want[u] \in Kinds \ {k}
      BY <2>2, <2>5, <1>t, <1>d, Zenon DEF Fetching, TypeOK
    <3> QED
      BY <3>1, <1>v, <1>d, Zenon DEF IndInv, FetchInv
  <2> QED
    BY <2>1, <2>3, <2>4, <2>5, <1>u, Zenon DEF IndInv, FetchInv
<1>5. CacheInv'
  <2> SUFFICES ASSUME NEW j \in Kinds
      PROVE  /\ next[j] <= disk'[j] + 1
             /\ count[j] > 0 => /\ next[j] > 0
                                /\ next[j] + count[j] <= disk'[j] + 1
    BY <1>u, Zenon DEF CacheInv
  <2>1. next[j] \in Nat /\ count[j] \in Int
    BY <1>t DEF TypeOK
  <2> QED
    BY <2>1, <1>e DEF IndInv, CacheInv
<1>6. NoIdAboveNext'
  <2>1. \A j \in Kinds : \A i \in DOMAIN granted[j] : granted[j][i] \in Nat
    <3> TAKE j \in Kinds
    <3>1. granted[j] \in Seq(Nat)
      BY <1>t, Zenon DEF TypeOK
    <3> QED
      BY <3>1
  <2> QED
    BY <2>1, <1>e, <1>u DEF IndInv, NoIdAboveNext
<1>7. IdsIncrease' /\ HorizonAboveGranted'
  BY <1>u, Zenon DEF IndInv, IdsIncrease, HorizonAboveGranted
<1> QED
  BY <1>1, <1>2, <1>3, <1>4, <1>5, <1>6, <1>7, Zenon DEF IndInv

\* Installing the range that the flush made durable.
LEMMA InstallInd ==
  ASSUME IndInv, NEW t \in Threads, Install(t)
  PROVE  IndInv' /\ \A k \in Kinds : next'[k] >= next[k]
<1> DEFINE k == want[t]
<1>t. TypeOK
  BY Zenon DEF IndInv
<1>k. /\ k \in Kinds /\ disk[k] \in Nat /\ got[t] \in Nat
      /\ prefetch[k] \in Nat \ {0} /\ next[k] \in Nat /\ pc[t] = "install"
  BY Zenon DEF IndInv, TypeOK, Install
<1>f. /\ disk[k] = got[t] + prefetch[k] /\ next[k] <= got[t] + 1
      /\ \A i \in DOMAIN granted[k] : granted[k][i] <= got[t]
      /\ \A u \in Threads : Fetching(u) /\ want[u] = k => u = t
  BY <1>k, Zenon DEF IndInv, FetchInv, Fetching
<1>u. /\ UNCHANGED <<vbuf, disk, prefetch, relLock, want, got, bufgen,
                     grpgen, flushing, granted>>
      /\ pc' = [pc EXCEPT ![t] = "test"]
      /\ next'[k] = got[t] + 1 /\ count'[k] = prefetch[k]
      /\ \A j \in Kinds \ {k} : next'[j] = next[j] /\ count'[j] = count[j]
  BY <1>t, <1>k, Zenon DEF Install, writerVars, TypeOK
<1>1. TypeOK'
  BY <1>k, <1>t, SMTT(30) DEF TypeOK, PcValues, Install, writerVars
<1>2. WriterInv' /\ IdsIncrease' /\ NoIdAboveNext'
  BY <1>u, Zenon DEF IndInv, WriterInv, IdsIncrease, NoIdAboveNext
<1>3. PageInv'
  BY <1>t, <1>k, <1>u, Zenon DEF IndInv, PageInv, TypeOK
<1>4. FetchInv'
  <2>1. \A u \in Threads : Fetching(u)' =>
          /\ Fetching(u) /\ pc'[u] = pc[u]
          /\ want[u] \in Kinds \ {k}
    BY <1>t, <1>f, <1>u, Zenon DEF Fetching, TypeOK
  <2>2. \A u \in Threads : pc'[u] \in {"flush", "install"} => Fetching(u)'
    BY Zenon DEF Fetching
  <2>3. ASSUME NEW u \in Threads
        PROVE  /\ Fetching(u)' => count'[want'[u]] = -1
               /\ \A v \in Threads :
                    Fetching(u)' /\ Fetching(v)' /\ want'[u] = want'[v]
                      => u = v
    BY <2>1, <1>u, Zenon DEF IndInv, FetchInv
  <2>4. ASSUME NEW u \in Threads, pc'[u] = "flush"
        PROVE  /\ vbuf'.data[want'[u]] = got'[u] + prefetch'[want'[u]]
               /\ disk'[want'[u]] <= got'[u]
    BY <2>1, <2>2, <2>4, <1>u, Zenon DEF IndInv, FetchInv
  <2>5. ASSUME NEW u \in Threads, pc'[u] = "install"
        PROVE  /\ disk'[want'[u]] = got'[u] + prefetch'[want'[u]]
               /\ next'[want'[u]] <= got'[u] + 1
               /\ \A i \in DOMAIN granted'[want'[u]] :
                    granted'[want'[u]][i] <= got'[u]
    BY <2>1, <2>2, <2>5, <1>u, Zenon DEF IndInv, FetchInv
  <2> QED
    BY <2>3, <2>4, <2>5, Zenon DEF FetchInv
<1>5. CacheInv'
  <2> SUFFICES ASSUME NEW j \in Kinds
      PROVE  /\ next'[j] <= disk[j] + 1
             /\ count'[j] > 0 => /\ next'[j] > 0
                                 /\ next'[j] + count'[j] <= disk[j] + 1
    BY <1>u, Zenon DEF CacheInv
  <2>1. CASE j = k
    BY <2>1, <1>k, <1>f, <1>u
  <2>2. CASE j # k
    BY <2>2, <1>u, Zenon DEF IndInv, CacheInv
  <2> QED
    BY <2>1, <2>2, Zenon
<1>6. HorizonAboveGranted'
  <2>1. \A i \in DOMAIN granted[k] : granted[k][i] < got[t] + 1
    BY <1>t, <1>k, <1>f DEF TypeOK
  <2> QED
    BY <2>1, <1>k, <1>u, Zenon DEF IndInv, HorizonAboveGranted
<1>7. \A j \in Kinds : next'[j] >= next[j]
  <2> TAKE j \in Kinds
  <2>1. next[j] \in Nat
    BY <1>t, Zenon DEF TypeOK
  <2>2. CASE j = k
    BY <2>2, <1>k, <1>f, <1>u, Zenon
  <2>3. CASE j # k
    BY <2>1, <2>3, <1>u
  <2> QED
    BY <2>2, <2>3, Zenon
<1> QED
  BY <1>1, <1>2, <1>3, <1>4, <1>5, <1>6, <1>7, Zenon DEF IndInv

\* Steps of the rest of the server: the end of start-up, the writer, the
\* buffer pool, a crash.
LEMMA ServerInd ==
  ASSUME IndInv, InitTransactionLowWaterMark \/ LogGroup
  PROVE  IndInv' /\ UNCHANGED next
<1>1. CASE InitTransactionLowWaterMark
  <2> USE <1>1 DEF IndInv, InitTransactionLowWaterMark, writerVars
  <2>1. TypeOK'
    BY PrefetchAssumption, Zenon DEF TypeOK
  <2>2. WriterInv' /\ PageInv' /\ CacheInv' /\ IdsIncrease'
        /\ NoIdAboveNext' /\ HorizonAboveGranted'
    BY Zenon DEF WriterInv, PageInv, CacheInv, IdsIncrease, NoIdAboveNext,
           HorizonAboveGranted
  <2>3. FetchInv'
    BY Zenon DEF FetchInv, Fetching
  <2> QED
    BY <2>1, <2>2, <2>3, Zenon
<1>2. CASE LogGroup
  <2> USE <1>2 DEF IndInv, LogGroup
  <2>1. TypeOK'
    BY DEF TypeOK
  <2>2. WriterInv'
    BY DEF WriterInv, TypeOK, Buffers
  <2>3. PageInv' /\ CacheInv' /\ IdsIncrease'
        /\ NoIdAboveNext' /\ HorizonAboveGranted'
    BY Zenon DEF PageInv, CacheInv, IdsIncrease, NoIdAboveNext,
           HorizonAboveGranted
  <2>4. FetchInv'
    BY Zenon DEF FetchInv, Fetching
  <2> QED
    BY <2>1, <2>2, <2>3, <2>4, Zenon
<1> QED
  BY <1>1, <1>2, Zenon

LEMMA EvictInd ==
  ASSUME IndInv, Evict
  PROVE  IndInv' /\ UNCHANGED next
<1> USE DEF IndInv, Evict, writerVars
<1>1. /\ \A t \in Threads : pc[t] \notin {"bump", "flush"}
      /\ disk \in Pages /\ ZeroPage \in Pages
  BY ThreadAssumption, Zenon DEF PageInv, TypeOK, Pages, ZeroPage
<1>2. vbuf' \in Buffers /\ vbuf'.data = disk /\ vbuf'.generation = 0
  BY <1>1, ReadInFacts, Zenon
<1>3. TypeOK'
  BY <1>2, Zenon DEF TypeOK
<1>4. WriterInv' /\ PageInv'
  BY <1>1, <1>2 DEF WriterInv, PageInv, TypeOK
<1>5. FetchInv'
  BY <1>1, Zenon DEF FetchInv, Fetching
<1>6. CacheInv' /\ IdsIncrease' /\ NoIdAboveNext' /\ HorizonAboveGranted'
  BY Zenon DEF CacheInv, IdsIncrease, NoIdAboveNext, HorizonAboveGranted
<1> QED
  BY <1>3, <1>4, <1>5, <1>6, Zenon

LEMMA CrashInd ==
  ASSUME IndInv, Crash
  PROVE  IndInv' /\ \A k \in Kinds : next'[k] = 0
<1> USE DEF IndInv, Crash, Fresh
<1>1. disk \in Pages /\ ZeroPage \in Pages
  BY Zenon DEF TypeOK, Pages, ZeroPage
<1>2. vbuf' \in Buffers /\ vbuf'.data = disk /\ vbuf'.generation = 0
  BY <1>1, ReadInFacts, Zenon
<1>3. TypeOK'
  <2>1. next' \in [Kinds -> Nat] /\ count' \in [Kinds -> Nat \cup {-1}]
    BY Zenon DEF ZeroPage
  <2>2. pc' \in [Threads -> PcValues] /\ want' \in [Threads -> Kinds]
        /\ got' \in [Threads -> Nat]
    BY Zenon DEF PcValues, Kinds
  <2> QED
    BY <1>2, <2>1, <2>2, PrefetchAssumption, Zenon DEF TypeOK
<1>4. WriterInv' /\ PageInv' /\ FetchInv'
  BY <1>2, SMTT(30) DEF WriterInv, PageInv, FetchInv, Fetching
<1>5. CacheInv'
  BY <1>1 DEF CacheInv, ZeroPage, Pages
<1>6. IdsIncrease' /\ NoIdAboveNext' /\ HorizonAboveGranted'
  BY SMTT(30) DEF IdsIncrease, NoIdAboveNext, HorizonAboveGranted, ZeroPage
<1> QED
  BY <1>3, <1>4, <1>5, <1>6, Zenon DEF ZeroPage

\* Every step preserves the inductive invariant, and moves nextXid only
\* forwards or back to 0.
LEMMA NextInd ==
  ASSUME IndInv, [Next]_vars
  PROVE  /\ IndInv'
         /\ \A k \in Kinds : next'[k] = 0 \/ next'[k] >= next[k]
<1>n. \A k \in Kinds : next[k] \in Nat
  BY Zenon DEF IndInv, TypeOK
<1>m. UNCHANGED next => \A k \in Kinds : next'[k] >= next[k]
  BY <1>n
<1>1. CASE \E t \in Threads : Step(t)
  <2> PICK t \in Threads : Step(t)
    BY <1>1, Zenon
  <2>1. CASE \E k \in Kinds : Enter(t, k)
    <3>1. UNCHANGED next
      BY <2>1, Zenon DEF Enter
    <3> QED
      BY <2>1, <3>1, <1>m, EnterInd, Zenon
  <2>2. CASE Take(t)
    <3>1. \A k \in Kinds : next'[k] >= next[k]
      BY <2>2, <1>n, SMTT(30) DEF IndInv, TypeOK, Take
    <3> QED
      BY <2>2, <3>1, TakeInd, Zenon
  <2>3. CASE StartFetch(t)
    <3>1. UNCHANGED next
      BY <2>3, Zenon DEF StartFetch
    <3> QED
      BY <2>3, <3>1, <1>m, StartFetchInd, Zenon
  <2>4. CASE LockVariableRelation(t)
    <3>1. UNCHANGED next
      BY <2>4, Zenon DEF LockVariableRelation
    <3> QED
      BY <2>4, <3>1, <1>m, LockInd, Zenon
  <2>5. CASE FetchError(t)
    <3>1. UNCHANGED next
      BY <2>5, Zenon DEF FetchError
    <3> QED
      BY <2>5, <3>1, <1>m, FetchErrorInd, Zenon
  <2>6. CASE Bump(t)
    <3>1. UNCHANGED next
      BY <2>6, Zenon DEF Bump
    <3> QED
      BY <2>6, <3>1, <1>m, BumpInd, Zenon
  <2>7. CASE Flush(t)
    <3>1. UNCHANGED next
      BY <2>7, Zenon DEF Flush
    <3> QED
      BY <2>7, <3>1, <1>m, FlushInd, Zenon
  <2>8. CASE Install(t)
    BY <2>8, InstallInd, Zenon
  <2> QED
    BY <2>1, <2>2, <2>3, <2>4, <2>5, <2>6, <2>7, <2>8, Zenon DEF Step
<1>2. CASE InitTransactionLowWaterMark \/ LogGroup
  BY <1>2, <1>n, ServerInd
<1>3. CASE Evict
  BY <1>3, <1>n, EvictInd
<1>4. CASE Crash
  BY <1>4, CrashInd, Zenon
<1>5. CASE UNCHANGED vars
  <2>1. IndInv'
    BY <1>5 DEF vars, IndInv, TypeOK, WriterInv, PageInv, FetchInv, Fetching,
                CacheInv, IdsIncrease, NoIdAboveNext, HorizonAboveGranted
  <2> QED
    BY <2>1, <1>5, <1>n DEF vars
<1> QED
  BY <1>1, <1>2, <1>3, <1>4, <1>5, Zenon DEF Next

\* The inductive invariant holds in every run without early flushes.
THEOREM IndInvariant ==
  Spec => []IndInv
<1>1. IndInv /\ [Next]_vars => IndInv'
  BY NextInd, Zenon
<1> QED
  BY <1>1, InitInd, PTL DEF Spec

\* Ids never repeat and never decrease, for any number of threads, crashes,
\* evictions and write groups: the refill protocol of GetNewTransactionId and
\* GetNewObjectId.
THEOREM IdsNeverReissued ==
  Spec => []IdsIncrease
<1>1. IndInv => IdsIncrease
  BY Zenon DEF IndInv
<1> QED
  BY <1>1, IndInvariant, PTL

\* Constraint (1) of TransRecover: every id ever handed out is covered by the
\* pg_variable page on disk.
THEOREM RecoveryConstraint ==
  Spec => []NoIdAboveNext
<1>1. IndInv => NoIdAboveNext
  BY Zenon DEF IndInv
<1> QED
  BY <1>1, IndInvariant, PTL

\* The horizon read by ReadNewTransactionId is above every id handed out and
\* never moves back within a run of the server.
THEOREM HorizonSound ==
  Spec => []HorizonAboveGranted /\ HorizonMonotone
<1>1. IndInv => HorizonAboveGranted
  BY Zenon DEF IndInv
<1>2. IndInv /\ [Next]_vars =>
        [\A k \in Kinds : next'[k] = 0 \/ next'[k] >= next[k]]_vars
  BY NextInd, Zenon
<1> QED
  BY <1>1, <1>2, IndInvariant, PTL DEF Spec, HorizonMonotone
=============================================================================
