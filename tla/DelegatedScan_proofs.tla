------------------------ MODULE DelegatedScan_proofs ------------------------
(***************************************************************************)
(* Proofs about DelegatedScan for any number of helpers, any size of the   *)
(* relations and of the hand-over, and any number of scans: the executor   *)
(* gets the tuples in order, and all of them before the end of the scan,   *)
(* and no helper works on a Delegate that is gone.                         *)
(*                                                                         *)
(* The invariant follows a tuple through the four places it can be in: the *)
(* array of the helper, the Delegate, the marker and the executor.  They   *)
(* hold consecutive runs of tuples, until the collector is done; then the  *)
(* helper may drop what it has, and nobody looks at the Delegate again.    *)
(* When the helper drops the scan with pointers in the Delegate they are   *)
(* in freed memory, and from then on no end of the scan can be marked.     *)
(* A second one says which helpers may still touch a Delegate, and that    *)
(* those that CancelDolHelpers has passed stay asleep.                     *)
(***************************************************************************)
EXTENDS DelegatedScan, SequenceTheorems, TLAPS

Delegates ==
  [size : Int, items : Seq(Nat), collstate : {"running", "waiting", "signaled"},
   delestate : {"running", "waiting", "signaled"}, collector_done : BOOLEAN,
   delegate_done : BOOLEAN]

Types ==
  /\ state \in [Helpers -> DolStates] /\ hpc \in [Helpers -> Places]
  /\ start \in [Helpers -> BOOLEAN] /\ open \subseteq Helpers
  /\ dele \in [Helpers -> Delegates]
  /\ next \in [Helpers -> Nat] /\ local \in [Helpers -> Seq(Nat)]
  /\ done \in [Helpers -> BOOLEAN] /\ eof \in [Helpers -> BOOLEAN]
  /\ rest \in [Helpers -> Seq(Nat)] /\ got \in [Helpers -> Seq(Nat)]

\* The states of the helper that let the main thread give it a command.
SlotInv ==
  \A h \in Helpers :
    /\ state[h] = "none" => hpc[h] = "none"
    /\ state[h] = "waiting" => hpc[h] = "asleep"
    /\ state[h] = "primed" => hpc[h] = "init" \/ (hpc[h] = "asleep" /\ start[h])
    /\ hpc[h] = "loop" => ~start[h]

\* The main thread collects only from scans that it has not begun to end.
MainInv ==
  /\ mpc \in {"begin", "collect", "ending"} => at \in open
  /\ mpc \in {"begin", "collect"} => rest[at] = <<>>
  /\ ~InTransaction => open = {}
  /\ mpc \in {"ended", "destroy", "join"} => open = {}
  /\ \A h \in open : dele[h].collector_done =>
       mpc \in {"stop", "stopwait"} \/ (mpc = "ending" /\ at = h)

\* The sequence holds the tuples that follow the first k ones.
Run(s, k) == \A i \in 1 .. Len(s) : s[i] = k + i

\* The same, but some of it may have been read from freed memory.
Right(s, k, f) == \A i \in 1 .. Len(s) : s[i] = k + i \/ (f /\ s[i] = Freed)

\* The helper dropped the scan before its end was marked.
Lost(h) == Dropped(h) /\ dele[h].size >= 0

Taken(h) == Len(got[h]) + Len(rest[h])
Sent(h) == Taken(h) + (IF dele[h].size > 0 THEN dele[h].size ELSE 0)

Begins(h) == hpc[h] \in {"init", "clone"} \/ (hpc[h] = "asleep" /\ start[h])
Reading == {"scan", "check", "transfer", "full"}
Finishing == {"finish", "donewait"}

\* The Delegate and the array of the helper.
Pending(h) ==
  /\ dele[h].size <= Len(dele[h].items) /\ ~dele[h].delegate_done
  /\ \A i \in 1 .. dele[h].size :
       dele[h].items[i] = Taken(h) + i \/ (Lost(h) /\ dele[h].items[i] = Freed)
  /\ dele[h].size < 0 => Taken(h) = NTuples[h]
HelperInv(h) ==
  /\ Begins(h) => dele[h].size = 0 /\ Taken(h) = 0
  /\ hpc[h] \in Reading \cup Finishing =>
       /\ next[h] = Sent(h) + Len(local[h]) + 1 /\ next[h] <= NTuples[h] + 1
       /\ Run(local[h], Sent(h))
       /\ done[h] => next[h] = NTuples[h] + 1
  /\ hpc[h] \in Finishing => done[h] /\ local[h] = <<>>

\* The marker and the executor.
Given(h) ==
  /\ Right(got[h], 0, Lost(h)) /\ Right(rest[h], Len(got[h]), Lost(h))
  /\ eof[h] => rest[h] = <<>> /\ Len(got[h]) = NTuples[h] /\ dele[h].size < 0

Content(h) == Given(h) /\ (~dele[h].collector_done => Pending(h) /\ HelperInv(h))

\* A Delegate that a helper may still add to holds the pointers it claims to hold.
ItemsInv ==
  \A h \in Helpers : Begins(h) \/ hpc[h] \in Reading =>
    0 <= dele[h].size /\ dele[h].size <= Len(dele[h].items)

ScanInv == Types /\ SlotInv /\ MainInv /\ ItemsInv /\ \A h \in open : Content(h)
-----------------------------------------------------------------------------
(* What the operators on a Delegate and the steps on sequences do.         *)

LEMMA DelegateFacts ==
  ASSUME NEW d \in Delegates
  PROVE  /\ \A x \in {"running", "waiting"} :
              /\ [d EXCEPT !.delestate = x] \in Delegates
              /\ [d EXCEPT !.delestate = x].size = d.size
              /\ [d EXCEPT !.delestate = x].items = d.items
              /\ [d EXCEPT !.delestate = x].collector_done = d.collector_done
              /\ [d EXCEPT !.delestate = x].delegate_done = d.delegate_done
              /\ [d EXCEPT !.collstate = x] \in Delegates
              /\ [d EXCEPT !.collstate = x].size = d.size
              /\ [d EXCEPT !.collstate = x].items = d.items
              /\ [d EXCEPT !.collstate = x].collector_done = d.collector_done
              /\ [d EXCEPT !.collstate = x].delegate_done = d.delegate_done
         /\ SignalCollector(d) \in Delegates /\ SignalCollector(d).size = d.size
         /\ SignalCollector(d).items = d.items
         /\ SignalCollector(d).collector_done = d.collector_done
         /\ SignalCollector(d).delegate_done = d.delegate_done
         /\ SignalDelegate(d) \in Delegates /\ SignalDelegate(d).size = d.size
         /\ SignalDelegate(d).items = d.items
         /\ SignalDelegate(d).collector_done = d.collector_done
         /\ SignalDelegate(d).delegate_done = d.delegate_done
BY Zenon DEF Delegates, SignalCollector, SignalDelegate

LEMMA RunAppended ==
  ASSUME NEW s \in Seq(Nat), NEW k \in Nat, Run(s, k)
  PROVE  /\ Append(s, k + Len(s) + 1) \in Seq(Nat)
         /\ Len(Append(s, k + Len(s) + 1)) = Len(s) + 1
         /\ Run(Append(s, k + Len(s) + 1), k)
<1> DEFINE e == k + Len(s) + 1
<1>1. Len(s) \in Nat
  BY LenProperties, Zenon
<1>2. e \in Nat
  BY <1>1
<1> HIDE DEF e
<1>3. /\ Append(s, e) \in Seq(Nat) /\ Len(Append(s, e)) = Len(s) + 1
      /\ \A i \in 1 .. Len(s) : Append(s, e)[i] = s[i]
      /\ Append(s, e)[Len(s) + 1] = e
  BY <1>2, AppendProperties
<1>4. e = k + Len(s) + 1
  BY Zenon DEF e
<1>5. Run(Append(s, e), k)
  BY <1>1, <1>3, <1>4 DEF Run
<1> QED
  BY <1>3, <1>4, <1>5, Zenon

LEMMA RightAppended ==
  ASSUME NEW s \in Seq(Nat), NEW k \in Nat, NEW f \in BOOLEAN, Right(s, k, f),
         NEW e \in Nat, e = k + Len(s) + 1 \/ (f /\ e = Freed)
  PROVE  /\ Append(s, e) \in Seq(Nat) /\ Len(Append(s, e)) = Len(s) + 1
         /\ Right(Append(s, e), k, f)
<1>1. Len(s) \in Nat
  BY LenProperties, Zenon
<1>3. /\ Append(s, e) \in Seq(Nat) /\ Len(Append(s, e)) = Len(s) + 1
      /\ \A i \in 1 .. Len(s) : Append(s, e)[i] = s[i]
      /\ Append(s, e)[Len(s) + 1] = e
  BY AppendProperties
<1>4. ASSUME NEW i \in 1 .. Len(s) + 1
      PROVE  Append(s, e)[i] = k + i \/ (f /\ Append(s, e)[i] = Freed)
  <2>1. CASE i \in 1 .. Len(s)
    BY <2>1, <1>3, Zenon DEF Right
  <2>2. CASE i = Len(s) + 1
    <3>1. k + (Len(s) + 1) = k + Len(s) + 1
      BY <1>1
    <3> QED
      BY <2>2, <3>1, <1>3, Zenon
  <2> QED
    BY <2>1, <2>2, <1>1
<1> QED
  BY <1>3, <1>4, Zenon DEF Right

LEMMA RightTail ==
  ASSUME NEW s \in Seq(Nat), NEW k \in Nat, NEW f \in BOOLEAN, Right(s, k, f), s # <<>>
  PROVE  /\ Head(s) \in Nat /\ (Head(s) = k + 1 \/ (f /\ Head(s) = Freed))
         /\ Tail(s) \in Seq(Nat) /\ Len(Tail(s)) = Len(s) - 1 /\ Len(s) \in Nat \ {0}
         /\ Right(Tail(s), k + 1, f)
<1>1. Len(s) \in Nat \ {0}
  BY EmptySeq, Zenon
<1>2. Tail(s) \in Seq(Nat) /\ Len(Tail(s)) = Len(s) - 1
      /\ \A i \in 1 .. Len(Tail(s)) : Tail(s)[i] = s[i + 1]
  BY HeadTailProperties, Zenon
<1>3. Head(s) = s[1] /\ Head(s) \in Nat
  BY HeadTailProperties, SMTT(30)
<1>4. 1 \in 1 .. Len(s)
  BY <1>1
<1>5. Right(Tail(s), k + 1, f)
  <2> SUFFICES ASSUME NEW i \in 1 .. Len(Tail(s))
               PROVE  Tail(s)[i] = (k + 1) + i \/ (f /\ Tail(s)[i] = Freed)
    BY Zenon DEF Right
  <2>1. i + 1 \in 1 .. Len(s) /\ (k + 1) + i = k + (i + 1)
    BY <1>1, <1>2
  <2>2. Tail(s)[i] = s[i + 1]
    BY <1>2, Zenon
  <2> QED
    BY <2>1, <2>2, Zenon DEF Right
<1> QED
  BY <1>1, <1>2, <1>3, <1>4, <1>5, Zenon DEF Right

\* A prefix that holds the tuples after the first k, with a run behind it.
LEMMA RunJoined ==
  ASSUME NEW s \in Seq(Nat), NEW n \in Nat, n <= Len(s), NEW t \in Seq(Nat), NEW k \in Nat,
         \A i \in 1 .. n : s[i] = k + i, Run(t, k + n)
  PROVE  /\ SubSeq(s, 1, n) \o t \in Seq(Nat)
         /\ Len(SubSeq(s, 1, n) \o t) = n + Len(t) /\ Len(t) \in Nat
         /\ Run(SubSeq(s, 1, n) \o t, k)
<1>0. Len(s) \in Nat /\ Len(t) \in Nat
  BY LenProperties, Zenon
<1>1. \A i \in 1 .. n : s[i] \in Nat
  BY <1>0, ElementOfSeq, SMTT(30)
<1> DEFINE u == SubSeq(s, 1, n)
<1>2. u \in Seq(Nat) /\ Len(u) = n /\ \A i \in 1 .. n : u[i] = s[i]
  <2>1. /\ u \in Seq(Nat) /\ Len(u) = IF 1 <= n THEN n - 1 + 1 ELSE 0
        /\ \A i \in 1 .. n - 1 + 1 : u[i] = s[1 + i - 1]
    BY <1>1, SubSeqProperties
  <2> QED
    BY <2>1
<1> HIDE DEF u
<1> DEFINE w == u \o t
<1>3. /\ w \in Seq(Nat) /\ Len(w) = n + Len(t)
      /\ \A i \in 1 .. n + Len(t) : w[i] = IF i <= n THEN u[i] ELSE t[i - n]
  BY <1>2, ConcatProperties, ZenonT(60)
<1> HIDE DEF w
<1>4. ASSUME NEW i \in 1 .. n + Len(t) PROVE w[i] = k + i
  <2>1. CASE i <= n
    <3>1. i \in 1 .. n
      BY <2>1, <1>0
    <3>2. s[i] = k + i /\ u[i] = s[i]
      BY <3>1, <1>2, Zenon
    <3>3. w[i] = u[i]
      BY <2>1, <1>3, Zenon
    <3> QED
      BY <3>2, <3>3, Zenon
  <2>2. CASE i > n
    <3>1. i - n \in 1 .. Len(t)
      BY <2>2, <1>0
    <3>2. t[i - n] = (k + n) + (i - n)
      BY <3>1, Zenon DEF Run
    <3> QED
      BY <2>2, <3>2, <1>0, <1>3, SMTT(30)
  <2> QED
    BY <2>1, <2>2, <1>0
<1>5. Run(w, k)
  BY <1>3, <1>4, Zenon DEF Run
<1> QED
  BY <1>0, <1>3, <1>5, Zenon DEF u, w

LEMMA ItemsRight ==
  ASSUME NEW s \in Seq(Nat), NEW n \in Int, 0 < n, n <= Len(s), NEW k \in Nat, NEW f \in BOOLEAN,
         \A i \in 1 .. n : s[i] = k + i \/ (f /\ s[i] = Freed)
  PROVE  /\ SubSeq(s, 1, n) \in Seq(Nat) /\ Len(SubSeq(s, 1, n)) = n
         /\ Right(SubSeq(s, 1, n), k, f) /\ SubSeq(s, 1, n) # <<>>
<1> DEFINE u == SubSeq(s, 1, n)
<1>1. \A i \in 1 .. n : s[i] \in Nat
  BY LenProperties, ElementOfSeq, SMTT(30)
<1>2. /\ u \in Seq(Nat) /\ Len(u) = IF 1 <= n THEN n - 1 + 1 ELSE 0
      /\ \A i \in 1 .. n - 1 + 1 : u[i] = s[1 + i - 1]
  BY <1>1, SubSeqProperties
<1> HIDE DEF u
<1>3. Len(u) = n /\ \A i \in 1 .. n : u[i] = s[i]
  BY <1>2
<1>4. u # <<>>
  BY <1>3, EmptySeq
<1>5. Right(u, k, f)
  BY <1>3, Zenon DEF Right
<1> QED
  BY <1>2, <1>3, <1>4, <1>5, Zenon DEF u

LEMMA MoveTypes ==
  ASSUME NEW d \in Delegates, NEW t \in Seq(Nat), d.size <= Len(d.items)
  PROVE  /\ Move(d, t) \in Delegates /\ Move(d, t).size = d.size + Len(t)
         /\ Move(d, t).size <= Len(Move(d, t).items)
         /\ Move(d, t).collector_done = d.collector_done
<1> DEFINE u == SubSeq(d.items, 1, d.size)
           w == u \o t
           n == d.size + Len(t)
<1>1. /\ d.size \in Int /\ d.items \in Seq(Nat) /\ Len(t) \in Nat
      /\ Len(d.items) \in Nat
  BY LenProperties, Zenon DEF Delegates
<1>2. \A i \in 1 .. d.size : d.items[i] \in Nat
  BY <1>1, ElementOfSeq
<1>3. u \in Seq(Nat) /\ d.size <= Len(u) /\ Len(u) \in Nat
  <2>1. u \in Seq(Nat) /\ Len(u) = IF 1 <= d.size THEN d.size - 1 + 1 ELSE 0
    BY <1>1, <1>2, SubSeqProperties
  <2> QED
    BY <2>1, <1>1
<1> HIDE DEF u
<1>4. w \in Seq(Nat) /\ Len(w) = Len(u) + Len(t)
  BY <1>3, ConcatProperties, Zenon
<1>5. n \in Int /\ n <= Len(w)
  BY <1>1, <1>3, <1>4
<1>6. Move(d, t) = [d EXCEPT !.items = w, !.size = n]
  BY Zenon DEF Move, u
<1> HIDE DEF w, n
<1>7. /\ Move(d, t) \in Delegates /\ Move(d, t).size = n /\ Move(d, t).items = w
      /\ Move(d, t).collector_done = d.collector_done
  BY <1>4, <1>5, <1>6, Zenon DEF Delegates
<1> QED
  BY <1>5, <1>7, Zenon DEF n

LEMMA MoveFacts ==
  ASSUME NEW d \in Delegates, NEW t \in Seq(Nat), 0 <= d.size, d.size <= Len(d.items), NEW k \in Nat,
         \A i \in 1 .. d.size : d.items[i] = k + i, Run(t, k + d.size)
  PROVE  /\ Move(d, t) \in Delegates /\ Move(d, t).size = d.size + Len(t) /\ Len(t) \in Nat
         /\ Move(d, t).collector_done = d.collector_done
         /\ Len(Move(d, t).items) = d.size + Len(t)
         /\ \A i \in 1 .. d.size + Len(t) : Move(d, t).items[i] = k + i
<1>1. d.size \in Nat /\ d.items \in Seq(Nat)
  BY DEF Delegates
<1> DEFINE u == SubSeq(d.items, 1, d.size) \o t
<1>2. u \in Seq(Nat) /\ Len(u) = d.size + Len(t) /\ Len(t) \in Nat /\ Run(u, k)
  BY <1>1, RunJoined, Zenon
<1> DEFINE n == d.size + Len(t)
<1> n \in Int
  BY <1>1, <1>2
<1> HIDE DEF u
<1>3. Move(d, t) = [d EXCEPT !.items = u, !.size = n]
  BY Zenon DEF Move, u
<1> HIDE DEF n
<1>4. /\ Move(d, t) \in Delegates /\ Move(d, t).items = u /\ Move(d, t).size = n
      /\ Move(d, t).collector_done = d.collector_done
  BY <1>1, <1>2, <1>3, Zenon DEF Delegates
<1> QED
  BY <1>2, <1>4, Zenon DEF Run, n

LEMMA DoneField ==
  ASSUME NEW d \in Delegates, NEW s, NEW x
  PROVE  /\ SignalCollector(Move(d, s)).delegate_done = d.delegate_done
         /\ MarkEnd(d) \in Delegates /\ MarkEnd(d).delegate_done = d.delegate_done
         /\ SignalCollector(d).delegate_done = d.delegate_done
         /\ SignalDelegate(d).delegate_done = d.delegate_done
         /\ [d EXCEPT !.delestate = x].delegate_done = d.delegate_done
         /\ [d EXCEPT !.collstate = x].delegate_done = d.delegate_done
         /\ [d EXCEPT !.collstate = x, !.collector_done = s].delegate_done = d.delegate_done
BY SMTT(30) DEF Delegates, SignalCollector, SignalDelegate, Move, MarkEnd

LEMMA FreeFacts ==
  ASSUME NEW d \in Delegates
  PROVE  /\ FreeItems(d) \in Delegates /\ FreeItems(d).size = d.size
         /\ FreeItems(d).collector_done = d.collector_done
         /\ FreeItems(d).delegate_done = d.delegate_done
         /\ Len(FreeItems(d).items) = Len(d.items)
         /\ \A i \in 1 .. Len(d.items) : FreeItems(d).items[i] = Freed
<1> DEFINE w == [i \in DOMAIN d.items |-> Freed]
<1>1. d.items \in Seq(Nat) /\ Len(d.items) \in Nat /\ DOMAIN d.items = 1 .. Len(d.items)
  BY LenProperties, Zenon DEF Delegates
<1>2. \A i \in 1 .. Len(d.items) : w[i] = Freed
  BY <1>1, Zenon
<1>3. w \in Seq(Nat) /\ Len(w) = Len(d.items)
  <2>1. w = [i \in 1 .. Len(d.items) |-> Freed] /\ Freed \in Nat
    BY <1>1 DEF Freed
  <2>2. w \in [1 .. Len(d.items) -> Nat]
    BY <2>1, Zenon
  <2>3. w \in Seq(Nat)
    BY <1>1, <2>2, IsASeq, SMTT(30)
  <2>4. DOMAIN w = 1 .. Len(w) /\ DOMAIN w = 1 .. Len(d.items) /\ Len(w) \in Nat
    BY <2>1, <2>3, LenProperties, Zenon
  <2> QED
    BY <1>1, <2>3, <2>4
<1> HIDE DEF w
<1>4. FreeItems(d) = [d EXCEPT !.items = w]
  BY Zenon DEF FreeItems, w
<1> QED
  BY <1>2, <1>3, <1>4, Zenon DEF Delegates
-----------------------------------------------------------------------------
(* Steps that move no pointers of a scan.                                  *)

Kept(u) ==
  /\ rest'[u] = rest[u] /\ got'[u] = got[u] /\ eof'[u] = eof[u]
  /\ dele'[u].size = dele[u].size /\ dele'[u].delegate_done = dele[u].delegate_done
  /\ Dropped(u) => Dropped(u)'
  /\ \/ dele'[u].collector_done
     \/ /\ ~dele[u].collector_done
        /\ dele'[u].items = dele[u].items
        /\ next'[u] = next[u] /\ local'[u] = local[u] /\ done'[u] = done[u]
        /\ Begins(u)' => Begins(u)
        /\ hpc'[u] \in Reading => hpc[u] \in Reading
        /\ hpc'[u] \in Finishing => hpc[u] \in Finishing

LEMMA KeptContent ==
  ASSUME NEW u \in Helpers, Content(u), Kept(u)
  PROVE  Content(u)'
<1>0. Lost(u) => Lost(u)'
  BY Zenon DEF Kept, Lost
<1>1. Given(u)'
  BY <1>0, Zenon DEF Content, Kept, Given, Right
<1>2. CASE dele'[u].collector_done
  BY <1>1, <1>2, Zenon DEF Content
<1>3. CASE ~dele'[u].collector_done
  <2>1. /\ ~dele[u].collector_done
        /\ dele'[u].size = dele[u].size /\ dele'[u].items = dele[u].items
        /\ dele'[u].delegate_done = dele[u].delegate_done
        /\ next'[u] = next[u] /\ local'[u] = local[u] /\ done'[u] = done[u]
        /\ rest'[u] = rest[u] /\ got'[u] = got[u] /\ eof'[u] = eof[u]
    BY <1>3, Zenon DEF Kept
  <2>2. Taken(u)' = Taken(u) /\ Sent(u)' = Sent(u)
    BY <2>1, Zenon DEF Taken, Sent
  <2>3. Pending(u) /\ HelperInv(u)
    BY <2>1, Zenon DEF Content
  <2>4. Pending(u)'
    BY <1>0, <2>1, <2>2, <2>3, Zenon DEF Pending
  <2>5. HelperInv(u)'
    BY <1>3, <2>1, <2>2, <2>3, Zenon DEF HelperInv, Kept, Run
  <2> QED
    BY <1>1, <2>4, <2>5, Zenon DEF Content
<1> QED
  BY <1>2, <1>3, Zenon

\* A scan none of whose variables changes.
Untouched(u) ==
  /\ rest'[u] = rest[u] /\ got'[u] = got[u] /\ eof'[u] = eof[u] /\ dele'[u] = dele[u]
  /\ next'[u] = next[u] /\ local'[u] = local[u] /\ done'[u] = done[u]
  /\ hpc'[u] = hpc[u] /\ start'[u] = start[u]

LEMMA UntouchedContent ==
  ASSUME NEW u \in Helpers, Content(u), Untouched(u)
  PROVE  Content(u)'
<1>1. Kept(u)
  BY Zenon DEF Untouched, Kept, Begins, Dropped
<1> QED
  BY <1>1, KeptContent, Zenon

LEMMA ScanInitial == Init => ScanInv
<1> SUFFICES ASSUME Init PROVE ScanInv
  BY Zenon
<1>1. NewDelegate \in Delegates
  BY EmptySeq DEF NewDelegate, Delegates
<1>2. Types
  BY <1>1, EmptySeq, Zenon DEF Init, Types, DolStates, Places
<1>3. SlotInv /\ MainInv /\ ItemsInv /\ open = {}
  BY Zenon DEF Init, SlotInv, MainInv, ItemsInv, Begins, Reading, InTransaction
<1> QED
  BY <1>2, <1>3, Zenon DEF ScanInv
-----------------------------------------------------------------------------
(* The loop of a helper.                                                   *)

\* Steps of helper h that change its state, its place and its command only.
Moves(h) ==
  /\ UNCHANGED <<mpc, at, open, dele, scanVars, markerVars>>
  /\ state' \in [Helpers -> DolStates] /\ hpc' \in [Helpers -> Places]
  /\ start' \in [Helpers -> BOOLEAN]
  /\ \A u \in Helpers : u # h => state'[u] = state[u] /\ hpc'[u] = hpc[u] /\ start'[u] = start[u]
  /\ Begins(h)' => Begins(h)
  /\ Dropped(h) => Dropped(h)'
  /\ hpc'[h] \in Reading => hpc[h] \in Reading
  /\ hpc'[h] \notin Finishing
  /\ state'[h] \notin {"none", "primed"}
  /\ state'[h] = "waiting" => hpc'[h] = "asleep"
  /\ hpc'[h] = "loop" => ~start'[h]

LEMMA MovesKeeps ==
  ASSUME ScanInv, NEW h \in Helpers, Moves(h)
  PROVE  ScanInv'
<1>1. Types'
  BY Zenon DEF ScanInv, Types, Moves, scanVars, markerVars
<1>2. SlotInv'
  BY Zenon DEF ScanInv, SlotInv, Moves
<1>3. MainInv' /\ ItemsInv'
  BY Zenon DEF ScanInv, MainInv, ItemsInv, Moves, Begins, markerVars, InTransaction
<1>4. ASSUME NEW u \in open' PROVE Content(u)'
  <2>1. u \in Helpers /\ Content(u)
    BY <1>4, Zenon DEF ScanInv, Types, Moves
  <2>2. Kept(u)
    <3>1. CASE u = h
      BY <2>1, <3>1, Zenon DEF Kept, Moves, scanVars, markerVars
    <3>2. CASE u # h
      BY <2>1, <3>2, Zenon DEF Kept, Moves, scanVars, markerVars, Begins, Dropped
    <3> QED
      BY <3>1, <3>2, Zenon
  <2> QED
    BY <2>1, <2>2, KeptContent, Zenon
<1> QED
  BY <1>1, <1>2, <1>3, <1>4, Zenon DEF ScanInv

LEMMA LoopMoves ==
  ASSUME ScanInv, NEW h \in Helpers,
         \/ InitDolConnection(h) \/ HelperWakes(h) \/ HelperLoops(h)
  PROVE  Moves(h)
<1> USE DEF ScanInv, Types, Dropped
<1>1. CASE InitDolConnection(h)
  BY <1>1, ZenonT(60) DEF InitDolConnection, Top, Goto, Moves, Begins, Reading, Finishing, Places, DolStates, SlotInv
<1>2. CASE HelperWakes(h)
  <2>1. hpc[h] = "asleep" /\ start' = start /\ UNCHANGED <<mpc, at, open, dele, scanVars, markerVars>>
    BY <1>2, Zenon DEF HelperWakes
  <2>2. CASE start[h]
    BY <1>2, <2>1, <2>2, ZenonT(60)
       DEF HelperWakes, Goto, Moves, Begins, Reading, Finishing, Places, DolStates
  <2>3. CASE ~start[h]
    <3>1. Top(h) /\ state[h] # "primed"
      BY <1>2, <2>1, <2>3, Zenon DEF HelperWakes, SlotInv
    <3> QED
      BY <2>1, <2>3, <3>1, ZenonT(60)
         DEF Top, Goto, Moves, Begins, Reading, Finishing, Places, DolStates
  <2> QED
    BY <2>2, <2>3, Zenon
<1>3. CASE HelperLoops(h)
  BY <1>3, ZenonT(60) DEF HelperLoops, Top, Goto, Moves, Begins, Reading, Finishing, Places, DolStates, SlotInv
<1> QED
  BY <1>1, <1>2, <1>3, Zenon

LEMMA PlaceMoves ==
  ASSUME ScanInv, NEW h \in Helpers,
         \/ HeapPointerTranfer(h) \/ CheckForCancel(h) \/ DelegateWaitCancelled(h) \/ HelperFails(h)
  PROVE  Moves(h)
<1> USE DEF ScanInv, Types, Goto, Moves, Begins, Reading, Finishing, Places, DolStates, SlotInv, Dropped
<1>1. CASE HeapPointerTranfer(h)
  BY <1>1, Zenon DEF HeapPointerTranfer
<1>2. CASE CheckForCancel(h)
  BY <1>2, Zenon DEF CheckForCancel
<1>3. CASE DelegateWaitCancelled(h)
  BY <1>3, Zenon DEF DelegateWaitCancelled
<1>4. CASE HelperFails(h)
  BY <1>4, Zenon DEF HelperFails
<1> QED
  BY <1>1, <1>2, <1>3, <1>4, Zenon

\* The end of a command; the pointers that an error leaves in the Delegate are freed.
LEMMA CommandKeeps ==
  ASSUME ScanInv, NEW h \in Helpers, CommandDone(h)
  PROVE  ScanInv'
<1>0. /\ dele[h] \in Delegates /\ <<>> \in Seq(Nat) /\ 1 \in Nat /\ FALSE \in BOOLEAN
      /\ FreeItems(dele[h]) \in Delegates
  BY EmptySeq, FreeFacts, SMTT(30) DEF ScanInv, Types
<1>1. /\ hpc[h] \in {"tail", "error"} /\ hpc' = [hpc EXCEPT ![h] = "loop"]
      /\ start' = [start EXCEPT ![h] = FALSE] /\ next' = [next EXCEPT ![h] = 1]
      /\ local' = [local EXCEPT ![h] = <<>>] /\ done' = [done EXCEPT ![h] = FALSE]
      /\ UNCHANGED <<state, mpc, at, open, markerVars>>
      /\ \/ hpc[h] = "tail" /\ dele' = dele
         \/ hpc[h] = "error" /\ dele' = [dele EXCEPT ![h] = FreeItems(dele[h])]
  BY Zenon DEF CommandDone, Goto
<1>2. /\ hpc'[h] = "loop" /\ ~start'[h] /\ rest'[h] = rest[h] /\ got'[h] = got[h] /\ eof'[h] = eof[h]
      /\ dele'[h] = dele[h] \/ dele'[h] = FreeItems(dele[h])
      /\ \A u \in Helpers : u # h => Untouched(u)
  BY <1>1, Zenon DEF ScanInv, Types, Untouched, markerVars
<1>3. /\ dele'[h].size = dele[h].size /\ dele'[h].collector_done = dele[h].collector_done
      /\ dele'[h].delegate_done = dele[h].delegate_done /\ Len(dele'[h].items) = Len(dele[h].items)
  BY <1>0, <1>2, FreeFacts, Zenon
<1>4. Types'
  BY <1>0, <1>1, Zenon DEF ScanInv, Types, Places, markerVars
<1>5. SlotInv'
  <2>1. ASSUME NEW u \in Helpers
        PROVE  /\ state'[u] = "none" => hpc'[u] = "none"
               /\ state'[u] = "waiting" => hpc'[u] = "asleep"
               /\ state'[u] = "primed" => hpc'[u] = "init" \/ (hpc'[u] = "asleep" /\ start'[u])
               /\ hpc'[u] = "loop" => ~start'[u]
    <3>1. CASE u = h
      BY <3>1, <1>1, <1>2, Zenon DEF ScanInv, SlotInv
    <3>2. CASE u # h
      <4>1. hpc'[u] = hpc[u] /\ start'[u] = start[u] /\ state'[u] = state[u]
        BY <3>2, <1>1, <1>2, Zenon DEF Untouched
      <4> QED
        BY <4>1, Zenon DEF ScanInv, SlotInv
    <3> QED
      BY <3>1, <3>2, Zenon
  <2> QED
    BY <2>1, Zenon DEF SlotInv
<1>6. MainInv'
  BY <1>1, <1>2, <1>3, Zenon DEF ScanInv, Types, MainInv, Untouched, markerVars, InTransaction
<1>7. ItemsInv'
  BY <1>2, Zenon DEF ScanInv, ItemsInv, Untouched, Begins, Reading
<1>8. ASSUME NEW u \in open' PROVE Content(u)'
  <2>1. u \in Helpers /\ u \in open /\ Content(u)
    BY <1>1, <1>8, Zenon DEF ScanInv, Types
  <2>2. CASE u # h
    BY <2>1, <2>2, <1>2, UntouchedContent, Zenon
  <2>3. CASE u = h
    <3>1. ~Lost(h)
      BY <1>1, Zenon DEF Lost, Dropped
    <3>2. Given(h)'
      BY <2>1, <2>3, <3>1, <1>2, <1>3, Zenon DEF Content, Given, Right
    <3>3. ASSUME ~dele[h].collector_done PROVE Pending(h)' /\ HelperInv(h)'
      <4>1. Pending(h)
        BY <2>1, <2>3, <3>3, Zenon DEF Content
      <4>2. Taken(h)' = Taken(h)
        BY <1>2, Zenon DEF Taken
      <4>3. ASSUME NEW i \in 1 .. dele[h].size
            PROVE  dele'[h].items[i] = Taken(h) + i \/ (Lost(h)' /\ dele'[h].items[i] = Freed)
        <5>1. CASE dele'[h] = dele[h]
          BY <4>1, <5>1, <3>1, Zenon DEF Pending
        <5>2. CASE dele'[h] = FreeItems(dele[h])
          <6>1. i \in 1 .. Len(dele[h].items) /\ dele[h].size >= 0
            BY <4>1, <1>0, LenProperties, SMTT(30) DEF Pending, Delegates
          <6>2. dele'[h].items[i] = Freed
            BY <6>1, <5>2, <1>0, FreeFacts, SMTT(30)
          <6>3. Lost(h)'
            BY <6>1, <4>1, <1>2, <1>3, Zenon DEF Lost, Dropped, Pending
          <6> QED
            BY <6>2, <6>3, Zenon
        <5> QED
          BY <5>1, <5>2, <1>2, Zenon
      <4>4. Pending(h)'
        BY <4>1, <4>2, <4>3, <1>3, Zenon DEF Pending
      <4>5. HelperInv(h)'
        BY <1>2, Zenon DEF HelperInv, Begins, Reading, Finishing
      <4> QED
        BY <4>4, <4>5, Zenon
    <3> QED
      BY <2>3, <3>2, <3>3, <1>3, Zenon DEF Content
  <2> QED
    BY <2>2, <2>3, Zenon
<1> QED
  BY <1>4, <1>5, <1>6, <1>7, <1>8, Zenon DEF ScanInv
-----------------------------------------------------------------------------
(* The scan of a helper.                                                   *)

\* Steps of helper h on its scan and its Delegate.
Works(h) ==
  /\ UNCHANGED <<state, start, mpc, at, open, markerVars>>
  /\ hpc[h] \in {"clone"} \cup Reading \cup Finishing
  /\ hpc'[h] \in Reading \cup Finishing \cup {"tail"}
  /\ hpc' \in [Helpers -> Places] /\ dele' \in [Helpers -> Delegates]
  /\ next' \in [Helpers -> Nat] /\ local' \in [Helpers -> Seq(Nat)]
  /\ done' \in [Helpers -> BOOLEAN]
  /\ dele'[h].collector_done = dele[h].collector_done
  /\ \A u \in Helpers : u # h => Untouched(u)

LEMMA WorksKeeps ==
  ASSUME ScanInv, NEW h \in Helpers, Works(h),
         hpc'[h] \in Reading => 0 <= dele'[h].size /\ dele'[h].size <= Len(dele'[h].items),
         dele[h].size < 0 => dele'[h].size < 0,
         h \in open /\ ~dele[h].collector_done => Pending(h)' /\ HelperInv(h)'
  PROVE  ScanInv'
<1>1. Types'
  BY Zenon DEF ScanInv, Types, Works, markerVars
<1>2. SlotInv'
  BY SMTT(30) DEF ScanInv, SlotInv, Works, Untouched, Reading, Finishing
<1>3. MainInv'
  <2>1. open \subseteq Helpers /\ \A u \in Helpers : dele'[u].collector_done = dele[u].collector_done
    BY Zenon DEF ScanInv, Types, Works, Untouched
  <2> QED
    BY <2>1, Zenon DEF ScanInv, MainInv, Works, markerVars, InTransaction
<1>5. ItemsInv'
  BY ZenonT(60) DEF ScanInv, ItemsInv, Works, Untouched, Begins, Reading, Finishing
<1>4. ASSUME NEW u \in open' PROVE Content(u)'
  <2>1. u \in Helpers /\ u \in open /\ Content(u)
    BY <1>4, Zenon DEF ScanInv, Types, Works
  <2>2. CASE u # h
    BY <2>1, <2>2, UntouchedContent, Zenon DEF Works
  <2>3. CASE u = h
    <3>0. ~Lost(h)
      BY Zenon DEF Works, Lost, Dropped, Reading, Finishing
    <3>1. Given(h)'
      BY <2>1, <2>3, <3>0, Zenon DEF Content, Given, Right, Works, markerVars
    <3> QED
      BY <2>1, <2>3, <3>1, Zenon DEF Content, Works
  <2> QED
    BY <2>2, <2>3, Zenon
<1> QED
  BY <1>1, <1>2, <1>3, <1>4, <1>5, Zenon DEF ScanInv

LEMMA CloneKeeps ==
  ASSUME ScanInv, NEW h \in Helpers, CloneTransactionEvironment(h)
  PROVE  ScanInv'
<1>1. Works(h)
  BY EmptySeq, Zenon DEF ScanInv, Types, CloneTransactionEvironment, Goto, Works, Untouched, Reading, Finishing,
     Places, markerVars
<1>2. ASSUME h \in open, ~dele[h].collector_done PROVE Pending(h)' /\ HelperInv(h)'
  <2>1. Pending(h) /\ HelperInv(h)
    BY <1>2, Zenon DEF ScanInv, Content
  <2>2. /\ hpc[h] = "clone" /\ hpc'[h] = "scan" /\ dele' = dele /\ next'[h] = 1 /\ local'[h] = <<>>
        /\ done'[h] = FALSE /\ UNCHANGED markerVars
    BY Zenon DEF ScanInv, Types, CloneTransactionEvironment, Goto
  <2>3. dele[h].size = 0 /\ Taken(h) = 0
    BY <2>1, <2>2, Zenon DEF HelperInv, Begins
  <2>4. Taken(h)' = Taken(h) /\ Sent(h)' = 0
    <3>1. Taken(h)' = Taken(h)
      BY <2>2, Zenon DEF Taken, markerVars
    <3> QED
      BY <3>1, <2>2, <2>3 DEF Sent
  <2>5. Pending(h)'
    <3>1. ~Lost(h)
      BY <2>2, Zenon DEF Lost, Dropped
    <3> QED
      BY <2>1, <2>2, <2>4, <3>1, Zenon DEF Pending, markerVars
  <2>6. HelperInv(h)'
    BY <2>2, <2>3, <2>4, ScanAssumption, SMTT(30) DEF HelperInv, Begins, Reading, Finishing, Run, Helpers
  <2> QED
    BY <2>5, <2>6, Zenon
<1>3. 0 <= dele'[h].size /\ dele'[h].size <= Len(dele'[h].items) /\ dele' = dele
  BY Zenon DEF ScanInv, ItemsInv, Begins, CloneTransactionEvironment
<1> QED
  BY <1>1, <1>2, <1>3, WorksKeeps, Zenon

LEMMA HeapKeeps ==
  ASSUME ScanInv, NEW h \in Helpers, DolHeapDelegation(h)
  PROVE  ScanInv'
<1> DEFINE valid == next[h] <= NTuples[h]
           more == IF valid THEN Append(local[h], next[h]) ELSE local[h]
<1>1. /\ next[h] \in Nat /\ local[h] \in Seq(Nat) /\ Len(local[h]) \in Nat /\ NTuples[h] \in Nat
      /\ done[h] \in BOOLEAN
  BY LenProperties, ScanAssumption, Zenon DEF ScanInv, Types, Helpers
<1>2. more \in Seq(Nat)
  BY <1>1, AppendProperties, Zenon
<1>3. /\ hpc[h] = "scan" /\ hpc'[h] \in {"scan", "check"} /\ dele' = dele /\ UNCHANGED markerVars
      /\ local' = [local EXCEPT ![h] = more] /\ local'[h] = more
      /\ next' = [next EXCEPT ![h] = IF valid THEN next[h] + 1 ELSE next[h]]
      /\ next'[h] = (IF valid THEN next[h] + 1 ELSE next[h])
      /\ done' = [done EXCEPT ![h] = done[h] \/ ~valid] /\ done'[h] = (done[h] \/ ~valid)
      /\ UNCHANGED <<state, start, mpc, at, open>>
      /\ \E p \in {"scan", "check"} : hpc' = [hpc EXCEPT ![h] = p]
  BY Zenon DEF ScanInv, Types, DolHeapDelegation, Goto
<1> HIDE DEF more
<1>4. Works(h)
  BY <1>1, <1>2, <1>3 DEF ScanInv, Types, Works, Untouched, Reading, Finishing, Places, markerVars
<1>5. ASSUME h \in open, ~dele[h].collector_done PROVE Pending(h)' /\ HelperInv(h)'
  <2>1. Pending(h) /\ HelperInv(h)
    BY <1>5, Zenon DEF ScanInv, Content
  <2>2. Taken(h)' = Taken(h) /\ Sent(h)' = Sent(h)
    BY <1>3, Zenon DEF Taken, Sent, markerVars
  <2>3. Pending(h)'
    <3>1. ~Lost(h)
      BY <1>3, Zenon DEF Lost, Dropped
    <3> QED
      BY <2>1, <1>3, <2>2, <3>1, Zenon DEF Pending, markerVars
  <2>4. Sent(h) \in Nat
    BY LenProperties, SMTT(30) DEF ScanInv, Types, Sent, Taken, Delegates
  <2>5. /\ next[h] = Sent(h) + Len(local[h]) + 1 /\ next[h] <= NTuples[h] + 1
        /\ Run(local[h], Sent(h)) /\ (done[h] => next[h] = NTuples[h] + 1)
    BY <2>1, <1>3, Zenon DEF HelperInv, Reading
  <2>6. CASE valid
    <3>1. more = Append(local[h], Sent(h) + Len(local[h]) + 1)
      BY <2>6, <2>5, Zenon DEF more
    <3>2. Len(more) = Len(local[h]) + 1 /\ Run(more, Sent(h))
      BY <3>1, <1>1, <2>4, <2>5, RunAppended, Zenon
    <3> QED
      BY <3>2, <2>2, <2>3, <2>4, <2>5, <2>6, <1>1, <1>3, SMTT(30)
         DEF HelperInv, Begins, Reading, Finishing
  <2>7. CASE ~valid
    <3>1. local'[h] = local[h] /\ next'[h] = next[h] /\ done'[h]
      BY <2>7, <1>3, Zenon DEF more
    <3>2. next[h] = NTuples[h] + 1
      BY <2>5, <2>7, <1>1
    <3>3. Run(local'[h], Sent(h)')
      BY <3>1, <2>2, <2>5, Zenon
    <3> QED
      BY <3>1, <3>2, <3>3, <2>2, <2>3, <2>5, <1>3, Zenon
         DEF HelperInv, Begins, Reading, Finishing
  <2> QED
    BY <2>6, <2>7, Zenon
<1>6. 0 <= dele'[h].size /\ dele'[h].size <= Len(dele'[h].items)
  BY <1>3, Zenon DEF ScanInv, ItemsInv, Reading
<1> QED
  BY <1>3, <1>4, <1>5, <1>6, WorksKeeps, Zenon

LEMMA TransferKeeps ==
  ASSUME ScanInv, NEW h \in Helpers, DelegatedTransferPointers(h)
  PROVE  ScanInv'
<1> DEFINE d == [dele[h] EXCEPT !.delestate = "running"]
           dropped == hpc[h] = "transfer" /\ d.collector_done
           moved == SignalCollector(Move(d, local[h]))
<1>1. /\ dele[h] \in Delegates /\ dele[h].size \in Int /\ local[h] \in Seq(Nat)
      /\ done[h] \in BOOLEAN /\ <<>> \in Seq(Nat) /\ Taken(h) \in Nat
  BY LenProperties, EmptySeq, SMTT(30) DEF ScanInv, Types, Delegates, Taken
<1>2. /\ d \in Delegates /\ d.size = dele[h].size /\ d.items = dele[h].items
      /\ d.collector_done = dele[h].collector_done /\ d.delegate_done = dele[h].delegate_done
  BY <1>1, DelegateFacts, Zenon
<1>3. /\ hpc[h] \in {"transfer", "full"} /\ UNCHANGED <<state, start, mpc, at, open, next, markerVars>>
      /\ \/ /\ dropped /\ done' = [done EXCEPT ![h] = TRUE] /\ local' = [local EXCEPT ![h] = <<>>]
            /\ \E p \in {"finish", "scan"} : hpc' = [hpc EXCEPT ![h] = p]
            /\ dele' = dele
         \/ /\ dele' = [dele EXCEPT ![h] = [d EXCEPT !.delestate = "waiting"]]
            /\ hpc' = [hpc EXCEPT ![h] = "full"] /\ UNCHANGED <<done, local>>
         \/ /\ ~dropped /\ dele' = [dele EXCEPT ![h] = moved]
            /\ local' = [local EXCEPT ![h] = <<>>]
            /\ hpc' = [hpc EXCEPT ![h] = IF done[h] THEN "finish" ELSE "scan"]
            /\ UNCHANGED done
  BY Zenon DEF DelegatedTransferPointers, Goto
<1> HIDE DEF d, moved
<1> USE DEF Reading, Finishing
<1>0. /\ 0 <= dele[h].size /\ dele[h].size <= Len(dele[h].items) /\ Len(dele[h].items) \in Nat
      /\ ~Lost(h)
  BY <1>1, <1>3, LenProperties, Zenon DEF ScanInv, ItemsInv, Delegates, Lost, Dropped
<1>4. CASE /\ dropped /\ done' = [done EXCEPT ![h] = TRUE] /\ local' = [local EXCEPT ![h] = <<>>]
           /\ \E p \in {"finish", "scan"} : hpc' = [hpc EXCEPT ![h] = p]
           /\ dele' = dele
  <2>1. Works(h)
    BY <1>1, <1>3, <1>4, SMTT(30) DEF ScanInv, Types, Works, Untouched, Places, markerVars
  <2> QED
    BY <2>1, <1>0, <1>2, <1>4, WorksKeeps, Zenon
<1>5. CASE /\ dele' = [dele EXCEPT ![h] = [d EXCEPT !.delestate = "waiting"]]
           /\ hpc' = [hpc EXCEPT ![h] = "full"] /\ UNCHANGED <<done, local>>
  <2>1. [d EXCEPT !.delestate = "waiting"] \in Delegates
    BY <1>2, DelegateFacts, Zenon
  <2>2. /\ dele'[h].size = dele[h].size /\ dele'[h].items = dele[h].items
        /\ dele'[h].collector_done = dele[h].collector_done
        /\ dele'[h].delegate_done = dele[h].delegate_done
    BY <1>2, <1>5, DelegateFacts, Zenon DEF ScanInv, Types
  <2>3. Works(h)
    BY <1>1, <1>3, <1>5, <2>1, <2>2, Zenon DEF ScanInv, Types, Works, Untouched, Places, markerVars
  <2>4. ASSUME h \in open, ~dele[h].collector_done PROVE Pending(h)' /\ HelperInv(h)'
    <3>1. Kept(h)
      BY <1>3, <1>5, <2>2, <2>4, Zenon DEF Kept, Begins, Dropped, markerVars, ScanInv, Types
    <3>2. Content(h)'
      BY <2>4, <3>1, KeptContent, Zenon DEF ScanInv
    <3> QED
      BY <2>2, <2>4, <3>2, Zenon DEF Content
  <2> QED
    BY <1>0, <2>2, <2>3, <2>4, WorksKeeps, Zenon
<1>6. CASE /\ ~dropped /\ dele' = [dele EXCEPT ![h] = moved]
           /\ local' = [local EXCEPT ![h] = <<>>]
           /\ hpc' = [hpc EXCEPT ![h] = IF done[h] THEN "finish" ELSE "scan"]
           /\ UNCHANGED done
  <2>1. /\ Move(d, local[h]) \in Delegates
        /\ Move(d, local[h]).size = d.size + Len(local[h])
        /\ Move(d, local[h]).size <= Len(Move(d, local[h]).items)
        /\ Move(d, local[h]).collector_done = d.collector_done
    BY <1>0, <1>1, <1>2, MoveTypes, Zenon
  <2>2. /\ dele'[h] = moved /\ moved \in Delegates /\ moved.size = dele[h].size + Len(local[h])
        /\ moved.collector_done = dele[h].collector_done /\ moved.size <= Len(moved.items)
        /\ moved.items = Move(d, local[h]).items
        /\ moved.delegate_done = dele[h].delegate_done
    BY <1>2, <1>6, <2>1, DelegateFacts, DoneField, Zenon DEF moved, ScanInv, Types
  <2>a. 0 <= moved.size /\ ~(dele[h].size < 0)
    BY <2>2, <1>0, <1>1, LenProperties, SMTT(30)
  <2>3. Works(h)
    BY <1>1, <1>3, <1>6, <2>2, Zenon DEF ScanInv, Types, Works, Untouched, Places, markerVars
  <2>4. ASSUME h \in open, ~dele[h].collector_done PROVE Pending(h)' /\ HelperInv(h)'
    <3>1. Pending(h) /\ HelperInv(h)
      BY <2>4, Zenon DEF ScanInv, Content
    <3>2. /\ next[h] = Sent(h) + Len(local[h]) + 1
          /\ Run(local[h], Sent(h)) /\ (done[h] => next[h] = NTuples[h] + 1)
          /\ next[h] <= NTuples[h] + 1
      BY <3>1, <1>3, Zenon DEF HelperInv
    <3>3. Sent(h) = Taken(h) + dele[h].size
      BY <1>0, <1>1 DEF Sent
    <3>4. /\ \A i \in 1 .. moved.size : moved.items[i] = Taken(h) + i
          /\ Len(local[h]) \in Nat
      <4>1. /\ 0 <= d.size /\ d.size <= Len(d.items) /\ Run(local[h], Taken(h) + d.size)
            /\ \A i \in 1 .. d.size : d.items[i] = Taken(h) + i
        BY <3>1, <3>2, <3>3, <1>0, <1>2, Zenon DEF Pending
      <4>2. /\ Len(local[h]) \in Nat
            /\ \A i \in 1 .. d.size + Len(local[h]) : Move(d, local[h]).items[i] = Taken(h) + i
        BY <4>1, <1>1, <1>2, MoveFacts, Zenon
      <4> QED
        BY <4>2, <2>2, <1>2, Zenon
    <3>5. Taken(h)' = Taken(h)
      BY <1>3, Zenon DEF Taken, markerVars
    <3>6. Sent(h)' = Sent(h) + Len(local[h])
      BY <3>3, <3>4, <3>5, <2>2, <1>0, <1>1, SMTT(30) DEF Sent
    <3>7. Pending(h)'
      <4>1. ~dele'[h].delegate_done
        BY <3>1, <2>2, Zenon DEF Pending
      <4> QED
        BY <4>1, <3>4, <3>5, <2>a, <2>2, <1>1, SMTT(30) DEF Pending
    <3>8. local'[h] = <<>> /\ next'[h] = next[h] /\ done'[h] = done[h]
          /\ hpc'[h] = (IF done[h] THEN "finish" ELSE "scan")
      BY <1>3, <1>6, Zenon DEF ScanInv, Types
    <3>9. HelperInv(h)'
      <4>1. Len(local'[h]) = 0 /\ Run(local'[h], Sent(h)')
        BY <3>8, SMTT(30) DEF Run
      <4>2. Sent(h) \in Nat
        BY <3>3, <1>0, <1>1, SMTT(30)
      <4>3. next'[h] = Sent(h)' + Len(local'[h]) + 1
        BY <3>2, <3>4, <3>6, <3>8, <4>1, <4>2
      <4> QED
        BY <3>2, <3>8, <4>1, <4>3, Zenon DEF HelperInv, Begins
    <3> QED
      BY <3>7, <3>9, Zenon
  <2> QED
    BY <2>2, <2>a, <2>3, <2>4, WorksKeeps, Zenon
<1> QED
  BY <1>3, <1>4, <1>5, <1>6, Zenon

LEMMA DoneKeeps ==
  ASSUME ScanInv, NEW h \in Helpers, DelegatedDone(h)
  PROVE  ScanInv'
<1> DEFINE d == [dele[h] EXCEPT !.delestate = "running"]
           left == SignalCollector([d EXCEPT !.items = <<>>, !.delegate_done = TRUE])
           marked == [SignalCollector(MarkEnd(d)) EXCEPT !.delestate = "waiting"]
<1>1. /\ dele[h] \in Delegates /\ dele[h].size \in Int /\ local[h] \in Seq(Nat)
      /\ done[h] \in BOOLEAN /\ <<>> \in Seq(Nat) /\ Taken(h) \in Nat
  BY LenProperties, EmptySeq DEF ScanInv, Types, Delegates, Taken
<1>2. /\ d \in Delegates /\ d.size = dele[h].size /\ d.items = dele[h].items
      /\ d.collector_done = dele[h].collector_done /\ d.delegate_done = dele[h].delegate_done
  BY <1>1, DelegateFacts, Zenon
<1>3. /\ hpc[h] \in Finishing /\ UNCHANGED <<state, start, mpc, at, open, scanVars, markerVars>>
      /\ IF d.collector_done
         THEN dele' = [dele EXCEPT ![h] = left] /\ hpc' = [hpc EXCEPT ![h] = "tail"]
         ELSE dele' = [dele EXCEPT ![h] = marked] /\ hpc' = [hpc EXCEPT ![h] = "donewait"]
  BY Zenon DEF DelegatedDone, Goto, Finishing
<1> HIDE DEF d
<1>4. left \in Delegates /\ left.collector_done = dele[h].collector_done /\ left.size = dele[h].size
  <2>1. /\ [d EXCEPT !.items = <<>>, !.delegate_done = TRUE] \in Delegates
        /\ [d EXCEPT !.items = <<>>, !.delegate_done = TRUE].collector_done = d.collector_done
        /\ [d EXCEPT !.items = <<>>, !.delegate_done = TRUE].size = d.size
    BY <1>1, <1>2, Zenon DEF Delegates
  <2> QED
    BY <2>1, <1>2, DelegateFacts, Zenon
<1>5. /\ marked \in Delegates /\ marked.collector_done = dele[h].collector_done
      /\ marked.items = dele[h].items /\ marked.delegate_done = dele[h].delegate_done
      /\ marked.size = IF dele[h].size = 0 THEN -1 ELSE dele[h].size
  <2>1. /\ MarkEnd(d) \in Delegates /\ MarkEnd(d).collector_done = d.collector_done
        /\ MarkEnd(d).items = d.items /\ MarkEnd(d).delegate_done = d.delegate_done
        /\ MarkEnd(d).size = IF d.size = 0 THEN -1 ELSE d.size
    BY <1>2 DEF MarkEnd, Delegates
  <2> DEFINE e == SignalCollector(MarkEnd(d))
  <2>2. /\ e \in Delegates /\ e.collector_done = d.collector_done
        /\ e.items = d.items /\ e.delegate_done = d.delegate_done
        /\ e.size = IF d.size = 0 THEN -1 ELSE d.size
    BY <2>1, DelegateFacts, Zenon
  <2> HIDE DEF e
  <2>3. /\ [e EXCEPT !.delestate = "waiting"] \in Delegates
        /\ [e EXCEPT !.delestate = "waiting"].size = e.size
        /\ [e EXCEPT !.delestate = "waiting"].items = e.items
        /\ [e EXCEPT !.delestate = "waiting"].collector_done = e.collector_done
        /\ [e EXCEPT !.delestate = "waiting"].delegate_done = e.delegate_done
    BY <2>2, DelegateFacts, Zenon
  <2>4. marked = [e EXCEPT !.delestate = "waiting"]
    BY Zenon DEF e
  <2> HIDE DEF marked
  <2> QED
    BY <2>2, <2>3, <2>4, <1>2, Zenon
<1> HIDE DEF left, marked
<1> USE DEF Reading, Finishing
<1>6. CASE d.collector_done
  <2>0. dele' = [dele EXCEPT ![h] = left] /\ hpc' = [hpc EXCEPT ![h] = "tail"]
    BY <1>3, <1>6, Zenon
  <2>1. Works(h)
    BY <2>0, <1>3, <1>4, Zenon DEF ScanInv, Types, Works, Untouched, Places, scanVars, markerVars
  <2>2. hpc'[h] = "tail"
    BY <1>3, <1>6, Zenon DEF ScanInv, Types
  <2> QED
    BY <2>0, <2>1, <2>2, <1>2, <1>4, <1>6, WorksKeeps, Zenon DEF ScanInv, Types
<1>7. CASE ~d.collector_done
  <2>0. dele' = [dele EXCEPT ![h] = marked] /\ hpc' = [hpc EXCEPT ![h] = "donewait"]
    BY <1>3, <1>7, Zenon
  <2>1. Works(h)
    BY <2>0, <1>3, <1>5, Zenon DEF ScanInv, Types, Works, Untouched, Places, scanVars, markerVars
  <2>2. /\ hpc'[h] = "donewait" /\ dele'[h] = marked /\ next' = next /\ local' = local /\ done' = done
        /\ rest' = rest /\ got' = got /\ eof' = eof
    BY <1>3, <1>7, Zenon DEF ScanInv, Types, scanVars, markerVars
  <2>3. ASSUME h \in open, ~dele[h].collector_done PROVE Pending(h)' /\ HelperInv(h)'
    <3>1. Pending(h) /\ HelperInv(h)
      BY <2>3, Zenon DEF ScanInv, Content
    <3>2. /\ next[h] = Sent(h) + Len(local[h]) + 1 /\ Run(local[h], Sent(h)) /\ done[h]
          /\ local[h] = <<>> /\ next[h] = NTuples[h] + 1 /\ NTuples[h] \in Nat
      BY <3>1, <1>3, ScanAssumption, Zenon DEF HelperInv, Helpers
    <3>3. Taken(h)' = Taken(h)
      BY <2>2, Zenon DEF Taken
    <3>4. Sent(h)' = Sent(h) /\ Sent(h) \in Nat
      BY <3>3, <2>2, <1>1, <1>5, SMTT(30) DEF Sent
    <3>5. Sent(h) = NTuples[h]
      BY <3>2, <3>4
    <3>6. dele[h].size <= 0 => Taken(h) = NTuples[h]
      BY <3>5, <1>1, SMTT(30) DEF Sent
    <3>7. Pending(h)'
      <4>1. dele[h].size <= Len(dele[h].items) /\ Len(dele[h].items) \in Nat
        BY <3>1, <1>1, LenProperties, Zenon DEF Pending, Delegates
      <4>2. dele'[h].size <= Len(dele'[h].items)
        BY <4>1, <2>2, <1>1, <1>5, SMTT(30)
      <4>3. \A i \in 1 .. dele'[h].size : i \in 1 .. dele[h].size
        BY <2>2, <1>1, <1>5, SMTT(30)
      <4>4. \A i \in 1 .. dele'[h].size : dele'[h].items[i] = Taken(h) + i
        <5>1. ~Lost(h)
          BY <1>3, Zenon DEF Lost, Dropped
        <5> QED
          BY <3>1, <4>3, <5>1, <2>2, <1>5, Zenon DEF Pending
      <4>5. ~dele'[h].delegate_done /\ (dele'[h].size < 0 => dele[h].size <= 0)
        BY <3>1, <2>2, <1>1, <1>5, SMTT(30) DEF Pending
      <4> QED
        BY <4>2, <4>4, <4>5, <3>3, <3>6, <2>2, Zenon DEF Pending
    <3>8. HelperInv(h)'
      BY <3>2, <3>4, <2>2 DEF HelperInv, Begins
    <3> QED
      BY <3>7, <3>8, Zenon
  <2>4. dele[h].size < 0 => dele'[h].size < 0
    BY <2>2, <1>1, <1>5
  <2> QED
    BY <2>1, <2>2, <2>3, <2>4, WorksKeeps, Zenon
<1> QED
  BY <1>6, <1>7, Zenon
-----------------------------------------------------------------------------
(* The main thread.                                                        *)

\* Steps of the main thread that touch the Delegate and the marker of no open scan.
Commands ==
  /\ UNCHANGED scanVars /\ open' \subseteq open
  /\ state' \in [Helpers -> DolStates] /\ hpc' \in [Helpers -> Places]
  /\ start' \in [Helpers -> BOOLEAN] /\ dele' \in [Helpers -> Delegates]
  /\ rest' \in [Helpers -> Seq(Nat)] /\ got' \in [Helpers -> Seq(Nat)]
  /\ eof' \in [Helpers -> BOOLEAN]
  /\ \A u \in Helpers : hpc'[u] \in {hpc[u], "none"} /\ (start'[u] => start[u])
  /\ \A u \in Helpers : dele'[u] \in {dele[u], NewDelegate}
  /\ \A u \in open' : /\ dele'[u] = dele[u] /\ hpc'[u] = hpc[u]
                       /\ rest'[u] = rest[u] /\ got'[u] = got[u] /\ eof'[u] = eof[u]

LEMMA CommandsKeeps ==
  ASSUME ScanInv, Commands, SlotInv', MainInv'
  PROVE  ScanInv'
<1>0. NewDelegate.size = 0 /\ 0 <= NewDelegate.size /\ NewDelegate.size <= Len(NewDelegate.items)
  BY EmptySeq, SMTT(30) DEF NewDelegate
<1>1. Types' /\ ItemsInv'
  BY <1>0, Zenon DEF ScanInv, Types, ItemsInv, Commands, scanVars, Begins, Reading
<1>2. ASSUME NEW u \in open' PROVE Content(u)'
  <2>1. u \in Helpers /\ Content(u)
    BY <1>2, Zenon DEF ScanInv, Types, Commands
  <2>2. Kept(u)
    BY <1>2, <2>1, Zenon DEF Kept, Commands, scanVars, Begins, Dropped, Reading, Finishing
  <2> QED
    BY <2>1, <2>2, KeptContent, Zenon
<1> QED
  BY <1>1, <1>2, Zenon DEF ScanInv

LEMMA EndKeeps ==
  ASSUME ScanInv,
         \/ \E h \in Helpers : CollectBegins(h)
         \/ EndTransaction \/ CollectWaitCancelled \/ WCancel
         \/ CancelDolHelpers \/ CancelGoesOn \/ TransactionEnded \/ NextStatement
         \/ ShutdownDolHelpers \/ StopDolConnection \/ DestroyDolConnection
  PROVE  ScanInv'
<1> USE DEF ScanInv, Types, helperVars, markerVars
<1>0. NewDelegate \in Delegates /\ <<>> \in Seq(Nat)
  BY EmptySeq DEF NewDelegate, Delegates
<1>1. CASE \/ \E h \in Helpers : CollectBegins(h)
           \/ EndTransaction \/ CollectWaitCancelled \/ WCancel
           \/ CancelGoesOn \/ NextStatement \/ ShutdownDolHelpers
  <2>1. UNCHANGED <<state, hpc, start, open, dele, scanVars, markerVars>>
    BY <1>1, Zenon DEF CollectBegins, EndTransaction, CollectWaitCancelled, WCancel, CancelGoesOn,
       NextStatement, ShutdownDolHelpers
  <2>2. Commands /\ SlotInv'
    BY <2>1, Zenon DEF Commands, SlotInv
  <2>3. MainInv'
    BY <1>1, <2>1, ZenonT(60) DEF CollectBegins, EndTransaction, CheckDolHelperErrors, Stop,
       CollectWaitCancelled, WCancel, CancelGoesOn, NextStatement, ShutdownDolHelpers, MainInv, InTransaction
  <2> QED
    BY <2>2, <2>3, CommandsKeeps, Zenon
<1>2. CASE TransactionEnded
  <2>1. Commands
    BY <1>0, <1>2, Zenon DEF TransactionEnded, Commands
  <2>2. SlotInv' /\ MainInv'
    BY <1>2, Zenon DEF TransactionEnded, SlotInv, MainInv
  <2> QED
    BY <2>1, <2>2, CommandsKeeps, Zenon
<1>3. CASE CancelDolHelpers
  BY <1>3, CommandsKeeps, ZenonT(60)
     DEF CancelDolHelpers, Commands, DolStates, SlotInv, MainInv, InTransaction
<1>4. CASE StopDolConnection
  BY <1>4, CommandsKeeps, ZenonT(60)
     DEF StopDolConnection, Commands, DolStates, SlotInv, MainInv, InTransaction
<1>5. CASE DestroyDolConnection
  <2>1. open = {} /\ open' = open
    BY <1>5, Zenon DEF DestroyDolConnection, MainInv, InTransaction
  <2>2. Commands /\ SlotInv' /\ MainInv'
    BY <1>5, <2>1, Zenon DEF DestroyDolConnection, Commands, DolStates, Places, SlotInv, MainInv
  <2> QED
    BY <2>2, CommandsKeeps, Zenon
<1> QED
  BY <1>1, <1>2, <1>3, <1>4, <1>5, Zenon

LEMMA StartKeeps ==
  ASSUME ScanInv, NEW h \in Helpers, DelegatedScanStart(h)
  PROVE  ScanInv'
<1>0. NewDelegate \in Delegates /\ <<>> \in Seq(Nat) /\ Len(<<>>) = 0
  BY EmptySeq DEF NewDelegate, Delegates
<1>t. Types /\ SlotInv /\ MainInv /\ ItemsInv /\ \A u \in open : Content(u)
  BY Zenon DEF ScanInv
<1>1. Types'
  BY <1>0, <1>t, Zenon DEF Types, DelegatedScanStart, Places, DolStates, scanVars
<1>2. /\ dele'[h] = NewDelegate /\ rest'[h] = <<>> /\ got'[h] = <<>> /\ eof'[h] = FALSE
      /\ start'[h] /\ state'[h] = "primed" /\ mpc = "exec" /\ mpc' = mpc /\ open' = open \cup {h}
      /\ hpc'[h] = (IF state[h] = "none" THEN "init" ELSE hpc[h])
  BY <1>t, Zenon DEF Types, DelegatedScanStart
<1>3. ASSUME NEW u \in Helpers, u # h PROVE Untouched(u) /\ state'[u] = state[u]
  <2>1. /\ rest' = [rest EXCEPT ![h] = <<>>] /\ got' = [got EXCEPT ![h] = <<>>]
        /\ eof' = [eof EXCEPT ![h] = FALSE] /\ dele' = [dele EXCEPT ![h] = NewDelegate]
        /\ hpc' = [hpc EXCEPT ![h] = IF state[h] = "none" THEN "init" ELSE @]
        /\ start' = [start EXCEPT ![h] = TRUE] /\ state' = [state EXCEPT ![h] = "primed"]
    BY Zenon DEF DelegatedScanStart
  <2>2. /\ rest'[u] = rest[u] /\ got'[u] = got[u] /\ eof'[u] = eof[u] /\ dele'[u] = dele[u]
        /\ hpc'[u] = hpc[u] /\ start'[u] = start[u] /\ state'[u] = state[u]
    BY <1>3, <1>t, <2>1, Zenon DEF Types
  <2>3. next' = next /\ local' = local /\ done' = done
    BY Zenon DEF DelegatedScanStart, scanVars
  <2> QED
    BY <2>2, <2>3, Zenon DEF Untouched
<1>4. hpc'[h] = "init" \/ hpc'[h] = "asleep"
  BY <1>2, <1>t, Zenon DEF DelegatedScanStart, GetDolConnection, SlotInv
<1> HIDE DEF DelegatedScanStart
<1>5. SlotInv'
  <2> SUFFICES ASSUME NEW u \in Helpers
               PROVE  /\ state'[u] = "none" => hpc'[u] = "none"
                      /\ state'[u] = "waiting" => hpc'[u] = "asleep"
                      /\ state'[u] = "primed" => hpc'[u] = "init" \/ (hpc'[u] = "asleep" /\ start'[u])
                      /\ hpc'[u] = "loop" => ~start'[u]
    BY Zenon DEF SlotInv
  <2>1. CASE u = h
    BY <2>1, <1>2, <1>4, Zenon
  <2>2. CASE u # h
    BY <2>2, <1>3, <1>t, Zenon DEF SlotInv, Untouched
  <2> QED
    BY <2>1, <2>2, Zenon
<1>6. MainInv'
  <2>1. ASSUME NEW u \in open' PROVE ~dele'[u].collector_done
    <3>1. CASE u = h
      BY <3>1, <1>2, SMTT(30) DEF NewDelegate
    <3>2. CASE u # h
      <4>1. u \in open /\ u \in Helpers
        BY <2>1, <3>2, <1>2, <1>t, Zenon DEF Types
      <4>2. dele'[u] = dele[u]
        BY <4>1, <3>2, <1>3, Zenon DEF Untouched
      <4> QED
        BY <4>1, <4>2, <1>2, <1>t, Zenon DEF MainInv
    <3> QED
      BY <3>1, <3>2, Zenon
  <2> QED
    BY <2>1, <1>2, Zenon DEF MainInv, InTransaction
<1>7. ItemsInv'
  <2> SUFFICES ASSUME NEW u \in Helpers, Begins(u)' \/ hpc'[u] \in Reading
               PROVE  0 <= dele'[u].size /\ dele'[u].size <= Len(dele'[u].items)
    BY Zenon DEF ItemsInv
  <2>1. CASE u = h
    BY <2>1, <1>0, <1>2, SMTT(30) DEF NewDelegate
  <2>2. CASE u # h
    BY <2>2, <1>3, <1>t, Zenon DEF ItemsInv, Untouched, Begins
  <2> QED
    BY <2>1, <2>2, Zenon
<1>8. ASSUME NEW u \in open' PROVE Content(u)'
  <2>1. CASE u # h
    <3>1. u \in Helpers /\ Content(u)
      BY <1>2, <1>8, <1>t, <2>1, Zenon DEF Types
    <3>2. Untouched(u)
      BY <3>1, <2>1, <1>3, Zenon
    <3> QED
      BY <3>1, <3>2, UntouchedContent, Zenon
  <2>2. CASE u = h
    <3>1. dele'[h].size = 0 /\ dele'[h].items = <<>>
      BY <1>2, SMTT(30) DEF NewDelegate
    <3>2. Taken(h)' = 0
      BY <1>0, <1>2, SMTT(30) DEF Taken
    <3>3. Given(h)'
      BY <1>0, <1>2, SMTT(30) DEF Given, Right
    <3>4. Pending(h)'
      <4>1. ~dele'[h].delegate_done
        BY <1>2, SMTT(30) DEF NewDelegate
      <4> QED
        BY <1>0, <1>2, <3>1, <4>1, SMTT(30) DEF Pending
    <3>5. HelperInv(h)'
      BY <1>4, <3>1, <3>2, Zenon DEF HelperInv, Reading, Finishing
    <3> QED
      BY <2>2, <3>3, <3>4, <3>5, Zenon DEF Content
  <2> QED
    BY <2>1, <2>2, Zenon
<1> QED
  BY <1>1, <1>5, <1>6, <1>7, <1>8, Zenon DEF ScanInv

\* Steps of the main thread on the marker and the Delegate of helper h.
Executes(h) ==
  /\ UNCHANGED <<state, hpc, start, scanVars>> /\ open' \subseteq open
  /\ dele' \in [Helpers -> Delegates]
  /\ rest' \in [Helpers -> Seq(Nat)] /\ got' \in [Helpers -> Seq(Nat)]
  /\ eof' \in [Helpers -> BOOLEAN]
  /\ \A u \in Helpers : u # h => Untouched(u)

LEMMA ExecutesKeeps ==
  ASSUME ScanInv, NEW h \in Helpers, Executes(h), MainInv',
         Begins(h) \/ hpc[h] \in Reading =>
           0 <= dele'[h].size /\ dele'[h].size <= Len(dele'[h].items),
         h \in open' => Content(h)'
  PROVE  ScanInv'
<1>1. Types' /\ SlotInv'
  BY Zenon DEF ScanInv, Types, SlotInv, Executes, scanVars
<1>2. ItemsInv'
  BY Zenon DEF ScanInv, ItemsInv, Executes, Untouched, Begins
<1>3. ASSUME NEW u \in open' PROVE Content(u)'
  <2>1. CASE u # h
    <3>1. u \in Helpers /\ Content(u)
      BY <1>3, Zenon DEF ScanInv, Types, Executes
    <3> QED
      BY <2>1, <3>1, UntouchedContent, Zenon DEF Executes
  <2> QED
    BY <2>1, <1>3, Zenon
<1> QED
  BY <1>1, <1>2, <1>3, Zenon DEF ScanInv

LEMMA NextKeeps ==
  ASSUME ScanInv, NEW h \in Helpers, DelegatedScanNext(h)
  PROVE  ScanInv'
<1>1. /\ h \in open /\ rest[h] # <<>> /\ rest[h] \in Seq(Nat) /\ got[h] \in Seq(Nat)
      /\ Len(got[h]) \in Nat /\ Len(rest[h]) \in Nat /\ Given(h)
  BY LenProperties, Zenon DEF ScanInv, Types, DelegatedScanNext, Content
<1>0. Lost(h) \in BOOLEAN /\ Right(got[h], 0, Lost(h)) /\ Right(rest[h], Len(got[h]), Lost(h)) /\ 0 \in Nat
  BY <1>1 DEF Given, Lost
<1>a. /\ Head(rest[h]) = Len(got[h]) + 1 \/ (Lost(h) /\ Head(rest[h]) = Freed)
      /\ Head(rest[h]) \in Nat /\ Tail(rest[h]) \in Seq(Nat)
      /\ Len(Tail(rest[h])) = Len(rest[h]) - 1 /\ Right(Tail(rest[h]), Len(got[h]) + 1, Lost(h))
  BY <1>0, <1>1, RightTail, SMTT(30)
<1>2. /\ Head(rest[h]) = 0 + Len(got[h]) + 1 \/ (Lost(h) /\ Head(rest[h]) = Freed)
      /\ Head(rest[h]) \in Nat /\ Tail(rest[h]) \in Seq(Nat)
      /\ Len(Tail(rest[h])) = Len(rest[h]) - 1 /\ Right(Tail(rest[h]), Len(got[h]) + 1, Lost(h))
  <2>1. Len(got[h]) + 1 = 0 + Len(got[h]) + 1
    BY <1>1
  <2> QED
    BY <1>a, <2>1, Zenon
<1>3. /\ Append(got[h], Head(rest[h])) \in Seq(Nat)
      /\ Len(Append(got[h], Head(rest[h]))) = Len(got[h]) + 1
      /\ Right(Append(got[h], Head(rest[h])), 0, Lost(h))
  BY <1>0, <1>1, <1>2, RightAppended, Zenon
<1>4. /\ got'[h] = Append(got[h], Head(rest[h])) /\ rest'[h] = Tail(rest[h])
      /\ UNCHANGED <<helperVars, mpc, at, open, dele, scanVars, eof>> /\ ~eof[h] /\ mpc = "exec"
  BY <1>1, Zenon DEF ScanInv, Types, DelegatedScanNext, Given
<1>5. Executes(h)
  <2>1. /\ got' = [got EXCEPT ![h] = Append(got[h], Head(rest[h]))]
        /\ rest' = [rest EXCEPT ![h] = Tail(rest[h])]
    BY Zenon DEF DelegatedScanNext
  <2> QED
    BY <2>1, <1>2, <1>3, <1>4, Zenon DEF ScanInv, Types, Executes, Untouched, helperVars, scanVars
<1>6. MainInv'
  BY <1>4, Zenon DEF ScanInv, MainInv, InTransaction
<1>7. Content(h)'
  <2>0. Lost(h)' = Lost(h)
    BY <1>4, Zenon DEF Lost, Dropped, helperVars
  <2>1. Given(h)'
    BY <2>0, <1>2, <1>3, <1>4, Zenon DEF Given
  <2>2. Taken(h)' = Taken(h) /\ Sent(h)' = Sent(h)
    <3>1. Len(got'[h]) = Len(got[h]) + 1 /\ Len(rest'[h]) = Len(rest[h]) - 1
      BY <1>2, <1>3, <1>4, Zenon
    <3>2. Taken(h) = Len(got[h]) + Len(rest[h]) /\ Taken(h)' = Len(got'[h]) + Len(rest'[h])
      BY Zenon DEF Taken
    <3>3. \A a \in Nat, b \in Nat : (a + 1) + (b - 1) = a + b
      OBVIOUS
    <3>4. Taken(h)' = Taken(h)
      BY <3>1, <3>2, <3>3, <1>1, Zenon
    <3> QED
      BY <3>4, <1>4, Zenon DEF Sent
  <2>3. CASE ~dele[h].collector_done
    <3>1. Pending(h) /\ HelperInv(h)
      BY <2>3, <1>1, Zenon DEF ScanInv, Content
    <3>2. Pending(h)'
      BY <3>1, <2>0, <2>2, <1>4, Zenon DEF Pending
    <3>3. HelperInv(h)'
      BY <3>1, <2>2, <1>4, Zenon DEF HelperInv, Begins, Run, helperVars, scanVars
    <3> QED
      BY <2>1, <3>2, <3>3, Zenon DEF Content
  <2> QED
    BY <2>1, <2>3, <1>4, Zenon DEF Content
<1> QED
  BY <1>4, <1>5, <1>6, <1>7, ExecutesKeeps, Zenon DEF ScanInv, ItemsInv

LEMMA ScanEndKeeps ==
  ASSUME ScanInv, NEW h \in Helpers, DelegatedScanEnd(h)
  PROVE  ScanInv'
<1> DEFINE e == [dele[h] EXCEPT !.collstate = "running", !.collector_done = TRUE]
           d == IF mpc = "exec" THEN SignalDelegate(e) ELSE e
<1>1. /\ e \in Delegates /\ e.size = dele[h].size /\ e.items = dele[h].items /\ e.collector_done
      /\ e.delegate_done = dele[h].delegate_done
  BY ZenonT(60) DEF ScanInv, Types, Delegates
<1> HIDE DEF e
<1>2. /\ d \in Delegates /\ d.size = dele[h].size /\ d.items = dele[h].items /\ d.collector_done
      /\ d.delegate_done = dele[h].delegate_done
  BY <1>1, DelegateFacts, Zenon
<1>3. /\ mpc = "exec" \/ (mpc = "ending" /\ at = h)
      /\ UNCHANGED <<state, hpc, start, scanVars>>
      /\ \/ /\ mpc' = "exec" /\ open' = open \ {h} /\ dele' = [dele EXCEPT ![h] = d]
            /\ rest' = [rest EXCEPT ![h] = <<>>] /\ got' = [got EXCEPT ![h] = <<>>]
            /\ eof' = [eof EXCEPT ![h] = FALSE]
         \/ /\ mpc' = "ending" /\ at' = h /\ open' = open /\ UNCHANGED markerVars
            /\ dele' = [dele EXCEPT ![h] = [d EXCEPT !.collstate = "waiting"]]
      /\ h \in open
  BY Zenon DEF DelegatedScanEnd, e, ScanInv, MainInv
<1> HIDE DEF d
<1>4. /\ dele'[h] \in Delegates /\ dele'[h].size = dele[h].size /\ dele'[h].items = dele[h].items
      /\ dele'[h].collector_done /\ dele'[h].delegate_done = dele[h].delegate_done
      /\ \E x \in Delegates : dele' = [dele EXCEPT ![h] = x]
  <2>1. /\ [d EXCEPT !.collstate = "waiting"] \in Delegates
        /\ [d EXCEPT !.collstate = "waiting"].size = d.size
        /\ [d EXCEPT !.collstate = "waiting"].items = d.items
        /\ [d EXCEPT !.collstate = "waiting"].collector_done = d.collector_done
        /\ [d EXCEPT !.collstate = "waiting"].delegate_done = d.delegate_done
    BY <1>2, DelegateFacts, Zenon
  <2> QED
    BY <2>1, <1>2, <1>3, Zenon DEF ScanInv, Types
<1>5. Executes(h)
  <2>1. <<>> \in Seq(Nat)
    BY EmptySeq, Zenon
  <2>2. open' \subseteq open /\ dele' \in [Helpers -> Delegates]
    BY <1>3, <1>4, Zenon DEF ScanInv, Types
  <2>3. /\ rest' \in [Helpers -> Seq(Nat)] /\ got' \in [Helpers -> Seq(Nat)]
        /\ eof' \in [Helpers -> BOOLEAN]
    <3>1. /\ rest' = rest \/ rest' = [rest EXCEPT ![h] = <<>>]
          /\ got' = got \/ got' = [got EXCEPT ![h] = <<>>]
          /\ eof' = eof \/ eof' = [eof EXCEPT ![h] = FALSE]
      BY <1>3, Zenon DEF markerVars
    <3>2. /\ rest \in [Helpers -> Seq(Nat)] /\ got \in [Helpers -> Seq(Nat)]
          /\ eof \in [Helpers -> BOOLEAN]
      BY Zenon DEF ScanInv, Types
    <3>3. rest' \in [Helpers -> Seq(Nat)]
      BY <2>1, <3>1, <3>2, Zenon
    <3>4. got' \in [Helpers -> Seq(Nat)]
      BY <2>1, <3>1, <3>2, Zenon
    <3>5. eof' \in [Helpers -> BOOLEAN]
      BY <3>1, <3>2, Zenon
    <3> QED
      BY <3>3, <3>4, <3>5, Zenon
  <2>4. \A u \in Helpers : u # h => Untouched(u)
    <3> SUFFICES ASSUME NEW u \in Helpers, u # h PROVE Untouched(u)
      BY Zenon
    <3>1. dele'[u] = dele[u]
      BY <1>4, Zenon DEF ScanInv, Types
    <3>2. rest'[u] = rest[u] /\ got'[u] = got[u] /\ eof'[u] = eof[u]
      BY <1>3, Zenon DEF ScanInv, Types, markerVars
    <3> QED
      BY <3>1, <3>2, <1>3, Zenon DEF Untouched, scanVars
  <2> QED
    BY <2>2, <2>3, <2>4, <1>3, Zenon DEF Executes
<1>6. MainInv'
  BY <1>3, <1>4, <1>5, Zenon DEF ScanInv, Types, MainInv, Executes, Untouched, InTransaction
<1>7. ASSUME h \in open' PROVE Content(h)'
  <2>1. Kept(h)
    BY <1>3, <1>4, <1>7, Zenon DEF Kept, Dropped, markerVars
  <2> QED
    BY <2>1, <1>3, KeptContent, Zenon DEF ScanInv
<1> QED
  BY <1>4, <1>5, <1>6, <1>7, ExecutesKeeps, Zenon DEF ScanInv, ItemsInv

LEMMA CollectKeeps ==
  ASSUME ScanInv, NEW h \in Helpers, CollectPointers(h)
  PROVE  ScanInv'
<1> DEFINE e == [dele[h] EXCEPT !.collstate = "running"]
           d == IF mpc = "begin" \/ e.size > 0 THEN SignalDelegate(e) ELSE e
           items == SubSeq(d.items, 1, d.size)
<1>1. /\ e \in Delegates /\ e.size = dele[h].size /\ e.items = dele[h].items
      /\ e.collector_done = dele[h].collector_done /\ e.delegate_done = dele[h].delegate_done
  BY DelegateFacts, Zenon DEF ScanInv, Types
<1> HIDE DEF e
<1>2. /\ d \in Delegates /\ d.size = dele[h].size /\ d.items = dele[h].items
      /\ d.collector_done = dele[h].collector_done /\ d.delegate_done = dele[h].delegate_done
  BY <1>1, DelegateFacts, Zenon
<1>3. /\ UNCHANGED <<state, hpc, start, open, scanVars>> /\ h \in open
      /\ mpc \in {"begin", "collect"} /\ at = h
      /\ \/ /\ d.size = 0 /\ mpc' = "collect" /\ at' = h /\ UNCHANGED markerVars
            /\ dele' = [dele EXCEPT ![h] = [d EXCEPT !.collstate = "waiting"]]
         \/ /\ d.size < 0 /\ mpc' = "exec" /\ eof' = [eof EXCEPT ![h] = TRUE] /\ UNCHANGED <<rest, got>>
            /\ dele' = [dele EXCEPT ![h] = d]
         \/ /\ d.size > 0 /\ mpc' = "exec" /\ UNCHANGED eof
            /\ dele' = [dele EXCEPT ![h] = TakeThem(d)]
            /\ got' = [got EXCEPT ![h] = Append(got[h], Head(items))]
            /\ rest' = [rest EXCEPT ![h] = Tail(items)]
  BY Zenon DEF CollectPointers, e, ScanInv, MainInv
<1>4. rest[h] = <<>> /\ ~dele[h].collector_done
  BY <1>3, Zenon DEF CollectPointers, ScanInv, MainInv
<1>5. /\ Given(h) /\ Pending(h) /\ HelperInv(h) /\ dele[h].size \in Int
      /\ got[h] \in Seq(Nat) /\ Len(got[h]) \in Nat /\ Taken(h) = Len(got[h])
  <2>1. Given(h) /\ Pending(h) /\ HelperInv(h)
    BY <1>3, <1>4, Zenon DEF ScanInv, Content
  <2>2. got[h] \in Seq(Nat) /\ Len(got[h]) \in Nat /\ dele[h].size \in Int /\ Len(rest[h]) = 0
    BY <1>4, LenProperties, Zenon DEF ScanInv, Types, Delegates
  <2> QED
    BY <2>1, <2>2, SMTT(30) DEF Taken
<1> HIDE DEF d, items
<1>6. CASE /\ d.size = 0 /\ mpc' = "collect" /\ at' = h /\ UNCHANGED markerVars
           /\ dele' = [dele EXCEPT ![h] = [d EXCEPT !.collstate = "waiting"]]
  <2>1. /\ [d EXCEPT !.collstate = "waiting"] \in Delegates
        /\ [d EXCEPT !.collstate = "waiting"].size = d.size
        /\ [d EXCEPT !.collstate = "waiting"].items = d.items
        /\ [d EXCEPT !.collstate = "waiting"].collector_done = d.collector_done
        /\ [d EXCEPT !.collstate = "waiting"].delegate_done = d.delegate_done
    BY <1>2, DelegateFacts, Zenon
  <2>2. /\ dele'[h].size = dele[h].size /\ dele'[h].items = dele[h].items
        /\ dele'[h].collector_done = dele[h].collector_done
        /\ dele'[h].delegate_done = dele[h].delegate_done
    BY <2>1, <1>2, <1>6, Zenon DEF ScanInv, Types
  <2>3. Executes(h)
    BY <2>1, <1>3, <1>6, Zenon DEF ScanInv, Types, Executes, Untouched, scanVars, markerVars
  <2>4. MainInv'
    BY <2>2, <2>3, <1>3, <1>4, <1>6, Zenon DEF ScanInv, Types, MainInv, Executes, Untouched, markerVars, InTransaction
  <2>5. Kept(h)
    BY <2>2, <1>3, <1>4, <1>6, Zenon DEF Kept, Begins, Dropped, scanVars, markerVars
  <2> QED
    BY <2>2, <2>3, <2>4, <2>5, <1>3, KeptContent, ExecutesKeeps, Zenon DEF ScanInv, ItemsInv
<1>7. CASE /\ d.size < 0 /\ mpc' = "exec" /\ eof' = [eof EXCEPT ![h] = TRUE] /\ UNCHANGED <<rest, got>>
           /\ dele' = [dele EXCEPT ![h] = d]
  <2>2. dele'[h] = d /\ eof'[h]
    BY <1>7, Zenon DEF ScanInv, Types
  <2>3. Executes(h)
    BY <1>2, <1>3, <1>7, Zenon DEF ScanInv, Types, Executes, Untouched, scanVars
  <2>4. MainInv'
    BY <2>2, <2>3, <1>2, <1>3, <1>4, <1>7, Zenon DEF ScanInv, Types, MainInv, Executes, Untouched, InTransaction
  <2>5. Taken(h)' = Taken(h) /\ Sent(h)' = Sent(h)
    <3>1. Taken(h)' = Taken(h)
      BY <1>7, Zenon DEF Taken
    <3> QED
      BY <3>1, <2>2, <1>2, Zenon DEF Sent
  <2>6. Taken(h) = NTuples[h]
    BY <1>2, <1>5, <1>7, Zenon DEF Pending
  <2>a. Lost(h)' = Lost(h)
    BY <2>2, <1>2, <1>3, Zenon DEF Lost, Dropped
  <2>7. Given(h)'
    BY <2>a, <2>2, <2>6, <1>2, <1>4, <1>5, <1>7, Zenon DEF Given
  <2>8. Pending(h)'
    BY <2>a, <2>2, <2>5, <1>2, <1>5, <1>7, ZenonT(60) DEF Pending
  <2>9. HelperInv(h)'
    BY <2>2, <2>5, <1>2, <1>3, <1>5, Zenon DEF HelperInv, Begins, scanVars
  <2>10. Content(h)'
    BY <2>7, <2>8, <2>9, Zenon DEF Content
  <2> QED
    BY <2>2, <2>3, <2>4, <2>10, <1>2, ExecutesKeeps, Zenon DEF ScanInv, ItemsInv
<1>8. CASE /\ d.size > 0 /\ mpc' = "exec" /\ UNCHANGED eof
           /\ dele' = [dele EXCEPT ![h] = TakeThem(d)]
           /\ got' = [got EXCEPT ![h] = Append(got[h], Head(items))]
           /\ rest' = [rest EXCEPT ![h] = Tail(items)]
  <2>1. /\ TakeThem(d) \in Delegates /\ TakeThem(d).size = 0 /\ TakeThem(d).items = dele[h].items
        /\ TakeThem(d).collector_done = dele[h].collector_done
        /\ TakeThem(d).delegate_done = dele[h].delegate_done
    BY <1>2 DEF TakeThem, Delegates
  <2>2. dele'[h] = TakeThem(d)
    BY <1>8, Zenon DEF ScanInv, Types
  <2>a. /\ Lost(h) \in BOOLEAN /\ Lost(h)' = Lost(h) /\ 0 \in Nat
        /\ d.size \in Int /\ 0 < d.size
    <3>1. d.size \in Int /\ 0 < d.size /\ 0 \in Nat
      BY <1>2, <1>8 DEF Delegates
    <3>2. (d.size >= 0) /\ (TakeThem(d).size >= 0)
      BY <3>1, <2>1, SMTT(30)
    <3> QED
      BY <3>1, <3>2, <2>1, <2>2, <1>2, <1>3, Zenon DEF Lost, Dropped
  <2>3. items \in Seq(Nat) /\ Len(items) = dele[h].size /\ Right(items, Len(got[h]), Lost(h)) /\ items # <<>>
    <3>1. /\ d.items \in Seq(Nat) /\ d.size \in Int /\ 0 < d.size /\ d.size <= Len(d.items)
          /\ \A i \in 1 .. d.size : d.items[i] = Len(got[h]) + i \/ (Lost(h) /\ d.items[i] = Freed)
      BY <2>a, <1>2, <1>5, <1>8, Zenon DEF Pending, Delegates
    <3>2. /\ SubSeq(d.items, 1, d.size) \in Seq(Nat) /\ Len(SubSeq(d.items, 1, d.size)) = d.size
          /\ Right(SubSeq(d.items, 1, d.size), Len(got[h]), Lost(h)) /\ SubSeq(d.items, 1, d.size) # <<>>
      BY <2>a, <3>1, <1>5, ItemsRight, ZenonT(60)
    <3> QED
      BY <3>2, <1>2, Zenon DEF items
  <2> DEFINE g == Append(got[h], Head(items))
             r == Tail(items)
  <2>4. /\ Head(items) = Len(got[h]) + 1 \/ (Lost(h) /\ Head(items) = Freed)
        /\ Head(items) \in Nat /\ r \in Seq(Nat) /\ Len(r) = dele[h].size - 1
        /\ Right(r, Len(got[h]) + 1, Lost(h))
    BY <2>a, <2>3, <1>5, RightTail, SMTT(30)
  <2>5. g \in Seq(Nat) /\ Len(g) = Len(got[h]) + 1 /\ Right(g, 0, Lost(h))
    <3>1. Right(got[h], 0, Lost(h))
      BY <1>5, Zenon DEF Given
    <3>2. Len(got[h]) + 1 = 0 + Len(got[h]) + 1
      BY <1>5
    <3>3. Head(items) = 0 + Len(got[h]) + 1 \/ (Lost(h) /\ Head(items) = Freed)
      BY <2>4, <3>2, Zenon
    <3> QED
      BY <2>a, <2>4, <3>1, <3>3, <1>5, RightAppended, Zenon
  <2> HIDE DEF g, r
  <2>6. got' = [got EXCEPT ![h] = g] /\ rest' = [rest EXCEPT ![h] = r]
    BY <1>8, Zenon DEF g, r
  <2>7. got'[h] = g /\ rest'[h] = r
    BY <2>6, Zenon DEF ScanInv, Types
  <2>8. Executes(h)
    BY <2>1, <2>4, <2>5, <2>6, <1>3, <1>8, SMTT(30) DEF ScanInv, Types, Executes, Untouched, scanVars
  <2>9. MainInv'
    BY <2>1, <2>2, <2>8, <1>3, <1>4, <1>8, Zenon DEF ScanInv, Types, MainInv, Executes, Untouched, InTransaction
  <2>10. Taken(h)' = Taken(h) + dele[h].size
    <3>1. Taken(h)' = Len(g) + Len(r)
      BY <2>7, Zenon DEF Taken
    <3>2. \A a \in Nat, b \in Int : (a + 1) + (b - 1) = a + b
      OBVIOUS
    <3> QED
      BY <3>1, <3>2, <2>4, <2>5, <1>5, Zenon
  <2>11. Sent(h)' = Sent(h)
    BY <2>1, <2>2, <2>10, <1>2, <1>5, <1>8 DEF Sent
  <2>12. ~eof[h] /\ eof'[h] = eof[h]
    <3>1. eof[h] => dele[h].size < 0
      BY <1>5, Zenon DEF Given
    <3>2. dele[h].size \in Int /\ 0 < dele[h].size
      BY <1>2, <1>8, Zenon DEF Delegates
    <3> QED
      BY <3>1, <3>2, <1>8, SMTT(30)
  <2>13. Given(h)'
    BY <2>a, <2>4, <2>5, <2>7, <2>12, Zenon DEF Given
  <2>14. 0 <= Len(dele[h].items)
    BY LenProperties, SMTT(30) DEF ScanInv, Types, Delegates
  <2>15. Pending(h)'
    <3>1. ~dele'[h].delegate_done
      BY <2>1, <2>2, <1>5, Zenon DEF Pending
    <3> QED
      BY <3>1, <2>1, <2>2, <2>14, SMTT(30) DEF Pending
  <2>16. HelperInv(h)'
    BY <2>1, <2>2, <2>11, <1>2, <1>3, <1>5, <1>8, SMTT(30) DEF HelperInv, Begins, scanVars
  <2>17. Content(h)'
    BY <2>13, <2>15, <2>16, Zenon DEF Content
  <2> QED
    <3>1. 0 <= dele'[h].size /\ dele'[h].size <= Len(dele'[h].items)
      BY <2>1, <2>2, <2>14
    <3> QED
      BY <2>8, <2>9, <2>17, <3>1, ExecutesKeeps, Zenon
<1> QED
  BY <1>3, <1>6, <1>7, <1>8, Zenon
-----------------------------------------------------------------------------
LEMMA ScanStep == ScanInv /\ [Next]_vars => ScanInv'
<1> SUFFICES ASSUME ScanInv, [Next]_vars PROVE ScanInv'
  BY Zenon
<1>1. ASSUME NEW h \in Helpers, HelperStep(h) \/ HeapPointerTranfer(h) \/ HelperFails(h)
      PROVE  ScanInv'
  BY <1>1, LoopMoves, PlaceMoves, MovesKeeps, CommandKeeps, CloneKeeps, HeapKeeps, TransferKeeps, DoneKeeps,
     Zenon
     DEF HelperStep
<1>2. ASSUME NEW h \in Helpers,
             \/ DelegatedScanStart(h) \/ DelegatedScanNext(h) \/ CollectPointers(h)
             \/ DelegatedScanEnd(h)
      PROVE  ScanInv'
  BY <1>2, StartKeeps, NextKeeps, CollectKeeps, ScanEndKeeps, Zenon
<1>3. CASE \/ \E h \in Helpers : CollectBegins(h)
           \/ EndTransaction \/ CollectWaitCancelled \/ WCancel
           \/ CancelDolHelpers \/ CancelGoesOn \/ TransactionEnded \/ NextStatement
           \/ ShutdownDolHelpers \/ StopDolConnection \/ DestroyDolConnection
  BY <1>3, EndKeeps, Zenon
<1>4. CASE UNCHANGED vars
  <2>1. Commands /\ SlotInv' /\ MainInv'
    BY <1>4, Zenon DEF vars, helperVars, ScanInv, Types, SlotInv, MainInv, Commands, markerVars,
       InTransaction
  <2> QED
    BY <2>1, CommandsKeeps, Zenon
<1> QED
  BY <1>1, <1>2, <1>3, <1>4, Zenon DEF Next

\* The executor gets the tuples of a delegated scan in the order of the scan, and
\* DelegatedScanNext returns false only after the last one; what it may get besides,
\* from a helper that dropped the scan, is freed memory, and then DelegatedScanNext
\* never returns false.  For any number of helpers, tuples, pointers in a hand-over,
\* scans, errors and cancels.
THEOREM ScansExact == Spec => []ScanExact
<1>1. ScanInv => ScanExact
  <2> SUFFICES ASSUME ScanInv, NEW h \in open
               PROVE  /\ \A i \in 1 .. Len(got[h]) :
                           got[h][i] = i \/ (got[h][i] = Freed /\ Dropped(h) /\ ~eof[h])
                      /\ eof[h] => Len(got[h]) = NTuples[h]
    BY Zenon DEF ScanExact
  <2>1. Given(h) /\ dele[h].size \in Int
    BY Zenon DEF ScanInv, Types, Content, Delegates
  <2>2. Lost(h) => Dropped(h) /\ ~eof[h]
    <3>1. dele[h].size >= 0 => ~(dele[h].size < 0)
      BY <2>1
    <3> QED
      BY <2>1, <3>1, Zenon DEF Lost, Given
  <2>3. \A i \in 1 .. Len(got[h]) : 0 + i = i
    OBVIOUS
  <2> QED
    BY <2>1, <2>2, <2>3, Zenon DEF Given, Right
<1> QED
  BY <1>1, ScanInitial, ScanStep, PTL DEF Spec
-----------------------------------------------------------------------------
(* The helpers and the main thread's requests to stop.                     *)

\* The helper works on the Delegate, or will when it gets to run.
Live(h) == hpc[h] \in Working \/ hpc[h] = "init" \/ (hpc[h] = "asleep" /\ hwake[h] /\ start[h])

Quiet(h) == state[h] \in {"none", "waiting"} /\ hpc[h] \in {"none", "asleep"} /\ ~hwake[h]

\* What a helper's state says of the helper and of the main thread.
StateOf(h) ==
  /\ Live(h) => h \in open /\ ~dele[h].delegate_done
  /\ state[h] = "none" => hpc[h] = "none" /\ ~hwake[h]
  /\ state[h] = "waiting" => hpc[h] = "asleep" /\ ~hwake[h]
  /\ hpc[h] \in {"gone", "init"} => ~hwake[h]
  /\ state[h] = "mainwaiting" => mpc = "stopwait" /\ at = h

\* How far CancelDolHelpers has come.
CancelInv ==
  /\ mpc = "stop" => ~mwake
  /\ mpc = "stopwait" => at \in Helpers /\ (mwake => state[at] = "waiting")
  /\ mpc \in {"stop", "stopwait"} => \A h \in Helpers : h < at => Quiet(h)
  /\ mpc = "ended" => \A h \in Helpers : Quiet(h)

WakeTypes == hwake \in [Helpers -> BOOLEAN] /\ mwake \in BOOLEAN /\ at \in Nat

StopInv == WakeTypes /\ CancelInv /\ \A h \in Helpers : StateOf(h)

LEMMA StopInitial == Init => StopInv
<1> SUFFICES ASSUME Init PROVE StopInv
  BY Zenon
<1>1. WakeTypes /\ CancelInv
  BY Zenon DEF Init, WakeTypes, CancelInv
<1>2. ASSUME NEW h \in Helpers PROVE StateOf(h)
  <2>1. state[h] = "none" /\ hpc[h] = "none" /\ hwake[h] = FALSE
    BY Zenon DEF Init
  <2> QED
    BY <2>1, Zenon DEF StateOf, Live, Working
<1> QED
  BY <1>1, <1>2, Zenon DEF StopInv

\* The variables of StateOf that a step does not change for a helper.
Unmoved(u) ==
  /\ state'[u] = state[u] /\ hpc'[u] = hpc[u] /\ hwake'[u] = hwake[u] /\ start'[u] = start[u]
  /\ dele'[u].delegate_done = dele[u].delegate_done

\* A step of helper h; it wakes the main thread only from a wait for h.
Turns(h) ==
  /\ UNCHANGED <<mpc, at, open>> /\ mwake' \in BOOLEAN /\ hwake' \in [Helpers -> BOOLEAN]
  /\ \A u \in Helpers : u # h => Unmoved(u)
  /\ ~Quiet(h) /\ state'[h] \notin {"none"} /\ (state'[h] = "mainwaiting" => state[h] = "mainwaiting")
  /\ mwake' => \/ mwake \/ mpc \in {"collect", "ending"}
               \/ state[h] = "mainwaiting" /\ state'[h] = "waiting"

LEMMA TurnsKeeps ==
  ASSUME StopInv, NEW h \in Helpers, Turns(h),
         Live(h)' => Live(h) /\ (dele'[h].delegate_done => dele[h].delegate_done),
         state'[h] = "waiting" => hpc'[h] = "asleep" /\ ~hwake'[h],
         hpc'[h] \in {"gone", "init"} => ~hwake'[h]
  PROVE  StopInv'
<1>1. WakeTypes'
  BY Zenon DEF StopInv, WakeTypes, Turns
<1>2. ASSUME NEW u \in Helpers PROVE StateOf(u)'
  <2>1. CASE u = h
    BY <2>1, Zenon DEF StopInv, StateOf, Turns
  <2>2. CASE u # h
    BY <2>2, ZenonT(60) DEF StopInv, StateOf, Turns, Unmoved, Live
  <2> QED
    BY <2>1, <2>2, Zenon
<1>3. CancelInv'
  <2>1. ASSUME NEW u \in Helpers, Quiet(u) PROVE Quiet(u)'
    BY <2>1, Zenon DEF Turns, Unmoved, Quiet
  <2>2. mpc = "stop" => ~mwake'
    BY Zenon DEF StopInv, CancelInv, StateOf, Turns
  <2>3. ASSUME mpc = "stopwait", mwake' PROVE state'[at] = "waiting"
    <3>1. at \in Helpers
      BY <2>3, Zenon DEF StopInv, CancelInv
    <3>2. CASE mwake
      <4>1. Quiet(at)
        BY <2>3, <3>1, <3>2, Zenon DEF StopInv, CancelInv, StateOf, Quiet
      <4> QED
        BY <2>3, <3>1, <3>2, <4>1, Zenon DEF StopInv, CancelInv, Turns, Unmoved
    <3>3. CASE ~mwake
      BY <2>3, <3>1, <3>3, Zenon DEF StopInv, StateOf, Turns
    <3> QED
      BY <3>2, <3>3, Zenon
  <2> QED
    BY <2>1, <2>2, <2>3, Zenon DEF StopInv, CancelInv, Turns
<1> QED
  BY <1>1, <1>2, <1>3, Zenon DEF StopInv

\* What TurnsKeeps needs of the step.
Answers(h) ==
  /\ Turns(h)
  /\ Live(h)' => Live(h) /\ (dele'[h].delegate_done => dele[h].delegate_done)
  /\ state'[h] = "waiting" => hpc'[h] = "asleep" /\ ~hwake'[h]
  /\ hpc'[h] \in {"gone", "init"} => ~hwake'[h]

LEMMA LoopAnswers ==
  ASSUME ScanInv, StopInv, NEW h \in Helpers,
         InitDolConnection(h) \/ HelperWakes(h) \/ CommandDone(h) \/ HelperLoops(h)
  PROVE  Answers(h)
<1>1. /\ state \in [Helpers -> DolStates] /\ hpc \in [Helpers -> Places]
      /\ start \in [Helpers -> BOOLEAN] /\ WakeTypes /\ StateOf(h)
      /\ hpc[h] = "loop" => ~start[h]
      /\ state[h] = "primed" => hpc[h] = "init" \/ (hpc[h] = "asleep" /\ start[h])
      /\ state[h] = "none" => hpc[h] = "none"
  BY Zenon DEF ScanInv, Types, SlotInv, StopInv
<1> USE DEF Answers, Turns, Unmoved, Quiet, Live, Working, WakeTypes, StateOf, Goto
<1>2. CASE CommandDone(h)
  <2>1. dele \in [Helpers -> Delegates]
    BY Zenon DEF ScanInv, Types
  <2>2. \A u \in Helpers : dele'[u].delegate_done = dele[u].delegate_done
    BY <2>1, <1>2, FreeFacts, ZenonT(60) DEF CommandDone
  <2> QED
    BY <2>2, <1>1, <1>2, Zenon DEF CommandDone
<1>3. CASE HelperWakes(h) /\ start[h]
  BY <1>1, <1>3, Zenon DEF HelperWakes
<1>4. CASE Top(h) /\ UNCHANGED <<start, mpc, at, open, dele>>
           /\ (hpc[h] \in {"init", "loop"} \/ (hpc[h] = "asleep" /\ hwake[h] /\ ~start[h]))
  BY <1>1, <1>4, Zenon DEF Top
<1> QED
  BY <1>2, <1>3, <1>4, Zenon DEF InitDolConnection, HelperWakes, HelperLoops

LEMMA ScanAnswers ==
  ASSUME ScanInv, StopInv, NEW h \in Helpers,
         \/ CloneTransactionEvironment(h) \/ DolHeapDelegation(h) \/ HeapPointerTranfer(h)
         \/ CheckForCancel(h) \/ DelegateWaitCancelled(h) \/ HelperFails(h)
  PROVE  Answers(h)
<1>1. /\ hpc \in [Helpers -> Places] /\ WakeTypes /\ StateOf(h)
      /\ state[h] = "none" => hpc[h] = "none"
  BY Zenon DEF ScanInv, Types, SlotInv, StopInv
<1> USE DEF Answers, Turns, Unmoved, Quiet, Live, Working, WakeTypes, StateOf, Goto
<1>2. CASE CloneTransactionEvironment(h)
  BY <1>1, <1>2, Zenon DEF CloneTransactionEvironment
<1>3. CASE DolHeapDelegation(h)
  BY <1>1, <1>3, Zenon DEF DolHeapDelegation
<1>4. CASE HeapPointerTranfer(h) \/ CheckForCancel(h) \/ HelperFails(h)
  <2>1. CASE HeapPointerTranfer(h)
    BY <1>1, <2>1, Zenon DEF HeapPointerTranfer
  <2>2. CASE CheckForCancel(h)
    BY <1>1, <2>2, Zenon DEF CheckForCancel
  <2>3. CASE HelperFails(h)
    BY <1>1, <2>3, Zenon DEF HelperFails
  <2> QED
    BY <1>4, <2>1, <2>2, <2>3, Zenon
<1>5. CASE DelegateWaitCancelled(h)
  BY <1>1, <1>5, Zenon DEF DelegateWaitCancelled
<1> QED
  BY <1>2, <1>3, <1>4, <1>5, Zenon

LEMMA DelegateAnswers ==
  ASSUME ScanInv, StopInv, NEW h \in Helpers, DelegatedTransferPointers(h) \/ DelegatedDone(h)
  PROVE  Answers(h)
<1> DEFINE d == [dele[h] EXCEPT !.delestate = "running"]
           e == SignalCollector(MarkEnd(d))
<1>1. /\ hpc \in [Helpers -> Places] /\ WakeTypes /\ StateOf(h)
      /\ dele \in [Helpers -> Delegates] /\ (state[h] = "none" => hpc[h] = "none")
  BY Zenon DEF ScanInv, Types, SlotInv, StopInv
<1>2. /\ UNCHANGED <<state, start, mpc, at, open>> /\ hwake' = [hwake EXCEPT ![h] = FALSE]
      /\ hpc[h] \in {"transfer", "full", "finish", "donewait"}
      /\ \E x \in {"scan", "full", "finish", "donewait", "tail"} : hpc' = [hpc EXCEPT ![h] = x]
      /\ mwake' = mwake \/ mwake' = (mwake \/ WakesCollector(h))
  BY Zenon DEF DelegatedTransferPointers, DelegatedDone, Goto
<1>3. d \in Delegates /\ d.delegate_done = dele[h].delegate_done
  BY <1>1, DelegateFacts, DoneField, Zenon
<1>4. MarkEnd(d) \in Delegates /\ MarkEnd(d).delegate_done = d.delegate_done
  BY <1>3, DoneField, Zenon
<1>5. e \in Delegates /\ e.delegate_done = d.delegate_done
  BY <1>4, DelegateFacts, DoneField, Zenon
<1>6. \/ dele' = dele
      \/ dele' = [dele EXCEPT ![h] = [d EXCEPT !.delestate = "waiting"]]
      \/ dele' = [dele EXCEPT ![h] = SignalCollector(Move(d, local[h]))]
      \/ dele' = [dele EXCEPT ![h] = [e EXCEPT !.delestate = "waiting"]]
      \/ /\ dele' = [dele EXCEPT ![h] = SignalCollector([d EXCEPT !.items = <<>>, !.delegate_done = TRUE])]
         /\ hpc' = [hpc EXCEPT ![h] = "tail"]
  BY Zenon DEF DelegatedTransferPointers, DelegatedDone, Goto
<1>7. /\ [d EXCEPT !.delestate = "waiting"].delegate_done = dele[h].delegate_done
      /\ SignalCollector(Move(d, local[h])).delegate_done = dele[h].delegate_done
      /\ [e EXCEPT !.delestate = "waiting"].delegate_done = dele[h].delegate_done
  <2> HIDE DEF d, e
  <2> QED
    BY <1>3, <1>5, DoneField
<1> HIDE DEF d, e
<1>8. /\ \A u \in Helpers : u # h => dele'[u] = dele[u]
      /\ hpc'[h] # "tail" => dele'[h].delegate_done = dele[h].delegate_done
  BY <1>1, <1>6, <1>7, Zenon
<1>9. /\ hpc'[h] \in {"scan", "full", "finish", "donewait", "tail"} /\ hwake'[h] = FALSE
      /\ hwake' \in [Helpers -> BOOLEAN]
      /\ \A u \in Helpers : u # h => hpc'[u] = hpc[u] /\ hwake'[u] = hwake[u]
  BY <1>1, <1>2, Zenon DEF WakeTypes
<1>10. mwake' \in BOOLEAN /\ (mwake' => mwake \/ mpc \in {"collect", "ending"})
  <2>1. mwake \in BOOLEAN /\ (WakesCollector(h) => mpc \in {"collect", "ending"})
    BY <1>1, Zenon DEF WakeTypes, WakesCollector
  <2>2. CASE mwake' = mwake
    BY <2>1, <2>2, Zenon
  <2>3. CASE mwake' = (mwake \/ WakesCollector(h))
    <3>1. (mwake \/ WakesCollector(h)) \in BOOLEAN
      BY Zenon
    <3> QED
      BY <2>1, <2>3, <3>1, Zenon
  <2> QED
    BY <1>2, <2>2, <2>3, Zenon
<1>11. Turns(h)
  BY <1>1, <1>2, <1>8, <1>9, <1>10, Zenon DEF Turns, Unmoved, Quiet, StateOf
<1> QED
  BY <1>1, <1>2, <1>8, <1>9, <1>11, Zenon DEF Answers, Live, Working, StateOf

Executing == {"exec", "begin", "collect", "ending"}

\* A step of the executor on the scan of helper h, which at most wakes the helper
\* from a wait on the Delegate, and ends the scan only if the helper has left.
Attends(h) ==
  /\ mpc \in Executing /\ mpc' \in Executing /\ WakeTypes'
  /\ UNCHANGED <<state, hpc, start>>
  /\ \A u \in Helpers : dele'[u].delegate_done = dele[u].delegate_done
  /\ \A u \in Helpers : hwake'[u] = hwake[u] \/ hpc[u] \in {"full", "donewait"}
  /\ open' = open \/ (open' = open \ {h} /\ dele[h].delegate_done)

LEMMA AttendsKeeps ==
  ASSUME StopInv, NEW h \in Helpers, Attends(h)
  PROVE  StopInv'
<1>1. CancelInv'
  BY Zenon DEF Attends, Executing, CancelInv
<1>2. ASSUME NEW u \in Helpers PROVE StateOf(u)'
  <2>1. StateOf(u) /\ state[u] # "mainwaiting"
    BY Zenon DEF StopInv, StateOf, Attends, Executing
  <2>2. hwake'[u] = hwake[u] \/ hpc[u] \in {"full", "donewait"}
    BY Zenon DEF Attends
  <2>3. Live(u)' => Live(u)
    BY <2>2, Zenon DEF Attends, Live, Working
  <2> QED
    BY <2>1, <2>2, <2>3, Zenon DEF StateOf, Attends
<1> QED
  BY <1>1, <1>2, Zenon DEF StopInv, Attends

LEMMA WakeOne ==
  ASSUME NEW w \in [Helpers -> BOOLEAN], NEW b \in BOOLEAN, NEW h \in Helpers
  PROVE  /\ [w EXCEPT ![h] = @ \/ b] \in [Helpers -> BOOLEAN]
         /\ \A u \in Helpers : u # h \/ ~b => [w EXCEPT ![h] = @ \/ b][u] = w[u]
BY Zenon

LEMMA ExecutorStops ==
  ASSUME ScanInv, StopInv, NEW h \in Helpers,
         DelegatedScanNext(h) \/ CollectBegins(h) \/ CollectPointers(h) \/ DelegatedScanEnd(h)
  PROVE  StopInv'
<1>1. /\ dele \in [Helpers -> Delegates] /\ WakeTypes /\ h \in Nat
  BY SMTT(30) DEF ScanInv, Types, StopInv, Helpers
<1>2. CASE DelegatedScanNext(h) \/ CollectBegins(h)
  BY <1>1, <1>2, AttendsKeeps, Zenon
     DEF DelegatedScanNext, CollectBegins, helperVars, Attends, Executing, WakeTypes
<1>3. CASE CollectPointers(h)
  <2> DEFINE e == [dele[h] EXCEPT !.collstate = "running"]
             d == IF mpc = "begin" \/ e.size > 0 THEN SignalDelegate(e) ELSE e
  <2>1. e \in Delegates /\ e.delegate_done = dele[h].delegate_done
    BY <1>1, DelegateFacts, DoneField, Zenon
  <2>2. d \in Delegates /\ d.delegate_done = dele[h].delegate_done
    <3> HIDE DEF e
    <3> QED
      BY <2>1, DelegateFacts, DoneField, Zenon
  <2>3. /\ \/ dele' = [dele EXCEPT ![h] = [d EXCEPT !.collstate = "waiting"]]
           \/ dele' = [dele EXCEPT ![h] = d] \/ dele' = [dele EXCEPT ![h] = TakeThem(d)]
        /\ hwake' = [hwake EXCEPT ![h] = @ \/ (d # e /\ WakesDelegate(h))]
        /\ mpc \in Executing /\ mpc' \in Executing /\ at' \in {0, h} /\ mwake' = FALSE
        /\ UNCHANGED <<state, hpc, start, open>>
    BY <1>3, Zenon DEF CollectPointers, Executing
  <2> HIDE DEF e, d
  <2>4. /\ [d EXCEPT !.collstate = "waiting"].delegate_done = dele[h].delegate_done
        /\ TakeThem(d).delegate_done = dele[h].delegate_done
    BY <2>2, DoneField, Zenon DEF TakeThem, Delegates
  <2>5. \A u \in Helpers : dele'[u].delegate_done = dele[u].delegate_done
    BY <1>1, <2>2, <2>3, <2>4, Zenon
  <2>6. WakeTypes' /\ \A u \in Helpers : hwake'[u] = hwake[u] \/ hpc[u] \in {"full", "donewait"}
    <3> DEFINE b == d # e /\ WakesDelegate(h)
    <3>1. b \in BOOLEAN /\ (b => hpc[h] \in {"full", "donewait"})
      BY Zenon DEF WakesDelegate
    <3>2. hwake' = [hwake EXCEPT ![h] = @ \/ b] /\ at' \in {0, h} /\ mwake' = FALSE
      BY <2>3, Zenon
    <3> HIDE DEF b
    <3>3. hwake \in [Helpers -> BOOLEAN]
      BY <1>1, Zenon DEF WakeTypes
    <3>4. /\ hwake' \in [Helpers -> BOOLEAN]
          /\ \A u \in Helpers : u # h \/ ~b => hwake'[u] = hwake[u]
      BY <3>1, <3>2, <3>3, WakeOne, Zenon
    <3>5. WakeTypes'
      <4>1. at' \in Nat
        BY <1>1, <3>2
      <4>2. mwake' \in BOOLEAN
        BY <3>2, Zenon
      <4> QED
        BY <3>4, <4>1, <4>2, Zenon DEF WakeTypes
    <3> QED
      BY <3>1, <3>4, <3>5, Zenon
  <2> QED
    BY <2>3, <2>5, <2>6, AttendsKeeps, Zenon DEF Attends
<1>4. CASE DelegatedScanEnd(h)
  <2> DEFINE e == [dele[h] EXCEPT !.collstate = "running", !.collector_done = TRUE]
             d == IF mpc = "exec" THEN SignalDelegate(e) ELSE e
  <2>1. e \in Delegates /\ e.delegate_done = dele[h].delegate_done
    BY <1>1, Zenon DEF Delegates
  <2>2. d \in Delegates /\ d.delegate_done = dele[h].delegate_done
    <3> HIDE DEF e
    <3> QED
      BY <2>1, DelegateFacts, DoneField, Zenon
  <2>3. /\ \/ dele' = [dele EXCEPT ![h] = [d EXCEPT !.collstate = "waiting"]] /\ open' = open
           \/ dele' = [dele EXCEPT ![h] = d] /\ open' = open \ {h} /\ d.delegate_done
        /\ hwake' = [hwake EXCEPT ![h] = @ \/ (d # e /\ WakesDelegate(h))]
        /\ mpc \in Executing /\ mpc' \in Executing /\ at' \in {0, h} /\ mwake' = FALSE
        /\ UNCHANGED <<state, hpc, start>>
    BY <1>4, Zenon DEF DelegatedScanEnd, Executing, Left
  <2> HIDE DEF e, d
  <2>4. [d EXCEPT !.collstate = "waiting"].delegate_done = dele[h].delegate_done
    BY <2>2, DoneField, Zenon
  <2>5. \A u \in Helpers : dele'[u].delegate_done = dele[u].delegate_done
    BY <1>1, <2>2, <2>3, <2>4, Zenon
  <2>6. WakeTypes' /\ \A u \in Helpers : hwake'[u] = hwake[u] \/ hpc[u] \in {"full", "donewait"}
    <3> DEFINE b == d # e /\ WakesDelegate(h)
    <3>1. b \in BOOLEAN /\ (b => hpc[h] \in {"full", "donewait"})
      BY Zenon DEF WakesDelegate
    <3>2. hwake' = [hwake EXCEPT ![h] = @ \/ b] /\ at' \in {0, h} /\ mwake' = FALSE
      BY <2>3, Zenon
    <3> HIDE DEF b
    <3>3. hwake \in [Helpers -> BOOLEAN]
      BY <1>1, Zenon DEF WakeTypes
    <3>4. /\ hwake' \in [Helpers -> BOOLEAN]
          /\ \A u \in Helpers : u # h \/ ~b => hwake'[u] = hwake[u]
      BY <3>1, <3>2, <3>3, WakeOne, Zenon
    <3>5. WakeTypes'
      <4>1. at' \in Nat
        BY <1>1, <3>2
      <4>2. mwake' \in BOOLEAN
        BY <3>2, Zenon
      <4> QED
        BY <3>4, <4>1, <4>2, Zenon DEF WakeTypes
    <3> QED
      BY <3>1, <3>4, <3>5, Zenon
  <2> QED
    BY <2>2, <2>3, <2>5, <2>6, AttendsKeeps, Zenon DEF Attends
<1> QED
  BY <1>2, <1>3, <1>4, Zenon

LEMMA StartStops ==
  ASSUME ScanInv, StopInv, NEW h \in Helpers, DelegatedScanStart(h)
  PROVE  StopInv'
<1>1. /\ state \in [Helpers -> DolStates] /\ hpc \in [Helpers -> Places]
      /\ start \in [Helpers -> BOOLEAN] /\ dele \in [Helpers -> Delegates] /\ WakeTypes
      /\ mpc = "exec" /\ mpc' = "exec" /\ mwake' = mwake /\ at' = at /\ open' = open \cup {h}
      /\ hwake' = [hwake EXCEPT ![h] = (state[h] = "waiting")]
      /\ hpc' = [hpc EXCEPT ![h] = IF state[h] = "none" THEN "init" ELSE @]
      /\ start' = [start EXCEPT ![h] = TRUE] /\ state' = [state EXCEPT ![h] = "primed"]
      /\ dele' = [dele EXCEPT ![h] = NewDelegate] /\ state[h] \in {"none", "waiting"}
  BY Zenon DEF DelegatedScanStart, GetDolConnection, ScanInv, Types, StopInv
<1>2. WakeTypes' /\ CancelInv'
  BY <1>1, Zenon DEF WakeTypes, CancelInv
<1>3. ASSUME NEW u \in Helpers, u # h PROVE StateOf(u)'
  BY <1>1, <1>3, Zenon DEF StopInv, StateOf, Live, WakeTypes
<1>4. StateOf(h)'
  BY <1>1, Zenon DEF StopInv, StateOf, NewDelegate, WakeTypes
<1> QED
  BY <1>2, <1>3, <1>4, Zenon DEF StopInv

\* The steps of CancelDolHelpers.
LEMMA CancelStops ==
  ASSUME ScanInv, StopInv, CancelDolHelpers \/ CancelGoesOn \/ TransactionEnded
  PROVE  StopInv'
<1>1. /\ state \in [Helpers -> DolStates] /\ WakeTypes /\ CancelInv
      /\ \A u \in Helpers : StateOf(u) /\ u \in 1 .. MAX_HELPERS
  BY Zenon DEF ScanInv, Types, StopInv, Helpers
<1>2. UNCHANGED <<hpc, start, hwake>>
  BY Zenon DEF CancelDolHelpers, CancelGoesOn, TransactionEnded, helperVars
<1>3. CASE CancelDolHelpers /\ Idle(at)
  <2>1. /\ mpc = "stop" /\ mpc' = "stop" /\ at \in Helpers /\ at' = at + 1 /\ mwake' = mwake
        /\ open' = open /\ state' = state /\ state[at] \in {"none", "waiting"}
    BY <1>3, Zenon DEF CancelDolHelpers, Idle
  <2>a. dele' = dele
    BY <1>3, Zenon DEF CancelDolHelpers
  <2>2. ASSUME NEW u \in Helpers, u < at' PROVE Quiet(u)
    BY <1>1, <2>1, <2>2, SMTT(30) DEF CancelInv, StateOf, Quiet, WakeTypes
  <2>3. WakeTypes' /\ CancelInv'
    BY <1>1, <1>2, <2>1, <2>2, SMTT(30) DEF WakeTypes, CancelInv, Quiet
  <2>4. \A u \in Helpers : StateOf(u)'
    BY <1>1, <1>2, <2>1, <2>a, Zenon DEF StateOf, Live
  <2> QED
    BY <2>3, <2>4, Zenon DEF StopInv
<1>4. CASE CancelDolHelpers /\ ~Idle(at)
  <2>1. /\ mpc = "stop" /\ mpc' = "stopwait" /\ at \in Helpers /\ at' = at /\ mwake' = mwake
        /\ open' = open /\ state' = [state EXCEPT ![at] = "mainwaiting"]
    BY <1>4, Zenon DEF CancelDolHelpers, Idle
  <2>a. dele' = dele
    BY <1>4, Zenon DEF CancelDolHelpers
  <2>2. ASSUME NEW u \in Helpers, u < at' PROVE Quiet(u)'
    BY <1>1, <1>2, <2>1, <2>2, SMTT(30) DEF CancelInv, Quiet, WakeTypes
  <2>3. WakeTypes' /\ CancelInv'
    BY <1>1, <1>2, <2>1, <2>2, Zenon DEF WakeTypes, CancelInv
  <2>4. \A u \in Helpers : StateOf(u)'
    BY <1>1, <1>2, <2>1, <2>a, Zenon DEF StateOf, Live
  <2> QED
    BY <2>3, <2>4, Zenon DEF StopInv
<1>5. CASE CancelGoesOn
  <2>1. /\ mpc = "stopwait" /\ mwake /\ mpc' = "stop" /\ at' = at + 1 /\ mwake' = FALSE
        /\ open' = open /\ state' = state /\ dele' = dele
    BY <1>5, Zenon DEF CancelGoesOn, helperVars
  <2>2. at \in Helpers /\ state[at] = "waiting"
    BY <1>1, <2>1, Zenon DEF CancelInv
  <2>3. ASSUME NEW u \in Helpers, u < at' PROVE Quiet(u)
    BY <1>1, <2>1, <2>2, <2>3, SMTT(30) DEF CancelInv, StateOf, Quiet, WakeTypes
  <2>4. WakeTypes' /\ CancelInv'
    <3>1. mwake' \in BOOLEAN
      BY <2>1, Zenon
    <3>2. at' \in Nat /\ hwake' \in [Helpers -> BOOLEAN]
      BY <1>1, <1>2, <2>1, SMTT(30) DEF WakeTypes
    <3> QED
      BY <1>2, <2>1, <2>3, <3>1, <3>2, Zenon DEF WakeTypes, CancelInv, Quiet
  <2>5. \A u \in Helpers : StateOf(u)'
    BY <1>1, <1>2, <2>1, <2>2, Zenon DEF StateOf, Live
  <2> QED
    BY <2>4, <2>5, Zenon DEF StopInv
<1>6. CASE TransactionEnded
  <2>1. /\ mpc = "stop" /\ at > MAX_HELPERS /\ mpc' = "ended" /\ at' = 0 /\ mwake' = mwake
        /\ state' = state
    BY <1>6, Zenon DEF TransactionEnded, helperVars
  <2>2. ASSUME NEW u \in Helpers PROVE Quiet(u) /\ ~Live(u)
    <3>1. u < at
      BY <1>1, <2>1, ScanAssumption DEF WakeTypes
    <3>2. Quiet(u)
      BY <1>1, <2>1, <3>1, Zenon DEF CancelInv
    <3> QED
      BY <3>2, Zenon DEF Quiet, Live, Working
  <2>3. WakeTypes' /\ CancelInv'
    BY <1>1, <1>2, <2>1, <2>2, Zenon DEF WakeTypes, CancelInv, Quiet
  <2>4. \A u \in Helpers : StateOf(u)'
    BY <1>1, <1>2, <2>1, <2>2, Zenon DEF StateOf, Live
  <2> QED
    BY <2>3, <2>4, Zenon DEF StopInv
<1> QED
  BY <1>3, <1>4, <1>5, <1>6, Zenon

LEMMA CloseStops ==
  ASSUME ScanInv, StopInv,
         \/ EndTransaction \/ CollectWaitCancelled \/ NextStatement \/ ShutdownDolHelpers
         \/ StopDolConnection \/ DestroyDolConnection \/ WCancel \/ UNCHANGED vars
  PROVE  StopInv'
<1>1. /\ state \in [Helpers -> DolStates] /\ hpc \in [Helpers -> Places] /\ WakeTypes /\ CancelInv
      /\ start \in [Helpers -> BOOLEAN] /\ \A u \in Helpers : StateOf(u) /\ u \in 1 .. MAX_HELPERS
  BY Zenon DEF ScanInv, Types, StopInv, Helpers
<1>2. CASE EndTransaction \/ CollectWaitCancelled
  <2>1. /\ mpc \notin {"stopwait"} /\ mpc' = "stop" /\ at' = 1 /\ mwake' = FALSE
        /\ UNCHANGED <<state, hpc, start, hwake, open, dele>>
    BY <1>2, Zenon DEF EndTransaction, CheckDolHelperErrors, CollectWaitCancelled, Stop, helperVars
  <2>2. WakeTypes' /\ CancelInv'
    <3>1. mwake' \in BOOLEAN
      BY <2>1, Zenon
    <3>2. at' \in Nat /\ hwake' \in [Helpers -> BOOLEAN]
      BY <1>1, <2>1, Zenon DEF WakeTypes
    <3>3. \A u \in Helpers : ~(u < at')
      BY <1>1, <2>1, SMTT(30)
    <3> QED
      BY <2>1, <3>1, <3>2, <3>3, Zenon DEF WakeTypes, CancelInv
  <2>3. \A u \in Helpers : StateOf(u)'
    BY <1>1, <2>1, Zenon DEF StateOf, Live
  <2> QED
    BY <2>2, <2>3, Zenon DEF StopInv
<1>3. CASE NextStatement \/ ShutdownDolHelpers
  <2>1. /\ mpc = "ended" /\ mpc' \in {"exec", "destroy"} /\ at' \in {at, 1} /\ mwake' = mwake
        /\ UNCHANGED <<state, hpc, start, hwake, open, dele>>
    BY <1>3, Zenon DEF NextStatement, ShutdownDolHelpers, helperVars
  <2>2. WakeTypes' /\ CancelInv'
    BY <1>1, <2>1, SMTT(30) DEF WakeTypes, CancelInv
  <2>3. \A u \in Helpers : StateOf(u)'
    BY <1>1, <2>1, Zenon DEF StateOf, Live
  <2> QED
    BY <2>2, <2>3, Zenon DEF StopInv
<1>4. CASE StopDolConnection
  <2>1. /\ mpc = "destroy" /\ mpc' \in {"destroy", "join"} /\ at \in Helpers /\ at' \in {at, at + 1}
        /\ mwake' = mwake /\ UNCHANGED <<hpc, open, dele>>
        /\ \/ UNCHANGED <<state, start, hwake>>
           \/ /\ hwake' = [hwake EXCEPT ![at] = @ \/ Unblock(at)]
              /\ state' = [state EXCEPT ![at] = "shutdown"] /\ start' = [start EXCEPT ![at] = FALSE]
    BY <1>4, Zenon DEF StopDolConnection
  <2>2. WakeTypes'
    <3>1. Unblock(at) \in BOOLEAN
      BY Zenon DEF Unblock
    <3>2. hwake' \in [Helpers -> BOOLEAN]
      BY <1>1, <2>1, <3>1, WakeOne, Zenon DEF WakeTypes
    <3>3. at' \in Nat /\ mwake' \in BOOLEAN
      BY <1>1, <2>1 DEF WakeTypes
    <3> QED
      BY <3>2, <3>3, Zenon DEF WakeTypes
  <2>3. CancelInv'
    BY <2>1, Zenon DEF CancelInv
  <2>4. ASSUME NEW u \in Helpers PROVE StateOf(u)'
    BY <1>1, <2>1, Zenon DEF StateOf, Live, Unblock, WakeTypes
  <2> QED
    BY <2>2, <2>3, <2>4, Zenon DEF StopInv
<1>5. CASE DestroyDolConnection
  <2>1. /\ mpc = "join" /\ mpc' = "destroy" /\ at' = at + 1 /\ mwake' = mwake /\ hpc[at] = "gone"
        /\ UNCHANGED <<hwake, start, open, dele>>
        /\ state' = [state EXCEPT ![at] = "none"] /\ hpc' = [hpc EXCEPT ![at] = "none"]
    BY <1>5, Zenon DEF DestroyDolConnection
  <2>2. WakeTypes' /\ CancelInv'
    BY <1>1, <2>1, SMTT(30) DEF WakeTypes, CancelInv
  <2>3. ASSUME NEW u \in Helpers PROVE StateOf(u)'
    BY <1>1, <2>1, Zenon DEF StateOf, Live, Working
  <2> QED
    BY <2>2, <2>3, Zenon DEF StopInv
<1>6. CASE WCancel \/ UNCHANGED vars
  <2>1. UNCHANGED <<state, hpc, start, hwake, mpc, at, mwake, open, dele>>
    BY <1>6, Zenon DEF WCancel, vars, helperVars
  <2> QED
    BY <1>1, <2>1, Zenon DEF StopInv, WakeTypes, CancelInv, StateOf, Live, Quiet
<1> QED
  BY <1>2, <1>3, <1>4, <1>5, <1>6, Zenon

LEMMA StopStep == ScanInv /\ StopInv /\ [Next]_vars => StopInv'
<1> SUFFICES ASSUME ScanInv, StopInv, [Next]_vars PROVE StopInv'
  BY Zenon
<1>1. ASSUME NEW h \in Helpers, HelperStep(h) \/ HeapPointerTranfer(h) \/ HelperFails(h)
      PROVE  StopInv'
  <2>1. Answers(h)
    BY <1>1, LoopAnswers, ScanAnswers, DelegateAnswers, Zenon DEF HelperStep
  <2> QED
    BY <2>1, TurnsKeeps, Zenon DEF Answers
<1>2. ASSUME NEW h \in Helpers,
             \/ DelegatedScanStart(h) \/ DelegatedScanNext(h) \/ CollectBegins(h)
             \/ CollectPointers(h) \/ DelegatedScanEnd(h)
      PROVE  StopInv'
  BY <1>2, StartStops, ExecutorStops, Zenon
<1> QED
  BY <1>1, <1>2, CancelStops, CloseStops, Zenon DEF Next

\* The invariant of the helpers, the Delegates and CancelDolHelpers.
THEOREM StopInvHolds == Spec => []StopInv
BY ScanInitial, ScanStep, StopInitial, StopStep, PTL DEF Spec

\* No helper works on a Delegate that DelegatedScanEnd or the end of the transaction
\* has freed: for any number of helpers, whatever errors, cancels and early ends of
\* scans there are.
THEOREM DelegateKept == Spec => []DelegateOutlives
<1>1. StopInv => DelegateOutlives
  BY Zenon DEF StopInv, StateOf, CancelInv, Live, Quiet, DelegateOutlives
<1> QED
  BY <1>1, StopInvHolds, PTL

\* CancelDolHelpers returns only when every helper is asleep, however many there are
\* and whatever each of them was doing when it was cancelled.
THEOREM HelpersLeave == Spec => []HelpersStopped
<1>1. StopInv => HelpersStopped
  BY Zenon DEF StopInv, StateOf, CancelInv, Live, Quiet, HelpersStopped
<1> QED
  BY <1>1, StopInvHolds, PTL
=============================================================================
