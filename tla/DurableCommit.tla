--------------------------- MODULE DurableCommit ---------------------------
(***************************************************************************)
(* What committing promises, with no pages, logs or threads.  A            *)
(* transaction asks for an outcome, may become durable, and is             *)
(* acknowledged; a hard commit is acknowledged only once it is durable.    *)
(* Nothing durable is ever lost, and what a crash cut off never becomes    *)
(* durable afterwards.                                                     *)
(***************************************************************************)
CONSTANTS Xids, None

VARIABLES asked,    \* the outcome asked for: None, "hard", "soft", "abort"
          durable,  \* transactions that a crash now would leave committed
          acked,    \* transactions whose client was answered
          gone      \* transactions cut off by a crash

vars == <<asked, durable, acked, gone>>

Init ==
  /\ asked = [x \in Xids |-> None]
  /\ durable = {} /\ acked = {} /\ gone = {}

Ask(x, outcome) ==
  /\ asked[x] = None /\ x \notin gone
  /\ asked' = [asked EXCEPT ![x] = outcome]
  /\ UNCHANGED <<durable, acked, gone>>

\* The transactions of one group become durable together.
Harden(X) ==
  /\ X \subseteq {x \in Xids \ gone : asked[x] \in {"hard", "soft"}}
  /\ durable' = durable \cup X
  /\ UNCHANGED <<asked, acked, gone>>

Acknowledge(X) ==
  /\ \A x \in X : \/ asked[x] = "hard" /\ x \in durable
                  \/ asked[x] \in {"soft", "abort"}
  /\ acked' = acked \cup X
  /\ UNCHANGED <<asked, durable, gone>>

\* A crash cuts off some transactions, none of them durable.
Crash(X) ==
  /\ X \cap durable = {}
  /\ gone' = gone \cup X
  /\ UNCHANGED <<asked, durable, acked>>

Next ==
  \/ \E x \in Xids, outcome \in {"hard", "soft", "abort"} : Ask(x, outcome)
  \/ \E X \in SUBSET Xids : Harden(X) \/ Acknowledge(X) \/ Crash(X)

Spec == Init /\ [][Next]_vars
=============================================================================
