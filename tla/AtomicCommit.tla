---------------------------- MODULE AtomicCommit ----------------------------
(***************************************************************************)
(* What distributed commit promises: a transaction is decided at most once,*)
(* segments act on the decision, and the client is told the truth.  The one*)
(* thing that can go wrong here is a fail-over to a coordinator that does  *)
(* not know of a decision segments were already allowed to act on; Dtm,    *)
(* where everything can, is shown to implement it.                         *)
(***************************************************************************)
CONSTANTS
    Gxid,       \* distributed transactions
    Seg         \* segments

VARIABLES
    part,       \* the segments each transaction must commit on
    decided,    \* transactions decided to be committed
    backed,     \* those whose decision survives a fail-over
    lost,       \* those whose decision did not
    done,       \* [Gxid -> [Seg -> {"no", "committed", "aborted"}]]
    told        \* [Gxid -> {"none", "committed", "aborted"}]

vars == <<part, decided, backed, lost, done, told>>

Init ==
    /\ part = [t \in Gxid |-> {}]
    /\ decided = {}
    /\ backed = {}
    /\ lost = {}
    /\ done = [t \in Gxid |-> [s \in Seg |-> "no"]]
    /\ told = [t \in Gxid |-> "none"]

Begin(t) ==
    /\ part[t] = {}
    /\ \E segs \in SUBSET Seg : part' = [part EXCEPT ![t] = segs]
    /\ UNCHANGED <<decided, backed, lost, done, told>>

\* The decision, backed at once or not, or the backing of an earlier one.
Decide(t) ==
    /\ t \notin lost
    /\ told[t] # "aborted" /\ \A s \in part[t] : done[t][s] # "aborted"
    /\ decided' = decided \union {t}
    /\ backed' \in {backed, backed \union {t}}
    /\ UNCHANGED <<part, lost, done, told>>

FailOver ==
    /\ decided' = backed
    /\ lost' = lost \union (decided \ backed)
    /\ UNCHANGED <<part, backed, done, told>>

Commit(t, s) ==
    /\ t \in decided \union lost
    /\ s \in part[t] /\ done[t][s] = "no"
    /\ done' = [done EXCEPT ![t][s] = "committed"]
    /\ UNCHANGED <<part, decided, backed, lost, told>>

Abort(t, s) ==
    /\ t \notin decided
    /\ s \in part[t] /\ done[t][s] = "no"
    /\ done' = [done EXCEPT ![t][s] = "aborted"]
    /\ UNCHANGED <<part, decided, backed, lost, told>>

Tell(t, what) ==
    /\ part[t] # {} /\ told[t] = "none"
    /\ IF what = "committed" THEN \A s \in part[t] : done[t][s] = "committed"
                             ELSE t \notin decided \union lost
    /\ told' = [told EXCEPT ![t] = what]
    /\ UNCHANGED <<part, decided, backed, lost, done>>

Next ==
    \/ \E t \in Gxid : Begin(t) \/ Decide(t) \/ Tell(t, "committed") \/ Tell(t, "aborted")
    \/ \E t \in Gxid, s \in Seg : Commit(t, s) \/ Abort(t, s)
    \/ FailOver

Spec == Init /\ [][Next]_vars

=============================================================================
