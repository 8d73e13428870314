--------------------------- MODULE DtmRefinement ---------------------------
(***************************************************************************)
(* Two-phase transactions of Dtm as transactions of AtomicCommit.  What the *)
(* QD, the worker and the standby go through is hidden; a transaction is   *)
(* decided when the standby has its commit record or COMMIT PREPARED goes  *)
(* out without that, whichever comes first.                                *)
(***************************************************************************)
EXTENDS Dtm

TwoPhaseSegments == [t \in Gxid |-> IF OnePhase(t) THEN {} ELSE dtxSegments[t]]

OnStandby == Logged({"synced"})

Decided == OnStandby \union unconfirmed

Done ==
    [t \in Gxid |-> [s \in Seg |->
        IF s \in TwoPhaseSegments[t] /\ xact[t][s] \in {"committed", "aborted"}
        THEN xact[t][s] ELSE "no"]]

Told == [t \in Gxid |-> IF OnePhase(t) THEN "none" ELSE outcome[t]]

AC == INSTANCE AtomicCommit WITH part <- TwoPhaseSegments, decided <- Decided,
                                 backed <- OnStandby, done <- Done, told <- Told

(* Dtm implements atomic commit: a segment commits a two-phase transaction only
   after its commit record is flushed and either on the standby or no longer
   waited for by SyncRepWaitForLSN(); it aborts it only before that, or after a
   promotion that lost the record; no crash takes a decision back, and a
   promotion only one whose record the standby had not confirmed; and the client
   is told neither too early nor wrongly. *)
ImplementsAtomicCommit == AC!Spec

=============================================================================
