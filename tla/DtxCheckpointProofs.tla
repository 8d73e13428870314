------------------------ MODULE DtxCheckpointProofs ------------------------
(***************************************************************************)
(* Proofs that redo finds every distributed commit and that none loses its *)
(* owner, for any number of backends, transactions, restarts and records.  *)
(***************************************************************************)
EXTENDS DtxCheckpoint, TLAPS

Record == [kind : {"commit", "forget", "checkpoint"}, gxids : SUBSET Gxid, redo : Nat]

\* A record is among the first n of w; it is in the WAL at all.
Within(w, r, n) == \E i \in 1 .. n : w[i] = r
Logged(r) == Within(wal, r, Len(wal))

\* A checkpoint record from which redo can start, whatever follows it: it lists
\* only committed transactions, and all those committed before its redo pointer
\* but for some that were forgotten before the record.
Usable(w, i) ==
    /\ w[i].redo \in 1 .. i
    /\ \A g \in w[i].gxids : Within(w, Commit(g), i)
    /\ \A g \in Gxid : Within(w, Commit(g), w[i].redo - 1) =>
          g \in w[i].gxids \/ Within(w, Forget(g), i)

\* Any other record is of one transaction.
OfXact(r) == \E g \in Gxid : r = Commit(g) \/ r = Forget(g)

WalInv ==
    \A i \in 1 .. Len(wal) :
        /\ wal[i].kind = "checkpoint" => Usable(wal, i)
        /\ wal[i].kind # "checkpoint" => OfXact(wal[i])

\* A backend and its transaction.
BackendInv ==
    \A b \in Backend :
        /\ pc[b] # "idle" => mode = "up" /\ gxid[b] \in Gxid
        /\ pc[b] \in {"include", "flush", "notify", "forget"} => Logged(Commit(gxid[b]))
        /\ b \in includeInCkpt <=> pc[b] \in {"flush", "notify", "forget"}

\* Who must see to a committed transaction that is not forgotten.
Holds(b, g) == gxid[b] = g /\ pc[b] \in {"include", "flush", "notify"}

OwnerInv ==
    /\ Running => \A g \in Gxid : Logged(Commit(g)) =>
                     Logged(Forget(g)) \/ g \in array \/ \E b \in Backend : Holds(b, g)
    /\ \A g \in array : Logged(Commit(g))
    /\ \A g \in recovered : Logged(Forget(g))
    /\ mode = "up" => array = {}
    /\ mode \in {"down", "redo"} => recovered = {}
    /\ mode = "redo" =>
          \A g \in Gxid : Within(wal, Commit(g), pos) => g \in array \/ Logged(Forget(g))

\* The checkpoint being taken: a transaction committed before its redo pointer is
\* forgotten, listed, or yet to be met where the checkpoint will look for it.
Collecting == {"redo", "wait", "array", "procs"}

ToMeet(b, g) ==
    /\ Holds(b, g)
    /\ pc[b] # "notify" => /\ ckpt.at \in {"redo", "wait"}
                           /\ b \in ckpt.todo \/ <<b, g>> \in ckpt.delaying
    /\ ckpt.at = "procs" => b \in ckpt.todo

SeenTo(g) ==
    \/ Logged(Forget(g))
    \/ ckpt.at = "procs" /\ g \in ckpt.gxids
    \/ ckpt.at # "procs" /\ g \in array
    \/ \E b \in Backend : ToMeet(b, g)

CkptInv ==
    /\ ckpt.at # "none" => Running
    /\ ckpt.at = "wait" => ckpt.todo = {}
    /\ ckpt.at = "control" => ckpt.redo \in 1 .. flushed /\ wal[ckpt.redo].kind = "checkpoint"
    /\ ckpt.at \in Collecting =>
          /\ ckpt.redo \in 1 .. Len(wal) + 1
          /\ \A g \in ckpt.gxids : Logged(Commit(g))
          /\ \A g \in Gxid : Within(wal, Commit(g), ckpt.redo - 1) => SeenTo(g)

DtxInv == TypeOK /\ WalInv /\ BackendInv /\ OwnerInv /\ CkptInv

-----------------------------------------------------------------------------
(* Most leaves are first-order reasoning and Zenon closes them; those on     *)
(* sequences, records and positions cite SMT.                               *)
USE Zenon

LEMMA RecordFacts ==
    ASSUME NEW g \in Gxid
    PROVE  /\ Commit(g) \in Record /\ Commit(g).kind = "commit" /\ Commit(g).gxids = {g}
           /\ Forget(g) \in Record /\ Forget(g).kind = "forget" /\ Forget(g).gxids = {g}
           /\ \A h : Commit(g) # Forget(h) /\ (Commit(g) = Commit(h) => g = h)
           /\ \A h : Forget(g) = Forget(h) => g = h
           /\ \A h, n : Commit(g) # Checkpoint(n, h) /\ Forget(g) # Checkpoint(n, h)
  BY SMT DEF Commit, Forget, Checkpoint, Record

LEMMA CheckpointFacts ==
    ASSUME NEW n \in Nat, NEW gs \in SUBSET Gxid
    PROVE  /\ Checkpoint(n, gs) \in Record /\ Checkpoint(n, gs).kind = "checkpoint"
           /\ Checkpoint(n, gs).gxids = gs /\ Checkpoint(n, gs).redo = n
  BY SMT DEF Checkpoint, Record

\* What is within n records depends on those alone, and stays within more.
LEMMA WithinExt ==
    ASSUME NEW v, NEW w, NEW n, \A i \in 1 .. n : v[i] = w[i], NEW r
    PROVE  Within(v, r, n) <=> Within(w, r, n)
  BY DEF Within

LEMMA WithinMore ==
    ASSUME NEW w, NEW m \in Nat, NEW n \in Nat, m <= n, NEW r, Within(w, r, m)
    PROVE  Within(w, r, n)
  <1>1. PICK i \in 1 .. m : w[i] = r
    BY DEF Within
  <1>2. i \in 1 .. n
    BY <1>1, SMT
  <1> QED
    BY <1>1, <1>2 DEF Within

LEMMA WithinNext ==
    ASSUME NEW w, NEW n \in Nat, NEW r
    PROVE  Within(w, r, n + 1) <=> Within(w, r, n) \/ w[n + 1] = r
  <1>1. 1 .. n + 1 = (1 .. n) \union {n + 1}
    BY SMT
  <1> QED
    BY <1>1 DEF Within

LEMMA UsableExt ==
    ASSUME NEW v, NEW w, NEW i \in Nat \ {0}, \A j \in 1 .. i : v[j] = w[j], Usable(v, i)
    PROVE  Usable(w, i)
  <1>1. v[i] = w[i]
    BY SMT
  <1>2. w[i].redo \in 1 .. i
    BY <1>1 DEF Usable
  <1>3. \A j \in 1 .. w[i].redo - 1 : v[j] = w[j]
    BY <1>2, SMT
  <1>4. \A r : Within(v, r, i) <=> Within(w, r, i)
    BY WithinExt
  <1>5. \A r : Within(v, r, w[i].redo - 1) <=> Within(w, r, w[i].redo - 1)
    BY <1>3, WithinExt
  <1> QED
    BY <1>1, <1>2, <1>4, <1>5 DEF Usable

-----------------------------------------------------------------------------
(* How the WAL changes *)

LEMMA WalTypes ==
    ASSUME TypeOK
    PROVE  /\ wal \in Seq(Record) /\ Len(wal) \in Nat /\ flushed \in 0 .. Len(wal)
           /\ control \in 0 .. flushed /\ pos \in 0 .. Len(wal)
           /\ \A i \in 1 .. Len(wal) : wal[i] \in Record
  <1>1. wal \in Seq(Record) /\ flushed \in 0 .. Len(wal) /\ control \in 0 .. flushed /\ pos \in 0 .. Len(wal)
    BY DEF TypeOK, Record
  <1> QED
    BY <1>1, SMT

\* One record more.
LEMMA Appended ==
    ASSUME TypeOK, NEW r \in Record, wal' = Append(wal, r)
    PROVE  /\ wal' \in Seq(Record) /\ Len(wal') = Len(wal) + 1 /\ wal'[Len(wal) + 1] = r
           /\ \A i \in 1 .. Len(wal) : wal'[i] = wal[i]
           /\ \A n \in 0 .. Len(wal) : \A x : Within(wal', x, n) <=> Within(wal, x, n)
           /\ \A x : Logged(x)' <=> Logged(x) \/ x = r
  <1>1. wal \in Seq(Record) /\ Len(wal) \in Nat
    BY WalTypes
  <1>2. /\ wal' \in Seq(Record) /\ Len(wal') = Len(wal) + 1 /\ wal'[Len(wal) + 1] = r
        /\ \A i \in 1 .. Len(wal) : wal'[i] = wal[i]
    BY <1>1, SMT
  <1>3. ASSUME NEW n \in 0 .. Len(wal), NEW x PROVE Within(wal', x, n) <=> Within(wal, x, n)
    <2>1. \A i \in 1 .. n : wal'[i] = wal[i]
      BY <1>1, <1>2, SMT
    <2> QED
      BY <2>1, WithinExt
  <1>4. ASSUME NEW x PROVE Logged(x)' <=> Logged(x) \/ x = r
    <2>1. Within(wal', x, Len(wal) + 1) <=> Within(wal', x, Len(wal)) \/ wal'[Len(wal) + 1] = x
      BY <1>1, WithinNext
    <2>2. Len(wal) \in 0 .. Len(wal)
      BY <1>1, SMT
    <2> QED
      BY <1>2, <1>3, <2>1, <2>2 DEF Logged
  <1> QED
    BY <1>2, <1>3, <1>4

\* The records before stay usable; the new one must be if it is a checkpoint.
LEMMA AppendedWalInv ==
    ASSUME TypeOK, WalInv, NEW r \in Record, wal' = Append(wal, r),
           r.kind = "checkpoint" => Usable(wal', Len(wal) + 1),
           r.kind # "checkpoint" => OfXact(r)
    PROVE  WalInv'
  <1>0. Len(wal) \in Nat
    BY WalTypes
  <1>1. /\ Len(wal') = Len(wal) + 1 /\ wal'[Len(wal) + 1] = r
        /\ \A i \in 1 .. Len(wal) : wal'[i] = wal[i]
    BY Appended
  <1> SUFFICES ASSUME NEW i \in 1 .. Len(wal')
               PROVE  /\ wal'[i].kind = "checkpoint" => Usable(wal', i)
                      /\ wal'[i].kind # "checkpoint" => OfXact(wal'[i])
    BY DEF WalInv
  <1>2. CASE i = Len(wal) + 1
    BY <1>1, <1>2
  <1>3. CASE i # Len(wal) + 1
    <2>1. i \in 1 .. Len(wal) /\ i \in Nat \ {0} /\ \A j \in 1 .. i : j \in 1 .. Len(wal)
      BY <1>0, <1>1, <1>3, SMT
    <2>2. /\ wal'[i].kind = "checkpoint" => Usable(wal, i)
          /\ wal'[i].kind # "checkpoint" => OfXact(wal'[i])
      BY <1>1, <2>1 DEF WalInv
    <2> QED
      BY <1>1, <2>1, <2>2, UsableExt
  <1> QED
    BY <1>2, <1>3

-----------------------------------------------------------------------------
(* Types *)

Delaying == Backend \X Gxid
CkptType == [at : CkptPC, redo : Nat, todo : SUBSET Backend,
             delaying : SUBSET Delaying, gxids : SUBSET Gxid]

LEMMA NoCkptType == NoCkpt \in CkptType
  BY SMT DEF NoCkpt, CkptType, CkptPC

\* Updates of a record with several fields are made one after the other.
LEMMA CkptUpdate ==
    ASSUME NEW c \in CkptType
    PROVE  /\ \A at \in CkptPC : [c EXCEPT !.at = at] \in CkptType
           /\ \A n \in Nat : [c EXCEPT !.redo = n] \in CkptType
           /\ \A bs \in SUBSET Backend : [c EXCEPT !.todo = bs] \in CkptType
           /\ \A ds \in SUBSET Delaying : [c EXCEPT !.delaying = ds] \in CkptType
           /\ \A gs \in SUBSET Gxid : [c EXCEPT !.gxids = gs] \in CkptType
  <1> DEFINE B == SUBSET Backend
             D == SUBSET Delaying
             G == SUBSET Gxid
  <1>1. c \in [at : CkptPC, redo : Nat, todo : B, delaying : D, gxids : G]
    BY DEF CkptType
  <1> HIDE DEF B, D, G
  <1>2. \A at \in CkptPC : [c EXCEPT !.at = at] \in [at : CkptPC, redo : Nat, todo : B, delaying : D, gxids : G]
    BY <1>1, SMT
  <1>3. \A n \in Nat : [c EXCEPT !.redo = n] \in [at : CkptPC, redo : Nat, todo : B, delaying : D, gxids : G]
    BY <1>1, SMT
  <1>4. \A x \in B : [c EXCEPT !.todo = x] \in [at : CkptPC, redo : Nat, todo : B, delaying : D, gxids : G]
    BY <1>1, SMT
  <1>5. \A x \in D : [c EXCEPT !.delaying = x] \in [at : CkptPC, redo : Nat, todo : B, delaying : D, gxids : G]
    BY <1>1, SMT
  <1>6. \A x \in G : [c EXCEPT !.gxids = x] \in [at : CkptPC, redo : Nat, todo : B, delaying : D, gxids : G]
    BY <1>1, SMT
  <1> QED
    BY <1>2, <1>3, <1>4, <1>5, <1>6 DEF CkptType, B, D, G

LEMMA CkptFields ==
    ASSUME NEW c \in CkptType
    PROVE  /\ c.at \in CkptPC /\ c.redo \in Nat /\ c.todo \in SUBSET Backend
           /\ c.delaying \in SUBSET Delaying /\ c.gxids \in SUBSET Gxid
  BY SMT DEF CkptType

LEMMA BackendType ==
    ASSUME DtxInv, NEW b \in Backend, BackendStep(b)
    PROVE  TypeOK'
  <1>t. TypeOK
    BY DEF DtxInv
  <1>w. /\ wal \in Seq(Record) /\ Len(wal) \in Nat /\ flushed \in 0 .. Len(wal)
        /\ control \in 0 .. flushed /\ pos \in 0 .. Len(wal)
    BY <1>t, WalTypes
  <1>1. CASE Prepared(b) \/ EnterCommit(b) \/ IncludeInCkpt(b) \/ FlushCommitted(b) \/ ClearInclude(b)
    <2>1. UNCHANGED <<wal, ckpt, serverVars, recoveryVars>>
      BY <1>1 DEF Prepared, EnterCommit, IncludeInCkpt, FlushCommitted, ClearInclude
    <2>2. /\ pc' \in [Backend -> BackendPC] /\ gxid' \in [Backend -> Gxid \union {NoGxid}]
          /\ includeInCkpt' \subseteq Backend /\ used' \subseteq Gxid
      BY <1>1, <1>t, SMTT(30)
         DEF Prepared, EnterCommit, IncludeInCkpt, FlushCommitted, ClearInclude, TypeOK, BackendPC
    <2>3. flushed' \in 0 .. Len(wal) /\ control \in 0 .. flushed'
      BY <1>1, <1>w, SMT DEF Prepared, EnterCommit, IncludeInCkpt, FlushCommitted, ClearInclude
    <2> QED
      BY <1>t, <2>1, <2>2, <2>3 DEF TypeOK, serverVars, recoveryVars
  <1>2. CASE InsertCommitted(b) \/ InsertForget(b)
    <2>1. UNCHANGED <<gxid, includeInCkpt, used, flushed, ckpt, serverVars, recoveryVars>>
      BY <1>2 DEF InsertCommitted, InsertForget
    <2>2. pc' \in [Backend -> BackendPC]
      <3>1. /\ pc \in [Backend -> BackendPC] /\ "include" \in BackendPC /\ "forget" \in BackendPC
            /\ pc' = [pc EXCEPT ![b] = "include"] \/ pc' = [pc EXCEPT ![b] = "forget"]
        BY <1>2, <1>t DEF InsertCommitted, InsertForget, TypeOK, BackendPC
      <3> QED
        BY <3>1, SMTT(30)
    <2>3. PICK r \in Record : wal' = Append(wal, r)
      <3>1. gxid[b] \in Gxid
        BY <1>2 DEF DtxInv, BackendInv, InsertCommitted, InsertForget
      <3> QED
        BY <1>2, <3>1, RecordFacts DEF InsertCommitted, InsertForget
    <2>4. /\ wal' \in Seq(Record) /\ Len(wal') = Len(wal) + 1
          /\ \A i \in 1 .. Len(wal) : wal'[i] = wal[i]
      BY <1>t, <2>3, Appended
    <2>5. /\ flushed \in 0 .. Len(wal') /\ pos \in 0 .. Len(wal')
          /\ control # 0 => wal'[control] = wal[control]
      BY <1>w, <2>4, SMT
    <2> QED
      BY <1>t, <2>1, <2>2, <2>4, <2>5 DEF TypeOK, Record, serverVars, recoveryVars
  <1> QED
    BY <1>1, <1>2 DEF BackendStep

LEMMA CkptStepType ==
    ASSUME DtxInv, CkptStep
    PROVE  TypeOK'
  <1>t. TypeOK /\ ckpt \in CkptType
    BY DEF DtxInv, TypeOK, CkptType, Delaying
  <1>w. /\ wal \in Seq(Record) /\ Len(wal) \in Nat /\ flushed \in 0 .. Len(wal)
        /\ control \in 0 .. flushed /\ pos \in 0 .. Len(wal)
        /\ \A i \in 1 .. Len(wal) : wal[i] \in Record
    BY <1>t, WalTypes
  <1>1. CASE CkptRedo \/ CkptScanned \/ CkptWaited \/ CkptArray
    <2>1. ckpt' \in CkptType
      <3>1. CASE CkptRedo
        <4>1. ckpt' = [[[NoCkpt EXCEPT !.at = "redo"] EXCEPT !.redo = Len(wal) + 1]
                                               EXCEPT !.todo = Backend]
          BY <3>1, SMT DEF CkptRedo
        <4>2. [NoCkpt EXCEPT !.at = "redo"] \in CkptType
          BY NoCkptType, CkptUpdate DEF CkptPC
        <4>3. Len(wal) + 1 \in Nat
          BY <1>w, SMT
        <4>4. [[NoCkpt EXCEPT !.at = "redo"] EXCEPT !.redo = Len(wal) + 1] \in CkptType
          BY <4>2, <4>3, CkptUpdate
        <4> QED
          BY <4>1, <4>4, CkptUpdate
      <3>2. CASE CkptScanned
        BY <1>t, <3>2, SMT DEF CkptScanned, CkptType, CkptPC
      <3>3. CASE CkptWaited
        <4>1. ckpt' = [[ckpt EXCEPT !.at = "array"] EXCEPT !.delaying = {}]
          BY <3>3, SMT DEF CkptWaited
        <4>2. [ckpt EXCEPT !.at = "array"] \in CkptType
          BY <1>t, CkptUpdate DEF CkptPC
        <4> QED
          BY <4>1, <4>2, CkptUpdate
      <3>4. CASE CkptArray
        <4>1. array \in SUBSET Gxid
          BY <1>t DEF TypeOK
        <4> QED
          <5>1. ckpt' = [[[ckpt EXCEPT !.at = "procs"] EXCEPT !.todo = Backend] EXCEPT !.gxids = array]
            BY <3>4, SMT DEF CkptArray
          <5>2. [ckpt EXCEPT !.at = "procs"] \in CkptType
            BY <1>t, CkptUpdate DEF CkptPC
          <5>3. [[ckpt EXCEPT !.at = "procs"] EXCEPT !.todo = Backend] \in CkptType
            BY <5>2, CkptUpdate
          <5> QED
            BY <4>1, <5>1, <5>3, CkptUpdate
      <3> QED
        BY <1>1, <3>1, <3>2, <3>3, <3>4
    <2>2. UNCHANGED <<serverVars, backendVars, wal, flushed, recoveryVars>>
      BY <1>1 DEF CkptRedo, CkptScanned, CkptWaited, CkptArray
    <2> QED
      BY <1>t, <2>1, <2>2 DEF TypeOK, CkptType, Delaying, serverVars, backendVars, recoveryVars
  <1>2. ASSUME NEW b \in Backend, CkptScan(b) \/ CkptCollect(b) PROVE TypeOK'
    <2>1. /\ DelayChkpt(b) => <<b, gxid[b]>> \in Delaying
          /\ b \in includeInCkpt => gxid[b] \in Gxid
      BY DEF DtxInv, BackendInv, DelayChkpt, Delaying
    <2>2. ckpt' \in CkptType
      <3>1. CASE CkptScan(b)
        <4> DEFINE d == IF DelayChkpt(b) THEN ckpt.delaying \union {<<b, gxid[b]>>} ELSE ckpt.delaying
        <4>1. ckpt' = [ckpt EXCEPT !.todo = @ \ {b}, !.delaying = d]
          BY <3>1 DEF CkptScan
        <4>2. d \in SUBSET Delaying
          <5>1. ckpt.delaying \in SUBSET Delaying
            BY <1>t, SMT DEF CkptType
          <5> QED
            BY <2>1, <5>1
        <4> HIDE DEF d
        <4> QED
          <5>1. ckpt' = [[ckpt EXCEPT !.todo = ckpt.todo \ {b}] EXCEPT !.delaying = d]
            BY <4>1, SMT
          <5>2. [ckpt EXCEPT !.todo = ckpt.todo \ {b}] \in CkptType
            BY <1>t, CkptFields, CkptUpdate
          <5> QED
            BY <4>2, <5>1, <5>2, CkptUpdate
      <3>2. CASE CkptCollect(b)
        <4> DEFINE gs == IF b \in includeInCkpt THEN ckpt.gxids \union {gxid[b]} ELSE ckpt.gxids
        <4>1. ckpt' = [[ckpt EXCEPT !.todo = ckpt.todo \ {b}] EXCEPT !.gxids = gs]
          BY <3>2, SMT DEF CkptCollect
        <4>2. gs \in SUBSET Gxid
          BY <1>t, <2>1, CkptFields
        <4>3. [ckpt EXCEPT !.todo = ckpt.todo \ {b}] \in CkptType
          BY <1>t, CkptFields, CkptUpdate
        <4> HIDE DEF gs
        <4> QED
          BY <4>1, <4>2, <4>3, CkptUpdate
      <3> QED
        BY <1>2, <3>1, <3>2
    <2>3. UNCHANGED <<serverVars, backendVars, wal, flushed, recoveryVars>>
      BY <1>2 DEF CkptScan, CkptCollect
    <2> QED
      BY <1>t, <2>2, <2>3 DEF TypeOK, CkptType, Delaying, serverVars, backendVars, recoveryVars
  <1>3. CASE CkptWrite
    <2> DEFINE r == Checkpoint(ckpt.redo, ckpt.gxids)
    <2>1. r \in Record
      <3>1. ckpt.redo \in Nat /\ ckpt.gxids \in SUBSET Gxid
        BY <1>t, SMT DEF CkptType
      <3> QED
        BY <3>1, CheckpointFacts
    <2>2. wal' = Append(wal, r) /\ flushed' = Len(wal')
          /\ ckpt' = [ckpt EXCEPT !.at = "control", !.redo = Len(wal')]
          /\ UNCHANGED <<serverVars, backendVars, recoveryVars>>
      BY <1>3 DEF CkptWrite
    <2>3. /\ wal' \in Seq(Record) /\ Len(wal') = Len(wal) + 1
          /\ \A i \in 1 .. Len(wal) : wal'[i] = wal[i]
      BY <1>t, <2>1, <2>2, Appended
    <2>4. ckpt' \in CkptType
      <3>1. ckpt' = [[ckpt EXCEPT !.at = "control"] EXCEPT !.redo = Len(wal')]
        BY <2>2, SMT
      <3>2. [ckpt EXCEPT !.at = "control"] \in CkptType
        BY <1>t, CkptUpdate DEF CkptPC
      <3>3. Len(wal') \in Nat
        BY <1>w, <2>3, SMT
      <3> QED
        BY <3>1, <3>2, <3>3, CkptUpdate
    <2>5. /\ flushed' \in 0 .. Len(wal') /\ pos \in 0 .. Len(wal') /\ control \in 0 .. flushed'
          /\ control # 0 => wal'[control] = wal[control]
      BY <1>w, <2>2, <2>3, SMT
    <2> QED
      BY <1>t, <2>2, <2>3, <2>4, <2>5 DEF TypeOK, Record, CkptType, Delaying, serverVars, backendVars, recoveryVars
  <1>4. CASE CkptControl
    <2>1. /\ ckpt' = NoCkpt /\ control' = ckpt.redo
          /\ UNCHANGED <<mode, backendVars, wal, flushed, crashed, recoveryVars, restarts>>
      BY <1>4 DEF CkptControl
    <2>2. control' \in 1 .. flushed /\ wal[control'].kind = "checkpoint"
      BY <1>4, <2>1 DEF CkptControl, DtxInv, CkptInv
    <2>3. control' \in 1 .. Len(wal) /\ control' \in 0 .. flushed
      BY <1>w, <2>2, SMT
    <2>4. wal[control'].redo \in 1 .. control'
      BY <2>2, <2>3 DEF DtxInv, WalInv, Usable
    <2> QED
      BY <1>t, <2>1, <2>2, <2>3, <2>4, NoCkptType DEF TypeOK, CkptType, Delaying, backendVars, recoveryVars
  <1> QED
    BY <1>1, <1>2, <1>3, <1>4 DEF CkptStep

LEMMA Truncated ==
    ASSUME TypeOK, NEW n \in 0 .. Len(wal), wal' = SubSeq(wal, 1, n)
    PROVE  /\ wal' \in Seq(Record) /\ Len(wal') = n
           /\ \A i \in 1 .. n : wal'[i] = wal[i]
  <1>1. wal \in Seq(Record) /\ Len(wal) \in Nat
    BY WalTypes
  <1> QED
    BY <1>1, SMT

LEMMA StopType ==
    ASSUME DtxInv, NEW n \in 0 .. Len(wal), NEW c \in 0 .. n,
           c # 0 => wal[c].kind = "checkpoint", Stop(n, c), crashed' \in BOOLEAN
    PROVE  TypeOK'
  <1>t. TypeOK /\ WalInv /\ Len(wal) \in Nat
    BY WalTypes DEF DtxInv
  <1>1. /\ wal' \in Seq(Record) /\ Len(wal') = n
        /\ \A i \in 1 .. n : wal'[i] = wal[i]
    BY <1>t, Truncated DEF Stop
  <1>2. /\ flushed' \in 0 .. Len(wal') /\ control' \in 0 .. flushed' /\ pos' \in 0 .. Len(wal')
    BY <1>t, <1>1, SMT DEF Stop
  <1>3. control' # 0 => wal'[control'].kind = "checkpoint" /\ wal'[control'].redo \in 1 .. control'
    <2> SUFFICES ASSUME c # 0
                 PROVE  wal'[c].kind = "checkpoint" /\ wal'[c].redo \in 1 .. c
      BY DEF Stop
    <2>1. c \in 1 .. n /\ c \in 1 .. Len(wal)
      BY <1>t, SMT
    <2> QED
      BY <1>t, <1>1, <2>1 DEF WalInv, Usable
  <1>4. restarts' \in 0 .. MaxRestarts
    BY <1>t, BoundAssumption, SMTT(30) DEF Stop, TypeOK
  <1>5. /\ pc' \in [Backend -> BackendPC] /\ gxid' \in [Backend -> Gxid \union {NoGxid}]
        /\ mode' \in Mode
    BY SMT DEF Stop, BackendPC, Mode
  <1>6. includeInCkpt' = {} /\ ckpt' = NoCkpt /\ array' = {} /\ recovered' = {} /\ used' = used
    BY DEF Stop
  <1> QED
    BY <1>t, <1>1, <1>2, <1>3, <1>4, <1>5, <1>6, NoCkptType DEF TypeOK, Record, CkptType, Delaying

LEMMA CrashStop ==
    ASSUME DtxInv, Crash \/ Promote
    PROVE  \E n \in 0 .. Len(wal) : \E c \in 0 .. n :
              /\ c # 0 => wal[c].kind = "checkpoint"
              /\ Stop(n, c) /\ crashed' \in BOOLEAN
  <1>t. /\ TypeOK /\ Len(wal) \in Nat /\ flushed \in 0 .. Len(wal) /\ control \in 0 .. flushed
        /\ control # 0 => wal[control].kind = "checkpoint"
    BY WalTypes DEF DtxInv, TypeOK
  <1>1. CASE Crash
    <2>1. PICK n \in flushed .. Len(wal) : Stop(n, control)
      BY <1>1 DEF Crash
    <2>2. n \in 0 .. Len(wal) /\ control \in 0 .. n
      BY <1>t, <2>1, SMT
    <2>3. crashed' \in BOOLEAN
      BY <1>1 DEF Crash
    <2> QED
      BY <1>t, <2>1, <2>2, <2>3
  <1>2. CASE Promote
    <2>0. PICK n \in 0 .. flushed :
             \E c \in {0} \union {i \in 1 .. n : wal[i].kind = "checkpoint"} : Stop(n, c)
      BY <1>2 DEF Promote
    <2>1. PICK c \in {0} \union {i \in 1 .. n : wal[i].kind = "checkpoint"} : Stop(n, c)
      BY <2>0
    <2>2. n \in 0 .. Len(wal) /\ c \in 0 .. n
      BY <1>t, <2>1, SMT
    <2>3. crashed' \in BOOLEAN
      BY <1>2 DEF Promote
    <2> QED
      BY <2>1, <2>2, <2>3
  <1> QED
    BY <1>1, <1>2

\* The checkpoint record of a shutdown or the end of recovery.
LEMMA ShutdownRecord ==
    ASSUME TypeOK, LogShutdownCheckpoint
    PROVE  \E r \in Record :
              /\ r.kind = "checkpoint" /\ r.redo = Len(wal) + 1 /\ r.gxids = array
              /\ wal' = Append(wal, r)
              /\ flushed' = Len(wal) + 1 /\ control' = Len(wal) + 1
  <1> DEFINE r == Checkpoint(Len(wal) + 1, array)
  <1>1. Len(wal) + 1 \in Nat /\ array \in SUBSET Gxid
    <2>1. Len(wal) \in Nat
      BY WalTypes
    <2>2. array \in SUBSET Gxid
      BY DEF TypeOK
    <2> QED
      BY <2>1, <2>2, SMT
  <1>2. /\ r \in Record /\ r.kind = "checkpoint" /\ r.redo = Len(wal) + 1 /\ r.gxids = array
    BY <1>1, CheckpointFacts
  <1>3. wal' = Append(wal, r) /\ flushed' = Len(wal') /\ control' = Len(wal')
    BY DEF LogShutdownCheckpoint
  <1>4. Len(wal') = Len(wal) + 1
    BY <1>2, <1>3, Appended
  <1> QED
    BY <1>2, <1>3, <1>4

LEMMA ShutdownType ==
    ASSUME TypeOK, LogShutdownCheckpoint
    PROVE  /\ wal' \in Seq(Record) /\ flushed' \in 0 .. Len(wal') /\ control' \in 0 .. flushed'
           /\ pos \in 0 .. Len(wal') /\ 0 \in 0 .. Len(wal')
           /\ wal'[control'].kind = "checkpoint" /\ wal'[control'].redo \in 1 .. control'
  <1>w. Len(wal) \in Nat /\ pos \in 0 .. Len(wal)
    BY WalTypes
  <1>1. PICK r \in Record : /\ r.kind = "checkpoint" /\ r.redo = Len(wal) + 1
                            /\ wal' = Append(wal, r)
                            /\ flushed' = Len(wal) + 1 /\ control' = Len(wal) + 1
    BY ShutdownRecord
  <1>2. wal' \in Seq(Record) /\ Len(wal') = Len(wal) + 1 /\ wal'[Len(wal) + 1] = r
    BY <1>1, Appended
  <1> QED
    BY <1>w, <1>1, <1>2, SMT

LEMMA ServerType ==
    ASSUME DtxInv, \/ Shutdown \/ StartupXLOG \/ Redo \/ EndOfRecovery \/ WorkerRestart \/ DtmStarted
                   \/ \E g \in Gxid : RecoverCommitted(g)
    PROVE  TypeOK'
  <1>t. TypeOK
    BY DEF DtxInv
  <1>w. /\ wal \in Seq(Record) /\ Len(wal) \in Nat /\ flushed \in 0 .. Len(wal)
        /\ control \in 0 .. flushed /\ pos \in 0 .. Len(wal)
        /\ \A i \in 1 .. Len(wal) : wal[i] \in Record
    BY <1>t, WalTypes
  <1>1. CASE Shutdown
    <2>1. /\ LogShutdownCheckpoint /\ mode' = "down" /\ crashed' = FALSE /\ array' = {}
          /\ pos' = 0 /\ recovered' = {} /\ UNCHANGED <<backendVars, ckpt>>
      BY <1>1 DEF Shutdown
    <2>2. restarts' \in 0 .. MaxRestarts
      BY <1>1, <1>t, BoundAssumption, SMTT(30) DEF Shutdown, TypeOK
    <2> QED
      BY <1>t, <2>1, <2>2, ShutdownType DEF TypeOK, Record, Mode, backendVars
  <1>2. CASE StartupXLOG
    <2>1. /\ mode' \in Mode /\ array' = RedoList /\ pos' = RedoFrom - 1 /\ recovered = {}
          /\ UNCHANGED <<backendVars, wal, flushed, control, crashed, ckpt, recovered, restarts>>
      BY <1>2 DEF StartupXLOG, Mode, DtxInv, OwnerInv
    <2>2. control # 0 => wal[control].redo \in 1 .. control /\ wal[control] \in Record
      <3>1. control # 0 => control \in 1 .. Len(wal)
        BY <1>w, SMT
      <3> QED
        BY <1>t, <1>w, <3>1 DEF TypeOK
    <2>3. array' \subseteq Gxid
      BY <2>1, <2>2, SMT DEF RedoList, Record
    <2>4. pos' \in 0 .. Len(wal)
      BY <1>w, <2>1, <2>2, SMT DEF RedoFrom
    <2> QED
      BY <1>t, <2>1, <2>3, <2>4 DEF TypeOK, backendVars
  <1>3. CASE Redo
    <2>1. /\ mode' \in Mode /\ pos' = pos + 1 /\ pos < Len(wal) /\ recovered = {}
          /\ UNCHANGED <<backendVars, wal, flushed, control, crashed, ckpt, recovered, restarts>>
      BY <1>3 DEF Redo, Mode, DtxInv, OwnerInv
    <2>2. pos' \in 1 .. Len(wal) /\ pos' \in 0 .. Len(wal)
      BY <1>w, <2>1, SMT
    <2>3. wal[pos'].kind \in {"commit", "forget", "checkpoint"} /\ wal[pos'].gxids \subseteq Gxid
      BY <1>w, <2>2, SMT DEF Record
    <2>4. array' \subseteq Gxid
      BY <1>3, <1>t, <2>3, SMTT(30) DEF Redo, TypeOK
    <2> QED
      BY <1>t, <2>1, <2>2, <2>4 DEF TypeOK, backendVars
  <1>4. CASE EndOfRecovery
    <2>1. /\ mode' = "recover" /\ UNCHANGED <<backendVars, crashed, ckpt, recoveryVars, restarts>>
          /\ LogShutdownCheckpoint \/ UNCHANGED <<wal, flushed, control>>
      BY <1>4 DEF EndOfRecovery
    <2> QED
      BY <1>t, <2>1, ShutdownType DEF TypeOK, Record, Mode, backendVars, recoveryVars
  <1>5. CASE WorkerRestart \/ DtmStarted
    BY <1>5, <1>t DEF WorkerRestart, DtmStarted, TypeOK, Mode, serverVars, backendVars
  <1>6. ASSUME NEW g \in Gxid, RecoverCommitted(g) PROVE TypeOK'
    <2>1. /\ wal' = Append(wal, Forget(g)) /\ recovered' \subseteq array
          /\ UNCHANGED <<serverVars, backendVars, flushed, ckpt, array, pos>>
      BY <1>6, <1>t DEF RecoverCommitted, TypeOK
    <2>2. /\ wal' \in Seq(Record) /\ Len(wal') = Len(wal) + 1
          /\ \A i \in 1 .. Len(wal) : wal'[i] = wal[i]
      BY <1>t, <2>1, RecordFacts, Appended
    <2>3. /\ flushed \in 0 .. Len(wal') /\ pos \in 0 .. Len(wal')
          /\ control # 0 => wal'[control] = wal[control]
      BY <1>w, <2>2, SMT
    <2> QED
      BY <1>t, <2>1, <2>2, <2>3 DEF TypeOK, Record, serverVars, backendVars
  <1> QED
    BY <1>1, <1>2, <1>3, <1>4, <1>5, <1>6

-----------------------------------------------------------------------------
(* The backends *)

\* What one step of a backend does, to itself and to the WAL.
LEMMA BackendFacts ==
    ASSUME DtxInv, NEW b \in Backend, BackendStep(b)
    PROVE  /\ mode = "up" /\ UNCHANGED <<mode, ckpt, recoveryVars>>
           /\ flushed' \in {flushed, Len(wal)}
           /\ \A c \in Backend \ {b} : /\ pc'[c] = pc[c] /\ gxid'[c] = gxid[c]
                                       /\ c \in includeInCkpt' <=> c \in includeInCkpt
           /\ \/ /\ pc[b] = "idle" /\ pc'[b] = "prepared" /\ gxid'[b] \in Gxid
                 /\ UNCHANGED <<wal, includeInCkpt>>
              \/ /\ pc[b] = "prepared" /\ pc'[b] = "insert" /\ gxid'[b] = gxid[b]
                 /\ UNCHANGED <<wal, includeInCkpt>>
              \/ /\ pc[b] = "insert" /\ pc'[b] = "include" /\ gxid'[b] = gxid[b]
                 /\ wal' = Append(wal, Commit(gxid[b])) /\ UNCHANGED includeInCkpt
              \/ /\ pc[b] = "include" /\ pc'[b] = "flush" /\ gxid'[b] = gxid[b]
                 /\ b \in includeInCkpt' /\ UNCHANGED wal
              \/ /\ pc[b] = "flush" /\ pc'[b] = "notify" /\ gxid'[b] = gxid[b]
                 /\ UNCHANGED <<wal, includeInCkpt>>
              \/ /\ pc[b] = "notify" /\ pc'[b] = "forget" /\ gxid'[b] = gxid[b]
                 /\ wal' = Append(wal, Forget(gxid[b])) /\ UNCHANGED includeInCkpt
              \/ /\ pc[b] = "forget" /\ pc'[b] = "idle" /\ b \notin includeInCkpt' /\ UNCHANGED wal
  <1>f. /\ pc \in [Backend -> BackendPC] /\ gxid \in [Backend -> Gxid \union {NoGxid}]
    BY DEF DtxInv, TypeOK
  <1>m. pc[b] # "idle" => mode = "up"
    BY DEF DtxInv, BackendInv
  <1>1. CASE Prepared(b)
    BY <1>1, <1>f, SMT DEF Prepared, serverVars
  <1>2. CASE EnterCommit(b)
    BY <1>2, <1>f, <1>m, SMT DEF EnterCommit, serverVars
  <1>3. CASE InsertCommitted(b)
    BY <1>3, <1>f, <1>m, SMT DEF InsertCommitted, serverVars
  <1>4. CASE IncludeInCkpt(b)
    BY <1>4, <1>f, <1>m, SMT DEF IncludeInCkpt, serverVars
  <1>5. CASE FlushCommitted(b)
    BY <1>5, <1>f, <1>m, SMT DEF FlushCommitted, serverVars
  <1>6. CASE InsertForget(b)
    BY <1>6, <1>f, <1>m, SMT DEF InsertForget, serverVars
  <1>7. CASE ClearInclude(b)
    BY <1>7, <1>f, <1>m, SMT DEF ClearInclude, serverVars
  <1> QED
    BY <1>1, <1>2, <1>3, <1>4, <1>5, <1>6, <1>7 DEF BackendStep

\* The WAL is as it was, or has one record more.
LEMMA BackendWal ==
    ASSUME DtxInv, NEW b \in Backend, BackendStep(b)
    PROVE  /\ Len(wal) <= Len(wal') /\ flushed <= flushed' /\ Len(wal') \in Nat
           /\ \A i \in 1 .. Len(wal) : wal'[i] = wal[i]
           /\ \A x, n : n \in 0 .. Len(wal) => (Within(wal', x, n) <=> Within(wal, x, n))
           /\ \A x : Logged(x) => Logged(x)'
           /\ \A x : Logged(x)' => \/ Logged(x)
                                   \/ pc[b] = "insert" /\ x = Commit(gxid[b])
                                   \/ pc[b] = "notify" /\ x = Forget(gxid[b])
           /\ pc[b] = "insert" => Logged(Commit(gxid[b]))'
           /\ pc[b] = "notify" => Logged(Forget(gxid[b]))'
           /\ WalInv'
  <1>t. TypeOK /\ WalInv /\ Len(wal) \in Nat /\ flushed \in 0 .. Len(wal)
    BY WalTypes DEF DtxInv
  <1>g. pc[b] # "idle" => gxid[b] \in Gxid
    BY DEF DtxInv, BackendInv
  <1>0. flushed <= flushed' /\ flushed' \in {flushed, Len(wal)}
    <2>1. flushed' \in {flushed, Len(wal)}
      BY BackendFacts
    <2> QED
      BY <1>t, <2>1, SMT
  <1>1. CASE pc[b] \notin {"insert", "notify"}
    <2>1. wal' = wal
      BY <1>1, BackendFacts
    <2>2. Len(wal) <= Len(wal') /\ Len(wal') \in Nat
      BY <1>t, <2>1, SMT
    <2>3. WalInv' /\ \A x : Logged(x)' <=> Logged(x)
      BY <1>t, <2>1 DEF WalInv, Logged
    <2> QED
      BY <1>0, <1>1, <2>1, <2>2, <2>3
  <1>2. CASE pc[b] \in {"insert", "notify"}
    <2>1. PICK r \in Record : /\ wal' = Append(wal, r) /\ r.kind # "checkpoint"
                              /\ pc[b] = "insert" => r = Commit(gxid[b])
                              /\ pc[b] = "notify" => r = Forget(gxid[b])
      BY <1>2, <1>g, BackendFacts, RecordFacts
    <2>2. /\ Len(wal') = Len(wal) + 1
          /\ \A i \in 1 .. Len(wal) : wal'[i] = wal[i]
          /\ \A n \in 0 .. Len(wal) : \A x : Within(wal', x, n) <=> Within(wal, x, n)
          /\ \A x : Logged(x)' <=> Logged(x) \/ x = r
      BY <1>t, <2>1, Appended
    <2>3. Len(wal) <= Len(wal') /\ Len(wal') \in Nat
      BY <1>t, <2>2, SMT
    <2>4. WalInv'
      BY <1>t, <1>2, <1>g, <2>1, AppendedWalInv DEF OfXact
    <2>5. pc[b] = "insert" => Logged(Commit(gxid[b]))'
      <3> SUFFICES ASSUME pc[b] = "insert" PROVE Within(wal', Commit(gxid'[b]), Len(wal'))
        BY DEF Logged
      <3>1. gxid'[b] = gxid[b]
        BY BackendFacts
      <3> QED
        BY <2>1, <2>2, <3>1 DEF Logged
    <2>6. pc[b] = "notify" => Logged(Forget(gxid[b]))'
      <3> SUFFICES ASSUME pc[b] = "notify" PROVE Within(wal', Forget(gxid'[b]), Len(wal'))
        BY DEF Logged
      <3>1. gxid'[b] = gxid[b]
        BY BackendFacts
      <3> QED
        BY <2>1, <2>2, <3>1 DEF Logged
    <2> QED
      BY <1>0, <1>2, <2>1, <2>2, <2>3, <2>4, <2>5, <2>6
  <1> QED
    BY <1>1, <1>2

\* The checkpoint in progress, when it is left alone.
LEMMA CkptKept ==
    ASSUME TypeOK, CkptInv, ckpt' = ckpt, ckpt.at # "none" => Running',
           Len(wal) \in Nat, Len(wal') \in Nat, Len(wal) <= Len(wal'), flushed <= flushed', flushed' \in Nat,
           \A i \in 1 .. Len(wal) : wal'[i] = wal[i],
           \A x, n : n \in 0 .. Len(wal) => (Within(wal', x, n) <=> Within(wal, x, n)),
           \A x : Logged(x) => Logged(x)',
           \A g \in Gxid : ckpt.at \in Collecting /\ SeenTo(g) => SeenTo(g)'
    PROVE  CkptInv'
  <1>w. flushed \in 0 .. Len(wal)
    BY WalTypes
  <1>1. ckpt.at = "control" => ckpt.redo \in 1 .. flushed' /\ wal'[ckpt.redo].kind = "checkpoint"
    <2> SUFFICES ASSUME ckpt.at = "control"
                 PROVE  ckpt.redo \in 1 .. flushed' /\ wal'[ckpt.redo].kind = "checkpoint"
      OBVIOUS
    <2>1. ckpt.redo \in 1 .. flushed /\ wal[ckpt.redo].kind = "checkpoint"
      BY DEF CkptInv
    <2>2. ckpt.redo \in 1 .. flushed' /\ ckpt.redo \in 1 .. Len(wal)
      BY <1>w, <2>1, SMT
    <2> QED
      BY <2>1, <2>2
  <1>2. ASSUME ckpt.at \in Collecting
        PROVE  /\ ckpt.redo \in 1 .. Len(wal') + 1
               /\ \A g \in ckpt.gxids : Logged(Commit(g))'
               /\ \A g \in Gxid : Within(wal', Commit(g), ckpt.redo - 1) => SeenTo(g)'
    <2>1. /\ ckpt.redo \in 1 .. Len(wal) + 1
          /\ \A g \in ckpt.gxids : Logged(Commit(g))
          /\ \A g \in Gxid : Within(wal, Commit(g), ckpt.redo - 1) => SeenTo(g)
      BY <1>2 DEF CkptInv
    <2>2. ckpt.redo \in 1 .. Len(wal') + 1 /\ ckpt.redo - 1 \in 0 .. Len(wal)
      BY <2>1, SMT
    <2> QED
      BY <1>2, <2>1, <2>2
  <1>3. (ckpt.at = "wait" => ckpt.todo = {}) /\ (ckpt.at # "none" => Running')
    BY DEF CkptInv
  <1> QED
    BY <1>1, <1>2, <1>3 DEF CkptInv

LEMMA BackendStepInv ==
    ASSUME DtxInv, NEW b \in Backend, BackendStep(b)
    PROVE  DtxInv'
  <1>t. TypeOK /\ BackendInv /\ OwnerInv /\ CkptInv
    BY DEF DtxInv
  <1>w. /\ Len(wal) \in Nat /\ flushed \in 0 .. Len(wal) /\ pos \in 0 .. Len(wal)
    BY <1>t, WalTypes
  <1>type. TypeOK' /\ flushed' \in Nat
    <2>1. TypeOK'
      BY BackendType
    <2>2. flushed' \in 0 .. Len(wal') /\ Len(wal') \in Nat
      BY <2>1, BackendWal DEF TypeOK
    <2> QED
      BY <2>1, <2>2, SMT
  <1>keep. \A x : Logged(x) => Logged(x)'
    BY BackendWal
  <1>row. /\ mode = "up" /\ mode' = mode /\ ckpt' = ckpt /\ array' = array /\ pos' = pos
          /\ recovered' = recovered /\ Running /\ Running'
    BY BackendFacts DEF recoveryVars, Running
  <1>1. WalInv'
    BY BackendWal
  <1>2. BackendInv'
    <2> SUFFICES ASSUME NEW c \in Backend
                 PROVE  /\ pc'[c] # "idle" => mode' = "up" /\ gxid'[c] \in Gxid
                        /\ pc'[c] \in {"include", "flush", "notify", "forget"} =>
                              Logged(Commit(gxid[c]))'
                        /\ c \in includeInCkpt' <=> pc'[c] \in {"flush", "notify", "forget"}
      BY DEF BackendInv
    <2>1. /\ pc[c] # "idle" => mode = "up" /\ gxid[c] \in Gxid
          /\ pc[c] \in {"include", "flush", "notify", "forget"} => Logged(Commit(gxid[c]))
          /\ c \in includeInCkpt <=> pc[c] \in {"flush", "notify", "forget"}
      BY <1>t DEF BackendInv
    <2>2. gxid'[c] = gxid[c] /\ Logged(Commit(gxid[c])) => Logged(Commit(gxid[c]))'
      BY <1>keep DEF Logged
    <2>3. CASE c # b
      BY <1>row, <2>1, <2>2, <2>3, BackendFacts
    <2>4. CASE c = b
      <3>1. pc[b] = "insert" => Logged(Commit(gxid[b]))'
        BY BackendWal
      <3> QED
        BY <1>row, <2>1, <2>2, <2>4, <3>1, BackendFacts
    <2> QED
      BY <2>3, <2>4
  <1>3. ASSUME NEW c \in Backend, NEW g \in Gxid, Holds(c, g)
        PROVE  \/ Logged(Forget(g))'
               \/ c # b /\ Holds(c, g)' /\ pc'[c] = pc[c]
               \/ c = b /\ Holds(c, g)' /\ pc[c] \in {"include", "flush"}
                  /\ (pc[c] = "include" => pc'[c] = "flush") /\ (pc[c] = "flush" => pc'[c] = "notify")
    <2>1. CASE c # b
      BY <1>3, <2>1, BackendFacts DEF Holds
    <2>2. CASE c = b /\ pc[b] = "notify"
      <3>1. gxid'[b] = g
        BY <1>3, <2>2, BackendFacts DEF Holds
      <3>2. Logged(Forget(gxid[b]))'
        BY <2>2, BackendWal
      <3> QED
        BY <3>1, <3>2 DEF Logged
    <2>3. CASE c = b /\ pc[b] # "notify"
      BY <1>3, <2>3, BackendFacts DEF Holds
    <2> QED
      BY <2>1, <2>2, <2>3
  <1>4. OwnerInv'
    <2>1. ASSUME NEW g \in Gxid, Logged(Commit(g))'
          PROVE  Logged(Forget(g))' \/ g \in array' \/ \E c \in Backend : Holds(c, g)'
      <3>1. CASE Logged(Commit(g))
        <4>1. Logged(Forget(g)) \/ g \in array \/ \E c \in Backend : Holds(c, g)
          BY <1>t, <1>row, <3>1 DEF OwnerInv
        <4> QED
          BY <1>keep, <1>row, <1>3, <4>1
      <3>2. CASE ~Logged(Commit(g))
        <4>1. pc[b] \in {"insert", "notify"} /\ gxid[b] \in Gxid
              /\ ((pc[b] = "insert" /\ Commit(g) = Commit(gxid[b])) \/ Commit(g) = Forget(gxid[b]))
          BY <1>t, <2>1, <3>2, BackendWal DEF BackendInv
        <4>2. pc[b] = "insert" /\ g = gxid[b]
          BY <4>1, RecordFacts
        <4>3. Holds(b, g)'
          BY <4>2, BackendFacts DEF Holds
        <4> QED
          BY <4>3
      <3> QED
        BY <3>1, <3>2
    <2>2. mode' = "up" /\ array' = {} /\ \A g \in recovered' : Logged(Forget(g))'
      BY <1>t, <1>row, <1>keep DEF OwnerInv
    <2> QED
      BY <2>1, <2>2 DEF OwnerInv
  <1>5. CkptInv'
    <2>1. ASSUME NEW g \in Gxid, SeenTo(g) PROVE SeenTo(g)'
      <3>1. ASSUME NEW c \in Backend, ToMeet(c, g) PROVE Logged(Forget(g))' \/ ToMeet(c, g)'
        <4>1. Holds(c, g)
          BY <3>1 DEF ToMeet
        <4> QED
          BY <1>row, <1>3, <3>1, <4>1 DEF ToMeet
      <3> QED
        BY <1>row, <1>keep, <2>1, <3>1 DEF SeenTo
    <2>2. /\ Len(wal) <= Len(wal') /\ flushed <= flushed' /\ Len(wal') \in Nat
          /\ \A i \in 1 .. Len(wal) : wal'[i] = wal[i]
          /\ \A x, n : n \in 0 .. Len(wal) => (Within(wal', x, n) <=> Within(wal, x, n))
      BY BackendWal
    <2> QED
      BY <1>t, <1>w, <1>type, <1>keep, <1>row, <2>1, <2>2, CkptKept
  <1> QED
    BY <1>type, <1>1, <1>2, <1>4, <1>5 DEF DtxInv

-----------------------------------------------------------------------------
(* The checkpointer *)

\* The backends and the owners, when they are left alone.
LEMMA RestKept ==
    ASSUME TypeOK, BackendInv, OwnerInv, UNCHANGED <<mode, backendVars, recoveryVars>>,
           \A x, n : n \in 0 .. Len(wal) => (Within(wal', x, n) <=> Within(wal, x, n)),
           \A x : Logged(x) => Logged(x)',
           \A g \in Gxid : Logged(Commit(g))' => Logged(Commit(g))
    PROVE  BackendInv' /\ OwnerInv'
  <1>1. /\ mode' = mode /\ pc' = pc /\ gxid' = gxid /\ includeInCkpt' = includeInCkpt
        /\ array' = array /\ pos' = pos /\ recovered' = recovered /\ (Running' <=> Running)
    BY DEF backendVars, recoveryVars, Running
  <1>2. \A b \in Backend : Logged(Commit(gxid[b])) => Logged(Commit(gxid[b]))'
    <2> SUFFICES ASSUME NEW b \in Backend, Logged(Commit(gxid[b]))
                 PROVE  Within(wal', Commit(gxid[b]), Len(wal'))
      BY <1>1 DEF Logged
    <2> QED
      BY DEF Logged
  <1>3. BackendInv'
    BY <1>1, <1>2 DEF BackendInv
  <1>4. \A b \in Backend, g \in Gxid : Holds(b, g)' <=> Holds(b, g)
    BY <1>1 DEF Holds
  <1>5. \A g \in array' : Logged(Commit(g))'
    BY <1>1 DEF OwnerInv
  <1>6. \A g \in recovered' : Logged(Forget(g))'
    BY <1>1 DEF OwnerInv
  <1>7. mode' = "redo" =>
           \A g \in Gxid : Within(wal', Commit(g), pos') => g \in array' \/ Logged(Forget(g))'
    BY <1>1, WalTypes DEF OwnerInv
  <1>8. Running' => \A g \in Gxid : Logged(Commit(g))' =>
                       Logged(Forget(g))' \/ g \in array' \/ \E b \in Backend : Holds(b, g)'
    BY <1>1, <1>4 DEF OwnerInv
  <1>9. (mode' = "up" => array' = {}) /\ (mode' \in {"down", "redo"} => recovered' = {})
    BY <1>1 DEF OwnerInv
  <1> QED
    BY <1>3, <1>5, <1>6, <1>7, <1>8, <1>9 DEF OwnerInv

\* A step of the checkpointer that logs nothing: what has been seen to still is.
LEMMA CkptMoves ==
    ASSUME DtxInv, CkptStep, UNCHANGED <<mode, backendVars, wal, recoveryVars>>, CkptInv'
    PROVE  DtxInv'
  <1>1. \A x : Logged(x)' <=> Logged(x)
    BY DEF Logged
  <1>2. BackendInv' /\ OwnerInv'
    BY <1>1, RestKept DEF DtxInv
  <1>3. WalInv'
    BY DEF DtxInv, WalInv
  <1>4. TypeOK'
    BY CkptStepType
  <1> QED
    BY <1>2, <1>3, <1>4 DEF DtxInv

\* The part of CkptInv on a checkpoint that still collects.
LEMMA CkptCollects ==
    ASSUME Running', ckpt'.at \in Collecting, ckpt'.at = "wait" => ckpt'.todo = {},
           UNCHANGED wal, ckpt'.redo \in 1 .. Len(wal) + 1,
           \A g \in ckpt'.gxids : Logged(Commit(g)),
           \A g \in Gxid : Within(wal, Commit(g), ckpt'.redo - 1) => SeenTo(g)'
    PROVE  CkptInv'
  <1>1. \A x : Logged(x)' <=> Logged(x)
    BY DEF Logged
  <1> QED
    BY <1>1 DEF CkptInv, Collecting

LEMMA CkptStepInv ==
    ASSUME DtxInv, CkptStep
    PROVE  DtxInv'
  <1>t. TypeOK /\ BackendInv /\ OwnerInv /\ CkptInv /\ WalInv /\ ckpt \in CkptType
    BY DEF DtxInv, TypeOK, CkptType, Delaying
  <1>w. /\ Len(wal) \in Nat /\ flushed \in 0 .. Len(wal) /\ pos \in 0 .. Len(wal)
    BY <1>t, WalTypes
  <1>f. ckpt.redo \in Nat /\ ckpt.gxids \in SUBSET Gxid
    BY <1>t, CkptFields
  <1>1. CASE CkptRedo
    <2>1. /\ ckpt'.at = "redo" /\ ckpt'.redo = Len(wal) + 1 /\ ckpt'.todo = Backend
          /\ ckpt'.delaying = {} /\ ckpt'.gxids = {}
      BY <1>1, SMT DEF CkptRedo, NoCkpt
    <2>2. /\ Running /\ Running' /\ array' = array /\ pc' = pc /\ gxid' = gxid
          /\ UNCHANGED <<mode, backendVars, wal, recoveryVars>>
      BY <1>1 DEF CkptRedo, serverVars, recoveryVars, backendVars, Running
    <2>3. ckpt'.redo - 1 = Len(wal) /\ ckpt'.redo \in 1 .. Len(wal) + 1
      BY <1>w, <2>1, SMT
    <2>4. ASSUME NEW g \in Gxid, Within(wal, Commit(g), ckpt'.redo - 1) PROVE SeenTo(g)'
      <3>1. Logged(Forget(g)) \/ g \in array \/ \E b \in Backend : Holds(b, g)
        BY <1>t, <2>2, <2>3, <2>4 DEF OwnerInv, Logged
      <3> QED
        BY <2>1, <2>2, <3>1 DEF SeenTo, ToMeet, Holds, Logged
    <2>5. CkptInv'
      BY <2>1, <2>2, <2>3, <2>4, CkptCollects DEF Collecting
    <2> QED
      BY <2>2, <2>5, CkptMoves
  <1>2. ASSUME NEW b \in Backend, CkptScan(b) PROVE DtxInv'
    <2>1. /\ ckpt.at = "redo" /\ ckpt'.at = "redo" /\ ckpt'.redo = ckpt.redo
          /\ ckpt'.todo = ckpt.todo \ {b} /\ ckpt'.gxids = ckpt.gxids
          /\ ckpt'.delaying = IF DelayChkpt(b) THEN ckpt.delaying \union {<<b, gxid[b]>>}
                                               ELSE ckpt.delaying
      BY <1>2, <1>t, SMT DEF CkptScan, CkptType
    <2>2. /\ array' = array /\ pc' = pc /\ gxid' = gxid /\ (Running' <=> Running)
          /\ UNCHANGED <<mode, backendVars, wal, recoveryVars>>
      BY <1>2 DEF CkptScan, serverVars, recoveryVars, backendVars, Running
    <2>3. /\ Running /\ ckpt.redo \in 1 .. Len(wal) + 1 /\ \A g \in ckpt.gxids : Logged(Commit(g))
          /\ \A g \in Gxid : Within(wal, Commit(g), ckpt.redo - 1) => SeenTo(g)
      BY <1>t, <2>1 DEF CkptInv, Collecting
    <2>4. ASSUME NEW g \in Gxid, SeenTo(g) PROVE SeenTo(g)'
      <3>1. ASSUME NEW c \in Backend, ToMeet(c, g) PROVE ToMeet(c, g)'
        BY <2>1, <2>2, <3>1 DEF ToMeet, Holds, DelayChkpt
      <3> QED
        BY <2>1, <2>2, <2>4, <3>1 DEF SeenTo, Logged
    <2>5. CkptInv'
      BY <2>1, <2>2, <2>3, <2>4, CkptCollects DEF Collecting
    <2> QED
      BY <1>2, <2>2, <2>5, CkptMoves
  <1>3. CASE CkptScanned
    <2>1. /\ ckpt.at = "redo" /\ ckpt'.at = "wait" /\ ckpt'.redo = ckpt.redo
          /\ ckpt.todo = {} /\ ckpt'.todo = ckpt.todo /\ ckpt'.gxids = ckpt.gxids
          /\ ckpt'.delaying = ckpt.delaying
      BY <1>3, <1>t, SMT DEF CkptScanned, CkptType
    <2>2. /\ array' = array /\ pc' = pc /\ gxid' = gxid /\ (Running' <=> Running)
          /\ UNCHANGED <<mode, backendVars, wal, recoveryVars>>
      BY <1>3 DEF CkptScanned, serverVars, recoveryVars, backendVars, Running
    <2>3. /\ Running /\ ckpt.redo \in 1 .. Len(wal) + 1 /\ \A g \in ckpt.gxids : Logged(Commit(g))
          /\ \A g \in Gxid : Within(wal, Commit(g), ckpt.redo - 1) => SeenTo(g)
      BY <1>t, <2>1 DEF CkptInv, Collecting
    <2>4. ASSUME NEW g \in Gxid, SeenTo(g) PROVE SeenTo(g)'
      BY <2>1, <2>2, <2>4 DEF SeenTo, ToMeet, Holds, Logged
    <2>5. CkptInv'
      BY <2>1, <2>2, <2>3, <2>4, CkptCollects DEF Collecting
    <2> QED
      BY <2>2, <2>5, CkptMoves
  <1>4. CASE CkptWaited
    <2>1. /\ ckpt.at = "wait" /\ ckpt'.at = "array" /\ ckpt'.redo = ckpt.redo
          /\ ckpt'.gxids = ckpt.gxids
          /\ \A d \in ckpt.delaying : ~(DelayChkpt(d[1]) /\ gxid[d[1]] = d[2])
      BY <1>4, <1>t, SMT DEF CkptWaited, CkptType
    <2>2. /\ array' = array /\ pc' = pc /\ gxid' = gxid /\ (Running' <=> Running)
          /\ UNCHANGED <<mode, backendVars, wal, recoveryVars>>
      BY <1>4 DEF CkptWaited, serverVars, recoveryVars, backendVars, Running
    <2>3. /\ Running /\ ckpt.redo \in 1 .. Len(wal) + 1 /\ \A g \in ckpt.gxids : Logged(Commit(g))
          /\ \A g \in Gxid : Within(wal, Commit(g), ckpt.redo - 1) => SeenTo(g)
          /\ ckpt.todo = {}
      BY <1>t, <2>1 DEF CkptInv, Collecting
    <2>4. ASSUME NEW g \in Gxid, SeenTo(g) PROVE SeenTo(g)'
      <3>1. ASSUME NEW c \in Backend, ToMeet(c, g) PROVE ToMeet(c, g)'
        <4>1. pc[c] = "notify"
          <5> SUFFICES ASSUME pc[c] # "notify" PROVE FALSE
            OBVIOUS
          <5>1. <<c, g>> \in ckpt.delaying /\ gxid[c] = g /\ DelayChkpt(c)
            BY <2>3, <3>1 DEF ToMeet, Holds, DelayChkpt
          <5>2. <<c, g>>[1] = c /\ <<c, g>>[2] = g
            OBVIOUS
          <5> QED
            BY <2>1, <5>1, <5>2
        <4> QED
          BY <2>1, <2>2, <3>1, <4>1 DEF ToMeet, Holds
      <3> QED
        BY <2>1, <2>2, <2>4, <3>1 DEF SeenTo, Logged
    <2>5. CkptInv'
      BY <2>1, <2>2, <2>3, <2>4, CkptCollects DEF Collecting
    <2> QED
      BY <2>2, <2>5, CkptMoves
  <1>5. CASE CkptArray
    <2>1. /\ ckpt.at = "array" /\ ckpt'.at = "procs" /\ ckpt'.redo = ckpt.redo
          /\ ckpt'.todo = Backend /\ ckpt'.gxids = array
      BY <1>5, <1>t, SMT DEF CkptArray, CkptType
    <2>2. /\ array' = array /\ pc' = pc /\ gxid' = gxid /\ (Running' <=> Running)
          /\ UNCHANGED <<mode, backendVars, wal, recoveryVars>>
      BY <1>5 DEF CkptArray, serverVars, recoveryVars, backendVars, Running
    <2>3. /\ Running /\ ckpt.redo \in 1 .. Len(wal) + 1 /\ \A g \in array : Logged(Commit(g))
          /\ \A g \in Gxid : Within(wal, Commit(g), ckpt.redo - 1) => SeenTo(g)
      BY <1>t, <2>1 DEF CkptInv, OwnerInv, Collecting
    <2>4. ASSUME NEW g \in Gxid, SeenTo(g) PROVE SeenTo(g)'
      BY <2>1, <2>2, <2>3, <2>4 DEF SeenTo, ToMeet, Holds, Logged
    <2>5. CkptInv'
      BY <2>1, <2>2, <2>3, <2>4, CkptCollects DEF Collecting
    <2> QED
      BY <2>2, <2>5, CkptMoves
  <1>6. ASSUME NEW b \in Backend, CkptCollect(b) PROVE DtxInv'
    <2>1. /\ ckpt.at = "procs" /\ ckpt'.at = "procs" /\ ckpt'.redo = ckpt.redo
          /\ ckpt'.todo = ckpt.todo \ {b}
          /\ ckpt'.gxids = IF b \in includeInCkpt THEN ckpt.gxids \union {gxid[b]} ELSE ckpt.gxids
      BY <1>6, <1>t, SMT DEF CkptCollect, CkptType
    <2>2. /\ array' = array /\ pc' = pc /\ gxid' = gxid /\ (Running' <=> Running)
          /\ UNCHANGED <<mode, backendVars, wal, recoveryVars>>
      BY <1>6 DEF CkptCollect, serverVars, recoveryVars, backendVars, Running
    <2>3. /\ Running /\ ckpt.redo \in 1 .. Len(wal) + 1 /\ \A g \in ckpt.gxids : Logged(Commit(g))
          /\ \A g \in Gxid : Within(wal, Commit(g), ckpt.redo - 1) => SeenTo(g)
      BY <1>t, <2>1 DEF CkptInv, Collecting
    <2>4. ASSUME NEW g \in Gxid, SeenTo(g) PROVE SeenTo(g)'
      <3>1. ASSUME NEW c \in Backend, ToMeet(c, g) PROVE g \in ckpt'.gxids \/ ToMeet(c, g)'
        <4>1. pc[c] = "notify" /\ gxid[c] = g /\ c \in ckpt.todo /\ c \in includeInCkpt
          BY <1>t, <2>1, <3>1 DEF ToMeet, Holds, BackendInv
        <4> QED
          BY <2>1, <2>2, <3>1, <4>1 DEF ToMeet, Holds
      <3> QED
        BY <2>1, <2>2, <2>4, <3>1 DEF SeenTo, Logged
    <2>5. \A g \in ckpt'.gxids : Logged(Commit(g))
      BY <1>t, <2>1, <2>3 DEF BackendInv
    <2>6. CkptInv'
      BY <2>1, <2>2, <2>3, <2>4, <2>5, CkptCollects DEF Collecting
    <2> QED
      BY <1>6, <2>2, <2>6, CkptMoves
  <1>8. CASE CkptControl
    <2>1. ckpt'.at = "none" /\ UNCHANGED <<mode, backendVars, wal, recoveryVars>>
      BY <1>8, SMT DEF CkptControl, NoCkpt
    <2>2. CkptInv'
      BY <2>1 DEF CkptInv, Collecting
    <2> QED
      BY <2>1, <2>2, CkptMoves
  <1>7. CASE CkptWrite
    <2> DEFINE r == Checkpoint(ckpt.redo, ckpt.gxids)
    <2>1. r \in Record /\ r.kind = "checkpoint" /\ r.gxids = ckpt.gxids /\ r.redo = ckpt.redo
      BY <1>f, CheckpointFacts
    <2>2. /\ wal' = Append(wal, r) /\ flushed' = Len(wal') /\ ckpt.at = "procs" /\ ckpt.todo = {}
          /\ ckpt' = [ckpt EXCEPT !.at = "control", !.redo = Len(wal')]
          /\ UNCHANGED <<mode, backendVars, recoveryVars>>
      BY <1>7 DEF CkptWrite, serverVars
    <2>3. /\ Len(wal') = Len(wal) + 1 /\ wal'[Len(wal) + 1] = r
          /\ \A n \in 0 .. Len(wal) : \A x : Within(wal', x, n) <=> Within(wal, x, n)
          /\ \A x : Logged(x)' <=> Logged(x) \/ x = r
      BY <1>t, <2>1, <2>2, Appended
    <2>4. /\ Running /\ ckpt.redo \in 1 .. Len(wal) + 1 /\ \A g \in ckpt.gxids : Logged(Commit(g))
          /\ \A g \in Gxid : Within(wal, Commit(g), ckpt.redo - 1) => SeenTo(g)
      BY <1>t, <2>2 DEF CkptInv, Collecting
    <2>5. Usable(wal', Len(wal) + 1)
      <3>1. ckpt.redo - 1 \in 0 .. Len(wal)
        BY <1>w, <2>4, SMT
      <3>2. \A g \in ckpt.gxids : Within(wal', Commit(g), Len(wal) + 1)
        BY <2>3, <2>4 DEF Logged
      <3>3. ASSUME NEW g \in Gxid, Within(wal', Commit(g), ckpt.redo - 1)
            PROVE  g \in ckpt.gxids \/ Within(wal', Forget(g), Len(wal) + 1)
        <4>1. SeenTo(g)
          BY <2>3, <2>4, <3>1, <3>3
        <4>2. Logged(Forget(g)) \/ g \in ckpt.gxids
          BY <2>2, <4>1 DEF SeenTo, ToMeet
        <4> QED
          BY <2>3, <4>2 DEF Logged
      <3> QED
        BY <2>1, <2>3, <2>4, <3>2, <3>3 DEF Usable
    <2>6. WalInv'
      BY <1>t, <2>1, <2>2, <2>5, AppendedWalInv
    <2>7. \A g \in Gxid : Commit(g) # r
      BY RecordFacts
    <2>8. BackendInv' /\ OwnerInv'
      BY <1>t, <2>2, <2>3, <2>7, RestKept
    <2>9. CkptInv'
      <3>1. ckpt'.at = "control" /\ ckpt'.redo = Len(wal) + 1
        BY <1>t, <2>2, <2>3, SMT DEF CkptType
      <3>2. ckpt'.redo \in 1 .. flushed'
        BY <1>w, <2>2, <2>3, <3>1, SMT
      <3>3. wal'[ckpt'.redo].kind = "checkpoint"
        BY <2>1, <2>3, <3>1
      <3>4. Running'
        BY <2>2, <2>4 DEF Running
      <3> QED
        BY <3>1, <3>2, <3>3, <3>4 DEF CkptInv, Collecting
    <2>10. TypeOK'
      BY CkptStepType
    <2> QED
      BY <2>6, <2>8, <2>9, <2>10 DEF DtxInv
  <1> QED
    BY <1>1, <1>2, <1>3, <1>4, <1>5, <1>6, <1>7, <1>8 DEF CkptStep

-----------------------------------------------------------------------------
(* Crash, shutdown, redo and the recovery worker *)

\* Without a backend in a transaction there is nothing to say about backends ...
LEMMA IdleBackends ==
    ASSUME BackendInv, \A b \in Backend : pc[b] = "idle", UNCHANGED <<pc, gxid, includeInCkpt>>
    PROVE  /\ BackendInv'
           /\ \A b \in Backend : \A g : ~Holds(b, g) /\ ~Holds(b, g)'
  BY DEF BackendInv, Holds

\* ... and there is none unless the coordinator is up, nor a checkpoint unless
\* it is running.
LEMMA NotUp ==
    ASSUME DtxInv
    PROVE  /\ mode # "up" => \A b \in Backend : pc[b] = "idle"
           /\ ~Running => ckpt.at = "none"
  BY DEF DtxInv, BackendInv, CkptInv

LEMMA StopInv ==
    ASSUME DtxInv, NEW n \in 0 .. Len(wal), NEW c \in 0 .. n,
           c # 0 => wal[c].kind = "checkpoint", Stop(n, c), crashed' \in BOOLEAN
    PROVE  DtxInv'
  <1>t. TypeOK /\ WalInv /\ Len(wal) \in Nat
    BY WalTypes DEF DtxInv
  <1>1. Len(wal') = n /\ \A i \in 1 .. n : wal'[i] = wal[i]
    BY <1>t, Truncated DEF Stop
  <1>2. WalInv'
    <2> SUFFICES ASSUME NEW i \in 1 .. n
                 PROVE  /\ wal'[i].kind = "checkpoint" => Usable(wal', i)
                        /\ wal'[i].kind # "checkpoint" => OfXact(wal'[i])
      BY <1>1 DEF WalInv
    <2>1. i \in 1 .. Len(wal) /\ i \in Nat \ {0} /\ \A j \in 1 .. i : j \in 1 .. n
      BY <1>t, SMT
    <2>2. /\ wal'[i].kind = "checkpoint" => Usable(wal, i)
          /\ wal'[i].kind # "checkpoint" => OfXact(wal'[i])
      BY <1>1, <1>t, <2>1 DEF WalInv
    <2> QED
      BY <1>1, <2>1, <2>2, UsableExt
  <1>3. \A b \in Backend : pc'[b] = "idle"
    BY DEF Stop
  <1>4. /\ mode' = "down" /\ includeInCkpt' = {} /\ ckpt' = NoCkpt /\ array' = {} /\ recovered' = {}
    BY DEF Stop
  <1>5. BackendInv'
    BY <1>3, <1>4 DEF BackendInv
  <1>6. ~Running'
    BY <1>4 DEF Running
  <1>7. OwnerInv'
    BY <1>4, <1>6 DEF OwnerInv
  <1>8. ckpt'.at = "none"
    BY <1>4, SMT DEF NoCkpt
  <1>9. CkptInv'
    BY <1>8 DEF CkptInv, Collecting
  <1>10. TypeOK'
    BY StopType
  <1> QED
    BY <1>2, <1>5, <1>7, <1>9, <1>10 DEF DtxInv

\* The record of a shutdown or end-of-recovery checkpoint: the array is all
\* there is to list when no backend is in a transaction.
LEMMA ShutdownUsable ==
    ASSUME TypeOK, WalInv, LogShutdownCheckpoint,
           \A g \in array : Logged(Commit(g)),
           \A g \in Gxid : Logged(Commit(g)) => Logged(Forget(g)) \/ g \in array
    PROVE  /\ WalInv'
           /\ \A x : Logged(x) => Logged(x)'
           /\ \A g \in Gxid : Logged(Commit(g))' => Logged(Commit(g))
  <1>w. Len(wal) \in Nat
    BY WalTypes
  <1>1. PICK r \in Record : /\ r.kind = "checkpoint" /\ r.redo = Len(wal) + 1 /\ r.gxids = array
                            /\ wal' = Append(wal, r)
    BY ShutdownRecord
  <1>2. /\ Len(wal') = Len(wal) + 1 /\ wal'[Len(wal) + 1] = r
        /\ \A n \in 0 .. Len(wal) : \A x : Within(wal', x, n) <=> Within(wal, x, n)
        /\ \A x : Logged(x)' <=> Logged(x) \/ x = r
    BY <1>1, Appended
  <1>3. r.redo - 1 = Len(wal) /\ Len(wal) \in 0 .. Len(wal) /\ r.redo \in 1 .. Len(wal) + 1
    BY <1>w, <1>1, SMT
  <1>4. \A x : Logged(x) => Within(wal', x, Len(wal) + 1)
    BY <1>2 DEF Logged
  <1>5. \A g \in Gxid : Within(wal', Commit(g), r.redo - 1) => Logged(Commit(g))
    BY <1>2, <1>3 DEF Logged
  <1>6. Usable(wal', Len(wal) + 1)
    BY <1>1, <1>2, <1>3, <1>4, <1>5 DEF Usable
  <1>7. WalInv'
    BY <1>1, <1>6, AppendedWalInv
  <1>8. \A g \in Gxid : Commit(g) # r
    BY <1>1, RecordFacts
  <1> QED
    BY <1>2, <1>7, <1>8

LEMMA ShutdownInv ==
    ASSUME DtxInv, Shutdown
    PROVE  DtxInv'
  <1>t. TypeOK /\ WalInv /\ BackendInv /\ OwnerInv
    BY DEF DtxInv
  <1>1. /\ Running /\ ckpt.at = "none" /\ LogShutdownCheckpoint
        /\ \A b \in Backend : pc[b] = "idle"
        /\ mode' = "down" /\ array' = {} /\ recovered' = {}
        /\ UNCHANGED <<pc, gxid, includeInCkpt, ckpt>>
    BY DEF Shutdown, backendVars
  <1>2. BackendInv' /\ \A b \in Backend : \A g : ~Holds(b, g)
    BY <1>t, <1>1, IdleBackends
  <1>3. WalInv'
    BY <1>t, <1>1, <1>2, ShutdownUsable DEF OwnerInv
  <1>4. ~Running'
    BY <1>1 DEF Running
  <1>5. OwnerInv'
    BY <1>1, <1>4 DEF OwnerInv
  <1>6. CkptInv'
    BY <1>1 DEF CkptInv, Collecting
  <1>7. TypeOK'
    BY ServerType
  <1> QED
    BY <1>2, <1>3, <1>5, <1>6, <1>7 DEF DtxInv

\* Redo starts with what its checkpoint record lists.
LEMMA StartupInv ==
    ASSUME DtxInv, StartupXLOG
    PROVE  DtxInv'
  <1>t. TypeOK /\ WalInv /\ BackendInv /\ OwnerInv
    BY DEF DtxInv
  <1>w. Len(wal) \in Nat /\ flushed \in 0 .. Len(wal) /\ control \in 0 .. flushed
    BY <1>t, WalTypes
  <1>1. /\ mode = "down" /\ mode' \in {"redo", "failed"} /\ array' = RedoList /\ pos' = RedoFrom - 1
        /\ UNCHANGED <<pc, gxid, includeInCkpt, wal, ckpt, recovered>>
    BY DEF StartupXLOG, backendVars
  <1>2. ~Running /\ ~Running' /\ recovered = {}
    BY <1>t, <1>1 DEF Running, OwnerInv
  <1>3. BackendInv'
    BY <1>t, <1>1, NotUp, IdleBackends
  <1>4. \A x : Logged(x)' <=> Logged(x)
    BY <1>1 DEF Logged
  <1>5. /\ \A g \in array' : Logged(Commit(g))
        /\ \A g \in Gxid : Within(wal, Commit(g), pos') => g \in array' \/ Logged(Forget(g))
    <2>1. CASE control = 0
      <3>1. array' = {} /\ pos' = 0 /\ 1 .. 0 = {}
        BY <1>1, <2>1, SMT DEF RedoList, RedoFrom
      <3> QED
        BY <3>1 DEF Within
    <2>2. CASE control # 0
      <3>1. control \in 1 .. Len(wal) /\ control \in Nat /\ control <= Len(wal)
        BY <1>w, <2>2, SMT
      <3>2. Usable(wal, control)
        BY <1>t, <2>2, <3>1 DEF TypeOK, WalInv
      <3>3. \A x : Within(wal, x, control) => Logged(x)
        BY <1>w, <3>1, WithinMore DEF Logged
      <3>4. array' = wal[control].gxids /\ pos' = wal[control].redo - 1
        BY <1>1, <2>2 DEF RedoList, RedoFrom
      <3> QED
        BY <3>2, <3>3, <3>4 DEF Usable
    <2> QED
      BY <2>1, <2>2
  <1>6. OwnerInv'
    BY <1>1, <1>2, <1>4, <1>5 DEF OwnerInv
  <1>7. CkptInv'
    BY <1>1, <1>2, NotUp DEF CkptInv, Collecting
  <1>8. WalInv'
    BY <1>t, <1>1 DEF WalInv
  <1>9. TypeOK'
    BY ServerType
  <1> QED
    BY <1>3, <1>6, <1>7, <1>8, <1>9 DEF DtxInv

\* Redo of a commit record adds the transaction, of a forget record drops one
\* that is forgotten.
LEMMA RedoInv ==
    ASSUME DtxInv, Redo
    PROVE  DtxInv'
  <1>t. TypeOK /\ WalInv /\ BackendInv /\ OwnerInv
    BY DEF DtxInv
  <1>w. Len(wal) \in Nat /\ pos \in 0 .. Len(wal)
    BY <1>t, WalTypes
  <1> DEFINE r == wal[pos + 1]
  <1>1. /\ mode = "redo" /\ mode' \in {"redo", "failed"} /\ pos' = pos + 1 /\ pos < Len(wal)
        /\ array' = CASE r.kind = "commit"     -> array \union r.gxids
                      [] r.kind = "forget"     -> array \ r.gxids
                      [] r.kind = "checkpoint" -> array
        /\ UNCHANGED <<pc, gxid, includeInCkpt, wal, ckpt, recovered>>
    BY DEF Redo, backendVars
  <1>2. ~Running /\ ~Running' /\ recovered = {}
    BY <1>t, <1>1 DEF Running, OwnerInv
  <1>3. BackendInv'
    BY <1>t, <1>1, NotUp, IdleBackends
  <1>4. \A x : Logged(x)' <=> Logged(x)
    BY <1>1 DEF Logged
  <1>5. pos \in Nat /\ pos + 1 \in 1 .. Len(wal)
    BY <1>w, <1>1, SMT
  <1>6. /\ \A x : Within(wal, x, pos') <=> Within(wal, x, pos) \/ r = x
        /\ Logged(r)
    <2>1. \A x : Within(wal, x, pos') <=> Within(wal, x, pos) \/ r = x
      BY <1>1, <1>5, WithinNext
    <2>2. Logged(r)
      BY <1>5 DEF Logged, Within
    <2> QED
      BY <2>1, <2>2
  <1>7. /\ \A g \in array : Logged(Commit(g))
        /\ \A g \in Gxid : Within(wal, Commit(g), pos) => g \in array \/ Logged(Forget(g))
    BY <1>t, <1>1 DEF OwnerInv
  <1>8. /\ \A g \in array' : Logged(Commit(g))
        /\ \A g \in Gxid : Within(wal, Commit(g), pos') => g \in array' \/ Logged(Forget(g))
    <2>1. CASE r.kind = "checkpoint"
      <3>1. array' = array
        BY <1>1, <2>1
      <3>2. \A g \in Gxid : r # Commit(g)
        BY <2>1, RecordFacts
      <3> QED
        BY <1>6, <1>7, <3>1, <3>2
    <2>2. CASE r.kind # "checkpoint"
      <3>1. PICK g \in Gxid : r = Commit(g) \/ r = Forget(g)
        BY <1>t, <1>5, <2>2 DEF WalInv, OfXact
      <3>2. CASE r = Commit(g)
        <4>0. /\ Commit(g).kind = "commit" /\ Commit(g).gxids = {g}
              /\ \A h : Commit(g) = Commit(h) => g = h
          BY RecordFacts
        <4>1. r.kind = "commit" /\ r.gxids = {g} /\ \A h \in Gxid : r = Commit(h) => h = g
          <5> HIDE DEF r
          <5> QED
            BY <3>2, <4>0
        <4>2. array' = array \union {g}
          BY <1>1, <4>1
        <4> QED
          BY <1>6, <1>7, <3>2, <4>1, <4>2
      <3>3. CASE r = Forget(g)
        <4>0. /\ Forget(g).kind = "forget" /\ Forget(g).gxids = {g}
              /\ \A h \in Gxid : Forget(g) # Commit(h)
          BY RecordFacts
        <4>1. r.kind = "forget" /\ r.gxids = {g} /\ \A h \in Gxid : r # Commit(h)
          <5> HIDE DEF r
          <5> QED
            BY <3>3, <4>0
        <4>2. array' = array \ {g}
          BY <1>1, <4>1
        <4> QED
          BY <1>6, <1>7, <3>3, <4>1, <4>2
      <3> QED
        BY <3>1, <3>2, <3>3
    <2> QED
      BY <2>1, <2>2
  <1>9. OwnerInv'
    BY <1>1, <1>2, <1>4, <1>8 DEF OwnerInv
  <1>10. CkptInv'
    BY <1>1, <1>2, NotUp DEF CkptInv, Collecting
  <1>11. WalInv'
    BY <1>t, <1>1 DEF WalInv
  <1>12. TypeOK'
    BY ServerType
  <1> QED
    BY <1>3, <1>9, <1>10, <1>11, <1>12 DEF DtxInv

LEMMA EndOfRecoveryInv ==
    ASSUME DtxInv, EndOfRecovery
    PROVE  DtxInv'
  <1>t. TypeOK /\ WalInv /\ BackendInv /\ OwnerInv
    BY DEF DtxInv
  <1>1. /\ mode = "redo" /\ pos = Len(wal) /\ mode' = "recover"
        /\ LogShutdownCheckpoint \/ UNCHANGED wal
        /\ UNCHANGED <<pc, gxid, includeInCkpt, ckpt, array, pos, recovered>>
    BY DEF EndOfRecovery, backendVars, recoveryVars
  <1>2. ~Running /\ Running' /\ recovered = {} /\ ckpt.at = "none"
    BY <1>t, <1>1, NotUp DEF Running, OwnerInv
  <1>3. BackendInv'
    BY <1>t, <1>1, NotUp, IdleBackends
  <1>4. /\ \A g \in array : Logged(Commit(g))
        /\ \A g \in Gxid : Logged(Commit(g)) => Logged(Forget(g)) \/ g \in array
    BY <1>t, <1>1 DEF OwnerInv, Logged
  <1>5. /\ WalInv'
        /\ \A x : Logged(x) => Logged(x)'
        /\ \A g \in Gxid : Logged(Commit(g))' => Logged(Commit(g))
    <2>1. CASE LogShutdownCheckpoint
      BY <1>t, <1>4, <2>1, ShutdownUsable
    <2>2. CASE UNCHANGED wal
      BY <1>t, <2>2 DEF WalInv, Logged
    <2> QED
      BY <1>1, <2>1, <2>2
  <1>6. OwnerInv'
    BY <1>1, <1>2, <1>4, <1>5 DEF OwnerInv
  <1>7. CkptInv'
    BY <1>1, <1>2 DEF CkptInv, Collecting
  <1>8. TypeOK'
    BY ServerType
  <1> QED
    BY <1>3, <1>5, <1>6, <1>7, <1>8 DEF DtxInv

LEMMA RecoverInv ==
    ASSUME DtxInv, NEW g \in Gxid, RecoverCommitted(g)
    PROVE  DtxInv'
  <1>t. TypeOK /\ WalInv /\ BackendInv /\ OwnerInv /\ CkptInv
    BY DEF DtxInv
  <1>w. /\ Len(wal) \in Nat /\ flushed \in 0 .. Len(wal) /\ Forget(g) \in Record
        /\ Forget(g).kind # "checkpoint" /\ OfXact(Forget(g))
    BY <1>t, WalTypes, RecordFacts DEF OfXact
  <1>1. /\ mode = "recover" /\ wal' = Append(wal, Forget(g)) /\ recovered' = recovered \union {g}
        /\ UNCHANGED <<mode, pc, gxid, includeInCkpt, flushed, ckpt, array, pos>>
    BY DEF RecoverCommitted, serverVars, backendVars
  <1>2. Running /\ Running'
    BY <1>1 DEF Running
  <1>3. BackendInv' /\ \A b \in Backend : \A h : ~Holds(b, h) /\ ~Holds(b, h)'
    BY <1>t, <1>1, NotUp, IdleBackends
  <1>4. /\ Len(wal') = Len(wal) + 1 /\ \A i \in 1 .. Len(wal) : wal'[i] = wal[i]
        /\ \A n \in 0 .. Len(wal) : \A x : Within(wal', x, n) <=> Within(wal, x, n)
        /\ \A x : Logged(x)' <=> Logged(x) \/ x = Forget(g)
    BY <1>t, <1>w, <1>1, Appended
  <1>5. WalInv'
    BY <1>t, <1>w, <1>1, AppendedWalInv
  <1>6. \A h \in Gxid : Logged(Commit(h))' => Logged(Commit(h))
    BY <1>4, RecordFacts
  <1>7. OwnerInv'
    <2>1. \A h \in Gxid : Logged(Commit(h))' => Logged(Forget(h))' \/ h \in array'
      BY <1>t, <1>1, <1>2, <1>3, <1>4, <1>6 DEF OwnerInv
    <2>2. (\A h \in array' : Logged(Commit(h))') /\ \A h \in recovered' : Logged(Forget(h))'
      BY <1>t, <1>1, <1>4 DEF OwnerInv
    <2> QED
      BY <1>1, <2>1, <2>2 DEF OwnerInv
  <1>8. CkptInv'
    <2>1. Len(wal') \in Nat /\ Len(wal) <= Len(wal') /\ flushed <= flushed' /\ flushed' \in Nat
      BY <1>w, <1>1, <1>4, SMT
    <2>2. \A h \in Gxid : SeenTo(h) => SeenTo(h)'
      BY <1>1, <1>3, <1>4 DEF SeenTo, ToMeet
    <2> QED
      BY <1>t, <1>w, <1>1, <1>2, <1>4, <2>1, <2>2, CkptKept
  <1>9. TypeOK'
    BY ServerType
  <1> QED
    BY <1>3, <1>5, <1>7, <1>8, <1>9 DEF DtxInv

LEMMA WorkerInv ==
    ASSUME DtxInv, WorkerRestart \/ DtmStarted
    PROVE  DtxInv'
  <1>t. TypeOK /\ WalInv /\ BackendInv /\ OwnerInv /\ CkptInv
    BY DEF DtxInv
  <1>1. /\ mode = "recover" /\ mode' \in {"recover", "up"} /\ recovered' = {}
        /\ UNCHANGED <<pc, gxid, includeInCkpt, wal, flushed, ckpt>>
        /\ \/ mode' = "recover" /\ array' = array
           \/ array = recovered /\ array' = {}
    BY DEF WorkerRestart, DtmStarted, serverVars, backendVars
  <1>2. Running /\ Running'
    BY <1>1 DEF Running
  <1>3. BackendInv' /\ \A b \in Backend : \A h : ~Holds(b, h) /\ ~Holds(b, h)'
    BY <1>t, <1>1, NotUp, IdleBackends
  <1>4. \A x : Logged(x)' <=> Logged(x)
    BY <1>1 DEF Logged
  <1>5. \A h \in array : h \in array' \/ Logged(Forget(h))
    BY <1>t, <1>1 DEF OwnerInv
  <1>6. OwnerInv'
    <2>1. \A h \in Gxid : Logged(Commit(h))' => Logged(Forget(h))' \/ h \in array'
      BY <1>t, <1>2, <1>3, <1>4, <1>5 DEF OwnerInv
    <2>2. \A h \in array' : Logged(Commit(h))'
      BY <1>t, <1>1, <1>4 DEF OwnerInv
    <2>3. mode' = "up" => array' = {}
      BY <1>1
    <2> QED
      BY <1>1, <2>1, <2>2, <2>3 DEF OwnerInv
  <1>7. \A h \in Gxid : SeenTo(h) => SeenTo(h)'
    BY <1>1, <1>3, <1>4, <1>5 DEF SeenTo, ToMeet
  <1>8. CkptInv'
    BY <1>t, <1>1, <1>2, <1>4, <1>7 DEF CkptInv
  <1>9. WalInv'
    BY <1>t, <1>1 DEF WalInv
  <1>10. TypeOK'
    BY ServerType
  <1> QED
    BY <1>3, <1>6, <1>8, <1>9, <1>10 DEF DtxInv

-----------------------------------------------------------------------------
(* The invariant and what follows from it *)

LEMMA DtxInvInit == Init => DtxInv
  <1> SUFFICES ASSUME Init PROVE DtxInv
    OBVIOUS
  <1>1. wal = <<>> /\ Len(wal) = 0 /\ 1 .. Len(wal) = {} /\ wal \in Seq(Record) /\ 0 .. 0 = {0}
    BY SMT DEF Init
  <1>2. /\ pc \in [Backend -> BackendPC] /\ gxid \in [Backend -> Gxid \union {NoGxid}]
        /\ restarts \in 0 .. MaxRestarts
    BY BoundAssumption, SMT DEF Init, BackendPC
  <1>3. TypeOK
    BY <1>1, <1>2, NoCkptType DEF Init, TypeOK, Record, Mode, CkptType, Delaying
  <1>4. \A b \in Backend : pc[b] = "idle"
    BY DEF Init
  <1>5. BackendInv
    BY <1>4 DEF Init, BackendInv
  <1>6. \A x : ~Logged(x)
    BY <1>1 DEF Logged, Within
  <1>7. OwnerInv
    BY <1>6 DEF Init, OwnerInv
  <1>8. ckpt.at = "none"
    BY SMT DEF Init, NoCkpt
  <1>9. CkptInv
    BY <1>8 DEF CkptInv, Collecting
  <1>10. WalInv
    BY <1>1 DEF WalInv
  <1> QED
    BY <1>3, <1>5, <1>7, <1>9, <1>10 DEF DtxInv

LEMMA DtxInvNext == DtxInv /\ [Next]_vars => DtxInv'
  <1> SUFFICES ASSUME DtxInv, [Next]_vars PROVE DtxInv'
    OBVIOUS
  <1>1. ASSUME NEW b \in Backend, BackendStep(b) PROVE DtxInv'
    BY <1>1, BackendStepInv
  <1>2. CASE CkptStep
    BY <1>2, CkptStepInv
  <1>3. CASE Crash \/ Promote
    BY <1>3, CrashStop, StopInv
  <1>4. CASE Shutdown
    BY <1>4, ShutdownInv
  <1>5. CASE StartupXLOG
    BY <1>5, StartupInv
  <1>6. CASE Redo
    BY <1>6, RedoInv
  <1>7. CASE EndOfRecovery
    BY <1>7, EndOfRecoveryInv
  <1>8. ASSUME NEW g \in Gxid, RecoverCommitted(g) PROVE DtxInv'
    BY <1>8, RecoverInv
  <1>9. CASE WorkerRestart \/ DtmStarted
    BY <1>9, WorkerInv
  <1>10. CASE UNCHANGED vars
    <2>1. /\ mode' = mode /\ pc' = pc /\ gxid' = gxid /\ includeInCkpt' = includeInCkpt /\ wal' = wal
          /\ flushed' = flushed /\ control' = control /\ crashed' = crashed /\ ckpt' = ckpt
          /\ array' = array /\ pos' = pos /\ recovered' = recovered /\ used' = used
          /\ restarts' = restarts
      BY <1>10 DEF vars
    <2>2. TypeOK' /\ WalInv'
      BY <2>1 DEF DtxInv, TypeOK, WalInv
    <2>3. (\A x : Logged(x)' <=> Logged(x)) /\ (Running' <=> Running)
      BY <2>1 DEF Logged, Running
    <2>4. BackendInv' /\ OwnerInv'
      <3>1. UNCHANGED <<mode, backendVars, recoveryVars>>
        BY <2>1 DEF backendVars, recoveryVars
      <3> QED
        BY <2>1, <2>3, <3>1, RestKept DEF DtxInv
    <2>5. CkptInv'
      <3>1. \A g \in Gxid : SeenTo(g)' <=> SeenTo(g)
        BY <2>1, <2>3 DEF SeenTo, ToMeet, Holds
      <3> QED
        BY <2>1, <2>3, <3>1 DEF DtxInv, CkptInv
    <2> QED
      BY <2>2, <2>4, <2>5 DEF DtxInv
  <1> QED
    BY <1>1, <1>2, <1>3, <1>4, <1>5, <1>6, <1>7, <1>8, <1>9, <1>10 DEF Next

\* Every behaviour of the WAL's writers, of checkpoints, crashes, promotions and
\* redo satisfies the inductive invariant.
THEOREM DtxInvariant == Spec => []DtxInv
  BY DtxInvInit, DtxInvNext, PTL DEF Spec

\* What the control file names after CreateCheckPoint() is a checkpoint record on
\* disk whose redo pointer is not behind it, for any backends and any bounds.
THEOREM TypeCorrect == Spec => []TypeOK
  <1>1. DtxInv => TypeOK
    BY DEF DtxInv
  <1> QED
    BY <1>1, DtxInvariant, PTL

LEMMA LoggedSets ==
    /\ \A g : g \in Committed <=> g \in Gxid /\ Logged(Commit(g))
    /\ \A g : g \in Forgotten <=> g \in Gxid /\ Logged(Forget(g))
  BY DEF Committed, Forgotten, Logged, Within

\* redoDtxCheckPoint(), redoDistributedCommitRecord() and
\* redoDistributedForgetCommitRecord() leave in shmCommittedGxidArray every
\* transaction with a commit and no forget record and none without a commit
\* record, from any checkpoint and any end of WAL: getDtxCheckPointInfo() may
\* run between the steps of any number of committing backends.
THEOREM RedoComplete == Spec => []RedoFindsCommitted
  <1>1. DtxInv => RedoFindsCommitted
    <2> SUFFICES ASSUME DtxInv, mode = "redo", pos = Len(wal)
                 PROVE  Committed \ Forgotten \subseteq array /\ array \subseteq Committed
      BY DEF RedoFindsCommitted
    <2>1. /\ \A g \in Gxid : Logged(Commit(g)) => g \in array \/ Logged(Forget(g))
          /\ \A g \in array : Logged(Commit(g)) /\ g \in Gxid
      BY DEF DtxInv, OwnerInv, Logged, TypeOK
    <2> QED
      BY <2>1, LoggedSets
  <1> QED
    BY <1>1, DtxInvariant, PTL

\* When backends are let in, a transaction with a commit and no forget record is
\* in the hands of the backend that logged the commit record: neither
\* recoverInDoubtTransactions() nor a restart has dropped it.
THEOREM NeverOrphaned == Spec => []OwnedUntilForgotten
  <1>1. DtxInv => OwnedUntilForgotten
    <2> SUFFICES ASSUME DtxInv, mode = "up", NEW g \in Committed \ Forgotten
                 PROVE  \E b \in Backend : gxid[b] = g /\ pc[b] \in {"include", "flush", "notify"}
      BY DEF OwnedUntilForgotten
    <2>1. g \in Gxid /\ Logged(Commit(g)) /\ ~Logged(Forget(g))
      BY LoggedSets
    <2>2. Running /\ array = {}
      BY DEF DtxInv, OwnerInv, Running
    <2> QED
      BY <2>1, <2>2 DEF DtxInv, OwnerInv, Holds
  <1> QED
    BY <1>1, DtxInvariant, PTL

=============================================================================
