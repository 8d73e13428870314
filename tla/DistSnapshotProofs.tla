------------------------- MODULE DistSnapshotProofs -------------------------
(***************************************************************************)
(* A query sees the same transactions on every segment, for any number of  *)
(* transactions, segments and snapshots.                                   *)
(***************************************************************************)
EXTENDS DistSnapshot, FiniteSetTheorems, TLAPS

USE Zenon

DSnap == [at : {"scanned"}, xmin : Nat, xmax : Nat, xminAll : Nat, inProgress : SUBSET Nat,
          seen : SUBSET Txn]
LSnap == [at : {"taken", "ready"}, xmin : Nat, xmax : Nat, xip : SUBSET Nat, globalxmin : Nat]

\* The distributed snapshots of t, and the local ones of its QE on s.
DSnaps(t) == {snaps[t][i] : i \in 1 .. Len(snaps[t])} \union ({creating[t]} \ {None})
LSnaps(s, t) == {local[s][t][i] : i \in 1 .. Len(local[s][t])}

InProcArray(s, u) == branch[s][u] \in {"prepared", "logged", "clog"}

\* What TypeOK says of single variables, and the types of the snapshots.
TypeInv ==
    /\ phase \in [Txn -> Phase]
    /\ nextGxid \in Nat
    /\ gxid \in [Txn -> Nat]
    /\ xminDS \in [Txn -> Nat]
    /\ latestCompletedGxid \in Nat
    /\ creating \in [Txn -> DSnap \union {None}]
    /\ snaps \in [Txn -> Seq(DSnap)]
    /\ xid \in [Segment -> [Txn -> Nat]]
    /\ branch \in [Segment -> [Txn -> Branch]]
    /\ distributedLog \in [Segment -> [Txn -> Nat]]
    /\ latestCompletedXid \in [Segment -> Nat]
    /\ oldestXmin \in [Segment -> Nat]
    /\ pgxactXmin \in [Segment -> [Txn -> Nat]]
    /\ local \in [Segment -> [Txn -> Seq(LSnap)]]
    /\ ignore \in [Segment -> SUBSET Txn]

\* Numbers are given out one by one to different transactions.
Numbered == {t \in Txn : gxid[t] # 0 \/ phase[t] # "active"}
CountInv ==
    /\ nextGxid <= Cardinality(Numbered) + 1
    /\ \A s \in Segment : /\ latestCompletedXid[s] < NextXid(s)
                          /\ \A t \in Txn : xid[s][t] < NextXid(s)

\* The gxids in use, and what a transaction no longer has once it is decided.
QDInv ==
    /\ latestCompletedGxid < nextGxid
    /\ \A t \in Txn :
          /\ gxid[t] < nextGxid
          /\ \A u \in Txn : gxid[t] = gxid[u] /\ gxid[t] # 0 => t = u
          /\ phase[t] \in {"commit", "abort"} => gxid[t] # 0
          /\ phase[t] \in {"committed", "aborted"} => gxid[t] = 0 /\ xminDS[t] = 0
          /\ phase[t] # "active" => creating[t] = None /\ snaps[t] = <<>>

\* The branches a transaction may have on the segments.
Allowed(p) ==
    IF p = "active" THEN {"none", "prepared"}
    ELSE IF p = "commit" THEN Branch \ {"aborted"}
    ELSE IF p = "abort" THEN {"none", "prepared", "aborted"}
    ELSE IF p = "committed" THEN {"none", "committed"}
    ELSE {"none", "aborted"}

\* The branch of t on s: its local xid is its own, and the distributed log has
\* the gxid of t, also after t has given it up, from the commit on.
BranchOf(s, t) ==
    /\ xid[s][t] = 0 <=> branch[s][t] = "none"
    /\ xid[s][t] # 0 /\ phase[t] = "active" => gxid[t] # 0
    /\ branch[s][t] \in Allowed(phase[t])
    /\ distributedLog[s][t] # 0 <=> branch[s][t] \in {"logged", "clog", "committed"}
    /\ distributedLog[s][t] # 0 /\ phase[t] = "commit" => distributedLog[s][t] = gxid[t]
    /\ distributedLog[s][t] # 0 /\ phase[t] = "committed" => distributedLog[s][t] <= latestCompletedGxid
    /\ \A u \in Txn \ {t} : /\ distributedLog[s][t] # 0 => distributedLog[s][t] # gxid[u]
                            /\ xid[s][t] # 0 => xid[s][t] # xid[s][u]
    /\ branch[s][t] \in {"committed", "aborted"} => xid[s][t] <= latestCompletedXid[s]
BranchInv == \A s \in Segment, t \in Txn : BranchOf(s, t)

\* No transaction in progress, or yet to come, has a gxid below x.
Settled(x) ==
    /\ x <= latestCompletedGxid + 1
    /\ \A u \in Txn : gxid[u] # 0 => x <= gxid[u]

\* A distributed snapshot of t tells the transactions it sees by their gxids:
\* those below its xmax that are not in progress.  Its xminAll is below every
\* snapshot there is.
SnapOf(t, ds) ==
    /\ 1 <= ds.xmin /\ Settled(ds.xmin) /\ ds.xmin <= ds.xmax
    /\ ds.xmax <= latestCompletedGxid + 1 /\ ds.xminAll <= ds.xmin
    /\ \A g \in ds.inProgress : ds.xmin <= g
    /\ \A u \in ds.seen : phase[u] = "committed"
    /\ \A u \in Txn \ {t} : gxid[u] # 0 => gxid[u] >= ds.xmax \/ gxid[u] \in ds.inProgress
    /\ \A s \in Segment, u \in Txn \ {t} : distributedLog[s][u] # 0 =>
          (u \in ds.seen <=> distributedLog[s][u] < ds.xmax /\ distributedLog[s][u] \notin ds.inProgress)
    /\ \A t2 \in Txn : \A ds2 \in DSnaps(t2) : ds.xminAll <= ds2.xmin
SnapInv == \A t \in Txn : \A ds \in DSnaps(t) : SnapOf(t, ds)

\* The xmin of CreateDistributedSnapshot().
Floor ==
    Min({gxid[u] : u \in {v \in Txn : gxid[v] \in 1 .. latestCompletedGxid}}
           \union {latestCompletedGxid + 1})

\* What a transaction advertises is below its snapshots; those that are still
\* being created agree with the proc array, because ProcArrayLock is held.
PubOf(t) ==
    /\ xminDS[t] # 0 => /\ Settled(xminDS[t])
                        /\ \A ds \in DSnaps(t) : xminDS[t] <= ds.xmin
    /\ snaps[t] # <<>> => xminDS[t] # 0
    /\ creating[t] # None => creating[t].xmin = Floor
PubInv == \A t \in Txn : PubOf(t)

\* Every snapshot that there is or will be sees a commit with gxid g.
Below(g) ==
    /\ Settled(g + 1)
    /\ \A t \in Txn : \A ds \in DSnaps(t) : g < ds.xmin

\* So it is for rows with the hint, and for what the segment has forgotten.
BelowInv ==
    \A s \in Segment, u \in Txn :
        /\ u \in ignore[s] => distributedLog[s][u] # 0 /\ Below(distributedLog[s][u])
        /\ distributedLog[s][u] # 0 /\ xid[s][u] < oldestXmin[s] => Below(distributedLog[s][u])

\* No local transaction in progress on s, or yet to come, has an xid below x.
LocallySettled(s, x) ==
    /\ x <= latestCompletedXid[s] + 1
    /\ \A u \in Txn : InProcArray(s, u) => x <= xid[s][u]

\* The QE of t on s: its snapshots are above what any QE believes to be the
\* global xmin, and a local snapshot is younger than the distributed one
\* beside it.
LocalOf(s, t) ==
    /\ pgxactXmin[s][t] # 0 => LocallySettled(s, pgxactXmin[s][t])
    /\ \A l \in LSnaps(s, t) :
          /\ 1 <= l.xmin /\ LocallySettled(s, l.xmin) /\ oldestXmin[s] <= l.xmin
          /\ pgxactXmin[s][t] # 0 /\ pgxactXmin[s][t] <= l.xmin
          /\ \A t2 \in Txn : \A l2 \in LSnaps(s, t2) : l.globalxmin <= l2.xmin
    /\ Len(local[s][t]) <= Len(snaps[t])
    /\ \A i \in 1 .. Len(local[s][t]) : \A u \in snaps[t][i].seen :
          xid[s][u] # 0 => xid[s][u] < local[s][t][i].xmax /\ xid[s][u] \notin local[s][t][i].xip
LocalInv ==
    \A s \in Segment : /\ 1 <= oldestXmin[s] /\ LocallySettled(s, oldestXmin[s])
                       /\ \A t \in Txn : LocalOf(s, t)

\* The inductive invariant.
DistInv ==
    /\ TypeInv /\ CountInv /\ QDInv /\ BranchInv
    /\ SnapInv /\ PubInv /\ BelowInv /\ LocalInv

-----------------------------------------------------------------------------
(* Minima *)

\* A set of numbers has a least one: the one with the fewest below it.
LEMMA MinFacts ==
    ASSUME NEW S \in SUBSET Nat, S # {}
    PROVE  Min(S) \in S /\ \A y \in S : Min(S) <= y
<1> DEFINE Lower(x) == {y \in S : y < x}
           T == {Lower(x) : x \in S}
<1>1. \A x \in S : Lower(x) \in FiniteSubsetsOf(S)
  <2> TAKE x \in S
  <2>1. Lower(x) \in SUBSET Nat /\ x \in Nat
    OBVIOUS
  <2>2. \A y \in Lower(x) : y <= x
    BY SMT
  <2>3. IsFiniteSet(Lower(x))
    BY <2>1, <2>2, FS_BoundedSetOfNaturals
  <2>4. QED
    BY <2>3 DEF FiniteSubsetsOf
<1>2. T # {}
  OBVIOUS
<1>3. T \subseteq FiniteSubsetsOf(S)
  <2> HIDE DEF Lower
  <2>1. QED
    BY <1>1
<1>4. IsWellFoundedOn(StrictSubsetOrdering(S), FiniteSubsetsOf(S))
  BY FS_StrictSubsetOrderingWellFounded
<1>5. PICK L \in T : \A K \in T : <<K, L>> \notin StrictSubsetOrdering(S)
  <2> HIDE DEF T
  <2>1. QED
    BY <1>2, <1>3, <1>4, WFMin
<1>6. PICK x \in S : L = Lower(x)
  BY <1>5
<1>7. ASSUME NEW y \in S, y < x PROVE FALSE
  <2>1. Lower(y) \in SUBSET S /\ Lower(x) \in SUBSET S
    OBVIOUS
  <2>2. Lower(y) \subseteq Lower(x)
    <3> SUFFICES ASSUME NEW z \in S, z < y PROVE z < x
      OBVIOUS
    <3>1. QED
      BY <1>7, SMT
  <2>3. y \in Lower(x) /\ y \notin Lower(y)
    BY <1>7, SMT
  <2>4. <<Lower(y), Lower(x)>> \notin StrictSubsetOrdering(S)
    BY <1>5, <1>6
  <2> HIDE DEF Lower
  <2>5. QED
    BY <2>1, <2>2, <2>3, <2>4, SMT DEF StrictSubsetOrdering
<1>8. \A y \in S : x <= y
  BY <1>6, <1>7, SMT
<1>9. QED
  BY <1>6, <1>8 DEF Min

-----------------------------------------------------------------------------
(* The scans of the proc arrays *)

\* The xmin of a distributed snapshot is the greatest number below which all
\* is settled, and its xminAll is below what any transaction advertises.
LEMMA ScanFacts ==
    ASSUME TypeInv, NEW t \in Txn
    PROVE  /\ Scan(t) \in DSnap
           /\ Scan(t).xmin = Floor /\ 1 <= Floor /\ Settled(Floor)
           /\ \A x \in Nat : Settled(x) => x <= Floor
           /\ Scan(t).xmax = latestCompletedGxid + 1
           /\ Scan(t).xminAll <= Floor
           /\ \A u \in Txn : xminDS[u] # 0 => Scan(t).xminAll <= xminDS[u]
           /\ Scan(t).inProgress =
                 {gxid[u] : u \in {v \in Txn : gxid[v] \in 1 .. latestCompletedGxid}} \ {gxid[t]}
           /\ Scan(t).seen = {u \in Txn : phase[u] = "committed"}
<1> DEFINE running == {gxid[u] : u \in {v \in Txn : gxid[v] \in 1 .. latestCompletedGxid}}
           xmax == latestCompletedGxid + 1
           published == {xminDS[u] : u \in Txn} \ {0}
<1>1. latestCompletedGxid \in Nat /\ xmax \in Nat
  BY SMT DEF TypeInv
<1>2. running \union {xmax} \in SUBSET Nat /\ running \union {xmax} # {}
  BY <1>1, SMT DEF TypeInv
<1>3. /\ Floor \in running \union {xmax}
      /\ \A y \in running \union {xmax} : Floor <= y
  <2>1. Floor = Min(running \union {xmax})
    BY DEF Floor
  <2> HIDE DEF running, xmax
  <2>2. QED
    BY <1>2, <2>1, MinFacts
<1>4. Floor \in Nat /\ 1 <= Floor
  <2>1. \A r \in running : r \in 1 .. latestCompletedGxid
    OBVIOUS
  <2> HIDE DEF running
  <2>2. QED
    BY <1>1, <1>3, <2>1, SMT
<1>5. Settled(Floor)
  <2>1. Floor <= xmax
    BY <1>3
  <2>2. ASSUME NEW u \in Txn, gxid[u] # 0 PROVE Floor <= gxid[u]
    <3>1. CASE gxid[u] \in 1 .. latestCompletedGxid
      BY <1>3, <3>1
    <3>2. CASE gxid[u] \notin 1 .. latestCompletedGxid
      BY <1>1, <1>4, <2>1, <2>2, <3>2, SMT DEF TypeInv
    <3>3. QED
      BY <3>1, <3>2
  <2>3. QED
    BY <2>1, <2>2 DEF Settled
<1>6. ASSUME NEW x \in Nat, Settled(x) PROVE x <= Floor
  <2>1. \A r \in running : x <= r
    BY <1>1, <1>6, SMT DEF Settled, TypeInv
  <2>2. x <= xmax
    BY <1>6 DEF Settled
  <2> HIDE DEF running, xmax
  <2>3. QED
    BY <1>3, <2>1, <2>2
<1>7. published \union {Floor} \in SUBSET Nat /\ published \union {Floor} # {}
  BY <1>4, SMT DEF TypeInv
<1>8. /\ Min(published \union {Floor}) \in Nat
      /\ \A y \in published \union {Floor} : Min(published \union {Floor}) <= y
  <2> HIDE DEF published
  <2>1. QED
    BY <1>7, MinFacts
<1>9. Scan(t) = [at |-> "scanned", xmin |-> Floor, xmax |-> xmax,
                 xminAll |-> Min(published \union {Floor}), inProgress |-> running \ {gxid[t]},
                 seen |-> {u \in Txn : phase[u] = "committed"}]
  BY DEF Scan, Floor
<1>10. running \ {gxid[t]} \in SUBSET Nat
  BY <1>2
<1>11. \A u \in Txn : xminDS[u] # 0 => Min(published \union {Floor}) <= xminDS[u]
  BY <1>8
<1>12. {u \in Txn : phase[u] = "committed"} \in SUBSET Txn
  OBVIOUS
<1> DEFINE all == Min(published \union {Floor})
           prog == running \ {gxid[t]}
           over == {u \in Txn : phase[u] = "committed"}
<1>13. all \in Nat /\ all <= Floor /\ (\A u \in Txn : xminDS[u] # 0 => all <= xminDS[u])
  BY <1>8, <1>11
<1>14. QED
  <2>1. Scan(t) = [at |-> "scanned", xmin |-> Floor, xmax |-> xmax, xminAll |-> all,
                   inProgress |-> prog, seen |-> over]
    BY <1>9
  <2>2. prog \in SUBSET Nat /\ over \in SUBSET Txn
    BY <1>10
  <2>3. prog = {gxid[u] : u \in {v \in Txn : gxid[v] \in 1 .. latestCompletedGxid}} \ {gxid[t]}
        /\ over = {u \in Txn : phase[u] = "committed"} /\ xmax = latestCompletedGxid + 1
    OBVIOUS
  <2> HIDE DEF running, xmax, published, all, prog, over
  <2>4. Scan(t) \in DSnap
    BY <1>1, <1>4, <1>13, <2>1, <2>2, SMT DEF DSnap
  <2>5. /\ Scan(t).xmin = Floor /\ Scan(t).xmax = xmax /\ Scan(t).xminAll = all
        /\ Scan(t).inProgress = prog /\ Scan(t).seen = over
    BY <2>1, SMT
  <2>6. QED
    BY <1>4, <1>5, <1>6, <1>13, <2>3, <2>4, <2>5

\* The same of a local snapshot.
LEMMA LocalScanFacts ==
    ASSUME TypeInv, BranchInv, NEW t \in Txn, NEW s \in Segment
    PROVE  /\ LocalScan(t, s) \in LSnap
           /\ 1 <= LocalScan(t, s).xmin /\ LocallySettled(s, LocalScan(t, s).xmin)
           /\ \A x \in Nat : LocallySettled(s, x) => x <= LocalScan(t, s).xmin
           /\ LocalScan(t, s).xmax = latestCompletedXid[s] + 1
           /\ LocalScan(t, s).xip \subseteq Running(s)
           /\ LocalScan(t, s).globalxmin <= LocalScan(t, s).xmin
           /\ \A u \in Txn : pgxactXmin[s][u] # 0 =>
                 LocalScan(t, s).globalxmin <= pgxactXmin[s][u]
           /\ LocalScan(t, s).at = "taken"
<1> DEFINE last == latestCompletedXid[s]
           running == Running(s) \intersect 1 .. last
           xmax == last + 1
           floor == Min(running \union {xmax})
           advertised == {pgxactXmin[s][u] : u \in Txn} \ {0}
<1>1. last \in Nat /\ xmax \in Nat
  BY SMT DEF TypeInv
<1>2. running \union {xmax} \in SUBSET Nat /\ running \union {xmax} # {}
  BY <1>1, SMT
<1>3. /\ floor \in running \union {xmax}
      /\ \A y \in running \union {xmax} : floor <= y
  <2> HIDE DEF running, xmax
  <2>1. QED
    BY <1>2, MinFacts
<1>4. floor \in Nat /\ 1 <= floor
  <2>1. \A r \in running : r \in 1 .. last
    OBVIOUS
  <2> HIDE DEF running, last, floor
  <2>2. QED
    BY <1>1, <1>3, <2>1, SMT
<1> HIDE DEF floor
<1>5. LocallySettled(s, floor)
  <2>1. floor <= xmax
    BY <1>3
  <2>2. ASSUME NEW u \in Txn, InProcArray(s, u) PROVE floor <= xid[s][u]
    <3>1. xid[s][u] \in Nat /\ xid[s][u] # 0
      <4>1. BranchOf(s, u)
        BY DEF BranchInv
      <4>2. xid[s][u] \in Nat
        <5>1. xid \in [Segment -> [Txn -> Nat]]
          BY DEF TypeInv
        <5>2. QED
          BY <5>1
      <4>3. branch[s][u] # "none"
        BY <2>2 DEF InProcArray
      <4>4. QED
        BY <4>1, <4>2, <4>3 DEF BranchOf
    <3>2. xid[s][u] \in Running(s)
      BY <2>2 DEF Running, InProcArray
    <3>3. CASE xid[s][u] \in 1 .. last
      BY <1>3, <3>2, <3>3
    <3>4. CASE xid[s][u] \notin 1 .. last
      BY <1>1, <1>4, <2>1, <3>1, <3>4, SMT
    <3>5. QED
      BY <3>3, <3>4
  <2>3. QED
    BY <2>1, <2>2 DEF LocallySettled
<1>6. ASSUME NEW x \in Nat, LocallySettled(s, x) PROVE x <= floor
  <2>1. \A r \in Running(s) : x <= r
    BY <1>6 DEF LocallySettled, Running, InProcArray
  <2>2. x <= xmax
    BY <1>6 DEF LocallySettled
  <2>3. running \subseteq Running(s)
    OBVIOUS
  <2> HIDE DEF running, xmax
  <2>4. QED
    BY <1>3, <2>1, <2>2, <2>3
<1> DEFINE all == Min(advertised \union {floor})
           prog == running \ {xid[s][t]}
<1>7. advertised \union {floor} \in SUBSET Nat /\ advertised \union {floor} # {}
  BY <1>4, SMT DEF TypeInv
<1>8. all \in Nat /\ \A y \in advertised \union {floor} : all <= y
  <2> HIDE DEF advertised
  <2>1. QED
    BY <1>7, MinFacts
<1>9. all <= floor /\ \A u \in Txn : pgxactXmin[s][u] # 0 => all <= pgxactXmin[s][u]
  BY <1>8
<1>10. LocalScan(t, s) = [at |-> "taken", xmin |-> floor, xmax |-> xmax, xip |-> prog,
                          globalxmin |-> all]
  BY DEF LocalScan, floor
<1>11. prog \in SUBSET Nat /\ prog \subseteq Running(s)
  BY <1>2
<1>12. xmax = latestCompletedXid[s] + 1
  OBVIOUS
<1> HIDE DEF running, last, xmax, advertised, all, prog
<1>13. LocalScan(t, s) \in LSnap
  BY <1>1, <1>4, <1>8, <1>10, <1>11, SMT DEF LSnap
<1>14. /\ LocalScan(t, s).at = "taken" /\ LocalScan(t, s).xmin = floor
       /\ LocalScan(t, s).xmax = xmax /\ LocalScan(t, s).xip = prog
       /\ LocalScan(t, s).globalxmin = all
  BY <1>10, SMT
<1>15. QED
  BY <1>4, <1>5, <1>6, <1>9, <1>11, <1>12, <1>13, <1>14

\* The loop of DistributedLog_AdvanceOldestXmin() never goes back, stops at
\* globalxmin, and passes only xids whose entries are below xminAll.
LEMMA AdvancedFacts ==
    ASSUME TypeInv, NEW s \in Segment, NEW g \in Nat, NEW all \in Nat
    PROVE  /\ AdvancedXmin(s, g, all) \in Nat
           /\ oldestXmin[s] <= AdvancedXmin(s, g, all)
           /\ AdvancedXmin(s, g, all) <= Larger(g, oldestXmin[s])
           /\ \A x \in Nat : oldestXmin[s] <= x /\ x < AdvancedXmin(s, g, all) =>
                 x < g /\ ~(LogEntry(s, x) >= all)
<1> DEFINE H == oldestXmin[s]
           top == Larger(g, H)
           Stop(x) == x >= g \/ LogEntry(s, x) >= all
           S == {x \in H .. top : Stop(x)}
<1>1. H \in Nat /\ top \in Nat /\ H <= top /\ g <= top
  BY SMT DEF TypeInv, Larger
<1> HIDE DEF H, top
<1>2. top \in S
  BY <1>1, SMT
<1>3. S \in SUBSET Nat
  BY <1>1, SMT
<1>4. AdvancedXmin(s, g, all) = Min(S)
  BY DEF AdvancedXmin, top, H
<1>5. Min(S) \in S /\ \A y \in S : Min(S) <= y
  <2> HIDE DEF S
  <2>1. QED
    BY <1>2, <1>3, MinFacts
<1>6. Min(S) \in H .. top
  BY <1>5
<1>7. ASSUME NEW x \in Nat, H <= x, x < Min(S) PROVE ~Stop(x)
  <2>1. x \in H .. top /\ ~(Min(S) <= x)
    <3> HIDE DEF S, Stop
    <3>1. QED
      BY <1>1, <1>6, <1>7, SMT
  <2>2. x \notin S
    BY <1>5, <2>1
  <2>3. QED
    BY <2>1, <2>2
<1>8. \A x \in Nat : H <= x /\ x < Min(S) => x < g /\ ~(LogEntry(s, x) >= all)
  <2> SUFFICES ASSUME NEW x \in Nat, H <= x, x < Min(S)
               PROVE  x < g /\ ~(LogEntry(s, x) >= all)
    OBVIOUS
  <2>1. ~(x >= g) /\ ~(LogEntry(s, x) >= all)
    BY <1>7
  <2> HIDE DEF S, Stop
  <2>2. QED
    BY <2>1, SMT
<1> HIDE DEF S, Stop
<1>9. Min(S) \in Nat /\ H <= Min(S) /\ Min(S) <= top
  BY <1>1, <1>6, SMT
<1>10. QED
  BY <1>4, <1>8, <1>9 DEF H, top

\* The distributed log's entry for the xid of u is that of u: xids are unique.
LEMMA LogEntryFact ==
    ASSUME BranchInv, NEW s \in Segment, NEW u \in Txn, xid[s][u] # 0
    PROVE  LogEntry(s, xid[s][u]) = distributedLog[s][u]
<1> DEFINE owner == {t \in Txn : xid[s][t] = xid[s][u]}
<1>1. ASSUME NEW t \in owner PROVE t = u
  <2>1. BranchOf(s, u)
    BY DEF BranchInv
  <2>2. QED
    BY <1>1, <2>1 DEF BranchOf
<1>2. owner = {u}
  BY <1>1
<1>3. (CHOOSE t \in owner : TRUE) = u
  BY <1>2
<1>4. owner # {}
  BY <1>2
<1>5. QED
  BY <1>3, <1>4 DEF LogEntry

\* The pair of snapshots that a statement on a segment uses.
LEMMA PairFacts ==
    ASSUME DistInv, NEW s \in Segment, NEW t \in Txn, NEW i \in 1 .. Len(local[s][t])
    PROVE  /\ i \in 1 .. Len(snaps[t])
           /\ snaps[t][i] \in DSnap /\ snaps[t][i] \in DSnaps(t)
           /\ local[s][t][i] \in LSnap /\ local[s][t][i] \in LSnaps(s, t)
           /\ SnapOf(t, snaps[t][i]) /\ LocalOf(s, t)
<1>1. LocalOf(s, t)
  BY DEF DistInv, LocalInv
<1>2. /\ snaps[t] \in Seq(DSnap) /\ local[s][t] \in Seq(LSnap)
      /\ Len(local[s][t]) <= Len(snaps[t])
  <2>1. snaps \in [Txn -> Seq(DSnap)] /\ local \in [Segment -> [Txn -> Seq(LSnap)]]
    BY DEF DistInv, TypeInv
  <2>2. snaps[t] \in Seq(DSnap)
    BY <2>1
  <2>3. local[s][t] \in Seq(LSnap)
    BY <2>1
  <2>4. Len(local[s][t]) <= Len(snaps[t])
    BY <1>1 DEF LocalOf
  <2>5. QED
    BY <2>2, <2>3, <2>4
<1>3. i \in 1 .. Len(snaps[t]) /\ snaps[t][i] \in DSnap /\ local[s][t][i] \in LSnap
  BY <1>2, SMT
<1>4. snaps[t][i] \in DSnaps(t) /\ local[s][t][i] \in LSnaps(s, t)
  BY <1>3 DEF DSnaps, LSnaps
<1>5. SnapOf(t, snaps[t][i])
  BY <1>4 DEF DistInv, SnapInv
<1>6. QED
  BY <1>1, <1>3, <1>4, <1>5

-----------------------------------------------------------------------------
(* Types *)

LEMMA TypeInit == Init => TypeInv
<1> SUFFICES ASSUME Init PROVE TypeInv
  OBVIOUS
<1>1. /\ \A t \in Txn : creating[t] = None
      /\ creating = [t \in Txn |-> None]
  BY DEF Init
<1>2. creating \in [Txn -> DSnap \union {None}]
  BY <1>1
<1>3. QED
  BY <1>2, SMT DEF Init, TypeInv, Phase, Branch

LEMMA TypeQD ==
    ASSUME DistInv, NEW t \in Txn,
           Activate(t) \/ SnapshotScan(t) \/ SnapshotPublish(t) \/ Decide(t) \/ EndGxact(t)
              \/ EndReadOnly(t)
    PROVE  TypeInv'
<1> USE DEF qdVars, segVars
<1>0. TypeInv
  BY DEF DistInv
<1>1. CASE Activate(t)
  BY <1>0, <1>1, SMT DEF TypeInv, Activate
<1>2. CASE SnapshotScan(t)
  <2>1. Scan(t) \in DSnap
    BY <1>0, ScanFacts
  <2>2. creating' \in [Txn -> DSnap \union {None}]
    BY <1>0, <1>2, <2>1 DEF TypeInv, SnapshotScan
  <2>3. QED
    BY <1>0, <1>2, <2>2 DEF TypeInv, SnapshotScan
<1>3. CASE SnapshotPublish(t)
  <2>1. creating[t] \in DSnap /\ creating[t].xmin \in Nat
    <3>1. creating[t] \in DSnap
      BY <1>0, <1>3 DEF TypeInv, SnapshotPublish
    <3>2. QED
      BY <3>1, SMT DEF DSnap
  <2>2. creating' \in [Txn -> DSnap \union {None}]
    BY <1>0, <1>3 DEF TypeInv, SnapshotPublish
  <2>3. snaps' \in [Txn -> Seq(DSnap)]
    <3> DEFINE D == DSnap
    <3>1. snaps \in [Txn -> Seq(D)] /\ creating[t] \in D
      BY <1>0, <2>1 DEF TypeInv
    <3>2. snaps' = [snaps EXCEPT ![t] = Append(@, creating[t])]
      BY <1>3 DEF SnapshotPublish
    <3> HIDE DEF D
    <3>3. snaps' \in [Txn -> Seq(D)]
      BY <3>1, <3>2, SMT
    <3>4. QED
      BY <3>3 DEF D
  <2>4. xminDS' \in [Txn -> Nat]
    BY <1>0, <1>3, <2>1, SMT DEF TypeInv, SnapshotPublish
  <2>5. QED
    BY <1>0, <1>3, <2>2, <2>3, <2>4 DEF TypeInv, SnapshotPublish
<1>4. ASSUME DropSnapshots(t) PROVE /\ snaps' \in [Txn -> Seq(DSnap)]
                                    /\ local' \in [Segment -> [Txn -> Seq(LSnap)]]
                                    /\ pgxactXmin' \in [Segment -> [Txn -> Nat]]
  <2> DEFINE D == DSnap
             L == LSnap
  <2>1. /\ snaps \in [Txn -> Seq(D)] /\ local \in [Segment -> [Txn -> Seq(L)]]
        /\ pgxactXmin \in [Segment -> [Txn -> Nat]]
    BY <1>0 DEF TypeInv
  <2> HIDE DEF D, L
  <2>2. snaps' \in [Txn -> Seq(D)]
    BY <1>4, <2>1, SMT DEF DropSnapshots
  <2>3. local' \in [Segment -> [Txn -> Seq(L)]]
    BY <1>4, <2>1, SMT DEF DropSnapshots
  <2>4. pgxactXmin' \in [Segment -> [Txn -> Nat]]
    BY <1>4, <2>1, SMT DEF DropSnapshots
  <2>5. QED
    BY <2>2, <2>3, <2>4 DEF D, L
<1>5. CASE Decide(t)
  <2>1. PICK p \in {"commit", "abort"} : phase' = [phase EXCEPT ![t] = p]
    BY <1>5 DEF Decide
  <2>2. phase' \in [Txn -> Phase]
    BY <1>0, <2>1 DEF TypeInv, Phase
  <2>3. QED
    BY <1>0, <1>4, <1>5, <2>2 DEF TypeInv, Decide, DropSnapshots
<1>6. ASSUME NEW o \in Phase, ResetTmGxact(t, o)
      PROVE  phase' \in [Txn -> Phase] /\ gxid' \in [Txn -> Nat] /\ xminDS' \in [Txn -> Nat]
  BY <1>0, <1>6, SMT DEF TypeInv, ResetTmGxact
<1>7. CASE EndGxact(t)
  <2>1. Outcome(t) \in Phase
    BY DEF Outcome, Phase
  <2>2. latestCompletedGxid' \in Nat
    BY <1>0, <1>7, SMT DEF TypeInv, EndGxact, Larger
  <2>3. QED
    BY <1>0, <1>6, <1>7, <2>1, <2>2 DEF TypeInv, EndGxact
<1>8. CASE EndReadOnly(t)
  <2>1. "committed" \in Phase
    BY DEF Phase
  <2>2. QED
    BY <1>0, <1>4, <1>6, <1>8, <2>1 DEF TypeInv, EndReadOnly, DropSnapshots
<1>9. QED
  BY <1>1, <1>2, <1>3, <1>5, <1>7, <1>8

\* The snapshot a QE turns "ready" is otherwise as it was.
LEMMA ReadyFacts ==
    ASSUME DistInv, NEW s \in Segment, NEW t \in Txn, NEW i \in 1 .. Len(local[s][t]),
           local' = [local EXCEPT ![s][t][i].at = "ready"]
    PROVE  /\ local' \in [Segment -> [Txn -> Seq(LSnap)]]
           /\ \A s2 \in Segment, t2 \in Txn :
                 /\ Len(local'[s2][t2]) = Len(local[s2][t2])
                 /\ \A j \in 1 .. Len(local[s2][t2]) :
                       /\ local'[s2][t2][j].xmin = local[s2][t2][j].xmin
                       /\ local'[s2][t2][j].xmax = local[s2][t2][j].xmax
                       /\ local'[s2][t2][j].xip = local[s2][t2][j].xip
                       /\ local'[s2][t2][j].globalxmin = local[s2][t2][j].globalxmin
<1> DEFINE l == [local[s][t][i] EXCEPT !.at = "ready"]
           q == [local[s][t] EXCEPT ![i] = l]
<1>1. local \in [Segment -> [Txn -> Seq(LSnap)]] /\ local[s][t] \in Seq(LSnap)
  <2>1. local \in [Segment -> [Txn -> Seq(LSnap)]]
    BY DEF DistInv, TypeInv
  <2>2. QED
    BY <2>1
<1>2. local[s][t][i] \in LSnap
  BY PairFacts
<1>3. l \in LSnap /\ l.xmin = local[s][t][i].xmin /\ l.xmax = local[s][t][i].xmax
      /\ l.xip = local[s][t][i].xip /\ l.globalxmin = local[s][t][i].globalxmin
  <2> DEFINE m == local[s][t][i]
  <2>1. m \in LSnap /\ l = [m EXCEPT !.at = "ready"]
    BY <1>2
  <2> HIDE DEF m, l
  <2>2. l \in LSnap /\ l.xmin = m.xmin /\ l.xmax = m.xmax /\ l.xip = m.xip
        /\ l.globalxmin = m.globalxmin
    BY <2>1, SMT DEF LSnap
  <2>3. QED
    BY <2>2 DEF m
<1>4. q \in Seq(LSnap) /\ Len(q) = Len(local[s][t])
      /\ \A j \in 1 .. Len(local[s][t]) : q[j] = IF j = i THEN l ELSE local[s][t][j]
  <2> DEFINE D == LSnap
  <2>1. local[s][t] \in Seq(D) /\ l \in D
    BY <1>1, <1>3
  <2> HIDE DEF D, l
  <2>2. q \in Seq(D) /\ Len(q) = Len(local[s][t])
        /\ \A j \in 1 .. Len(local[s][t]) : q[j] = IF j = i THEN l ELSE local[s][t][j]
    BY <2>1, SMT
  <2>3. QED
    BY <2>2 DEF D
<1>5. local' = [local EXCEPT ![s][t] = q]
  BY SMT
<1> HIDE DEF l, q
<1>6. /\ local' \in [Segment -> [Txn -> Seq(LSnap)]] /\ local'[s][t] = q
      /\ \A s2 \in Segment, t2 \in Txn : s2 # s \/ t2 # t => local'[s2][t2] = local[s2][t2]
  <2> DEFINE D == Seq(LSnap)
  <2>1. local \in [Segment -> [Txn -> D]] /\ q \in D
    BY <1>1, <1>4
  <2> HIDE DEF D
  <2>2. /\ local' \in [Segment -> [Txn -> D]] /\ local'[s][t] = q
        /\ \A s2 \in Segment, t2 \in Txn : s2 # s \/ t2 # t => local'[s2][t2] = local[s2][t2]
    <3> DEFINE row == [local[s] EXCEPT ![t] = q]
    <3>1. row \in [Txn -> D] /\ row[t] = q /\ \A t2 \in Txn : t2 # t => row[t2] = local[s][t2]
      BY <2>1
    <3>2. local' = [local EXCEPT ![s] = row]
      BY <1>5
    <3> HIDE DEF row
    <3>3. QED
      BY <2>1, <3>1, <3>2
  <2>3. QED
    BY <2>2 DEF D
<1>7. ASSUME NEW s2 \in Segment, NEW t2 \in Txn
      PROVE  /\ Len(local'[s2][t2]) = Len(local[s2][t2])
             /\ \A j \in 1 .. Len(local[s2][t2]) :
                   /\ local'[s2][t2][j].xmin = local[s2][t2][j].xmin
                   /\ local'[s2][t2][j].xmax = local[s2][t2][j].xmax
                   /\ local'[s2][t2][j].xip = local[s2][t2][j].xip
                   /\ local'[s2][t2][j].globalxmin = local[s2][t2][j].globalxmin
  <2>1. CASE s2 = s /\ t2 = t
    <3>1. local'[s2][t2] = q /\ local[s2][t2] = local[s][t]
      BY <1>6, <2>1
    <3>2. \A j \in 1 .. Len(local[s][t]) : q[j] = l \/ q[j] = local[s][t][j]
      BY <1>4
    <3>3. QED
      BY <1>3, <1>4, <3>1
  <2>2. CASE s2 # s \/ t2 # t
    BY <1>6, <2>2
  <2>3. QED
    BY <2>1, <2>2
<1>8. QED
  BY <1>6, <1>7

LEMMA TypeSegment ==
    ASSUME DistInv, NEW t \in Txn, NEW s \in Segment,
           \/ AssignXid(t, s) \/ SetDistributedLog(t, s) \/ SetClog(t, s) \/ RemoveCommitted(t, s)
           \/ RemoveAborted(t, s) \/ TakeLocalSnapshot(t, s) \/ AdvanceOldestXmin(t, s)
           \/ \E u \in Txn : SetIgnore(t, s, u)
    PROVE  TypeInv'
<1> USE DEF qdVars, segVars
<1>0. TypeInv
  BY DEF DistInv
<1>1. ASSUME NEW b \in Branch, branch' = [branch EXCEPT ![s][t] = b]
      PROVE  branch' \in [Segment -> [Txn -> Branch]]
  <2>1. branch \in [Segment -> [Txn -> Branch]]
    BY <1>0 DEF TypeInv
  <2>2. QED
    BY <1>1, <2>1, SMTT(30)
<1>2. CASE AssignXid(t, s)
  <2>1. NextXid(s) \in Nat
    <3>1. IsFiniteSet({u \in Txn : xid[s][u] # 0})
      BY TxnAssumption, FS_Subset
    <3>2. Cardinality({u \in Txn : xid[s][u] # 0}) \in Nat
      BY <3>1, FS_CardinalityType
    <3>3. QED
      BY <3>2, SMT DEF NextXid
  <2>2. xid' \in [Segment -> [Txn -> Nat]]
    BY <1>0, <1>2, <2>1, SMT DEF TypeInv, AssignXid
  <2>3. branch' \in [Segment -> [Txn -> Branch]]
    BY <1>1, <1>2 DEF AssignXid, Branch
  <2>4. QED
    BY <1>0, <1>2, <2>2, <2>3 DEF TypeInv, AssignXid
<1>3. CASE SetDistributedLog(t, s)
  <2>1. gxid[t] \in Nat
    BY <1>0 DEF TypeInv
  <2>2. distributedLog' \in [Segment -> [Txn -> Nat]]
    BY <1>0, <1>3, <2>1, SMT DEF TypeInv, SetDistributedLog
  <2>3. branch' \in [Segment -> [Txn -> Branch]]
    BY <1>1, <1>3 DEF SetDistributedLog, Branch
  <2>4. QED
    BY <1>0, <1>3, <2>2, <2>3 DEF TypeInv, SetDistributedLog
<1>4. CASE SetClog(t, s)
  <2>1. branch' \in [Segment -> [Txn -> Branch]]
    BY <1>1, <1>4 DEF SetClog, Branch
  <2>2. QED
    BY <1>0, <1>4, <2>1 DEF TypeInv, SetClog
<1>5. ASSUME NEW b \in Branch, LeaveProcArray(t, s, b) PROVE TypeInv'
  <2>1. branch' \in [Segment -> [Txn -> Branch]]
    BY <1>1, <1>5 DEF LeaveProcArray
  <2>2. latestCompletedXid' \in [Segment -> Nat]
    BY <1>0, <1>5, SMT DEF TypeInv, LeaveProcArray, Larger
  <2>3. QED
    BY <1>0, <1>5, <2>1, <2>2 DEF TypeInv, LeaveProcArray
<1>6. CASE RemoveCommitted(t, s) \/ RemoveAborted(t, s)
  BY <1>5, <1>6 DEF RemoveCommitted, RemoveAborted, Branch
<1>7. CASE TakeLocalSnapshot(t, s)
  <2>1. LocalScan(t, s) \in LSnap /\ LocalScan(t, s).xmin \in Nat
    <3>1. LocalScan(t, s) \in LSnap
      BY LocalScanFacts DEF DistInv
    <3>2. QED
      BY <3>1, SMT DEF LSnap
  <2>2. Append(local[s][t], LocalScan(t, s)) \in Seq(LSnap)
    <3> DEFINE D == LSnap
    <3>1. local[s][t] \in Seq(LSnap)
      <4>1. local \in [Segment -> [Txn -> Seq(LSnap)]]
        BY <1>0 DEF TypeInv
      <4>2. QED
        BY <4>1
    <3>2. local[s][t] \in Seq(D) /\ LocalScan(t, s) \in D
      BY <2>1, <3>1
    <3> HIDE DEF D
    <3>3. Append(local[s][t], LocalScan(t, s)) \in Seq(D)
      BY <3>2, SMT
    <3>4. QED
      BY <3>3 DEF D
  <2>3. local' \in [Segment -> [Txn -> Seq(LSnap)]]
    <3>1. local \in [Segment -> [Txn -> Seq(LSnap)]]
      BY <1>0 DEF TypeInv
    <3>2. local' = [local EXCEPT ![s][t] = Append(local[s][t], LocalScan(t, s))]
      BY <1>7 DEF TakeLocalSnapshot
    <3>3. QED
      BY <2>2, <3>1, <3>2, SMTT(30)
  <2>4. (IF pgxactXmin[s][t] = 0 THEN LocalScan(t, s).xmin ELSE pgxactXmin[s][t]) \in Nat
    <3>1. pgxactXmin \in [Segment -> [Txn -> Nat]]
      BY <1>0 DEF TypeInv
    <3>2. pgxactXmin[s][t] \in Nat
      BY <3>1
    <3>3. QED
      BY <2>1, <3>2
  <2>5. pgxactXmin' \in [Segment -> [Txn -> Nat]]
    BY <1>0, <1>7, <2>4, SMT DEF TypeInv, TakeLocalSnapshot
  <2>6. QED
    BY <1>0, <1>7, <2>3, <2>5 DEF TypeInv, TakeLocalSnapshot
<1>8. CASE AdvanceOldestXmin(t, s)
  <2>1. PICK i \in 1 .. Len(local[s][t]) :
           /\ oldestXmin' = [oldestXmin EXCEPT
                 ![s] = AdvancedXmin(s, local[s][t][i].globalxmin, snaps[t][i].xminAll)]
           /\ local' = [local EXCEPT ![s][t][i].at = "ready"]
    BY <1>8 DEF AdvanceOldestXmin
  <2>2. local' \in [Segment -> [Txn -> Seq(LSnap)]]
    BY <2>1, ReadyFacts
  <2>3. local[s][t][i].globalxmin \in Nat /\ snaps[t][i].xminAll \in Nat
    <3>1. local[s][t][i] \in LSnap /\ snaps[t][i] \in DSnap
      BY PairFacts
    <3>2. /\ \A l \in LSnap : l.globalxmin \in Nat
          /\ \A ds \in DSnap : ds.xminAll \in Nat
      BY SMT DEF LSnap, DSnap
    <3>3. QED
      BY <3>1, <3>2
  <2>4. AdvancedXmin(s, local[s][t][i].globalxmin, snaps[t][i].xminAll) \in Nat
    BY <1>0, <2>3, AdvancedFacts
  <2>5. oldestXmin' \in [Segment -> Nat]
    BY <1>0, <2>1, <2>4 DEF TypeInv
  <2>6. QED
    BY <1>0, <1>8, <2>2, <2>5 DEF TypeInv, AdvanceOldestXmin
<1>9. CASE \E u \in Txn : SetIgnore(t, s, u)
  <2>1. PICK u \in Txn : SetIgnore(t, s, u)
    BY <1>9
  <2>2. ignore' \in [Segment -> SUBSET Txn]
    <3> DEFINE P == SUBSET Txn
    <3>1. ignore \in [Segment -> P] /\ ignore[s] \union {u} \in P
      BY <1>0 DEF TypeInv
    <3> HIDE DEF P
    <3>2. ignore' \in [Segment -> P]
      BY <2>1, <3>1 DEF SetIgnore
    <3>3. QED
      BY <3>2 DEF P
  <2>3. QED
    BY <1>0, <2>1, <2>2 DEF TypeInv, SetIgnore
<1>10. QED
  BY <1>2, <1>3, <1>4, <1>6, <1>7, <1>8, <1>9

-----------------------------------------------------------------------------
(* The numbers given out *)

LEMMA CountFacts ==
    /\ \A A, B \in SUBSET Txn : A \subseteq B => Cardinality(A) <= Cardinality(B)
    /\ \A A \in SUBSET Txn : /\ Cardinality(A) \in Nat /\ Cardinality(A) <= Cardinality(Txn)
                             /\ \A t \in Txn \ A : Cardinality(A \union {t}) = Cardinality(A) + 1
    /\ Cardinality(Txn) \in Nat
<1>1. \A A \in SUBSET Txn : IsFiniteSet(A) /\ Cardinality(A) <= Cardinality(Txn)
  BY TxnAssumption, FS_Subset
<1>2. \A A, B \in SUBSET Txn : A \subseteq B => Cardinality(A) <= Cardinality(B)
  BY <1>1, FS_Subset
<1>3. \A A \in SUBSET Txn : Cardinality(A) \in Nat
  BY <1>1, FS_CardinalityType
<1>4. \A A \in SUBSET Txn : \A t \in Txn \ A : Cardinality(A \union {t}) = Cardinality(A) + 1
  BY <1>1, FS_AddElement
<1>5. Cardinality(Txn) \in Nat
  BY TxnAssumption, FS_CardinalityType
<1>6. QED
  BY <1>1, <1>2, <1>3, <1>4, <1>5

LEMMA NextXidFacts ==
    ASSUME NEW s \in Segment
    PROVE  NextXid(s) \in Nat /\ NextXid(s) <= Cardinality(Txn) + 1
<1> DEFINE A == {t \in Txn : xid[s][t] # 0}
<1>1. A \in SUBSET Txn
  OBVIOUS
<1>2. NextXid(s) = Cardinality(A) + 1
  BY DEF NextXid
<1> HIDE DEF A
<1>3. Cardinality(A) \in Nat /\ Cardinality(A) <= Cardinality(Txn) /\ Cardinality(Txn) \in Nat
  BY <1>1, CountFacts
<1>4. QED
  BY <1>2, <1>3, SMT

\* Nothing that was numbered loses its place.
LEMMA CountKept ==
    ASSUME DistInv, TypeInv', nextGxid' = nextGxid, Numbered \subseteq Numbered', UNCHANGED xid,
           \A s \in Segment : \/ latestCompletedXid'[s] = latestCompletedXid[s]
                              \/ \E t \in Txn : latestCompletedXid'[s] = xid[s][t]
    PROVE  CountInv'
<1>1. Numbered \in SUBSET Txn /\ Numbered' \in SUBSET Txn
  BY DEF Numbered
<1>2. Cardinality(Numbered) <= Cardinality(Numbered')
  BY <1>1, CountFacts
<1>3. Cardinality(Numbered) \in Nat /\ Cardinality(Numbered') \in Nat
  BY <1>1, CountFacts
<1>4. nextGxid \in Nat /\ nextGxid <= Cardinality(Numbered) + 1
  BY DEF DistInv, CountInv, TypeInv
<1>5. nextGxid' <= Cardinality(Numbered') + 1
  BY <1>2, <1>3, <1>4, SMT
<1>6. ASSUME NEW s \in Segment
      PROVE  /\ latestCompletedXid'[s] < NextXid(s)'
             /\ \A t \in Txn : xid'[s][t] < NextXid(s)'
  <2>1. NextXid(s)' = NextXid(s)
    BY DEF NextXid
  <2>2. latestCompletedXid[s] < NextXid(s) /\ \A t \in Txn : xid[s][t] < NextXid(s)
    BY DEF DistInv, CountInv
  <2>3. QED
    BY <2>1, <2>2
<1>7. QED
  BY <1>5, <1>6 DEF CountInv, Numbered

LEMMA CountActivate ==
    ASSUME DistInv, TypeInv', NEW t \in Txn, Activate(t)
    PROVE  CountInv'
<1>1. Numbered \in SUBSET Txn /\ Numbered' \in SUBSET Txn
  BY DEF Numbered
<1>2. t \notin Numbered
  BY DEF Numbered, Activate
<1>3. Numbered \union {t} \subseteq Numbered'
  <2>1. nextGxid # 0 /\ nextGxid \in Nat
    BY SMT DEF DistInv, QDInv, TypeInv
  <2>2. gxid'[t] # 0 /\ (\A u \in Txn : u # t => gxid'[u] = gxid[u]) /\ phase' = phase
    BY <2>1 DEF Activate, DistInv, TypeInv
  <2>3. QED
    BY <2>2 DEF Numbered
<1>4. Numbered \union {t} \in SUBSET Txn
  BY <1>1
<1>5. /\ Cardinality(Numbered \union {t}) <= Cardinality(Numbered')
      /\ Cardinality(Numbered \union {t}) = Cardinality(Numbered) + 1
      /\ Cardinality(Numbered) \in Nat /\ Cardinality(Numbered') \in Nat
  BY <1>1, <1>2, <1>3, <1>4, CountFacts
<1>6. nextGxid \in Nat /\ nextGxid <= Cardinality(Numbered) + 1 /\ nextGxid' = nextGxid + 1
  BY DEF DistInv, CountInv, TypeInv, Activate
<1>7. nextGxid' <= Cardinality(Numbered') + 1
  BY <1>5, <1>6, SMT
<1>8. \A s \in Segment : NextXid(s)' = NextXid(s)
  BY DEF NextXid, Activate, segVars
<1>9. QED
  BY <1>7, <1>8 DEF CountInv, DistInv, Numbered, Activate, segVars

LEMMA CountAssignXid ==
    ASSUME DistInv, TypeInv', NEW t \in Txn, NEW s \in Segment, AssignXid(t, s)
    PROVE  CountInv'
<1> DEFINE A(r) == {u \in Txn : xid[r][u] # 0}
           B(r) == {u \in Txn : xid'[r][u] # 0}
<1>1. /\ xid \in [Segment -> [Txn -> Nat]] /\ NextXid(s) \in Nat /\ NextXid(s) # 0
      /\ latestCompletedXid \in [Segment -> Nat]
  <2>1. Cardinality({u \in Txn : xid[s][u] # 0}) \in Nat
    BY CountFacts
  <2> DEFINE c == Cardinality({u \in Txn : xid[s][u] # 0})
  <2>2. NextXid(s) = c + 1 /\ c \in Nat
    BY <2>1 DEF NextXid
  <2> HIDE DEF c
  <2>3. NextXid(s) \in Nat /\ NextXid(s) # 0
    BY <2>2, SMT
  <2>4. QED
    BY <2>3 DEF DistInv, TypeInv
<1>2. xid'[s][t] = NextXid(s)
      /\ \A r \in Segment, u \in Txn : r # s \/ u # t => xid'[r][u] = xid[r][u]
  <2>1. xid' = [xid EXCEPT ![s][t] = NextXid(s)]
    BY DEF AssignXid
  <2>2. QED
    BY <1>1, <2>1, SMTT(30)
<1>3. B(s) = A(s) \union {t} /\ t \notin A(s) /\ \A r \in Segment : r # s => B(r) = A(r)
  <2>1. xid[s][t] = 0
    BY DEF AssignXid
  <2>2. xid'[s][t] # 0
    BY <1>1, <1>2
  <2>3. B(s) = A(s) \union {t}
    BY <1>2, <2>2
  <2>4. \A r \in Segment : r # s => B(r) = A(r)
    BY <1>2
  <2>5. QED
    BY <2>1, <2>3, <2>4
<1>4. A(s) \in SUBSET Txn
  OBVIOUS
<1>5. \A r \in Segment : NextXid(r) = Cardinality(A(r)) + 1 /\ NextXid(r)' = Cardinality(B(r)) + 1
  BY DEF NextXid
<1> HIDE DEF A, B
<1>6. Cardinality(B(s)) = Cardinality(A(s)) + 1 /\ Cardinality(A(s)) \in Nat
  BY <1>3, <1>4, CountFacts
<1>7. NextXid(s)' = NextXid(s) + 1 /\ \A r \in Segment : r # s => NextXid(r)' = NextXid(r)
  BY <1>3, <1>5, <1>6
<1>8. ASSUME NEW r \in Segment
      PROVE  /\ latestCompletedXid'[r] < NextXid(r)'
             /\ \A u \in Txn : xid'[r][u] < NextXid(r)'
  <2>1. /\ latestCompletedXid[r] < NextXid(r) /\ latestCompletedXid' = latestCompletedXid
        /\ \A u \in Txn : xid[r][u] < NextXid(r)
    BY DEF DistInv, CountInv, AssignXid
  <2>2. CASE r = s
    BY <1>1, <1>2, <1>7, <2>1, <2>2, SMT
  <2>3. CASE r # s
    BY <1>2, <1>7, <2>1, <2>3
  <2>4. QED
    BY <2>2, <2>3
<1>9. nextGxid' = nextGxid /\ Numbered' = Numbered
  BY DEF AssignXid, qdVars, Numbered
<1>10. nextGxid' <= Cardinality(Numbered') + 1
  BY <1>9 DEF DistInv, CountInv
<1>11. QED
  BY <1>8, <1>10 DEF CountInv, Numbered

\* A step of the QD other than Activate leaves the segments' counters alone
\* and numbers nothing.
LEMMA CountNext ==
    ASSUME DistInv, TypeInv', Next
    PROVE  CountInv'
<1> USE DEF qdVars, segVars
<1>1. ASSUME NEW t \in Txn,
             \/ SnapshotScan(t) \/ SnapshotPublish(t) \/ Decide(t) \/ EndGxact(t) \/ EndReadOnly(t)
      PROVE  CountInv'
  <2>1. /\ nextGxid' = nextGxid /\ UNCHANGED <<xid, latestCompletedXid>>
        /\ \A u \in Txn : /\ phase[u] # "active" => phase'[u] # "active"
                          /\ gxid[u] # 0 => gxid'[u] # 0 \/ phase'[u] # "active"
    <3>1. phase \in [Txn -> Phase] /\ gxid \in [Txn -> Nat]
      BY DEF DistInv, TypeInv
    <3>2. CASE SnapshotScan(t) \/ SnapshotPublish(t)
      BY <3>2 DEF SnapshotScan, SnapshotPublish
    <3>3. CASE Decide(t)
      BY <3>1, <3>3 DEF Decide, DropSnapshots
    <3>4. CASE EndGxact(t)
      BY <3>1, <3>4, SMT DEF EndGxact, ResetTmGxact, Outcome
    <3>5. CASE EndReadOnly(t)
      BY <3>1, <3>5, SMT DEF EndReadOnly, ResetTmGxact, DropSnapshots
    <3>6. QED
      BY <1>1, <3>2, <3>3, <3>4, <3>5
  <2>2. Numbered \subseteq Numbered'
    BY <2>1 DEF Numbered
  <2>3. QED
    BY <2>1, <2>2, CountKept
<1>2. ASSUME NEW t \in Txn, NEW s \in Segment,
             \/ SetDistributedLog(t, s) \/ SetClog(t, s) \/ RemoveCommitted(t, s)
             \/ RemoveAborted(t, s) \/ TakeLocalSnapshot(t, s) \/ AdvanceOldestXmin(t, s)
             \/ \E u \in Txn : SetIgnore(t, s, u)
      PROVE  CountInv'
  <2>1. /\ nextGxid' = nextGxid /\ UNCHANGED <<xid, gxid, phase>>
        /\ \A r \in Segment : \/ latestCompletedXid'[r] = latestCompletedXid[r]
                              \/ \E u \in Txn : latestCompletedXid'[r] = xid[r][u]
    <3>1. latestCompletedXid \in [Segment -> Nat]
      BY DEF DistInv, TypeInv
    <3>2. CASE SetDistributedLog(t, s) \/ SetClog(t, s) \/ TakeLocalSnapshot(t, s)
      BY <3>2 DEF SetDistributedLog, SetClog, TakeLocalSnapshot
    <3>3. CASE AdvanceOldestXmin(t, s)
      BY <3>3 DEF AdvanceOldestXmin
    <3>4. CASE \E u \in Txn : SetIgnore(t, s, u)
      BY <3>4 DEF SetIgnore
    <3>5. CASE RemoveCommitted(t, s) \/ RemoveAborted(t, s)
      <4>1. /\ UNCHANGED qdVars /\ UNCHANGED xid
            /\ latestCompletedXid' =
                  [latestCompletedXid EXCEPT ![s] = Larger(latestCompletedXid[s], xid[s][t])]
        BY <3>5 DEF RemoveCommitted, RemoveAborted, LeaveProcArray
      <4>2. \A r \in Segment : r # s => latestCompletedXid'[r] = latestCompletedXid[r]
        BY <3>1, <4>1
      <4>3. latestCompletedXid'[s] = latestCompletedXid[s] \/ latestCompletedXid'[s] = xid[s][t]
        BY <3>1, <4>1 DEF Larger
      <4>4. QED
        BY <4>1, <4>2, <4>3
    <3>6. QED
      BY <1>2, <3>2, <3>3, <3>4, <3>5
  <2>2. Numbered \subseteq Numbered'
    BY <2>1 DEF Numbered
  <2>3. QED
    BY <2>1, <2>2, CountKept
<1>3. QED
  BY <1>1, <1>2, CountActivate, CountAssignXid DEF Next

-----------------------------------------------------------------------------
(* The QD *)

LEMMA QDNext ==
    ASSUME DistInv, TypeInv', Next
    PROVE  QDInv'
<1> USE DEF qdVars, segVars
<1>0. /\ QDInv /\ phase \in [Txn -> Phase] /\ gxid \in [Txn -> Nat] /\ xminDS \in [Txn -> Nat]
      /\ nextGxid \in Nat /\ latestCompletedGxid \in Nat
      /\ creating \in [Txn -> DSnap \union {None}] /\ snaps \in [Txn -> Seq(DSnap)]
  BY DEF DistInv, TypeInv
<1>1. ASSUME UNCHANGED qdVars PROVE QDInv'
  BY <1>0, <1>1 DEF QDInv
<1>2. ASSUME NEW t \in Txn, Activate(t) PROVE QDInv'
  BY <1>0, <1>2, SMT DEF QDInv, Activate
<1>3. ASSUME NEW t \in Txn, SnapshotScan(t) PROVE QDInv'
  <2>1. \A u \in Txn : u # t => creating'[u] = creating[u]
    BY <1>0, <1>3 DEF SnapshotScan
  <2>2. QED
    BY <1>0, <1>3, <2>1 DEF QDInv, SnapshotScan
<1>4. ASSUME NEW t \in Txn, SnapshotPublish(t) PROVE QDInv'
  <2>1. phase[t] = "active"
    BY <1>0, <1>4 DEF QDInv, SnapshotPublish
  <2>2. \A u \in Txn : u # t => /\ creating'[u] = creating[u] /\ snaps'[u] = snaps[u]
                                /\ xminDS'[u] = xminDS[u]
    BY <1>0, <1>4 DEF SnapshotPublish
  <2>3. UNCHANGED <<phase, nextGxid, gxid, latestCompletedGxid>>
    BY <1>4 DEF SnapshotPublish
  <2>4. ASSUME NEW u \in Txn
        PROVE  /\ phase[u] \in {"committed", "aborted"} => xminDS'[u] = 0
               /\ phase[u] # "active" => creating'[u] = None /\ snaps'[u] = <<>>
    <3>1. phase[u] # "active" => u # t
      BY <2>1
    <3>2. phase[u] \in {"committed", "aborted"} => u # t
      BY <2>1
    <3>3. QED
      BY <1>0, <2>2, <3>1, <3>2 DEF QDInv
  <2>5. QED
    BY <1>0, <2>3, <2>4 DEF QDInv
<1>5. ASSUME NEW t \in Txn, Decide(t) PROVE QDInv'
  <2>1. \A u \in Txn : u # t => snaps'[u] = snaps[u] /\ phase'[u] = phase[u]
    BY <1>0, <1>5 DEF Decide, DropSnapshots
  <2>2. snaps'[t] = <<>> /\ phase'[t] \in {"commit", "abort"} /\ creating'[t] = None
    BY <1>0, <1>5 DEF Decide, DropSnapshots
  <2>3. UNCHANGED <<nextGxid, gxid, xminDS, latestCompletedGxid, creating>> /\ gxid[t] # 0
    BY <1>5 DEF Decide, DropSnapshots
  <2>4. QED
    BY <1>0, <2>1, <2>2, <2>3 DEF QDInv
<1>6. ASSUME NEW t \in Txn, NEW o \in {"committed", "aborted"}, ResetTmGxact(t, o),
             creating'[t] = None, snaps'[t] = <<>>, UNCHANGED nextGxid,
             \A u \in Txn : u # t => creating'[u] = creating[u] /\ snaps'[u] = snaps[u],
             \/ latestCompletedGxid' = latestCompletedGxid
             \/ latestCompletedGxid' = gxid[t]
      PROVE  QDInv'
  <2>1. /\ gxid'[t] = 0 /\ xminDS'[t] = 0 /\ phase'[t] = o
        /\ \A u \in Txn : u # t => /\ gxid'[u] = gxid[u] /\ xminDS'[u] = xminDS[u]
                                   /\ phase'[u] = phase[u]
    BY <1>0, <1>6 DEF ResetTmGxact
  <2>2. latestCompletedGxid' < nextGxid' /\ \A u \in Txn : gxid'[u] < nextGxid'
    <3>1. latestCompletedGxid < nextGxid /\ \A u \in Txn : gxid[u] < nextGxid
      BY <1>0 DEF QDInv
    <3>2. 0 < nextGxid
      BY <1>0, <3>1, SMT
    <3>3. QED
      BY <1>6, <2>1, <3>1, <3>2
  <2>3. ASSUME NEW u \in Txn
        PROVE  /\ \A v \in Txn : gxid'[u] = gxid'[v] /\ gxid'[u] # 0 => u = v
               /\ phase'[u] \in {"commit", "abort"} => gxid'[u] # 0
               /\ phase'[u] \in {"committed", "aborted"} => gxid'[u] = 0 /\ xminDS'[u] = 0
               /\ phase'[u] # "active" => creating'[u] = None /\ snaps'[u] = <<>>
    <3>1. CASE u = t
      BY <1>6, <2>1, <3>1, SMT
    <3>2. CASE u # t
      <4>1. \A v \in Txn : gxid[u] = gxid[v] /\ gxid[u] # 0 => u = v
        BY <1>0 DEF QDInv
      <4>2. \A v \in Txn : gxid'[u] = gxid'[v] /\ gxid'[u] # 0 => u = v
        BY <2>1, <3>2, <4>1
      <4>3. /\ phase[u] \in {"commit", "abort"} => gxid[u] # 0
            /\ phase[u] \in {"committed", "aborted"} => gxid[u] = 0 /\ xminDS[u] = 0
            /\ phase[u] # "active" => creating[u] = None /\ snaps[u] = <<>>
        BY <1>0 DEF QDInv
      <4>4. QED
        BY <1>6, <2>1, <3>2, <4>2, <4>3
    <3>3. QED
      BY <3>1, <3>2
  <2>4. QED
    BY <2>2, <2>3 DEF QDInv
<1>7. ASSUME NEW t \in Txn, EndGxact(t) PROVE QDInv'
  <2>1. phase[t] # "active" /\ ResetTmGxact(t, Outcome(t)) /\ UNCHANGED <<creating, snaps, nextGxid>>
    BY <1>7 DEF EndGxact, Answered
  <2>2. Outcome(t) \in {"committed", "aborted"}
    BY DEF Outcome
  <2>3. creating[t] = None /\ snaps[t] = <<>>
    BY <1>0, <2>1 DEF QDInv
  <2>4. latestCompletedGxid' = latestCompletedGxid \/ latestCompletedGxid' = gxid[t]
    BY <1>7 DEF EndGxact, Larger
  <2>5. QED
    BY <1>6, <2>1, <2>2, <2>3, <2>4
<1>8. ASSUME NEW t \in Txn, EndReadOnly(t) PROVE QDInv'
  <2>1. ResetTmGxact(t, "committed") /\ UNCHANGED <<creating, nextGxid, latestCompletedGxid>>
        /\ creating[t] = None
    BY <1>8 DEF EndReadOnly, DropSnapshots
  <2>2. snaps'[t] = <<>> /\ \A u \in Txn : u # t => snaps'[u] = snaps[u]
    BY <1>0, <1>8 DEF EndReadOnly, DropSnapshots
  <2>3. QED
    BY <1>6, <2>1, <2>2
<1>9. ASSUME NEW t \in Txn, NEW s \in Segment,
             \/ AssignXid(t, s) \/ SetDistributedLog(t, s) \/ SetClog(t, s) \/ RemoveCommitted(t, s)
             \/ RemoveAborted(t, s) \/ TakeLocalSnapshot(t, s) \/ AdvanceOldestXmin(t, s)
             \/ \E u \in Txn : SetIgnore(t, s, u)
      PROVE  UNCHANGED qdVars
  BY <1>9 DEF AssignXid, SetDistributedLog, SetClog, RemoveCommitted, RemoveAborted,
     LeaveProcArray, TakeLocalSnapshot, AdvanceOldestXmin, SetIgnore
<1>10. QED
  BY <1>1, <1>2, <1>3, <1>4, <1>5, <1>7, <1>8, <1>9 DEF Next

-----------------------------------------------------------------------------
(* Branches *)

\* An entry of the distributed log is that of a transaction that commits, and
\* below the next gxid.
LEMMA LoggedFacts ==
    ASSUME DistInv, NEW s \in Segment, NEW u \in Txn, distributedLog[s][u] # 0
    PROVE  /\ phase[u] \in {"commit", "committed"}
           /\ distributedLog[s][u] \in Nat /\ distributedLog[s][u] < nextGxid
           /\ xid[s][u] # 0
           /\ \/ phase[u] = "commit" /\ distributedLog[s][u] = gxid[u]
              \/ phase[u] = "committed" /\ distributedLog[s][u] <= latestCompletedGxid
<1>1. BranchOf(s, u)
  BY DEF DistInv, BranchInv
<1>2. phase[u] \in Phase /\ distributedLog[s][u] \in Nat /\ gxid[u] \in Nat /\ nextGxid \in Nat
      /\ latestCompletedGxid \in Nat
  BY SMT DEF DistInv, TypeInv
<1>3. branch[s][u] \in {"logged", "clog", "committed"} /\ branch[s][u] \in Allowed(phase[u])
  BY <1>1 DEF BranchOf
<1>4. phase[u] \in {"commit", "committed"}
  BY <1>2, <1>3, SMT DEF Allowed, Phase
<1>5. xid[s][u] # 0
  BY <1>1, <1>3 DEF BranchOf
<1>6. gxid[u] < nextGxid /\ latestCompletedGxid < nextGxid
  BY DEF DistInv, QDInv
<1>7. \/ phase[u] = "commit" /\ distributedLog[s][u] = gxid[u]
      \/ phase[u] = "committed" /\ distributedLog[s][u] <= latestCompletedGxid
  BY <1>1, <1>4 DEF BranchOf
<1>8. distributedLog[s][u] < nextGxid
  BY <1>2, <1>6, <1>7, SMT
<1>9. QED
  BY <1>2, <1>4, <1>5, <1>7, <1>8

LEMMA BranchQD ==
    ASSUME DistInv, TypeInv', NEW t \in Txn,
           Activate(t) \/ SnapshotScan(t) \/ SnapshotPublish(t) \/ Decide(t) \/ EndGxact(t)
              \/ EndReadOnly(t)
    PROVE  BranchInv'
<1> USE DEF qdVars, segVars
<1>0. /\ phase \in [Txn -> Phase] /\ gxid \in [Txn -> Nat] /\ nextGxid \in Nat
      /\ latestCompletedGxid \in Nat /\ distributedLog \in [Segment -> [Txn -> Nat]]
      /\ xid \in [Segment -> [Txn -> Nat]] /\ branch \in [Segment -> [Txn -> Branch]]
  BY DEF DistInv, TypeInv
<1>1. UNCHANGED <<xid, branch, distributedLog, latestCompletedXid>>
  <2>1. CASE Activate(t) \/ SnapshotScan(t) \/ SnapshotPublish(t)
    BY <2>1 DEF Activate, SnapshotScan, SnapshotPublish
  <2>2. CASE Decide(t) \/ EndGxact(t) \/ EndReadOnly(t)
    BY <2>2 DEF Decide, EndGxact, EndReadOnly, DropSnapshots
  <2>3. QED
    BY <2>1, <2>2
<1>2. \A s \in Segment, u \in Txn : BranchOf(s, u)
  BY DEF DistInv, BranchInv
<1>3. CASE Activate(t)
  <2> SUFFICES ASSUME NEW s \in Segment, NEW u \in Txn PROVE BranchOf(s, u)'
    BY DEF BranchInv
  <2>1. /\ gxid'[t] = nextGxid /\ nextGxid # 0 /\ UNCHANGED <<phase, latestCompletedGxid>>
        /\ \A v \in Txn : v # t => gxid'[v] = gxid[v]
    BY <1>0, <1>3, SMT DEF Activate, DistInv, QDInv
  <2>2. distributedLog[s][u] # 0 => distributedLog[s][u] # nextGxid
    BY <1>0, LoggedFacts, SMT
  <2>3. distributedLog[s][u] # 0 /\ phase[u] = "commit" => u # t
    BY <1>3 DEF Activate
  <2>4. BranchOf(s, u)
    BY <1>2
  <2>5. xid[s][u] # 0 /\ phase[u] = "active" => gxid'[u] # 0
    BY <2>1, <2>4 DEF BranchOf
  <2>6. distributedLog[s][u] # 0 /\ phase[u] = "commit" => distributedLog[s][u] = gxid'[u]
    BY <2>1, <2>3, <2>4 DEF BranchOf
  <2>7. \A v \in Txn \ {u} : distributedLog[s][u] # 0 => distributedLog[s][u] # gxid'[v]
    BY <2>1, <2>2, <2>4 DEF BranchOf
  <2>8. QED
    BY <1>1, <2>1, <2>4, <2>5, <2>6, <2>7 DEF BranchOf
<1>4. CASE SnapshotScan(t) \/ SnapshotPublish(t)
  <2>1. UNCHANGED <<phase, gxid, latestCompletedGxid>>
    BY <1>4 DEF SnapshotScan, SnapshotPublish
  <2>2. QED
    <3> SUFFICES ASSUME NEW s \in Segment, NEW u \in Txn PROVE BranchOf(s, u)'
      BY DEF BranchInv
    <3>1. BranchOf(s, u)
      BY <1>2
    <3>2. QED
      BY <1>1, <2>1, <3>1 DEF BranchOf
<1>5. CASE Decide(t)
  <2> SUFFICES ASSUME NEW s \in Segment, NEW u \in Txn PROVE BranchOf(s, u)'
    BY DEF BranchInv
  <2>1. /\ phase[t] = "active" /\ phase'[t] \in {"commit", "abort"}
        /\ UNCHANGED <<gxid, latestCompletedGxid>>
        /\ \A v \in Txn : v # t => phase'[v] = phase[v]
    BY <1>0, <1>5 DEF Decide
  <2>2. CASE u # t
    <3>1. BranchOf(s, u) /\ phase'[u] = phase[u]
      BY <1>2, <2>1, <2>2
    <3>2. QED
      BY <1>1, <2>1, <3>1 DEF BranchOf
  <2>3. CASE u = t
    <3>1. branch[s][t] \in {"none", "prepared"}
      BY <1>2, <2>1 DEF BranchOf, Allowed
    <3>2. distributedLog[s][t] = 0
      BY <1>2, <3>1 DEF BranchOf
    <3>3. branch'[s][t] \in Allowed(phase'[t])
      BY <1>1, <2>1, <3>1 DEF Allowed, Branch
    <3>4. QED
      BY <1>1, <1>2, <2>1, <2>3, <3>2, <3>3 DEF BranchOf
  <2>4. QED
    BY <2>2, <2>3
<1>6. CASE EndGxact(t)
  <2> SUFFICES ASSUME NEW s \in Segment, NEW u \in Txn PROVE BranchOf(s, u)'
    BY DEF BranchInv
  <2>1. /\ gxid'[t] = 0 /\ phase'[t] = Outcome(t)
        /\ latestCompletedGxid' = Larger(latestCompletedGxid, gxid[t])
        /\ \A v \in Txn : v # t => phase'[v] = phase[v] /\ gxid'[v] = gxid[v]
    BY <1>0, <1>6 DEF EndGxact, ResetTmGxact
  <2>2. latestCompletedGxid <= latestCompletedGxid' /\ gxid[t] <= latestCompletedGxid'
    BY <1>0, <2>1, SMT DEF Larger
  <2>3. CASE u # t
    <3>1. BranchOf(s, u)
      BY <1>2
    <3>2. distributedLog[s][u] # 0 /\ phase[u] = "committed" =>
             distributedLog[s][u] <= latestCompletedGxid'
      <4>1. distributedLog[s][u] \in Nat /\ latestCompletedGxid' \in Nat
        BY <1>0, SMT DEF TypeInv
      <4>2. QED
        BY <1>0, <2>2, <3>1, <4>1, SMT DEF BranchOf
    <3>3. distributedLog[s][u] # 0 => \A v \in Txn \ {u} : distributedLog[s][u] # gxid'[v]
      BY <2>1, <3>1 DEF BranchOf
    <3>4. QED
      BY <1>1, <2>1, <2>3, <3>1, <3>2, <3>3 DEF BranchOf
  <2>4. CASE u = t
    <3>1. Outcome(t) \in {"committed", "aborted"} /\ branch[s][t] \in Allowed(Outcome(t))
      BY <1>6 DEF EndGxact, Answered, Outcome, Allowed
    <3>2. distributedLog[s][t] # 0 => distributedLog[s][t] <= latestCompletedGxid'
      <4>1. phase[t] # "committed"
        BY <1>6 DEF EndGxact, Answered
      <4>2. distributedLog[s][t] # 0 => distributedLog[s][t] = gxid[t]
        BY <4>1, LoggedFacts
      <4>3. QED
        BY <2>2, <4>2
    <3>3. distributedLog[s][t] # 0 => \A v \in Txn \ {t} : distributedLog[s][t] # gxid'[v]
      <4>1. BranchOf(s, t)
        BY <1>2
      <4>2. QED
        BY <2>1, <4>1 DEF BranchOf
    <3>4. BranchOf(s, t)
      BY <1>2
    <3>5. phase'[t] # "active" /\ phase'[t] # "commit" /\ branch[s][t] \in Allowed(phase'[t])
      BY <2>1, <3>1
    <3>6. QED
      BY <1>1, <2>4, <3>2, <3>3, <3>4, <3>5 DEF BranchOf
  <2>5. QED
    BY <2>3, <2>4
<1>7. CASE EndReadOnly(t)
  <2> SUFFICES ASSUME NEW s \in Segment, NEW u \in Txn PROVE BranchOf(s, u)'
    BY DEF BranchInv
  <2>1. /\ phase[t] = "active" /\ phase'[t] = "committed" /\ gxid[t] = 0
        /\ UNCHANGED latestCompletedGxid /\ gxid'[t] = 0
        /\ \A v \in Txn : v # t => phase'[v] = phase[v] /\ gxid'[v] = gxid[v]
    BY <1>0, <1>7 DEF EndReadOnly, ResetTmGxact
  <2>2. xid[s][t] = 0 /\ branch[s][t] = "none"
    BY <1>2, <2>1 DEF BranchOf
  <2>3. distributedLog[s][t] = 0
    BY <1>2, <2>2 DEF BranchOf
  <2>4. CASE u # t
    <3>1. BranchOf(s, u) /\ phase'[u] = phase[u] /\ gxid'[u] = gxid[u]
      BY <1>2, <2>1, <2>4
    <3>2. \A v \in Txn : gxid'[v] = gxid[v]
      BY <2>1
    <3>3. QED
      BY <1>1, <2>1, <3>1, <3>2 DEF BranchOf
  <2>5. CASE u = t
    <3>1. "none" \in Allowed("committed")
      BY DEF Allowed
    <3>2. QED
      BY <1>1, <1>2, <2>1, <2>2, <2>3, <2>5, <3>1 DEF BranchOf
  <2>6. QED
    BY <2>4, <2>5
<1>8. QED
  BY <1>3, <1>4, <1>5, <1>6, <1>7

LEMMA BranchSegment ==
    ASSUME DistInv, TypeInv', NEW t \in Txn, NEW s \in Segment,
           \/ AssignXid(t, s) \/ SetDistributedLog(t, s) \/ SetClog(t, s) \/ RemoveCommitted(t, s)
           \/ RemoveAborted(t, s) \/ TakeLocalSnapshot(t, s) \/ AdvanceOldestXmin(t, s)
           \/ \E u \in Txn : SetIgnore(t, s, u)
    PROVE  BranchInv'
<1> USE DEF qdVars, segVars
<1>0. /\ phase \in [Txn -> Phase] /\ gxid \in [Txn -> Nat] /\ nextGxid \in Nat
      /\ latestCompletedGxid \in Nat /\ distributedLog \in [Segment -> [Txn -> Nat]]
      /\ xid \in [Segment -> [Txn -> Nat]] /\ branch \in [Segment -> [Txn -> Branch]]
      /\ latestCompletedXid \in [Segment -> Nat]
  BY DEF DistInv, TypeInv
<1>2. \A r \in Segment, u \in Txn : BranchOf(r, u)
  BY DEF DistInv, BranchInv
<1>3. CASE AssignXid(t, s)
  <2> SUFFICES ASSUME NEW r \in Segment, NEW u \in Txn PROVE BranchOf(r, u)'
    BY DEF BranchInv
  <2>1. NextXid(s) \in Nat /\ NextXid(s) # 0 /\ \A v \in Txn : xid[s][v] # NextXid(s)
    <3>1. NextXid(s) \in Nat /\ \A v \in Txn : xid[s][v] < NextXid(s)
      BY NextXidFacts DEF DistInv, CountInv
    <3>2. QED
      BY <1>0, <3>1, SMT
  <2>2. /\ xid'[s][t] = NextXid(s) /\ branch'[s][t] = "prepared"
        /\ \A q \in Segment, v \in Txn :
              q # s \/ v # t => xid'[q][v] = xid[q][v] /\ branch'[q][v] = branch[q][v]
    BY <1>0, <1>3, SMT DEF AssignXid
  <2>3. UNCHANGED <<qdVars, distributedLog, latestCompletedXid>>
        /\ phase[t] = "active" /\ gxid[t] # 0 /\ xid[s][t] = 0
    BY <1>3 DEF AssignXid
  <2>4. branch[s][t] = "none" /\ distributedLog[s][t] = 0
    BY <1>2, <2>3 DEF BranchOf
  <2>5. CASE r = s /\ u = t
    BY <2>1, <2>2, <2>3, <2>4, <2>5 DEF BranchOf, Allowed
  <2>6. CASE r # s \/ u # t
    <3>1. BranchOf(r, u)
      BY <1>2
    <3>2. xid'[r][u] = xid[r][u] /\ branch'[r][u] = branch[r][u]
      BY <2>2, <2>6
    <3>3. \A v \in Txn \ {u} : xid[r][u] # 0 => xid[r][u] # xid'[r][v]
      <4>1. \A v \in Txn \ {u} : xid[r][u] # 0 => xid[r][u] # xid[r][v]
        BY <3>1 DEF BranchOf
      <4>2. QED
        BY <2>1, <2>2, <2>6, <4>1
    <3>4. QED
      BY <2>3, <3>1, <3>2, <3>3 DEF BranchOf
  <2>7. QED
    BY <2>5, <2>6
<1>4. CASE SetDistributedLog(t, s)
  <2> SUFFICES ASSUME NEW r \in Segment, NEW u \in Txn PROVE BranchOf(r, u)'
    BY DEF BranchInv
  <2>1. /\ distributedLog'[s][t] = gxid[t] /\ branch'[s][t] = "logged"
        /\ \A q \in Segment, v \in Txn : q # s \/ v # t =>
              distributedLog'[q][v] = distributedLog[q][v] /\ branch'[q][v] = branch[q][v]
    BY <1>0, <1>4, SMT DEF SetDistributedLog
  <2>2. UNCHANGED <<qdVars, xid, latestCompletedXid>> /\ phase[t] = "commit"
        /\ branch[s][t] = "prepared"
    BY <1>4 DEF SetDistributedLog
  <2>3. BranchOf(r, u)
    BY <1>2
  <2>4. CASE r = s /\ u = t
    <3>1. gxid[t] # 0 /\ \A v \in Txn \ {t} : gxid[t] # gxid[v]
      BY <2>2 DEF DistInv, QDInv
    <3>2. "logged" \in Allowed("commit")
      BY DEF Allowed, Branch
    <3>3. BranchOf(s, t)
      BY <1>2
    <3>4. xid[s][t] # 0 /\ \A v \in Txn \ {t} : xid[s][t] # xid[s][v]
      BY <2>2, <3>3 DEF BranchOf
    <3>5. QED
      BY <2>1, <2>2, <2>4, <3>1, <3>2, <3>4 DEF BranchOf
  <2>5. CASE r # s \/ u # t
    BY <2>1, <2>2, <2>3, <2>5 DEF BranchOf
  <2>6. QED
    BY <2>4, <2>5
<1>5. CASE SetClog(t, s)
  <2> SUFFICES ASSUME NEW r \in Segment, NEW u \in Txn PROVE BranchOf(r, u)'
    BY DEF BranchInv
  <2>1. /\ branch'[s][t] = "clog" /\ branch[s][t] = "logged"
        /\ \A q \in Segment, v \in Txn : q # s \/ v # t => branch'[q][v] = branch[q][v]
    BY <1>0, <1>5, SMT DEF SetClog
  <2>2. UNCHANGED <<qdVars, xid, distributedLog, latestCompletedXid>>
    BY <1>5 DEF SetClog
  <2>3. BranchOf(r, u)
    BY <1>2
  <2>4. CASE r = s /\ u = t
    <3>1. phase[t] = "commit"
      BY <1>0, <2>1, <2>3, <2>4, SMT DEF BranchOf, Allowed, Phase
    <3>2. "clog" \in Allowed("commit")
      BY DEF Allowed, Branch
    <3>3. QED
      BY <2>1, <2>2, <2>3, <2>4, <3>1, <3>2 DEF BranchOf
  <2>5. CASE r # s \/ u # t
    BY <2>1, <2>2, <2>3, <2>5 DEF BranchOf
  <2>6. QED
    BY <2>4, <2>5
<1>6. CASE RemoveCommitted(t, s) \/ RemoveAborted(t, s)
  <2> SUFFICES ASSUME NEW r \in Segment, NEW u \in Txn PROVE BranchOf(r, u)'
    BY DEF BranchInv
  <2>1. PICK o \in {"committed", "aborted"} :
           /\ LeaveProcArray(t, s, o)
           /\ \/ o = "committed" /\ branch[s][t] = "clog"
              \/ o = "aborted" /\ branch[s][t] = "prepared" /\ phase[t] = "abort"
    BY <1>6 DEF RemoveCommitted, RemoveAborted
  <2>2. /\ branch'[s][t] = o
        /\ \A q \in Segment, v \in Txn : q # s \/ v # t => branch'[q][v] = branch[q][v]
    BY <1>0, <2>1, SMT DEF LeaveProcArray
  <2>3. UNCHANGED <<qdVars, xid, distributedLog>>
    BY <2>1 DEF LeaveProcArray
  <2>4. /\ xid[s][t] <= latestCompletedXid'[s]
        /\ \A q \in Segment : latestCompletedXid[q] <= latestCompletedXid'[q]
    BY <1>0, <2>1, SMT DEF LeaveProcArray, Larger
  <2>5. BranchOf(r, u)
    BY <1>2
  <2>6. CASE r = s /\ u = t
    <3>1. o \in Allowed(phase[t])
      BY <1>0, <2>1, <2>5, <2>6, SMT DEF BranchOf, Allowed, Phase, Branch
    <3>2. QED
      BY <2>1, <2>2, <2>3, <2>4, <2>5, <2>6, <3>1 DEF BranchOf
  <2>7. CASE r # s \/ u # t
    <3>1. branch'[r][u] = branch[r][u]
      BY <2>2, <2>7
    <3>2. branch[r][u] \in {"committed", "aborted"} => xid[r][u] <= latestCompletedXid'[r]
      <4>1. xid[r][u] \in Nat /\ latestCompletedXid[r] \in Nat /\ latestCompletedXid'[r] \in Nat
        BY <1>0, SMT DEF TypeInv
      <4>2. branch[r][u] \in {"committed", "aborted"} => xid[r][u] <= latestCompletedXid[r]
        BY <2>5 DEF BranchOf
      <4>3. latestCompletedXid[r] <= latestCompletedXid'[r]
        BY <2>4
      <4>4. \A a, b, c \in Nat : a <= b /\ b <= c => a <= c
        BY SMT
      <4>5. QED
        BY <4>1, <4>2, <4>3, <4>4
    <3>3. QED
      BY <2>3, <2>5, <3>1, <3>2 DEF BranchOf
  <2>8. QED
    BY <2>6, <2>7
<1>7. CASE TakeLocalSnapshot(t, s) \/ AdvanceOldestXmin(t, s) \/ \E u \in Txn : SetIgnore(t, s, u)
  <2>1. UNCHANGED <<qdVars, xid, branch, distributedLog, latestCompletedXid>>
    BY <1>7 DEF TakeLocalSnapshot, AdvanceOldestXmin, SetIgnore
  <2>2. QED
    <3> SUFFICES ASSUME NEW r \in Segment, NEW u \in Txn PROVE BranchOf(r, u)'
      BY DEF BranchInv
    <3>1. BranchOf(r, u)
      BY <1>2
    <3>2. QED
      BY <2>1, <3>1 DEF BranchOf
<1>8. QED
  BY <1>3, <1>4, <1>5, <1>6, <1>7

-----------------------------------------------------------------------------
(* What no step undoes *)

\* Gxids are given out in order, a commit is final, and a transaction is
\* entered in the distributed log while it commits.
Onward ==
    /\ latestCompletedGxid <= latestCompletedGxid'
    /\ \A u \in Txn : /\ gxid'[u] = gxid[u] \/ gxid'[u] = 0 \/ gxid'[u] > latestCompletedGxid'
                      /\ phase[u] = "committed" => phase'[u] = "committed"
    /\ \A s \in Segment, u \in Txn :
          \/ distributedLog'[s][u] = distributedLog[s][u]
          \/ /\ distributedLog[s][u] = 0 /\ distributedLog'[s][u] = gxid[u]
             /\ phase[u] = "commit" /\ InProcArray(s, u) /\ UNCHANGED <<xid, ignore, oldestXmin>>

\* A new distributed snapshot has the xmin of the scan.
SnapsOnward ==
    \A t \in Txn : \A ds \in DSnaps(t)' : ds \in DSnaps(t) \/ ds.xmin = Floor

LEMMA OnwardNext ==
    ASSUME DistInv, TypeInv', Next
    PROVE  Onward
<1> USE DEF qdVars, segVars
<1>0. /\ phase \in [Txn -> Phase] /\ gxid \in [Txn -> Nat] /\ nextGxid \in Nat
      /\ latestCompletedGxid \in Nat /\ distributedLog \in [Segment -> [Txn -> Nat]]
      /\ latestCompletedGxid < nextGxid
  BY DEF DistInv, TypeInv, QDInv
<1>1. latestCompletedGxid <= latestCompletedGxid
  BY <1>0, SMT
<1>2. ASSUME NEW t \in Txn, Activate(t) PROVE Onward
  <2>1. /\ \A u \in Txn : gxid'[u] = gxid[u] \/ gxid'[u] = nextGxid
        /\ UNCHANGED <<phase, latestCompletedGxid, distributedLog>>
    BY <1>0, <1>2 DEF Activate
  <2>2. nextGxid > latestCompletedGxid
    BY <1>0, SMT
  <2>3. QED
    BY <1>1, <2>1, <2>2 DEF Onward
<1>3. ASSUME NEW t \in Txn, SnapshotScan(t) \/ SnapshotPublish(t) PROVE Onward
  BY <1>1, <1>3 DEF SnapshotScan, SnapshotPublish, Onward
<1>4. ASSUME NEW t \in Txn, Decide(t) PROVE Onward
  <2>1. \A u \in Txn : phase[u] = "committed" => phase'[u] = "committed"
    BY <1>0, <1>4 DEF Decide
  <2>2. QED
    BY <1>1, <1>4, <2>1 DEF Decide, DropSnapshots, Onward
<1>5. ASSUME NEW t \in Txn, EndGxact(t) PROVE Onward
  <2>1. /\ latestCompletedGxid <= latestCompletedGxid' /\ UNCHANGED distributedLog
        /\ phase[t] # "committed"
    BY <1>0, <1>5, SMT DEF EndGxact, Larger, Answered
  <2>2. \A u \in Txn : (gxid'[u] = gxid[u] \/ gxid'[u] = 0) /\ (u # t => phase'[u] = phase[u])
    BY <1>0, <1>5 DEF EndGxact, ResetTmGxact
  <2>3. QED
    BY <2>1, <2>2 DEF Onward
<1>6. ASSUME NEW t \in Txn, EndReadOnly(t) PROVE Onward
  <2>1. UNCHANGED <<latestCompletedGxid, distributedLog>> /\ phase[t] # "committed"
    BY <1>6 DEF EndReadOnly, DropSnapshots
  <2>2. \A u \in Txn : (gxid'[u] = gxid[u] \/ gxid'[u] = 0) /\ (u # t => phase'[u] = phase[u])
    BY <1>0, <1>6 DEF EndReadOnly, ResetTmGxact
  <2>3. QED
    BY <1>1, <2>1, <2>2 DEF Onward
<1>7. ASSUME NEW t \in Txn, NEW s \in Segment, SetDistributedLog(t, s) PROVE Onward
  <2>1. /\ distributedLog'[s][t] = gxid[t]
        /\ \A r \in Segment, u \in Txn :
              r # s \/ u # t => distributedLog'[r][u] = distributedLog[r][u]
    BY <1>0, <1>7, SMT DEF SetDistributedLog
  <2>2. UNCHANGED <<qdVars, xid, ignore, oldestXmin>> /\ phase[t] = "commit"
        /\ branch[s][t] = "prepared"
    BY <1>7 DEF SetDistributedLog
  <2>3. distributedLog[s][t] = 0 /\ InProcArray(s, t)
    BY <2>2 DEF DistInv, BranchInv, BranchOf, InProcArray
  <2>4. QED
    BY <1>1, <2>1, <2>2, <2>3 DEF Onward
<1>8. ASSUME NEW t \in Txn, NEW s \in Segment,
             \/ AssignXid(t, s) \/ SetClog(t, s) \/ RemoveCommitted(t, s)
             \/ RemoveAborted(t, s) \/ TakeLocalSnapshot(t, s) \/ AdvanceOldestXmin(t, s)
             \/ \E u \in Txn : SetIgnore(t, s, u)
      PROVE  Onward
  <2>1. UNCHANGED <<qdVars, distributedLog>>
    BY <1>8 DEF AssignXid, SetClog, RemoveCommitted, RemoveAborted, LeaveProcArray,
       TakeLocalSnapshot, AdvanceOldestXmin, SetIgnore
  <2>2. QED
    BY <1>1, <2>1 DEF Onward
<1>9. QED
  BY <1>2, <1>3, <1>4, <1>5, <1>6, <1>7, <1>8 DEF Next

LEMMA SettledStays ==
    ASSUME TypeInv, TypeInv', Onward, NEW x \in Nat, Settled(x)
    PROVE  Settled(x)'
<1>1. /\ latestCompletedGxid \in Nat /\ latestCompletedGxid' \in Nat
      /\ latestCompletedGxid <= latestCompletedGxid' /\ x <= latestCompletedGxid + 1
  BY DEF TypeInv, Onward, Settled
<1>2. ASSUME NEW u \in Txn, gxid'[u] # 0 PROVE x <= gxid'[u]
  <2>1. gxid'[u] = gxid[u] \/ gxid'[u] > latestCompletedGxid'
    BY <1>2 DEF Onward
  <2>2. gxid'[u] \in Nat
    BY DEF TypeInv
  <2>3. CASE gxid'[u] = gxid[u]
    BY <1>2, <2>3 DEF Settled
  <2>4. CASE gxid'[u] > latestCompletedGxid'
    BY <1>1, <2>2, <2>4, SMT
  <2>5. QED
    BY <2>1, <2>3, <2>4
<1>3. x <= latestCompletedGxid' + 1
  <2>1. \A a, b, c \in Nat : a <= b + 1 /\ b <= c => a <= c + 1
    BY SMT
  <2>2. QED
    BY <1>1, <2>1
<1>4. QED
  BY <1>2, <1>3 DEF Settled

LEMMA SnapFields ==
    /\ \A ds \in DSnap : /\ ds.xmin \in Nat /\ ds.xmax \in Nat /\ ds.xminAll \in Nat
                         /\ ds.inProgress \subseteq Nat /\ ds.seen \subseteq Txn
                         /\ ds # None
    /\ \A l \in LSnap : /\ l.xmin \in Nat /\ l.xmax \in Nat /\ l.globalxmin \in Nat
                        /\ l.xip \subseteq Nat
<1>1. ASSUME NEW ds \in DSnap PROVE ds # None
  <2>1. ds.at = "scanned"
    BY SMT DEF DSnap
  <2>2. None.at = "none"
    BY DEF None
  <2>3. QED
    BY <2>1, <2>2
<1>2. ASSUME NEW ds \in DSnap
      PROVE  /\ ds.xmin \in Nat /\ ds.xmax \in Nat /\ ds.xminAll \in Nat
             /\ ds.inProgress \in SUBSET Nat /\ ds.seen \in SUBSET Txn
  BY SMT DEF DSnap
<1>3. ASSUME NEW l \in LSnap
      PROVE  l.xmin \in Nat /\ l.xmax \in Nat /\ l.globalxmin \in Nat /\ l.xip \in SUBSET Nat
  BY SMT DEF LSnap
<1>4. QED
  BY <1>1, <1>2, <1>3

LEMMA DSnapsType ==
    ASSUME TypeInv, NEW t \in Txn, NEW ds \in DSnaps(t)
    PROVE  ds \in DSnap
<1>1. snaps[t] \in Seq(DSnap) /\ creating[t] \in DSnap \union {None}
  BY DEF TypeInv
<1>2. \A i \in 1 .. Len(snaps[t]) : snaps[t][i] \in DSnap
  <2> DEFINE D == DSnap
  <2>1. snaps[t] \in Seq(D)
    BY <1>1
  <2> HIDE DEF D
  <2>2. \A i \in 1 .. Len(snaps[t]) : snaps[t][i] \in D
    BY <2>1, SMT
  <2>3. QED
    BY <2>2 DEF D
<1>3. QED
  BY <1>1, <1>2 DEF DSnaps

\* Only a scan makes a distributed snapshot.
LEMMA SnapsNext ==
    ASSUME DistInv, TypeInv', Next
    PROVE  /\ \/ \E t \in Txn : SnapshotScan(t)
              \/ \A u \in Txn : DSnaps(u)' \subseteq DSnaps(u)
           /\ SnapsOnward
<1> USE DEF qdVars, segVars
<1>0. /\ creating \in [Txn -> DSnap \union {None}] /\ snaps \in [Txn -> Seq(DSnap)]
  BY DEF DistInv, TypeInv
<1>1. ASSUME UNCHANGED <<creating, snaps>> PROVE \A u \in Txn : DSnaps(u)' \subseteq DSnaps(u)
  BY <1>1 DEF DSnaps
<1>2. ASSUME NEW t \in Txn, DropSnapshots(t) PROVE \A u \in Txn : DSnaps(u)' \subseteq DSnaps(u)
  <2>1. /\ UNCHANGED creating /\ snaps'[t] = <<>> /\ \A u \in Txn : u # t => snaps'[u] = snaps[u]
    BY <1>0, <1>2 DEF DropSnapshots
  <2>2. Len(<<>>) = 0 /\ 1 .. 0 = {}
    BY SMT
  <2>3. \A u \in Txn : DSnaps(u)' \subseteq DSnaps(u)
    <3> TAKE u \in Txn
    <3>1. CASE u = t
      BY <2>1, <2>2, <3>1 DEF DSnaps
    <3>2. CASE u # t
      BY <2>1, <3>2 DEF DSnaps
    <3>3. QED
      BY <3>1, <3>2
  <2>4. QED
    BY <2>3
<1>3. ASSUME NEW t \in Txn, SnapshotPublish(t) PROVE \A u \in Txn : DSnaps(u)' \subseteq DSnaps(u)
  <2>1. /\ snaps'[t] = Append(snaps[t], creating[t]) /\ creating'[t] = None /\ creating[t] # None
        /\ \A u \in Txn : u # t => snaps'[u] = snaps[u] /\ creating'[u] = creating[u]
    BY <1>0, <1>3 DEF SnapshotPublish
  <2> TAKE u \in Txn
  <2>2. CASE u = t
    <3>1. \A i \in 1 .. Len(snaps'[t]) :
             \/ i \in 1 .. Len(snaps[t]) /\ snaps'[t][i] = snaps[t][i]
             \/ snaps'[t][i] = creating[t]
      <4> DEFINE D == DSnap
      <4>1. snaps[t] \in Seq(D) /\ creating[t] \in D
        BY <1>0, <2>1
      <4> HIDE DEF D
      <4>2. QED
        BY <2>1, <4>1, SMT
    <3>2. QED
      BY <2>1, <2>2, <3>1 DEF DSnaps
  <2>3. CASE u # t
    BY <2>1, <2>3 DEF DSnaps
  <2>4. QED
    BY <2>2, <2>3
<1>4. \/ \E t \in Txn : SnapshotScan(t)
      \/ \A u \in Txn : DSnaps(u)' \subseteq DSnaps(u)
  <2>1. ASSUME NEW t \in Txn, Activate(t) \/ EndGxact(t) PROVE UNCHANGED <<creating, snaps>>
    BY <2>1 DEF Activate, EndGxact
  <2>2. ASSUME NEW t \in Txn, Decide(t) \/ EndReadOnly(t) PROVE DropSnapshots(t)
    BY <2>2 DEF Decide, EndReadOnly
  <2>3. ASSUME NEW t \in Txn, NEW s \in Segment,
               \/ AssignXid(t, s) \/ SetDistributedLog(t, s) \/ SetClog(t, s)
               \/ RemoveCommitted(t, s) \/ RemoveAborted(t, s) \/ TakeLocalSnapshot(t, s)
               \/ AdvanceOldestXmin(t, s) \/ \E u \in Txn : SetIgnore(t, s, u)
        PROVE  UNCHANGED <<creating, snaps>>
    BY <2>3 DEF AssignXid, SetDistributedLog, SetClog, RemoveCommitted, RemoveAborted,
       LeaveProcArray, TakeLocalSnapshot, AdvanceOldestXmin, SetIgnore
  <2>4. QED
    BY <1>1, <1>2, <1>3, <2>1, <2>2, <2>3 DEF Next
<1>5. ASSUME NEW t \in Txn, SnapshotScan(t) PROVE SnapsOnward
  <2>1. /\ UNCHANGED snaps /\ creating'[t] = Scan(t)
        /\ \A u \in Txn : u # t => creating'[u] = creating[u]
    BY <1>0, <1>5 DEF SnapshotScan
  <2>2. Scan(t).xmin = Floor
    BY ScanFacts DEF DistInv
  <2>3. QED
    BY <2>1, <2>2 DEF SnapsOnward, DSnaps
<1>6. SnapsOnward
  BY <1>4, <1>5 DEF SnapsOnward
<1>7. QED
  BY <1>4, <1>6

LEMMA BelowStays ==
    ASSUME DistInv, TypeInv', Next, NEW g \in Nat, Below(g)
    PROVE  Below(g)'
<1>1. Onward /\ SnapsOnward /\ TypeInv
  BY OnwardNext, SnapsNext DEF DistInv
<1>2. g + 1 \in Nat
  BY SMT
<1>3. Settled(g + 1) /\ Settled(g + 1)'
  BY <1>1, <1>2, SettledStays DEF Below
<1>4. ASSUME NEW t \in Txn, NEW ds \in DSnaps(t)' PROVE g < ds.xmin
  <2>1. CASE ds \in DSnaps(t)
    BY <2>1 DEF Below
  <2>2. CASE ds.xmin = Floor
    <3>1. \A x \in Nat : Settled(x) => x <= Floor
      BY <1>1, <1>4, ScanFacts
    <3>2. g + 1 <= Floor /\ Floor \in Nat
      <4>1. Scan(t) \in DSnap /\ Scan(t).xmin = Floor
        BY <1>1, ScanFacts
      <4>2. QED
        BY <1>2, <1>3, <3>1, <4>1, SnapFields
    <3>3. QED
      BY <2>2, <3>2, SMT
  <2>3. QED
    BY <1>1, <2>1, <2>2 DEF SnapsOnward
<1>5. QED
  BY <1>3, <1>4 DEF Below

\* xminAll is below every snapshot, so what is below xminAll stays so.
LEMMA BelowAll ==
    ASSUME DistInv, NEW t \in Txn, NEW ds \in DSnaps(t), NEW g \in Nat, g < ds.xminAll
    PROVE  Below(g)
<1>1. TypeInv /\ SnapOf(t, ds)
  BY DEF DistInv, SnapInv
<1>2. ds \in DSnap
  BY <1>1, DSnapsType
<1>3. ds.xminAll \in Nat /\ ds.xmin \in Nat
  BY <1>2, SnapFields
<1>4. Settled(ds.xmin) /\ ds.xminAll <= ds.xmin
  BY <1>1 DEF SnapOf
<1>5. Settled(g + 1)
  <2>1. latestCompletedGxid \in Nat /\ \A u \in Txn : gxid[u] \in Nat
    BY <1>1 DEF TypeInv
  <2>2. \A a \in Nat : ds.xmin <= a => g + 1 <= a
    BY <1>3, <1>4, SMT
  <2>3. latestCompletedGxid + 1 \in Nat
    BY <2>1, SMT
  <2>4. QED
    BY <1>4, <2>1, <2>2, <2>3 DEF Settled
<1>6. ASSUME NEW t2 \in Txn, NEW ds2 \in DSnaps(t2) PROVE g < ds2.xmin
  <2>1. ds.xminAll <= ds2.xmin /\ ds2.xmin \in Nat
    BY <1>1, DSnapsType, SnapFields DEF SnapOf
  <2>2. QED
    BY <1>3, <2>1, SMT
<1>7. QED
  BY <1>5, <1>6 DEF Below

-----------------------------------------------------------------------------
(* Distributed snapshots *)

\* A snapshot stays right while the transactions go on.
LEMMA SnapKept ==
    ASSUME DistInv, TypeInv', Onward, \A u \in Txn : DSnaps(u)' \subseteq DSnaps(u)
    PROVE  SnapInv'
<1> SUFFICES ASSUME NEW t \in Txn, NEW ds \in DSnaps(t)' PROVE SnapOf(t, ds)'
  BY DEF SnapInv
<1>1. TypeInv /\ ds \in DSnaps(t) /\ SnapOf(t, ds)
  BY DEF DistInv, SnapInv
<1>2. ds \in DSnap /\ ds.xmin \in Nat /\ ds.xmax \in Nat
  BY <1>1, DSnapsType, SnapFields
<1>3. Settled(ds.xmin)'
  BY <1>1, <1>2, SettledStays DEF SnapOf
<1>4. ds.xmax <= latestCompletedGxid' + 1
  <2>1. \A a, b, c \in Nat : a <= b + 1 /\ b <= c => a <= c + 1
    BY SMT
  <2>2. ds.xmax <= latestCompletedGxid + 1 /\ latestCompletedGxid <= latestCompletedGxid'
    BY <1>1 DEF SnapOf, Onward
  <2>3. latestCompletedGxid \in Nat /\ latestCompletedGxid' \in Nat
    BY <1>1 DEF TypeInv
  <2>4. QED
    BY <1>2, <2>1, <2>2, <2>3
<1>5. \A u \in ds.seen : phase'[u] = "committed"
  <2>1. ds.seen \subseteq Txn
    BY <1>2, SnapFields
  <2>2. QED
    BY <1>1, <2>1 DEF SnapOf, Onward
<1>6. ASSUME NEW u \in Txn \ {t}, gxid'[u] # 0
      PROVE  gxid'[u] >= ds.xmax \/ gxid'[u] \in ds.inProgress
  <2>1. CASE gxid'[u] = gxid[u]
    BY <1>1, <1>6, <2>1 DEF SnapOf
  <2>2. CASE gxid'[u] > latestCompletedGxid'
    <3>1. gxid'[u] \in Nat /\ latestCompletedGxid' \in Nat
      BY DEF TypeInv
    <3>2. QED
      BY <1>2, <1>4, <2>2, <3>1, SMT
  <2>3. QED
    BY <1>6, <2>1, <2>2 DEF Onward
<1>7. ASSUME NEW s \in Segment, NEW u \in Txn \ {t}, distributedLog'[s][u] # 0
      PROVE  u \in ds.seen <=>
                distributedLog'[s][u] < ds.xmax /\ distributedLog'[s][u] \notin ds.inProgress
  <2>1. CASE distributedLog'[s][u] = distributedLog[s][u]
    BY <1>1, <1>7, <2>1 DEF SnapOf
  <2>2. CASE distributedLog'[s][u] = gxid[u] /\ phase[u] = "commit"
    <3>1. u \notin ds.seen
      BY <1>1, <2>2 DEF SnapOf
    <3>2. gxid[u] >= ds.xmax \/ gxid[u] \in ds.inProgress
      BY <1>1, <1>7, <2>2 DEF SnapOf
    <3>3. gxid[u] \in Nat
      BY <1>1 DEF TypeInv
    <3>4. gxid[u] >= ds.xmax => ~(gxid[u] < ds.xmax)
      BY <1>2, <3>3, SMT
    <3>5. QED
      BY <2>2, <3>1, <3>2, <3>4
  <2>3. QED
    BY <2>1, <2>2 DEF Onward
<1>8. \A t2 \in Txn : \A ds2 \in DSnaps(t2)' : ds.xminAll <= ds2.xmin
  BY <1>1 DEF SnapOf
<1>9. /\ 1 <= ds.xmin /\ ds.xmin <= ds.xmax /\ ds.xminAll <= ds.xmin
      /\ \A g \in ds.inProgress : ds.xmin <= g
  BY <1>1 DEF SnapOf
<1>10. QED
  BY <1>3, <1>4, <1>5, <1>6, <1>7, <1>8, <1>9 DEF SnapOf

\* The snapshot that a scan makes is right.
LEMMA SnapScan ==
    ASSUME DistInv, TypeInv', NEW t \in Txn, SnapshotScan(t)
    PROVE  SnapInv'
<1>00. PICK n : n = Scan(t)
  OBVIOUS
<1>0. /\ TypeInv /\ UNCHANGED <<phase, gxid, xminDS, latestCompletedGxid, snaps, distributedLog>>
      /\ creating' = [creating EXCEPT ![t] = n]
  BY <1>00 DEF DistInv, SnapshotScan, segVars
<1>1. /\ n \in DSnap /\ n.xmin = Floor /\ 1 <= Floor /\ Settled(Floor)
      /\ \A x \in Nat : Settled(x) => x <= Floor
      /\ n.xmax = latestCompletedGxid + 1 /\ n.xminAll <= Floor
      /\ \A u \in Txn : xminDS[u] # 0 => n.xminAll <= xminDS[u]
      /\ n.inProgress =
            {gxid[u] : u \in {v \in Txn : gxid[v] \in 1 .. latestCompletedGxid}} \ {gxid[t]}
      /\ n.seen = {u \in Txn : phase[u] = "committed"}
  BY <1>00, <1>0, ScanFacts
<1>2. /\ n.xmin \in Nat /\ n.xmax \in Nat /\ n.xminAll \in Nat /\ latestCompletedGxid \in Nat
      /\ \A u \in Txn : gxid[u] \in Nat
  BY <1>0, <1>1, SnapFields DEF TypeInv
<1>3. \A u \in Txn : \A ds \in DSnaps(u)' : ds \in DSnaps(u) \/ ds = n
  <2>1. creating \in [Txn -> DSnap \union {None}]
    BY <1>0 DEF TypeInv
  <2>2. \A u \in Txn : creating'[u] = creating[u] \/ creating'[u] = n
    BY <1>0, <2>1
  <2>3. QED
    BY <1>0, <2>2 DEF DSnaps
<1>4. \A x : Settled(x)' <=> Settled(x)
  BY <1>0 DEF Settled
<1>5. ASSUME NEW u \in Txn, NEW ds \in DSnaps(u)
      PROVE  /\ SnapOf(u, ds) /\ ds.xmin \in Nat /\ ds.xminAll \in Nat
             /\ ds.xminAll <= n.xmin
             /\ n.xminAll <= ds.xmin
  <2>1. SnapOf(u, ds)
    BY DEF DistInv, SnapInv
  <2>2. ds \in DSnap /\ ds.xmin \in Nat /\ ds.xminAll \in Nat
    BY <1>0, DSnapsType, SnapFields
  <2>3. ds.xminAll <= ds.xmin /\ ds.xmin <= Floor
    BY <1>1, <2>1, <2>2 DEF SnapOf
  <2>4. ds.xminAll <= n.xmin
    BY <1>1, <1>2, <2>2, <2>3, SMT
  <2>5. PubOf(u)
    BY DEF DistInv, PubInv
  <2>6. CASE ds = creating[u] /\ creating[u] # None
    <3>1. ds.xmin = Floor
      BY <2>5, <2>6 DEF PubOf
    <3>2. QED
      BY <1>1, <2>1, <2>2, <2>4, <3>1
  <2>7. CASE \E i \in 1 .. Len(snaps[u]) : ds = snaps[u][i]
    <3>1. snaps[u] # <<>>
      <4>1. Len(<<>>) = 0 /\ 1 .. 0 = {}
        BY SMT
      <4>2. QED
        BY <2>7, <4>1
    <3>2. xminDS[u] # 0 /\ xminDS[u] <= ds.xmin /\ n.xminAll <= xminDS[u] /\ xminDS[u] \in Nat
      BY <1>0, <1>1, <2>5, <3>1 DEF PubOf, TypeInv
    <3>3. QED
      BY <1>2, <2>1, <2>2, <2>4, <3>2, SMT
  <2>8. QED
    BY <2>1, <2>2, <2>4, <2>6, <2>7 DEF DSnaps
<1>6. ASSUME NEW u \in Txn, NEW ds \in DSnaps(u) PROVE SnapOf(u, ds)'
  <2>1. \A t2 \in Txn : \A ds2 \in DSnaps(t2)' : ds.xminAll <= ds2.xmin
    BY <1>3, <1>5 DEF SnapOf
  <2>2. QED
    BY <1>0, <1>4, <1>5, <2>1 DEF SnapOf
<1>7. SnapOf(t, n)'
  <2>1. \A t2 \in Txn : \A ds2 \in DSnaps(t2)' : n.xminAll <= ds2.xmin
    BY <1>1, <1>3, <1>5
  <2>2. Floor <= latestCompletedGxid + 1
    BY <1>1 DEF Settled
  <2>3. \A g \in n.inProgress : n.xmin <= g
    <3>1. 0 \notin 1 .. latestCompletedGxid
      BY <1>2, SMT
    <3>2. QED
      BY <1>1, <3>1 DEF Settled
  <2>4. ASSUME NEW u \in Txn \ {t}, gxid[u] # 0 PROVE gxid[u] >= n.xmax \/ gxid[u] \in n.inProgress
    <3>1. gxid[u] # gxid[t]
      BY <2>4 DEF DistInv, QDInv
    <3>2. CASE gxid[u] \in 1 .. latestCompletedGxid
      BY <1>1, <3>1, <3>2
    <3>3. CASE gxid[u] \notin 1 .. latestCompletedGxid
      BY <1>1, <1>2, <2>4, <3>3, SMT
    <3>4. QED
      BY <3>2, <3>3
  <2>5. ASSUME NEW s \in Segment, NEW u \in Txn \ {t}, distributedLog[s][u] # 0
        PROVE  u \in n.seen <=>
                  distributedLog[s][u] < n.xmax /\ distributedLog[s][u] \notin n.inProgress
    <3>1. distributedLog[s][u] \in Nat
          /\ \/ phase[u] = "commit" /\ distributedLog[s][u] = gxid[u]
             \/ phase[u] = "committed" /\ distributedLog[s][u] <= latestCompletedGxid
      BY <2>5, LoggedFacts
    <3>2. CASE phase[u] = "commit" /\ distributedLog[s][u] = gxid[u]
      <4>1. u \notin n.seen
        BY <1>1, <3>2
      <4>2. gxid[u] >= n.xmax \/ gxid[u] \in n.inProgress
        BY <2>4, <2>5, <3>2
      <4>3. gxid[u] >= n.xmax => ~(gxid[u] < n.xmax)
        BY <1>2, SMT
      <4>4. QED
        BY <3>2, <4>1, <4>2, <4>3
    <3>3. CASE phase[u] = "committed" /\ distributedLog[s][u] <= latestCompletedGxid
      <4>1. u \in n.seen
        BY <1>1, <3>3
      <4>2. distributedLog[s][u] < n.xmax
        BY <1>1, <1>2, <3>1, <3>3, SMT
      <4>3. \A v \in Txn : distributedLog[s][u] # gxid[v]
        <5>1. \A v \in Txn \ {u} : distributedLog[s][u] # gxid[v]
          BY <2>5 DEF DistInv, BranchInv, BranchOf
        <5>2. gxid[u] = 0
          BY <3>3 DEF DistInv, QDInv
        <5>3. QED
          BY <2>5, <5>1, <5>2
      <4>4. QED
        BY <1>1, <4>1, <4>2, <4>3
    <3>4. QED
      BY <3>1, <3>2, <3>3
  <2>6. n.xmin <= n.xmax /\ n.xmax <= latestCompletedGxid + 1 /\ n.xminAll <= n.xmin
    BY <1>1, <1>2, <2>2, SMT
  <2>7. \A u \in n.seen : phase[u] = "committed"
    BY <1>1
  <2>8. QED
    BY <1>0, <1>1, <1>4, <2>1, <2>3, <2>4, <2>5, <2>6, <2>7 DEF SnapOf
<1>8. ASSUME NEW u \in Txn, n \in DSnaps(u)' PROVE u = t \/ n \in DSnaps(u)
  <2>1. creating \in [Txn -> DSnap \union {None}]
    BY <1>0 DEF TypeInv
  <2>2. u # t => creating'[u] = creating[u]
    BY <1>0, <2>1
  <2>3. QED
    BY <1>0, <1>8, <2>2 DEF DSnaps
<1>9. QED
  BY <1>3, <1>6, <1>7, <1>8 DEF SnapInv

LEMMA SnapNext ==
    ASSUME DistInv, TypeInv', Next
    PROVE  SnapInv'
BY SnapKept, SnapScan, OnwardNext, SnapsNext

-----------------------------------------------------------------------------
(* What transactions advertise *)

LEMMA FloorStays ==
    ASSUME TypeInv, latestCompletedGxid' = latestCompletedGxid,
           \A u \in Txn : \/ gxid'[u] = gxid[u]
                          \/ gxid[u] = 0 /\ gxid'[u] > latestCompletedGxid /\ gxid'[u] \in Nat
    PROVE  Floor' = Floor
<1>1. latestCompletedGxid \in Nat
  BY DEF TypeInv
<1>2. \A u \in Txn : \/ gxid'[u] = gxid[u]
                     \/ /\ gxid[u] \notin 1 .. latestCompletedGxid
                        /\ gxid'[u] \notin 1 .. latestCompletedGxid
  BY <1>1, SMT
<1>3. {gxid'[u] : u \in {v \in Txn : gxid'[v] \in 1 .. latestCompletedGxid'}} =
      {gxid[u] : u \in {v \in Txn : gxid[v] \in 1 .. latestCompletedGxid}}
  BY <1>2
<1>4. QED
  BY <1>3 DEF Floor, Min

\* A transaction keeps what it advertises, or gives it up with its snapshots.
LEMMA PubKept ==
    ASSUME DistInv, TypeInv', Onward, \A u \in Txn : DSnaps(u)' \subseteq DSnaps(u),
           \/ Floor' = Floor /\ UNCHANGED creating
           \/ \A u \in Txn : creating'[u] = None,
           \A u \in Txn : /\ xminDS'[u] \in {xminDS[u], 0}
                          /\ \/ snaps'[u] = <<>>
                             \/ snaps'[u] = snaps[u] /\ xminDS'[u] = xminDS[u]
    PROVE  PubInv'
<1> SUFFICES ASSUME NEW u \in Txn PROVE PubOf(u)'
  BY DEF PubInv
<1>1. PubOf(u) /\ TypeInv
  BY DEF DistInv, PubInv
<1>2. xminDS'[u] # 0 => Settled(xminDS[u])'
  <2>1. PICK x \in Nat : x = xminDS[u]
    BY <1>1 DEF TypeInv
  <2>2. Settled(x) => Settled(x)'
    BY <1>1, SettledStays
  <2>3. QED
    BY <1>1, <2>1, <2>2 DEF PubOf, Settled
<1>3. QED
  BY <1>1, <1>2 DEF PubOf

LEMMA PubScan ==
    ASSUME DistInv, TypeInv', NEW t \in Txn, SnapshotScan(t)
    PROVE  PubInv'
<1>1. /\ TypeInv /\ UNCHANGED <<gxid, xminDS, latestCompletedGxid, snaps>>
      /\ creating \in [Txn -> DSnap \union {None}]
      /\ creating' = [creating EXCEPT ![t] = Scan(t)]
  BY DEF DistInv, TypeInv, SnapshotScan
<1>2. Scan(t).xmin = Floor /\ \A x \in Nat : Settled(x) => x <= Floor
  BY <1>1, ScanFacts
<1>3. Floor' = Floor /\ \A x : Settled(x)' <=> Settled(x)
  BY <1>1 DEF Floor, Settled
<1> SUFFICES ASSUME NEW u \in Txn PROVE PubOf(u)'
  BY DEF PubInv
<1>4. PubOf(u) /\ xminDS[u] \in Nat
  BY <1>1 DEF DistInv, PubInv, TypeInv
<1>5. creating'[u] = creating[u] \/ creating'[u] = Scan(t)
  BY <1>1
<1>6. \A ds \in DSnaps(u)' : ds \in DSnaps(u) \/ ds.xmin = Floor
  BY <1>1, <1>2, <1>5 DEF DSnaps
<1>7. xminDS[u] # 0 => \A ds \in DSnaps(u)' : xminDS[u] <= ds.xmin
  BY <1>2, <1>4, <1>6 DEF PubOf
<1>8. creating'[u] # None => creating'[u].xmin = Floor'
  BY <1>2, <1>3, <1>4, <1>5 DEF PubOf
<1>9. QED
  <2>1. xminDS'[u] = xminDS[u] /\ snaps'[u] = snaps[u]
    BY <1>1
  <2>2. xminDS'[u] # 0 => Settled(xminDS[u])'
    BY <1>1, <1>4 DEF PubOf, Settled
  <2>3. QED
    BY <1>4, <1>7, <1>8, <2>1, <2>2 DEF PubOf

LEMMA PubPublish ==
    ASSUME DistInv, TypeInv', NEW t \in Txn, SnapshotPublish(t),
           \A u \in Txn : DSnaps(u)' \subseteq DSnaps(u)
    PROVE  PubInv'
<1>1. /\ TypeInv /\ UNCHANGED <<gxid, latestCompletedGxid>> /\ creating[t] # None
      /\ creating'[t] = None
      /\ xminDS'[t] = IF xminDS[t] = 0 THEN creating[t].xmin ELSE xminDS[t]
      /\ \A u \in Txn \ {t} : /\ creating'[u] = creating[u] /\ snaps'[u] = snaps[u]
                              /\ xminDS'[u] = xminDS[u]
  BY DEF DistInv, TypeInv, SnapshotPublish
<1>2. Floor' = Floor
  BY <1>1 DEF Floor
<1>3. \A x : Settled(x) => Settled(x)'
  BY <1>1 DEF Settled
<1>4. ASSUME NEW u \in Txn, u # t PROVE PubOf(u)'
  <2>1. PubOf(u)
    BY DEF DistInv, PubInv
  <2>2. xminDS'[u] # 0 => Settled(xminDS[u])'
    BY <1>1, <1>4, <2>1 DEF PubOf, Settled
  <2>3. QED
    BY <1>1, <1>2, <1>4, <2>1, <2>2 DEF PubOf
<1>5. PubOf(t)'
  <2>1. PubOf(t)
    BY DEF DistInv, PubInv
  <2>2. creating[t] \in DSnaps(t)
    BY <1>1 DEF DSnaps
  <2>3. creating[t] \in DSnap /\ SnapOf(t, creating[t])
    BY <1>1, <2>2, DSnapsType DEF DistInv, SnapInv
  <2>4. creating[t].xmin \in Nat /\ 1 <= creating[t].xmin /\ Settled(creating[t].xmin)
    BY <2>3, SnapFields DEF SnapOf
  <2>5. PICK x : x = xminDS'[t]
    OBVIOUS
  <2>6. CASE xminDS[t] = 0
    <3>1. x = creating[t].xmin
      BY <1>1, <2>5, <2>6
    <3>2. snaps[t] = <<>>
      BY <2>1, <2>6 DEF PubOf
    <3>3. \A ds \in DSnaps(t)' : ds = creating[t]
      <4>1. Len(<<>>) = 0 /\ 1 .. 0 = {}
        BY SMT
      <4>2. QED
        BY <3>2, <4>1 DEF DSnaps
    <3>4. x # 0 /\ x <= x
      BY <2>4, <3>1, SMT
    <3>5. Settled(x)' /\ \A ds \in DSnaps(t)' : x <= ds.xmin
      BY <1>3, <2>4, <3>1, <3>3, <3>4
    <3>6. QED
      BY <1>1, <2>5, <3>4, <3>5 DEF PubOf, Settled
  <2>7. CASE xminDS[t] # 0
    <3>1. x = xminDS[t]
      BY <1>1, <2>5, <2>7
    <3>2. Settled(x)' /\ \A ds \in DSnaps(t)' : x <= ds.xmin
      BY <1>3, <2>1, <2>7, <3>1 DEF PubOf
    <3>3. QED
      BY <1>1, <2>5, <2>7, <3>1, <3>2 DEF PubOf, Settled
  <2>8. QED
    BY <2>6, <2>7
<1>6. QED
  BY <1>4, <1>5 DEF PubInv

LEMMA PubNext ==
    ASSUME DistInv, TypeInv', Next
    PROVE  PubInv'
<1> USE DEF qdVars, segVars
<1>0. /\ TypeInv /\ QDInv /\ gxid \in [Txn -> Nat] /\ xminDS \in [Txn -> Nat]
      /\ latestCompletedGxid \in Nat /\ nextGxid \in Nat /\ snaps \in [Txn -> Seq(DSnap)]
  BY DEF DistInv, TypeInv
<1>1. Onward
  BY OnwardNext
<1>2. CASE \E t \in Txn : SnapshotScan(t)
  BY <1>2, PubScan
<1>3. CASE \A u \in Txn : DSnaps(u)' \subseteq DSnaps(u)
  <2>1. ASSUME UNCHANGED <<creating, snaps, xminDS, gxid, latestCompletedGxid>> PROVE PubInv'
    <3>1. Floor' = Floor
      BY <2>1 DEF Floor
    <3>2. QED
      BY <1>1, <1>3, <2>1, <3>1, PubKept
  <2>2. ASSUME NEW t \in Txn, Activate(t) PROVE PubInv'
    <3>1. /\ UNCHANGED <<latestCompletedGxid, creating, xminDS, snaps>>
          /\ gxid[t] = 0 /\ gxid'[t] = nextGxid /\ \A u \in Txn : u # t => gxid'[u] = gxid[u]
      BY <1>0, <2>2 DEF Activate
    <3>2. nextGxid > latestCompletedGxid
      BY <1>0, SMT DEF QDInv
    <3>3. Floor' = Floor
      BY <1>0, <3>1, <3>2, FloorStays
    <3>4. QED
      BY <1>1, <1>3, <3>1, <3>3, PubKept
  <2>3. ASSUME NEW t \in Txn, Decide(t) PROVE PubInv'
    <3>1. /\ UNCHANGED <<latestCompletedGxid, creating, xminDS, gxid>> /\ snaps'[t] = <<>>
          /\ \A u \in Txn : u # t => snaps'[u] = snaps[u]
      BY <1>0, <2>3 DEF Decide, DropSnapshots
    <3>2. Floor' = Floor
      BY <3>1 DEF Floor
    <3>3. QED
      BY <1>1, <1>3, <3>1, <3>2, PubKept
  <2>4. ASSUME NEW t \in Txn, EndGxact(t) PROVE PubInv'
    <3>1. /\ \A u \in Txn : creating'[u] = None
          /\ UNCHANGED snaps /\ phase[t] # "active"
      BY <2>4 DEF EndGxact, ProcArrayLockFree, Answered
    <3>2. xminDS'[t] = 0 /\ \A u \in Txn : u # t => xminDS'[u] = xminDS[u]
      BY <1>0, <2>4 DEF EndGxact, ResetTmGxact
    <3>3. snaps[t] = <<>>
      BY <1>0, <3>1 DEF QDInv
    <3>4. QED
      BY <1>1, <1>3, <3>1, <3>2, <3>3, PubKept
  <2>5. ASSUME NEW t \in Txn, EndReadOnly(t) PROVE PubInv'
    <3>1. /\ UNCHANGED <<latestCompletedGxid, creating>> /\ snaps'[t] = <<>> /\ xminDS'[t] = 0
          /\ \A u \in Txn : u # t => snaps'[u] = snaps[u] /\ xminDS'[u] = xminDS[u]
          /\ \A u \in Txn : gxid'[u] = gxid[u]
      BY <1>0, <2>5 DEF EndReadOnly, DropSnapshots, ResetTmGxact
    <3>2. Floor' = Floor
      BY <1>0, <3>1, FloorStays
    <3>3. QED
      BY <1>1, <1>3, <3>1, <3>2, PubKept
  <2>6. ASSUME NEW t \in Txn, SnapshotPublish(t) PROVE PubInv'
    BY <1>3, <2>6, PubPublish
  <2>7. ASSUME NEW t \in Txn, NEW s \in Segment,
               \/ AssignXid(t, s) \/ SetDistributedLog(t, s) \/ SetClog(t, s)
               \/ RemoveCommitted(t, s) \/ RemoveAborted(t, s) \/ TakeLocalSnapshot(t, s)
               \/ AdvanceOldestXmin(t, s) \/ \E u \in Txn : SetIgnore(t, s, u)
        PROVE  UNCHANGED <<creating, snaps, xminDS, gxid, latestCompletedGxid>>
    BY <2>7 DEF AssignXid, SetDistributedLog, SetClog, RemoveCommitted, RemoveAborted,
       LeaveProcArray, TakeLocalSnapshot, AdvanceOldestXmin, SetIgnore
  <2>8. QED
    BY <1>2, <2>1, <2>2, <2>3, <2>4, <2>5, <2>6, <2>7 DEF Next
<1>4. QED
  BY <1>2, <1>3, SnapsNext

-----------------------------------------------------------------------------
(* Hints and the horizon *)

LEMMA BelowNext ==
    ASSUME DistInv, TypeInv', Next
    PROVE  BelowInv'
<1> USE DEF qdVars, segVars
<1>0. /\ TypeInv /\ distributedLog \in [Segment -> [Txn -> Nat]] /\ ignore \in [Segment -> SUBSET Txn]
      /\ xid \in [Segment -> [Txn -> Nat]] /\ oldestXmin \in [Segment -> Nat] /\ BelowInv
  BY DEF DistInv, TypeInv
<1>1. Onward
  BY OnwardNext
<1>2. ASSUME NEW s \in Segment, NEW u \in Txn, distributedLog[s][u] # 0, Below(distributedLog[s][u])
      PROVE  distributedLog'[s][u] # 0 /\ Below(distributedLog[s][u])'
  <2>1. PICK g \in Nat : g = distributedLog[s][u]
    BY <1>0
  <2>2. distributedLog'[s][u] = g /\ g # 0
    BY <1>1, <1>2, <2>1 DEF Onward
  <2>3. Below(g)'
    BY <1>2, <2>1, BelowStays
  <2>4. QED
    BY <2>2, <2>3 DEF Below, Settled
\* It is enough to look at the hints and the entries that are new.
<1>3. ASSUME \A s \in Segment : \A u \in ignore'[s] \ ignore[s] :
                distributedLog[s][u] # 0 /\ Below(distributedLog[s][u]),
             \A s \in Segment, u \in Txn :
                distributedLog'[s][u] # 0 /\ xid'[s][u] < oldestXmin'[s] =>
                   distributedLog[s][u] # 0 /\ Below(distributedLog[s][u])
      PROVE  BelowInv'
  <2> SUFFICES ASSUME NEW s \in Segment, NEW u \in Txn
               PROVE  /\ u \in ignore'[s] => distributedLog'[s][u] # 0 /\ Below(distributedLog[s][u])'
                      /\ distributedLog'[s][u] # 0 /\ xid'[s][u] < oldestXmin'[s] =>
                            Below(distributedLog[s][u])'
    BY DEF BelowInv
  <2>1. u \in ignore[s] => distributedLog[s][u] # 0 /\ Below(distributedLog[s][u])
    BY <1>0 DEF BelowInv
  <2>2. QED
    BY <1>2, <1>3, <2>1
<1>4. ASSUME UNCHANGED <<ignore, xid, oldestXmin>> PROVE BelowInv'
  <2>1. ASSUME NEW s \in Segment, NEW u \in Txn, distributedLog'[s][u] # 0,
               xid'[s][u] < oldestXmin'[s]
        PROVE  distributedLog[s][u] # 0 /\ Below(distributedLog[s][u])
    <3>1. CASE distributedLog'[s][u] = distributedLog[s][u]
      BY <1>0, <1>4, <2>1, <3>1 DEF BelowInv
    <3>2. CASE InProcArray(s, u)
      <4>1. oldestXmin[s] <= xid[s][u]
        BY <3>2 DEF DistInv, LocalInv, LocallySettled
      <4>2. oldestXmin[s] \in Nat /\ xid[s][u] \in Nat
        BY <1>0
      <4>3. xid[s][u] < oldestXmin[s]
        BY <1>4, <2>1
      <4>4. QED
        BY <4>1, <4>2, <4>3, SMT
    <3>3. QED
      BY <1>1, <3>1, <3>2 DEF Onward
  <2>2. QED
    BY <1>3, <1>4, <2>1
<1>5. ASSUME NEW t \in Txn, NEW s \in Segment, AssignXid(t, s) PROVE BelowInv'
  <2>1. /\ xid[s][t] = 0 /\ UNCHANGED <<distributedLog, ignore, oldestXmin>>
        /\ \A r \in Segment, u \in Txn : r # s \/ u # t => xid'[r][u] = xid[r][u]
    BY <1>0, <1>5, SMT DEF AssignXid
  <2>2. distributedLog[s][t] = 0
    BY <2>1, LoggedFacts
  <2>3. QED
    BY <1>0, <1>3, <2>1, <2>2 DEF BelowInv
<1>6. ASSUME NEW t \in Txn, NEW s \in Segment, AdvanceOldestXmin(t, s) PROVE BelowInv'
  <2>1. PICK i \in 1 .. Len(local[s][t]) :
           oldestXmin' = [oldestXmin EXCEPT
              ![s] = AdvancedXmin(s, local[s][t][i].globalxmin, snaps[t][i].xminAll)]
    BY <1>6 DEF AdvanceOldestXmin
  <2>2. snaps[t][i] \in DSnaps(t) /\ local[s][t][i].globalxmin \in Nat /\ snaps[t][i].xminAll \in Nat
    BY PairFacts, SnapFields
  <2>3. \A x \in Nat : oldestXmin[s] <= x /\ x < oldestXmin'[s] =>
           ~(LogEntry(s, x) >= snaps[t][i].xminAll)
    <3>1. oldestXmin'[s] = AdvancedXmin(s, local[s][t][i].globalxmin, snaps[t][i].xminAll)
      BY <1>0, <2>1
    <3>2. PICK g \in Nat, all \in Nat :
             g = local[s][t][i].globalxmin /\ all = snaps[t][i].xminAll
      BY <2>2
    <3>3. \A x \in Nat : oldestXmin[s] <= x /\ x < AdvancedXmin(s, g, all) =>
             x < g /\ ~(LogEntry(s, x) >= all)
      BY <1>0, AdvancedFacts
    <3>4. oldestXmin'[s] = AdvancedXmin(s, g, all)
      BY <3>1, <3>2
    <3>5. QED
      BY <3>2, <3>3, <3>4
  <2>4. UNCHANGED <<xid, distributedLog, ignore>> /\ \A r \in Segment : r # s => oldestXmin'[r] = oldestXmin[r]
    BY <1>0, <1>6, <2>1 DEF AdvanceOldestXmin
  <2>5. ASSUME NEW r \in Segment, NEW u \in Txn, distributedLog[r][u] # 0, xid[r][u] < oldestXmin'[r]
        PROVE  Below(distributedLog[r][u])
    <3>1. CASE xid[r][u] < oldestXmin[r]
      BY <1>0, <2>5, <3>1 DEF BelowInv
    <3>2. CASE r = s /\ ~(xid[r][u] < oldestXmin[r])
      <4>1. xid[s][u] \in Nat /\ oldestXmin[s] \in Nat /\ distributedLog[s][u] \in Nat
        BY <1>0
      <4>2. oldestXmin[s] <= xid[s][u]
        BY <3>2, <4>1, SMT
      <4>3. xid[s][u] # 0
        BY <2>5, <3>2, LoggedFacts
      <4>4. LogEntry(s, xid[s][u]) = distributedLog[s][u]
        BY <4>3, LogEntryFact DEF DistInv
      <4>5. ~(distributedLog[s][u] >= snaps[t][i].xminAll)
        BY <2>3, <2>5, <3>2, <4>1, <4>2, <4>4
      <4>6. distributedLog[s][u] < snaps[t][i].xminAll
        BY <2>2, <4>1, <4>5, SMT
      <4>7. QED
        BY <2>2, <3>2, <4>1, <4>6, BelowAll
    <3>3. QED
      BY <2>4, <2>5, <3>1, <3>2
  <2>6. QED
    BY <1>3, <2>4, <2>5
<1>7. ASSUME NEW t \in Txn, NEW s \in Segment, NEW v \in Txn, SetIgnore(t, s, v) PROVE BelowInv'
  <2>1. PICK i \in 1 .. Len(local[s][t]), hit \in BOOLEAN :
           CommittedTest(s, snaps[t][i], v, hit) = "IGNORE"
    BY <1>7 DEF SetIgnore
  <2>2. distributedLog[s][v] # 0 /\ distributedLog[s][v] < snaps[t][i].xminAll
    BY <2>1 DEF CommittedTest, FindsDistribXid
  <2>3. Below(distributedLog[s][v])
    <3>1. snaps[t][i] \in DSnaps(t) /\ distributedLog[s][v] \in Nat
      BY <1>0, PairFacts
    <3>2. QED
      BY <2>2, <3>1, BelowAll
  <2>4. UNCHANGED <<xid, distributedLog, oldestXmin>>
        /\ \A r \in Segment : \A u \in ignore'[r] \ ignore[r] : r = s /\ u = v
    BY <1>0, <1>7 DEF SetIgnore
  <2>5. QED
    BY <1>0, <1>3, <2>2, <2>3, <2>4 DEF BelowInv
<1>8. ASSUME NEW t \in Txn,
             \/ Activate(t) \/ SnapshotScan(t) \/ SnapshotPublish(t)
             \/ Decide(t) \/ EndGxact(t) \/ EndReadOnly(t)
      PROVE  UNCHANGED <<ignore, xid, oldestXmin>>
  <2>1. CASE Activate(t) \/ SnapshotScan(t) \/ SnapshotPublish(t)
    BY <2>1 DEF Activate, SnapshotScan, SnapshotPublish
  <2>2. CASE Decide(t) \/ EndGxact(t) \/ EndReadOnly(t)
    BY <2>2 DEF Decide, EndGxact, EndReadOnly, DropSnapshots
  <2>3. QED
    BY <1>8, <2>1, <2>2
<1>9. ASSUME NEW t \in Txn, NEW s \in Segment,
             \/ SetDistributedLog(t, s) \/ SetClog(t, s) \/ RemoveCommitted(t, s)
             \/ RemoveAborted(t, s) \/ TakeLocalSnapshot(t, s)
      PROVE  UNCHANGED <<ignore, xid, oldestXmin>>
  BY <1>9 DEF SetDistributedLog, SetClog, RemoveCommitted, RemoveAborted, LeaveProcArray,
     TakeLocalSnapshot
<1>10. QED
  BY <1>4, <1>5, <1>6, <1>7, <1>8, <1>9 DEF Next

-----------------------------------------------------------------------------
(* Local snapshots *)

LEMMA LSnapsType ==
    ASSUME TypeInv, NEW s \in Segment, NEW t \in Txn, NEW l \in LSnaps(s, t)
    PROVE  l \in LSnap /\ l.xmin \in Nat /\ l.globalxmin \in Nat
<1>1. local \in [Segment -> [Txn -> Seq(LSnap)]]
  BY DEF TypeInv
<1>2. \A i \in 1 .. Len(local[s][t]) : local[s][t][i] \in LSnap
  <2> DEFINE D == LSnap
  <2>1. local[s][t] \in Seq(D)
    BY <1>1
  <2> HIDE DEF D
  <2>2. \A i \in 1 .. Len(local[s][t]) : local[s][t][i] \in D
    BY <2>1, SMT
  <2>3. QED
    BY <2>2 DEF D
<1>3. QED
  BY <1>2, SnapFields DEF LSnaps

\* Local xids are given out in order, too.
LocalOnward ==
    \A s \in Segment :
        /\ latestCompletedXid[s] <= latestCompletedXid'[s]
        /\ \A u \in Txn : InProcArray(s, u)' =>
              \/ InProcArray(s, u) /\ xid'[s][u] = xid[s][u]
              \/ xid'[s][u] > latestCompletedXid[s]

LEMMA LocallySettledStays ==
    ASSUME TypeInv, TypeInv', LocalOnward, NEW s \in Segment, NEW x \in Nat, LocallySettled(s, x)
    PROVE  LocallySettled(s, x)'
<1>1. /\ latestCompletedXid[s] \in Nat /\ latestCompletedXid'[s] \in Nat
      /\ latestCompletedXid[s] <= latestCompletedXid'[s] /\ x <= latestCompletedXid[s] + 1
  BY DEF TypeInv, LocalOnward, LocallySettled
<1>2. ASSUME NEW u \in Txn, InProcArray(s, u)' PROVE x <= xid'[s][u]
  <2>1. CASE InProcArray(s, u) /\ xid'[s][u] = xid[s][u]
    BY <2>1 DEF LocallySettled
  <2>2. CASE xid'[s][u] > latestCompletedXid[s]
    <3>1. xid'[s][u] \in Nat
      <4>1. xid' \in [Segment -> [Txn -> Nat]]
        BY DEF TypeInv
      <4>2. QED
        BY <4>1
    <3>2. \A a, b \in Nat : a > b /\ x <= b + 1 => x <= a
      BY SMT
    <3>3. QED
      BY <1>1, <2>2, <3>1, <3>2
  <2>3. QED
    BY <1>2, <2>1, <2>2 DEF LocalOnward
<1>3. x <= latestCompletedXid'[s] + 1
  <2>1. \A a, b, c \in Nat : a <= b + 1 /\ b <= c => a <= c + 1
    BY SMT
  <2>2. QED
    BY <1>1, <2>1
<1>4. QED
  BY <1>2, <1>3 DEF LocallySettled

LEMMA LocallySettledDown ==
    ASSUME TypeInv, NEW s \in Segment, NEW x \in Nat, NEW y \in Nat, y <= x, LocallySettled(s, x)
    PROVE  LocallySettled(s, y)
<1>1. latestCompletedXid[s] + 1 \in Nat /\ \A u \in Txn : xid[s][u] \in Nat
  BY SMT DEF TypeInv
<1>2. \A a \in Nat : x <= a => y <= a
  BY SMT
<1>3. QED
  BY <1>1, <1>2 DEF LocallySettled

LEMMA LocalOnwardNext ==
    ASSUME DistInv, TypeInv', Next
    PROVE  LocalOnward
<1> USE DEF qdVars, segVars
<1>0. /\ xid \in [Segment -> [Txn -> Nat]] /\ branch \in [Segment -> [Txn -> Branch]]
      /\ latestCompletedXid \in [Segment -> Nat]
  BY DEF DistInv, TypeInv
<1>1. \A s \in Segment : latestCompletedXid[s] <= latestCompletedXid[s]
  BY <1>0, SMT
<1>2. ASSUME UNCHANGED <<xid, latestCompletedXid, branch>> PROVE LocalOnward
  BY <1>1, <1>2 DEF LocalOnward, InProcArray
<1>3. ASSUME NEW t \in Txn, NEW s \in Segment, AssignXid(t, s) PROVE LocalOnward
  <2>1. /\ xid'[s][t] = NextXid(s) /\ UNCHANGED latestCompletedXid
        /\ \A r \in Segment, u \in Txn : r # s \/ u # t =>
              xid'[r][u] = xid[r][u] /\ branch'[r][u] = branch[r][u]
    <3>1. /\ xid' = [xid EXCEPT ![s][t] = NextXid(s)]
          /\ branch' = [branch EXCEPT ![s][t] = "prepared"]
          /\ UNCHANGED latestCompletedXid
      BY <1>3 DEF AssignXid
    <3>2. QED
      BY <1>0, <3>1, SMTT(30)
  <2>2. NextXid(s) > latestCompletedXid[s]
    <3>1. NextXid(s) \in Nat /\ latestCompletedXid[s] < NextXid(s) /\ latestCompletedXid[s] \in Nat
      BY <1>0, NextXidFacts DEF DistInv, CountInv
    <3>2. QED
      BY <3>1, SMT
  <2>3. ASSUME NEW r \in Segment, NEW u \in Txn, InProcArray(r, u)'
        PROVE  \/ InProcArray(r, u) /\ xid'[r][u] = xid[r][u]
               \/ xid'[r][u] > latestCompletedXid[r]
    <3>1. CASE r = s /\ u = t
      BY <2>1, <2>2, <3>1
    <3>2. CASE r # s \/ u # t
      BY <2>1, <2>3, <3>2 DEF InProcArray
    <3>3. QED
      BY <3>1, <3>2
  <2>4. QED
    BY <1>1, <2>1, <2>3 DEF LocalOnward
<1>4. ASSUME NEW t \in Txn, NEW s \in Segment, SetDistributedLog(t, s) \/ SetClog(t, s) PROVE LocalOnward
  <2>1. UNCHANGED <<xid, latestCompletedXid>> /\ InProcArray(s, t)
    BY <1>4 DEF SetDistributedLog, SetClog, InProcArray
  <2>2. \A r \in Segment, u \in Txn : r # s \/ u # t => branch'[r][u] = branch[r][u]
    BY <1>0, <1>4, SMT DEF SetDistributedLog, SetClog
  <2>3. QED
    BY <1>1, <2>1, <2>2 DEF LocalOnward, InProcArray
<1>5. ASSUME NEW t \in Txn, NEW s \in Segment, RemoveCommitted(t, s) \/ RemoveAborted(t, s)
      PROVE  LocalOnward
  <2>1. PICK o \in {"committed", "aborted"} : LeaveProcArray(t, s, o)
    BY <1>5 DEF RemoveCommitted, RemoveAborted
  <2>2. /\ branch'[s][t] = o
        /\ \A r \in Segment, u \in Txn : r # s \/ u # t => branch'[r][u] = branch[r][u]
    BY <1>0, <2>1, SMT DEF LeaveProcArray
  <2>3. UNCHANGED xid
    BY <2>1 DEF LeaveProcArray
  <2>4. \A r \in Segment : latestCompletedXid[r] <= latestCompletedXid'[r]
    BY <1>0, <2>1, SMT DEF LeaveProcArray, Larger
  <2>5. QED
    BY <2>2, <2>3, <2>4 DEF LocalOnward, InProcArray
<1>6. ASSUME NEW t \in Txn,
             \/ Activate(t) \/ SnapshotScan(t) \/ SnapshotPublish(t)
             \/ Decide(t) \/ EndGxact(t) \/ EndReadOnly(t)
      PROVE  UNCHANGED <<xid, latestCompletedXid, branch>>
  <2>1. CASE Activate(t) \/ SnapshotScan(t) \/ SnapshotPublish(t)
    BY <2>1 DEF Activate, SnapshotScan, SnapshotPublish
  <2>2. CASE Decide(t) \/ EndGxact(t) \/ EndReadOnly(t)
    BY <2>2 DEF Decide, EndGxact, EndReadOnly, DropSnapshots
  <2>3. QED
    BY <1>6, <2>1, <2>2
<1>7. ASSUME NEW t \in Txn, NEW s \in Segment,
             TakeLocalSnapshot(t, s) \/ AdvanceOldestXmin(t, s) \/ \E u \in Txn : SetIgnore(t, s, u)
      PROVE  UNCHANGED <<xid, latestCompletedXid, branch>>
  BY <1>7 DEF TakeLocalSnapshot, AdvanceOldestXmin, SetIgnore
<1>8. QED
  BY <1>2, <1>3, <1>4, <1>5, <1>6, <1>7 DEF Next

\* A QE that takes no snapshot keeps those it has, or drops them all.
LEMMA LocalKept ==
    ASSUME DistInv, TypeInv', LocalOnward, UNCHANGED oldestXmin,
           \A s \in Segment, t \in Txn :
              \/ local'[s][t] = <<>> /\ pgxactXmin'[s][t] = 0
              \/ /\ local'[s][t] = local[s][t] /\ pgxactXmin'[s][t] = pgxactXmin[s][t]
                 /\ Len(snaps[t]) <= Len(snaps'[t])
                 /\ \A i \in 1 .. Len(snaps[t]) : snaps'[t][i] = snaps[t][i],
           \A s \in Segment, u \in Txn : phase[u] = "committed" => xid'[s][u] = xid[s][u]
    PROVE  LocalInv'
<1>0. TypeInv
  BY DEF DistInv
<1> SUFFICES ASSUME NEW s \in Segment
             PROVE  /\ 1 <= oldestXmin'[s] /\ LocallySettled(s, oldestXmin[s])'
                    /\ \A t \in Txn : LocalOf(s, t)'
  BY DEF LocalInv
<1>1. 1 <= oldestXmin[s] /\ LocallySettled(s, oldestXmin[s]) /\ \A t \in Txn : LocalOf(s, t)
  BY DEF DistInv, LocalInv
<1>2. LocallySettled(s, oldestXmin[s])'
  <2>1. PICK x \in Nat : x = oldestXmin[s]
    BY <1>0 DEF TypeInv
  <2>2. LocallySettled(s, x)'
    BY <1>0, <1>1, <2>1, LocallySettledStays
  <2>3. QED
    BY <2>1, <2>2 DEF LocallySettled
<1>3. Len(<<>>) = 0 /\ 1 .. 0 = {}
  BY SMT
<1>4. \A t \in Txn : LSnaps(s, t)' \subseteq LSnaps(s, t)
  <2> TAKE t \in Txn
  <2>1. CASE local'[s][t] = <<>>
    <3>1. 1 .. Len(local'[s][t]) = {}
      BY <1>3, <2>1
    <3>2. QED
      BY <3>1 DEF LSnaps
  <2>2. CASE local'[s][t] = local[s][t]
    BY <2>2 DEF LSnaps
  <2>3. QED
    BY <2>1, <2>2
<1>5. ASSUME NEW t \in Txn, local'[s][t] = <<>>, pgxactXmin'[s][t] = 0 PROVE LocalOf(s, t)'
  <2>1. LSnaps(s, t)' = {}
    BY <1>3, <1>5 DEF LSnaps
  <2>2. Len(local'[s][t]) <= Len(snaps'[t])
    <3> DEFINE D == DSnap
    <3>1. snaps'[t] \in Seq(D)
      <4>1. snaps' \in [Txn -> Seq(DSnap)]
        BY DEF TypeInv
      <4>2. QED
        BY <4>1
    <3> HIDE DEF D
    <3>2. Len(snaps'[t]) \in Nat
      BY <3>1, SMT
    <3>3. \A n \in Nat : 0 <= n
      BY SMT
    <3>4. QED
      BY <1>3, <1>5, <3>2, <3>3
  <2>3. QED
    BY <1>3, <1>5, <2>1, <2>2 DEF LocalOf
<1>6. ASSUME NEW t \in Txn, local'[s][t] = local[s][t], pgxactXmin'[s][t] = pgxactXmin[s][t],
             Len(snaps[t]) <= Len(snaps'[t]),
             \A i \in 1 .. Len(snaps[t]) : snaps'[t][i] = snaps[t][i]
      PROVE  LocalOf(s, t)'
  <2>1. LocalOf(s, t)
    BY <1>1
  <2>2. pgxactXmin'[s][t] # 0 => LocallySettled(s, pgxactXmin[s][t])'
    <3>1. PICK x \in Nat : x = pgxactXmin[s][t]
      <4>1. pgxactXmin \in [Segment -> [Txn -> Nat]]
        BY <1>0 DEF TypeInv
      <4>2. QED
        BY <4>1
    <3>2. LocallySettled(s, x) => LocallySettled(s, x)'
      BY <1>0, LocallySettledStays
    <3>3. QED
      BY <1>6, <2>1, <3>1, <3>2 DEF LocalOf, LocallySettled
  <2>3. ASSUME NEW l \in LSnaps(s, t)'
        PROVE  /\ 1 <= l.xmin /\ LocallySettled(s, l.xmin)' /\ oldestXmin'[s] <= l.xmin
               /\ pgxactXmin'[s][t] # 0 /\ pgxactXmin'[s][t] <= l.xmin
               /\ \A t2 \in Txn : \A l2 \in LSnaps(s, t2)' : l.globalxmin <= l2.xmin
    <3>1. l \in LSnaps(s, t)
      BY <1>4, <2>3
    <3>2. l.xmin \in Nat
      BY <1>0, <3>1, LSnapsType
    <3>3. LocallySettled(s, l.xmin)'
      BY <1>0, <2>1, <3>1, <3>2, LocallySettledStays DEF LocalOf
    <3>4. QED
      BY <1>4, <1>6, <2>1, <3>1, <3>3 DEF LocalOf
  <2>4. Len(local'[s][t]) <= Len(snaps'[t])
    <3>1. Len(local[s][t]) <= Len(snaps[t])
      BY <2>1 DEF LocalOf
    <3>2. Len(local[s][t]) \in Nat /\ Len(snaps[t]) \in Nat /\ Len(snaps'[t]) \in Nat
      <4> DEFINE D == DSnap
                 E == LSnap
      <4>1. snaps \in [Txn -> Seq(D)] /\ snaps' \in [Txn -> Seq(D)]
            /\ local \in [Segment -> [Txn -> Seq(E)]]
        BY <1>0 DEF TypeInv
      <4> HIDE DEF D, E
      <4>2. QED
        BY <4>1, SMT
    <3>3. \A a, b, c \in Nat : a <= b /\ b <= c => a <= c
      BY SMT
    <3>4. QED
      BY <1>6, <3>1, <3>2, <3>3
  <2>5. ASSUME NEW i \in 1 .. Len(local[s][t]), NEW u \in snaps'[t][i].seen, xid'[s][u] # 0
        PROVE  xid'[s][u] < local'[s][t][i].xmax /\ xid'[s][u] \notin local'[s][t][i].xip
    <3>1. /\ i \in 1 .. Len(snaps[t]) /\ snaps[t][i] \in DSnap /\ SnapOf(t, snaps[t][i])
      BY PairFacts
    <3>2. u \in snaps[t][i].seen
      BY <1>6, <2>5, <3>1
    <3>3. u \in Txn /\ phase[u] = "committed"
      BY <3>1, <3>2, SnapFields DEF SnapOf
    <3>4. xid'[s][u] = xid[s][u]
      BY <3>3
    <3>5. QED
      BY <1>6, <2>1, <2>5, <3>2, <3>4 DEF LocalOf
  <2>6. QED
    BY <1>6, <2>2, <2>3, <2>4, <2>5 DEF LocalOf
<1>7. QED
  BY <1>1, <1>2, <1>5, <1>6

\* A transaction the distributed snapshot sees has left the segment's proc
\* array before the local snapshot is taken.
LEMMA SeenIsOver ==
    ASSUME DistInv, NEW s \in Segment, NEW t \in Txn, NEW u \in Txn, phase[u] = "committed",
           xid[s][u] # 0
    PROVE  xid[s][u] < LocalScan(t, s).xmax /\ xid[s][u] \notin LocalScan(t, s).xip
<1>1. BranchOf(s, u)
  BY DEF DistInv, BranchInv
<1>2. branch[s][u] = "committed"
  <2>1. branch[s][u] \in {"none", "committed"}
    BY <1>1 DEF BranchOf, Allowed
  <2>2. QED
    BY <1>1, <2>1 DEF BranchOf
<1>3. /\ LocalScan(t, s).xmax = latestCompletedXid[s] + 1
      /\ LocalScan(t, s).xip \subseteq Running(s)
  BY LocalScanFacts DEF DistInv
<1>4. xid[s][u] <= latestCompletedXid[s]
  BY <1>1, <1>2 DEF BranchOf
<1>5. xid[s][u] \in Nat /\ latestCompletedXid[s] \in Nat
  BY SMT DEF DistInv, TypeInv
<1>6. xid[s][u] < LocalScan(t, s).xmax
  BY <1>3, <1>4, <1>5, SMT
<1>7. ASSUME NEW v \in Txn, branch[s][v] \in {"prepared", "logged", "clog"} PROVE xid[s][v] # xid[s][u]
  <2>1. v # u
    BY <1>2, <1>7
  <2>2. QED
    BY <1>1, <2>1 DEF BranchOf
<1>8. xid[s][u] \notin Running(s)
  BY <1>7 DEF Running
<1>9. QED
  BY <1>3, <1>6, <1>8

LEMMA LocalTake ==
    ASSUME DistInv, TypeInv', NEW t \in Txn, NEW s \in Segment, TakeLocalSnapshot(t, s)
    PROVE  LocalInv'
<1> USE DEF qdVars, segVars
<1>00. PICK n : n = LocalScan(t, s)
  OBVIOUS
<1>0. /\ TypeInv /\ local \in [Segment -> [Txn -> Seq(LSnap)]]
      /\ pgxactXmin \in [Segment -> [Txn -> Nat]] /\ snaps \in [Txn -> Seq(DSnap)]
  BY DEF DistInv, TypeInv
<1>1. /\ UNCHANGED <<snaps, xid, branch, latestCompletedXid, oldestXmin>>
      /\ Len(local[s][t]) < Len(snaps[t])
      /\ local' = [local EXCEPT ![s][t] = Append(local[s][t], n)]
      /\ pgxactXmin' = [pgxactXmin EXCEPT
            ![s][t] = IF pgxactXmin[s][t] = 0 THEN n.xmin ELSE pgxactXmin[s][t]]
  BY <1>00 DEF TakeLocalSnapshot
<1>2. /\ n \in LSnap /\ 1 <= n.xmin /\ LocallySettled(s, n.xmin)
      /\ \A x \in Nat : LocallySettled(s, x) => x <= n.xmin
      /\ n.globalxmin <= n.xmin
      /\ \A u \in Txn : pgxactXmin[s][u] # 0 => n.globalxmin <= pgxactXmin[s][u]
  BY <1>00, LocalScanFacts DEF DistInv
<1>3. n.xmin \in Nat /\ n.globalxmin \in Nat
  BY <1>2, SnapFields
<1>4. /\ local'[s][t] = Append(local[s][t], n)
      /\ pgxactXmin'[s][t] = IF pgxactXmin[s][t] = 0 THEN n.xmin ELSE pgxactXmin[s][t]
      /\ \A r \in Segment, u \in Txn : r # s \/ u # t =>
            local'[r][u] = local[r][u] /\ pgxactXmin'[r][u] = pgxactXmin[r][u]
  BY <1>0, <1>1
<1>5. \A r, x : LocallySettled(r, x) => LocallySettled(r, x)'
  BY <1>1 DEF LocallySettled, InProcArray
<1>6. \A r \in Segment : /\ 1 <= oldestXmin[r] /\ LocallySettled(r, oldestXmin[r])
                         /\ oldestXmin[r] \in Nat
                         /\ \A u \in Txn : LocalOf(r, u)
  BY <1>0 DEF DistInv, LocalInv, TypeInv
<1>7. \A r \in Segment : 1 <= oldestXmin'[r] /\ LocallySettled(r, oldestXmin[r])'
  BY <1>1, <1>6 DEF LocallySettled, InProcArray
<1>8. /\ Len(local'[s][t]) = Len(local[s][t]) + 1
      /\ Len(local[s][t]) \in Nat /\ Len(snaps[t]) \in Nat
      /\ \A i \in 1 .. Len(local'[s][t]) :
            \/ i \in 1 .. Len(local[s][t]) /\ local'[s][t][i] = local[s][t][i]
            \/ local'[s][t][i] = n /\ i = Len(local[s][t]) + 1
  <2> DEFINE D == LSnap
             E == DSnap
  <2>1. local[s][t] \in Seq(D) /\ n \in D /\ snaps[t] \in Seq(E)
    BY <1>0, <1>2
  <2> HIDE DEF D, E
  <2>2. QED
    BY <1>4, <2>1, SMT
<1>9. ASSUME NEW r \in Segment, NEW u \in Txn, NEW l \in LSnaps(r, u)'
      PROVE  l \in LSnaps(r, u) \/ (r = s /\ u = t /\ l = n)
  <2>1. CASE r = s /\ u = t
    <3>1. PICK i \in 1 .. Len(local'[s][t]) : l = local'[s][t][i]
      BY <1>9, <2>1 DEF LSnaps
    <3>2. QED
      BY <1>8, <2>1, <3>1 DEF LSnaps
  <2>2. CASE r # s \/ u # t
    <3>1. local'[r][u] = local[r][u]
      BY <1>4, <2>2
    <3>2. LSnaps(r, u)' = LSnaps(r, u)
      BY <3>1 DEF LSnaps
    <3>3. QED
      BY <1>9, <3>2
  <2>3. QED
    BY <2>1, <2>2
<1>10. ASSUME NEW u \in Txn, NEW l \in LSnaps(s, u)
       PROVE  l.globalxmin <= n.xmin /\ n.globalxmin <= l.xmin
  <2>1. LocalOf(s, u) /\ l.xmin \in Nat /\ l.globalxmin \in Nat
    BY <1>0, <1>6, LSnapsType
  <2>2. l.globalxmin <= l.xmin /\ l.xmin <= n.xmin
    BY <1>2, <2>1 DEF LocalOf
  <2>3. pgxactXmin[s][u] \in Nat /\ n.globalxmin <= pgxactXmin[s][u] /\ pgxactXmin[s][u] <= l.xmin
    BY <1>0, <1>2, <2>1 DEF LocalOf
  <2>4. \A a, b, c \in Nat : a <= b /\ b <= c => a <= c
    BY SMT
  <2>5. QED
    BY <1>3, <2>1, <2>2, <2>3, <2>4
<1>11. ASSUME NEW r \in Segment, NEW u \in Txn, r # s \/ u # t PROVE LocalOf(r, u)'
  <2>1. LocalOf(r, u) /\ local'[r][u] = local[r][u] /\ pgxactXmin'[r][u] = pgxactXmin[r][u]
    BY <1>4, <1>6, <1>11
  <2>2. LSnaps(r, u)' = LSnaps(r, u)
    BY <2>1 DEF LSnaps
  <2>3. ASSUME NEW l \in LSnaps(r, u)
        PROVE  /\ LocallySettled(r, l.xmin)'
               /\ \A t2 \in Txn : \A l2 \in LSnaps(r, t2)' : l.globalxmin <= l2.xmin
    BY <1>5, <1>9, <1>10, <2>1 DEF LocalOf
  <2>4. pgxactXmin'[r][u] # 0 => LocallySettled(r, pgxactXmin[r][u])'
    BY <1>1, <2>1 DEF LocalOf, LocallySettled, InProcArray
  <2>5. QED
    BY <1>1, <2>1, <2>2, <2>3, <2>4 DEF LocalOf
<1>12. LocalOf(s, t)'
  <2>1. LocalOf(s, t)
    BY <1>6
  <2>2. PICK x \in Nat : x = pgxactXmin'[s][t]
    BY <1>0, <1>3, <1>4
  <2>3. x # 0 /\ x <= n.xmin /\ LocallySettled(s, x)'
        /\ (pgxactXmin[s][t] # 0 => x = pgxactXmin[s][t])
    <3>1. CASE pgxactXmin[s][t] = 0
      <4>1. x = n.xmin
        BY <1>4, <2>2, <3>1
      <4>2. n.xmin # 0 /\ n.xmin <= n.xmin
        BY <1>2, <1>3, SMT
      <4>3. QED
        BY <1>2, <1>5, <3>1, <4>1, <4>2
    <3>2. CASE pgxactXmin[s][t] # 0
      <4>1. x = pgxactXmin[s][t] /\ LocallySettled(s, x)
        BY <1>4, <2>1, <2>2, <3>2 DEF LocalOf
      <4>2. QED
        BY <1>2, <1>5, <3>2, <4>1
    <3>3. QED
      BY <3>1, <3>2
  <2>4. ASSUME NEW l \in LSnaps(s, t)'
        PROVE  /\ 1 <= l.xmin /\ LocallySettled(s, l.xmin)' /\ oldestXmin[s] <= l.xmin
               /\ x <= l.xmin
               /\ \A t2 \in Txn : \A l2 \in LSnaps(s, t2)' : l.globalxmin <= l2.xmin
    <3>1. CASE l \in LSnaps(s, t)
      BY <1>5, <1>9, <1>10, <2>1, <2>3, <3>1 DEF LocalOf
    <3>2. CASE l = n
      BY <1>2, <1>5, <1>6, <1>9, <1>10, <2>3, <3>2
    <3>3. QED
      BY <1>9, <2>4, <3>1, <3>2
  <2>5. Len(local'[s][t]) <= Len(snaps'[t])
    BY <1>1, <1>8, SMT
  <2>6. ASSUME NEW i \in 1 .. Len(local'[s][t]), NEW u \in snaps[t][i].seen, xid[s][u] # 0
        PROVE  xid[s][u] < local'[s][t][i].xmax /\ xid[s][u] \notin local'[s][t][i].xip
    <3>1. CASE i \in 1 .. Len(local[s][t]) /\ local'[s][t][i] = local[s][t][i]
      BY <2>1, <2>6, <3>1 DEF LocalOf
    <3>2. CASE local'[s][t][i] = n /\ i = Len(local[s][t]) + 1
      <4>1. i \in 1 .. Len(snaps[t])
        BY <1>1, <1>8, <3>2, SMT
      <4>2. snaps[t][i] \in DSnaps(t)
        BY <4>1 DEF DSnaps
      <4>3. snaps[t][i] \in DSnap /\ SnapOf(t, snaps[t][i])
        BY <1>0, <4>2, DSnapsType DEF DistInv, SnapInv
      <4>4. u \in Txn /\ phase[u] = "committed"
        BY <2>6, <4>3, SnapFields DEF SnapOf
      <4>5. QED
        BY <1>00, <2>6, <3>2, <4>4, SeenIsOver
    <3>3. QED
      BY <1>8, <2>6, <3>1, <3>2
  <2>7. LocallySettled(s, pgxactXmin[s][t])'
    BY <2>2, <2>3 DEF LocallySettled
  <2>8. QED
    BY <1>1, <2>2, <2>3, <2>4, <2>5, <2>6, <2>7 DEF LocalOf
<1>13. QED
  BY <1>7, <1>11, <1>12 DEF LocalInv

LEMMA LocalAdvance ==
    ASSUME DistInv, TypeInv', NEW t \in Txn, NEW s \in Segment, AdvanceOldestXmin(t, s)
    PROVE  LocalInv'
<1> USE DEF qdVars, segVars
<1>0. TypeInv /\ oldestXmin \in [Segment -> Nat] /\ oldestXmin' \in [Segment -> Nat]
  BY DEF DistInv, TypeInv
<1>1. PICK i \in 1 .. Len(local[s][t]) :
         /\ oldestXmin' = [oldestXmin EXCEPT
               ![s] = AdvancedXmin(s, local[s][t][i].globalxmin, snaps[t][i].xminAll)]
         /\ local' = [local EXCEPT ![s][t][i].at = "ready"]
  BY DEF AdvanceOldestXmin
<1>2. UNCHANGED <<snaps, xid, branch, latestCompletedXid, pgxactXmin>>
  BY DEF AdvanceOldestXmin
<1>3. \A r \in Segment, u \in Txn :
         /\ Len(local'[r][u]) = Len(local[r][u])
         /\ \A j \in 1 .. Len(local[r][u]) :
               /\ local'[r][u][j].xmin = local[r][u][j].xmin
               /\ local'[r][u][j].xmax = local[r][u][j].xmax
               /\ local'[r][u][j].xip = local[r][u][j].xip
               /\ local'[r][u][j].globalxmin = local[r][u][j].globalxmin
  BY <1>1, ReadyFacts
<1>4. \A r \in Segment, u \in Txn : \A l \in LSnaps(r, u)' :
         \E m \in LSnaps(r, u) : l.xmin = m.xmin /\ l.globalxmin = m.globalxmin
  <2> TAKE r \in Segment, u \in Txn
  <2> TAKE l \in LSnaps(r, u)'
  <2>1. PICK j \in 1 .. Len(local'[r][u]) : l = local'[r][u][j]
    BY DEF LSnaps
  <2>2. j \in 1 .. Len(local[r][u])
    BY <1>3, <2>1
  <2>3. local[r][u][j] \in LSnaps(r, u)
    BY <2>2 DEF LSnaps
  <2>4. QED
    BY <1>3, <2>1, <2>2, <2>3
<1>5. \A r \in Segment : /\ 1 <= oldestXmin[r] /\ LocallySettled(r, oldestXmin[r])
                         /\ \A u \in Txn : LocalOf(r, u)
  BY DEF DistInv, LocalInv
<1>6. \A r, x : LocallySettled(r, x) => LocallySettled(r, x)'
  BY <1>2 DEF LocallySettled, InProcArray
<1>7. PICK g \in Nat, all \in Nat : g = local[s][t][i].globalxmin /\ all = snaps[t][i].xminAll
  BY PairFacts, SnapFields
<1>8. local[s][t][i] \in LSnaps(s, t) /\ local[s][t][i].xmin \in Nat
  BY PairFacts, SnapFields
<1>9. PICK h \in Nat : h = oldestXmin'[s]
  BY <1>0
<1>10. /\ oldestXmin[s] <= h /\ h <= Larger(g, oldestXmin[s])
       /\ \A r \in Segment : r # s => oldestXmin'[r] = oldestXmin[r]
  <2>1. h = AdvancedXmin(s, g, all) /\ \A r \in Segment : r # s => oldestXmin'[r] = oldestXmin[r]
    BY <1>0, <1>1, <1>7, <1>9
  <2>2. QED
    BY <1>0, <2>1, AdvancedFacts
<1>11. h <= g \/ h <= oldestXmin[s]
  BY <1>10 DEF Larger
<1>12. oldestXmin[s] \in Nat /\ LocallySettled(s, g)
  <2>1. g <= local[s][t][i].xmin /\ LocallySettled(s, local[s][t][i].xmin)
    BY <1>5, <1>7, <1>8 DEF LocalOf
  <2>2. QED
    BY <1>0, <1>8, <2>1, LocallySettledDown
<1>13. 1 <= h /\ LocallySettled(s, h)
  <2>1. LocallySettled(s, h)
    BY <1>0, <1>5, <1>11, <1>12, LocallySettledDown
  <2>2. 1 <= h
    BY <1>5, <1>10, <1>12, SMT
  <2>3. QED
    BY <2>1, <2>2
<1>14. \A u \in Txn : \A l \in LSnaps(s, u) : h <= l.xmin
  <2> TAKE u \in Txn
  <2> TAKE l \in LSnaps(s, u)
  <2>1. g <= l.xmin /\ oldestXmin[s] <= l.xmin /\ l.xmin \in Nat
    BY <1>0, <1>5, <1>7, <1>8, LSnapsType DEF LocalOf
  <2>2. QED
    BY <1>11, <1>12, <2>1, SMT
<1>15. \A r \in Segment : 1 <= oldestXmin'[r] /\ LocallySettled(r, oldestXmin[r])'
  BY <1>2, <1>5, <1>9, <1>10, <1>13 DEF LocallySettled, InProcArray
<1>16. ASSUME NEW r \in Segment, NEW u \in Txn PROVE LocalOf(r, u)'
  <2>1. LocalOf(r, u)
    BY <1>5
  <2>2. pgxactXmin'[r][u] # 0 => LocallySettled(r, pgxactXmin[r][u])'
    BY <1>2, <2>1 DEF LocalOf, LocallySettled, InProcArray
  <2>3. ASSUME NEW l \in LSnaps(r, u)'
        PROVE  /\ 1 <= l.xmin /\ LocallySettled(r, l.xmin)' /\ oldestXmin'[r] <= l.xmin
               /\ pgxactXmin'[r][u] # 0 /\ pgxactXmin'[r][u] <= l.xmin
               /\ \A t2 \in Txn : \A l2 \in LSnaps(r, t2)' : l.globalxmin <= l2.xmin
    <3>1. PICK m \in LSnaps(r, u) : l.xmin = m.xmin /\ l.globalxmin = m.globalxmin
      BY <1>4, <2>3
    <3>2. oldestXmin'[r] <= m.xmin
      BY <1>9, <1>10, <1>14, <2>1, <3>1 DEF LocalOf
    <3>3. \A t2 \in Txn : \A l2 \in LSnaps(r, t2)' : m.globalxmin <= l2.xmin
      BY <1>4, <2>1, <3>1 DEF LocalOf
    <3>4. LocallySettled(r, m.xmin)'
      BY <1>6, <2>1, <3>1 DEF LocalOf
    <3>5. QED
      BY <1>2, <2>1, <3>1, <3>2, <3>3, <3>4 DEF LocalOf
  <2>4. Len(local'[r][u]) <= Len(snaps'[u])
    BY <1>2, <1>3, <2>1 DEF LocalOf
  <2>5. ASSUME NEW j \in 1 .. Len(local'[r][u]), NEW v \in snaps'[u][j].seen, xid'[r][v] # 0
        PROVE  xid'[r][v] < local'[r][u][j].xmax /\ xid'[r][v] \notin local'[r][u][j].xip
    <3>1. /\ j \in 1 .. Len(local[r][u]) /\ local'[r][u][j].xmax = local[r][u][j].xmax
          /\ local'[r][u][j].xip = local[r][u][j].xip
      <4>1. Len(local'[r][u]) = Len(local[r][u])
        BY <1>3
      <4>2. j \in 1 .. Len(local[r][u])
        BY <2>5, <4>1
      <4>3. QED
        BY <1>3, <4>2
    <3>2. v \in snaps[u][j].seen /\ xid[r][v] # 0 /\ xid' = xid
      BY <1>2, <2>5
    <3>3. xid[r][v] < local[r][u][j].xmax /\ xid[r][v] \notin local[r][u][j].xip
      BY <2>1, <3>1, <3>2 DEF LocalOf
    <3>4. QED
      BY <3>1, <3>2, <3>3
  <2>6. QED
    BY <2>2, <2>3, <2>4, <2>5 DEF LocalOf
<1>17. QED
  BY <1>15, <1>16 DEF LocalInv

LEMMA LocalNext ==
    ASSUME DistInv, TypeInv', Next
    PROVE  LocalInv'
<1> USE DEF qdVars, segVars
<1>0. /\ xid \in [Segment -> [Txn -> Nat]] /\ snaps \in [Txn -> Seq(DSnap)] /\ LocalOnward
      /\ local \in [Segment -> [Txn -> Seq(LSnap)]] /\ pgxactXmin \in [Segment -> [Txn -> Nat]]
  BY LocalOnwardNext DEF DistInv, TypeInv
<1>1. \A t \in Txn : Len(snaps[t]) \in Nat /\ Len(snaps[t]) <= Len(snaps[t])
  <2> DEFINE D == DSnap
  <2>1. snaps \in [Txn -> Seq(D)]
    BY <1>0
  <2> HIDE DEF D
  <2>2. QED
    BY <2>1, SMT
<1>2. ASSUME UNCHANGED <<snaps, xid, local, pgxactXmin, oldestXmin>> PROVE LocalInv'
  BY <1>0, <1>1, <1>2, LocalKept
<1>3. ASSUME NEW t \in Txn, SnapshotPublish(t) PROVE LocalInv'
  <2>1. /\ snaps'[t] = Append(snaps[t], creating[t]) /\ \A u \in Txn : u # t => snaps'[u] = snaps[u]
        /\ UNCHANGED <<xid, local, pgxactXmin, oldestXmin>>
    BY <1>0, <1>3 DEF SnapshotPublish
  <2>2. Len(snaps[t]) <= Len(snaps'[t]) /\ \A i \in 1 .. Len(snaps[t]) : snaps'[t][i] = snaps[t][i]
    <3> DEFINE D == DSnap
    <3>1. snaps[t] \in Seq(D)
      BY <1>0
    <3>2. creating[t] \in D
      BY <1>3 DEF DistInv, TypeInv, SnapshotPublish
    <3> HIDE DEF D
    <3>3. QED
      BY <2>1, <3>1, <3>2, SMT
  <2>3. \A u \in Txn : /\ Len(snaps[u]) <= Len(snaps'[u])
                       /\ \A i \in 1 .. Len(snaps[u]) : snaps'[u][i] = snaps[u][i]
    BY <1>1, <2>1, <2>2
  <2>4. QED
    BY <1>0, <2>1, <2>3, LocalKept
<1>4. ASSUME NEW t \in Txn, DropSnapshots(t) PROVE LocalInv'
  <2>1. /\ UNCHANGED <<xid, oldestXmin>> /\ \A u \in Txn : u # t => snaps'[u] = snaps[u]
    BY <1>0, <1>4 DEF DropSnapshots
  <2>2. \A s \in Segment : /\ local'[s][t] = <<>> /\ pgxactXmin'[s][t] = 0
                           /\ \A u \in Txn : u # t => /\ local'[s][u] = local[s][u]
                                                      /\ pgxactXmin'[s][u] = pgxactXmin[s][u]
    BY <1>0, <1>4 DEF DropSnapshots
  <2>3. QED
    BY <1>0, <1>1, <2>1, <2>2, LocalKept
<1>5. ASSUME NEW t \in Txn, NEW s \in Segment, AssignXid(t, s) PROVE LocalInv'
  <2>1. /\ UNCHANGED <<snaps, local, pgxactXmin, oldestXmin>> /\ phase[t] = "active"
        /\ \A r \in Segment, u \in Txn : u # t => xid'[r][u] = xid[r][u]
    BY <1>0, <1>5, SMT DEF AssignXid
  <2>2. QED
    BY <1>0, <1>1, <2>1, LocalKept
<1>6. ASSUME NEW t \in Txn, Activate(t) \/ SnapshotScan(t) \/ EndGxact(t)
      PROVE  UNCHANGED <<snaps, xid, local, pgxactXmin, oldestXmin>>
  BY <1>6 DEF Activate, SnapshotScan, EndGxact
<1>7. ASSUME NEW t \in Txn, Decide(t) \/ EndReadOnly(t) PROVE DropSnapshots(t)
  BY <1>7 DEF Decide, EndReadOnly
<1>8. ASSUME NEW t \in Txn, NEW s \in Segment,
             \/ SetDistributedLog(t, s) \/ SetClog(t, s) \/ RemoveCommitted(t, s)
             \/ RemoveAborted(t, s) \/ \E u \in Txn : SetIgnore(t, s, u)
      PROVE  UNCHANGED <<snaps, xid, local, pgxactXmin, oldestXmin>>
  BY <1>8 DEF SetDistributedLog, SetClog, RemoveCommitted, RemoveAborted, LeaveProcArray, SetIgnore
<1>9. QED
  BY <1>2, <1>3, <1>4, <1>5, <1>6, <1>7, <1>8, LocalTake, LocalAdvance DEF Next

-----------------------------------------------------------------------------
(* The invariant *)

LEMMA DistInit == Init => DistInv
<1> SUFFICES ASSUME Init PROVE DistInv
  OBVIOUS
<1>1. TypeInv
  BY TypeInit
<1>2. Len(<<>>) = 0 /\ 1 .. 0 = {} /\ 0 < 1 /\ 1 <= 1 /\ 1 <= 0 + 1
  BY SMT
<1>3. \A t \in Txn : DSnaps(t) = {} /\ \A s \in Segment : LSnaps(s, t) = {}
  BY <1>2 DEF Init, DSnaps, LSnaps
<1>4. CountInv
  <2>1. Numbered \in SUBSET Txn
    BY DEF Numbered
  <2>2. Cardinality(Numbered) \in Nat
    BY <2>1, CountFacts
  <2>3. 1 <= Cardinality(Numbered) + 1
    BY <2>2, SMT
  <2>4. ASSUME NEW s \in Segment PROVE 0 < NextXid(s)
    <3>1. {t \in Txn : xid[s][t] # 0} \in SUBSET Txn
      OBVIOUS
    <3>2. PICK c \in Nat : c = Cardinality({t \in Txn : xid[s][t] # 0})
      BY <3>1, CountFacts
    <3>3. NextXid(s) = c + 1
      BY <3>2 DEF NextXid
    <3>4. QED
      BY <3>3, SMT
  <2>5. QED
    BY <2>3, <2>4 DEF CountInv, Init
<1>5. QDInv
  BY <1>2 DEF QDInv, Init
<1>6. BranchInv
  <2> SUFFICES ASSUME NEW s \in Segment, NEW t \in Txn PROVE BranchOf(s, t)
    BY DEF BranchInv
  <2>1. xid[s][t] = 0 /\ branch[s][t] = "none" /\ distributedLog[s][t] = 0 /\ phase[t] = "active"
    BY DEF Init
  <2>2. branch[s][t] \in Allowed(phase[t])
    BY <2>1 DEF Allowed
  <2>3. QED
    BY <2>1, <2>2 DEF BranchOf
<1>7. SnapInv /\ PubInv /\ BelowInv
  BY <1>3 DEF SnapInv, PubInv, PubOf, BelowInv, Init
<1>8. LocalInv
  <2>0. \A s \in Segment : /\ latestCompletedXid[s] = 0 /\ oldestXmin[s] = 1
                           /\ \A t \in Txn : ~InProcArray(s, t)
    BY DEF Init, InProcArray
  <2>1. \A s \in Segment : 1 <= oldestXmin[s] /\ LocallySettled(s, oldestXmin[s])
    BY <1>2, <2>0 DEF LocallySettled
  <2>2. \A s \in Segment, t \in Txn : LocalOf(s, t)
    <3>1. 0 <= 0
      BY SMT
    <3>2. QED
      BY <1>2, <1>3, <3>1 DEF LocalOf, Init
  <2>3. QED
    BY <2>1, <2>2 DEF LocalInv
<1>9. QED
  BY <1>1, <1>4, <1>5, <1>6, <1>7, <1>8 DEF DistInv

LEMMA DistStep == DistInv /\ [Next]_vars => DistInv'
<1> SUFFICES ASSUME DistInv, [Next]_vars PROVE DistInv'
  OBVIOUS
<1>1. CASE Next
  <2>1. TypeInv'
    BY <1>1, TypeQD, TypeSegment DEF Next
  <2>2. BranchInv'
    BY <1>1, <2>1, BranchQD, BranchSegment DEF Next
  <2>3. QED
    BY <1>1, <2>1, <2>2, CountNext, QDNext, SnapNext, PubNext, BelowNext, LocalNext DEF DistInv
<1>2. CASE UNCHANGED vars
  <2> USE <1>2 DEF vars, qdVars, segVars
  <2>1. TypeInv'
    BY DEF DistInv, TypeInv
  <2>2. CountInv' /\ QDInv'
    BY DEF DistInv, CountInv, QDInv, Numbered, NextXid
  <2>3. BranchInv'
    <3> SUFFICES ASSUME NEW s \in Segment, NEW t \in Txn PROVE BranchOf(s, t)'
      BY DEF BranchInv
    <3>1. BranchOf(s, t)
      BY DEF DistInv, BranchInv
    <3>2. QED
      BY <3>1 DEF BranchOf
  <2>4. (\A t : DSnaps(t)' = DSnaps(t)) /\ (\A x : Settled(x)' <=> Settled(x)) /\ Floor' = Floor
    BY DEF DSnaps, Settled, Floor
  <2>5. SnapInv'
    <3> SUFFICES ASSUME NEW t \in Txn, NEW ds \in DSnaps(t) PROVE SnapOf(t, ds)'
      BY <2>4 DEF SnapInv
    <3>1. SnapOf(t, ds)
      BY DEF DistInv, SnapInv
    <3>2. QED
      BY <2>4, <3>1 DEF SnapOf
  <2>6. PubInv'
    BY <2>4 DEF DistInv, PubInv, PubOf, Settled
  <2>7. BelowInv'
    BY <2>4 DEF DistInv, BelowInv, Below, Settled
  <2>8. LocalInv'
    <3>1. LocalInv
      BY DEF DistInv
    <3>2. ASSUME NEW s \in Segment, NEW t \in Txn PROVE LocalOf(s, t)'
      <4>1. LocalOf(s, t) /\ \A t2 : LSnaps(s, t2)' = LSnaps(s, t2)
        BY <3>1 DEF LocalInv, LSnaps
      <4>2. \A x : LocallySettled(s, x)' <=> LocallySettled(s, x)
        BY DEF LocallySettled, InProcArray
      <4>3. pgxactXmin[s][t] # 0 => LocallySettled(s, pgxactXmin[s][t])'
        BY <4>1 DEF LocalOf, LocallySettled, InProcArray
      <4>4. QED
        BY <4>1, <4>2, <4>3 DEF LocalOf
    <3>3. \A s \in Segment : 1 <= oldestXmin'[s] /\ LocallySettled(s, oldestXmin[s])'
      BY <3>1 DEF LocalInv, LocallySettled, InProcArray
    <3>4. QED
      BY <3>2, <3>3 DEF LocalInv
  <2>9. QED
    BY <2>1, <2>2, <2>3, <2>5, <2>6, <2>7, <2>8 DEF DistInv
<1>3. QED
  BY <1>1, <1>2

LEMMA DistInvariant == Spec => []DistInv
BY DistInit, DistStep, PTL DEF Spec

-----------------------------------------------------------------------------
(* Theorems *)

LEMMA DistType == DistInv => TypeOK
<1> SUFFICES ASSUME DistInv PROVE TypeOK
  OBVIOUS
<1>1. TypeInv /\ QDInv
  BY DEF DistInv
<1>2. PICK n \in Nat : n = Cardinality(Txn)
  BY CountFacts
<1>3. /\ nextGxid \in Nat /\ latestCompletedGxid \in Nat /\ latestCompletedGxid < nextGxid
      /\ nextGxid <= n + 1
  <2>1. Numbered \in SUBSET Txn
    BY DEF Numbered
  <2>2. PICK c \in Nat : c = Cardinality(Numbered) /\ c <= n
    BY <1>2, <2>1, CountFacts
  <2>3. nextGxid <= c + 1 /\ nextGxid \in Nat
    BY <2>2 DEF DistInv, CountInv, TypeInv
  <2>4. nextGxid <= n + 1
    BY <2>2, <2>3, SMT
  <2>5. QED
    BY <1>1, <2>4 DEF TypeInv, QDInv
<1>4. nextGxid \in 1 .. n + 1 /\ latestCompletedGxid \in 0 .. nextGxid - 1
  BY <1>3, SMT
<1>5. \A x \in Nat : x < nextGxid => x \in (1 .. n) \union {0}
  BY <1>3, SMT
<1>6. gxid \in [Txn -> Gxid \union {0}]
  <2>1. gxid \in [Txn -> Nat] /\ \A t \in Txn : gxid[t] < nextGxid
    BY <1>1 DEF TypeInv, QDInv
  <2>2. \A t \in Txn : gxid[t] \in Gxid \union {0}
    BY <1>2, <1>5, <2>1 DEF Gxid
  <2>3. QED
    BY <2>1, <2>2
<1>7. xminDS \in [Txn -> 0 .. Cardinality(Txn) + 1]
  <2>1. xminDS \in [Txn -> Nat]
    BY <1>1 DEF TypeInv
  <2>2. ASSUME NEW t \in Txn PROVE xminDS[t] \in 0 .. n + 1
    <3>1. xminDS[t] # 0 => xminDS[t] <= latestCompletedGxid + 1
      BY DEF DistInv, PubInv, PubOf, Settled
    <3>2. xminDS[t] \in Nat
      BY <2>1
    <3>3. QED
      BY <1>3, <3>1, <3>2, SMT
  <2>3. QED
    BY <1>2, <2>1, <2>2
<1>8. xid \in [Segment -> [Txn -> Xid \union {0}]]
  <2>1. xid \in [Segment -> [Txn -> Nat]]
    BY <1>1 DEF TypeInv
  <2>2. ASSUME NEW s \in Segment, NEW t \in Txn PROVE xid[s][t] \in Xid \union {0}
    <3>1. PICK m \in Nat : m = NextXid(s) /\ m <= n + 1
      BY <1>2, NextXidFacts
    <3>2. xid[s][t] \in Nat /\ xid[s][t] < m
      BY <2>1, <3>1 DEF DistInv, CountInv
    <3>3. xid[s][t] \in (1 .. n) \union {0}
      BY <3>1, <3>2, SMT
    <3>4. QED
      BY <1>2, <3>3 DEF Xid
  <2> DEFINE X == Xid \union {0}
  <2>3. \A s \in Segment, t \in Txn : xid[s][t] \in X
    BY <2>2
  <2> HIDE DEF X
  <2>4. xid \in [Segment -> [Txn -> X]]
    BY <2>1, <2>3, SMT
  <2>5. QED
    BY <2>4 DEF X
<1>9. distributedLog \in [Segment -> [Txn -> Gxid \union {0}]]
  <2>1. distributedLog \in [Segment -> [Txn -> Nat]]
    BY <1>1 DEF TypeInv
  <2>2. ASSUME NEW s \in Segment, NEW t \in Txn PROVE distributedLog[s][t] \in Gxid \union {0}
    <3>1. distributedLog[s][t] # 0 => distributedLog[s][t] \in Nat /\ distributedLog[s][t] < nextGxid
      BY LoggedFacts
    <3>2. QED
      BY <1>2, <1>5, <3>1 DEF Gxid
  <2> DEFINE X == Gxid \union {0}
  <2>3. \A s \in Segment, t \in Txn : distributedLog[s][t] \in X
    BY <2>2
  <2> HIDE DEF X
  <2>4. distributedLog \in [Segment -> [Txn -> X]]
    BY <2>1, <2>3, SMT
  <2>5. QED
    BY <2>4 DEF X
<1>10. ASSUME NEW s \in Segment PROVE oldestXmin[s] \in 1 .. latestCompletedXid[s] + 1
  <2>1. 1 <= oldestXmin[s] /\ oldestXmin[s] <= latestCompletedXid[s] + 1
    BY DEF DistInv, LocalInv, LocallySettled
  <2>2. oldestXmin[s] \in Nat /\ latestCompletedXid[s] \in Nat
    BY <1>1 DEF TypeInv
  <2>3. QED
    BY <2>1, <2>2, SMT
<1>11. ASSUME NEW s \in Segment, NEW t \in Txn
       PROVE  /\ distributedLog[s][t] # 0 => branch[s][t] \in {"logged", "clog", "committed"}
              /\ \A u \in Txn \ {t} : xid[s][t] = xid[s][u] => xid[s][t] = 0
  BY DEF DistInv, BranchInv, BranchOf
<1>12. QED
  BY <1>1, <1>2, <1>4, <1>6, <1>7, <1>8, <1>9, <1>10, <1>11 DEF TypeOK, TypeInv

\* A snapshot sees exactly the commits below its xmax that were not in
\* progress.  A commit that it does not see is above its xmin, so the segment
\* has neither forgotten its gxid nor hinted its rows.
LEMMA DistConsistent == DistInv => ConsistentSnapshot
<1> SUFFICES ASSUME DistInv, NEW s \in Segment, NEW t \in Txn, NEW i \in 1 .. Len(local[s][t]),
                    NEW u \in Txn \ {t}, xid[s][u] # 0,
                    NEW hinted \in BOOLEAN, NEW hit \in BOOLEAN, hinted => u \in ignore[s]
             PROVE  Visible(s, t, i, u, hinted, hit) <=> u \in snaps[t][i].seen
  BY DEF ConsistentSnapshot
<1>1. PICK ds \in DSnap, l \in LSnap : ds = snaps[t][i] /\ l = local[s][t][i]
  BY PairFacts
<1>2. ds \in DSnaps(t) /\ SnapOf(t, ds) /\ LocalOf(s, t) /\ BranchOf(s, u)
  BY <1>1, PairFacts DEF DistInv, BranchInv
<1>3. PICK g \in Nat : g = distributedLog[s][u]
  <2>1. distributedLog \in [Segment -> [Txn -> Nat]]
    BY DEF DistInv, TypeInv
  <2>2. QED
    BY <2>1
<1>4. ds.xmin \in Nat /\ ds.xmax \in Nat /\ ds.xminAll \in Nat /\ l.xmax \in Nat
      /\ ds.xminAll <= ds.xmin /\ ds.xmin <= ds.xmax
  BY <1>2, SnapFields DEF SnapOf
<1>5. xid[s][u] \in Nat /\ oldestXmin[s] \in Nat
  BY SMT DEF DistInv, TypeInv
<1>6. g # 0 <=> branch[s][u] \in {"logged", "clog", "committed"}
  BY <1>2, <1>3 DEF BranchOf
<1>7. g # 0 => (u \in ds.seen <=> g < ds.xmax /\ g \notin ds.inProgress)
  BY <1>2, <1>3 DEF SnapOf
<1>8. CASE u \in ds.seen
  <2>1. phase[u] = "committed"
    BY <1>2, <1>8 DEF SnapOf
  <2>2. branch[s][u] = "committed"
    <3>1. branch[s][u] \in {"none", "committed"}
      BY <1>2, <2>1 DEF BranchOf, Allowed
    <3>2. QED
      BY <1>2, <3>1 DEF BranchOf
  <2>3. g < ds.xmax /\ g \notin ds.inProgress
    BY <1>6, <1>7, <1>8, <2>2
  <2>4. ~(g >= ds.xmax)
    BY <1>4, <2>3, SMT
  <2>5. CommittedTest(s, ds, u, hit) # "INPROGRESS"
    BY <1>3, <2>3, <2>4 DEF CommittedTest
  <2>6. xid[s][u] < l.xmax /\ xid[s][u] \notin l.xip
    BY <1>1, <1>2, <1>8 DEF LocalOf
  <2>7. ~(xid[s][u] >= l.xmax)
    BY <1>4, <1>5, <2>6, SMT
  <2>8. ~XidInMVCCSnapshot_Local(s, l, u)
    BY <2>6, <2>7 DEF XidInMVCCSnapshot_Local
  <2>9. XidInMVCCSnapshot(s, ds, l, u, hinted, hit) \in {"SURELY_COMMITTED", "NOT_IN"}
    BY <2>5, <2>7, <2>8 DEF XidInMVCCSnapshot
  <2>10. QED
    BY <1>1, <1>8, <2>2, <2>9 DEF Visible
<1>9. CASE u \notin ds.seen /\ g = 0
  <2>1. CommittedTest(s, ds, u, hit) = "UNKNOWN"
    BY <1>3, <1>9 DEF CommittedTest, FindsDistribXid
  <2>2. XidInMVCCSnapshot(s, ds, l, u, hinted, hit) # "SURELY_COMMITTED"
    BY <2>1 DEF XidInMVCCSnapshot
  <2>3. branch[s][u] \notin {"clog", "committed"}
    BY <1>6, <1>9
  <2>4. QED
    BY <1>1, <1>9, <2>2, <2>3 DEF Visible
<1>10. CASE u \notin ds.seen /\ g # 0
  <2>1. g \in ds.inProgress => ds.xmin <= g
    BY <1>2 DEF SnapOf
  <2>2. g >= ds.xmax \/ g \in ds.inProgress
    BY <1>4, <1>7, <1>10, SMT
  <2>3. ~(g < ds.xmin) /\ ~(g < ds.xminAll)
    BY <1>4, <2>1, <2>2, SMT
  <2>4. ~Below(g)
    BY <1>2, <2>3 DEF Below
  <2>5. u \notin ignore[s] /\ ~(xid[s][u] < oldestXmin[s])
    BY <1>3, <1>10, <2>4 DEF DistInv, BelowInv
  <2>6. xid[s][u] >= oldestXmin[s]
    BY <1>5, <2>5, SMT
  <2>7. CommittedTest(s, ds, u, hit) = "INPROGRESS"
    BY <1>3, <1>10, <2>2, <2>3, <2>6 DEF CommittedTest, FindsDistribXid
  <2>8. XidInMVCCSnapshot(s, ds, l, u, hinted, hit) = "IN"
    BY <2>5, <2>7 DEF XidInMVCCSnapshot
  <2>9. QED
    BY <1>1, <1>10, <2>8 DEF Visible
<1>11. QED
  BY <1>8, <1>9, <1>10

LEMMA DistHorizon == DistInv => HorizonBelowSnapshots
<1> SUFFICES ASSUME DistInv, NEW s \in Segment, NEW u \in Txn, distributedLog[s][u] # 0,
                    xid[s][u] < oldestXmin[s], NEW t \in Txn \ {u}
             PROVE  \A ds \in DSnaps(t) : u \in ds.seen
  BY DEF HorizonBelowSnapshots, DSnaps
<1> TAKE ds \in DSnaps(t)
<1>1. PICK g \in Nat : g = distributedLog[s][u]
  BY LoggedFacts
<1>2. g < ds.xmin
  BY <1>1 DEF DistInv, BelowInv, Below
<1>3. SnapOf(t, ds) /\ ds \in DSnap
  BY DSnapsType DEF DistInv, SnapInv
<1>4. ds.xmin \in Nat /\ ds.xmax \in Nat /\ ds.xmin <= ds.xmax
  BY <1>3, SnapFields DEF SnapOf
<1>5. g < ds.xmax /\ ~(ds.xmin <= g)
  BY <1>2, <1>4, SMT
<1>6. QED
  BY <1>1, <1>3, <1>5 DEF SnapOf

LEMMA DistGlobalXmin == DistInv => GlobalXminInSnapshot
<1> SUFFICES ASSUME DistInv, NEW s \in Segment, NEW t \in Txn, NEW i \in 1 .. Len(local[s][t])
             PROVE  AdvancedXmin(s, local[s][t][i].globalxmin, snaps[t][i].xminAll)
                       <= local[s][t][i].xmin
  BY DEF GlobalXminInSnapshot
<1>1. PICK ds \in DSnap, l \in LSnap : ds = snaps[t][i] /\ l = local[s][t][i]
  BY PairFacts
<1>2. /\ l \in LSnaps(s, t) /\ LocalOf(s, t) /\ TypeInv
      /\ l.globalxmin \in Nat /\ l.xmin \in Nat /\ ds.xminAll \in Nat
  BY <1>1, PairFacts, SnapFields DEF DistInv
<1>3. l.globalxmin <= l.xmin /\ oldestXmin[s] <= l.xmin
  BY <1>2 DEF LocalOf
<1>4. PICK h \in Nat : /\ h = AdvancedXmin(s, l.globalxmin, ds.xminAll)
                       /\ h <= Larger(l.globalxmin, oldestXmin[s])
  BY <1>2, AdvancedFacts
<1>5. oldestXmin[s] \in Nat
  BY <1>2 DEF TypeInv
<1>6. h <= l.xmin
  BY <1>2, <1>3, <1>4, <1>5, SMT DEF Larger
<1>7. QED
  BY <1>1, <1>4, <1>6

\* The variables keep their types, gxids and local xids are not given out
\* twice, and the distributed log has entries only for those who commit.
THEOREM TypeCorrect == Spec => []TypeOK
BY DistInvariant, DistType, PTL

\* XidInMVCCSnapshot() answers as the QD's proc array did when the distributed
\* snapshot was taken: every segment shows a query the same transactions,
\* however many there are and however far each segment has got.
THEOREM SnapshotsConsistent == Spec => []ConsistentSnapshot
BY DistInvariant, DistConsistent, PTL

\* DistributedLog_AdvanceOldestXmin() never moves the horizon over a commit
\* that a distributed snapshot, sent or still on its way, does not see.
THEOREM HorizonSafe == Spec => []HorizonBelowSnapshots
BY DistInvariant, DistHorizon, PTL

\* GetSnapshotData() never fails with "global xmin is higher than transaction
\* xmin", though the horizon may have moved since its scan.
THEOREM GlobalXminBounded == Spec => []GlobalXminInSnapshot
BY DistInvariant, DistGlobalXmin, PTL

=============================================================================
