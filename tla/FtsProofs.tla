------------------------------ MODULE FtsProofs ------------------------------
(***************************************************************************)
(* A failover loses no commit that was acknowledged while the pair was in  *)
(* sync, for any number of commits, faults and retries, as long as the     *)
(* checkpointer has reloaded at once and no handler outlived its           *)
(* connection.                                                             *)
(***************************************************************************)
EXTENDS Fts, TLAPS

USE Zenon

\* n has every commit that was acknowledged in sync.
Covers(n) == \A c \in Commit : commit[c] = "sync" => Holds(n, c)

\* CommitInSyncSurvives and InSyncWaits once the history is timely.
Survives == \A c \in Commit : commit[c] = "sync" => Holds(Primary, c)
PairWaits == \A n \in Node : config[n].role = "p" /\ config[n].insync => syncrep[n]

\* Whoever could have been told to go on without a mirror while the catalog
\* allows a failover, or already had one, has synchronous replication on.
WaitsInv ==
    /\ late = {}
    /\ conf = syncrep
    /\ PairWaits
    /\ \A n \in Node : config[n].role = "m" /\ acting[n] = "primary" => syncrep[n]

\* The prober talks to the primary of the catalog.
ProberInv ==
    /\ st # "idle" => config[to].role = "p"
    /\ st = "SYNCREP_OFF" => ~config[to].insync
    /\ \A n \in Node : acting[n] = "promoting" => config[n].role = "p"

\* An answer "in sync" stays good until the prober has recorded it.
AnswerInv ==
    req = "answered" /\ st = "PROBE" =>
        /\ reply.isInSync => reply.isMirrorAlive /\ ~reply.isRoleMirror /\ syncrep[to] /\ Covers(Peer(to))
        /\ ~reply.isRoleMirror => acting[to] = "primary"

\* A commit in progress is on its instance, which is a primary.
PendingInv ==
    \A c \in Commit : commit[c] \in {"flushed", "waiting"} =>
        acting[by[c]] = "primary" /\ Holds(by[c], c)

\* Who has the commits acknowledged in sync: the primary of the catalog, the
\* mirror of a pair in sync, and whoever acts as a mirror, even while it lags.
CoverInv ==
    /\ Survives
    /\ \A n \in Node : config[n].role = "p" /\ config[n].insync => Covers(Peer(n))
    /\ \A n \in Node : acting[n] # "primary" => Covers(n)
    /\ \A n \in Node : repl # "none" /\ acting[n] = "primary" => acting[Peer(n)] # "primary"

\* The inductive invariant.
FtsInv == TypeOK /\ CatalogConsistent /\ WaitsInv /\ ProberInv /\ AnswerInv /\ PendingInv /\ CoverInv
TimelyInv == timely => FtsInv

-----------------------------------------------------------------------------
\* A pair has two instances.
LEMMA PeerFacts ==
    \A n \in Node : /\ Peer(n) \in Node /\ Peer(n) # n /\ Peer(Peer(n)) = n
                    /\ \A m \in Node : m = n \/ m = Peer(n)
<1> TAKE n \in Node
<1>1. PICK m \in Node : Node = {n, m} /\ n # m
  BY NodeAssumption
<1>2. Peer(n) = m
  BY <1>1 DEF Peer
<1>3. Peer(m) = n
  BY <1>1 DEF Peer
<1>4. QED
  BY <1>1, <1>2, <1>3

\* The catalog has one primary.
LEMMA PrimaryFacts ==
    ASSUME TypeOK, CatalogConsistent
    PROVE  /\ Primary \in Node /\ config[Primary].role = "p"
           /\ \A n \in Node : /\ config[n].role = "p" => n = Primary
                              /\ config[n].role = "m" => Primary = Peer(n)
                              /\ n # Primary => config[n].role = "m"
<1>1. \A n \in Node : config[n].role \in {"p", "m"}
  BY SMT DEF TypeOK
<1>2. \A n \in Node : config[n].role = "p" <=> config[Peer(n)].role = "m"
  BY DEF CatalogConsistent
<1>3. \E n \in Node : config[n].role = "p"
  <2>1. PICK n \in Node : TRUE
    BY NodeAssumption
  <2>2. QED
    BY <1>1, <1>2, <2>1, PeerFacts
<1>4. Primary \in Node /\ config[Primary].role = "p"
  BY <1>3 DEF Primary
<1>5. ASSUME NEW n \in Node, n # Primary PROVE config[n].role = "m" /\ Primary = Peer(n)
  <2>1. n = Peer(Primary)
    BY <1>4, <1>5, PeerFacts
  <2>2. QED
    BY <1>2, <1>4, <1>5, <2>1, PeerFacts
<1>6. "p" # "m"
  OBVIOUS
<1>7. QED
  BY <1>4, <1>5, <1>6

\* The types are kept.
LEMMA TypeStep == TypeOK /\ CatalogConsistent /\ [Next]_vars => TypeOK'
<1> SUFFICES ASSUME TypeOK, CatalogConsistent, [Next]_vars PROVE TypeOK'
  OBVIOUS
<1> USE BoundsAssumption, PeerFacts
<1>1. ASSUME NEW n \in Node, NEW c \in Commit, Insert(n, c) PROVE TypeOK'
  <2>1. wal[n] \in Seq(Commit)
    BY DEF TypeOK
  <2>2. Append(wal[n], c) \in Seq(Commit)
    BY <2>1, SMT
  <2>3. wal' \in [Node -> Seq(Commit)]
    BY <1>1, <2>2 DEF Insert, TypeOK
  <2>4. commit' \in [Commit -> CommitState] /\ by' \in [Commit -> Node]
    BY <1>1 DEF Insert, TypeOK, CommitState
  <2>5. QED
    BY <1>1, <2>3, <2>4 DEF Insert, TypeOK, ftsVars, nodeVars
<1>2. ASSUME NEW c \in Commit, SyncRepWaitForLSN(c) PROVE TypeOK'
  <2>1. Ack(by[c]) \in CommitState /\ "waiting" \in CommitState
    BY DEF Ack, CommitState
  <2>2. commit' \in [Commit -> CommitState]
    <3>1. commit' = [commit EXCEPT ![c] = Ack(by[c])] \/ commit' = [commit EXCEPT ![c] = "waiting"]
      BY <1>2 DEF SyncRepWaitForLSN
    <3>2. commit \in [Commit -> CommitState]
      BY DEF TypeOK
    <3>3. QED
      BY <2>1, <3>1, <3>2
  <2>3. QED
    BY <1>2, <2>2 DEF SyncRepWaitForLSN, TypeOK, ftsVars, nodeVars
<1>3. ASSUME NEW c \in Commit, SyncRepReleaseWaiters(c) PROVE TypeOK'
  BY <1>3, SMTT(30) DEF SyncRepReleaseWaiters, TypeOK, CommitState, Ack, ftsVars, nodeVars
<1>4. ASSUME NEW n \in Node, Reload(n) PROVE TypeOK'
  BY <1>4, SMTT(30) DEF Reload, Updated, TypeOK, CommitState, Ack, ftsVars
<1>5. ASSUME NEW n \in Node, Connect(n) \/ CatchUp(n) PROVE TypeOK'
  BY <1>5, SMTT(30) DEF Connect, CatchUp, TypeOK, ftsVars, commitVars
<1>6. ASSUME NEW n \in Node, Ship(n) PROVE TypeOK'
  <2>1. wal[n] \in Seq(Commit) /\ wal[Peer(n)] \in Seq(Commit) /\ Len(wal[Peer(n)]) < Len(wal[n])
    BY <1>6 DEF Ship, TypeOK
  <2>2. Append(wal[Peer(n)], wal[n][Len(wal[Peer(n)]) + 1]) \in Seq(Commit)
    BY <2>1, SMTT(30)
  <2>3. wal' = [wal EXCEPT ![Peer(n)] = Append(wal[Peer(n)], wal[n][Len(wal[Peer(n)]) + 1])]
    BY <1>6, SMT DEF Ship, TypeOK
  <2>4. wal' \in [Node -> Seq(Commit)]
    BY <2>2, <2>3 DEF TypeOK
  <2>5. QED
    BY <1>6, <2>4 DEF Ship, TypeOK, ftsVars, nodeVars
<1>b. Fault => faults' \in 0 .. MaxFaults
  BY SMT DEF Fault, TypeOK
<1>7. ASSUME Disconnect \/ GraceExpires PROVE TypeOK'
  <2>1. CASE Disconnect
    BY <1>b, <2>1 DEF Disconnect, TypeOK, ftsVars, commitVars
  <2>2. CASE GraceExpires
    BY <2>2 DEF GraceExpires, TypeOK, ftsVars, commitVars
  <2>3. QED
    BY <1>7, <2>1, <2>2
<1>a. ASSUME NEW n \in Node PROVE Lost(n) \in [Commit -> CommitState]
  BY DEF Lost, TypeOK, CommitState
<1>8. ASSUME NEW n \in Node, Crash(n) PROVE TypeOK'
  <2>1. /\ run' \in [Node -> {"up", "restarting", "down"}]
        /\ acting' \in [Node -> {"primary", "mirror", "promoting"}]
    BY <1>8, SMT DEF Crash, TypeOK
  <2>2. late' \in SUBSET (Node \X Message)
    BY <1>8 DEF Crash, TypeOK
  <2>3. req' \in {"none", "sent", "broken", "answered"}
    BY <1>8 DEF Crash, Break, TypeOK
  <2>4. QED
    BY <1>8, <1>a, <1>b, <2>1, <2>2, <2>3 DEF Crash, TypeOK
<1>9. ASSUME NEW n \in Node, Restart(n) \/ Recovered(n) \/ PromoteDone(n) PROVE TypeOK'
  <2>1. CASE Restart(n)
    BY <2>1 DEF Restart, TypeOK, ftsVars, commitVars
  <2>2. CASE Recovered(n)
    BY <2>2 DEF Recovered, TypeOK, ftsVars, commitVars
  <2>3. CASE PromoteDone(n)
    BY <2>3 DEF PromoteDone, TypeOK, ftsVars, commitVars
  <2>4. QED
    BY <1>9, <2>1, <2>2, <2>3
<1>10. ASSUME NEW n \in Node, Recoverseg(n) PROVE TypeOK'
  <2>1. /\ run' \in [Node -> {"up", "restarting", "down"}]
        /\ acting' \in [Node -> {"primary", "mirror", "promoting"}]
        /\ wal' \in [Node -> Seq(Commit)]
    BY <1>10 DEF Recoverseg, TypeOK
  <2>a. PICK on \in BOOLEAN : conf' = [conf EXCEPT ![n] = on] /\ syncrep' = [syncrep EXCEPT ![n] = on]
    BY <1>10 DEF Recoverseg
  <2>b. conf' \in [Node -> BOOLEAN] /\ syncrep' \in [Node -> BOOLEAN]
    BY <2>a DEF TypeOK
  <2>2. late' \in SUBSET (Node \X Message)
    BY <1>10 DEF Recoverseg, TypeOK
  <2>3. req' \in {"none", "sent", "broken", "answered"}
    BY <1>10 DEF Recoverseg, Break, TypeOK
  <2>4. QED
    BY <1>10, <1>a, <1>b, <2>1, <2>b, <2>2, <2>3 DEF Recoverseg, TypeOK
<1>11. ASSUME NEW n \in Node, NEW msg, HandleFtsMessage(n, msg)
       PROVE  /\ acting' \in [Node -> {"primary", "mirror", "promoting"}]
              /\ conf' \in [Node -> BOOLEAN] /\ syncrep' \in [Node -> BOOLEAN]
              /\ commit' \in [Commit -> CommitState] /\ timely' \in BOOLEAN
  <2>1. ASSUME NEW on \in BOOLEAN, SetSyncRep(n, on)
        PROVE  /\ conf' \in [Node -> BOOLEAN] /\ syncrep' \in [Node -> BOOLEAN]
               /\ commit' \in [Commit -> CommitState] /\ timely' \in BOOLEAN
    <3>1. ASSUME Updated(n, on)
          PROVE  syncrep' \in [Node -> BOOLEAN] /\ commit' \in [Commit -> CommitState]
      <4>1. syncrep' \in [Node -> BOOLEAN]
        BY <3>1 DEF Updated, TypeOK
      <4>2. Ack(n) \in CommitState /\ \A c \in Commit : commit[c] \in CommitState
        BY DEF Ack, CommitState, TypeOK
      <4>3. QED
        BY <3>1, <4>1, <4>2 DEF Updated
    <3>2. CASE syncrep[n] = on
      BY <2>1, <3>2 DEF SetSyncRep, TypeOK
    <3>3. CASE syncrep[n] # on
      <4>1. conf' \in [Node -> BOOLEAN]
        BY <2>1, <3>3, ZenonT(60) DEF SetSyncRep, TypeOK
      <4>2. QED
        BY <2>1, <3>1, <3>3, <4>1, ZenonT(60) DEF SetSyncRep, TypeOK
    <3>4. QED
      BY <3>2, <3>3
  <2>2. /\ acting \in [Node -> {"primary", "mirror", "promoting"}]
        /\ conf \in [Node -> BOOLEAN] /\ syncrep \in [Node -> BOOLEAN]
        /\ commit \in [Commit -> CommitState] /\ timely \in BOOLEAN
    BY DEF TypeOK
  <2>3. CASE HandleFtsWalRepProbe(n)
    BY <2>1, <2>2, <2>3 DEF HandleFtsWalRepProbe
  <2>4. CASE HandleFtsWalRepSyncRepOff(n)
    BY <2>1, <2>2, <2>4 DEF HandleFtsWalRepSyncRepOff
  <2>5. CASE HandleFtsWalRepPromote(n)
    <3>1. acting' = acting \/ acting' = [acting EXCEPT ![n] = "promoting"]
      BY <2>5 DEF HandleFtsWalRepPromote
    <3>2. acting' \in [Node -> {"primary", "mirror", "promoting"}]
      BY <2>2, <3>1
    <3>3. QED
      BY <2>1, <2>2, <2>5, <3>2 DEF HandleFtsWalRepPromote
  <2>6. QED
    BY <1>11, <2>3, <2>4, <2>5 DEF HandleFtsMessage
<1>12. ASSUME NEW n \in Node PROVE ProbeResponse(n) \in Reply /\ NoReply \in Reply
  <2>1. ASSUME NEW a \in BOOLEAN, NEW b \in BOOLEAN, NEW d \in BOOLEAN, NEW e \in BOOLEAN,
               NEW f \in BOOLEAN
        PROVE  [isMirrorAlive |-> a, isInSync |-> b, isSyncRepEnabled |-> d,
                isRoleMirror |-> e, retryRequested |-> f] \in Reply
    BY DEF Reply
  <2>2. NoReply \in Reply
    BY <2>1 DEF NoReply
  <2>3. ProbeResponse(n) \in Reply
    BY <2>1 DEF ProbeResponse
  <2>4. QED
    BY <2>2, <2>3
<1>13. ASSUME Handle PROVE TypeOK'
  <2>1. reply' \in Reply
    BY <1>12, <1>13 DEF Handle, TypeOK
  <2>2. QED
    BY <1>11, <1>13, <2>1 DEF Handle, TypeOK
<1>14. ASSUME NEW l \in late, HandleLate(l) PROVE TypeOK'
  <2>1. l[1] \in Node
    BY SMT DEF TypeOK
  <2>2. QED
    BY <1>11, <1>14, <2>1 DEF HandleLate, TypeOK, ftsVars
<1> DEFINE Row == [role : {"p", "m"}, up : BOOLEAN, insync : BOOLEAN]
<1>15. ASSUME NEW sync \in BOOLEAN, NEW alive \in BOOLEAN
       PROVE  /\ updateConfiguration(to, Peer(to), "p", "m", sync, TRUE, alive)
                    => config' \in [Node -> Row]
              /\ updateConfiguration(to, Peer(to), "m", "p", FALSE, FALSE, alive)
                    => config' \in [Node -> Row]
  <2>1. /\ [role |-> "p", up |-> TRUE, insync |-> sync] \in Row
        /\ [role |-> "m", up |-> alive, insync |-> sync] \in Row
        /\ [role |-> "m", up |-> FALSE, insync |-> FALSE] \in Row
        /\ [role |-> "p", up |-> alive, insync |-> FALSE] \in Row
    OBVIOUS
  <2>2. \A n \in Node : config[n] \in Row
    BY DEF TypeOK
  <2>3. QED
    <3>1. ASSUME updateConfiguration(to, Peer(to), "p", "m", sync, TRUE, alive)
          PROVE  config' \in [Node -> Row]
      BY <2>1, <2>2, <3>1 DEF updateConfiguration
    <3>2. ASSUME updateConfiguration(to, Peer(to), "m", "p", FALSE, FALSE, alive)
          PROVE  config' \in [Node -> Row]
      BY <2>1, <2>2, <3>2 DEF updateConfiguration
    <3>3. QED
      BY <3>1, <3>2
<1>16. ASSUME NEW msg \in Message \union {"idle"}, NEW n \in Node, NextMessage(msg, n)
       PROVE  /\ st' \in Message \union {"idle"} /\ to' \in Node /\ retry' \in 0 .. Retries
              /\ req' \in {"none", "sent", "broken", "answered"} /\ reply' \in Reply
  BY <1>12, <1>16, SMTT(30) DEF NextMessage
<1>17. ASSUME Retry, CanRetry
       PROVE  /\ config' = config /\ st' = st /\ to' = to /\ retry' \in 0 .. Retries
              /\ req' \in {"none", "sent", "broken", "answered"} /\ reply' \in Reply
  BY <1>12, <1>17, SMTT(30) DEF Retry, CanRetry, TypeOK
<1>18. ASSUME StartCycle \/ ftsSend \/ ProberRestarts PROVE TypeOK'
  <2>1. CASE StartCycle
    BY <1>16, <2>1, PrimaryFacts DEF StartCycle, TypeOK, nodeVars, commitVars, Message
  <2>2. CASE ftsSend
    BY <2>2 DEF ftsSend, TypeOK, nodeVars, commitVars
  <2>3. CASE ProberRestarts
    <3>1. faults' \in 0 .. MaxFaults
      BY <2>3, SMT DEF ProberRestarts, Fault, TypeOK
    <3>2. late' \in SUBSET (Node \X Message)
      BY <2>3, SMT DEF ProberRestarts, GivenUp, TypeOK
    <3>a. timely' \in BOOLEAN
      BY <2>3 DEF ProberRestarts, GivenUp, TypeOK
    <3>3. QED
      BY <1>16, <2>3, <3>1, <3>2, <3>a DEF ProberRestarts, TypeOK, nodeVars, commitVars
  <2>4. QED
    BY <1>18, <2>1, <2>2, <2>3
<1>19. ASSUME ftsReceive PROVE TypeOK'
  <2>1. /\ reply.isInSync \in BOOLEAN /\ reply.isMirrorAlive \in BOOLEAN /\ to \in Node
    BY SMT DEF TypeOK, Reply
  <2>2. RecordAnswer => config' \in [Node -> Row]
    BY <1>15, <2>1 DEF RecordAnswer
  <2>3. QED
    BY <1>16, <1>17, <1>19, <2>1, <2>2, ZenonT(60)
       DEF ftsReceive, ProbeSuccess, ProbeMirrorDown, ProbeMirrorAwaited, ProbeRoleMirror,
           ProbeAnswered, TypeOK, nodeVars, commitVars, Message
<1>20. ASSUME AttemptFails PROVE TypeOK'
  <2>1. to \in Node /\ config[Peer(to)].up \in BOOLEAN
    BY SMT DEF TypeOK
  <2>2. late' \in SUBSET (Node \X Message) /\ faults' \in 0 .. MaxFaults
    BY <1>20, SMTT(30) DEF AttemptFails, GivenUp, Fault, TypeOK
  <2>a. timely' \in BOOLEAN
    BY <1>20 DEF AttemptFails, GivenUp, TypeOK
  <2>3. ASSUME NEW restarting \in BOOLEAN, Failed(restarting)
        PROVE  /\ config' \in [Node -> Row]
               /\ st' \in Message \union {"idle"} /\ to' \in Node /\ retry' \in 0 .. Retries
               /\ req' \in {"none", "sent", "broken", "answered"} /\ reply' \in Reply
    <3>1. Peer(to) \in Node
      BY <2>1
    <3>2. "PROMOTE" \in Message \union {"idle"} /\ "idle" \in Message \union {"idle"}
      BY DEF Message
    <3>3. QED
      <4>1. CASE NextMessage("PROMOTE", Peer(to))
                 /\ updateConfiguration(to, Peer(to), "m", "p", FALSE, FALSE, config[Peer(to)].up)
        <5>1. config' \in [Node -> Row]
          BY <1>15, <2>1, <4>1
        <5>2. QED
          BY <1>16, <3>1, <3>2, <4>1, <5>1
      <4>2. CASE NextMessage("idle", to) /\ UNCHANGED config
        BY <1>16, <2>1, <3>2, <4>2 DEF TypeOK
      <4>3. QED
        BY <2>3, <4>1, <4>2 DEF Failed
  <2>4. QED
    BY <1>17, <1>20, <2>2, <2>a, <2>3, ZenonT(60) DEF AttemptFails, TypeOK, nodeVars, commitVars
<1>21. CASE UNCHANGED vars
  BY <1>21 DEF vars, ftsVars, nodeVars, commitVars, TypeOK
<1>22. QED
  BY <1>1, <1>2, <1>3, <1>4, <1>5, <1>6, <1>7, <1>8, <1>9, <1>10, <1>13, <1>14, <1>18, <1>19,
     <1>20, <1>21 DEF Next, Prober

-----------------------------------------------------------------------------
LEMMA FtsInit == Init => FtsInv
<1> SUFFICES ASSUME Init PROVE FtsInv
  OBVIOUS
<1>1. PICK p \in Node :
         /\ config = [n \in Node |-> [role |-> IF n = p THEN "p" ELSE "m",
                                      up |-> TRUE, insync |-> FALSE]]
         /\ to = p
         /\ acting = [n \in Node |-> IF n = p THEN "primary" ELSE "mirror"]
         /\ by = [c \in Commit |-> p]
  BY PreferredAssumption DEF Init
<1>2. TypeOK
  <2>1. NoReply \in Reply
    BY DEF NoReply, Reply
  <2>2. retry \in 0 .. Retries /\ faults \in 0 .. MaxFaults /\ <<>> \in Seq(Commit)
    BY BoundsAssumption, SMT DEF Init
  <2>3. config \in [Node -> [role : {"p", "m"}, up : BOOLEAN, insync : BOOLEAN]]
    BY <1>1
  <2>4. to \in Node /\ acting \in [Node -> {"primary", "mirror", "promoting"}]
        /\ by \in [Commit -> Node]
    BY <1>1
  <2>5. /\ timely = TRUE /\ st = "idle" /\ req = "none" /\ reply = NoReply /\ late = {} /\ repl = "none"
        /\ grace = TRUE /\ run = [n \in Node |-> "up"] /\ conf = [n \in Node |-> FALSE]
        /\ syncrep = [n \in Node |-> FALSE] /\ wal = [n \in Node |-> <<>>]
        /\ commit = [c \in Commit |-> "none"]
    BY DEF Init
  <2>6. wal \in [Node -> Seq(Commit)] /\ commit \in [Commit -> CommitState]
    BY <2>2, <2>5 DEF CommitState
  <2>7. QED
    BY <2>1, <2>2, <2>3, <2>4, <2>5, <2>6 DEF TypeOK
<1>3. /\ config[p].role = "p" /\ config[Peer(p)].role = "m" /\ acting[p] = "primary"
      /\ acting[Peer(p)] = "mirror" /\ \A n \in Node : config[n].up = TRUE /\ config[n].insync = FALSE
  BY <1>1, PeerFacts
<1>4. CatalogConsistent
  <2> SUFFICES ASSUME NEW n \in Node
               PROVE  /\ config[n].role = "p" <=> config[Peer(n)].role = "m"
                      /\ config[n].role = "p" => acting[n] = "primary"
    BY <1>3, PeerFacts, ZenonT(60) DEF CatalogConsistent
  <2>1. CASE n = p
    BY <1>3, <2>1
  <2>2. CASE n = Peer(p)
    <3>1. Peer(n) = p
      BY <2>2, PeerFacts
    <3>2. QED
      BY <1>3, <2>2, <3>1
  <2>3. QED
    BY <2>1, <2>2, PeerFacts
<1>5. WaitsInv
  <2>1. ASSUME NEW n \in Node, config[n].role = "m" PROVE acting[n] # "primary"
    <3>1. n = p \/ n = Peer(p)
      BY PeerFacts
    <3>2. QED
      BY <1>3, <2>1, <3>1
  <2>2. QED
    BY <1>3, <2>1 DEF Init, WaitsInv, PairWaits
<1>6. ProberInv
  <2>1. ASSUME NEW n \in Node PROVE acting[n] # "promoting"
    BY <1>1
  <2>2. QED
    BY <2>1 DEF Init, ProberInv
<1>7. AnswerInv /\ PendingInv
  BY DEF Init, AnswerInv, PendingInv
<1>8. CoverInv
  BY DEF Init, CoverInv, Survives, Covers
<1>9. QED
  BY <1>2, <1>4, <1>5, <1>6, <1>7, <1>8 DEF FtsInv

\* The catalog, the records and synchronous replication stay; no commit is
\* started or acknowledged in sync, and the prober gives up or goes on with
\* the primary.
LEMMA Quiet ==
    ASSUME FtsInv, TypeOK', UNCHANGED <<config, late, conf, syncrep, wal, by>>,
           \A c \in Commit : commit'[c] = commit[c] \/ commit'[c] \notin {"sync", "flushed", "waiting"},
           repl' # "none" => \/ repl # "none"
                            \/ \A n \in Node : acting[n] = "primary" => acting[Peer(n)] # "primary",
           \A n \in Node : /\ acting'[n] = "primary" <=> acting[n] = "primary"
                           /\ acting'[n] = "promoting" => acting[n] = "promoting",
           \/ UNCHANGED <<st, to, reply>> /\ (req' = req \/ req' # "answered")
           \/ /\ req' # "answered"
              /\ \/ st' = "idle"
                 \/ st' = st /\ to' = to
                 \/ st' \in {"PROBE", "PROMOTE"} /\ config[to'].role = "p"
    PROVE  FtsInv'
<1>1. \A n, c : Holds(n, c) => Holds(n, c)'
  BY DEF Holds
<1>2. \A n : Covers(n) => Covers(n)'
  BY <1>1 DEF Covers
<1>3. Primary' = Primary
  BY DEF Primary
<1>4. CatalogConsistent'
  BY DEF FtsInv, CatalogConsistent
<1>5. WaitsInv'
  BY DEF FtsInv, WaitsInv, PairWaits
<1>6. ProberInv'
  BY DEF FtsInv, ProberInv
<1>7. AnswerInv'
  <2> SUFFICES ASSUME req' = "answered", st' = "PROBE"
               PROVE  /\ reply'.isInSync => /\ reply'.isMirrorAlive /\ ~reply'.isRoleMirror
                                            /\ syncrep'[to'] /\ Covers(Peer(to))'
                      /\ ~reply'.isRoleMirror => acting'[to'] = "primary"
    BY DEF AnswerInv
  <2>1. UNCHANGED <<st, to, reply>> /\ req = "answered"
    OBVIOUS
  <2>2. to \in Node /\ Peer(to)' = Peer(to)
    BY <2>1 DEF FtsInv, TypeOK, Peer
  <2>3. QED
    BY <1>2, <2>1, <2>2 DEF FtsInv, AnswerInv
<1>8. PendingInv'
  <2>1. \A c \in Commit : by[c] \in Node
    BY DEF FtsInv, TypeOK
  <2>2. QED
    BY <1>1, <2>1 DEF FtsInv, PendingInv
<1>9. CoverInv'
  <2>1. \A n \in Node : Peer(n)' = Peer(n) /\ Peer(n) \in Node
    BY PeerFacts DEF Peer
  <2>2. Survives'
    BY <1>2, <1>3 DEF FtsInv, CoverInv, Survives, Covers
  <2>3. QED
    BY <1>2, <2>1, <2>2 DEF FtsInv, CoverInv
<1>10. QED
  BY <1>4, <1>5, <1>6, <1>7, <1>8, <1>9 DEF FtsInv

\* Records are only added.
LEMMA WalStep ==
    ASSUME FtsInv, TypeOK', UNCHANGED <<config, st, to, req, reply, late, nodeVars>>,
           \A n \in Node, c \in Commit : Holds(n, c) => Holds(n, c)',
           \A c \in Commit : /\ commit'[c] = "sync" => commit[c] = "sync"
                             /\ commit'[c] \in {"flushed", "waiting"} =>
                                   acting[by'[c]] = "primary" /\ Holds(by[c], c)'
    PROVE  FtsInv'
<1>1. UNCHANGED <<acting, conf, syncrep, repl>>
  BY DEF nodeVars
<1>2. \A n \in Node : Covers(n) => Covers(n)'
  BY DEF Covers
<1>3. Primary' = Primary /\ \A n \in Node : Peer(n)' = Peer(n)
  BY DEF Primary, Peer
<1>4. Primary \in Node /\ to \in Node
  BY PrimaryFacts DEF FtsInv, TypeOK
<1>5. CatalogConsistent' /\ WaitsInv' /\ ProberInv'
  BY <1>1 DEF FtsInv, CatalogConsistent, WaitsInv, PairWaits, ProberInv
<1>6. AnswerInv'
  BY <1>1, <1>2, <1>3, <1>4, PeerFacts DEF FtsInv, AnswerInv
<1>7. PendingInv'
  BY <1>1 DEF PendingInv
<1>8. CoverInv'
  <2>1. Covers(Primary) <=> Survives
    BY DEF Covers, Survives
  <2>2. Survives'
    BY <1>2, <1>3, <1>4, <2>1 DEF FtsInv, CoverInv, Covers, Survives
  <2>3. QED
    BY <1>1, <1>2, <1>3, <2>2, PeerFacts DEF FtsInv, CoverInv
<1>9. QED
  BY <1>5, <1>6, <1>7, <1>8 DEF FtsInv

\* A record that is appended takes no other away.
LEMMA AppendHolds ==
    ASSUME NEW n \in Node, NEW x \in Commit, TypeOK, wal' = [wal EXCEPT ![n] = Append(@, x)]
    PROVE  /\ \A m \in Node, c \in Commit : Holds(m, c) => Holds(m, c)'
           /\ Holds(n, x)'
<1>1. wal \in [Node -> Seq(Commit)]
  BY DEF TypeOK
<1>2. QED
  BY <1>1, SMTT(30) DEF Holds

\* A commit acknowledged in sync is on both instances.
LEMMA AckStep ==
    ASSUME FtsInv, TypeOK', NEW c \in Commit, NEW v \in {"waiting", "async", "sync"},
           UNCHANGED <<config, st, to, req, reply, late, nodeVars, wal, by>>,
           commit[c] \in {"flushed", "waiting"}, commit' = [commit EXCEPT ![c] = v],
           v = "sync" => Holds(Peer(by[c]), c)
    PROVE  FtsInv'
<1>1. UNCHANGED <<acting, conf, syncrep, repl>>
  BY DEF nodeVars
<1>2. by[c] \in Node /\ acting[by[c]] = "primary" /\ Holds(by[c], c)
  BY DEF FtsInv, PendingInv, TypeOK
<1>3. \A n \in Node : v = "sync" => Holds(n, c)
  BY <1>2, PeerFacts
<1>4. \A d \in Commit : commit'[d] = IF d = c THEN v ELSE commit[d]
  BY DEF FtsInv, TypeOK
<1>5. \A n, d : Holds(n, d)' <=> Holds(n, d)
  BY DEF Holds
<1>6. \A n \in Node : Covers(n) => Covers(n)'
  BY <1>3, <1>4, <1>5 DEF Covers
<1>7. Primary' = Primary /\ \A n \in Node : Peer(n)' = Peer(n)
  BY DEF Primary, Peer
<1>8. Primary \in Node /\ to \in Node
  BY PrimaryFacts DEF FtsInv, TypeOK
<1>9. CatalogConsistent' /\ WaitsInv' /\ ProberInv'
  BY <1>1 DEF FtsInv, CatalogConsistent, WaitsInv, PairWaits, ProberInv
<1>10. AnswerInv'
  BY <1>1, <1>6, <1>7, <1>8, PeerFacts DEF FtsInv, AnswerInv
<1>11. PendingInv'
  <2> SUFFICES ASSUME NEW d \in Commit, commit'[d] \in {"flushed", "waiting"}
               PROVE  acting[by[d]] = "primary" /\ Holds(by[d], d)
    BY <1>1, <1>5 DEF PendingInv
  <2>1. CASE d = c
    BY <1>2, <2>1
  <2>2. CASE d # c
    BY <1>4, <2>2 DEF FtsInv, PendingInv
  <2>3. QED
    BY <2>1, <2>2
<1>12. CoverInv'
  <2>1. Survives'
    BY <1>6, <1>7, <1>8 DEF FtsInv, CoverInv, Covers, Survives
  <2>2. QED
    BY <1>1, <1>6, <1>7, <2>1, PeerFacts DEF FtsInv, CoverInv
<1>13. QED
  BY <1>9, <1>10, <1>11, <1>12 DEF FtsInv

\* Without synchronous replication nobody acknowledges a commit in sync.
LEMMA AsyncAck ==
    ASSUME FtsInv, NEW c \in Commit, commit[c] \in {"flushed", "waiting"}, ~syncrep[by[c]]
    PROVE  Ack(by[c]) = "async"
<1>1. by[c] \in Node /\ acting[by[c]] = "primary"
  BY DEF FtsInv, PendingInv, TypeOK
<1>2. by[c] = Primary
  BY <1>1, PrimaryFacts DEF FtsInv, WaitsInv
<1>3. ~config[by[c]].insync
  BY <1>1, <1>2, PrimaryFacts DEF FtsInv, WaitsInv, PairWaits
<1>4. QED
  BY <1>2, <1>3 DEF Ack

\* Only the primary of the catalog is promoted.
LEMMA PromoteDoneStep ==
    ASSUME FtsInv, TypeOK', NEW p \in Node, PromoteDone(p)
    PROVE  FtsInv'
<1>1. UNCHANGED <<config, st, to, req, reply, late, conf, syncrep, wal, commit, by>>
  BY DEF PromoteDone, ftsVars, commitVars
<1>2. \A n \in Node : acting'[n] = IF n = p THEN "primary" ELSE acting[n]
  BY DEF PromoteDone, FtsInv, TypeOK
<1>3. config[p].role = "p" /\ acting[p] = "promoting" /\ repl' = "none"
  BY DEF PromoteDone, FtsInv, ProberInv
<1>4. \A n \in Node : Covers(n) => Covers(n)' /\ Peer(n)' = Peer(n)
  BY <1>1 DEF Covers, Holds, Peer
<1>5. Primary' = Primary /\ to \in Node
  BY <1>1 DEF Primary, FtsInv, TypeOK
<1>6. CatalogConsistent'
  BY <1>1, <1>2 DEF FtsInv, CatalogConsistent
<1>7. WaitsInv'
  BY <1>1, <1>2, <1>3 DEF FtsInv, WaitsInv, PairWaits
<1>8. ProberInv'
  BY <1>1, <1>2 DEF FtsInv, ProberInv
<1>9. AnswerInv'
  BY <1>1, <1>2, <1>4, <1>5, PeerFacts DEF FtsInv, AnswerInv
<1>10. PendingInv'
  <2>1. \A c \in Commit : by[c] \in Node
    BY DEF FtsInv, TypeOK
  <2>2. QED
    BY <1>1, <1>2, <2>1 DEF FtsInv, PendingInv, Holds
<1>11. CoverInv'
  <2>1. Survives'
    BY <1>1, <1>5 DEF FtsInv, CoverInv, Survives, Holds
  <2>2. QED
    BY <1>1, <1>2, <1>3, <1>4, <2>1, PeerFacts DEF FtsInv, CoverInv
<1>12. QED
  BY <1>6, <1>7, <1>8, <1>9, <1>10, <1>11 DEF FtsInv

\* A recovered mirror has the records of the primary, and nothing else.
LEMMA RecoversegStep ==
    ASSUME FtsInv, TypeOK', NEW m \in Node, Recoverseg(m)
    PROVE  FtsInv'
<1>1. UNCHANGED <<config, st, to, reply, by>> /\ late' = {} /\ repl' = "none"
  BY DEF Recoverseg, FtsInv, WaitsInv
<1>2. config[m].role = "m" /\ ~config[m].up
  BY DEF Recoverseg
<1>3. Primary = Peer(m) /\ Primary \in Node /\ to \in Node /\ m # Primary
  BY <1>2, PrimaryFacts, PeerFacts DEF FtsInv, TypeOK
<1>4. \A n \in Node : acting'[n] = IF n = m THEN "mirror" ELSE acting[n]
  BY ZenonT(60) DEF Recoverseg, FtsInv, TypeOK
<1>5. conf' = syncrep' /\ \A n \in Node \ {m} : syncrep'[n] = syncrep[n]
  <2>1. PICK on \in BOOLEAN : conf' = [conf EXCEPT ![m] = on] /\ syncrep' = [syncrep EXCEPT ![m] = on]
    BY DEF Recoverseg
  <2>2. conf = syncrep /\ syncrep \in [Node -> BOOLEAN]
    BY DEF FtsInv, WaitsInv, TypeOK
  <2>3. QED
    BY <2>1, <2>2
<1>6. \A n \in Node : wal'[n] = IF n = m THEN wal[Primary] ELSE wal[n]
  <2>1. wal' = [wal EXCEPT ![m] = wal[Primary]]
    BY <1>3 DEF Recoverseg
  <2>2. wal \in [Node -> Seq(Commit)]
    BY DEF FtsInv, TypeOK
  <2>3. QED
    BY <2>1, <2>2
<1>7. \A c \in Commit : /\ commit'[c] = "sync" => commit[c] = "sync"
                        /\ commit'[c] \in {"flushed", "waiting"} =>
                              by[c] # m /\ commit[c] \in {"flushed", "waiting"}
  BY DEF Recoverseg, Lost
<1>8. \A n \in Node : Covers(n)' /\ Peer(n)' = Peer(n)
  <2>1. Covers(Primary)
    BY DEF FtsInv, CoverInv, Survives, Covers
  <2>2. \A n \in Node : wal'[n] = wal[Primary]
    BY <1>3, <1>6, PeerFacts
  <2>3. QED
    BY <1>7, <2>1, <2>2 DEF Covers, Holds, Peer
<1>9. Primary' = Primary
  BY <1>1 DEF Primary
<1>10. CatalogConsistent'
  BY <1>1, <1>2, <1>4 DEF FtsInv, CatalogConsistent
<1>11. WaitsInv'
  <2>1. PairWaits'
    BY <1>1, <1>2, <1>5 DEF FtsInv, WaitsInv, PairWaits
  <2>2. ASSUME NEW n \in Node, config[n].role = "m", acting'[n] = "primary" PROVE syncrep'[n]
    BY <1>4, <1>5, <2>2 DEF FtsInv, WaitsInv
  <2>3. QED
    BY <1>1, <1>5, <2>1, <2>2 DEF WaitsInv
<1>12. ProberInv'
  BY <1>1, <1>4 DEF FtsInv, ProberInv
<1>13. AnswerInv'
  <2> SUFFICES ASSUME req' = "answered", st' = "PROBE"
               PROVE  /\ reply'.isInSync => /\ reply'.isMirrorAlive /\ ~reply'.isRoleMirror
                                            /\ syncrep'[to'] /\ Covers(Peer(to))'
                      /\ ~reply'.isRoleMirror => acting'[to'] = "primary"
    BY DEF AnswerInv
  <2>1. req = "answered" /\ st = "PROBE"
    BY <1>1 DEF Recoverseg, Break
  <2>2. to # m
    BY <1>2, <2>1 DEF FtsInv, ProberInv
  <2>3. Peer(to)' = Peer(to) /\ Peer(to) \in Node
    BY <1>1, <1>3, PeerFacts DEF Peer
  <2>4. QED
    BY <1>1, <1>3, <1>4, <1>5, <1>8, <2>1, <2>2, <2>3 DEF FtsInv, AnswerInv
<1>14. PendingInv'
  <2>1. \A c \in Commit : by[c] \in Node
    BY DEF FtsInv, TypeOK
  <2>2. QED
    <3> SUFFICES ASSUME NEW c \in Commit, commit'[c] \in {"flushed", "waiting"}
                 PROVE  acting'[by[c]] = "primary" /\ Holds(by[c], c)'
      BY <1>1 DEF PendingInv
    <3>1. by[c] # m /\ acting[by[c]] = "primary" /\ Holds(by[c], c)
      BY <1>7 DEF FtsInv, PendingInv
    <3>2. acting'[by[c]] = acting[by[c]] /\ wal'[by[c]] = wal[by[c]] /\ by' = by
      BY <1>1, <1>4, <1>6, <2>1, <3>1
    <3>3. QED
      BY <3>1, <3>2 DEF Holds
<1>15. CoverInv'
  BY <1>1, <1>3, <1>8, <1>9, PeerFacts DEF CoverInv, Survives, Covers
<1>16. QED
  BY <1>10, <1>11, <1>12, <1>13, <1>14, <1>15 DEF FtsInv

\* In a timely history the memory follows the file.
LEMMA SetSyncRepFacts ==
    ASSUME FtsInv, timely', NEW n \in Node, NEW on \in BOOLEAN, SetSyncRep(n, on)
    PROVE  /\ conf' = syncrep'
           /\ \A m \in Node : syncrep'[m] = IF m = n THEN on ELSE syncrep[m]
           /\ \A c \in Commit : commit'[c] = commit[c] \/ (~on /\ commit'[c] = Ack(n))
<1>1. conf = syncrep /\ syncrep \in [Node -> BOOLEAN]
  BY DEF FtsInv, WaitsInv, TypeOK
<1>2. CASE syncrep[n] = on
  BY <1>1, <1>2 DEF SetSyncRep
<1>3. CASE syncrep[n] # on
  <2>1. /\ conf' = [conf EXCEPT ![n] = on] /\ syncrep' = [syncrep EXCEPT ![n] = on]
        /\ commit' = [c \in Commit |-> IF ~on /\ by[c] = n /\ commit[c] = "waiting"
                                       THEN Ack(n) ELSE commit[c]]
    BY <1>3 DEF SetSyncRep, Updated
  <2>2. conf' = syncrep' /\ \A m \in Node : syncrep'[m] = IF m = n THEN on ELSE syncrep[m]
    BY <1>1, <2>1
  <2>3. \A c \in Commit : commit'[c] = commit[c] \/ (~on /\ commit'[c] = Ack(n))
    BY <2>1
  <2>4. QED
    BY <2>2, <2>3
<1>4. QED
  BY <1>2, <1>3

\* What a handler does to the primary of the catalog.
LEMMA HandlerFacts ==
    ASSUME FtsInv, timely', st # "idle", HandleFtsMessage(to, st)
    PROVE  /\ conf' = syncrep' /\ \A n \in Node \ {to} : syncrep'[n] = syncrep[n]
           /\ config[to].insync => syncrep'[to]
           /\ st = "PROBE" /\ acting[to] = "primary" /\ ReadyForSyncRep => syncrep'[to]
           /\ \A c \in Commit : commit'[c] = commit[c] \/ commit'[c] = "async"
           /\ \A n \in Node : \/ acting'[n] = acting[n]
                              \/ n = to /\ acting[n] # "primary" /\ acting'[n] = "promoting"
<1>1. to \in Node /\ config[to].role = "p" /\ to = Primary
  BY PrimaryFacts DEF FtsInv, TypeOK, ProberInv
<1>2. conf = syncrep /\ (config[to].insync => syncrep[to])
  BY <1>1 DEF FtsInv, WaitsInv, PairWaits
<1>3. ~config[to].insync => Ack(to) = "async"
  BY <1>1 DEF Ack
<1>4. CASE st = "PROBE" /\ HandleFtsWalRepProbe(to)
  <2>1. acting' = acting
    BY <1>4 DEF HandleFtsWalRepProbe
  <2>2. CASE acting[to] = "primary" /\ ReadyForSyncRep
    <3>1. SetSyncRep(to, TRUE)
      BY <1>4, <2>2 DEF HandleFtsWalRepProbe
    <3>2. QED
      BY <1>1, <2>1, <3>1, SetSyncRepFacts
  <2>3. CASE ~(acting[to] = "primary" /\ ReadyForSyncRep)
    <3>1. UNCHANGED <<conf, syncrep, commit>>
      BY <1>4, <2>3 DEF HandleFtsWalRepProbe
    <3>2. QED
      BY <1>2, <2>1, <2>3, <3>1
  <2>4. QED
    BY <2>2, <2>3
<1>5. CASE st = "SYNCREP_OFF" /\ HandleFtsWalRepSyncRepOff(to)
  <2>1. ~config[to].insync /\ SetSyncRep(to, FALSE) /\ acting' = acting
    BY <1>5 DEF HandleFtsWalRepSyncRepOff, FtsInv, ProberInv
  <2>2. QED
    BY <1>1, <1>3, <1>5, <2>1, SetSyncRepFacts
<1>6. CASE st = "PROMOTE" /\ HandleFtsWalRepPromote(to)
  <2>1. CASE acting[to] = "primary"
    BY <1>2, <1>6, <2>1 DEF HandleFtsWalRepPromote
  <2>2. CASE acting[to] # "primary"
    <3>1. ~config[to].insync
      BY <1>1, <2>2 DEF FtsInv, CatalogConsistent
    <3>2. SetSyncRep(to, FALSE) /\ acting' = [acting EXCEPT ![to] = "promoting"]
      BY <1>6, <2>2 DEF HandleFtsWalRepPromote
    <3>3. \A n \in Node : \/ acting'[n] = acting[n]
                          \/ n = to /\ acting[n] # "primary" /\ acting'[n] = "promoting"
      BY <1>1, <2>2, <3>2 DEF FtsInv, TypeOK
    <3>4. QED
      BY <1>1, <1>3, <1>6, <3>1, <3>2, <3>3, SetSyncRepFacts
  <2>3. QED
    BY <2>1, <2>2
<1>7. QED
  BY <1>4, <1>5, <1>6 DEF HandleFtsMessage

LEMMA HandleStep ==
    ASSUME FtsInv, TypeOK', timely', Handle
    PROVE  FtsInv'
<1>1. UNCHANGED <<config, st, to, late, repl, wal, by>>
  BY DEF Handle
<1>2. st # "idle"
  BY DEF Handle, HandleFtsMessage
<1>3. /\ conf' = syncrep' /\ \A n \in Node \ {to} : syncrep'[n] = syncrep[n]
      /\ config[to].insync => syncrep'[to]
      /\ st = "PROBE" /\ acting[to] = "primary" /\ ReadyForSyncRep => syncrep'[to]
      /\ \A c \in Commit : commit'[c] = commit[c] \/ commit'[c] = "async"
      /\ \A n \in Node : \/ acting'[n] = acting[n]
                         \/ n = to /\ acting[n] # "primary" /\ acting'[n] = "promoting"
  BY <1>2, HandlerFacts DEF Handle
<1>4. to \in Node /\ config[to].role = "p" /\ to = Primary /\ Primary' = Primary
  BY <1>1, <1>2, PrimaryFacts DEF FtsInv, TypeOK, ProberInv, Primary
<1>5. \A n \in Node : Covers(n) => Covers(n)' /\ Peer(n)' = Peer(n)
  BY <1>1, <1>3 DEF Covers, Holds, Peer
<1>6. CatalogConsistent'
  BY <1>1, <1>3 DEF FtsInv, CatalogConsistent
<1>7. WaitsInv'
  <2>1. PairWaits'
    BY <1>1, <1>3 DEF FtsInv, WaitsInv, PairWaits
  <2>2. ASSUME NEW n \in Node, config[n].role = "m", acting'[n] = "primary" PROVE syncrep'[n]
    <3>1. n # to /\ acting[n] = "primary"
      BY <1>3, <1>4, <2>2
    <3>2. QED
      BY <1>3, <2>2, <3>1 DEF FtsInv, WaitsInv
  <2>3. QED
    BY <1>1, <1>3, <2>1, <2>2 DEF FtsInv, WaitsInv
<1>8. ProberInv'
  BY <1>1, <1>3, <1>4 DEF FtsInv, ProberInv
<1>9. AnswerInv'
  <2> SUFFICES ASSUME st = "PROBE"
               PROVE  /\ reply'.isInSync => /\ reply'.isMirrorAlive /\ ~reply'.isRoleMirror
                                            /\ syncrep'[to] /\ Covers(Peer(to))'
                      /\ ~reply'.isRoleMirror => acting'[to] = "primary"
    BY <1>1 DEF AnswerInv
  <2>1. /\ reply'.isInSync <=> acting[to] = "primary" /\ repl = "streaming"
        /\ reply'.isMirrorAlive <=> acting[to] = "primary" /\ repl # "none"
        /\ reply'.isRoleMirror <=> acting[to] # "primary"
    BY DEF Handle, ProbeResponse
  <2>2. acting[to] = "primary" => acting'[to] = "primary"
    BY <1>3, <1>4
  <2>3. acting[to] = "primary" /\ repl = "streaming" => syncrep'[to] /\ Covers(Peer(to))'
    <3>1. SUFFICES ASSUME acting[to] = "primary", repl = "streaming"
                   PROVE  syncrep'[to] /\ Covers(Peer(to))'
      OBVIOUS
    <3>2. Covers(Peer(to)) /\ Peer(to) \in Node /\ Peer(to)' = Peer(to)
      BY <1>1, <1>4, <3>1, PeerFacts DEF FtsInv, CoverInv, Peer
    <3>3. ReadyForSyncRep
      BY <3>1 DEF ReadyForSyncRep
    <3>4. QED
      BY <1>3, <1>5, <3>1, <3>2, <3>3
  <2>4. QED
    BY <2>1, <2>2, <2>3
<1>10. PendingInv'
  <2>1. \A c \in Commit : by[c] \in Node
    BY DEF FtsInv, TypeOK
  <2>2. QED
    <3> SUFFICES ASSUME NEW c \in Commit, commit'[c] \in {"flushed", "waiting"}
                 PROVE  acting'[by[c]] = "primary" /\ Holds(by[c], c)
      BY <1>1 DEF PendingInv, Holds
    <3>1. commit[c] \in {"flushed", "waiting"}
      BY <1>3
    <3>2. QED
      BY <1>3, <2>1, <3>1 DEF FtsInv, PendingInv
<1>11. CoverInv'
  <2>1. Survives'
    BY <1>1, <1>3, <1>4 DEF FtsInv, CoverInv, Survives, Holds
  <2>2. \A n \in Node : acting'[n] = "primary" <=> acting[n] = "primary"
    BY <1>3
  <2>3. QED
    BY <1>1, <1>5, <2>1, <2>2, PeerFacts DEF FtsInv, CoverInv
<1>12. QED
  BY <1>6, <1>7, <1>8, <1>9, <1>10, <1>11 DEF FtsInv

\* What is left of the invariant when only the prober and the catalog move,
\* the new primary has the commits, and no answer is pending.
LEMMA CatalogStep ==
    ASSUME FtsInv, TypeOK', UNCHANGED <<late, nodeVars, commitVars>>, req' = "none",
           NEW p \in Node, config'[p].role = "p", config'[Peer(p)].role = "m",
           config'[p].up, config'[p].insync = config'[Peer(p)].insync,
           config'[p].insync => config'[Peer(p)].up /\ syncrep[p] /\ Covers(Peer(p)),
           acting[p] # "primary" => ~config'[p].insync /\ ~config'[Peer(p)].up,
           acting[Peer(p)] # "promoting", acting[Peer(p)] = "primary" => syncrep[Peer(p)],
           Covers(p), st' # "idle" => to' = p, st' = "SYNCREP_OFF" => ~config'[p].insync
    PROVE  FtsInv'
<1>1. UNCHANGED <<acting, conf, syncrep, repl, wal, commit, by>>
  BY DEF nodeVars, commitVars
<1>2. /\ \A n \in Node : n = p \/ n = Peer(p)
      /\ Peer(p) \in Node /\ Peer(Peer(p)) = p /\ p # Peer(p)
  BY PeerFacts
<1>3. \A n \in Node : (Covers(n) <=> Covers(n)') /\ Peer(n)' = Peer(n)
  BY <1>1 DEF Covers, Holds, Peer
<1>4. CatalogConsistent'
  <2> SUFFICES ASSUME NEW n \in Node
               PROVE  /\ config'[n].role = "p" <=> config'[Peer(n)].role = "m"
                      /\ config'[n].role = "p" => config'[n].up
                      /\ config'[n].insync = config'[Peer(n)].insync
                      /\ config'[n].insync => config'[n].up
                      /\ config'[n].role = "p" /\ acting[n] # "primary"
                            => ~config'[n].insync /\ ~config'[Peer(n)].up
    BY <1>1, <1>3 DEF CatalogConsistent
  <2>1. CASE n = p
    BY <2>1
  <2>2. CASE n = Peer(p)
    BY <1>2, <2>2
  <2>3. QED
    BY <1>2, <2>1, <2>2
<1>5. Primary' = p
  <2>1. \A n \in Node : config'[n].role = "p" => n = p
    BY <1>2
  <2>2. QED
    BY <2>1 DEF Primary
<1>6. WaitsInv'
  <2>1. PairWaits'
    BY <1>1, <1>2 DEF PairWaits
  <2>2. \A n \in Node : config'[n].role = "m" /\ acting'[n] = "primary" => syncrep'[n]
    BY <1>1, <1>2
  <2>3. QED
    BY <1>1, <2>1, <2>2 DEF FtsInv, WaitsInv
<1>7. ProberInv'
  BY <1>1, <1>2 DEF ProberInv
<1>8. AnswerInv'
  BY DEF AnswerInv
<1>9. PendingInv'
  BY <1>1 DEF FtsInv, PendingInv, Holds
<1>10. CoverInv'
  <2>1. Survives'
    BY <1>3, <1>5 DEF Survives, Covers
  <2>2. ASSUME NEW n \in Node, config'[n].role = "p", config'[n].insync PROVE Covers(Peer(n))'
    <3>1. n = p
      BY <1>2, <2>2
    <3>2. QED
      BY <1>2, <1>3, <2>2, <3>1
  <2>3. ASSUME NEW n \in Node
        PROVE  /\ acting[n] # "primary" => Covers(n)'
               /\ repl # "none" /\ acting[n] = "primary" => acting[Peer(n)] # "primary"
    BY <1>3 DEF FtsInv, CoverInv
  <2>4. QED
    BY <1>1, <1>3, <2>1, <2>2, <2>3 DEF CoverInv
<1>11. QED
  BY <1>4, <1>6, <1>7, <1>8, <1>9, <1>10 DEF FtsInv

\* The prober records the answer of the primary.
LEMMA RecordStep ==
    ASSUME FtsInv, TypeOK', UNCHANGED <<late, nodeVars, commitVars>>, st = "PROBE", req = "answered",
           RecordAnswer, ~reply.isMirrorAlive \/ ~reply.isRoleMirror,
           NEW msg \in {"idle", "SYNCREP_OFF"}, NextMessage(msg, to),
           msg = "SYNCREP_OFF" => ~reply.isMirrorAlive
    PROVE  FtsInv'
<1>1. to \in Node /\ Peer(to) \in Node /\ Peer(to) # to /\ config[to].role = "p"
  BY PeerFacts DEF FtsInv, TypeOK, ProberInv
<1>2. /\ config[Peer(to)].role = "m" /\ config[to].up
      /\ config[to].insync = config[Peer(to)].insync
      /\ acting[Peer(to)] # "promoting"
  BY <1>1 DEF FtsInv, CatalogConsistent, ProberInv
<1>3. /\ config[to].up \in BOOLEAN /\ config[Peer(to)].up \in BOOLEAN
      /\ config[to].insync \in BOOLEAN /\ reply.isInSync \in BOOLEAN /\ reply.isMirrorAlive \in BOOLEAN
  <2>1. config[to] \in [role : {"p", "m"}, up : BOOLEAN, insync : BOOLEAN]
    BY <1>1 DEF FtsInv, TypeOK
  <2>2. config[Peer(to)] \in [role : {"p", "m"}, up : BOOLEAN, insync : BOOLEAN]
    BY <1>1 DEF FtsInv, TypeOK
  <2>3. reply \in Reply
    BY DEF FtsInv, TypeOK
  <2>4. QED
    BY <2>1, <2>2, <2>3, SMT DEF Reply
<1>4. config'[to].role = "p" /\ config'[to].up /\ config'[to].insync = reply.isInSync
  BY <1>1, <1>2, <1>3 DEF RecordAnswer, updateConfiguration
<1>5. /\ config'[Peer(to)].role = "m" /\ config'[Peer(to)].up = reply.isMirrorAlive
      /\ config'[Peer(to)].insync = reply.isInSync
  BY <1>1, <1>2, <1>3 DEF RecordAnswer, updateConfiguration, UpdateMirror
<1>6. /\ reply.isInSync => reply.isMirrorAlive /\ ~reply.isRoleMirror /\ syncrep[to] /\ Covers(Peer(to))
      /\ ~reply.isRoleMirror => acting[to] = "primary"
  BY DEF FtsInv, AnswerInv
<1>7. acting[Peer(to)] = "primary" => syncrep[Peer(to)]
  BY <1>1, <1>2 DEF FtsInv, WaitsInv
<1>8. Covers(to)
  <2>1. to = Primary
    BY <1>1, PrimaryFacts DEF FtsInv
  <2>2. QED
    BY <2>1 DEF FtsInv, CoverInv, Survives, Covers
<1>9. req' = "none" /\ st' = msg /\ to' = to
  BY DEF NextMessage
<1>10. QED
  BY <1>1, <1>2, <1>4, <1>5, <1>6, <1>7, <1>8, <1>9, CatalogStep

\* The prober flips the roles of a pair that the catalog has in sync.
LEMMA FlipStep ==
    ASSUME FtsInv, TypeOK', UNCHANGED <<late, nodeVars, commitVars>>, st = "PROBE",
           config[Peer(to)].insync,
           updateConfiguration(to, Peer(to), "m", "p", FALSE, FALSE, config[Peer(to)].up),
           NextMessage("PROMOTE", Peer(to))
    PROVE  FtsInv'
<1>1. /\ to \in Node /\ Peer(to) \in Node /\ Peer(to) # to /\ Peer(Peer(to)) = to
      /\ config[to].role = "p"
  BY PeerFacts DEF FtsInv, TypeOK, ProberInv
<1>2. /\ config[to].insync = config[Peer(to)].insync /\ config[Peer(to)].up
  BY <1>1 DEF FtsInv, CatalogConsistent
<1>3. config[to].insync # FALSE
  BY <1>2
<1>4. acting[to] = "primary" /\ syncrep[to] /\ Covers(Peer(to))
  BY <1>1, <1>2 DEF FtsInv, CatalogConsistent, WaitsInv, PairWaits, CoverInv
<1>5. config'[to].role = "m" /\ config'[to].up = FALSE /\ config'[to].insync = FALSE
  BY <1>1, <1>3 DEF updateConfiguration
<1>6. /\ config'[Peer(to)].role = "p" /\ config'[Peer(to)].up = config[Peer(to)].up
      /\ config'[Peer(to)].insync = FALSE
  BY <1>1, <1>3 DEF updateConfiguration, UpdateMirror
<1>7. config'[Peer(to)].up
  BY <1>2, <1>6
<1>8. req' = "none" /\ st' = "PROMOTE" /\ to' = Peer(to)
  BY DEF NextMessage
<1>9. DEFINE q == Peer(to)
<1>10. /\ q \in Node /\ Peer(q) = to /\ config'[q].role = "p" /\ config'[Peer(q)].role = "m"
       /\ config'[q].up /\ config'[q].insync = config'[Peer(q)].insync /\ ~config'[q].insync
       /\ ~config'[Peer(q)].up /\ acting[Peer(q)] # "promoting"
       /\ acting[Peer(q)] = "primary" => syncrep[Peer(q)]
       /\ Covers(q) /\ st' = "PROMOTE" /\ to' = q
  BY <1>1, <1>4, <1>5, <1>6, <1>7, <1>8
<1> HIDE DEF q
<1>11. QED
  BY <1>8, <1>10, CatalogStep

\* A history that is not timely stays so.
LEMMA TimelyOnce ==
    ASSUME [Next]_vars, timely' PROVE timely
<1>1. ASSUME NEW n, NEW msg, HandleFtsMessage(n, msg) PROVE timely
  BY <1>1 DEF HandleFtsMessage, HandleFtsWalRepProbe, HandleFtsWalRepSyncRepOff,
              HandleFtsWalRepPromote, SetSyncRep
<1>2. CASE UNCHANGED timely
  BY <1>2
<1>3. CASE Handle \/ \E l \in late : HandleLate(l)
  BY <1>1, <1>3 DEF Handle, HandleLate
<1>4. CASE AttemptFails \/ ProberRestarts
  BY <1>4 DEF AttemptFails, ProberRestarts, GivenUp
<1>5. UNCHANGED timely \/ Handle \/ (\E l \in late : HandleLate(l)) \/ AttemptFails \/ ProberRestarts
  BY DEF Next, vars, Prober, StartCycle, ftsSend, ftsReceive, Disconnect, GraceExpires, Insert,
         Reload, Connect, CatchUp, Ship, Crash, Restart, Recovered, PromoteDone, Recoverseg,
         SyncRepWaitForLSN, SyncRepReleaseWaiters
<1>6. QED
  BY <1>2, <1>3, <1>4, <1>5

\* The invariant is inductive.
LEMMA FtsStep == TimelyInv /\ [Next]_vars => TimelyInv'
<1> SUFFICES ASSUME timely', TimelyInv, [Next]_vars PROVE FtsInv'
  BY DEF TimelyInv
<1>0. FtsInv
  BY TimelyOnce DEF TimelyInv
<1> USE <1>0
<1>1. TypeOK'
  BY TypeStep DEF FtsInv
<1>2. TypeOK /\ CatalogConsistent /\ late = {} /\ conf = syncrep
  BY DEF FtsInv, WaitsInv
<1>3. ASSUME NEW n \in Node, NEW c \in Commit, Insert(n, c) PROVE FtsInv'
  <2>1. UNCHANGED <<config, st, to, req, reply, late, nodeVars>>
    BY <1>3 DEF Insert, ftsVars
  <2>2. (\A m \in Node, d \in Commit : Holds(m, d) => Holds(m, d)') /\ Holds(n, c)'
    BY <1>2, <1>3, AppendHolds DEF Insert
  <2>3. \A d \in Commit : /\ commit'[d] = IF d = c THEN "flushed" ELSE commit[d]
                          /\ by'[d] = IF d = c THEN n ELSE by[d]
                          /\ by[d] \in Node
    BY <1>2, <1>3 DEF Insert, TypeOK
  <2>4. acting[n] = "primary"
    BY <1>3 DEF Insert
  <2>5. ASSUME NEW d \in Commit, commit'[d] \in {"flushed", "waiting"}
        PROVE  acting[by'[d]] = "primary" /\ Holds(by[d], d)'
    <3>1. CASE d = c
      <4>1. by'[d] = n
        BY <2>3, <3>1
      <4>2. QED
        BY <2>2, <2>4, <3>1, <4>1 DEF Holds
    <3>2. CASE d # c
      <4>1. by'[d] = by[d] /\ commit[d] \in {"flushed", "waiting"} /\ by[d] \in Node
        BY <2>3, <2>5, <3>2
      <4>2. acting[by[d]] = "primary" /\ Holds(by[d], d)
        BY <4>1 DEF FtsInv, PendingInv
      <4>3. \E i \in 1 .. Len(wal'[by[d]]) : wal'[by[d]][i] = d
        BY <2>2, <4>1, <4>2 DEF Holds
      <4>4. QED
        BY <4>1, <4>2, <4>3 DEF Holds
    <3>3. QED
      BY <3>1, <3>2
  <2>6. \A d \in Commit : commit'[d] = "sync" => commit[d] = "sync"
    BY <2>3
  <2>7. QED
    BY <1>1, <2>1, <2>2, <2>5, <2>6, WalStep
<1>4. ASSUME NEW c \in Commit, SyncRepWaitForLSN(c) PROVE FtsInv'
  <2>1. /\ UNCHANGED <<config, st, to, req, reply, late, nodeVars, wal, by>>
        /\ commit[c] \in {"flushed", "waiting"}
    BY <1>4 DEF SyncRepWaitForLSN, ftsVars
  <2>2. Ack(by[c]) \in {"waiting", "async", "sync"}
    BY DEF Ack
  <2>3. CASE commit' = [commit EXCEPT ![c] = "waiting"]
    BY <1>1, <2>1, <2>3, AckStep
  <2>4. CASE ~syncrep[by[c]] /\ commit' = [commit EXCEPT ![c] = Ack(by[c])]
    <3>1. commit' = [commit EXCEPT ![c] = "async"]
      BY <2>1, <2>4, AsyncAck
    <3>2. QED
      BY <1>1, <2>1, <3>1, AckStep
  <2>5. CASE Holds(Peer(by[c]), c) /\ commit' = [commit EXCEPT ![c] = Ack(by[c])]
    BY <1>1, <2>1, <2>2, <2>5, AckStep
  <2>6. QED
    BY <1>4, <2>3, <2>4, <2>5 DEF SyncRepWaitForLSN
<1>5. ASSUME NEW c \in Commit, SyncRepReleaseWaiters(c) PROVE FtsInv'
  <2>1. /\ UNCHANGED <<config, st, to, req, reply, late, nodeVars, wal, by>>
        /\ commit[c] \in {"flushed", "waiting"} /\ Holds(Peer(by[c]), c)
        /\ commit' = [commit EXCEPT ![c] = Ack(by[c])]
    BY <1>5 DEF SyncRepReleaseWaiters, ftsVars
  <2>2. Ack(by[c]) \in {"waiting", "async", "sync"}
    BY DEF Ack
  <2>3. QED
    BY <1>1, <2>1, <2>2, AckStep
<1>6. ASSUME NEW n \in Node, Reload(n) PROVE FtsInv'
  BY <1>2, <1>6 DEF Reload
<1>7. ASSUME NEW n \in Node, Connect(n) \/ CatchUp(n) PROVE FtsInv'
  <2>1. UNCHANGED <<config, st, to, req, reply, late, acting, conf, syncrep, wal, commit, by>>
    BY <1>7 DEF Connect, CatchUp, ftsVars, commitVars
  <2>2. CASE CatchUp(n)
    <3>1. repl # "none"
      BY <2>2 DEF CatchUp
    <3>2. QED
      BY <1>1, <2>1, <3>1, Quiet
  <2>3. CASE Connect(n)
    <3>1. \A m \in Node : acting[m] = "primary" => acting[Peer(m)] # "primary"
      BY <2>3, PeerFacts DEF Connect
    <3>2. QED
      BY <1>1, <2>1, <3>1, Quiet
  <2>4. QED
    BY <1>7, <2>2, <2>3
<1>8. ASSUME NEW n \in Node, Ship(n) PROVE FtsInv'
  <2>1. UNCHANGED <<config, st, to, req, reply, late, nodeVars, commit, by>>
    BY <1>8 DEF Ship, ftsVars
  <2>2. PICK x \in Commit : wal' = [wal EXCEPT ![Peer(n)] = Append(@, x)]
    <3>1. wal[n] \in Seq(Commit) /\ wal[Peer(n)] \in Seq(Commit) /\ Peer(n) \in Node
      BY <1>2, PeerFacts DEF TypeOK
    <3>2. wal[n][Len(wal[Peer(n)]) + 1] \in Commit
      BY <1>8, <3>1, SMT DEF Ship
    <3>3. QED
      BY <1>8, <3>2 DEF Ship
  <2>3. \A m \in Node, d \in Commit : Holds(m, d) => Holds(m, d)'
    BY <1>2, <2>2, PeerFacts, AppendHolds
  <2>4. ASSUME NEW d \in Commit, commit'[d] \in {"flushed", "waiting"}
        PROVE  acting[by'[d]] = "primary" /\ Holds(by[d], d)'
    <3>1. by'[d] = by[d] /\ by[d] \in Node /\ acting[by[d]] = "primary" /\ Holds(by[d], d)
      BY <1>2, <2>1, <2>4 DEF FtsInv, PendingInv, TypeOK
    <3>2. \E i \in 1 .. Len(wal'[by[d]]) : wal'[by[d]][i] = d
      BY <2>3, <3>1 DEF Holds
    <3>3. QED
      BY <3>1, <3>2 DEF Holds
  <2>5. QED
    BY <1>1, <2>1, <2>3, <2>4, WalStep
<1>9. ASSUME Disconnect \/ GraceExpires PROVE FtsInv'
  <2>1. /\ UNCHANGED <<config, st, to, req, reply, late, acting, conf, syncrep, wal, commit, by>>
        /\ repl' # "none" => repl # "none"
    BY <1>9 DEF Disconnect, GraceExpires, ftsVars, commitVars
  <2>2. QED
    BY <1>1, <2>1, Quiet
<1>10. ASSUME NEW n \in Node, Crash(n) PROVE FtsInv'
  <2>1. /\ UNCHANGED <<config, st, to, reply, conf, syncrep, wal, by>> /\ late' = {}
        /\ repl' = "none"
    BY <1>2, <1>10 DEF Crash
  <2>2. \A m \in Node : /\ acting'[m] = "primary" <=> acting[m] = "primary"
                        /\ acting'[m] = "promoting" => acting[m] = "promoting"
    <3>1. \A m \in Node : acting'[m] = IF m = n /\ acting[n] = "promoting" THEN "mirror" ELSE acting[m]
      BY <1>2, <1>10 DEF Crash, TypeOK
    <3>2. QED
      BY <3>1
  <2>3. \A c \in Commit : commit'[c] = commit[c] \/ commit'[c] \notin {"sync", "flushed", "waiting"}
    BY <1>10 DEF Crash, Lost
  <2>4. req' = req \/ req' # "answered"
    BY <1>10 DEF Crash, Break
  <2>5. QED
    BY <1>1, <1>2, <2>1, <2>2, <2>3, <2>4, Quiet
<1>11. ASSUME NEW n \in Node, Restart(n) \/ Recovered(n) PROVE FtsInv'
  <2>1. UNCHANGED <<config, st, to, req, reply, late, acting, conf, repl, wal, commit, by>>
    BY <1>11 DEF Restart, Recovered, ftsVars, commitVars
  <2>2. syncrep' = syncrep
    BY <1>2, <1>11 DEF Restart, Recovered, TypeOK
  <2>3. QED
    BY <1>1, <2>1, <2>2, Quiet
<1>12. ASSUME StartCycle \/ ftsSend PROVE FtsInv'
  <2>1. UNCHANGED <<config, late, acting, conf, syncrep, repl, wal, commit, by>>
    BY <1>12 DEF StartCycle, ftsSend, nodeVars, commitVars
  <2>2. CASE StartCycle
    <3>1. req' # "answered" /\ st' \in {"PROBE", "PROMOTE"} /\ config[to'].role = "p"
      BY <1>2, <2>2, PrimaryFacts DEF StartCycle, NextMessage
    <3>2. QED
      BY <1>1, <2>1, <3>1, Quiet
  <2>3. CASE ftsSend
    <3>1. UNCHANGED <<st, to, reply>> /\ req' # "answered"
      BY <2>3 DEF ftsSend
    <3>2. QED
      BY <1>1, <2>1, <3>1, Quiet
  <2>4. QED
    BY <1>12, <2>2, <2>3
<1>13. ASSUME Retry, UNCHANGED <<late, nodeVars, commitVars>> PROVE FtsInv'
  <2>1. /\ UNCHANGED <<config, st, to, late, acting, conf, syncrep, repl, wal, commit, by>>
        /\ req' # "answered"
    BY <1>13 DEF Retry, nodeVars, commitVars
  <2>2. QED
    BY <1>1, <2>1, Quiet
<1>14. ASSUME NEW msg \in {"idle", "PROMOTE"}, NextMessage(msg, to),
              msg = "PROMOTE" => st = "PROBE",
              UNCHANGED <<config, late, nodeVars, commitVars>>
       PROVE  FtsInv'
  <2>1. UNCHANGED <<config, late, acting, conf, syncrep, repl, wal, commit, by>>
    BY <1>14 DEF nodeVars, commitVars
  <2>2. req' # "answered" /\ st' = msg /\ to' = to
    BY <1>14 DEF NextMessage
  <2>3. msg = "PROMOTE" => config[to].role = "p"
    BY <1>14 DEF FtsInv, ProberInv
  <2>4. QED
    BY <1>1, <2>1, <2>2, <2>3, Quiet
<1>15. ASSUME ftsReceive PROVE FtsInv'
  <2>1. UNCHANGED <<late, nodeVars, commitVars>> /\ req = "answered"
    BY <1>15 DEF ftsReceive
  <2>2. CASE Retry
    BY <1>13, <2>1, <2>2
  <2>3. CASE NextMessage("idle", to) /\ UNCHANGED config
    BY <1>14, <2>1, <2>3
  <2>4. CASE st = "PROBE" /\ ProbeSuccess
    <3>1. CASE ProbeMirrorDown
      BY <1>1, <2>1, <2>4, <3>1, RecordStep DEF ProbeMirrorDown, MirrorDown
    <3>2. CASE ProbeMirrorAwaited
      BY <1>14, <2>1, <3>2 DEF ProbeMirrorAwaited
    <3>3. CASE ProbeRoleMirror
      BY <1>14, <2>1, <2>4, <3>3 DEF ProbeRoleMirror
    <3>4. CASE ProbeAnswered
      BY <1>1, <2>1, <2>4, <3>4, RecordStep DEF ProbeAnswered
    <3>5. QED
      BY <2>4, <3>1, <3>2, <3>3, <3>4 DEF ProbeSuccess
  <2>5. QED
    BY <1>15, <2>2, <2>3, <2>4 DEF ftsReceive
<1>16. ASSUME AttemptFails PROVE FtsInv'
  <2>1. UNCHANGED <<late, nodeVars, commitVars>>
    BY <1>16 DEF AttemptFails, GivenUp
  <2>2. CASE Retry
    BY <1>13, <2>1, <2>2
  <2>3. ASSUME NEW restarting \in BOOLEAN, Failed(restarting) PROVE FtsInv'
    <3>1. CASE NextMessage("idle", to) /\ UNCHANGED config
      BY <1>14, <2>1, <3>1
    <3>2. CASE /\ st = "PROBE" /\ config[Peer(to)].insync
               /\ updateConfiguration(to, Peer(to), "m", "p", FALSE, FALSE, config[Peer(to)].up)
               /\ NextMessage("PROMOTE", Peer(to))
      BY <1>1, <2>1, <3>2, FlipStep
    <3>3. QED
      BY <2>3, <3>1, <3>2 DEF Failed
  <2>4. QED
    BY <1>16, <2>2, <2>3 DEF AttemptFails
<1>17. ASSUME ProberRestarts PROVE FtsInv'
  BY <1>14, <1>17 DEF ProberRestarts, GivenUp
<1>18. CASE UNCHANGED vars
  <2>1. /\ UNCHANGED <<config, st, to, req, reply, late, acting, conf, syncrep, repl, wal, commit, by>>
    BY <1>18 DEF vars, ftsVars, nodeVars, commitVars
  <2>2. QED
    BY <1>1, <2>1, Quiet
<1>19. QED
  BY <1>1, <1>2, <1>3, <1>4, <1>5, <1>6, <1>7, <1>8, <1>9, <1>10, <1>11, <1>12, <1>15, <1>16, <1>17,
     <1>18, PromoteDoneStep, RecoversegStep, HandleStep DEF Next, Prober

\* A commit acknowledged while the catalog had the pair in sync is on the
\* primary of the catalog, before and after every failover.
THEOREM FailoverKeepsCommits == Spec => []CommitInSyncSurvives
<1>1. Init => TimelyInv
  BY FtsInit DEF TimelyInv
<1>2. TimelyInv => CommitInSyncSurvives
  BY DEF TimelyInv, FtsInv, CoverInv, Survives, CommitInSyncSurvives
<1>3. QED
  BY <1>1, <1>2, FtsStep, PTL DEF Spec

\* The primary of a pair in sync waits for its mirror.
THEOREM PairInSyncWaits == Spec => []InSyncWaits
<1>1. Init => TimelyInv
  BY FtsInit DEF TimelyInv
<1>2. TimelyInv => InSyncWaits
  BY DEF TimelyInv, FtsInv, WaitsInv, PairWaits, InSyncWaits
<1>3. QED
  BY <1>1, <1>2, FtsStep, PTL DEF Spec

-----------------------------------------------------------------------------
(* The catalog, whether or not the history is timely.                      *)

\* The prober probes the primary of the catalog, and an answer that it may
\* record comes from an instance that acts as a primary, which only
\* gprecoverseg could change, and only for the mirror of the catalog.
CatalogInv ==
    /\ TypeOK
    /\ CatalogConsistent
    /\ st = "PROBE" => config[to].role = "p"
    /\ req = "answered" /\ st = "PROBE" =>
          /\ reply.isInSync => reply.isMirrorAlive
          /\ reply.isSyncRepEnabled \/ ~reply.isRoleMirror => acting[to] = "primary"

\* A step that leaves the catalog alone.
LEMMA CatalogKept ==
    ASSUME CatalogInv, TypeOK', UNCHANGED config,
           \A n \in Node : config[n].role = "p" /\ acting[n] = "primary" => acting'[n] = "primary",
           st' = "PROBE" => config[to'].role = "p",
           req' = "answered" /\ st' = "PROBE" => UNCHANGED <<st, to, req, reply>>
    PROVE  CatalogInv'
<1>1. CatalogConsistent'
  <2> SUFFICES ASSUME NEW n \in Node
               PROVE  /\ config[n].role = "p" <=> config[Peer(n)].role = "m"
                      /\ config[n].role = "p" => config[n].up
                      /\ config[n].insync = config[Peer(n)].insync
                      /\ config[n].insync => config[n].up
                      /\ config[n].role = "p" /\ acting'[n] # "primary"
                            => ~config[n].insync /\ ~config[Peer(n)].up
    BY DEF CatalogConsistent, Peer
  <2>1. QED
    BY DEF CatalogInv, CatalogConsistent
<1>2. ASSUME req' = "answered", st' = "PROBE"
      PROVE  /\ reply'.isInSync => reply'.isMirrorAlive
             /\ reply'.isSyncRepEnabled \/ ~reply'.isRoleMirror => acting'[to'] = "primary"
  <2>1. UNCHANGED <<st, to, req, reply>> /\ to \in Node /\ config[to].role = "p"
    BY <1>2 DEF CatalogInv, TypeOK
  <2>2. /\ reply.isInSync => reply.isMirrorAlive
        /\ reply.isSyncRepEnabled \/ ~reply.isRoleMirror => acting[to] = "primary"
    BY <1>2, <2>1 DEF CatalogInv
  <2>3. QED
    BY <2>1, <2>2
<1>3. QED
  BY <1>1, <1>2 DEF CatalogInv

\* A step of the prober that writes the catalog: p is its primary then.
LEMMA CatalogWritten ==
    ASSUME TypeOK', UNCHANGED acting, req' = "none",
           NEW p \in Node, config'[p].role = "p", config'[Peer(p)].role = "m",
           config'[p].up, config'[p].insync = config'[Peer(p)].insync,
           config'[p].insync => config'[Peer(p)].up,
           acting[p] # "primary" => ~config'[p].insync /\ ~config'[Peer(p)].up,
           st' # "PROBE"
    PROVE  CatalogInv'
<1>1. /\ \A n \in Node : n = p \/ n = Peer(p)
      /\ Peer(p) \in Node /\ Peer(Peer(p)) = p /\ p # Peer(p)
  BY PeerFacts
<1>2. CatalogConsistent'
  <2> SUFFICES ASSUME NEW n \in Node
               PROVE  /\ config'[n].role = "p" <=> config'[Peer(n)].role = "m"
                      /\ config'[n].role = "p" => config'[n].up
                      /\ config'[n].insync = config'[Peer(n)].insync
                      /\ config'[n].insync => config'[n].up
                      /\ config'[n].role = "p" /\ acting[n] # "primary"
                            => ~config'[n].insync /\ ~config'[Peer(n)].up
    BY DEF CatalogConsistent, Peer
  <2>1. CASE n = p
    BY <2>1
  <2>2. CASE n = Peer(p)
    BY <1>1, <2>2
  <2>3. QED
    BY <1>1, <2>1, <2>2
<1>3. QED
  BY <1>2 DEF CatalogInv

LEMMA CatalogRecord ==
    ASSUME CatalogInv, TypeOK', UNCHANGED acting, st = "PROBE", req = "answered", RecordAnswer,
           reply.isSyncRepEnabled \/ ~reply.isRoleMirror,
           NEW msg \in {"idle", "SYNCREP_OFF"}, NextMessage(msg, to)
    PROVE  CatalogInv'
<1>1. to \in Node /\ Peer(to) \in Node /\ Peer(to) # to /\ config[to].role = "p"
  BY PeerFacts DEF CatalogInv, TypeOK
<1>2. /\ config[Peer(to)].role = "m" /\ config[to].up
      /\ config[to].insync = config[Peer(to)].insync
  BY <1>1 DEF CatalogInv, CatalogConsistent
<1>3. /\ config[to].up \in BOOLEAN /\ config[Peer(to)].up \in BOOLEAN
      /\ config[to].insync \in BOOLEAN /\ reply.isInSync \in BOOLEAN /\ reply.isMirrorAlive \in BOOLEAN
  <2>1. config[to] \in [role : {"p", "m"}, up : BOOLEAN, insync : BOOLEAN]
    BY <1>1 DEF CatalogInv, TypeOK
  <2>2. config[Peer(to)] \in [role : {"p", "m"}, up : BOOLEAN, insync : BOOLEAN]
    BY <1>1 DEF CatalogInv, TypeOK
  <2>3. reply \in Reply
    BY DEF CatalogInv, TypeOK
  <2>4. QED
    BY <2>1, <2>2, <2>3, SMT DEF Reply
<1>4. config'[to].role = "p" /\ config'[to].up /\ config'[to].insync = reply.isInSync
  BY <1>1, <1>2, <1>3 DEF RecordAnswer, updateConfiguration
<1>5. /\ config'[Peer(to)].role = "m" /\ config'[Peer(to)].up = reply.isMirrorAlive
      /\ config'[Peer(to)].insync = reply.isInSync
  BY <1>1, <1>2, <1>3 DEF RecordAnswer, updateConfiguration, UpdateMirror
<1>6. (reply.isInSync => reply.isMirrorAlive) /\ acting[to] = "primary"
  BY DEF CatalogInv
<1>7. req' = "none" /\ st' # "PROBE"
  BY DEF NextMessage
<1>8. QED
  BY <1>1, <1>4, <1>5, <1>6, <1>7, CatalogWritten

LEMMA CatalogFlip ==
    ASSUME CatalogInv, TypeOK', UNCHANGED acting, st = "PROBE", config[Peer(to)].insync,
           updateConfiguration(to, Peer(to), "m", "p", FALSE, FALSE, config[Peer(to)].up),
           NextMessage("PROMOTE", Peer(to))
    PROVE  CatalogInv'
<1>1. /\ to \in Node /\ Peer(to) \in Node /\ Peer(to) # to /\ Peer(Peer(to)) = to
      /\ config[to].role = "p"
  BY PeerFacts DEF CatalogInv, TypeOK
<1>2. /\ config[to].insync = config[Peer(to)].insync /\ config[Peer(to)].up
  BY <1>1 DEF CatalogInv, CatalogConsistent
<1>3. config[to].insync # FALSE
  BY <1>2
<1>4. config'[to].role = "m" /\ config'[to].up = FALSE /\ config'[to].insync = FALSE
  BY <1>1, <1>3 DEF updateConfiguration
<1>5. /\ config'[Peer(to)].role = "p" /\ config'[Peer(to)].up = config[Peer(to)].up
      /\ config'[Peer(to)].insync = FALSE
  BY <1>1, <1>3 DEF updateConfiguration, UpdateMirror
<1>6. config'[Peer(to)].up
  BY <1>2, <1>5
<1>7. req' = "none" /\ st' # "PROBE"
  BY DEF NextMessage
<1>8. DEFINE q == Peer(to)
<1>9. /\ q \in Node /\ config'[q].role = "p" /\ config'[Peer(q)].role = "m"
      /\ config'[q].up /\ config'[q].insync = config'[Peer(q)].insync /\ ~config'[q].insync
      /\ ~config'[Peer(q)].up
  BY <1>1, <1>4, <1>5, <1>6
<1> HIDE DEF q
<1>10. QED
  BY <1>7, <1>9, CatalogWritten

LEMMA CatalogNext == CatalogInv /\ [Next]_vars => CatalogInv'
<1> SUFFICES ASSUME CatalogInv, [Next]_vars PROVE CatalogInv'
  OBVIOUS
<1>1. TypeOK'
  BY TypeStep DEF CatalogInv
<1>2. /\ \A n \in Node : acting[n] \in {"primary", "mirror", "promoting"}
      /\ acting \in [Node -> {"primary", "mirror", "promoting"}]
      /\ to \in Node /\ st \in Message \cup {"idle"}
      /\ st = "PROBE" => config[to].role = "p"
  BY DEF CatalogInv, TypeOK
<1>3. CASE UNCHANGED <<config, st, to, req, reply, acting>>
  BY <1>1, <1>2, <1>3, CatalogKept
<1>4. ASSUME NEW n \in Node, Crash(n) PROVE CatalogInv'
  <2>1. UNCHANGED <<config, st, to, reply>> /\ (req' = req \/ req' = "broken")
    BY <1>4 DEF Crash, Break
  <2>2. \A m \in Node : acting[m] = "primary" => acting'[m] = "primary"
    BY <1>2, <1>4 DEF Crash
  <2>3. QED
    BY <1>1, <1>2, <2>1, <2>2, CatalogKept
<1>5. ASSUME NEW n \in Node, PromoteDone(n) PROVE CatalogInv'
  <2>1. UNCHANGED <<config, st, to, req, reply>>
    BY <1>5 DEF PromoteDone, ftsVars
  <2>2. \A m \in Node : acting[m] = "primary" => acting'[m] = "primary"
    BY <1>2, <1>5 DEF PromoteDone
  <2>3. QED
    BY <1>1, <1>2, <2>1, <2>2, CatalogKept
<1>6. ASSUME NEW n \in Node, Recoverseg(n) PROVE CatalogInv'
  <2>1. UNCHANGED <<config, st, to, reply>> /\ (req' = req \/ req' = "broken") /\ config[n].role = "m"
    BY <1>6 DEF Recoverseg, Break
  <2>2. \A m \in Node : config[m].role = "p" /\ acting[m] = "primary" => acting'[m] = "primary"
    BY <1>2, <1>6, <2>1 DEF Recoverseg
  <2>3. QED
    BY <1>1, <1>2, <2>1, <2>2, CatalogKept
<1>7. ASSUME NEW n \in Node, NEW msg, HandleFtsMessage(n, msg)
      PROVE  \A m \in Node : acting[m] = "primary" => acting'[m] = "primary"
  <2>1. acting' = acting \/ (acting[n] # "primary" /\ acting' = [acting EXCEPT ![n] = "promoting"])
    BY <1>7 DEF HandleFtsMessage, HandleFtsWalRepProbe, HandleFtsWalRepSyncRepOff, HandleFtsWalRepPromote
  <2>2. QED
    BY <1>2, <2>1
<1>8. ASSUME Handle PROVE CatalogInv'
  <2>1. UNCHANGED <<config, st, to>> /\ HandleFtsMessage(to, st)
    BY <1>8 DEF Handle
  <2>2. \A m \in Node : acting[m] = "primary" => acting'[m] = "primary"
    BY <1>2, <1>7, <2>1
  <2>3. CatalogConsistent'
    <3> SUFFICES ASSUME NEW n \in Node
                 PROVE  /\ config[n].role = "p" <=> config[Peer(n)].role = "m"
                        /\ config[n].role = "p" => config[n].up
                        /\ config[n].insync = config[Peer(n)].insync
                        /\ config[n].insync => config[n].up
                        /\ config[n].role = "p" /\ acting'[n] # "primary"
                              => ~config[n].insync /\ ~config[Peer(n)].up
      BY <2>1 DEF CatalogConsistent, Peer
    <3>1. QED
      BY <2>2 DEF CatalogInv, CatalogConsistent
  <2>4. ASSUME st = "PROBE"
        PROVE  /\ reply'.isInSync => reply'.isMirrorAlive
               /\ reply'.isSyncRepEnabled \/ ~reply'.isRoleMirror => acting'[to] = "primary"
    <3>1. reply' = ProbeResponse(to)
      BY <1>8, <2>4 DEF Handle
    <3>2. /\ reply'.isInSync <=> acting[to] = "primary" /\ repl = "streaming"
          /\ reply'.isMirrorAlive <=> acting[to] = "primary" /\ repl # "none"
          /\ reply'.isRoleMirror <=> acting[to] # "primary"
          /\ reply'.isSyncRepEnabled => acting[to] = "primary"
      BY <3>1 DEF ProbeResponse
    <3>3. QED
      BY <1>2, <2>2, <3>2
  <2>5. QED
    BY <1>1, <1>2, <2>1, <2>3, <2>4 DEF CatalogInv
<1>9. ASSUME NEW l \in late, HandleLate(l) PROVE CatalogInv'
  <2>1. UNCHANGED <<config, st, to, req, reply>> /\ HandleFtsMessage(l[1], l[2])
    BY <1>9 DEF HandleLate, ftsVars
  <2>2. l[1] \in Node
    BY SMT DEF CatalogInv, TypeOK
  <2>3. \A m \in Node : acting[m] = "primary" => acting'[m] = "primary"
    BY <1>7, <2>1, <2>2
  <2>4. QED
    BY <1>1, <1>2, <2>1, <2>3, CatalogKept
<1>10. CASE StartCycle
  <2>1. UNCHANGED <<config, acting>> /\ to' = Primary /\ req' = "none"
    BY <1>10 DEF StartCycle, NextMessage, nodeVars
  <2>2. config[Primary].role = "p"
    BY PrimaryFacts DEF CatalogInv
  <2>3. QED
    BY <1>1, <2>1, <2>2, CatalogKept
<1>11. CASE ftsSend
  <2>1. UNCHANGED <<config, st, to, acting>> /\ req' = "sent"
    BY <1>11 DEF ftsSend, nodeVars
  <2>2. QED
    BY <1>1, <1>2, <2>1, CatalogKept
<1>12. ASSUME UNCHANGED <<config, acting>>, NEW msg \in {"idle", "PROMOTE"}, NEW n, NextMessage(msg, n)
       PROVE  CatalogInv'
  <2>1. st' # "PROBE" /\ req' = "none"
    BY <1>12 DEF NextMessage
  <2>2. QED
    BY <1>1, <1>12, <2>1, CatalogKept
<1>13. ASSUME UNCHANGED acting, Retry PROVE CatalogInv'
  <2>1. UNCHANGED <<config, st, to, acting>> /\ req' = "none"
    BY <1>13 DEF Retry
  <2>2. QED
    BY <1>1, <1>2, <2>1, CatalogKept
<1>14. CASE ftsReceive
  <2>1. acting' = acting /\ req = "answered"
    BY <1>14 DEF ftsReceive, nodeVars
  <2>2. ASSUME st = "PROBE", ProbeSuccess PROVE CatalogInv'
    <3>1. CASE ProbeMirrorDown
      BY <1>1, <2>1, <2>2, <3>1, CatalogRecord DEF ProbeMirrorDown, MirrorDown
    <3>2. CASE ProbeMirrorAwaited
      BY <1>12, <2>1, <3>2 DEF ProbeMirrorAwaited
    <3>3. CASE ProbeRoleMirror
      BY <1>12, <2>1, <3>3 DEF ProbeRoleMirror
    <3>4. CASE ProbeAnswered
      BY <1>1, <2>1, <2>2, <3>4, CatalogRecord DEF ProbeAnswered
    <3>5. QED
      BY <2>2, <3>1, <3>2, <3>3, <3>4 DEF ProbeSuccess
  <2>3. QED
    BY <1>12, <1>13, <1>14, <2>1, <2>2 DEF ftsReceive
<1>15. CASE AttemptFails
  <2>1. acting' = acting
    BY <1>15 DEF AttemptFails, nodeVars
  <2>2. ASSUME NEW restarting, Failed(restarting) PROVE CatalogInv'
    BY <1>1, <1>12, <2>1, <2>2, CatalogFlip DEF Failed
  <2>3. QED
    BY <1>13, <1>15, <2>1, <2>2 DEF AttemptFails
<1>16. CASE ProberRestarts
  BY <1>12, <1>16 DEF ProberRestarts, nodeVars
<1>17. \/ UNCHANGED <<config, st, to, req, reply, acting>>
       \/ \E n \in Node : Crash(n) \/ PromoteDone(n) \/ Recoverseg(n)
       \/ Handle \/ (\E l \in late : HandleLate(l))
       \/ StartCycle \/ ftsSend \/ ftsReceive \/ AttemptFails \/ ProberRestarts
  BY DEF Next, vars, Prober, ftsVars, nodeVars, Disconnect, GraceExpires, Insert, Reload, Connect,
         CatchUp, Ship, Restart, Recovered, SyncRepWaitForLSN, SyncRepReleaseWaiters
<1>18. QED
  BY <1>3, <1>4, <1>5, <1>6, <1>8, <1>9, <1>10, <1>11, <1>14, <1>15, <1>16, <1>17

LEMMA CatalogInit == Init => CatalogInv
<1>1. Init => st # "PROBE"
  BY DEF Init
<1>2. QED
  BY <1>1, FtsInit DEF CatalogInv, FtsInv

\* Every variable of the prober and of the pair keeps its type: in particular
\* the retries stay within gp_fts_probe_retries and every message goes to an
\* instance of the pair, also after delayed reloads and outlived connections.
THEOREM TypeCorrect == Spec => []TypeOK
<1>1. CatalogInv => TypeOK
  BY DEF CatalogInv
<1>2. QED
  BY <1>1, CatalogInit, CatalogNext, PTL DEF Spec

\* The assertions of updateConfiguration() and processResponse() about the
\* catalog hold, whatever is delayed, lost or given up: they do not depend on
\* reloads and handlers being in time.
THEOREM CatalogAsserts == Spec => []CatalogConsistent
<1>1. CatalogInv => CatalogConsistent
  BY DEF CatalogInv
<1>2. QED
  BY <1>1, CatalogInit, CatalogNext, PTL DEF Spec

=============================================================================
