--------------------------------- MODULE Fts ---------------------------------
(***************************************************************************)
(* The fault tolerance service and one primary/mirror pair.  The prober on *)
(* the coordinator asks the primary of gp_segment_configuration how it and *)
(* its mirror are, records the answer, tells the primary to stop waiting   *)
(* for a dead mirror (SYNCREP_OFF), or flips the roles and promotes the    *)
(* mirror.  Meanwhile transactions commit on the segment, wait for the     *)
(* mirror if synchronous replication is on, and are acknowledged.          *)
(***************************************************************************)
EXTENDS Naturals, Sequences

CONSTANTS
    Node,           \* the two segment instances of one content id
    Preferred,      \* the one whose preferred_role is primary
    Commit,         \* commits the clients ask for
    Retries,        \* gp_fts_probe_retries
    MaxFaults       \* bound: crashes, lost connections, timeouts, recoveries

ASSUME NodeAssumption == Node # {} /\ \A n \in Node : \E m \in Node : Node = {n, m} /\ n # m
ASSUME PreferredAssumption == Preferred \in Node
ASSUME BoundsAssumption == Retries \in Nat /\ MaxFaults \in Nat

VARIABLES
    config,     \* gp_segment_configuration: role, status and mode of each instance
    st,         \* what the prober is doing: "idle" or the message it has to deliver
    to,         \* the instance it talks to (primary_cdbinfo)
    retry,      \* retry_count
    req,        \* the message: "none", "sent", "broken", "answered"
    reply,      \* fts_result of an answered one
    late,       \* messages given up by the prober that a handler still holds
    timely,     \* history: no reload has been delayed, no message left with a handler
    run,        \* "up", "restarting" or "down"
    acting,     \* what an instance is, whatever the catalog says
    conf,       \* synchronous_standby_names is "*" in gp_replication.conf
    syncrep,    \* WalSndCtl->sync_standbys_defined
    repl,       \* the walsender: "none", "catchup", "near" (in range), "streaming"
    grace,      \* within gp_fts_mark_mirror_down_grace_period
    wal,        \* commit records of each instance
    commit,     \* where each commit is
    by,         \* the instance that ran it
    faults      \* faults so far

ftsVars == <<config, st, to, retry, req, reply>>
nodeVars == <<run, acting, conf, syncrep, repl, grace>>
commitVars == <<wal, commit, by>>
vars == <<ftsVars, late, timely, nodeVars, commitVars, faults>>

Message == {"PROBE", "SYNCREP_OFF", "PROMOTE"}
\* An acknowledged commit is "async" if the catalog's primary acknowledged it
\* while the catalog had the pair not in sync, and "sync" otherwise.
CommitState == {"none", "flushed", "waiting", "async", "sync", "gone"}
Reply == [isMirrorAlive : BOOLEAN, isInSync : BOOLEAN, isSyncRepEnabled : BOOLEAN,
          isRoleMirror : BOOLEAN, retryRequested : BOOLEAN]
NoReply == [isMirrorAlive |-> FALSE, isInSync |-> FALSE, isSyncRepEnabled |-> FALSE,
            isRoleMirror |-> FALSE, retryRequested |-> FALSE]

Peer(n) == CHOOSE m \in Node : m # n
Primary == CHOOSE n \in Node : config[n].role = "p"

\* A pair as it has just been set up: the mirror has not connected yet.
Init ==
    /\ config = [n \in Node |-> [role |-> IF n = Preferred THEN "p" ELSE "m",
                                 up |-> TRUE, insync |-> FALSE]]
    /\ to = Preferred
    /\ acting = [n \in Node |-> IF n = Preferred THEN "primary" ELSE "mirror"]
    /\ by = [c \in Commit |-> Preferred]
    /\ st = "idle"
    /\ retry = 0
    /\ req = "none"
    /\ reply = NoReply
    /\ late = {}
    /\ timely = TRUE
    /\ run = [n \in Node |-> "up"]
    /\ conf = [n \in Node |-> FALSE]
    /\ syncrep = [n \in Node |-> FALSE]
    /\ repl = "none"
    /\ grace = TRUE
    /\ wal = [n \in Node |-> <<>>]
    /\ commit = [c \in Commit |-> "none"]
    /\ faults = 0

Fault == faults < MaxFaults /\ faults' = faults + 1

-----------------------------------------------------------------------------
(* Commits and replication *)

Holds(n, c) == \E i \in 1 .. Len(wal[n]) : wal[n][i] = c

\* The client is told.
Ack(n) == IF n = Primary /\ ~config[n].insync THEN "async" ELSE "sync"

\* The commit record is written and flushed.
Insert(n, c) ==
    /\ run[n] = "up" /\ acting[n] = "primary"
    /\ commit[c] = "none"
    /\ wal' = [wal EXCEPT ![n] = Append(@, c)]
    /\ commit' = [commit EXCEPT ![c] = "flushed"]
    /\ by' = [by EXCEPT ![c] = n]
    /\ UNCHANGED <<ftsVars, late, timely, nodeVars, faults>>

\* (Mutant: nobody waits while no mirror is connected.)
SyncRepWaitForLSNConnected(c) ==
    /\ commit[c] = "flushed"
    /\ \/ /\ repl = "none" \/ Holds(Peer(by[c]), c)
          /\ commit' = [commit EXCEPT ![c] = Ack(by[c])]
       \/ /\ syncrep[by[c]]
          /\ commit' = [commit EXCEPT ![c] = "waiting"]
    /\ UNCHANGED <<ftsVars, late, timely, nodeVars, wal, by, faults>>

\* SyncRepWaitForLSN(): no wait if synchronous replication is off, or the
\* mirror has replied already.
SyncRepWaitForLSN(c) ==
    /\ commit[c] = "flushed"
    /\ \/ /\ ~syncrep[by[c]] \/ Holds(Peer(by[c]), c)
          /\ commit' = [commit EXCEPT ![c] = Ack(by[c])]
       \/ /\ syncrep[by[c]]
          /\ commit' = [commit EXCEPT ![c] = "waiting"]
    /\ UNCHANGED <<ftsVars, late, timely, nodeVars, wal, by, faults>>

\* SyncRepReleaseWaiters(): the walsender is streaming and has the reply.
SyncRepReleaseWaiters(c) ==
    /\ commit[c] = "waiting"
    /\ repl = "streaming" /\ acting[by[c]] = "primary"
    /\ Holds(Peer(by[c]), c)
    /\ commit' = [commit EXCEPT ![c] = Ack(by[c])]
    /\ UNCHANGED <<ftsVars, late, timely, nodeVars, wal, by, faults>>

\* SyncRepUpdateSyncStandbysDefined(): without synchronous replication nobody
\* waits on.
Updated(n, on) ==
    /\ syncrep' = [syncrep EXCEPT ![n] = on]
    /\ commit' = [c \in Commit |-> IF ~on /\ by[c] = n /\ commit[c] = "waiting"
                                   THEN Ack(n) ELSE commit[c]]

\* The checkpointer reloads the configuration.
Reload(n) ==
    /\ run[n] = "up"
    /\ syncrep[n] # conf[n]
    /\ Updated(n, conf[n])
    /\ UNCHANGED <<ftsVars, late, timely, run, acting, conf, repl, grace, wal, by, faults>>

\* The walreceiver of a mirror connects.
Connect(p) ==
    /\ repl = "none"
    /\ run[p] = "up" /\ acting[p] = "primary"
    /\ run[Peer(p)] = "up" /\ acting[Peer(p)] = "mirror"
    /\ \E k \in 0 .. Len(wal[p]) : wal[Peer(p)] = SubSeq(wal[p], 1, k)
    /\ repl' = "catchup"
    /\ UNCHANGED <<ftsVars, late, timely, run, acting, conf, syncrep, grace, commitVars, faults>>

\* The walsender comes within range, and streams once all there is has been
\* sent; what the mirror has flushed by then is another matter.
CatchUp(p) ==
    /\ acting[p] = "primary"
    /\ \/ repl = "catchup" /\ repl' = "near"
       \/ repl = "near" /\ repl' = "streaming"
    /\ UNCHANGED <<ftsVars, late, timely, run, acting, conf, syncrep, grace, commitVars, faults>>

\* The mirror flushes the next record.
Ship(p) ==
    /\ acting[p] = "primary"
    /\ repl # "none"
    /\ Len(wal[Peer(p)]) < Len(wal[p])
    /\ wal' = [wal EXCEPT ![Peer(p)] = Append(@, wal[p][Len(@) + 1])]
    /\ UNCHANGED <<ftsVars, late, timely, nodeVars, commit, by, faults>>

Disconnect ==
    /\ repl # "none"
    /\ repl' = "none"
    /\ grace' = TRUE
    /\ Fault
    /\ UNCHANGED <<ftsVars, late, timely, run, acting, conf, syncrep, commitVars>>

GraceExpires ==
    /\ grace
    /\ grace' = FALSE
    /\ UNCHANGED <<ftsVars, late, timely, run, acting, conf, syncrep, repl, commitVars, faults>>

-----------------------------------------------------------------------------
(* Crashes and restarts *)

Lost(n) == [c \in Commit |-> IF by[c] = n /\ commit[c] \in {"flushed", "waiting"}
                             THEN "gone" ELSE commit[c]]

Break(n) == req' = IF to = n /\ req = "sent" THEN "broken" ELSE req

\* A crash in the middle of a promotion leaves the instance a mirror.
Crash(n) ==
    /\ run[n] # "down"
    /\ Fault
    /\ run' = [run EXCEPT ![n] = "down"]
    /\ acting' = [acting EXCEPT ![n] = IF @ = "promoting" THEN "mirror" ELSE @]
    /\ repl' = "none"
    /\ grace' = TRUE
    /\ commit' = Lost(n)
    /\ late' = {l \in late : l[1] # n}
    /\ Break(n)
    /\ UNCHANGED <<config, st, to, retry, reply, timely, conf, syncrep, wal, by>>

Restart(n) ==
    /\ run[n] = "down"
    /\ run' = [run EXCEPT ![n] = "restarting"]
    /\ UNCHANGED <<ftsVars, late, timely, acting, conf, syncrep, repl, grace, commitVars, faults>>

\* The instance accepts connections again; its checkpointer has read the
\* configuration files.
Recovered(n) ==
    /\ run[n] = "restarting"
    /\ run' = [run EXCEPT ![n] = "up"]
    /\ syncrep' = [syncrep EXCEPT ![n] = conf[n]]
    /\ grace' = TRUE
    /\ UNCHANGED <<ftsVars, late, timely, acting, conf, repl, commitVars, faults>>

\* The startup process sees the promote signal and ends recovery.
PromoteDone(n) ==
    /\ run[n] = "up" /\ acting[n] = "promoting"
    /\ acting' = [acting EXCEPT ![n] = "primary"]
    /\ repl' = "none"
    /\ grace' = TRUE
    /\ UNCHANGED <<ftsVars, late, timely, run, conf, syncrep, commitVars, faults>>

\* gprecoverseg: the instance the catalog has as a dead mirror is stopped,
\* rewound to the primary, and started as its mirror.
Recoverseg(n) ==
    /\ config[n].role = "m" /\ ~config[n].up
    /\ run[Peer(n)] = "up" /\ acting[Peer(n)] = "primary"
    /\ Fault
    /\ run' = [run EXCEPT ![n] = "up"]
    /\ acting' = [acting EXCEPT ![n] = "mirror"]
    /\ \E on \in BOOLEAN : /\ conf' = [conf EXCEPT ![n] = on]
                           /\ syncrep' = [syncrep EXCEPT ![n] = on]
    /\ repl' = "none"
    /\ grace' = TRUE
    /\ wal' = [wal EXCEPT ![n] = wal[Peer(n)]]
    /\ commit' = Lost(n)
    /\ late' = {l \in late : l[1] # n}
    /\ Break(n)
    /\ UNCHANGED <<config, st, to, retry, reply, timely, by>>

-----------------------------------------------------------------------------
(* The message handlers of a segment *)

\* SetSyncStandbysDefined() and UnsetSyncStandbysDefined(): the file is
\* written and the postmaster told to reload; the checkpointer may have done
\* so before anything else happens, or later.
SetSyncRep(n, on) ==
    IF syncrep[n] = on
    THEN UNCHANGED <<conf, syncrep, commit, timely>>
    ELSE /\ conf' = [conf EXCEPT ![n] = on]
         /\ \/ Updated(n, on) /\ UNCHANGED timely
            \/ timely' = FALSE /\ UNCHANGED <<syncrep, commit>>

ReadyForSyncRep == repl \in {"near", "streaming"}

\* A primary whose mirror is up and close turns synchronous replication on.
HandleFtsWalRepProbe(n) ==
    /\ IF acting[n] = "primary" /\ ReadyForSyncRep
       THEN SetSyncRep(n, TRUE)
       ELSE UNCHANGED <<conf, syncrep, commit, timely>>
    /\ UNCHANGED acting

\* What it answers: GetMirrorStatus(), and that synchronous replication is on
\* if it has just been told to turn it on.
ProbeResponse(n) ==
    LET primary == acting[n] = "primary"
    IN [isMirrorAlive |-> primary /\ repl # "none",
        isInSync |-> primary /\ repl = "streaming",
        isSyncRepEnabled |-> primary /\ (syncrep[n] \/ ReadyForSyncRep),
        isRoleMirror |-> ~primary,
        retryRequested |-> primary /\ repl = "none" /\ grace]

HandleFtsWalRepSyncRepOff(n) ==
    /\ SetSyncRep(n, FALSE)
    /\ UNCHANGED acting

\* Idempotent, and ignored by an instance that is not in archive recovery.
HandleFtsWalRepPromote(n) ==
    IF acting[n] = "primary"
    THEN UNCHANGED <<acting, conf, syncrep, commit, timely>>
    ELSE /\ SetSyncRep(n, FALSE)
         /\ acting' = [acting EXCEPT ![n] = "promoting"]

HandleFtsMessage(n, msg) ==
    \/ msg = "PROBE" /\ HandleFtsWalRepProbe(n)
    \/ msg = "SYNCREP_OFF" /\ HandleFtsWalRepSyncRepOff(n)
    \/ msg = "PROMOTE" /\ HandleFtsWalRepPromote(n)

\* The handler runs and answers.  Only the answer to a probe is looked at.
Handle ==
    /\ req = "sent"
    /\ run[to] = "up"
    /\ HandleFtsMessage(to, st)
    /\ req' = "answered"
    /\ reply' = IF st = "PROBE" THEN ProbeResponse(to) ELSE NoReply
    /\ UNCHANGED <<config, st, to, retry, late, run, repl, grace, wal, by, faults>>

\* A handler runs whose prober has closed the connection.
HandleLate(l) ==
    /\ run[l[1]] = "up"
    /\ HandleFtsMessage(l[1], l[2])
    /\ late' = late \ {l}
    /\ UNCHANGED <<ftsVars, run, repl, grace, wal, by, faults>>

-----------------------------------------------------------------------------
(* The prober *)

\* (Mutant: the mirror's row follows its status alone.)
UpdateMirrorOnStatus(mirror, IsMirrorAlive, modeChanges) ==
    IsMirrorAlive # config[mirror].up

UpdateMirror(mirror, IsMirrorAlive, modeChanges) ==
    IsMirrorAlive # config[mirror].up \/ modeChanges

\* updateConfiguration(): each row is written if its status or the mode changes.
updateConfiguration(primary, mirror, pRole, mRole, IsInSync, pAlive, mAlive) ==
    LET modeChanges == IsInSync # config[primary].insync
        UpdatePrimary == pAlive # config[primary].up \/ modeChanges
        Row(newRole, alive) == [role |-> newRole, up |-> alive, insync |-> IsInSync]
    IN config' = [n \in Node |->
                    IF n = primary /\ UpdatePrimary
                    THEN Row(pRole, pAlive)
                    ELSE IF n = mirror /\ UpdateMirror(mirror, mAlive, modeChanges)
                    THEN Row(mRole, mAlive)
                    ELSE config[n]]

\* The next message of the cycle, or its end ("idle").
NextMessage(msg, n) ==
    /\ st' = msg
    /\ to' = n
    /\ retry' = 0
    /\ req' = "none"
    /\ reply' = NoReply

\* (Mutant: one attempt too many.)
CanRetryOnceMore == retry <= Retries

CanRetry == retry < Retries

\* retryForFtsFailed(): another attempt of the same message.
Retry ==
    /\ retry' = retry + 1
    /\ req' = "none"
    /\ reply' = NoReply
    /\ UNCHANGED <<config, st, to>>

\* FtsWalRepInitProbeContext(): a cycle starts with a probe of the primary.
StartCycle ==
    /\ st = "idle"
    /\ NextMessage("PROBE", Primary)
    /\ UNCHANGED <<config, late, timely, nodeVars, commitVars, faults>>

\* ftsConnect() and ftsSend().
ftsSend ==
    /\ st # "idle" /\ req = "none"
    /\ run[to] = "up"
    /\ req' = "sent"
    /\ UNCHANGED <<config, st, to, retry, reply, late, timely, nodeVars, commitVars, faults>>

\* FTS_PROBE_SUCCESS in processResponse(): what the primary says is recorded.
MirrorDown == reply.isSyncRepEnabled /\ ~reply.isMirrorAlive
RecordAnswer == updateConfiguration(to, Peer(to), "p", "m",
                                    reply.isInSync, TRUE, reply.isMirrorAlive)

\* (Mutant: the primary is told to go on, and the catalog is not updated.)
ProbeMirrorDownUnrecorded ==
    /\ MirrorDown /\ ~reply.retryRequested
    /\ NextMessage("SYNCREP_OFF", to)
    /\ UNCHANGED config

\* (Mutant: the primary is told only if the catalog changes.)
ProbeMirrorDownOnce ==
    /\ MirrorDown /\ ~reply.retryRequested
    /\ RecordAnswer
    /\ NextMessage(IF config[Peer(to)].up THEN "SYNCREP_OFF" ELSE "idle", to)

\* First the catalog, so that the mirror is not promoted, then the primary may
\* acknowledge commits without it.
ProbeMirrorDown ==
    /\ MirrorDown /\ ~reply.retryRequested
    /\ RecordAnswer
    /\ NextMessage("SYNCREP_OFF", to)

ProbeMirrorAwaited ==
    /\ MirrorDown /\ reply.retryRequested
    /\ NextMessage("idle", to)
    /\ UNCHANGED config

\* (Mutant: a primary that acts as a mirror is left alone.)
ProbeRoleMirrorIgnored ==
    /\ ~MirrorDown /\ reply.isRoleMirror
    /\ NextMessage("idle", to)
    /\ UNCHANGED config

\* The promote message did not make it.
ProbeRoleMirror ==
    /\ ~MirrorDown /\ reply.isRoleMirror
    /\ NextMessage("PROMOTE", to)
    /\ UNCHANGED config

ProbeAnswered ==
    /\ ~MirrorDown /\ ~reply.isRoleMirror
    /\ RecordAnswer
    /\ NextMessage("idle", to)

ProbeSuccess == ProbeMirrorDown \/ ProbeMirrorAwaited \/ ProbeRoleMirror \/ ProbeAnswered

\* processRetry() of an answer: the primary may ask to be probed again before
\* its mirror is taken for dead.
RetryRequested == reply.retryRequested /\ config[Peer(to)].up

\* ftsReceive(), processRetry() and processResponse() of an answer.
ftsReceive ==
    /\ req = "answered"
    /\ \/ /\ st = "PROBE"
          /\ IF RetryRequested /\ CanRetry
             THEN Retry
             ELSE ProbeSuccess
       \/ /\ st \in {"SYNCREP_OFF", "PROMOTE"}
          /\ NextMessage("idle", to)
          /\ UNCHANGED config
    /\ UNCHANGED <<late, timely, nodeVars, commitVars, faults>>

\* The failed states in processResponse(), retries exhausted.  A primary that
\* restarts is left alone as long as it makes progress.
Failed(restarting) ==
    \/ /\ st = "PROBE" /\ ~restarting /\ config[Peer(to)].insync
       /\ updateConfiguration(to, Peer(to), "m", "p", FALSE, FALSE, config[Peer(to)].up)
       /\ NextMessage("PROMOTE", Peer(to))
    \/ /\ st = "PROBE" => restarting \/ ~config[Peer(to)].insync
       /\ NextMessage("idle", to)
       /\ UNCHANGED config

\* The prober closes the connection.  A handler that was to see the message
\* has gone, or sees it later all the same.
GivenUp ==
    \/ UNCHANGED <<late, timely>>
    \/ req = "sent" /\ late' = late \cup {<<to, st>>} /\ timely' = FALSE

\* An attempt fails: the instance is down, refuses connections as it restarts
\* (it may or may not make progress) or is being promoted, has dropped the
\* connection, or is too slow.
AttemptFails ==
    /\ st # "idle"
    /\ \E restarting \in BOOLEAN :
          /\ restarting => run[to] = "restarting" /\ req = "none"
          /\ \/ /\ \/ req = "broken"
                   \/ req = "none" /\ (run[to] # "up" \/ acting[to] = "promoting")
                /\ UNCHANGED <<faults, late, timely>>
             \/ /\ run[to] = "up" /\ req \in {"none", "sent", "answered"}
                /\ Fault
                /\ GivenUp
          /\ IF CanRetry THEN Retry ELSE Failed(restarting)
    /\ UNCHANGED <<nodeVars, commitVars>>

\* The prober, or the coordinator, restarts in the middle of a cycle.
ProberRestarts ==
    /\ st # "idle"
    /\ Fault
    /\ GivenUp
    /\ NextMessage("idle", to)
    /\ UNCHANGED <<config, nodeVars, commitVars>>

-----------------------------------------------------------------------------
Prober == StartCycle \/ ftsSend \/ ftsReceive \/ AttemptFails

Next ==
    \/ Prober \/ Handle \/ ProberRestarts
    \/ \E l \in late : HandleLate(l)
    \/ Disconnect \/ GraceExpires
    \/ \E n \in Node :
          \/ \E c \in Commit : Insert(n, c)
          \/ Reload(n) \/ Connect(n) \/ CatchUp(n) \/ Ship(n)
          \/ Crash(n) \/ Restart(n) \/ Recovered(n) \/ PromoteDone(n) \/ Recoverseg(n)
    \/ \E c \in Commit : SyncRepWaitForLSN(c) \/ SyncRepReleaseWaiters(c)

Spec == Init /\ [][Next]_vars

\* What the code and its processes do by themselves.  Nothing is assumed of
\* clients, of the operator, or of a dead instance.
Fairness ==
    /\ WF_vars(Prober) /\ WF_vars(Handle) /\ WF_vars(GraceExpires)
    /\ \A n \in Node : /\ WF_vars(Reload(n)) /\ WF_vars(Connect(n)) /\ WF_vars(CatchUp(n))
                       /\ WF_vars(Ship(n)) /\ WF_vars(Recovered(n)) /\ WF_vars(PromoteDone(n))
    /\ \A c \in Commit : WF_vars(SyncRepReleaseWaiters(c))

FairSpec == Spec /\ Fairness

-----------------------------------------------------------------------------
(* Properties *)

\* The state is well formed: in particular the retries stay within
\* gp_fts_probe_retries, and every message goes to an instance of the pair.
TypeOK ==
    /\ config \in [Node -> [role : {"p", "m"}, up : BOOLEAN, insync : BOOLEAN]]
    /\ st \in Message \cup {"idle"} /\ to \in Node /\ retry \in 0 .. Retries
    /\ req \in {"none", "sent", "broken", "answered"} /\ reply \in Reply
    /\ late \in SUBSET (Node \X Message) /\ timely \in BOOLEAN
    /\ run \in [Node -> {"up", "restarting", "down"}]
    /\ acting \in [Node -> {"primary", "mirror", "promoting"}]
    /\ conf \in [Node -> BOOLEAN] /\ syncrep \in [Node -> BOOLEAN]
    /\ repl \in {"none", "catchup", "near", "streaming"} /\ grace \in BOOLEAN
    /\ wal \in [Node -> Seq(Commit)]
    /\ commit \in [Commit -> CommitState] /\ by \in [Commit -> Node]
    /\ faults \in 0 .. MaxFaults

\* The assertions of the prober about the catalog: exactly one primary, never
\* marked down; one mode; a pair in sync is up; and when the primary of the
\* catalog does not act as one (its promotion is pending or was interrupted),
\* the other instance is down and the pair is not in sync.
CatalogConsistent ==
    \A n \in Node :
        LET m == Peer(n) IN
        /\ config[n].role = "p" <=> config[m].role = "m"
        /\ config[n].role = "p" => config[n].up
        /\ config[n].insync = config[m].insync
        /\ config[n].insync => config[n].up
        /\ config[n].role = "p" /\ acting[n] # "primary"
              => ~config[n].insync /\ ~config[m].up

Acked(c) == commit[c] \in {"sync", "async"}

\* A commit that was acknowledged while the catalog had the pair in sync, or
\* by an instance that is no longer the primary, is on the instance that the
\* catalog has as the primary, whatever fails and whenever the mirror is
\* promoted, as long as reloads and handlers are in time: what
\* SyncRepWaitForLSN() waits for.
CommitInSyncSurvives ==
    timely => \A c \in Commit : commit[c] = "sync" => Holds(Primary, c)

\* As long as the catalog has the pair in sync, and reloads and handlers are in
\* time, its primary waits for the mirror before it acknowledges a commit: a
\* failover may happen at any time.
InSyncWaits ==
    timely => \A n \in Node : config[n].role = "p" /\ config[n].insync => syncrep[n]

\* No acknowledged commit at all is missing on the primary once it acts as one:
\* FTS promotes a mirror only if it was in sync, and in sync says that the data
\* is up to date on both.
NoCommitLost ==
    acting[Primary] = "primary" => \A c \in Commit : Acked(c) => Holds(Primary, c)

\* A commit does not wait for ever on the primary: its mirror answers, or the
\* prober finds the mirror gone, records it and has the primary go on.
CommitReleased ==
    \A c \in Commit : (commit[c] = "waiting" /\ by[c] = Primary)
                         ~> (commit[c] # "waiting" \/ by[c] # Primary)

\* A primary of the catalog that runs as a mirror, because the promote message
\* or the instance was lost on the way, is promoted in the end, unless it is dead.
PromotionCompletes ==
    \A n \in Node : (config[n].role = "p" /\ acting[n] # "primary")
                       ~> (acting[n] = "primary" \/ run[n] = "down")

=============================================================================
