------------------------------ MODULE ResGroup ------------------------------
(***************************************************************************)
(* Resource groups on the coordinator (utils/resgroup/resgroup.c): the     *)
(* slots that bound how many transactions of a group run at a time, the    *)
(* queue of those that wait for one, bypassed transactions, the statements *)
(* that create, alter and drop groups while they are in use, and           *)
(* pg_resgroup_move_query(), which hands a slot from its caller to another *)
(* session.                                                                *)
(*                                                                         *)
(* Sessions run transactions and admins run the statements; the slots the  *)
(* admins hold for their own transactions, in a group of their own, are    *)
(* left out.  What a backend does while it holds ResGroupLock is one       *)
(* action.                                                                 *)
(***************************************************************************)
EXTENDS Integers, Sequences, FiniteSets

CONSTANTS
    Session,        \* sessions that run transactions
    Admin,          \* superuser sessions that run statements on the groups
    NoBackend,      \* InvalidPid
    MaxSlots,       \* RESGROUP_MAX_SLOTS
    MaxGroups,      \* pResGroupControl->nGroups
    InitConcurrency,\* the concurrency of the groups there are at first
    Concurrency,    \* the values CREATE and ALTER set concurrency to
    MaxOid,         \* bound on the oids given to groups
    MaxStatements   \* bound on the statements that are run

ASSUME SlotAssumption ==
    /\ MaxSlots \in Nat
    /\ MaxGroups \in Nat \ {0, 1}
    /\ MaxOid \in Nat \ {0, 1}
    /\ MaxStatements \in Nat
    /\ InitConcurrency \in Nat
    /\ Concurrency \subseteq Nat
    /\ Session \cap Admin = {}
    /\ NoBackend \notin Session \cup Admin

Backend == Session \cup Admin
Slot == 1..MaxSlots
Entry == 1..MaxGroups
NoSlot == 0
NoEntry == 0
InvalidOid == 0
DefaultGroup == 1   \* the oid of default_group, and its place in groups[]

VARIABLES
    groups,       \* pResGroupControl->groups[]
    slots,        \* slot->group of each slot, NoEntry when it is in the pool
    resSlot,      \* MyProc->resSlot: the slot a waiter was granted
    pc,           \* what a backend is doing
    want,         \* "slot", or "bypass" for a bypassed transaction
    info,         \* ResGroupInfo: the entry and the oid a backend decided on
    self,         \* self->slot, or the slot pg_resgroup_move_query() has to give
    target,       \* the session an admin moves; NoBackend once it is gone
    moveto,       \* movetoResSlot, movetoGroupId, movetoCallerPid
    signal,       \* PROCSIG_RESOURCE_GROUP_MOVE_QUERY is pending
    newCaps,      \* the concurrency an ALTER is about to set
    pgResGroup,   \* the oids in pg_resgroup
    rolResGroup,  \* pg_authid.rolresgroup of the session's role
    nextOid,      \* the next oid to give out
    statements,   \* number of statements started
    breached,     \* history: a statement broke the lock of a DROP in progress
    orphaned      \* history: one side of a move ended before the other knew

shared == <<groups, slots, resSlot>>
backend == <<pc, want, info, self>>
move == <<target, moveto, signal>>
catalog == <<newCaps, pgResGroup, rolResGroup, nextOid, statements>>
history == <<breached, orphaned>>
vars == <<shared, backend, move, catalog, history>>

NoInfo == [entry |-> NoEntry, oid |-> InvalidOid]
NoMove == [slot |-> NoSlot, oid |-> InvalidOid, caller |-> NoBackend]

-----------------------------------------------------------------------------
(* The helpers that run with ResGroupLock held exclusively.                 *)

\* groupHashFind(): the entry of a group in shared memory, NoEntry if none.
GroupHashFind(oid) ==
    IF \E e \in Entry : groups[e].oid = oid
    THEN CHOOSE e \in Entry : groups[e].oid = oid
    ELSE NoEntry

\* slotIsInUse() is false for the slots in the pool; the order of the free
\* list makes no difference, so the i-th slot taken is the i-th free one.
FreeSlot(S, i) ==
    CHOOSE s \in Slot : /\ S[s] = NoEntry
                        /\ Cardinality({r \in 1..s : S[r] = NoEntry}) = i

\* procIsWaiting()
ProcIsWaiting(b) ==
    \E e \in Entry : \E i \in 1..Len(groups[e].waitProcs) :
        groups[e].waitProcs[i] = b

\* How many waiters wakeupSlots() can grant a slot of group e of G.
Grants(G, e) ==
    LET room == G[e].concurrency - G[e].nRunning
        waiting == Len(G[e].waitProcs)
    IN  IF room <= 0 THEN 0 ELSE IF room < waiting THEN room ELSE waiting

\* wakeupSlots(group, true): the first waiters get a slot each.
GrantSlots(G, S, e) ==
    LET n == Grants(G, e)
        q == G[e].waitProcs
        nth(b) == CHOOSE i \in 1..n : q[i] = b
    IN  [groups  |-> [G EXCEPT ![e].waitProcs = SubSeq(q, n + 1, Len(q)),
                               ![e].nRunning = @ + n],
         slots   |-> [s \in Slot |-> IF \E i \in 1..n : FreeSlot(S, i) = s
                                     THEN e ELSE S[s]],
         resSlot |-> [b \in Backend |-> IF \E i \in 1..n : q[i] = b
                                        THEN FreeSlot(S, nth(b))
                                        ELSE resSlot[b]]]

\* wakeupSlots(group, false): everyone is woken, without a slot.
WakeAll(G, e) ==
    [groups  |-> [G EXCEPT ![e].waitProcs = <<>>],
     slots   |-> slots,
     resSlot |-> [b \in Backend |->
                     IF \E i \in 1..Len(G[e].waitProcs) : G[e].waitProcs[i] = b
                     THEN NoSlot ELSE resSlot[b]]]

\* groupReleaseSlot(): the slot goes back to the pool and waiters are woken.
ReleaseSlot(e, s) ==
    GrantSlots([groups EXCEPT ![e].nRunning = @ - 1],
               [slots EXCEPT ![s] = NoEntry], e)

\* The shared state becomes what a helper computed.
Becomes(w) ==
    /\ groups' = w.groups
    /\ slots' = w.slots
    /\ resSlot' = w.resSlot

-----------------------------------------------------------------------------
Init ==
    /\ groups = [e \in Entry |->
                   [oid |-> IF e <= 2 THEN e ELSE InvalidOid,
                    lockedForDrop |-> FALSE, nRunning |-> 0,
                    nRunningBypassed |-> 0, concurrency |-> InitConcurrency,
                    waitProcs |-> <<>>]]
    /\ slots = [s \in Slot |-> NoEntry]
    /\ resSlot = [b \in Backend |-> NoSlot]
    /\ pc = [b \in Backend |-> "idle"]
    /\ want = [b \in Backend |-> "slot"]
    /\ info = [b \in Backend |-> NoInfo]
    /\ self = [b \in Backend |-> NoSlot]
    /\ target = [a \in Admin |-> NoBackend]
    /\ moveto = [p \in Session |-> NoMove]
    /\ signal = [p \in Session |-> FALSE]
    /\ newCaps = [a \in Admin |-> 0]
    /\ pgResGroup = {1, 2}
    /\ rolResGroup \in [Session -> {1, 2}]
    /\ nextOid = 3
    /\ statements = 0
    /\ breached = FALSE
    /\ orphaned = FALSE

-----------------------------------------------------------------------------
(* Transactions: AssignResGroupOnCoordinator() and UnassignResGroup().      *)

\* decideResGroup(): the group of the role, or default_group when it is not
\* in shared memory.  ResGroupLock is released before the group is used.
DecideResGroup(p) ==
    LET oid == IF GroupHashFind(rolResGroup[p]) # NoEntry
               THEN rolResGroup[p] ELSE DefaultGroup
    IN  /\ info' = [info EXCEPT ![p] = [entry |-> GroupHashFind(oid), oid |-> oid]]
        /\ pc' = [pc EXCEPT ![p] = "acquire"]

\* A transaction starts; shouldBypassQuery() tells whether it is bypassed.
Begin(p) ==
    /\ pc[p] = "idle"
    /\ DecideResGroup(p)
    /\ \E w \in {"slot", "bypass"} : want' = [want EXCEPT ![p] = w]
    /\ UNCHANGED <<shared, self, move, catalog, history>>

\* It decides again.
Decide(p) ==
    /\ pc[p] = "decide"
    /\ DecideResGroup(p)
    /\ UNCHANGED <<shared, want, self, move, catalog, history>>

\* groupIsDropped()
GroupIsDropped(b) == groups[info[b].entry].oid # info[b].oid

\* What a backend does when groupAcquireSlot() returned NULL: a session
\* retries, pg_resgroup_move_query() raises an error.
Retry(b) ==
    /\ pc' = [pc EXCEPT ![b] = IF b \in Session THEN "decide" ELSE "idle"]
    /\ info' = [info EXCEPT ![b] = NoInfo]

\* What a backend does with a slot: a session runs its transaction,
\* pg_resgroup_move_query() gives it away.
Take(b, s) ==
    /\ self' = [self EXCEPT ![b] = s]
    /\ pc' = [pc EXCEPT ![b] = IF b \in Session THEN "run" ELSE "signal"]

\* groupAcquireSlot() finds that the group is gone.
AcquireDropped(b) ==
    /\ pc[b] = "acquire" /\ want[b] = "slot"
    /\ GroupIsDropped(b)
    /\ Retry(b)
    /\ UNCHANGED <<shared, want, self, move, catalog, history>>

\* groupAcquireSlot() gets a slot at once.
AcquireSlot(b) ==
    LET e == info[b].entry
        s == FreeSlot(slots, 1)
    IN  /\ pc[b] = "acquire" /\ want[b] = "slot"
        /\ ~GroupIsDropped(b)
        /\ ~groups[e].lockedForDrop
        /\ groups[e].nRunning < groups[e].concurrency
        /\ groups' = [groups EXCEPT ![e].nRunning = @ + 1]
        /\ slots' = [slots EXCEPT ![s] = e]
        /\ Take(b, s)
        /\ UNCHANGED <<resSlot, want, info, move, catalog, history>>

\* groupAcquireSlot() finds the group locked or full, and queues.
Enqueue(b) ==
    LET e == info[b].entry
    IN  /\ pc[b] = "acquire" /\ want[b] = "slot"
        /\ ~GroupIsDropped(b)
        /\ \/ groups[e].lockedForDrop
           \/ groups[e].nRunning >= groups[e].concurrency
        /\ groups' = [groups EXCEPT ![e].waitProcs = Append(@, b)]
        /\ pc' = [pc EXCEPT ![b] = "wait"]
        /\ UNCHANGED <<slots, resSlot, want, info, self, move, catalog, history>>

\* waitOnGroup() returns: with the slot that was granted, or without one.
Woken(b) ==
    /\ pc[b] = "wait"
    /\ ~ProcIsWaiting(b)
    /\ \/ /\ resSlot[b] # NoSlot
          /\ Take(b, resSlot[b])
          /\ resSlot' = [resSlot EXCEPT ![b] = NoSlot]
          /\ UNCHANGED info
       \/ /\ resSlot[b] = NoSlot
          /\ Retry(b)
          /\ UNCHANGED <<resSlot, self>>
    /\ UNCHANGED <<groups, slots, want, move, catalog, history>>

\* groupWaitCancel() forgets a slot that was granted in the meantime.
CancelWaitLeaks(b) ==
    LET e == info[b].entry
    IN  /\ pc[b] = "wait"
        /\ IF ProcIsWaiting(b)
           THEN /\ groups' = [groups EXCEPT ![e].waitProcs =
                                 SelectSeq(@, LAMBDA q : q # b)]
                /\ UNCHANGED <<slots, resSlot>>
           ELSE /\ resSlot' = [resSlot EXCEPT ![b] = NoSlot]
                /\ UNCHANGED <<groups, slots>>
        /\ pc' = [pc EXCEPT ![b] = "idle"]
        /\ info' = [info EXCEPT ![b] = NoInfo]
        /\ UNCHANGED <<want, self, move, catalog, history>>

\* groupWaitCancel(), after a cancel, a timeout or SIGTERM: the waiter leaves
\* the queue, gives back the slot it was granted in the meantime, or has been
\* woken without one.
CancelWait(b) ==
    LET e == info[b].entry
    IN  /\ pc[b] = "wait"
        /\ \/ /\ ProcIsWaiting(b)
              /\ groups' = [groups EXCEPT ![e].waitProcs =
                               SelectSeq(@, LAMBDA q : q # b)]
              /\ UNCHANGED <<slots, resSlot>>
           \/ /\ ~ProcIsWaiting(b) /\ resSlot[b] # NoSlot
              /\ LET w == ReleaseSlot(e, resSlot[b])
                 IN  Becomes([w EXCEPT !.resSlot[b] = NoSlot])
           \/ /\ ~ProcIsWaiting(b) /\ resSlot[b] = NoSlot
              /\ UNCHANGED shared
        /\ pc' = [pc EXCEPT ![b] = "idle"]
        /\ info' = [info EXCEPT ![b] = NoInfo]
        /\ UNCHANGED <<want, self, move, catalog, history>>

\* groupIncBypassedRef() without its test of lockedForDrop.
IncBypassedRefUnlocked(p) ==
    LET e == info[p].entry
    IN  /\ pc[p] = "acquire" /\ want[p] = "bypass"
        /\ \/ /\ GroupIsDropped(p)
              /\ Retry(p)
              /\ UNCHANGED groups
           \/ /\ ~GroupIsDropped(p)
              /\ groups' = [groups EXCEPT ![e].nRunningBypassed = @ + 1]
              /\ pc' = [pc EXCEPT ![p] = "run"]
              /\ UNCHANGED info
        /\ UNCHANGED <<slots, resSlot, want, self, move, catalog, history>>

\* groupIncBypassedRef(), repeated until the group is neither gone nor locked.
IncBypassedRef(p) ==
    LET e == info[p].entry
    IN  /\ pc[p] = "acquire" /\ want[p] = "bypass"
        /\ \/ /\ GroupIsDropped(p) \/ groups[e].lockedForDrop
              /\ Retry(p)
              /\ UNCHANGED groups
           \/ /\ ~GroupIsDropped(p) /\ ~groups[e].lockedForDrop
              /\ groups' = [groups EXCEPT ![e].nRunningBypassed = @ + 1]
              /\ pc' = [pc EXCEPT ![p] = "run"]
              /\ UNCHANGED info
        /\ UNCHANGED <<slots, resSlot, want, self, move, catalog, history>>

\* The transaction ends, by commit or abort: UnassignResGroup().
Unassign(p) ==
    LET e == info[p].entry
    IN  /\ pc[p] = "run"
        /\ \/ /\ want[p] = "bypass"
              /\ groups' = [groups EXCEPT ![e].nRunningBypassed = @ - 1]
              /\ UNCHANGED <<slots, resSlot>>
           \/ /\ want[p] = "slot"
              /\ Becomes(ReleaseSlot(e, self[p]))
        /\ pc' = [pc EXCEPT ![p] = "idle"]
        /\ want' = [want EXCEPT ![p] = "slot"]
        /\ info' = [info EXCEPT ![p] = NoInfo]
        /\ self' = [self EXCEPT ![p] = NoSlot]
        /\ UNCHANGED <<move, catalog, history>>

\* check_and_unassign_from_resgroup(): the plan shows that the query can be
\* bypassed after all, so that its slot is not needed.
CheckAndUnassign(p) ==
    /\ pc[p] = "run" /\ want[p] = "slot"
    /\ Becomes(ReleaseSlot(info[p].entry, self[p]))
    /\ pc' = [pc EXCEPT ![p] = "decide"]
    /\ want' = [want EXCEPT ![p] = "bypass"]
    /\ info' = [info EXCEPT ![p] = NoInfo]
    /\ self' = [self EXCEPT ![p] = NoSlot]
    /\ UNCHANGED <<move, catalog, history>>

\* The session disconnects and another takes its place.  Its PGPROC starts
\* anew (InitProcess()), and no process has its session id any more.
Exit(p) ==
    /\ pc[p] = "idle"
    /\ moveto' = [moveto EXCEPT ![p] = NoMove]
    /\ signal' = [signal EXCEPT ![p] = FALSE]
    /\ target' = [a \in Admin |-> IF target[a] = p THEN NoBackend ELSE target[a]]
    /\ orphaned' = (orphaned \/ /\ moveto[p].caller # NoBackend
                                /\ moveto[p].slot = NoSlot)
    /\ UNCHANGED <<shared, backend, catalog, breached>>

-----------------------------------------------------------------------------
(* CREATE, ALTER and DROP RESOURCE GROUP, and ALTER ROLE.                   *)

\* CREATE and ALTER lock pg_resgroupcapability exclusively until they end.
CapabilityLocked == \E a \in Admin : pc[a] \in {"create", "alter"}

\* DROP locks it too, in a weaker mode, once it has deleted the group's row.
CapabilityShared == \E a \in Admin : pc[a] \in {"deleted", "dropped"}

\* A statement of admin a starts.
Statement(a) ==
    /\ pc[a] = "idle"
    /\ statements < MaxStatements
    /\ statements' = statements + 1

\* An admin's statement is over.
Done(a) ==
    /\ pc' = [pc EXCEPT ![a] = "idle"]
    /\ info' = [info EXCEPT ![a] = NoInfo]

\* ALTER ROLE ... RESOURCE GROUP
AlterRole(p, oid) ==
    /\ statements < MaxStatements
    /\ statements' = statements + 1
    /\ oid \in pgResGroup \ {rolResGroup[p]}
    /\ rolResGroup' = [rolResGroup EXCEPT ![p] = oid]
    /\ UNCHANGED <<shared, backend, move, newCaps, pgResGroup, nextOid, history>>

\* CREATE RESOURCE GROUP: AllocResGroupEntry() takes a free entry.
CreateGroup(a, c) ==
    LET e == GroupHashFind(InvalidOid)   \* as groupHashNew() looks for it
    IN  /\ Statement(a)
        /\ ~CapabilityLocked /\ ~CapabilityShared
        /\ e # NoEntry /\ nextOid <= MaxOid
        /\ groups' = [groups EXCEPT ![e] =
                         [oid |-> nextOid, lockedForDrop |-> FALSE,
                          nRunning |-> 0, nRunningBypassed |-> 0,
                          concurrency |-> c, waitProcs |-> <<>>]]
        /\ info' = [info EXCEPT ![a] = [entry |-> e, oid |-> nextOid]]
        /\ nextOid' = nextOid + 1
        /\ pc' = [pc EXCEPT ![a] = "create"]
        /\ UNCHANGED <<slots, resSlot, want, self, move, newCaps, pgResGroup,
                       rolResGroup, history>>

\* CREATE commits, or aborts: ResGroupCreateOnAbort().
CreateEnd(a) ==
    /\ pc[a] = "create"
    /\ \/ /\ pgResGroup' = pgResGroup \cup {info[a].oid}
          /\ UNCHANGED groups
       \/ /\ groups' = [groups EXCEPT ![info[a].entry].oid = InvalidOid]
          /\ UNCHANGED pgResGroup
    /\ Done(a)
    /\ UNCHANGED <<slots, resSlot, want, self, move, newCaps, rolResGroup,
                   nextOid, statements, history>>

\* ALTER RESOURCE GROUP ... SET CONCURRENCY
Alter(a, oid, c) ==
    /\ Statement(a)
    /\ oid \in pgResGroup
    /\ ~CapabilityLocked /\ ~CapabilityShared
    /\ newCaps' = [newCaps EXCEPT ![a] = c]
    /\ info' = [info EXCEPT ![a] = [entry |-> GroupHashFind(oid), oid |-> oid]]
    /\ pc' = [pc EXCEPT ![a] = "alter"]
    /\ UNCHANGED <<shared, want, self, move, pgResGroup, rolResGroup, nextOid,
                   history>>

\* The transaction of an ALTER is over, and with it what its callback was given.
AlterDone(a) ==
    /\ Done(a)
    /\ newCaps' = [newCaps EXCEPT ![a] = 0]
    /\ UNCHANGED <<want, self, move, pgResGroup, rolResGroup, nextOid, statements, orphaned>>

\* ResGroupAlterOnCommit() that only sets the new limit.
AlterOnCommitNoWake(a) ==
    LET e == info[a].entry
    IN  /\ pc[a] = "alter"
        /\ groups' = [groups EXCEPT ![e].concurrency = newCaps[a]]
        /\ breached' = (breached \/ groups[e].lockedForDrop)
        /\ AlterDone(a)
        /\ UNCHANGED <<slots, resSlot>>

\* ALTER commits: ResGroupAlterOnCommit().  It does not look at lockedForDrop.
AlterOnCommit(a) ==
    LET e == info[a].entry
    IN  /\ pc[a] = "alter"
        /\ Becomes(GrantSlots([groups EXCEPT ![e].concurrency = newCaps[a]],
                              slots, e))
        /\ breached' = (breached \/ groups[e].lockedForDrop)
        /\ AlterDone(a)

\* ALTER aborts; its callback does nothing then.
AlterAbort(a) ==
    /\ pc[a] = "alter"
    /\ AlterDone(a)
    /\ UNCHANGED <<shared, breached>>

\* The statements that have this group locked for DROP, or believe so.
Dropping(a) == pc[a] \in {"drop", "deleted", "dropped"}

\* DROP RESOURCE GROUP: ResGroupCheckForDrop() locks a group without running
\* transactions, and raises an error for one that has some.
CheckForDrop(a, oid) ==
    LET e == GroupHashFind(oid)
        unused == groups[e].nRunning + groups[e].nRunningBypassed = 0
    IN  /\ Statement(a)
        /\ oid \in pgResGroup \ {DefaultGroup}
        /\ groups' = [groups EXCEPT ![e].lockedForDrop = @ \/ unused]
        /\ pc' = [pc EXCEPT ![a] = IF unused THEN "drop" ELSE "refused"]
        /\ info' = [info EXCEPT ![a] = [entry |-> e, oid |-> oid]]
        /\ UNCHANGED <<slots, resSlot, want, self, move, newCaps, pgResGroup,
                       rolResGroup, nextOid, history>>

\* DropResourceGroup() finds no role in the group and deletes its row, which
\* waits for another DROP, and its capabilities, which waits for an ALTER.
DropDelete(a) ==
    /\ pc[a] = "drop"
    /\ \A p \in Session : rolResGroup[p] # info[a].oid
    /\ info[a].oid \in pgResGroup
    /\ ~CapabilityLocked
    /\ \A b \in Admin : pc[b] \in {"deleted", "dropped"} => info[b].oid # info[a].oid
    /\ pc' = [pc EXCEPT ![a] = "deleted"]
    /\ UNCHANGED <<shared, want, info, self, move, catalog, history>>

\* The transaction of the DROP commits, which others see before the callback.
DropCommit(a) ==
    /\ pc[a] = "deleted"
    /\ pc' = [pc EXCEPT ![a] = "dropped"]
    /\ pgResGroup' = pgResGroup \ {info[a].oid}
    /\ UNCHANGED <<shared, want, info, self, move, newCaps, rolResGroup, nextOid,
                   statements, history>>

\* ResGroupDropFinish() of a DROP that committed: the waiters retry, the group
\* goes.
DropFinish(a) ==
    LET e == info[a].entry
    IN  /\ pc[a] = "dropped"
        /\ Becomes(WakeAll([groups EXCEPT ![e].lockedForDrop = FALSE,
                                          ![e].oid = InvalidOid], e))
        /\ Done(a)
        /\ UNCHANGED <<want, self, move, catalog, history>>

\* ResGroupDropFinish() of a DROP that failed or was cancelled, and also of one
\* that ResGroupCheckForDrop() refused: the waiters retry and the lock goes,
\* whoever holds it.  Nothing happens when the group is no longer there.
DropAbort(a) ==
    LET e == GroupHashFind(info[a].oid)
    IN  /\ pc[a] \in {"drop", "refused", "deleted"}
        /\ \/ /\ e # NoEntry
              /\ Becomes(WakeAll([groups EXCEPT ![e].lockedForDrop = FALSE], e))
           \/ /\ e = NoEntry
              /\ UNCHANGED shared
        /\ breached' = (breached \/ \E b \in Admin \ {a} :
                                       Dropping(b) /\ info[b].oid = info[a].oid)
        /\ Done(a)
        /\ UNCHANGED <<want, self, move, catalog, orphaned>>

-----------------------------------------------------------------------------
(* pg_resgroup_move_query()                                                 *)

\* pg_resgroup_move_query() of a session that holds a slot of another group;
\* the caller then acquires one of the new group.
MoveQuery(a, p, oid) ==
    /\ Statement(a)
    /\ oid \in pgResGroup
    /\ self[p] # NoSlot /\ info[p].oid # oid
    /\ target' = [target EXCEPT ![a] = p]
    /\ info' = [info EXCEPT ![a] = [entry |-> GroupHashFind(oid), oid |-> oid]]
    /\ pc' = [pc EXCEPT ![a] = "acquire"]
    /\ UNCHANGED <<shared, want, self, moveto, signal, newCaps, pgResGroup,
                   rolResGroup, nextOid, history>>

\* The move is over for its caller, which has no slot to give any more.
MoveDone(a) ==
    /\ Done(a)
    /\ self' = [self EXCEPT ![a] = NoSlot]
    /\ target' = [target EXCEPT ![a] = NoBackend]

\* ResGroupMoveSignalTarget(): the slot is offered to the target, unless that
\* is gone or has another caller.
SignalTarget(a) ==
    LET p == target[a]
        ready == p # NoBackend /\ moveto[p].caller = NoBackend
    IN  /\ pc[a] = "signal"
        /\ \/ /\ ready
              /\ moveto' = [moveto EXCEPT ![p] =
                               [slot |-> self[a], oid |-> info[a].oid, caller |-> a]]
              /\ signal' = [signal EXCEPT ![p] = TRUE]
              /\ pc' = [pc EXCEPT ![a] = "give"]
              /\ UNCHANGED <<shared, info, self, target>>
           \/ /\ ~ready
              /\ Becomes(ReleaseSlot(info[a].entry, self[a]))
              /\ MoveDone(a)
              /\ UNCHANGED <<moveto, signal>>
        /\ UNCHANGED <<want, catalog, history>>

\* The target has dealt with the command of admin a, and with its slot.
Handled(a) ==
    LET p == target[a]
    IN  p # NoBackend /\ moveto[p].caller = a /\ moveto[p].oid = InvalidOid

HandedOver(a) == Handled(a) /\ moveto[target[a]].slot = NoSlot

\* resGroupGiveSlotAway(): ResGroupMoveCheckTargetReady() after the target
\* notified the caller, after a timeout or after a cancel.  Unless the target
\* took the slot, the caller gives it back.
CheckTargetReady(a) ==
    LET p == target[a]
    IN  /\ pc[a] = "give"
        /\ moveto' = IF p # NoBackend /\ moveto[p].caller = a
                     THEN [moveto EXCEPT ![p] = NoMove] ELSE moveto
        /\ \/ HandedOver(a) /\ UNCHANGED shared
           \/ ~HandedOver(a) /\ Becomes(ReleaseSlot(info[a].entry, self[a]))
        /\ MoveDone(a)
        /\ UNCHANGED <<want, signal, catalog, history>>

\* The caller is terminated while it waits: FATAL runs no PG_CATCH, and
\* AtProcExit_ResGroup() only knows of waiters.
Terminate(a) ==
    /\ pc[a] = "give"
    /\ pc' = [pc EXCEPT ![a] = "gone"]
    /\ info' = [info EXCEPT ![a] = NoInfo]
    /\ self' = [self EXCEPT ![a] = NoSlot]
    /\ target' = [target EXCEPT ![a] = NoBackend]
    /\ orphaned' = TRUE
    /\ UNCHANGED <<shared, want, moveto, signal, catalog, breached>>

\* HandleMoveResourceGroup() in the target: it takes the slot offered and
\* releases its own, or, when it has none, only says that it was asked.
HandleMove(p) ==
    LET s == moveto[p].slot
        assigned == pc[p] = "run" /\ want[p] = "slot"
    IN  /\ signal[p]
        /\ signal' = [signal EXCEPT ![p] = FALSE]
        /\ \/ /\ ~assigned
              /\ moveto' = [moveto EXCEPT ![p].oid = InvalidOid]
              /\ UNCHANGED <<shared, info, self>>
           \/ /\ assigned
              /\ moveto' = [moveto EXCEPT ![p].oid = InvalidOid, ![p].slot = NoSlot]
              /\ \/ /\ s # NoSlot
                    /\ Becomes(ReleaseSlot(info[p].entry, self[p]))
                    /\ self' = [self EXCEPT ![p] = s]
                    /\ info' = [info EXCEPT ![p] =
                                   [entry |-> slots[s], oid |-> moveto[p].oid]]
                 \/ /\ s = NoSlot
                    /\ UNCHANGED <<shared, info, self>>
        /\ UNCHANGED <<pc, want, target, catalog, history>>

-----------------------------------------------------------------------------
\* What sessions and pg_resgroup_move_query() do to get a slot.
GetSlot(b) ==
    \/ AcquireDropped(b)
    \/ AcquireSlot(b)
    \/ Enqueue(b)
    \/ Woken(b)

SessionStep(p) ==
    \/ Decide(p)
    \/ GetSlot(p)
    \/ IncBypassedRef(p)
    \/ Unassign(p)

\* The statements started end, one way or another.
AdminStep(a) ==
    \/ GetSlot(a)
    \/ SignalTarget(a)
    \/ CheckTargetReady(a)
    \/ CreateEnd(a)
    \/ AlterOnCommit(a)
    \/ AlterAbort(a)
    \/ DropDelete(a)
    \/ DropCommit(a)
    \/ DropFinish(a)
    \/ DropAbort(a)

StartStatement(a) ==
    \/ \E c \in Concurrency : CreateGroup(a, c)
    \/ \E oid \in pgResGroup, c \in Concurrency : Alter(a, oid, c)
    \/ \E oid \in pgResGroup : CheckForDrop(a, oid)
    \/ \E oid \in pgResGroup, p \in Session : MoveQuery(a, p, oid)

\* What happens to a slot that is orphaned is not followed: it is lost, or
\* released a second time while it is in the pool or in use.
Orphaned == orphaned /\ UNCHANGED vars

Next ==
    \/ /\ ~orphaned
       /\ \/ \E p \in Session : \/ Begin(p)
                                \/ SessionStep(p)
                                \/ CheckAndUnassign(p)
                                \/ HandleMove(p)
                                \/ Exit(p)
                                \/ \E oid \in pgResGroup : AlterRole(p, oid)
          \/ \E a \in Admin : StartStatement(a) \/ AdminStep(a) \/ Terminate(a)
          \/ \E b \in Backend : CancelWait(b)
    \/ Orphaned

Spec == Init /\ [][Next]_vars

-----------------------------------------------------------------------------
\* The backends that answer for a slot: it is assigned to them, it was granted
\* to them while they waited, or they have not handed it over yet.
Holders(s) ==
    {b \in Backend : \/ resSlot[b] = s
                     \/ self[b] = s /\ ~(b \in Admin /\ HandedOver(b))}

\* Every slot that is not in the pool has exactly one backend that will release
\* it, no slot in the pool has one, and nRunning, which enforces the concurrency
\* limit, counts the slots of the group: through grants that race cancels,
\* moves that time out or whose target ends before it takes the slot, and groups
\* that come and go (groupWaitCancel(), resGroupGiveSlotAway(),
\* HandleMoveResourceGroup()).  Not so once one side of a move has ended with the
\* other not knowing, or the lock of a DROP was broken.
SlotsAccounted ==
    ~breached /\ ~orphaned =>
        /\ \A s \in Slot : Cardinality(Holders(s)) =
                              IF slots[s] = NoEntry THEN 0 ELSE 1
        /\ \A e \in Entry : groups[e].oid # InvalidOid =>
              groups[e].nRunning = Cardinality({s \in Slot : slots[s] = e})

\* A transaction runs, with a slot or bypassed, in a group that still exists
\* (ResGroupCheckForDrop() against groupAcquireSlot() and groupIncBypassedRef()
\* of backends that decided on the group before), unless another statement
\* unlocked the group or granted slots of it during the DROP.
RunsInItsGroup ==
    ~breached /\ ~orphaned =>
        \A p \in Session : pc[p] = "run" => ~GroupIsDropped(p)

\* The comment on ResGroupCheckForDrop() (resgroup.c:612): "Errors out if
\* there're running transactions, otherwise lock the resource group.  New
\* transactions will be queued if the resource group is locked."  So no
\* transaction ever runs in a group that was dropped.
NoDropInUse ==
    ~orphaned => \A p \in Session : pc[p] = "run" => ~GroupIsDropped(p)

\* No wakeup is lost: nobody waits in a group that is not locked for drop and
\* has a slot to give (wakeupSlots(), whose callers must be all those that free
\* a slot, raise the limit or unlock the group).
NoLostWakeup ==
    \A e \in Entry :
        groups[e].waitProcs # <<>> /\ ~groups[e].lockedForDrop =>
            groups[e].nRunning >= groups[e].concurrency

=============================================================================
