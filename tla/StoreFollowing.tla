--------------------------- MODULE StoreFollowing ---------------------------
(***************************************************************************)
(* Following stores, and the projection of the public follower counts.     *)
(*                                                                         *)
(* A relation and an identity's status each have a revision, and each      *)
(* change stores an event in its transaction.  The consumer receives the   *)
(* events in any order.  Its handlers exclude each other per identity and  *)
(* exclude the rebuild, but a buyer's write takes no lock of the identity: *)
(* it may come between what the handler of a status reads and writes.      *)
(***************************************************************************)
EXTENDS Integers, Sequences, FiniteSets, SequencesExt

CONSTANTS
  Identities,
  Stores,
  FollowLogBound   \* bound on the number of events

ASSUME FollowingAssumption == FollowLogBound \in Nat

VARIABLES
  identity,        \* rows of identity_identities
  follow,          \* rows of discovery_store_follows, by identity and store
  followLog,       \* their events, oldest first
  counts,          \* the tables of the projection
  statusRead,      \* what the open handler of an identity's status read
  counted          \* times of the events whose delivery is done

followingVars == <<identity, follow, followLog, counts, statusRead, counted>>
-----------------------------------------------------------------------------
Status == {"NONE", "ACTIVE", "INACTIVE"}
Versioned == [status : Status, version : Nat]
None == [status |-> "NONE", version |-> 0]
At(status, version) == [status |-> status, version |-> version]

StatusEvent(i, row) ==
  [subject |-> "IDENTITY", identity |-> i, store |-> "", row |-> row]
FollowEvent(i, s, row) ==
  [subject |-> "FOLLOW", identity |-> i, store |-> s, row |-> row]

NoCounts == [identity |-> [i \in Identities |-> None],
             relation |-> [i \in Identities |-> [s \in Stores |-> None]],
             count |-> [s \in Stores |-> 0]]
NoRead == [time |-> 0, row |-> None]

FollowTimes == DOMAIN followLog

FollowingTypeOK ==
  /\ identity \in [Identities -> Versioned]
  /\ follow \in [Identities -> [Stores -> Versioned]]
  /\ counts.identity \in [Identities -> Versioned]
  /\ counts.relation \in [Identities -> [Stores -> Versioned]]
  /\ counts.count \in [Stores -> Nat]
  /\ statusRead \in [Identities -> [time : {0} \cup FollowTimes, row : Versioned]]
  /\ counted \subseteq FollowTimes

FollowingInit ==
  /\ identity = [i \in Identities |-> At("ACTIVE", 0)]
  /\ follow = [i \in Identities |-> [s \in Stores |-> None]]
  /\ followLog = <<>>
  /\ counts = NoCounts
  /\ statusRead = [i \in Identities |-> NoRead]
  /\ counted = {}

Logged(event) ==
  /\ Len(followLog) < FollowLogBound
  /\ followLog' = Append(followLog, event)
-----------------------------------------------------------------------------
(***************************************************************************)
(* The producers.                                                          *)
(***************************************************************************)
\* A trigger raises the version and stores the event.  There are several
\* statuses that count as inactive.
ChangeStatus(i, status) ==
  LET row == At(status, identity[i].version + 1)
  IN /\ status = "ACTIVE" => identity[i].status # "ACTIVE"
     /\ identity' = [identity EXCEPT ![i] = row]
     /\ Logged(StatusEvent(i, row))
     /\ UNCHANGED <<follow, counts, statusRead, counted>>

\* A write that changes nothing, or names another revision, leaves no trace.
Write(i, s, status) ==
  LET row == At(status, follow[i][s].version + 1)
  IN /\ follow[i][s].status # status
     /\ status = "INACTIVE" => follow[i][s] # None
     /\ follow' = [follow EXCEPT ![i][s] = row]
     /\ counts' = [counts EXCEPT !.identity[i] = IF @ = None THEN At("ACTIVE", 0) ELSE @]
     /\ Logged(FollowEvent(i, s, row))
     /\ UNCHANGED <<identity, statusRead, counted>>
-----------------------------------------------------------------------------
(***************************************************************************)
(* The handlers: what an event makes of the tables c.                      *)
(***************************************************************************)
Counts(active) == IF active THEN 1 ELSE 0

\* "seen" is the identity's row as the handler read it.
ProjectStatus(c, e, seen) ==
  LET i == e.identity
      delta == Counts(e.row.status = "ACTIVE") - Counts(seen.status = "ACTIVE")
      follows(s) == c.relation[i][s].status = "ACTIVE"
  IN IF seen # None /\ seen.version >= e.row.version
     THEN c
     ELSE [c EXCEPT !.identity[i] = e.row,
                    !.count = [s \in Stores |->
                                 IF follows(s) THEN @[s] + delta ELSE @[s]]]

\* Mutant: the identity's status is not looked at.
CountEveryFollow(c, e) ==
  LET before == c.relation[e.identity][e.store]
  IN IF before # None /\ before.version >= e.row.version
     THEN c
     ELSE [c EXCEPT !.relation[e.identity][e.store] = e.row,
                    !.count[e.store] = @ + Counts(e.row.status = "ACTIVE")
                                         - Counts(before.status = "ACTIVE")]

ProjectFollow(c, e) ==
  LET i == e.identity
      s == e.store
      before == c.relation[i][s]
      contribution(row) ==
        Counts(row.status = "ACTIVE" /\ c.identity[i].status = "ACTIVE")
  IN IF before # None /\ before.version >= e.row.version
     THEN c
     ELSE [c EXCEPT !.relation[i][s] = e.row,
                    !.count[s] = @ + contribution(e.row) - contribution(before)]

\* A handler that would make a count negative throws, and its event waits.
Countable(c) == \A s \in Stores : c.count[s] >= 0
-----------------------------------------------------------------------------
Uncounted == FollowTimes \ counted

ReadStatus(t) ==
  LET i == followLog[t].identity
  IN /\ t \in Uncounted
     /\ followLog[t].subject = "IDENTITY"
     /\ statusRead[i] = NoRead
     /\ statusRead' = [statusRead EXCEPT ![i] = [time |-> t, row |-> counts.identity[i]]]
     /\ UNCHANGED <<identity, follow, followLog, counts, counted>>

CountStatus(i) ==
  LET read == statusRead[i]
      projected == ProjectStatus(counts, followLog[read.time], read.row)
  IN /\ read # NoRead
     /\ Countable(projected)
     /\ counts' = projected
     /\ counted' = counted \cup {read.time}
     /\ statusRead' = [statusRead EXCEPT ![i] = NoRead]
     /\ UNCHANGED <<identity, follow, followLog>>

CountFollow(t) ==
  LET projected == ProjectFollow(counts, followLog[t])
  IN /\ t \in Uncounted
     /\ followLog[t].subject = "FOLLOW"
     /\ statusRead[followLog[t].identity] = NoRead
     /\ Countable(projected)
     /\ counts' = projected
     /\ counted' = counted \cup {t}
     /\ UNCHANGED <<identity, follow, followLog, statusRead>>

\* A worker dies, or its transaction is rolled back.
AbandonStatus(i) ==
  /\ statusRead[i] # NoRead
  /\ statusRead' = [statusRead EXCEPT ![i] = NoRead]
  /\ UNCHANGED <<identity, follow, followLog, counts, counted>>

\* The empty tables a rebuild begins with, in which whoever has a relation is active,
Seeded == [NoCounts EXCEPT !.identity =
             [i \in Identities |-> IF \E s \in Stores : follow[i][s] # None
                                   THEN At("ACTIVE", 0) ELSE None]]

\* and what an event of the archive makes of them.
Replay(c, e) == IF e.subject = "IDENTITY"
                THEN ProjectStatus(c, e, c.identity[e.identity])
                ELSE ProjectFollow(c, e)

\* The archive is replayed oldest first.  Deliveries that were begun come once more.
RebuildCounts ==
  LET rebuilt == FoldLeft(Replay, Seeded, followLog)
  IN /\ \A i \in Identities : statusRead[i] = NoRead
     /\ Countable(rebuilt)
     /\ counts' = rebuilt
     /\ \E begun \in SUBSET Uncounted : counted' = FollowTimes \ begun
     /\ UNCHANGED <<identity, follow, followLog, statusRead>>

FollowingNext ==
  \/ \E i \in Identities, status \in {"ACTIVE", "INACTIVE"} :
       \/ ChangeStatus(i, status)
       \/ \E s \in Stores : Write(i, s, status)
  \/ \E t \in FollowTimes : ReadStatus(t) \/ CountFollow(t)
  \/ \E i \in Identities : CountStatus(i) \/ AbandonStatus(i)
  \/ RebuildCounts
-----------------------------------------------------------------------------
(***************************************************************************)
(* Properties.                                                             *)
(***************************************************************************)
\* A public count is always the number of followers in the projection, so that
\* no handler finds it too small to subtract from; and once every event is
\* counted, in whatever order, whatever was rebuilt in between, it is the number
\* of active identities whose relation with the store is active.
CountsAgree ==
  \A s \in Stores :
    /\ counts.count[s] = Cardinality({i \in Identities :
         counts.relation[i][s].status = "ACTIVE" /\ counts.identity[i].status = "ACTIVE"})
    /\ counted = FollowTimes =>
         counts.count[s] = Cardinality({i \in Identities :
           follow[i][s].status = "ACTIVE" /\ identity[i].status = "ACTIVE"})
=============================================================================
