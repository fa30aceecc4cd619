-------------------------------- MODULE DbPool --------------------------------
(***************************************************************************)
(* The pool of database connections, db/sql_db_pool.hpp: a list of unused  *)
(* connections and a list of those in use (db/db_pool_list.hpp), each      *)
(* under a mutex of its own.  A thread runs operations of SqlDBOperation,  *)
(* which take one connection, may call another operation that takes one    *)
(* more, and give both back.                                               *)
(*                                                                         *)
(* The order of a list makes no difference to anything below, so both are  *)
(* sets.  The locks are taken one by one; where a method releases both,    *)
(* nothing happens between the two releases.                               *)
(***************************************************************************)
EXTENDS Integers, FiniteSets

CONSTANTS
  Thread, Conn,
  NoOne,                          \* the holder of a mutex that is free
  MAX_CONN, MAX_IDLE, MIN_IDLE,   \* as DBInfo leaves them
  Stranger,                       \* a pointer that is no connection of the pool
  Nesting,                        \* connections one operation holds at a time
  ConnectFails                    \* the server may refuse a connection

ASSUME DBInfoAssumption ==
  /\ MAX_CONN \in Nat \ {0} /\ MIN_IDLE \in Nat \ {0}
  /\ MAX_IDLE \in Nat /\ MAX_IDLE >= MIN_IDLE

ASSUME PoolAssumption ==
  /\ IsFiniteSet(Conn) /\ Cardinality(Conn) >= MAX_CONN + MAX_IDLE
  /\ NoOne \notin Thread /\ Stranger \notin Conn
  /\ Nesting \in Nat /\ ConnectFails \in BOOLEAN

VARIABLES
  unused_pool, used_pool,    \* the two lists
  unused_lock, used_lock,    \* who holds them
  pc, held,                  \* of a thread: where it is, its connections
  add_numbers,               \* of a thread in add_connection: still to add
  connection                 \* of a thread in recycle_connection: the argument

pools   == <<unused_pool, used_pool>>
locks   == <<unused_lock, used_lock>>
locals  == <<add_numbers, connection>>
vars == <<pools, locks, pc, locals, held>>

GetLabel == {"get", "get_used", "get_both", "count", "add", "connect"}
PutLabel == {"put", "put_unused", "put_both"}
Label == GetLabel \cup PutLabel \cup {"out", "exited"}

TypeOK ==
  /\ unused_pool \subseteq Conn /\ used_pool \subseteq Conn
  /\ unused_lock \in Thread \cup {NoOne} /\ used_lock \in Thread \cup {NoOne}
  /\ pc \in [Thread -> Label]
  /\ held \in [Thread -> SUBSET Conn]
  /\ add_numbers \in [Thread -> Int]
  /\ connection \in [Thread -> Conn \cup {Stranger}]

\* The constructor: add_connection(MIN_IDLE).
Init ==
  /\ unused_pool \in SUBSET Conn /\ Cardinality(unused_pool) = MIN_IDLE
  /\ used_pool = {}
  /\ unused_lock = NoOne /\ used_lock = NoOne
  /\ pc = [t \in Thread |-> "out"]
  /\ held = [t \in Thread |-> {}]
  /\ add_numbers = [t \in Thread |-> 0]
  /\ connection = [t \in Thread |-> Stranger]

Goto(t, label) == pc' = [pc EXCEPT ![t] = label]

ReleaseBoth == unused_lock' = NoOne /\ used_lock' = NoOne

-----------------------------------------------------------------------------
(* get_connection: unused_lock first, then used_lock.                      *)

CallGet(t) ==
  /\ pc[t] = "out"
  /\ Cardinality(held[t]) < Nesting
  /\ Goto(t, "get")
  /\ UNCHANGED <<pools, locks, held, locals>>

GetLockUnused(t) ==
  /\ pc[t] = "get"
  /\ unused_lock = NoOne
  /\ unused_lock' = t
  /\ Goto(t, "get_used")
  /\ UNCHANGED <<pools, used_lock, held, locals>>

GetLockUsed(t) ==
  /\ pc[t] = "get_used"
  /\ used_lock = NoOne
  /\ used_lock' = t
  /\ Goto(t, "get_both")
  /\ UNCHANGED <<pools, unused_lock, held, locals>>

AllInUse == Cardinality(used_pool) = MAX_CONN

\* Mutant: the test is for fewer than MIN_IDLE unused connections.
FewerUnused == Cardinality(unused_pool) < MIN_IDLE

FewUnused == Cardinality(unused_pool) <= MIN_IDLE

\* sleep(SLEEP); goto again
GetSleeps(t) ==
  /\ pc[t] = "get_both"
  /\ AllInUse
  /\ ReleaseBoth
  /\ Goto(t, "get")
  /\ UNCHANGED <<pools, held, locals>>

GetNeedsMore(t) ==
  /\ pc[t] = "get_both"
  /\ ~AllInUse /\ FewUnused
  /\ ReleaseBoth
  /\ Goto(t, "count")
  /\ UNCHANGED <<pools, held, locals>>

GetReturns(t) ==
  /\ pc[t] = "get_both"
  /\ ~AllInUse /\ ~FewUnused
  /\ \E c \in unused_pool :
       /\ unused_pool' = unused_pool \ {c}
       /\ used_pool' = used_pool \cup {c}
       /\ held' = [held EXCEPT ![t] = @ \cup {c}]
  /\ ReleaseBoth
  /\ Goto(t, "out")
  /\ UNCHANGED locals

-----------------------------------------------------------------------------
(* add_connection, called with a count taken after both locks were given   *)
(* up: other threads may have changed the list since.                      *)

CountUnused(t) ==
  /\ pc[t] = "count"
  /\ add_numbers' = [add_numbers EXCEPT ![t] = MIN_IDLE - Cardinality(unused_pool) + 1]
  /\ Goto(t, "add")
  /\ UNCHANGED <<pools, locks, held, connection>>

\* The count add_connection limits itself to.
AddLimited(n) ==
  IF Cardinality(unused_pool) + n > MAX_IDLE
  THEN MAX_IDLE - Cardinality(unused_pool) ELSE n

AddLockUnused(t) ==
  /\ pc[t] = "add"
  /\ unused_lock = NoOne
  /\ unused_lock' = t
  /\ add_numbers' = [add_numbers EXCEPT ![t] = AddLimited(@)]
  /\ Goto(t, "connect")
  /\ UNCHANGED <<pools, used_lock, held, connection>>

Connect(t) ==
  /\ pc[t] = "connect"
  /\ add_numbers[t] > 0
  /\ \E c \in Conn \ (unused_pool \cup used_pool) :
       unused_pool' = unused_pool \cup {c}
  /\ add_numbers' = [add_numbers EXCEPT ![t] = @ - 1]
  /\ UNCHANGED <<used_pool, locks, pc, held, connection>>

\* exit(1): the whole process ends.
ConnectionRefused(t) ==
  /\ pc[t] = "connect"
  /\ add_numbers[t] > 0
  /\ ConnectFails
  /\ unused_lock' = NoOne
  /\ pc' = [u \in Thread |-> "exited"]
  /\ UNCHANGED <<pools, used_lock, held, locals>>

\* goto again
AddEnds(t) ==
  /\ pc[t] = "connect"
  /\ add_numbers[t] <= 0
  /\ unused_lock' = NoOne
  /\ Goto(t, "get")
  /\ UNCHANGED <<pools, used_lock, held, locals>>

-----------------------------------------------------------------------------
(* recycle_connection: used_lock first, then unused_lock.                  *)

\* With a connection the thread holds, or (test/sql_db_pool.cc:36) with a
\* pointer that is no connection of the pool.
CallRecycle(t) ==
  /\ pc[t] = "out"
  /\ \E c \in IF held[t] = {} THEN {Stranger} ELSE held[t] :
       /\ connection' = [connection EXCEPT ![t] = c]
       /\ held' = [held EXCEPT ![t] = @ \ {c}]
  /\ Goto(t, "put")
  /\ UNCHANGED <<pools, locks, add_numbers>>

PutLockUsed(t) ==
  /\ pc[t] = "put"
  /\ used_lock = NoOne
  /\ used_lock' = t
  /\ Goto(t, "put_unused")
  /\ UNCHANGED <<pools, unused_lock, held, locals>>

\* Mutant: the early return forgets the lock.
PutNothingNoUnlock(t) ==
  /\ pc[t] = "put_unused"
  /\ connection[t] \notin used_pool
  /\ Goto(t, "out")
  /\ UNCHANGED <<pools, locks, held, locals>>

PutNothing(t) ==
  /\ pc[t] = "put_unused"
  /\ connection[t] \notin used_pool
  /\ used_lock' = NoOne
  /\ Goto(t, "out")
  /\ UNCHANGED <<pools, unused_lock, held, locals>>

PutLockUnused(t) ==
  /\ pc[t] = "put_unused"
  /\ connection[t] \in used_pool
  /\ unused_lock = NoOne
  /\ unused_lock' = t
  /\ Goto(t, "put_both")
  /\ UNCHANGED <<pools, used_lock, held, locals>>

\* The node is deleted; nobody closes its connection.
PutDeletes(t) ==
  /\ pc[t] = "put_both"
  /\ Cardinality(unused_pool) = MAX_IDLE
  /\ used_pool' = used_pool \ {connection[t]}
  /\ ReleaseBoth
  /\ Goto(t, "out")
  /\ UNCHANGED <<unused_pool, held, locals>>

PutReturns(t) ==
  /\ pc[t] = "put_both"
  /\ Cardinality(unused_pool) # MAX_IDLE
  /\ used_pool' = used_pool \ {connection[t]}
  /\ unused_pool' = unused_pool \cup {connection[t]}
  /\ ReleaseBoth
  /\ Goto(t, "out")
  /\ UNCHANGED <<held, locals>>

-----------------------------------------------------------------------------
GetConnection(t) ==
  \/ GetLockUnused(t) \/ GetLockUsed(t)
  \/ GetSleeps(t) \/ GetNeedsMore(t) \/ GetReturns(t)
  \/ CountUnused(t) \/ AddLockUnused(t) \/ Connect(t) \/ ConnectionRefused(t)
  \/ AddEnds(t)

RecycleConnection(t) ==
  \/ PutLockUsed(t) \/ PutNothing(t) \/ PutLockUnused(t)
  \/ PutDeletes(t) \/ PutReturns(t)

PoolStep(t) == GetConnection(t) \/ RecycleConnection(t)

Step(t) == CallGet(t) \/ CallRecycle(t) \/ PoolStep(t)

Next == \E t \in Thread : Step(t)

Spec == Init /\ [][Next]_vars

\* A thread inside the pool goes on and a mutex comes to every thread that
\* waits for it; a thread gives back every connection it holds at last, if it
\* does not ask for more.  Nothing bounds how often a thread asks.
FairSpec ==
  /\ Spec
  /\ \A t \in Thread : SF_vars(PoolStep(t))
  /\ \A t \in Thread : WF_vars(CallRecycle(t) /\ held[t] # {})

-----------------------------------------------------------------------------
\* A thread holds a mutex exactly between the lock and the unlock, unless the
\* process has ended.
LocksMatch ==
  \A t \in Thread :
    /\ pc[t] \in {"get_used", "get_both", "connect", "put_both"} => unused_lock = t
    /\ pc[t] \in {"get_both", "put_unused", "put_both"} => used_lock = t

\* A connection is with one thread at a time, whatever the threads call at
\* the same time, and what is in a thread's hands is neither offered to
\* another one nor forgotten by the list of the connections in use
\* (sql_db_pool.hpp:88, 99).
ConnectionsAreExclusive ==
  /\ unused_pool \cap used_pool = {}
  /\ \A t \in Thread : held[t] \subseteq used_pool
  /\ \A t, u \in Thread : t # u => held[t] \cap held[u] = {}

\* No list outgrows its limit although the counts are taken before the lock
\* (sql_db_pool.hpp:83-85), and MIN_IDLE connections always stay in reserve.
PoolWithinLimits ==
  /\ Cardinality(used_pool) <= MAX_CONN
  /\ Cardinality(unused_pool) \in MIN_IDLE .. MAX_IDLE

\* What a thread inside one of the methods knows of the lists.
StepsKnow ==
  \A t \in Thread :
    /\ pc[t] = "connect" =>
         Cardinality(unused_pool) + add_numbers[t] <= MAX_IDLE
    /\ pc[t] = "put_both" => connection[t] \in used_pool
    /\ pc[t] \in PutLabel =>
         \A u \in Thread :
           /\ connection[t] \notin held[u]
           /\ u # t /\ pc[u] \in PutLabel /\ connection[t] # Stranger =>
                connection[u] # connection[t]
    /\ pc[t] \in PutLabel => connection[t] \in used_pool \cup {Stranger}

\* The inductive invariant of DbPoolProofs.
PoolInv ==
  TypeOK /\ LocksMatch /\ ConnectionsAreExclusive /\ PoolWithinLimits /\ StepsKnow

\* One thread is in get_connection and holds unused_lock, another one in
\* recycle_connection holds used_lock, and each waits for the other's.
Crossed ==
  \E t, u \in Thread :
    /\ pc[t] = "get_used"
    /\ pc[u] = "put_unused" /\ connection[u] \in used_pool

\* A call of get_connection that never returns is overtaken again and again:
\* the connections it adds are handed to other threads before it comes back to
\* the top (sql_db_pool.hpp:85-87), since the locks are given up in between.  It
\* is never held up by a retry that gets nobody a connection, nor by a lock or a
\* connection that was not given back - unless two threads are Crossed or the
\* process ended.  This is for MAX_IDLE > MIN_IDLE and operations that do not
\* hold all of the MAX_CONN connections they wait for themselves.
GetReturnsOrIsOvertaken ==
  \A t \in Thread :
    \/ pc[t] \in GetLabel ~> pc[t] \notin GetLabel \/ Crossed
    \/ []<><<\E u \in Thread \ {t} : GetReturns(u)>>_vars

\* Two threads never wait for each other ("to make thread-safety",
\* interface/db_pool.h:32).
NeverCrossed == ~Crossed
=============================================================================
