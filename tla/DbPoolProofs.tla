----------------------------- MODULE DbPoolProofs -----------------------------
(***************************************************************************)
(* The connection pool of DbPool keeps its promises for every number of    *)
(* threads and every limit that DBInfo lets through: the invariant PoolInv *)
(* is inductive.  The two limits follow from the tests that are made under *)
(* both locks and, for the connections that are added, from the limit that *)
(* add_connection sets itself under unused_lock; exclusive use follows     *)
(* from what recycle_connection knows of its argument (StepsKnow) and from *)
(* who holds used_lock (LocksMatch).                                       *)
(***************************************************************************)
EXTENDS DbPool, FiniteSetTheorems, TLAPS

LEMMA ListsAreFinite ==
  ASSUME TypeOK
  PROVE  /\ IsFiniteSet(unused_pool) /\ Cardinality(unused_pool) \in Nat
         /\ IsFiniteSet(used_pool) /\ Cardinality(used_pool) \in Nat
  BY PoolAssumption, FS_Subset, FS_CardinalityType DEF TypeOK

LEMMA OneMore ==
  ASSUME NEW S, IsFiniteSet(S), NEW c, c \notin S
  PROVE  Cardinality(S \cup {c}) = Cardinality(S) + 1
  BY FS_AddElement

LEMMA OneLess ==
  ASSUME NEW S, IsFiniteSet(S), NEW c \in S
  PROVE  Cardinality(S \ {c}) = Cardinality(S) - 1
  BY FS_RemoveElement

\* The pool as the constructor leaves it.
LEMMA InitPool == Init => PoolInv
<1> SUFFICES ASSUME Init PROVE PoolInv
  OBVIOUS
<1>1. TypeOK
  BY PoolAssumption, DBInfoAssumption DEF Init, TypeOK, Label
<1>2. PoolWithinLimits
  BY DBInfoAssumption, FS_EmptySet DEF Init, PoolWithinLimits
<1>3. LocksMatch /\ ConnectionsAreExclusive /\ StepsKnow
  BY DEF Init, LocksMatch, ConnectionsAreExclusive, StepsKnow, PutLabel
<1> QED
  BY <1>1, <1>2, <1>3 DEF PoolInv

\* Every variable keeps its type.
LEMMA TypeOKKept ==
  ASSUME PoolInv, NEW t \in Thread, Step(t)
  PROVE  TypeOK'
<1> USE DEF PoolInv, GetLabel, PutLabel, Label, Goto, ReleaseBoth
<1>0. /\ IsFiniteSet(unused_pool) /\ Cardinality(unused_pool) \in Nat
      /\ IsFiniteSet(used_pool) /\ Cardinality(used_pool) \in Nat
  BY ListsAreFinite
<1>1. CASE CallGet(t) \/ CallRecycle(t)
  BY <1>1, DBInfoAssumption, PoolAssumption, <1>0 DEF TypeOK, StepsKnow,
     AddLimited, pools, locks, locals, CallGet, CallRecycle
<1>2. CASE GetLockUnused(t) \/ GetLockUsed(t) \/ GetSleeps(t) \/
   GetNeedsMore(t) \/ GetReturns(t)
  BY <1>2, DBInfoAssumption, PoolAssumption, <1>0 DEF TypeOK, StepsKnow,
     AddLimited, pools, locks, locals, GetLockUnused, GetLockUsed,
     GetSleeps, GetNeedsMore, GetReturns
<1>3. CASE CountUnused(t) \/ AddLockUnused(t) \/ Connect(t) \/
   ConnectionRefused(t) \/ AddEnds(t)
  BY <1>3, DBInfoAssumption, PoolAssumption, <1>0 DEF TypeOK, StepsKnow,
     AddLimited, pools, locks, locals, CountUnused, AddLockUnused,
     Connect, ConnectionRefused, AddEnds
<1>4. CASE PutLockUsed(t) \/ PutNothing(t) \/ PutLockUnused(t) \/
   PutDeletes(t) \/ PutReturns(t)
  BY <1>4, DBInfoAssumption, PoolAssumption, <1>0 DEF TypeOK, StepsKnow,
     AddLimited, pools, locks, locals, PutLockUsed, PutNothing,
     PutLockUnused, PutDeletes, PutReturns
<1> QED
  BY <1>1, <1>2, <1>3, <1>4 DEF Step, PoolStep, GetConnection,
     RecycleConnection

\* Each lock stays with the thread that is between its lock and its unlock.
LEMMA LocksMatchKept ==
  ASSUME PoolInv, NEW t \in Thread, Step(t)
  PROVE  LocksMatch'
<1> USE DEF PoolInv, GetLabel, PutLabel, Label, Goto, ReleaseBoth
<1>1. CASE CallGet(t) \/ CallRecycle(t)
  BY <1>1, PoolAssumption DEF TypeOK, LocksMatch, pools, locks, locals,
     CallGet, CallRecycle
<1>2. CASE GetLockUnused(t) \/ GetLockUsed(t) \/ GetSleeps(t) \/
   GetNeedsMore(t) \/ GetReturns(t)
  BY <1>2, PoolAssumption DEF TypeOK, LocksMatch, pools, locks, locals,
     GetLockUnused, GetLockUsed, GetSleeps, GetNeedsMore, GetReturns
<1>3. CASE CountUnused(t) \/ AddLockUnused(t) \/ Connect(t) \/
   ConnectionRefused(t) \/ AddEnds(t)
  BY <1>3, PoolAssumption DEF TypeOK, LocksMatch, pools, locks, locals,
     CountUnused, AddLockUnused, Connect, ConnectionRefused, AddEnds
<1>4. CASE PutLockUsed(t) \/ PutNothing(t) \/ PutLockUnused(t) \/
   PutDeletes(t) \/ PutReturns(t)
  BY <1>4, PoolAssumption DEF TypeOK, LocksMatch, pools, locks, locals,
     PutLockUsed, PutNothing, PutLockUnused, PutDeletes, PutReturns
<1> QED
  BY <1>1, <1>2, <1>3, <1>4 DEF Step, PoolStep, GetConnection,
     RecycleConnection

\* A connection moves from one list to the other, and from the list into one hand.
LEMMA ConnectionsAreExclusiveKept ==
  ASSUME PoolInv, NEW t \in Thread, Step(t)
  PROVE  ConnectionsAreExclusive'
<1> USE DEF PoolInv, GetLabel, PutLabel, Label, Goto, ReleaseBoth
<1>1. CASE CallGet(t) \/ CallRecycle(t)
  BY <1>1 DEF TypeOK, ConnectionsAreExclusive, StepsKnow, pools, locks,
     locals, CallGet, CallRecycle
<1>2. CASE GetLockUnused(t) \/ GetLockUsed(t) \/ GetSleeps(t) \/
   GetNeedsMore(t) \/ GetReturns(t)
  BY <1>2 DEF TypeOK, ConnectionsAreExclusive, StepsKnow, pools, locks,
     locals, GetLockUnused, GetLockUsed, GetSleeps, GetNeedsMore,
     GetReturns
<1>3. CASE CountUnused(t) \/ AddLockUnused(t) \/ Connect(t) \/
   ConnectionRefused(t) \/ AddEnds(t)
  BY <1>3 DEF TypeOK, ConnectionsAreExclusive, StepsKnow, pools, locks,
     locals, CountUnused, AddLockUnused, Connect, ConnectionRefused,
     AddEnds
<1>4. CASE PutLockUsed(t) \/ PutNothing(t) \/ PutLockUnused(t) \/
   PutDeletes(t) \/ PutReturns(t)
  BY <1>4 DEF TypeOK, ConnectionsAreExclusive, StepsKnow, pools, locks,
     locals, PutLockUsed, PutNothing, PutLockUnused, PutDeletes,
     PutReturns
<1> QED
  BY <1>1, <1>2, <1>3, <1>4 DEF Step, PoolStep, GetConnection,
     RecycleConnection

\* Neither list leaves its limits.
LEMMA PoolWithinLimitsKept ==
  ASSUME PoolInv, NEW t \in Thread, Step(t)
  PROVE  PoolWithinLimits'
<1> USE DEF PoolInv, GetLabel, PutLabel, Label, Goto, ReleaseBoth
<1>0. /\ IsFiniteSet(unused_pool) /\ Cardinality(unused_pool) \in Nat
      /\ IsFiniteSet(used_pool) /\ Cardinality(used_pool) \in Nat
  BY ListsAreFinite
<1>1. CASE CallGet(t) \/ CallRecycle(t) \/ GetLockUnused(t) \/ GetLockUsed(t)
   \/ GetSleeps(t) \/ GetNeedsMore(t) \/ CountUnused(t) \/ AddLockUnused(t) \/
   ConnectionRefused(t) \/ AddEnds(t) \/ PutLockUsed(t) \/ PutNothing(t) \/
   PutLockUnused(t)
  BY <1>1, <1>0 DEF PoolWithinLimits, pools, locks, locals, CallGet,
     CallRecycle, GetLockUnused, GetLockUsed, GetSleeps, GetNeedsMore,
     CountUnused, AddLockUnused, ConnectionRefused, AddEnds, PutLockUsed,
     PutNothing, PutLockUnused
<1>2. CASE GetReturns(t)
  <2>1. PICK c \in unused_pool :
          /\ unused_pool' = unused_pool \ {c}
          /\ used_pool' = used_pool \cup {c}
    BY <1>2 DEF GetReturns
  <2>2. Cardinality(unused_pool') = Cardinality(unused_pool) - 1
    BY <1>0, <2>1, OneLess
  <2>3. c \notin used_pool
    BY DEF ConnectionsAreExclusive
  <2>4. Cardinality(used_pool') = Cardinality(used_pool) + 1
    BY <1>0, <2>1, <2>3, OneMore
  <2> QED
    BY <1>0, <1>2, <2>2, <2>4, DBInfoAssumption
       DEF GetReturns, AllInUse, FewUnused, PoolWithinLimits
<1>3. CASE Connect(t)
  <2>1. PICK c \in Conn \ (unused_pool \cup used_pool) :
          unused_pool' = unused_pool \cup {c}
    BY <1>3 DEF Connect
  <2>2. Cardinality(unused_pool') = Cardinality(unused_pool) + 1
    BY <1>0, <2>1, OneMore
  <2> QED
    BY <1>0, <1>3, <2>2, DBInfoAssumption
       DEF Connect, PoolWithinLimits, StepsKnow, TypeOK
<1>4. CASE PutDeletes(t)
  <2>1. connection[t] \in used_pool
    BY <1>4 DEF PutDeletes, StepsKnow
  <2>2. Cardinality(used_pool') = Cardinality(used_pool) - 1
    BY <1>0, <1>4, <2>1, OneLess DEF PutDeletes
  <2> QED
    BY <1>0, <1>4, <2>2, DBInfoAssumption DEF PutDeletes, PoolWithinLimits
<1>5. CASE PutReturns(t)
  <2>1. connection[t] \in used_pool
    BY <1>5 DEF PutReturns, StepsKnow
  <2>2. Cardinality(used_pool') = Cardinality(used_pool) - 1
    BY <1>0, <1>5, <2>1, OneLess DEF PutReturns
  <2>3. connection[t] \notin unused_pool
    BY <2>1 DEF ConnectionsAreExclusive
  <2>4. Cardinality(unused_pool') = Cardinality(unused_pool) + 1
    BY <1>0, <1>5, <2>3, OneMore DEF PutReturns
  <2> QED
    BY <1>0, <1>5, <2>2, <2>4, DBInfoAssumption DEF PutReturns, PoolWithinLimits
<1> QED
  BY <1>1, <1>2, <1>3, <1>4, <1>5 DEF Step, PoolStep, GetConnection,
     RecycleConnection

\* What one thread knows of the lists is not spoilt by another one's steps.
LEMMA StepsKnowKept ==
  ASSUME PoolInv, NEW t \in Thread, Step(t)
  PROVE  StepsKnow'
<1> USE DEF PoolInv, GetLabel, PutLabel, Label, Goto, ReleaseBoth
<1>0. /\ IsFiniteSet(unused_pool) /\ Cardinality(unused_pool) \in Nat
      /\ IsFiniteSet(used_pool) /\ Cardinality(used_pool) \in Nat
  BY ListsAreFinite
<1>1. CASE CallGet(t) \/ CallRecycle(t)
  BY <1>1, <1>0, DBInfoAssumption, PoolAssumption DEF TypeOK, LocksMatch,
     ConnectionsAreExclusive, StepsKnow, AddLimited, pools, locks, locals,
     CallGet, CallRecycle
<1>2. CASE GetLockUnused(t) \/ GetLockUsed(t) \/ GetSleeps(t) \/
   GetNeedsMore(t)
  BY <1>2, <1>0, DBInfoAssumption, PoolAssumption DEF TypeOK, LocksMatch,
     ConnectionsAreExclusive, StepsKnow, AddLimited, pools, locks, locals,
     GetLockUnused, GetLockUsed, GetSleeps, GetNeedsMore
<1>3. CASE GetReturns(t)
  BY <1>3, PoolAssumption
     DEF GetReturns, locals, StepsKnow, TypeOK, LocksMatch, ConnectionsAreExclusive
<1>4. CASE CountUnused(t) \/ AddLockUnused(t) \/ ConnectionRefused(t) \/
   AddEnds(t)
  BY <1>4, <1>0, DBInfoAssumption, PoolAssumption DEF TypeOK, LocksMatch,
     ConnectionsAreExclusive, StepsKnow, AddLimited, pools, locks, locals,
     CountUnused, AddLockUnused, ConnectionRefused, AddEnds
<1>5. CASE Connect(t)
  <2>1. PICK c \in Conn \ (unused_pool \cup used_pool) :
          unused_pool' = unused_pool \cup {c}
    BY <1>5 DEF Connect
  <2>2. Cardinality(unused_pool') = Cardinality(unused_pool) + 1
    BY <1>0, <2>1, OneMore
  <2> QED
    BY <1>0, <1>5, <2>2
       DEF Connect, StepsKnow, LocksMatch, TypeOK, locks
<1>6. CASE PutLockUsed(t) \/ PutNothing(t) \/ PutLockUnused(t) \/
   PutDeletes(t) \/ PutReturns(t)
  BY <1>6, <1>0, DBInfoAssumption, PoolAssumption DEF TypeOK, LocksMatch,
     ConnectionsAreExclusive, StepsKnow, AddLimited, pools, locks, locals,
     PutLockUsed, PutNothing, PutLockUnused, PutDeletes, PutReturns
<1> QED
  BY <1>1, <1>2, <1>3, <1>4, <1>5, <1>6 DEF Step, PoolStep, GetConnection,
     RecycleConnection

LEMMA PoolStepInv ==
  ASSUME PoolInv, [Next]_vars
  PROVE  PoolInv'
<1>1. CASE UNCHANGED vars
  BY <1>1 DEF vars, pools, locks, locals, PoolInv, TypeOK, LocksMatch,
     ConnectionsAreExclusive, PoolWithinLimits, StepsKnow
<1>2. CASE Next
  <2> PICK t \in Thread : Step(t)
    BY <1>2 DEF Next
  <2> QED
    BY TypeOKKept, LocksMatchKept, ConnectionsAreExclusiveKept,
       PoolWithinLimitsKept, StepsKnowKept DEF PoolInv
<1> QED
  BY <1>1, <1>2

\* The lists, the locks and the hands of the threads agree at every moment,
\* and both lists stay within MAX_CONN, MIN_IDLE and MAX_IDLE
\* (sql_db_pool.hpp:36-107).
THEOREM PoolInvariant == Spec => []PoolInv
  BY InitPool, PoolStepInv, PTL DEF Spec

\* No connection is ever in the hands of two threads (sql_db_pool.hpp:88, 99).
THEOREM ConnectionsStayExclusive == Spec => []ConnectionsAreExclusive
<1>1. PoolInv => ConnectionsAreExclusive
  BY DEF PoolInv
<1> QED
  BY PoolInvariant, <1>1, PTL
=============================================================================
