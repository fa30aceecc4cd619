--------------------------------- MODULE DbInfo ---------------------------------
(***************************************************************************)
(* What DBInfo makes of a settings file (db/db_info.hpp): the limits a     *)
(* pool of connections works under.  result gives the settings of the file *)
(* that are numbers, each as a param of StringStream.                      *)
(***************************************************************************)
EXTENDS StringStream, Sequences, SequencesExt

Default == [MAX_CONN |-> 100, MAX_IDLE |-> 30, MIN_IDLE |-> 3, SLEEP |-> 3,
            CLIENT_FLAG |-> 0, PORT |-> 3306]

\* The order in which the numbers are read through one stringstream.
NumberOrder == <<"MAX_CONN", "MAX_IDLE", "MIN_IDLE", "SLEEP", "CLIENT_FLAG", "PORT">>

WithNumber(s, key, result) ==
  LET read == ReadNumber(s.stuck, result[key])
  IN  IF key \notin DOMAIN result THEN s
      ELSE [info |-> [s.info EXCEPT ![key] = read.n], stuck |-> read.stuck]

NumbersOf(result) ==
  FoldLeft(LAMBDA s, key : WithNumber(s, key, result),
           [info |-> Default, stuck |-> FALSE], NumberOrder).info

\* Mutant: MAX_IDLE is raised before MIN_IDLE is.
WithinLimitsTurned(info) ==
  [info EXCEPT !.MIN_IDLE = IF info.MIN_IDLE < 1 THEN 1 ELSE info.MIN_IDLE,
               !.MAX_IDLE = IF info.MAX_IDLE < info.MIN_IDLE THEN info.MIN_IDLE + 1
                            ELSE info.MAX_IDLE,
               !.MAX_CONN = IF info.MAX_CONN < 1 THEN 1 ELSE info.MAX_CONN,
               !.SLEEP = IF info.SLEEP < 0 THEN 3 ELSE info.SLEEP]

WithinLimits(info) ==
  LET min_idle == IF info.MIN_IDLE < 1 THEN 1 ELSE info.MIN_IDLE
  IN  [info EXCEPT !.MIN_IDLE = min_idle,
                   !.MAX_IDLE = IF info.MAX_IDLE < min_idle THEN min_idle + 1
                                ELSE info.MAX_IDLE,
                   !.MAX_CONN = IF info.MAX_CONN < 1 THEN 1 ELSE info.MAX_CONN,
                   !.SLEEP = IF info.SLEEP < 0 THEN 3 ELSE info.SLEEP]

set_db_conf_path(result) == WithinLimits(NumbersOf(result))

-----------------------------------------------------------------------------
\* Whatever the file says, the limits are such as DbPool assumes
\* (DBInfoAssumption); they are the file's own wherever those are possible and no
\* number in front of them has characters behind it; and the pool may keep more
\* idle connections than it must unless the file, or the default for what the
\* file leaves out, says otherwise.
LimitsFitThePool(result) ==
  LET info == set_db_conf_path(result)
      Given(key) == IF key \in DOMAIN result THEN result[key].n ELSE Default[key]
      clean == \A key \in DOMAIN result : ~result[key].rest
  IN  /\ info.MAX_CONN >= 1 /\ info.MIN_IDLE >= 1 /\ info.SLEEP >= 0
      /\ info.MAX_IDLE >= info.MIN_IDLE
      /\ clean =>
           /\ info.PORT = Given("PORT") /\ info.CLIENT_FLAG = Given("CLIENT_FLAG")
           /\ Given("MAX_CONN") >= 1 => info.MAX_CONN = Given("MAX_CONN")
           /\ Given("MIN_IDLE") >= 1 => info.MIN_IDLE = Given("MIN_IDLE")
           /\ Given("MAX_IDLE") >= info.MIN_IDLE => info.MAX_IDLE = Given("MAX_IDLE")
           /\ info.MAX_IDLE = info.MIN_IDLE => Given("MAX_IDLE") = info.MIN_IDLE
=============================================================================
