----------------------------- MODULE MCBackoff ------------------------------
(***************************************************************************)
(* Backoff with the times of the program: the schedule of its sleeps.      *)
(***************************************************************************)
EXTENDS Backoff

MCSchedule ==
    LET after[n \in 0..MaxAttempts] ==
            IF n = 0 THEN [interval |-> InitialInterval, slept |-> 0]
            ELSE LET before == after[n - 1]
                 IN  [interval |-> Incremented(before.interval),
                      slept |-> before.slept + Shortest(before.interval)]
    IN  after

=============================================================================
