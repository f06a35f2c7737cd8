------------------------------ MODULE Backoff -------------------------------
(***************************************************************************)
(* The time that Engine.Commit takes (engine.go, with the vendored         *)
(* cenkalti/backoff): it asks NextBackOff how long to sleep, makes an      *)
(* attempt, and sleeps if it failed.  Only NextBackOff looks at the clock. *)
(* Engine abstracts this to a bound on the number of attempts.  Times are  *)
(* in milliseconds; an attempt takes what the provider takes.              *)
(***************************************************************************)
EXTENDS Naturals

CONSTANTS
    InitialInterval, MaxInterval,
    MaxElapsedTime, \* lb-timeout
    Times,          \* how long an attempt may take
    Longest,        \* the longest of them
    MaxAttempts,    \* the attempts that lb-timeout leaves room for
    Schedule,       \* by attempts made: [interval, slept], what the interval
                    \* has grown to and the least time slept
    Horizon         \* bound: time is counted up to here

(* An interval that grows: 1.5 times 1 is 1.                               *)
ASSUME IntervalsAssumption ==
    /\ InitialInterval \in Nat /\ MaxInterval \in Nat
    /\ 2 <= InitialInterval /\ InitialInterval <= MaxInterval
ASSUME TimesAssumption ==
    /\ MaxElapsedTime \in Nat /\ Horizon \in Nat /\ Longest \in Nat
    /\ Times \subseteq 0..Longest

(* RandomizationFactor 0.5: the ends of the range and its middle.          *)
Shortest(interval) == interval - interval \div 2
Randomized(interval) == {Shortest(interval), interval, interval + interval \div 2}

(* Multiplier 1.5, with the check against overflow.                        *)
Incremented(interval) ==
    IF 3 * interval >= 2 * MaxInterval THEN MaxInterval ELSE (3 * interval) \div 2

(* MaxAttempts is enough: the sleeps between them alone exceed lb-timeout. *)
ASSUME ScheduleAssumption ==
    /\ MaxAttempts \in Nat /\ MaxElapsedTime < Horizon
    /\ Schedule \in [0..MaxAttempts -> [interval : Nat, slept : Nat]]
    /\ Schedule[0] = [interval |-> InitialInterval, slept |-> 0]
    /\ \A n \in 1..MaxAttempts :
          /\ Schedule[n].interval = Incremented(Schedule[n - 1].interval)
          /\ Schedule[n].slept = Schedule[n - 1].slept + Shortest(Schedule[n - 1].interval)
    /\ Schedule[MaxAttempts].slept > MaxElapsedTime

VARIABLES
    pc,             \* "next", "attempt", "sleep", "ok" or "stopped"
    elapsed,        \* GetElapsedTime
    currentInterval,
    duration,       \* what NextBackOff returned last
    tries           \* history: attempts made, up to one too many

backoffVars == <<pc, elapsed, currentInterval, duration, tries>>

(* Commit's Reset.                                                         *)
Init ==
    /\ pc = "next"
    /\ elapsed = 0
    /\ currentInterval = InitialInterval
    /\ duration = 0
    /\ tries = 0

incrementCurrentInterval == Incremented(currentInterval)

Capped(n) == IF n > Horizon THEN Horizon ELSE n

Over == MaxElapsedTime # 0 /\ elapsed > MaxElapsedTime

Stop ==
    /\ pc = "next"
    /\ Over
    /\ pc' = "stopped"
    /\ UNCHANGED <<elapsed, currentInterval, duration, tries>>

(* Mutant: the time limit is not looked at.                                *)
NextBackOffAlways ==
    /\ pc = "next"
    /\ duration' \in Randomized(currentInterval)
    /\ currentInterval' = incrementCurrentInterval
    /\ pc' = "attempt"
    /\ UNCHANGED <<elapsed, tries>>

(* Mutant: the interval does not grow.                                     *)
NextBackOffLevel ==
    /\ pc = "next"
    /\ ~Over
    /\ duration' \in Randomized(currentInterval)
    /\ pc' = "attempt"
    /\ UNCHANGED <<elapsed, currentInterval, tries>>

NextBackOff ==
    /\ pc = "next"
    /\ ~Over
    /\ duration' \in Randomized(currentInterval)
    /\ currentInterval' = incrementCurrentInterval
    /\ pc' = "attempt"
    /\ UNCHANGED <<elapsed, tries>>

(* fn() succeeds or fails, in its own time.                                *)
Attempt ==
    /\ pc = "attempt"
    /\ \E time \in Times : elapsed' = Capped(elapsed + time)
    /\ tries' = IF tries > MaxAttempts THEN tries ELSE tries + 1
    /\ pc' \in {"ok", "sleep"}
    /\ UNCHANGED <<currentInterval, duration>>

Sleep ==
    /\ pc = "sleep"
    /\ elapsed' = Capped(elapsed + duration)
    /\ pc' = "next"
    /\ UNCHANGED <<currentInterval, duration, tries>>

Next == Stop \/ NextBackOff \/ Attempt \/ Sleep

Spec == Init /\ [][Next]_backoffVars

(* The goroutine runs, the attempts return.                                *)
FairSpec == Spec /\ WF_backoffVars(Next)

-----------------------------------------------------------------------------
(***************************************************************************)
(* Properties.                                                             *)
(***************************************************************************)

Ended == pc \in {"ok", "stopped"}

(* How far a Commit may go past lb-timeout: one attempt is begun before    *)
(* the limit, and a sleep of one and a half intervals may follow it.       *)
Limit == MaxElapsedTime + Longest + currentInterval + currentInterval \div 2

(* The engine's mutex is held by one Commit no longer than lb-timeout, one *)
(* attempt and one sleep, whatever the random intervals.                   *)
BoundedHold == MaxElapsedTime # 0 => elapsed <= Limit

(* The intervals grow: a Commit makes few attempts, though the provider    *)
(* refuses each at once and every sleep is the shortest.                   *)
FewAttempts == MaxElapsedTime # 0 => tries <= MaxAttempts

(* A Commit ends, whatever the provider does, so that the mutex is given   *)
(* back.                                                                   *)
CommitEnds == <>Ended

=============================================================================
