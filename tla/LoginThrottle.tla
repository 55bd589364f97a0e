---------------------------- MODULE LoginThrottle ----------------------------
(***************************************************************************)
(* The per-account throttle of failed logins, on the Redis adapter: a      *)
(* counter that expires with its window and a lock that expires by itself. *)
(* One account; time is what is left of each key.                          *)
(*                                                                         *)
(* Every Redis command of a login is an await: several logins are under    *)
(* way at a time, and any of them may lose its connection at any command.  *)
(***************************************************************************)
EXTENDS Integers, Sequences

CONSTANTS
    MaxFailures,   \* MAX_FAILED_ATTEMPTS
    Window,        \* FAILURE_WINDOW_SECONDS
    Lockout,       \* LOCKOUT_SECONDS
    Parallel,      \* logins under way at a time
    MaxBreaks      \* lost connections, to Redis or to the database

ASSUME ThrottleAssumption ==
    /\ MaxFailures \in Nat \ {0, 1}
    /\ Window \in Nat \ {0}
    \* FAILURE_WINDOW_SECONDS and LOCKOUT_SECONDS: both a quarter of an hour.
    /\ Lockout \in Nat /\ Lockout >= Window
    /\ Parallel \in Nat \ {0}
    /\ MaxBreaks \in Nat

VARIABLES
    failures,  \* the counter key login_fail
    lock,      \* what TTL answers for the key login_lock
    logins,    \* how many logins stand before which command
    breaks,    \* connections lost so far
    recent     \* history: age of each wrong password of the last Window

throttleVars == <<failures, lock, logins, breaks, recent>>

\* Redis answers TTL with -2 for no key and -1 for a key that never expires.
Gone == -2
Endless == -1
NoCounter == [count |-> 0, ttl |-> Gone]

\* Past the lock check, before EXPIRE, before SET, before DEL.
Stage == {"checked", "opening", "locking", "clearing"}

UnderWay == logins["checked"] + logins["opening"] + logins["locking"] + logins["clearing"]

ThrottleTypeOK ==
    /\ failures \in [count : Nat, ttl : {Gone, Endless} \cup 1..Window]
    /\ lock \in {Gone} \cup 1..Lockout
    /\ logins \in [Stage -> 0..Parallel] /\ UnderWay <= Parallel
    /\ breaks \in 0..MaxBreaks
    /\ recent \in Seq(0..(Window - 1))

ThrottleInit ==
    /\ failures = NoCounter
    /\ lock = Gone
    /\ logins = [s \in Stage |-> 0]
    /\ breaks = 0
    /\ recent = <<>>

\* locked_for
Locked == lock > 0

-----------------------------------------------------------------------------

\* Mutant of CheckLock: the lock is not looked at.
MutCheckLockAnyway ==
    /\ UnderWay < Parallel
    /\ logins' = [logins EXCEPT !["checked"] = @ + 1]
    /\ UNCHANGED <<failures, lock, breaks, recent>>

\* login, to the lock check.
CheckLock ==
    /\ ~Locked
    /\ UnderWay < Parallel
    /\ logins' = [logins EXCEPT !["checked"] = @ + 1]
    /\ UNCHANGED <<failures, lock, breaks, recent>>

\* record_failure, INCR: which command the new count leads to, if to any.
NextStage(count) ==
    CASE count = 1 -> {"opening"}
      [] count >= MaxFailures -> {"locking"}
      [] OTHER -> {}

\* A wrong password, to the end of INCR: the counter is new, or one more.
WrongPassword ==
    /\ logins["checked"] > 0
    /\ LET count == failures.count + 1
       IN  /\ failures' = [count |-> count,
                           ttl |-> IF count = 1 THEN Endless ELSE failures.ttl]
           /\ logins' = [s \in Stage |->
                  logins[s] + (IF s \in NextStage(count) THEN 1 ELSE 0)
                            - (IF s = "checked" THEN 1 ELSE 0)]
    /\ recent' = Append(recent, 0)
    /\ UNCHANGED <<lock, breaks>>

\* A wrong password whose INCR does not reach Redis.
CountIsLost ==
    /\ logins["checked"] > 0
    /\ breaks < MaxBreaks /\ breaks' = breaks + 1
    /\ logins' = [logins EXCEPT !["checked"] = @ - 1]
    /\ recent' = Append(recent, 0)
    /\ UNCHANGED <<failures, lock>>

\* EXPIRE, of whatever counter there is by now.
OpenWindow ==
    /\ logins["opening"] > 0
    /\ logins' = [logins EXCEPT !["opening"] = @ - 1]
    /\ failures' = IF failures.count > 0 THEN [failures EXCEPT !.ttl = Window] ELSE failures
    /\ UNCHANGED <<lock, breaks, recent>>

\* SET of the lock.
SetLock ==
    /\ logins["locking"] > 0
    /\ logins' = [logins EXCEPT !["locking"] = @ - 1, !["clearing"] = @ + 1]
    /\ lock' = Lockout
    /\ UNCHANGED <<failures, breaks, recent>>

\* DEL of the counter.  When a right password has lifted the lock meanwhile,
\* this takes the counter of after it, and the history starts again.
ClearCounter ==
    /\ logins["clearing"] > 0
    /\ logins' = [logins EXCEPT !["clearing"] = @ - 1]
    /\ failures' = NoCounter
    /\ recent' = IF Locked THEN recent ELSE <<>>
    /\ UNCHANGED <<lock, breaks>>

\* A login loses its connection before its next command.
Break(stage) ==
    /\ logins[stage] > 0
    /\ breaks < MaxBreaks /\ breaks' = breaks + 1
    /\ logins' = [logins EXCEPT ![stage] = @ - 1]
    /\ UNCHANGED <<failures, lock, recent>>

\* reset: both keys.
ResetThrottle ==
    /\ failures' = NoCounter
    /\ lock' = Gone
    /\ recent' = <<>>

\* A key one second later.
Less(ttl) == IF ttl > 1 THEN ttl - 1 ELSE IF ttl = 1 THEN Gone ELSE ttl

\* The history one second later: what is a Window old leaves, the oldest first.
OneSecondOn(ages, later) ==
    \E gone \in 0..Len(ages) :
        /\ \A i \in 1..gone : ages[i] + 1 >= Window
        /\ \A i \in (gone + 1)..Len(ages) : ages[i] + 1 < Window
        /\ later = [i \in 1..(Len(ages) - gone) |-> ages[i + gone] + 1]

\* A login that set the lock gets to its DEL before the lock ends by itself.
ThrottleTick ==
    /\ lock = 1 => logins["clearing"] = 0
    /\ failures' = IF failures.ttl = 1 THEN NoCounter
                   ELSE [failures EXCEPT !.ttl = Less(@)]
    /\ lock' = Less(lock)
    /\ OneSecondOn(recent, recent')
    /\ UNCHANGED <<logins, breaks>>

ThrottleStep ==
    \/ CheckLock \/ WrongPassword \/ CountIsLost
    \/ OpenWindow \/ SetLock \/ ClearCounter
    \/ \E stage \in Stage : Break(stage)

-----------------------------------------------------------------------------

Larger(m, n) == IF m < n THEN n ELSE m

\* One window takes few wrong passwords, however many logins race: a fixed
\* window lets the end of one and the whole of the next through, then the lock
\* holds for all but the logins already past its check, and a lost connection
\* leaves at most one wrong password uncounted; unless a right one forgives
\* them all (login_throttle.py, record_failure; auth_service.py, login).
GuessesAreFew ==
    Len(recent) <= MaxFailures - 1 + Larger(MaxFailures - 2, Parallel - 1) + Parallel + breaks
=============================================================================
