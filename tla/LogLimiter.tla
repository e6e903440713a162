----------------------------- MODULE LogLimiter -----------------------------
(***************************************************************************)
(* logLimiter (supervisor.go), which keeps callers without the token from  *)
(* flooding the log: one WARN line per interval, the rest counted.  The    *)
(* caller reads the clock before it queues for the mutex, so the times     *)
(* allow() is given need not be in order.                                  *)
(***************************************************************************)
EXTENDS Integers

CONSTANTS
  Every,      \* the interval, one minute
  MaxClock,   \* bound on the clock
  MaxDenied   \* bound on the refusals of one process

ASSUME LimiterAssumption == Every \in Nat \ {0} /\ MaxClock \in Nat \ {0} /\ MaxDenied \in Nat

VARIABLES
  clock,       \* the time, from 1
  last,        \* time of the last WARN line, 0 (the zero time) for none
  suppressed,  \* refusals since then
  warned,      \* history: WARN lines of this process
  reported,    \* history: sum of their suppressedSinceLast
  denied       \* history: refusals of this process

counts == <<last, suppressed, warned, reported, denied>>
lvars == <<clock, counts>>

LimiterInit ==
  /\ clock = 1
  /\ last = 0 /\ suppressed = 0
  /\ warned = 0 /\ reported = 0 /\ denied = 0

(* A new process starts with a limiter of its own; the clock goes on. *)
ResetLimiter ==
  /\ last' = 0 /\ suppressed' = 0
  /\ warned' = 0 /\ reported' = 0 /\ denied' = 0
  /\ UNCHANGED clock

ClockTicks ==
  /\ clock < MaxClock
  /\ clock' = clock + 1
  /\ UNCHANGED counts

Quiet(stamp) == last # 0 /\ stamp - last < Every

Log(stamp) ==
  /\ last' = stamp
  /\ suppressed' = 0
  /\ warned' = warned + 1
  /\ reported' = reported + suppressed

(* A bug in which the count is lost when the line is written. *)
allowUncounted(stamp) ==
  /\ denied' = denied + 1
  /\ \/ /\ Quiet(stamp)
        /\ suppressed' = suppressed + 1
        /\ UNCHANGED <<last, warned, reported>>
     \/ /\ ~Quiet(stamp)
        /\ last' = stamp /\ suppressed' = 0 /\ warned' = warned + 1
        /\ UNCHANGED reported
  /\ UNCHANGED clock

(* A bug in which a time from before the last line reopens the interval. *)
allowReordered(stamp) ==
  /\ denied' = denied + 1
  /\ \/ /\ last # 0 /\ stamp \in last .. last + Every - 1
        /\ suppressed' = suppressed + 1
        /\ UNCHANGED <<last, warned, reported>>
     \/ /\ ~(last # 0 /\ stamp \in last .. last + Every - 1)
        /\ Log(stamp)
  /\ UNCHANGED clock

(* allow(now), all of it under the mutex. *)
allow(stamp) ==
  /\ denied' = denied + 1
  /\ \/ /\ Quiet(stamp)
        /\ suppressed' = suppressed + 1
        /\ UNCHANGED <<last, warned, reported>>
     \/ /\ ~Quiet(stamp)
        /\ Log(stamp)
  /\ UNCHANGED clock

---------------------------------------------------------------------------
(* Every refusal is accounted for exactly once: logged, in the count a     *)
(* line has reported, or in the count the next line will report.           *)
EveryRefusalCounted == denied = warned + reported + suppressed

(* However refusals are reordered on their way to the mutex, n lines take  *)
(* n - 1 whole intervals.                                                  *)
WarnRateBounded ==
  warned # 0 => (warned - 1) * Every < last /\ last <= clock
===========================================================================
