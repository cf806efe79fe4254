------------------------------- MODULE Replay -------------------------------
(***************************************************************************)
(* Signed exposure reports and the memory that keeps each from being       *)
(* taken twice (internal/api/middleware/exposure.go).  Every report here   *)
(* carries a right signature over its time stamp and body; the others are  *)
(* refused before anything is remembered.  The replay store counts in the  *)
(* cache when that answers and in the process's memory when it does not,   *)
(* and an entry lives on for the whole time after each look at it.         *)
(***************************************************************************)
EXTENDS Integers

CONSTANTS
  Reports,     \* signed reports that the reporter may send any number of times
  Doors,       \* the processes that take reports
  Skew         \* ticks that a time stamp may be off, either way

ASSUME ReplayAssumption == Skew \in Nat /\ "cache" \notin Doors

VARIABLES
  age,         \* report -> ticks since its time stamp, below zero for one ahead
  entry,       \* place -> report -> ticks that its entry still has, 0 for none
  taken,       \* report -> times that it was passed on to the handler
  waived      \* reports taken before their time stamp was past, or without the cache

replayVars == <<age, entry, taken, waived>>

Stores == Doors \cup {"cache"}

ReplayInit ==
  /\ age \in [Reports -> (-Skew)..0]
  /\ entry = [s \in Stores |-> [r \in Reports |-> 0]]
  /\ taken = [r \in Reports |-> 0] /\ waived = {}

(* How long a report is remembered: no shorter than its stamp is good for. *)
SeenTTLShort == Skew - 1
SeenTTL == Skew

InSkew(r) == age[r] <= Skew /\ age[r] >= -Skew

(* MarkSeen: the first to count is let through; counting sets the expiry. *)
MarkSeen(place, r) == entry' = [entry EXCEPT ![place][r] = SeenTTL]

Submit(d, r) ==
  \E reached \in BOOLEAN :
    LET place == IF reached THEN "cache" ELSE d
    IN  /\ InSkew(r) /\ MarkSeen(place, r)
        /\ IF entry[place][r] = 0
           THEN /\ taken' = [taken EXCEPT ![r] = IF @ < 2 THEN @ + 1 ELSE @]
                /\ waived' = IF reached /\ age[r] > 0 THEN waived ELSE waived \cup {r}
           ELSE UNCHANGED <<taken, waived>>
        /\ UNCHANGED age

ReplayTick ==
  /\ age' = [r \in Reports |-> IF age[r] > Skew THEN age[r] ELSE age[r] + 1]
  /\ entry' = [s \in Stores |-> [r \in Reports |-> IF entry[s][r] = 0 THEN 0 ELSE entry[s][r] - 1]]
  /\ UNCHANGED <<taken, waived>>

ReplayNext == ReplayTick \/ \E d \in Doors, r \in Reports : Submit(d, r)

ReplaySpec == ReplayInit /\ [][ReplayNext]_replayVars

------------------------------------------------------------------------------
(* A report is passed on once, whichever processes it is sent to and       *)
(* however often: by the time its entry is gone its stamp is too old.  The *)
(* exceptions are a stamp from a clock that is ahead, which is good for    *)
(* longer than the entry lives, and a report counted without the cache.    *)
ReportedOnce == \A r \in Reports \ waived : taken[r] <= 1
=============================================================================
