------------------------------ MODULE Measure ------------------------------
(***************************************************************************)
(* How the testbench takes times.  Compiled with AVY_MEASURE it calls      *)
(* avy_wallclock_diff (aqemu/lib/measure/measure.cpp), which keeps a table *)
(* of keys and a log file; compiled without, aqcxl/srcs_avy/measure.svh    *)
(* takes two times of day and subtracts them.                              *)
(***************************************************************************)
EXTENDS Integers, Sequences, SequencesExt

CONSTANTS
  Slots,     \* the records of the table, 10 in the code
  MaxFiles,  \* how often the simulator may open a file
  Sixty,     \* seconds in a minute, minutes in an hour
  MaxHour    \* bound: the last hour of the day

ASSUME MeasureAssumption ==
  /\ Slots \in Nat \ {0} /\ Sixty \in Nat \ {0} /\ MaxFiles \in Nat /\ MaxHour \in Nat

VARIABLES
  records,  \* the keys in the table
  files,    \* how often the log has been opened; it is never closed
  log,      \* file: "null" before the first fopen and when one has failed
  turned,   \* has a key found no free record?
  shown     \* the last duration of calculate_diff, and the true one, in seconds

measureVars == <<records, files, log, turned, shown>>

Time == [h : 0 .. MaxHour, m : 0 .. (Sixty - 1), s : 0 .. (Sixty - 1)]

Midnight == [h |-> 0, m |-> 0, s |-> 0]

MeasureInit ==
  /\ records = <<>> /\ files = 0 /\ log = "null"
  /\ turned = FALSE
  /\ shown = [said |-> 0, passed |-> 0]

(* Fault: the search does not stop at a free record. *)
AllSlots(n) == Slots

(* The free record a new key gets; with none free the search ends behind   *)
(* the table.                                                              *)
FreeSlot(n) == IF n < Slots THEN n + 1 ELSE Slots

(* avy_wallclock_diff: the search for a free record opens the log at every *)
(* record it looks at. *)
Wallclock(key) ==
  IF key \in ToSet(records)
  THEN UNCHANGED measureVars
  ELSE LET opens == FreeSlot(Len(records))
       IN  /\ records' = IF Len(records) < Slots THEN Append(records, key) ELSE records
           /\ files' = IF files + opens <= MaxFiles THEN files + opens ELSE MaxFiles
           /\ log' = IF files + opens <= MaxFiles THEN "open" ELSE "null"
           /\ turned' = (turned \/ Len(records) = Slots)
           /\ UNCHANGED shown

(* Fault: a borrow of one from the minutes is forgotten. *)
DiffNoBorrow(q, t) ==
  IF t.s < q.s THEN [h |-> t.h - q.h, m |-> t.m - q.m, s |-> t.s + Sixty - q.s]
  ELSE [h |-> t.h - q.h, m |-> t.m - q.m, s |-> t.s - q.s]

(* calculate_diff: what no branch assigns stays 0. *)
Diff(q, t) ==
  CASE t.m < q.m /\ t.s < q.s ->
         [h |-> t.h - 1 - q.h, m |-> t.m + Sixty - 1 - q.m, s |-> t.s + Sixty - q.s]
    [] t.m > q.m /\ t.s < q.s ->
         [h |-> t.h - q.h, m |-> t.m - 1 - q.m, s |-> t.s + Sixty - q.s]
    [] t.m = q.m -> [h |-> t.h - q.h, m |-> 0, s |-> t.s - q.s]
    [] OTHER -> Midnight

Seconds(t) == (t.h * Sixty + t.m) * Sixty + t.s

(* avy_measure_start at time q and avy_measure_end at time t. *)
Subtract(q, t) ==
  /\ shown' = [said |-> Seconds(Diff(q, t)), passed |-> Seconds(t) - Seconds(q)]
  /\ UNCHANGED <<records, files, log, turned>>

-----------------------------------------------------------------------------
(* The log is lost, for all keys, only after a key has found no free       *)
(* record (measure.cpp:49-61): if it may be opened 1 + 2 + ... + Slots     *)
(* times it is open as soon as anything has been measured.                 *)
LogKept == records # <<>> /\ ~ turned => log = "open"

(* What is shown as a duration (measure.svh:40-62) is the time that has    *)
(* passed, or nothing: some cases are missing, but no borrow is wrong,     *)
(* although the seconds may be negative.                                   *)
DiffExactOrNothing == shown.said \in {0, shown.passed}
=============================================================================
