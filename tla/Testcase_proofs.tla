-------------------------- MODULE Testcase_proofs --------------------------
(***************************************************************************)
(* Proofs about the testcases and their time measurement, for any keys,    *)
(* any number of records, files and resets, and any length of a minute.    *)
(*                                                                         *)
(* MInv is the invariant of the measurement: with TypeOK, that what has    *)
(* been shown is right.  TInv is the one of the testcases: it needs where  *)
(* the reset line can be at each wait of the handler, if the handler has   *)
(* not missed an edge.                                                     *)
(***************************************************************************)
EXTENDS Testcase, TLAPS

USE MeasureAssumption, TestcaseAssumption

Measured == Keys \cup {"traffic"}

MInv ==
  /\ records \in Seq(Measured) /\ Len(records) <= Slots
  /\ files \in 0 .. MaxFiles
  /\ log \in {"null", "open"}
  /\ turned \in BOOLEAN /\ shown \in [said : Int, passed : Int]
  /\ DiffExactOrNothing

TInv ==
  /\ avy_measure \in BOOLEAN
  /\ test \in {"basic", "iosf"} /\ ports \in {{0}, {0, 1}}
  /\ main \in {"set up", "link", "pm", "fork", "end"}
  /\ traffic \in {"start", "serve", "stop"}
  /\ handler \in {"edge", "warm", "rise", "link", "pm"}
  /\ rst_sg \in BOOLEAN /\ dl_up \in BOOLEAN
  /\ cfg \subseteq ports \X Groups
  /\ resets \in 0 .. MaxResets /\ missed \in BOOLEAN
  /\ main = "set up" => handler = "edge" /\ rst_sg
  /\ main # "set up" /\ handler = "edge" /\ ~ missed => rst_sg /\ Bridged
  /\ handler \in {"link", "pm"} /\ ~ missed => rst_sg

-----------------------------------------------------------------------------
(* Times                                                                   *)

(* The borrows of calculate_diff: a difference of records is, in seconds,  *)
(* the difference of the times, with a unit carried over or not.           *)
LEMMA Borrow ==
  ASSUME NEW a \in Int, NEW b \in Int, NEW c \in Int,
         NEW x \in Int, NEW y \in Int, NEW z \in Int
  PROVE  /\ ((a - 1 - x) * Sixty + (b + Sixty - 1 - y)) * Sixty + (c + Sixty - z)
              = ((a * Sixty + b) * Sixty + c) - ((x * Sixty + y) * Sixty + z)
         /\ ((a - x) * Sixty + (b - 1 - y)) * Sixty + (c + Sixty - z)
              = ((a * Sixty + b) * Sixty + c) - ((x * Sixty + y) * Sixty + z)
         /\ b = y => ((a - x) * Sixty + 0) * Sixty + (c - z)
              = ((a * Sixty + b) * Sixty + c) - ((x * Sixty + y) * Sixty + z)
<1> Sixty \in Int
  OBVIOUS
<1> QED
  BY SMTT(60)

LEMMA SecondsInt ==
  ASSUME NEW t \in [h : Int, m : Int, s : Int]
  PROVE  Seconds(t) \in Int
BY DEF Seconds

(* calculate_diff is exact or 0 for any two times of day.                  *)
LEMMA DiffRight ==
  ASSUME NEW q \in Time, NEW t \in Time
  PROVE  Seconds(Diff(q, t)) \in {0, Seconds(t) - Seconds(q)}
<1>0. /\ q \in [h : Int, m : Int, s : Int] /\ t \in [h : Int, m : Int, s : Int]
      /\ q.h \in Int /\ q.m \in Int /\ q.s \in Int
      /\ t.h \in Int /\ t.m \in Int /\ t.s \in Int
  BY DEF Time
<1>1. CASE t.m < q.m /\ t.s < q.s
  <2>1. Diff(q, t) = [h |-> t.h - 1 - q.h, m |-> t.m + Sixty - 1 - q.m,
                      s |-> t.s + Sixty - q.s]
    BY <1>0, <1>1 DEF Diff
  <2> QED
    BY <1>0, <2>1, Borrow DEF Seconds
<1>2. CASE t.m > q.m /\ t.s < q.s
  <2>1. Diff(q, t) = [h |-> t.h - q.h, m |-> t.m - 1 - q.m, s |-> t.s + Sixty - q.s]
    BY <1>0, <1>2 DEF Diff
  <2> QED
    BY <1>0, <2>1, Borrow DEF Seconds
<1>3. CASE t.m = q.m
  <2>1. Diff(q, t) = [h |-> t.h - q.h, m |-> 0, s |-> t.s - q.s]
    BY <1>0, <1>3 DEF Diff
  <2> QED
    BY <1>0, <1>3, <2>1, Borrow DEF Seconds
<1>4. CASE t.m # q.m /\ ~ (t.s < q.s)
  <2>1. Diff(q, t) = Midnight
    BY <1>0, <1>4 DEF Diff
  <2> QED
    BY <2>1 DEF Seconds, Midnight
<1> QED
  BY <1>0, <1>1, <1>2, <1>3, <1>4

-----------------------------------------------------------------------------
(* The measurement                                                         *)

LEMMA WallclockKeeps ==
  ASSUME MInv, NEW key \in Measured, Wallclock(key)
  PROVE  MInv'
<1>1. CASE key \in ToSet(records)
  BY <1>1 DEF Wallclock, MInv, measureVars, DiffExactOrNothing
<1>2. CASE key \notin ToSet(records)
  <2>1. FreeSlot(Len(records)) \in Nat /\ Len(records) \in Nat
    BY DEF MInv, FreeSlot
  <2>2. files' \in 0 .. MaxFiles /\ log' \in {"null", "open"}
    BY <1>2, <2>1 DEF Wallclock, MInv
  <2>4. turned' \in BOOLEAN
    BY <1>2, Zenon DEF Wallclock, MInv
  <2>3. records' \in Seq(Measured) /\ Len(records') <= Slots
    <3>1. records' = IF Len(records) < Slots THEN Append(records, key) ELSE records
      BY <1>2 DEF Wallclock
    <3> QED
      BY <2>1, <3>1 DEF MInv
  <2> QED
    BY <1>2, <2>2, <2>3, <2>4 DEF Wallclock, MInv, DiffExactOrNothing
<1> QED
  BY <1>1, <1>2

LEMMA SubtractKeeps ==
  ASSUME MInv, NEW q \in Time, NEW t \in Time, Subtract(q, t)
  PROVE  MInv'
<1>1. q \in [h : Int, m : Int, s : Int] /\ t \in [h : Int, m : Int, s : Int]
  BY DEF Time
<1>2. Seconds(q) \in Int /\ Seconds(t) \in Int
  BY <1>1, SecondsInt
<1>3. Seconds(Diff(q, t)) \in {0, Seconds(t) - Seconds(q)}
  BY DiffRight
<1>4. shown' \in [said : Int, passed : Int] /\ DiffExactOrNothing'
  BY <1>2, <1>3 DEF Subtract, DiffExactOrNothing
<1> QED
  BY <1>4 DEF Subtract, MInv

(* Every step of a testcase measures, subtracts, or does neither.          *)
LEMMA Measures ==
  ASSUME [Next]_vars
  PROVE  \/ \E key \in Measured : Wallclock(key)
         \/ \E q, t \in Time : Subtract(q, t)
         \/ UNCHANGED measureVars
<1>1. CASE StartTraffic \/ Served
  BY <1>1 DEF StartTraffic, Served, Measured
<1>2. CASE Serve
  BY <1>2 DEF Serve, Measured
<1>3. CASE ~ (StartTraffic \/ Served \/ Serve)
  BY <1>3 DEF Next, SetUp, WaitLink, Fork, Finish, ResetFalls, ResetRises, LinkUp,
     RegistersLost, Handler, WarmResetDone, HandlerWaitsLink, Restore,
     HandlerStep, vars
<1> QED
  BY <1>1, <1>2, <1>3

LEMMA MeasureStep == MInv /\ [Next]_vars => MInv'
<1> SUFFICES ASSUME MInv, [Next]_vars PROVE MInv'
  OBVIOUS
<1>1. CASE UNCHANGED measureVars
  BY <1>1 DEF MInv, measureVars, DiffExactOrNothing
<1> QED
  BY <1>1, Measures, WallclockKeeps, SubtractKeeps

LEMMA MeasureStart == Init => MInv
<1> SUFFICES ASSUME Init PROVE MInv
  OBVIOUS
<1>1. records = <<>> /\ files = 0 /\ log = "null" /\ turned = FALSE
      /\ shown = [said |-> 0, passed |-> 0]
  BY Zenon DEF Init, MeasureInit
<1>2. turned \in BOOLEAN
  BY <1>1, Zenon
<1>3. shown \in [said : Int, passed : Int] /\ DiffExactOrNothing
  BY <1>1 DEF DiffExactOrNothing
<1>4. records \in Seq(Measured) /\ Len(records) <= Slots
  BY <1>1
<1> QED
  BY <1>1, <1>2, <1>3, <1>4 DEF MInv

-----------------------------------------------------------------------------
(* The testcases                                                           *)

LEMMA TestStart == Init => TInv
<1> SUFFICES ASSUME Init PROVE TInv
  OBVIOUS
<1>1. /\ rst_sg = TRUE /\ dl_up = FALSE /\ missed = FALSE
      /\ rst_sg \in BOOLEAN /\ dl_up \in BOOLEAN /\ missed \in BOOLEAN
      /\ avy_measure \in BOOLEAN
  BY Zenon DEF Init
<1>2. /\ test \in {"basic", "iosf"} /\ ports \in {{0}, {0, 1}}
      /\ main = "set up" /\ traffic = "start" /\ handler = "edge"
      /\ cfg = {} /\ resets = 0
  BY Zenon DEF Init
<1>3. MaxResets \in Nat
  BY Zenon
<1>4. resets \in 0 .. MaxResets /\ cfg \subseteq ports \X Groups
  <2>1. resets = 0 /\ cfg = {}
    BY <1>2
  <2>2. resets \in 0 .. MaxResets
    BY <1>3, <2>1
  <2> QED
    BY <2>1, <2>2, Zenon
<1>5. /\ main \in {"set up", "link", "pm", "fork", "end"}
      /\ traffic \in {"start", "serve", "stop"}
      /\ handler \in {"edge", "warm", "rise", "link", "pm"}
  BY <1>2
<1> QED
  BY <1>1, <1>2, <1>4, <1>5 DEF TInv

(* Registers are set up, and set up again, in the ports there are.         *)
LEMMA SetUpIs ==
  ASSUME TInv
  PROVE  /\ cfg' = ports \X Groups => cfg' \subseteq ports \X Groups
         /\ cfg' = cfg \cup Restored => cfg' \subseteq ports \X Groups
         /\ UNCHANGED defineVars /\ cfg' = ports \X Groups => Bridged'
         /\ UNCHANGED defineVars /\ cfg' = cfg \cup Restored => Bridged'
BY DEF TInv, Restored, Bridged, Groups, defineVars

LEMMA TestStep == TInv /\ [Next]_vars => TInv'
<1> SUFFICES ASSUME TInv, [Next]_vars PROVE TInv'
  OBVIOUS
<1> USE DEF TInv
<1>1. CASE SetUp
  <2>1. /\ main = "set up" /\ main' = "link" /\ cfg' = ports \X Groups
        /\ UNCHANGED <<defineVars, traffic, handler, resetVars>>
    BY <1>1 DEF SetUp
  <2>2. Bridged' /\ Groups' = Groups
    BY <2>1, SetUpIs DEF Groups, defineVars
  <2> QED
    BY <2>1, <2>2 DEF defineVars, resetVars
<1>2. CASE WaitLink \/ Fork
  BY <1>2 DEF WaitLink, Fork, defineVars, resetVars, Bridged, Groups
<1>3. CASE StartTraffic \/ Serve \/ Served \/ Finish
  <2>1. /\ UNCHANGED <<defineVars, handler, resetVars, cfg>>
        /\ main = "fork" /\ main' \in {"fork", "end"}
        /\ traffic' \in {"start", "serve", "stop"}
    BY <1>3 DEF StartTraffic, Serve, Served, Finish, Loop
  <2> QED
    BY <2>1 DEF defineVars, resetVars, Bridged, Groups
<1>4. CASE ResetFalls
  <2>1. /\ UNCHANGED <<defineVars, main, traffic, cfg>>
        /\ main = "fork" /\ rst_sg' = FALSE /\ dl_up' = FALSE
        /\ resets < MaxResets /\ resets' = resets + 1
        /\ handler' \in {"warm", "rise", handler} /\ handler' # "edge"
    BY <1>4, Zenon DEF ResetFalls, HandlerStep, AfterEdge
  <2>2. missed' \in BOOLEAN /\ (handler' \in {"link", "pm"} => missed')
    <3> DEFINE working == handler = "link" \/ handler = "pm"
    <3>1. missed' = working
      BY <1>4 DEF ResetFalls
    <3>2. handler' \in {"link", "pm"} => working
      BY <2>1
    <3>3. working \in BOOLEAN
      BY Zenon
    <3> HIDE DEF working
    <3> QED
      BY <3>1, <3>2, <3>3, Zenon
  <2>3. resets' \in 0 .. MaxResets
    BY <2>1
  <2>4. rst_sg' \in BOOLEAN /\ dl_up' \in BOOLEAN /\ avy_measure' \in BOOLEAN
    BY <2>1, Zenon DEF defineVars
  <2>5. handler' \in {"warm", "rise", "link", "pm"}
    BY <2>1
  <2> QED
    BY <2>1, <2>2, <2>3, <2>4, <2>5 DEF defineVars, Groups
<1>5. CASE RegistersLost
  <2>1. /\ UNCHANGED <<defineVars, main, traffic, handler, resetVars>>
        /\ main = "fork" /\ cfg' \subseteq cfg
        /\ ~ rst_sg \/ handler = "warm"
    BY <1>5 DEF RegistersLost, HandlerStep
  <2> QED
    BY <2>1 DEF defineVars, resetVars, Groups
<1>6. CASE ResetRises
  <2>1. /\ UNCHANGED <<defineVars, main, traffic, dl_up, resets, cfg>>
        /\ main = "fork" /\ ~ rst_sg /\ rst_sg' = TRUE
        /\ handler' = IF handler = "rise" THEN "link" ELSE handler
    BY <1>6, Zenon DEF ResetRises, HandlerStep
  <2>2. missed' \in BOOLEAN /\ (handler' = "edge" => missed')
    <3>1. missed' = (handler = "warm" \/ (missed /\ handler = "edge"))
      BY <1>6 DEF ResetRises
    <3>2. handler' = "edge" => handler = "edge" /\ missed
      BY <2>1
    <3> QED
      BY <3>1, <3>2, Zenon
  <2>3. rst_sg' \in BOOLEAN /\ rst_sg'
    BY <2>1, Zenon
  <2> QED
    BY <2>1, <2>2, <2>3 DEF defineVars, Groups
<1>7. CASE LinkUp
  BY <1>7 DEF LinkUp, defineVars, Bridged, Groups
<1>8. CASE WarmResetDone \/ HandlerWaitsLink
  BY <1>8 DEF WarmResetDone, HandlerWaitsLink, HandlerStep, defineVars, resetVars,
     Groups
<1>9. CASE Restore
  <2>1. /\ UNCHANGED <<defineVars, main, traffic, resetVars>>
        /\ main = "fork" /\ handler = "pm" /\ handler' = "edge"
        /\ cfg' = cfg \cup Restored
    BY <1>9 DEF Restore, HandlerStep
  <2>2. Bridged' /\ cfg' \subseteq ports \X Groups /\ Groups' = Groups
    BY <2>1, SetUpIs DEF Groups, defineVars
  <2> QED
    BY <2>1, <2>2 DEF defineVars, resetVars
<1>10. CASE UNCHANGED vars
  BY <1>10 DEF vars, defineVars, resetVars, Bridged, Groups
<1> QED
  BY <1>1, <1>2, <1>3, <1>4, <1>5, <1>6, <1>7, <1>8, <1>9, <1>10
     DEF Next, Handler

-----------------------------------------------------------------------------
(* The theorems                                                            *)

(* Both invariants hold throughout.                                        *)
THEOREM Invariance == Spec => [](MInv /\ TInv)
<1>1. Init => MInv /\ TInv
  BY MeasureStart, TestStart
<1>2. MInv /\ TInv /\ [Next]_vars => MInv' /\ TInv'
  BY MeasureStep, TestStep
<1> QED
  BY <1>1, <1>2, PTL DEF Spec

(* Every variable keeps its type.                                          *)
THEOREM TypeCorrect == Spec => []TypeOK
<1>1. MInv /\ TInv => TypeOK
  <2> SUFFICES ASSUME MInv, TInv PROVE TypeOK
    OBVIOUS
  <2>1. ToSet(records) \subseteq Keys \cup {"traffic"}
    BY DEF MInv, Measured, ToSet
  <2>2. Len(records) <= Slots /\ files \in 0 .. MaxFiles /\ log \in {"null", "open"}
    BY DEF MInv
  <2>3. turned \in BOOLEAN /\ shown \in [said : Int, passed : Int]
    BY DEF MInv
  <2> QED
    BY <2>1, <2>2, <2>3 DEF TInv, TypeOK
<1> QED
  BY <1>1, Invariance, PTL

(* calculate_diff shows the time that has passed, or nothing.              *)
THEOREM DifferenceRight == Spec => []DiffExactOrNothing
<1>1. MInv => DiffExactOrNothing
  BY DEF MInv
<1> QED
  BY <1>1, Invariance, PTL

(* Out of reset, whenever the handler waits for the next one, the ports    *)
(* are bridged, unless it missed an edge of the last reset: what it writes *)
(* while the line falls again is never lost unnoticed.                     *)
THEOREM PortsPrepared == Spec => []ResetHandled
<1>1. TInv => ResetHandled
  BY DEF TInv, ResetHandled
<1> QED
  BY <1>1, Invariance, PTL

-----------------------------------------------------------------------------
(* The log.  To fill n records it is opened 1 + 2 + ... + n times.         *)

Enough == Slots * (Slots + 1) <= 2 * MaxFiles

LInv ==
  ~ turned =>
    /\ 2 * files = Len(records) * (Len(records) + 1)
    /\ records # <<>> => log = "open"

LEMMA Triangle ==
  ASSUME NEW n \in Nat, n < Slots
  PROVE  /\ (n + 1) * (n + 2) = n * (n + 1) + 2 * (n + 1)
         /\ (n + 1) * (n + 2) <= Slots * (Slots + 1)
<1>1. Slots \in Nat /\ n + 1 \in Nat /\ n + 1 <= Slots
  OBVIOUS
<1>2. (n + 1) * (n + 2) = n * (n + 1) + 2 * (n + 1)
  OBVIOUS
<1>3. (n + 1) * (n + 2) <= Slots * (Slots + 1)
  BY <1>1, SMTT(60)
<1> QED
  BY <1>2, <1>3

LEMMA LogKeeps ==
  ASSUME Enough, MInv, LInv, NEW key \in Measured, Wallclock(key)
  PROVE  LInv'
<1>1. CASE key \in ToSet(records)
  BY <1>1 DEF Wallclock, LInv, measureVars
<1>2. CASE key \notin ToSet(records) /\ Len(records) < Slots /\ ~ turned
  <2> DEFINE n == Len(records)
  <2>1. n \in Nat /\ n < Slots /\ FreeSlot(n) = n + 1
    BY <1>2 DEF MInv, FreeSlot
  <2>2. /\ 2 * (files + (n + 1)) = (n + 1) * (n + 2)
        /\ files + (n + 1) <= MaxFiles
    BY <1>2, <2>1, Triangle DEF LInv, Enough, MInv
  <2>3. records' = Append(records, key) /\ Len(records') = n + 1
    BY <1>2 DEF Wallclock, MInv
  <2>4. files' = files + (n + 1) /\ log' = "open"
    BY <1>2, <2>1, <2>2 DEF Wallclock
  <2> QED
    BY <2>1, <2>2, <2>3, <2>4 DEF LInv
<1>3. CASE key \notin ToSet(records) /\ (Len(records) = Slots \/ turned)
  BY <1>3 DEF Wallclock, LInv, MInv
<1> QED
  BY <1>1, <1>2, <1>3 DEF MInv

(* If the log may be opened 1 + 2 + ... + Slots times, 55 times for the    *)
(* code's ten records, it is not lost before a key finds no free record.   *)
THEOREM LogSurvives == Enough /\ Spec => []LogKept
<1> SUFFICES ASSUME Enough PROVE Spec => []LogKept
  OBVIOUS
<1>1. Init => LInv
  <2> SUFFICES ASSUME Init PROVE LInv
    OBVIOUS
  <2>1. records = <<>> /\ files = 0
    BY Zenon DEF Init, MeasureInit
  <2> QED
    BY <2>1 DEF LInv
<1>2. MInv /\ LInv /\ [Next]_vars => LInv'
  <2> SUFFICES ASSUME MInv, LInv, [Next]_vars PROVE LInv'
    OBVIOUS
  <2>1. CASE UNCHANGED <<records, files, log, turned>>
    BY <2>1 DEF LInv
  <2> QED
    BY <2>1, Measures, LogKeeps DEF Subtract, measureVars
<1>3. LInv => LogKept
  BY DEF LInv, LogKept
<1> QED
  BY <1>1, <1>2, <1>3, Invariance, PTL DEF Spec
=============================================================================
