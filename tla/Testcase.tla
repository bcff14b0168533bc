------------------------------ MODULE Testcase ------------------------------
(***************************************************************************)
(* The two testcases that serve QEMU's commands without a device of their  *)
(* own: aqcxl/testsuite/apcit_qemu_basic.sv and apcit_qemu_iosf.sv.  Each  *)
(* sets up the root ports and then runs, side by side, a loop that serves  *)
(* commands and a handler that brings the ports back after a reset.        *)
(*                                                                         *)
(* External: the command dispatcher, which drives the reset line RST_SG on *)
(* QEMU's behalf and measures packets, and the bus models, whose link goes *)
(* down at a reset and whose root ports may lose registers while it lasts. *)
(***************************************************************************)
EXTENDS Measure

CONSTANTS
  Keys,       \* the keys the dispatcher measures under
  MaxResets   \* bound: resets

ASSUME TestcaseAssumption ==
  "traffic" \notin Keys /\ MaxResets \in Nat

VARIABLES
  test,     \* "basic" or "iosf"
  ports,    \* the root ports: 0, and 1 when compiled with APCI_MPORT
  avy_measure,  \* is AVY_MEASURE defined?
  main,     \* test_body's step
  traffic,  \* the traffic loop's step
  handler,  \* the reset handler's step
  rst_sg,   \* the reset line, active low
  dl_up,    \* are the links of all_bfms up?
  cfg,      \* the registers as set up: pairs of a root port and a group
  resets,   \* resets so far
  missed    \* history: did the handler miss the last edge of RST_SG?

defineVars == <<test, ports, avy_measure>>
resetVars == <<rst_sg, dl_up, resets, missed>>
vars == <<measureVars, defineVars, main, traffic, handler, resetVars, cfg>>

(* What test_body writes to a root port: the bridge's enables and bus       *)
(* numbers, the write masks of its BARs, and in iosf its address windows.  *)
Groups == {"bridge", "masks"} \cup IF test = "iosf" THEN {"windows"} ELSE {}

TypeOK ==
  /\ ToSet(records) \subseteq Keys \cup {"traffic"} /\ Len(records) <= Slots
  /\ files \in 0 .. MaxFiles
  /\ log \in {"null", "open"}
  /\ turned \in BOOLEAN /\ shown \in [said : Int, passed : Int]
  /\ avy_measure \in BOOLEAN
  /\ test \in {"basic", "iosf"} /\ ports \in {{0}, {0, 1}}
  /\ main \in {"set up", "link", "pm", "fork", "end"}
  /\ traffic \in {"start", "serve", "stop"}
  /\ handler \in {"edge", "warm", "rise", "link", "pm"}
  /\ rst_sg \in BOOLEAN /\ dl_up \in BOOLEAN
  /\ cfg \subseteq ports \X Groups
  /\ resets \in 0 .. MaxResets /\ missed \in BOOLEAN

Init ==
  /\ MeasureInit
  /\ test \in {"basic", "iosf"} /\ ports \in {{0}, {0, 1}}
  /\ avy_measure \in BOOLEAN
  /\ main = "set up" /\ traffic = "start" /\ handler = "edge"
  /\ rst_sg = TRUE /\ dl_up = FALSE /\ cfg = {}
  /\ resets = 0 /\ missed = FALSE

-----------------------------------------------------------------------------
(* Start-up                                                                *)

SetUp ==
  /\ main = "set up"
  /\ cfg' = ports \X Groups
  /\ main' = "link"
  /\ UNCHANGED <<measureVars, defineVars, traffic, handler, resetVars>>

WaitLink ==
  /\ main = "link"
  /\ dl_up
  /\ main' = "pm"
  /\ UNCHANGED <<measureVars, defineVars, traffic, handler, resetVars, cfg>>

Fork ==
  /\ main = "pm"
  /\ main' = "fork"
  /\ UNCHANGED <<measureVars, defineVars, traffic, handler, resetVars, cfg>>

-----------------------------------------------------------------------------
(* The traffic loop                                                        *)

Loop(from, to) ==
  /\ main = "fork"
  /\ traffic = from
  /\ traffic' = to
  /\ UNCHANGED <<defineVars, handler, resetVars, cfg>>

StartTraffic ==
  /\ Loop("start", "serve")
  /\ Wallclock("traffic")
  /\ UNCHANGED main

(* External: a command the dispatcher serves measures a packet. *)
Serve ==
  /\ Loop("serve", "serve")
  /\ \/ avy_measure /\ \E key \in Keys : Wallclock(key)
     \/ ~ avy_measure /\ \E q, t \in Time : Seconds(q) <= Seconds(t) /\ Subtract(q, t)
  /\ UNCHANGED main

(* qemu_wait_sc_cmd returns; is it to abort? *)
Served ==
  /\ \E next \in {"start", "stop"} : Loop("serve", next)
  /\ Wallclock("traffic")
  /\ UNCHANGED main

(* join_any *)
Finish ==
  /\ Loop("stop", "stop")
  /\ main' = "end"
  /\ UNCHANGED measureVars

-----------------------------------------------------------------------------
(* Resets                                                                  *)

HandlerStep ==
  main = "fork" /\ UNCHANGED <<measureVars, defineVars, main, traffic>>

(* Fault: the ports are set up again without waiting for the rising edge.  *)
AtOnce == {"warm", "pm"}

(* @(negedge RST_SG): a warm or cold reset (RST_TYPE 0) with PERST_N high  *)
(* is passed on by do_warm_reset.                                          *)
AfterEdge == {"warm", "rise"}

(* A command asserts RST_SG.  Only a handler that waits for the edge sees  *)
(* it.                                                                     *)
ResetFalls ==
  /\ HandlerStep
  /\ traffic = "serve"
  /\ rst_sg /\ resets < MaxResets
  /\ rst_sg' = FALSE /\ resets' = resets + 1
  /\ dl_up' = FALSE
  /\ handler' \in IF handler = "edge" THEN AfterEdge ELSE {handler}
  /\ missed' = (handler = "link" \/ handler = "pm")
  /\ UNCHANGED cfg

(* External: registers are reset, by the line or by do_warm_reset. *)
RegistersLost ==
  /\ HandlerStep
  /\ ~ rst_sg \/ handler = "warm"
  /\ cfg' \in SUBSET cfg
  /\ UNCHANGED <<handler, resetVars>>

WarmResetDone ==
  /\ HandlerStep
  /\ handler = "warm"
  /\ handler' = "rise"
  /\ UNCHANGED <<resetVars, cfg>>

(* @(posedge RST_SG): only a handler that waits for it goes on.  One that  *)
(* is still in do_warm_reset misses it; one that missed the falling edge   *)
(* is none the worse if it has still to set the ports up.                  *)
ResetRises ==
  /\ HandlerStep
  /\ ~ rst_sg
  /\ rst_sg' = TRUE
  /\ handler' = IF handler = "rise" THEN "link" ELSE handler
  /\ missed' = (handler = "warm" \/ (missed /\ handler = "edge"))
  /\ UNCHANGED <<dl_up, resets, cfg>>

(* External: the links train. *)
LinkUp ==
  /\ rst_sg /\ ~ dl_up
  /\ dl_up' = TRUE
  /\ UNCHANGED <<measureVars, defineVars, main, traffic, handler, rst_sg, resets, missed,
                 cfg>>

HandlerWaitsLink ==
  /\ HandlerStep
  /\ handler = "link"
  /\ dl_up
  /\ handler' = "pm"
  /\ UNCHANGED <<resetVars, cfg>>

(* Faults: only the first port is set up again; the second one is even     *)
(* when compiled without it.                                               *)
RestoresFirst == {<<0, "bridge">>}
RestoresBoth == {<<0, "bridge">>, <<1, "bridge">>}

(* The bridge registers, in basic of both ports, in iosf of the first one. *)
Restored == (IF test = "basic" THEN ports ELSE {0}) \X {"bridge"}

Restore ==
  /\ HandlerStep
  /\ handler = "pm"
  /\ cfg' = cfg \cup Restored
  /\ handler' = "edge"
  /\ UNCHANGED resetVars

-----------------------------------------------------------------------------
Handler == WarmResetDone \/ HandlerWaitsLink \/ Restore

Next ==
  \/ SetUp \/ WaitLink \/ Fork
  \/ StartTraffic \/ Serve \/ Served \/ Finish
  \/ ResetFalls \/ ResetRises \/ RegistersLost \/ LinkUp
  \/ Handler

(* The simulator schedules its processes, and a link out of reset trains.  *)
Fairness ==
  /\ WF_vars(SetUp \/ WaitLink \/ Fork) /\ WF_vars(Handler) /\ WF_vars(LinkUp)

Spec == Init /\ [][Next]_vars /\ Fairness

-----------------------------------------------------------------------------
(* Properties                                                              *)

(* The enables and bus numbers are set up in every root port, the second   *)
(* one of iosf excepted, which its handler forgets.                        *)
Bridged == \A p \in ports : p = 0 \/ test = "basic" => <<p, "bridge">> \in cfg

(* Out of reset, with the handler back at its first wait, the ports are    *)
(* bridged: no write of the handler has fallen into a reset and been lost, *)
(* even if the line fell again while it worked (basic.sv:178-215,          *)
(* iosf.sv:278-307).  Excused is only a reset that the handler missed: one *)
(* that ended before do_warm_reset did, or that began after the previous   *)
(* one and ended after the handler was through with that.                  *)
ResetHandled ==
  main = "fork" /\ handler = "edge" /\ rst_sg /\ ~ missed => Bridged

(* After every reset that it did not miss the handler gets the ports       *)
(* bridged again, unless the test ends or the next reset comes.            *)
PortsComeBack ==
  (main = "fork" /\ rst_sg /\ ~ missed /\ ~ Bridged)
    ~> (Bridged \/ ~ rst_sg \/ main = "end")
=============================================================================
