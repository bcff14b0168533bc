------------------------------ MODULE ProcCtrl ------------------------------
(***************************************************************************)
(* How the two launcher scripts start the programs of a co-simulation and  *)
(* take them down: aqemu/scripts/run_qemu.pl (SystemC, simulator, viewer,  *)
(* regression and QEMU) and aqcxl/scripts/aqcxl_sv.pl (simulator and SPDM  *)
(* responder).  The launcher forks a child per program, waits for the      *)
(* first child that ends and sends SIGKILL to the process groups of the    *)
(* others.  aqcxl_sv.pl puts each child into a group of its own; in        *)
(* run_qemu.pl that call is commented out.  Perl keeps running in a child  *)
(* until it execs, with the launcher's SIGINT handler and the part of %PID *)
(* filled in so far, the child's own entry being 0.                        *)
(*                                                                         *)
(* run_qemu.pl prints through a pipe to tee, a child in its own group that *)
(* is not in %PID, and ends by closing that pipe, which waits for tee.     *)
(* The programs inherit the pipe unless their output is sent elsewhere.    *)
(***************************************************************************)
EXTENDS Naturals, Sequences, SequencesExt

CONSTANTS
  Scripts,  \* the scripts that may be started
  Settled   \* those where nothing ends and nobody interrupts before every
            \* child has been forked and has come as far as its setpgrp

ASSUME ScriptsAssumption == Settled \subseteq Scripts /\ Scripts \subseteq {"run_qemu", "aqcxl_sv"}

Launcher == "launcher"
Tee == "tee"

(* The calls of fork_proc. *)
Forks(s) == IF s = "run_qemu" THEN <<"sc", "sv", "vnc", "regr", "qemu">>
                              ELSE <<"sim_cmd", "spdm">>

Proc == UNION {{Forks(s)[n] : n \in DOMAIN Forks(s)} : s \in Scripts}

(* The fork_proc whose condition always holds. *)
Always == {"qemu", "sim_cmd"}

(* Children whose function may return instead of ending in exec: run_vnc   *)
(* does when the viewer is closed, execute_cmd when exec fails.            *)
MayReturn == {"vnc", "sim_cmd"}

VARIABLES
  script,      \* the script that was started
  pc,          \* the launcher's step; "killed": by a signal to its group,
               \* "broken": by writing to a pipe that nobody reads
  chosen,      \* the programs the options ask for
  opt_q,       \* is run_qemu.pl to keep its programs quiet?
  next,        \* index of the fork_proc call the launcher is at
  rid,         \* the child waitpid returned, Launcher before that
  tee,         \* the state of tee: "none" in aqcxl_sv.pl
  st,          \* st[p]: state of the child for p
  grp,         \* grp[p]: its process group, named by the group's leader
  sigint,      \* who has a SIGINT pending
  interrupted  \* has the user pressed Ctrl-C (bound: once)?

options == <<script, chosen, opt_q>>
vars == <<pc, options, next, rid, tee, st, grp, sigint, interrupted>>

Order == Forks(script)

Alive == {"forked", "perl", "program"}

TypeOK ==
  /\ pc \in {"fork", "wait", "kill", "close", "exited", "killed", "broken"}
  /\ script \in Scripts
  /\ chosen \in SUBSET Proc
  /\ next \in 1 .. Len(Order) + 1
  /\ opt_q \in BOOLEAN
  /\ rid \in Proc \cup {Launcher, Tee}
  /\ tee \in {"none", "running", "ended", "reaped"}
  /\ st \in [Proc -> Alive \cup {"none", "ended", "killed", "reaped"}]
  /\ grp \in [Proc -> Proc \cup {Launcher}]
  /\ sigint \in SUBSET (Proc \cup {Launcher, Tee})
  /\ interrupted \in BOOLEAN

Init ==
  /\ pc = "fork"
  /\ script \in Scripts
  /\ chosen \in SUBSET ToSet(Order) /\ Always \cap ToSet(Order) \subseteq chosen
  /\ next = 1
  /\ opt_q \in IF script = "run_qemu" THEN BOOLEAN ELSE {FALSE}
  /\ rid = Launcher
  /\ tee = IF script = "run_qemu" THEN "running" ELSE "none"
  /\ st = [p \in Proc |-> "none"]
  /\ grp = [p \in Proc |-> Launcher]
  /\ sigint = {}
  /\ interrupted = FALSE

Running == pc \notin {"exited", "killed", "broken"}

AliveProcs == {p \in Proc : st[p] \in Alive}

(* Programs whose output the command line sends to a file or nowhere. *)
Redirected(p) ==
  /\ st[p] = "program"
  /\ \/ p = "qemu" /\ (opt_q \/ "regr" \in chosen)
     \/ p = "sv" /\ opt_q

(* The children that may write to the launcher's output, and hold its pipe. *)
Writers == {p \in AliveProcs : ~ Redirected(p)}

TeeEnds == IF tee = "running" THEN "ended" ELSE tee

(* SIGKILL to the process groups G; st, tee and pc are what it leaves.      *)
KillGroups(G, to) ==
  /\ tee' = IF Launcher \in G THEN TeeEnds ELSE tee
  /\ st' = [p \in Proc |-> IF p \in AliveProcs /\ grp[p] \in G THEN "killed" ELSE st[p]]
  /\ pc' = IF Launcher \in G /\ Running THEN "killed" ELSE to

-----------------------------------------------------------------------------
(* Launcher                                                                *)

Fork ==
  /\ pc = "fork"
  /\ next <= Len(Order)
  /\ st' = IF Order[next] \in chosen THEN [st EXCEPT ![Order[next]] = "forked"] ELSE st
  /\ next' = next + 1
  /\ UNCHANGED <<pc, options, rid, tee, grp, sigint, interrupted>>

ForkedAll ==
  /\ pc = "fork"
  /\ next > Len(Order)
  /\ pc' = "wait"
  /\ UNCHANGED <<options, next, rid, tee, st, grp, sigint, interrupted>>

(* waitpid(-1, 0) returns any child of the launcher, tee too. *)
Wait ==
  /\ pc = "wait"
  /\ \/ \E p \in Proc :
          /\ st[p] \in {"ended", "killed"}
          /\ rid' = p
          /\ st' = [st EXCEPT ![p] = "reaped"]
          /\ UNCHANGED tee
     \/ /\ tee = "ended"
        /\ rid' = Tee
        /\ tee' = "reaped"
        /\ UNCHANGED st
  /\ pc' = "kill"
  /\ UNCHANGED <<options, next, grp, sigint, interrupted>>

(* The keys of the launcher's %PID. *)
Pids == {p \in Proc : st[p] # "none"}

(* Fault: the child that returned is killed, the others are spared. *)
KillTheReturned == {rid}

Others == Pids \ {rid}

KillAllProc ==
  /\ pc = "kill"
  /\ KillGroups(Others, "close")
  /\ UNCHANGED <<options, next, rid, grp, sigint, interrupted>>

(* Fault: the log is closed without waiting for tee. *)
CloseAtOnce == TRUE

(* close(STDOUT) waits for tee, which ends when nobody holds the pipe any   *)
(* more; a tee that is gone already is not waited for.                     *)
Closable == tee = "running" => Writers = {}

Close ==
  /\ pc = "close"
  /\ Closable
  /\ pc' = "exited"
  /\ tee' = IF tee = "none" THEN tee ELSE "reaped"
  /\ UNCHANGED <<options, next, rid, st, grp, sigint, interrupted>>

(* SIGPIPE: the launcher's output reaches a pipe that tee has left.  Perl   *)
(* buffers it, so this is at any step, or never.                           *)
BrokenPipe ==
  /\ Running
  /\ tee \in {"ended", "reaped"}
  /\ pc' = "broken"
  /\ UNCHANGED <<options, next, rid, tee, st, grp, sigint, interrupted>>

(* $SIG{INT}: kill_all_proc("INT"); the launcher then goes on. *)
LauncherInt ==
  /\ Launcher \in sigint
  /\ Running
  /\ KillGroups(Pids, pc)
  /\ sigint' = sigint \ {Launcher}
  /\ UNCHANGED <<options, next, rid, grp, interrupted>>

-----------------------------------------------------------------------------
(* Children                                                                *)

(* Fault: setpgrp is left out. *)
NoSetpgrp(p) == Launcher

(* Fault: the child joins the group its own %PID entry names. *)
GroupZero(p) == "0"

GroupOf(p) == IF script = "aqcxl_sv" THEN p ELSE Launcher

Enter(p) ==
  /\ st[p] = "forked"
  /\ st' = [st EXCEPT ![p] = "perl"]
  /\ grp' = [grp EXCEPT ![p] = GroupOf(p)]
  /\ UNCHANGED <<pc, options, next, rid, tee, sigint, interrupted>>

Exec(p) ==
  /\ st[p] = "perl"
  /\ p # "vnc"
  /\ st' = [st EXCEPT ![p] = "program"]
  /\ UNCHANGED <<pc, options, next, rid, tee, grp, sigint, interrupted>>

AllSettled == script \in Settled => next > Len(Order) /\ \A p \in Proc : st[p] # "forked"

(* The program ends, or Perl dies before it gets there (check_sim). *)
End(p) ==
  /\ AllSettled
  /\ st[p] \in {"perl", "program"}
  /\ st' = [st EXCEPT ![p] = "ended"]
  /\ UNCHANGED <<pc, options, next, rid, tee, grp, sigint, interrupted>>

ForkedBefore(p) ==
  {q \in chosen : \E m, n \in 1 .. Len(Order) : m < n /\ Order[m] = q /\ Order[n] = p}

(***************************************************************************)
(* kill_all_proc in a child: it goes through its %PID in no certain order  *)
(* and stops where it meets its own entry, 0: its own group.               *)
(***************************************************************************)
ChildKillsAll(p) ==
  \E S \in SUBSET ForkedBefore(p) : KillGroups(S \cup {grp[p]}, pc)

(* The function returns: the child goes on in main, where waitpid finds no *)
(* child of its own.                                                       *)
FallThrough(p) ==
  /\ AllSettled
  /\ p \in MayReturn
  /\ st[p] = "perl"
  /\ ChildKillsAll(p)
  /\ UNCHANGED <<options, next, rid, grp, sigint, interrupted>>

(* SIGINT in a child: Perl runs the inherited handler, a program ends or   *)
(* handles the signal.                                                     *)
ChildInt(p) ==
  /\ p \in sigint
  /\ sigint' = sigint \ {p}
  /\ \/ st[p] \in {"forked", "perl"} /\ ChildKillsAll(p)
     \/ /\ st[p] = "program"
        /\ st' = [st EXCEPT ![p] = "ended"]
        /\ UNCHANGED <<pc, tee>>
     \/ st[p] \notin {"forked", "perl"} /\ UNCHANGED <<st, pc, tee>>
  /\ UNCHANGED <<options, next, rid, grp, interrupted>>

TeeInt ==
  /\ Tee \in sigint
  /\ tee' = TeeEnds
  /\ sigint' = sigint \ {Tee}
  /\ UNCHANGED <<pc, options, next, rid, st, grp, interrupted>>

(* Ctrl-C: the terminal signals the launcher's group, while it exists. *)
Interrupt ==
  /\ AllSettled
  /\ ~ interrupted
  /\ Running
  /\ interrupted' = TRUE
  /\ sigint' = {Launcher} \cup {p \in AliveProcs : grp[p] = Launcher}
                          \cup {t \in {Tee} : tee = "running"}
  /\ UNCHANGED <<pc, options, next, rid, tee, st, grp>>

-----------------------------------------------------------------------------
LauncherStep == Fork \/ ForkedAll \/ Wait \/ KillAllProc \/ Close

Next ==
  \/ LauncherStep
  \/ LauncherInt
  \/ BrokenPipe
  \/ TeeInt
  \/ Interrupt
  \/ \E p \in Proc : Enter(p) \/ Exec(p) \/ End(p) \/ FallThrough(p) \/ ChildInt(p)

(* The operating system schedules launcher and children; no program need   *)
(* ever end.                                                               *)
Fairness ==
  /\ WF_vars(LauncherStep)
  /\ WF_vars(LauncherInt)
  /\ WF_vars(TeeInt)
  /\ \A p \in Proc : WF_vars(Enter(p)) /\ WF_vars(ChildInt(p))

Spec == Init /\ [][Next]_vars /\ Fairness

-----------------------------------------------------------------------------
(* Properties                                                              *)

(* When the launcher is killed with its group no program is left; and when *)
(* it ends without having been interrupted none is left that writes to its *)
(* log (close(STDOUT), run_qemu.pl:1537).  A program whose output goes     *)
(* elsewhere, and any after a Ctrl-C, which tee does not survive, may be.  *)
NoSurvivor ==
  /\ pc = "killed" => AliveProcs = {}
  /\ pc = "exited" /\ ~ interrupted => Writers = {}

(* When the launcher has called kill_all_proc for the child that returned, *)
(* all the other programs are killed (run_qemu.pl:1462-1463, 1480-1492).   *)
OthersKilled == pc = "close" => AliveProcs = {}

(* In aqcxl_sv.pl (875-889) they are. *)
SvKillsOthers == script = "aqcxl_sv" => OthersKilled

(* The launcher is not hit by the signals it, or a child of it, sends      *)
(* (setpgrp, aqcxl_sv.pl:534): it always gets to collect the logs.         *)
LauncherSpared == script = "aqcxl_sv" => pc # "killed"

(* Once a program has ended, or the user has interrupted, the whole        *)
(* session comes down (aqcxl_sv.pl:856, 875).                              *)
OneEndsAllEnd ==
  script = "aqcxl_sv" /\ (interrupted \/ \E p \in Proc : st[p] = "ended")
    ~> AliveProcs = {}
=============================================================================
