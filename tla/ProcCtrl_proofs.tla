--------------------------- MODULE ProcCtrl_proofs ---------------------------
(***************************************************************************)
(* What the two launchers guarantee when a session ends, whichever         *)
(* programs the options choose.  aqcxl_sv.pl needs that nothing ends and   *)
(* nobody interrupts before all its children have called setpgrp (Settles) *)
(* while run_qemu.pl needs nothing for it, since all its children stay in  *)
(* the launcher's own group and it waits for tee, unless Ctrl-C has ended  *)
(* tee.                                                                    *)
(*                                                                         *)
(* IInv adds which group a process is in (Groups), that the launcher is    *)
(* past its forks when it waits and has reaped the child it goes on for    *)
(* (Returned), that in a settled script nothing ends, is killed or         *)
(* signalled while a child is before its setpgrp (Calm), and that tee is   *)
(* there as long as the launcher is and nobody interrupts (Piped).  Down   *)
(* is what is left of the programs at the end.                             *)
(***************************************************************************)
EXTENDS ProcCtrl, TLAPS

Settles == "aqcxl_sv" \in Settled

Groups ==
  \A p \in Proc :
    /\ script = "run_qemu" => grp[p] = Launcher
    /\ st[p] \in {"perl", "program"} => grp[p] = GroupOf(p)

Returned ==
  /\ pc \in {"wait", "kill", "close", "exited"} => next > Len(Order)
  /\ pc = "kill" => \/ rid \in Proc /\ st[rid] = "reaped"
                    \/ script = "run_qemu" /\ interrupted

Loud == interrupted \/ sigint # {} \/ \E p \in Proc : st[p] \in {"ended", "killed", "reaped"}

Calm == script \in Settled /\ Loud => next > Len(Order) /\ \A p \in Proc : st[p] # "forked"

Down ==
  /\ script = "aqcxl_sv" => pc # "killed" /\ (pc \in {"close", "exited"} => AliveProcs = {})
  /\ script = "run_qemu" => /\ pc = "killed" => AliveProcs = {}
                            /\ pc = "exited" /\ ~ interrupted => Writers = {}

Piped ==
  /\ script = "aqcxl_sv" => tee = "none" /\ Tee \notin sigint
  /\ ~ interrupted => sigint = {}
  /\ script = "run_qemu" /\ Running /\ ~ interrupted => tee = "running"

IInv == TypeOK /\ Groups /\ Returned /\ Calm /\ Down /\ Piped

-----------------------------------------------------------------------------
LEMMA ProcNames ==
  /\ Launcher \notin Proc /\ Tee \notin Proc /\ Tee # Launcher
  /\ \A s \in Scripts : Len(Forks(s)) \in Nat
  /\ \A s \in Scripts : \A n \in 1 .. Len(Forks(s)) : Forks(s)[n] \in Proc
  /\ \A s \in Scripts : ToSet(Forks(s)) \subseteq Proc
  /\ Scripts \subseteq {"run_qemu", "aqcxl_sv"}
<1>1. Scripts \subseteq {"run_qemu", "aqcxl_sv"}
  BY ScriptsAssumption
<1>2. \A s \in Scripts : Len(Forks(s)) \in Nat /\ DOMAIN Forks(s) = 1 .. Len(Forks(s))
  <2> SUFFICES ASSUME NEW s \in Scripts
               PROVE  Len(Forks(s)) \in Nat /\ DOMAIN Forks(s) = 1 .. Len(Forks(s))
    OBVIOUS
  <2>1. CASE s = "run_qemu"
    <3>1. Len(Forks(s)) = 5 /\ DOMAIN Forks(s) = 1 .. 5
      BY <2>1 DEF Forks
    <3> QED
      BY <3>1
  <2>2. CASE s # "run_qemu"
    <3>1. Len(Forks(s)) = 2 /\ DOMAIN Forks(s) = 1 .. 2
      BY <2>2 DEF Forks
    <3> QED
      BY <3>1
  <2> QED
    BY <2>1, <2>2
<1>3. \A s \in Scripts : \A n \in DOMAIN Forks(s) : Forks(s)[n] \notin {Launcher, Tee}
  <2> SUFFICES ASSUME NEW s \in Scripts, NEW n \in DOMAIN Forks(s)
               PROVE  Forks(s)[n] \notin {Launcher, Tee}
    OBVIOUS
  <2>1. CASE s = "run_qemu"
    <3>1. n \in 1 .. 5
      BY <2>1 DEF Forks
    <3>2. n = 1 \/ n = 2 \/ n = 3 \/ n = 4 \/ n = 5
      BY <3>1
    <3> QED
      BY <2>1, <3>2 DEF Forks, Launcher, Tee
  <2>2. CASE s # "run_qemu"
    <3>1. n \in 1 .. 2
      BY <2>2 DEF Forks
    <3>2. n = 1 \/ n = 2
      BY <3>1
    <3> QED
      BY <2>2, <3>2 DEF Forks, Launcher, Tee
  <2> QED
    BY <2>1, <2>2
<1>4. \A s \in Scripts : \A n \in DOMAIN Forks(s) : Forks(s)[n] \in Proc
  BY DEF Proc
<1>5. Launcher \notin Proc /\ Tee \notin Proc /\ Tee # Launcher
  BY <1>3 DEF Proc, Launcher, Tee
<1>6. \A s \in Scripts : ToSet(Forks(s)) \subseteq Proc
  BY <1>4 DEF ToSet
<1> QED
  BY <1>1, <1>2, <1>4, <1>5, <1>6

(* What a signal to a set of groups does. *)
LEMMA Killed ==
  ASSUME TypeOK, NEW G, NEW to, KillGroups(G, to)
  PROVE  /\ st' \in [Proc -> Alive \cup {"none", "ended", "killed", "reaped"}]
         /\ \A p \in Proc : st'[p] = st[p] \/ st'[p] = "killed"
         /\ \A p \in Proc : st[p] = "reaped" => st'[p] = "reaped"
         /\ AliveProcs' = {p \in AliveProcs : grp[p] \notin G}
         /\ \A p \in AliveProcs' : st'[p] = st[p]
         /\ tee' \in {"none", "running", "ended", "reaped"}
         /\ tee = "none" => tee' = "none"
         /\ Launcher \notin G => tee' = tee
BY DEF TypeOK, KillGroups, TeeEnds, AliveProcs, Alive

LEMMA InvInit == Init => IInv
<1> SUFFICES ASSUME Init PROVE IInv
  OBVIOUS
<1>1. script \in Scripts /\ Len(Order) \in Nat /\ ToSet(Order) \subseteq Proc
  BY ProcNames DEF Init, Order
<1>2. TypeOK
  <2>1. next \in 1 .. Len(Order) + 1
    BY <1>1 DEF Init
  <2> QED
    BY <1>1, <2>1 DEF Init, TypeOK, Alive
<1>3. Groups /\ Returned /\ Calm /\ Down /\ Piped
  BY <1>1, ProcNames DEF Init, Groups, Returned, Calm, Loud, Down, Piped
<1> QED
  BY <1>2, <1>3 DEF IInv

(* A signal that leaves the sender where it is. *)
LEMMA Signal ==
  ASSUME Settles, IInv, NEW G, KillGroups(G, pc),
         UNCHANGED <<options, next, rid, grp, interrupted>>, sigint' \in SUBSET sigint,
         script \in Settled => next > Len(Order) /\ \A p \in Proc : st[p] # "forked",
         script = "aqcxl_sv" => Launcher \notin G
  PROVE  IInv'
<1>0. TypeOK /\ Groups /\ Returned /\ Calm /\ Down /\ Piped
      /\ script \in {"run_qemu", "aqcxl_sv"}
  BY ProcNames DEF IInv, TypeOK
<1>1. pc' = pc \/ (pc' = "killed" /\ Launcher \in G)
  BY DEF KillGroups
<1>2. UNCHANGED <<script, chosen, opt_q>>
  BY DEF options
<1>3. TypeOK'
  BY <1>0, <1>1, <1>2, Killed DEF TypeOK, Order
<1>4. Groups' /\ Returned'
  BY <1>0, <1>1, <1>2, Killed DEF Groups, GroupOf, Returned, Order
<1>5. Calm'
  BY <1>0, <1>2, Killed DEF Calm, Order
<1>6. Writers = {} => Writers' = {}
  <2> SUFFICES ASSUME NEW p \in Writers' PROVE p \in Writers
    OBVIOUS
  <2>1. p \in AliveProcs /\ p \in AliveProcs' /\ ~ Redirected(p)'
    BY <1>0, Killed DEF Writers
  <2>2. st'[p] = st[p]
    BY <1>0, <2>1, Killed
  <2> QED
    BY <1>2, <2>1, <2>2 DEF Writers, Redirected, options
<1>7. Piped'
  <2>1. Launcher \in G => ~ Running'
    BY DEF KillGroups, Running
  <2>2. Launcher \notin G => pc' = pc
    BY <1>1
  <2> QED
    BY <1>0, <1>2, <2>1, <2>2, Killed DEF Piped, Running
<1>8. Down'
  <2>1. CASE script = "aqcxl_sv"
    BY <1>0, <1>1, <1>2, <2>1, Killed DEF Down
  <2>2. CASE script = "run_qemu"
    <3>1. Launcher \in G => AliveProcs' = {}
      BY <1>0, <2>2, Killed DEF Groups, AliveProcs
    <3>2. AliveProcs = {} => AliveProcs' = {}
      BY <1>0, Killed
    <3> QED
      BY <1>0, <1>1, <1>2, <1>6, <2>2, <3>1, <3>2 DEF Down
  <2> QED
    BY <1>0, <2>1, <2>2
<1> QED
  BY <1>3, <1>4, <1>5, <1>7, <1>8 DEF IInv

LEMMA InvStep == Settles /\ IInv /\ [Next]_vars => IInv'
<1> SUFFICES ASSUME Settles, IInv, [Next]_vars PROVE IInv'
  OBVIOUS
<1>0. TypeOK /\ Groups /\ Returned /\ Calm /\ Down /\ Piped /\ Launcher \notin Proc
      /\ script \in {"run_qemu", "aqcxl_sv"} /\ Len(Order) \in Nat
  BY ProcNames DEF IInv, TypeOK, Order
<1> USE DEF options, Settles
(* A step that sends no signal and forks nothing. *)
<1>1. CASE ForkedAll
  <2>1. TypeOK' /\ Groups' /\ Returned' /\ Calm' /\ Down'
    BY <1>0, <1>1 DEF ForkedAll, TypeOK, Groups, GroupOf, Returned, Order, Calm, Loud,
       Down, AliveProcs
  <2>2. Piped'
    BY <1>0, <1>1 DEF ForkedAll, Piped, Running
  <2> QED
    BY <2>1, <2>2 DEF IInv
<1>2. CASE Fork
  <2>1. pc = "fork" /\ pc' = "fork" /\ next <= Len(Order) /\ next' = next + 1
        /\ UNCHANGED <<script, chosen, opt_q, rid, tee, grp, sigint, interrupted>>
    BY <1>2 DEF Fork
  <2>2. Order[next] \in Proc
    BY <1>0, <2>1, ProcNames DEF TypeOK, Order
  <2>3. st' \in [Proc -> Alive \cup {"none", "ended", "killed", "reaped"}]
        /\ \A p \in Proc : st'[p] = st[p] \/ st'[p] = "forked"
    BY <1>0, <1>2, <2>2 DEF Fork, TypeOK, Alive
  <2>4. TypeOK'
    BY <1>0, <2>1, <2>3 DEF TypeOK, Order
  <2>5. Groups' /\ Returned' /\ Down' /\ Piped'
    BY <1>0, <2>1, <2>3 DEF Groups, GroupOf, Returned, Down, Piped, Running
  <2>6. Calm'
    BY <1>0, <2>1, <2>3 DEF TypeOK, Calm, Loud
  <2> QED
    BY <2>4, <2>5, <2>6 DEF IInv
<1>3. CASE Wait
  <2>1. pc = "wait" /\ pc' = "kill"
        /\ UNCHANGED <<script, chosen, opt_q, next, grp, sigint, interrupted>>
    BY <1>3 DEF Wait
  <2>2. CASE tee = "ended" /\ rid' = Tee /\ tee' = "reaped" /\ UNCHANGED st
    <3>1. script = "run_qemu" /\ interrupted
      BY <1>0, <2>1, <2>2 DEF Piped, Running
    <3>2. TypeOK' /\ Groups' /\ Returned'
      BY <1>0, <2>1, <2>2, <3>1 DEF TypeOK, Groups, GroupOf, Returned, Order
    <3>3. Calm' /\ Down' /\ Piped'
      BY <1>0, <2>1, <2>2, <3>1 DEF Calm, Loud, Down, Piped, Order
    <3> QED
      BY <3>2, <3>3 DEF IInv
  <2>3. ASSUME NEW p \in Proc, st[p] \in {"ended", "killed"}, rid' = p,
               st' = [st EXCEPT ![p] = "reaped"], UNCHANGED tee
        PROVE  IInv'
    <3>1. TypeOK' /\ Groups' /\ Returned'
      BY <1>0, <2>1, <2>3 DEF TypeOK, Groups, GroupOf, Returned, Order
    <3>2. Calm' /\ Down' /\ Piped'
      BY <1>0, <2>1, <2>3 DEF TypeOK, Calm, Loud, Down, Piped, Running, Order
    <3> QED
      BY <3>1, <3>2 DEF IInv
  <2> QED
    BY <1>3, <2>2, <2>3 DEF Wait
(* Signals. *)
<1>4. CASE KillAllProc
  <2>1. pc = "kill" /\ KillGroups(Others, "close")
        /\ UNCHANGED <<script, chosen, opt_q, next, rid, grp, sigint, interrupted>>
    BY <1>4 DEF KillAllProc
  <2>2. Launcher \notin Others
    BY <1>0 DEF Others, Pids
  <2>3. pc' = "close" /\ tee' = tee
    BY <2>1, <2>2 DEF KillGroups
  <2>4. TypeOK'
    BY <1>0, <2>1, <2>3, Killed DEF TypeOK, Order
  <2>5. Groups' /\ Returned'
    BY <1>0, <2>1, <2>3, Killed DEF Groups, GroupOf, Returned, Order
  <2>6. Loud
    BY <1>0, <2>1 DEF Returned, Loud
  <2>7. Calm'
    BY <1>0, <2>1, <2>6, Killed DEF Calm, Order
  <2>8. Down'
    <3>1. script = "aqcxl_sv" => AliveProcs' = {}
      <4> SUFFICES ASSUME script = "aqcxl_sv", NEW p \in AliveProcs PROVE grp[p] \in Others
        BY <1>0, <2>1, Killed
      <4>1. p \in Proc /\ st[p] \in {"perl", "program"}
        BY <1>0, <2>6 DEF AliveProcs, Alive, Calm
      <4>2. grp[p] = p /\ p # rid
        BY <1>0, <2>1, <4>1 DEF Groups, GroupOf, Returned
      <4> QED
        BY <4>1, <4>2 DEF Others, Pids
    <3> QED
      BY <1>0, <2>1, <2>3, <3>1 DEF Down
  <2>9. Piped'
    BY <1>0, <2>1, <2>3 DEF Piped, Running
  <2> QED
    BY <2>4, <2>5, <2>7, <2>8, <2>9 DEF IInv
<1>5. CASE LauncherInt
  <2>1. KillGroups(Pids, pc) /\ sigint' \in SUBSET sigint
        /\ UNCHANGED <<options, next, rid, grp, interrupted>>
    BY <1>0, <1>5 DEF LauncherInt, TypeOK
  <2>2. Loud /\ Launcher \notin Pids
    BY <1>0, <1>5 DEF LauncherInt, Loud, Pids
  <2>3. script \in Settled => next > Len(Order) /\ \A p \in Proc : st[p] # "forked"
    BY <1>0, <2>2 DEF Calm
  <2> QED
    BY <2>1, <2>2, <2>3, Signal
<1>6. ASSUME NEW p \in Proc, ChildKillsAll(p), sigint' \in SUBSET sigint,
             UNCHANGED <<options, next, rid, grp, interrupted>>,
             st[p] \in {"forked", "perl"},
             script \in Settled => next > Len(Order) /\ \A q \in Proc : st[q] # "forked"
      PROVE  IInv'
  <2>1. PICK S \in SUBSET ForkedBefore(p) : KillGroups(S \cup {grp[p]}, pc)
    BY <1>6 DEF ChildKillsAll
  <2>2. Launcher \notin S
    BY <1>0, <2>1 DEF ForkedBefore, TypeOK
  <2>3. script = "aqcxl_sv" => grp[p] = p
    BY <1>0, <1>6 DEF Groups, GroupOf
  <2>4. script = "aqcxl_sv" => Launcher \notin S \cup {grp[p]}
    BY <1>0, <1>6, <2>2, <2>3
  <2> QED
    BY <1>6, <2>1, <2>4, Signal
<1>7. ASSUME NEW p \in Proc, FallThrough(p) PROVE IInv'
  <2>1. ChildKillsAll(p) /\ sigint' \in SUBSET sigint /\ st[p] = "perl"
        /\ UNCHANGED <<options, next, rid, grp, interrupted>>
    BY <1>0, <1>7 DEF FallThrough, TypeOK
  <2>2. script \in Settled => next > Len(Order) /\ \A q \in Proc : st[q] # "forked"
    BY <1>7 DEF FallThrough, AllSettled
  <2> QED
    BY <1>6, <2>1, <2>2
<1>8. ASSUME NEW p \in Proc, ChildInt(p) PROVE IInv'
  <2>1. sigint' \in SUBSET sigint /\ Loud
        /\ UNCHANGED <<options, next, rid, grp, interrupted>>
    BY <1>0, <1>8 DEF ChildInt, TypeOK, Loud
  <2>2. script \in Settled => next > Len(Order) /\ \A q \in Proc : st[q] # "forked"
    BY <1>0, <2>1 DEF Calm
  <2>3. CASE st[p] \in {"forked", "perl"} /\ ChildKillsAll(p)
    BY <1>6, <2>1, <2>2, <2>3
  <2>4. CASE st[p] = "program" /\ st' = [st EXCEPT ![p] = "ended"]
             /\ UNCHANGED <<pc, tee>>
    <3>1. TypeOK' /\ Groups' /\ Returned' /\ Piped'
      BY <1>0, <2>1, <2>4
         DEF TypeOK, Groups, GroupOf, Returned, Order, Piped, Running
    <3>2. AliveProcs' \subseteq AliveProcs /\ Writers' \subseteq Writers
      BY <1>0, <2>1, <2>4 DEF TypeOK, AliveProcs, Alive, Writers, Redirected
    <3>3. Calm' /\ Down'
      BY <1>0, <2>1, <2>2, <2>4, <3>2 DEF TypeOK, Calm, Order, Down
    <3> QED
      BY <3>1, <3>3 DEF IInv
  <2>5. CASE UNCHANGED <<st, pc, tee>>
    <3>1. TypeOK' /\ Groups' /\ Returned' /\ Piped'
      BY <1>0, <2>1, <2>5
         DEF TypeOK, Groups, GroupOf, Returned, Order, Piped, Running
    <3>2. Calm' /\ Down'
      BY <1>0, <2>1, <2>2, <2>5 DEF Calm, Order, Down, AliveProcs, Writers, Redirected
    <3> QED
      BY <3>1, <3>2 DEF IInv
  <2> QED
    BY <1>8, <2>3, <2>4, <2>5 DEF ChildInt
(* The other steps. *)
<1>9. CASE Interrupt
  <2>1. UNCHANGED <<pc, options, next, rid, tee, st, grp>> /\ pc # "exited"
        /\ sigint' \in SUBSET (Proc \cup {Launcher, Tee}) /\ interrupted' = TRUE
        /\ (script = "aqcxl_sv" => Tee \notin sigint')
    <3>1. Tee \notin Proc /\ Tee # Launcher
      BY ProcNames
    <3> QED
      BY <1>0, <1>9, <3>1 DEF Interrupt, AliveProcs, Running, Piped
  <2>2. script \in Settled => next > Len(Order) /\ \A q \in Proc : st[q] # "forked"
    BY <1>9 DEF Interrupt, AllSettled
  <2>3. TypeOK' /\ Groups' /\ Returned'
    BY <1>0, <2>1 DEF TypeOK, Groups, GroupOf, Returned, Order
  <2>4. Calm' /\ Down' /\ Piped'
    BY <1>0, <2>1, <2>2 DEF Calm, Order, Down, AliveProcs, Piped
  <2> QED
    BY <2>3, <2>4 DEF IInv
<1>10. CASE Close
  <2>1. pc = "close" /\ pc' = "exited" /\ Closable
        /\ UNCHANGED <<options, next, rid, st, grp, sigint, interrupted>>
        /\ tee' = IF tee = "none" THEN tee ELSE "reaped"
    BY <1>10 DEF Close
  <2>2. TypeOK' /\ Groups' /\ Returned' /\ Piped'
    BY <1>0, <2>1 DEF TypeOK, Groups, GroupOf, Returned, Order, Piped, Running
  <2>3. script = "run_qemu" /\ ~ interrupted => Writers = {}
    BY <1>0, <2>1 DEF Piped, Running, Closable
  <2>4. Calm' /\ Down'
    BY <1>0, <2>1, <2>3
       DEF Calm, Loud, Order, Down, AliveProcs, Writers, Redirected
  <2> QED
    BY <2>2, <2>4 DEF IInv
<1>11. ASSUME NEW p \in Proc, Enter(p) PROVE IInv'
  <2>1. st[p] = "forked" /\ st' = [st EXCEPT ![p] = "perl"]
        /\ grp' = [grp EXCEPT ![p] = GroupOf(p)]
        /\ UNCHANGED <<pc, options, next, rid, tee, sigint, interrupted>>
    BY <1>11 DEF Enter
  <2>2. GroupOf(p) \in Proc \cup {Launcher} /\ (script = "run_qemu" => GroupOf(p) = Launcher)
    BY DEF GroupOf
  <2>3. TypeOK'
    BY <1>0, <2>1, <2>2 DEF TypeOK, Order, Alive
  <2>4. Groups'
    BY <1>0, <2>1, <2>2 DEF TypeOK, Groups, GroupOf
  <2>5. AliveProcs' = AliveProcs /\ Writers' \subseteq Writers
    BY <1>0, <2>1 DEF TypeOK, AliveProcs, Alive, Writers, Redirected
  <2>6. Returned' /\ Calm' /\ Down' /\ Piped'
    BY <1>0, <2>1, <2>5
       DEF TypeOK, Returned, Calm, Loud, Order, Down, Piped, Running
  <2> QED
    BY <2>3, <2>4, <2>6 DEF IInv
<1>12. ASSUME NEW p \in Proc, Exec(p) PROVE IInv'
  <2>1. st[p] = "perl" /\ st' = [st EXCEPT ![p] = "program"]
        /\ UNCHANGED <<pc, options, next, rid, tee, grp, sigint, interrupted>>
    BY <1>12 DEF Exec
  <2>2. TypeOK' /\ Groups'
    BY <1>0, <2>1 DEF TypeOK, Order, Alive, Groups, GroupOf
  <2>3. AliveProcs' = AliveProcs /\ Writers' \subseteq Writers
    BY <1>0, <2>1 DEF TypeOK, AliveProcs, Alive, Writers, Redirected
  <2>4. Returned' /\ Calm' /\ Down' /\ Piped'
    BY <1>0, <2>1, <2>3
       DEF TypeOK, Returned, Calm, Loud, Order, Down, Piped, Running
  <2> QED
    BY <2>2, <2>4 DEF IInv
<1>13. ASSUME NEW p \in Proc, End(p) PROVE IInv'
  <2>1. st[p] \in {"perl", "program"} /\ st' = [st EXCEPT ![p] = "ended"]
        /\ UNCHANGED <<pc, options, next, rid, tee, grp, sigint, interrupted>>
    BY <1>13 DEF End
  <2>2. script \in Settled => next > Len(Order) /\ \A q \in Proc : st[q] # "forked"
    BY <1>13 DEF End, AllSettled
  <2>3. TypeOK' /\ Groups'
    BY <1>0, <2>1 DEF TypeOK, Order, Alive, Groups, GroupOf
  <2>4. AliveProcs' \subseteq AliveProcs /\ Writers' \subseteq Writers
    BY <1>0, <2>1 DEF TypeOK, AliveProcs, Alive, Writers, Redirected
  <2>5. Returned' /\ Calm' /\ Down' /\ Piped'
    BY <1>0, <2>1, <2>2, <2>4
       DEF TypeOK, Returned, Calm, Order, Down, Piped, Running
  <2> QED
    BY <2>3, <2>5 DEF IInv
<1>14. CASE UNCHANGED vars
  BY <1>0, <1>14 DEF vars, IInv, TypeOK, Groups, GroupOf, Returned, Order, Calm, Loud,
     Down, AliveProcs, Writers, Redirected, Piped, Running
(* Tee and its pipe. *)
<1>15. CASE TeeInt
  <2>1. UNCHANGED <<pc, options, next, rid, st, grp, interrupted>>
        /\ sigint' = sigint \ {Tee} /\ tee' = TeeEnds /\ Tee \in sigint
    BY <1>15 DEF TeeInt
  <2>2. TypeOK' /\ Groups' /\ Returned' /\ Piped'
    BY <1>0, <2>1
       DEF TypeOK, Groups, GroupOf, Returned, Order, Piped, Running, TeeEnds
  <2>3. Calm' /\ Down'
    BY <1>0, <2>1 DEF Calm, Loud, Order, Down, AliveProcs, Writers, Redirected
  <2> QED
    BY <2>2, <2>3 DEF IInv
<1>16. CASE BrokenPipe
  <2>1. pc' = "broken" /\ tee \in {"ended", "reaped"}
        /\ UNCHANGED <<options, next, rid, tee, st, grp, sigint, interrupted>>
    BY <1>16 DEF BrokenPipe
  <2>2. TypeOK' /\ Groups' /\ Returned' /\ Piped'
    BY <1>0, <2>1 DEF TypeOK, Groups, GroupOf, Returned, Order, Piped, Running
  <2>3. Calm' /\ Down'
    BY <1>0, <2>1 DEF Calm, Loud, Order, Down
  <2> QED
    BY <2>2, <2>3 DEF IInv
<1> QED
  BY <1>1, <1>2, <1>3, <1>4, <1>5, <1>7, <1>8, <1>9, <1>10, <1>11, <1>12, <1>13,
     <1>14, <1>15, <1>16
     DEF Next, LauncherStep

-----------------------------------------------------------------------------
(* The strengthened invariant always holds. *)
THEOREM Invariance == Settles /\ Spec => []IInv
<1> SUFFICES ASSUME Settles PROVE Spec => []IInv
  OBVIOUS
<1>1. Init => IInv
  BY InvInit
<1>2. IInv /\ [Next]_vars => IInv'
  BY InvStep
<1> QED
  BY <1>1, <1>2, PTL DEF Spec

(* The variables keep their types. *)
THEOREM TypeCorrect == Settles /\ Spec => []TypeOK
BY Invariance, PTL DEF IInv

(* Whatever programs are chosen, aqcxl_sv.pl kills all of them once one    *)
(* has ended.                                                              *)
THEOREM OthersAreKilled == Settles /\ Spec => []SvKillsOthers
<1>1. IInv => SvKillsOthers
  BY DEF IInv, Down, SvKillsOthers, OthersKilled
<1> QED
  BY <1>1, Invariance, PTL

(* No signal of the launcher or of a child reaches aqcxl_sv.pl itself.     *)
THEOREM LauncherSurvives == Settles /\ Spec => []LauncherSpared
<1>1. IInv => LauncherSpared
  BY DEF IInv, Down, LauncherSpared
<1> QED
  BY <1>1, Invariance, PTL

(* When run_qemu.pl ends without having been interrupted, no program is    *)
(* left that writes to its log; none at all is left of a launcher that was *)
(* killed with its group, nor of aqcxl_sv.pl.                              *)
THEOREM NothingSurvives == Settles /\ Spec => []NoSurvivor
<1>1. IInv => NoSurvivor
  <2>1. TypeOK => script \in {"run_qemu", "aqcxl_sv"}
    BY ProcNames DEF TypeOK
  <2>2. AliveProcs = {} => Writers = {}
    BY DEF Writers
  <2> QED
    BY <2>1, <2>2 DEF IInv, Down, NoSurvivor
<1> QED
  BY <1>1, Invariance, PTL
=============================================================================
