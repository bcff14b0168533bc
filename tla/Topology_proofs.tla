-------------------------- MODULE Topology_proofs --------------------------
(***************************************************************************)
(* The topology that run_qemu.pl builds, and its agreement with the one    *)
(* of the testbench, for any command lines and any size of a window.       *)
(*                                                                         *)
(* Devices are numbered by sums of loop variables, i + j, which is their   *)
(* place in the list only if one of the loops has one round.  IInv says    *)
(* so for every place of the list at every step of the loops; it needs the *)
(* position of the loops, and that the decoders' ports are all there.      *)
(***************************************************************************)
EXTENDS Topology, FiniteSetTheorems, TLAPS

Options == [bfm : BOOLEAN, pci : BOOLEAN, cxl : BOOLEAN, pass : BOOLEAN,
            sw : BOOLEAN, hotplug : BOOLEAN, nDecoder : Digit, nEP : Digit]
SvOptions == [cxl : BOOLEAN, nDecoder : Digit, nEP : Digit]

Device ==
  [model : {"cxl-type3", "remote-port-pci-device"},
   bus : {"rp", "root_port", "downstream_port"} \X Nat,
   id : {"cxl-pmem", "avy_dev"} \X Nat, bdf : Nat, chan : Nat]

(* The loops of run_qemu.pl, and the decoders they have listed. *)
Loops ==
  /\ args \in Seq(Option) /\ opt \in Options
  /\ stage \in {"parse", "decoder", "endpoint", "pci", "done"}
  /\ i \in 0 .. opt.nDecoder /\ j \in 0 .. opt.nEP
  /\ stage = "parse" => i = 0 /\ j = 0
  /\ stage \in {"decoder", "endpoint"} => BuildsCxl
  /\ stage = "endpoint" => i < opt.nDecoder
  /\ stage = "pci" /\ (opt.sw \/ ~ BuildsPci) => i = 0

Decoders ==
  /\ windows = IF stage = "parse" \/ ~ BuildsCxl THEN {}
               ELSE IF stage = "decoder" THEN 0 .. (i - 1)
               ELSE IF stage = "endpoint" THEN 0 .. i
               ELSE 0 .. (opt.nDecoder - 1)
  /\ \A p : p \in ports <=> \E w \in windows :
       \/ p = RootPort(FirstPort(w), w, 0, w)
       \/ p = RootPort(FirstPort(w) + 1, w, 1, w)

OneRow == opt.nDecoder = 1 \/ opt.nEP = 1

(* With one decoder, or one endpoint each, CXL endpoints are numbered as   *)
(* they come. *)
Listed ==
  IF stage = "parse" \/ ~ BuildsCxl THEN 0
  ELSE IF stage = "decoder" THEN IF opt.nEP = 1 THEN i ELSE IF i = 0 THEN 0 ELSE opt.nEP
  ELSE IF stage = "endpoint" THEN i + j
  ELSE IF opt.nEP = 1 THEN opt.nDecoder ELSE opt.nEP

Cxl(n) == IF opt.nEP = 1 THEN CxlEndpoint(n - 1, 0) ELSE CxlEndpoint(0, n - 1)

Pci(k) ==
  IF opt.sw THEN PciDevice(k - 1, <<"downstream_port", k>>, (k + 2) * 256, 0)
  ELSE PciDevice(k - 1, <<"root_port", k - 1>>, PciBdf(k - 1), (k - 1) * 20)

PciListed ==
  IF stage = "pci" THEN i
  ELSE IF stage = "done" /\ BuildsPci THEN IF opt.sw THEN 2 ELSE opt.nDecoder
  ELSE 0

Devices ==
  /\ eps \in Seq(Device)
  /\ stage = "parse" => eps = <<>>
  /\ OneRow =>
       /\ Len(eps) = Listed + PciListed
       /\ \A n \in 1 .. Len(eps) :
            eps[n] = IF n <= Listed THEN Cxl(n) ELSE Pci(n - Listed)

(* The testbench. *)
Testbench ==
  /\ svargs \in Seq(SvOption) /\ svopt \in SvOptions
  /\ svstage \in {"parse", "compiled", "mapped"}
  /\ svstage # "parse" =>
       defines = IF svopt.cxl THEN {"AVERY_CXL"} \cup PortDefines ELSE {}
  /\ svstage = "parse" => defines = {}
  /\ svstage = "mapped" => svopt.cxl
  /\ hdm = IF svstage = "mapped"
           THEN {[port |-> Ranges[g], bdf |-> HdmBdf(Ranges[g]), granule |-> g] :
                   g \in DOMAIN Ranges}
           ELSE {}

IInv == Loops /\ Decoders /\ Devices /\ Testbench

(* The sizes for which no two devices are numbered alike; below a switch   *)
(* PCI devices have the bus addresses of the third endpoint on.            *)
Numbered == OneRow /\ (opt.sw => opt.nDecoder + opt.nEP <= 3)

-----------------------------------------------------------------------------
(* What the options assign.                                                *)

(* Options keep the variables' types.                                      *)
LEMMA AssignKeeps ==
  ASSUME NEW old \in Options, NEW sets,
         \A k \in DOMAIN sets : \/ k \in Dims /\ sets[k] \in Digit
                                \/ k \notin Dims /\ sets[k] = TRUE
  PROVE  Assign(old, sets) \in Options
BY DEF Assign, Options, Dims

(* Options parsed from -dut (run_qemu.pl:636) keep the types.              *)
LEMMA DutKeeps ==
  ASSUME opt \in Options, NEW o \in Option, o.kind \in DOMAIN DutSets
  PROVE  DutDims(o) \in Options
<1>1. \A k \in DOMAIN DutSets[o.kind] : k \notin Dims /\ DutSets[o.kind][k] = TRUE
  BY DEF DutSets, Dims
<1>2. Assign(opt, DutSets[o.kind]) \in Options
  BY <1>1, AssignKeeps
<1>3. \A k \in DOMAIN o.dims : k \in Dims /\ o.dims[k] \in Digit
  BY DEF Option, DimsGiven
<1> QED
  BY <1>2, <1>3, AssignKeeps DEF DutDims

(* So do those that other options set.                                     *)
LEMMA FlagKeeps ==
  ASSUME opt \in Options, NEW o \in Option, o.kind \in DOMAIN FlagSets
  PROVE  Assign(opt, FlagSets[o.kind]) \in Options
<1>1. \A k \in DOMAIN FlagSets[o.kind] :
        \/ k \in Dims /\ FlagSets[o.kind][k] \in Digit
        \/ k \notin Dims /\ FlagSets[o.kind][k] = TRUE
  BY DEF FlagSets, Dims, Digit
<1> QED
  BY <1>1, AssignKeeps

(* So do those of -p in aqcxl_sv.pl.                                       *)
LEMMA ProjectKeeps ==
  ASSUME svopt \in SvOptions, NEW o \in SvOption
  PROVE  Assign([svopt EXCEPT !.cxl = o.kind = "cxl"], o.dims) \in SvOptions
<1>1. \A k \in DOMAIN o.dims : k \in Dims /\ o.dims[k] \in Digit
  BY DEF SvOption, DimsGiven
<1>2. [svopt EXCEPT !.cxl = o.kind = "cxl"] \in SvOptions
  BY DEF SvOptions
<1> QED
  BY <1>1, <1>2 DEF Assign, SvOptions, Dims

-----------------------------------------------------------------------------
(* The invariant                                                           *)

(* It holds before anything is parsed.                                     *)
LEMMA InitOK == Init => IInv
<1> SUFFICES ASSUME Init
             PROVE  IInv
  OBVIOUS
<1>1. PICK c \in CmdLines : args = c.qemu /\ svargs = c.sv
  BY DEF Init
<1>2. args \in Seq(Option) /\ svargs \in Seq(SvOption)
  BY <1>1, CmdLinesAssumption
<1>3. Defaults \in Options
  BY DEF Defaults, Options, Digit
<1>4. SvDefaults \in SvOptions
  BY DEF SvDefaults, SvOptions, Digit
<1>5. Loops
  <2>1. opt.nDecoder \in Nat /\ opt.nEP \in Nat
    BY DEF Init, Defaults
  <2> QED
    BY <1>2, <1>3, <2>1 DEF Init, Loops
<1>6. Decoders
  BY DEF Init, Decoders
<1>7. Devices
  BY DEF Init, Devices, Listed, PciListed
<1>8. Testbench
  BY <1>2, <1>4 DEF Init, Testbench
<1> QED
  BY <1>5, <1>6, <1>7, <1>8 DEF IInv

(* The numbers that the devices are listed by are fixed once the options   *)
(* are parsed.                                                             *)
LEMMA Numbers ==
  ASSUME IInv
  PROVE  opt.nDecoder \in Nat /\ opt.nEP \in Nat /\ i \in Nat /\ j \in Nat
BY DEF IInv, Loops, Options, Digit

(* What the options decide stays decided while devices are listed.         *)
LEMMA Fixed ==
  ASSUME UNCHANGED opt
  PROVE  /\ OneRow' <=> OneRow
         /\ BuildsCxl' <=> BuildsCxl
         /\ BuildsPci' <=> BuildsPci
         /\ \A n : Cxl(n)' = Cxl(n) /\ Pci(n)' = Pci(n) /\ FirstPort(n)' = FirstPort(n)
BY DEF OneRow, BuildsCxl, BuildsPci, Cxl, CxlEndpoint, Pci, PciDevice, PciBdf,
       FirstPort

(* The loops of run_qemu.pl stay within their bounds.                      *)
LEMMA LoopsStep ==
  ASSUME IInv, [Next]_vars
  PROVE  Loops'
<1> USE Numbers
<1>1. CASE ParseDut
  <2>1. Head(args) \in Option /\ args' \in Seq(Option)
    BY <1>1 DEF IInv, Loops, ParseDut
  <2>2. opt' \in Options
    BY <1>1, <2>1, DutKeeps DEF IInv, Loops, ParseDut
  <2>3. opt'.nDecoder \in Nat /\ opt'.nEP \in Nat
    BY <2>2 DEF Options, Digit
  <2> QED
    BY <1>1, <2>1, <2>2, <2>3 DEF IInv, Loops, ParseDut
<1>2. CASE ParseFlag
  <2>1. Head(args) \in Option /\ args' \in Seq(Option)
    BY <1>2 DEF IInv, Loops, ParseFlag
  <2>2. opt' \in Options
    BY <1>2, <2>1, FlagKeeps DEF IInv, Loops, ParseFlag
  <2>3. opt'.nDecoder \in Nat /\ opt'.nEP \in Nat
    BY <2>2 DEF Options, Digit
  <2> QED
    BY <1>2, <2>1, <2>2, <2>3 DEF IInv, Loops, ParseFlag
<1>3. CASE EndOfOptions
  BY <1>3, Fixed DEF IInv, Loops, EndOfOptions
<1>4. CASE AddDecoder
  BY <1>4, Fixed DEF IInv, Loops, AddDecoder
<1>5. CASE AddEndpoint
  BY <1>5, Fixed DEF IInv, Loops, AddEndpoint
<1>6. CASE NextDecoder
  BY <1>6, Fixed DEF IInv, Loops, NextDecoder
<1>7. CASE EndOfDecoders
  BY <1>7, Fixed DEF IInv, Loops, EndOfDecoders
<1>8. CASE AddSwitch
  BY <1>8, Fixed DEF IInv, Loops, AddSwitch
<1>9. CASE AddPci
  BY <1>9, Fixed DEF IInv, Loops, AddPci
<1>10. CASE EndOfPci
  BY <1>10, Fixed DEF IInv, Loops, EndOfPci
<1>11. CASE ParseProject \/ Compile \/ SetHdmRange \/ UNCHANGED vars
  BY <1>11, Fixed
     DEF IInv, Loops, ParseProject, Compile, SetHdmRange, vars, qemuVars
<1> QED
  BY <1>1, <1>2, <1>3, <1>4, <1>5, <1>6, <1>7, <1>8, <1>9, <1>10, <1>11
     DEF Next

(* The windows are those of the decoders listed so far, the root ports two *)
(* for each of them.                                                       *)
LEMMA DecodersStep ==
  ASSUME IInv, [Next]_vars
  PROVE  Decoders'
<1> USE Numbers
<1>1. CASE ParseDut \/ ParseFlag
  BY <1>1 DEF IInv, Decoders, ParseDut, ParseFlag
<1>2. CASE EndOfOptions
  BY <1>2, Fixed DEF IInv, Loops, Decoders, EndOfOptions
<1>3. CASE AddDecoder
  <2>1. windows' = 0 .. i
    BY <1>3 DEF IInv, Loops, Decoders, AddDecoder
  <2>2. \A p : p \in ports' <=> \/ p \in ports
                                \/ p = RootPort(FirstPort(i), i, 0, i)
                                \/ p = RootPort(FirstPort(i) + 1, i, 1, i)
    BY <1>3 DEF AddDecoder
  <2>3. windows' = windows \cup {i}
    BY <1>3 DEF AddDecoder
  <2> QED
    BY <1>3, <2>1, <2>2, <2>3, Fixed DEF IInv, Loops, Decoders, AddDecoder
<1>4. CASE AddEndpoint
  BY <1>4, Fixed DEF IInv, Decoders, AddEndpoint
<1>5. CASE NextDecoder
  BY <1>5, Fixed DEF IInv, Loops, Decoders, NextDecoder
<1>6. CASE EndOfDecoders
  BY <1>6, Fixed DEF IInv, Loops, Decoders, EndOfDecoders
<1>7. CASE AddSwitch \/ AddPci \/ EndOfPci
  <2>1. stage = "pci" /\ stage' \in {"pci", "done"} /\ UNCHANGED <<opt, windows, ports>>
    BY <1>7 DEF AddSwitch, AddPci, EndOfPci
  <2> QED
    BY <2>1, Fixed DEF IInv, Decoders
<1>8. CASE ParseProject \/ Compile \/ SetHdmRange \/ UNCHANGED vars
  <2>1. UNCHANGED <<stage, i, opt, windows, ports>>
    BY <1>8 DEF ParseProject, Compile, SetHdmRange, vars, qemuVars
  <2> QED
    BY <2>1, Fixed DEF IInv, Decoders
<1> QED
  BY <1>1, <1>2, <1>3, <1>4, <1>5, <1>6, <1>7, <1>8 DEF Next

(* The defines and the HDM map are those of the options of aqcxl_sv.pl.    *)
LEMMA TestbenchStep ==
  ASSUME IInv, [Next]_vars
  PROVE  Testbench'
<1>1. CASE ParseProject
  BY <1>1, ProjectKeeps DEF IInv, Testbench, ParseProject
<1>2. CASE Compile
  BY <1>2 DEF IInv, Testbench, Compile, PortDefines
<1>3. CASE SetHdmRange
  BY <1>3
     DEF IInv, Testbench, SetHdmRange, PortDefines, Ranges, SeparateRanges,
         InterleavedRanges, PortNum, HdmBdf
<1>4. CASE UNCHANGED svVars
  BY <1>4
     DEF IInv, Testbench, PortDefines, Ranges, SeparateRanges,
         InterleavedRanges, PortNum, HdmBdf, svVars
<1> QED
  BY <1>1, <1>2, <1>3, <1>4
     DEF Next, ParseDut, ParseFlag, EndOfOptions, AddDecoder, AddEndpoint,
         NextDecoder, EndOfDecoders, AddSwitch, AddPci, EndOfPci, vars

(* A device at the end of the list is numbered by its place.               *)
LEMMA DeviceAdded ==
  ASSUME IInv, UNCHANGED opt, NEW d \in Device, eps' = Append(eps, d), stage' # "parse",
         OneRow => /\ Listed' + PciListed' = Listed + PciListed + 1
                   /\ Listed' = Listed \/ (Listed' = Listed + 1 /\ PciListed = 0)
                   /\ d = IF Listed' = Listed + 1 THEN Cxl(Listed + 1)
                          ELSE Pci(PciListed + 1)
  PROVE  Devices'
<1>1. /\ eps' \in Seq(Device) /\ Len(eps') = Len(eps) + 1 /\ Len(eps) \in Nat
      /\ \A n \in 1 .. Len(eps) : eps'[n] = eps[n]
      /\ eps'[Len(eps) + 1] = d
  BY DEF IInv, Devices
<1>2. CASE ~ OneRow
  BY <1>1, <1>2, Fixed DEF Devices
<1>3. CASE OneRow
  <2>1. Listed \in Nat /\ PciListed \in Nat
    BY Numbers DEF Listed, PciListed
  <2>2. Len(eps) = Listed + PciListed
    BY <1>3 DEF IInv, Devices
  <2>3. \A n \in 1 .. Len(eps) :
          eps[n] = IF n <= Listed THEN Cxl(n) ELSE Pci(n - Listed)
    BY <1>3 DEF IInv, Devices
  <2>4. ASSUME NEW n \in 1 .. Len(eps')
        PROVE  eps'[n] = IF n <= Listed' THEN Cxl(n) ELSE Pci(n - Listed')
    <3>1. CASE n = Len(eps) + 1
      BY <1>1, <1>3, <2>1, <2>2, <3>1
    <3>2. CASE n \in 1 .. Len(eps)
      BY <1>1, <1>3, <2>1, <2>2, <2>3, <3>2
    <3> QED
      BY <1>1, <3>1, <3>2
  <2> QED
    BY <1>1, <1>3, <2>1, <2>2, <2>4, Fixed DEF Devices
<1> QED
  BY <1>2, <1>3

(* A step that lists no device keeps the count.                            *)
LEMMA DevicesStay ==
  ASSUME IInv, UNCHANGED <<opt, eps>>, stage' = "parse" => stage = "parse",
         OneRow => Listed' = Listed /\ PciListed' = PciListed
  PROVE  Devices'
BY Fixed DEF IInv, Devices

(* Every device is listed with the number of its place.                    *)
LEMMA DevicesStep ==
  ASSUME IInv, [Next]_vars
  PROVE  Devices'
<1> USE Numbers
<1>1. CASE ParseDut \/ ParseFlag
  <2>1. stage' = "parse" /\ eps' = <<>>
    BY <1>1 DEF IInv, Devices, ParseDut, ParseFlag
  <2> QED
    BY <2>1 DEF Devices, Listed, PciListed
<1>2. CASE EndOfOptions
  <2>1. /\ stage = "parse" /\ stage' \in {"decoder", "pci"} /\ i' = 0
        /\ UNCHANGED <<opt, eps>>
        /\ stage' = "pci" <=> ~ BuildsCxl
    BY <1>2 DEF IInv, Loops, EndOfOptions
  <2> QED
    BY <2>1, Fixed, DevicesStay DEF Listed, PciListed
<1>3. CASE AddDecoder
  BY <1>3, Fixed, DevicesStay
     DEF IInv, Loops, AddDecoder, OneRow, Listed, PciListed
<1>4. CASE AddEndpoint
  <2>1. CxlEndpoint(i, j) \in Device
    BY DEF CxlEndpoint, Device, FirstPort
  <2>2. /\ stage = "endpoint" /\ BuildsCxl /\ i < opt.nDecoder /\ j < opt.nEP
        /\ UNCHANGED <<opt, stage, i>>
        /\ j' = j + 1 /\ eps' = Append(eps, CxlEndpoint(i, j))
    BY <1>4 DEF IInv, Loops, AddEndpoint
  <2>3. Listed' = Listed + 1 /\ PciListed' = 0 /\ PciListed = 0 /\ Listed = i + j
    BY <2>2, Fixed DEF Listed, PciListed
  <2>4. OneRow => CxlEndpoint(i, j) = Cxl(i + j + 1)
    BY <2>2 DEF OneRow, Cxl
  <2> QED
    BY <2>1, <2>2, <2>3, <2>4, DeviceAdded
<1>5. CASE NextDecoder
  BY <1>5, Fixed, DevicesStay
     DEF IInv, Loops, NextDecoder, OneRow, Listed, PciListed
<1>6. CASE EndOfDecoders
  BY <1>6, Fixed, DevicesStay
     DEF IInv, Loops, EndOfDecoders, OneRow, Listed, PciListed
<1>7. CASE AddSwitch
  <2> DEFINE d1 == PciDevice(0, <<"downstream_port", 1>>, 768, 0)
             d2 == PciDevice(1, <<"downstream_port", 2>>, 1024, 0)
  <2>1. d1 \in Device /\ d2 \in Device
    BY DEF PciDevice, Device
  <2>2. opt.sw => d1 = Pci(1) /\ d2 = Pci(2)
    BY DEF Pci, PciDevice
  <2> HIDE DEF d1, d2
  <2>3. /\ stage = "pci" /\ BuildsPci /\ opt.sw /\ stage' = "done" /\ UNCHANGED opt
        /\ eps' = eps \o <<d1, d2>>
    BY <1>7 DEF AddSwitch, d1, d2
  <2>4. Listed' = Listed /\ PciListed' = 2 /\ PciListed = 0 /\ Listed \in Nat
    BY <2>3, Fixed DEF IInv, Loops, Listed, PciListed
  <2>5. /\ <<d1, d2>> \in Seq(Device) /\ Len(<<d1, d2>>) = 2
        /\ <<d1, d2>>[1] = d1 /\ <<d1, d2>>[2] = d2
    BY <2>1
  <2>6. eps \in Seq(Device) /\ Len(eps) \in Nat
    BY DEF IInv, Devices
  <2>7. /\ eps' \in Seq(Device) /\ Len(eps') = Len(eps) + 2
        /\ \A n \in 1 .. Len(eps) : eps'[n] = eps[n]
        /\ eps'[Len(eps) + 1] = d1 /\ eps'[Len(eps) + 2] = d2
    BY <2>3, <2>5, <2>6
  <2>8. ASSUME OneRow
        PROVE  /\ Len(eps') = Listed' + PciListed'
               /\ \A n \in 1 .. Len(eps') :
                    eps'[n] = IF n <= Listed' THEN Cxl(n) ELSE Pci(n - Listed')
    <3>1. /\ Len(eps) = Listed
          /\ \A n \in 1 .. Len(eps) : eps[n] = Cxl(n)
      BY <2>4, <2>8 DEF IInv, Devices
    <3>2. (Len(eps) + 1) - Listed = 1 /\ (Len(eps) + 2) - Listed = 2
      BY <2>4, <3>1
    <3>3. ASSUME NEW n \in 1 .. Len(eps')
          PROVE  eps'[n] = IF n <= Listed' THEN Cxl(n) ELSE Pci(n - Listed')
      <4>1. n \in 1 .. Len(eps) \/ n = Len(eps) + 1 \/ n = Len(eps) + 2
        BY <2>6, <2>7
      <4> QED
        BY <2>2, <2>3, <2>4, <2>6, <2>7, <3>1, <3>2, <4>1
    <3> QED
      BY <2>4, <2>7, <3>1, <3>3
  <2> QED
    BY <2>3, <2>7, <2>8, Fixed DEF Devices
<1>8. CASE AddPci
  <2> DEFINE d == PciDevice(i, <<"root_port", i>>, PciBdf(i), i * 20)
  <2>1. d \in Device
    BY DEF PciDevice, Device, PciBdf
  <2>2. /\ stage = "pci" /\ BuildsPci /\ ~ opt.sw /\ UNCHANGED <<opt, stage>>
        /\ i' = i + 1
        /\ eps' = Append(eps, d)
    BY <1>8 DEF AddPci
  <2>3. Listed' = Listed /\ PciListed' = PciListed + 1 /\ PciListed = i
    BY <2>2, Fixed DEF Listed, PciListed
  <2>4. d = Pci(i + 1)
    <3>1. (i + 1) - 1 = i
      OBVIOUS
    <3> QED
      BY <2>2, <3>1, Zenon DEF Pci
  <2> HIDE DEF d
  <2>5. /\ Listed' + PciListed' = Listed + PciListed + 1
        /\ Listed' = Listed
        /\ d = IF Listed' = Listed + 1 THEN Cxl(Listed + 1) ELSE Pci(PciListed + 1)
    <3>1. Listed \in Nat /\ i \in Nat
      BY DEF Listed, IInv, Loops, Options, Digit
    <3>2. Listed' # Listed + 1
      BY <2>3, <3>1
    <3>3. Listed' + PciListed' = Listed + PciListed + 1
      BY <2>3, <3>1
    <3> QED
      BY <2>3, <2>4, <3>2, <3>3
  <2>6. stage' # "parse" /\ UNCHANGED opt
    BY <2>2
  <2>7. eps' = Append(eps, d)
    BY <2>2
  <2> QED
    BY <2>1, <2>5, <2>6, <2>7, DeviceAdded
<1>9. CASE EndOfPci
  BY <1>9, Fixed, DevicesStay DEF IInv, Loops, EndOfPci, Listed, PciListed
<1>10. CASE ParseProject \/ Compile \/ SetHdmRange \/ UNCHANGED vars
  <2>1. UNCHANGED <<opt, eps, stage, i, j>>
    BY <1>10 DEF ParseProject, Compile, SetHdmRange, qemuVars, vars
  <2> QED
    BY <2>1, Fixed, DevicesStay DEF Listed, PciListed
<1> QED
  BY <1>1, <1>2, <1>3, <1>4, <1>5, <1>6, <1>7, <1>8, <1>9, <1>10 DEF Next

(* Every step of either program keeps the invariant.                       *)
LEMMA StepKeeps ==
  ASSUME IInv, [Next]_vars
  PROVE  IInv'
BY LoopsStep, DecodersStep, DevicesStep, TestbenchStep DEF IInv

(* The port that set_hdm_range (qemu_rx_pkg.sv) assigns to a granule: the  *)
(* halves of the area in turn, or its granules in turn.                    *)
LEMMA RangesIs ==
  /\ DOMAIN Ranges = 0 .. (PortNum * Win - 1)
  /\ \A g \in DOMAIN Ranges : Ranges[g] \in {0, 1} /\ g \in 0 .. (2 * Win - 1)
  /\ \A g \in DOMAIN Ranges : Ranges[g] =
       IF "APCI_MPORT" \in defines /\ "SEPARATE_EP" \notin defines THEN g % 2
       ELSE IF g < Win THEN 0 ELSE 1
<1>1. PortNum \in {1, 2} /\ ("APCI_MPORT" \in defines <=> PortNum = 2)
  BY DEF PortNum
<1>2. \A g \in 0 .. (PortNum * Win - 1) :
        g \in 0 .. (2 * Win - 1) /\ g \div Win = (IF g < Win THEN 0 ELSE 1)
  BY <1>1, WinAssumption
<1>3. \A g \in 0 .. (2 * Win - 1) : g % 2 \in {0, 1}
  BY WinAssumption
<1>4. CASE "APCI_MPORT" \in defines /\ "SEPARATE_EP" \notin defines
  BY <1>1, <1>3, <1>4 DEF Ranges, InterleavedRanges
<1>5. CASE ~ ("APCI_MPORT" \in defines /\ "SEPARATE_EP" \notin defines)
  BY <1>1, <1>2, <1>5 DEF Ranges, SeparateRanges
<1> QED
  BY <1>4, <1>5

(* The invariant has the type invariant in it.                             *)
LEMMA Types == IInv => TypeOK
<1> SUFFICES ASSUME IInv
             PROVE  TypeOK
  OBVIOUS
<1> USE Numbers
<1>1. opt \in Options /\ svopt \in SvOptions
  BY DEF IInv, Loops, Testbench
<1>2. windows \subseteq 0 .. (opt.nDecoder - 1)
  BY DEF IInv, Loops, Decoders
<1>3. \A p \in ports : p.bridge \in windows
  BY DEF IInv, Decoders, RootPort
<1>4. \A n \in DOMAIN eps : eps[n].model \in {"cxl-type3", "remote-port-pci-device"}
  <2>1. eps \in Seq(Device)
    BY DEF IInv, Devices
  <2>2. \A n \in DOMAIN eps : eps[n] \in Device
    BY <2>1
  <2> QED
    BY <2>2 DEF Device
<1>5. defines \subseteq {"AVERY_CXL", "APCI_MPORT", "SEPARATE_EP"}
  BY DEF IInv, Testbench, PortDefines
<1>6. hdm \subseteq [port : {0, 1}, bdf : {256, 512}, granule : 0 .. (2 * Win - 1)]
  BY RangesIs DEF IInv, Testbench, HdmBdf
<1> QED
  BY <1>1, <1>2, <1>3, <1>4, <1>5, <1>6
     DEF IInv, Loops, Testbench, TypeOK, Options, SvOptions, Digit

(* How many devices there are of each kind.                                *)
LEMMA ListedBounds ==
  ASSUME IInv, OneRow
  PROVE  /\ Listed \in 0 .. 9 /\ PciListed \in 0 .. 9
         /\ Listed # 0 => opt.cxl
         /\ Listed <= opt.nDecoder \/ Listed <= opt.nEP
         /\ opt.sw => PciListed <= 2
<1>1. /\ opt.nDecoder \in 0 .. 9 /\ opt.nEP \in 0 .. 9
      /\ i \in 0 .. opt.nDecoder /\ j \in 0 .. opt.nEP
      /\ stage = "endpoint" => i < opt.nDecoder
  BY DEF IInv, Loops, Options, Digit
<1>2. Listed \in 0 .. 9 /\ (Listed <= opt.nDecoder \/ Listed <= opt.nEP)
  <2>1. CASE opt.nEP = 1
    BY <1>1, <2>1 DEF Listed
  <2>2. CASE opt.nDecoder = 1 /\ opt.nEP # 1
    BY <1>1, <2>2 DEF Listed
  <2> QED
    BY <2>1, <2>2 DEF OneRow
<1>3. PciListed \in 0 .. 9 /\ (opt.sw => PciListed <= 2)
  BY <1>1 DEF IInv, Loops, PciListed
<1>4. Listed # 0 => opt.cxl
  BY DEF Listed, BuildsCxl
<1> QED
  BY <1>2, <1>3, <1>4

(* The n-th CXL endpoint and the k-th PCI device.                          *)
LEMMA CxlIs ==
  ASSUME OneRow, NEW n \in 1 .. 9
  PROVE  /\ Cxl(n).model = "cxl-type3" /\ Cxl(n).id = <<"cxl-pmem", n - 1>>
         /\ Cxl(n).bdf = n * 256 /\ Cxl(n).chan = (n - 1) * 20
<1>1. (n - 1) + 0 = n - 1 /\ 0 + (n - 1) = n - 1 /\ (n - 1) + 1 = n
  OBVIOUS
<1> QED
  BY <1>1 DEF Cxl, CxlEndpoint

LEMMA PciIs ==
  ASSUME NEW k \in 1 .. 9
  PROVE  /\ Pci(k).model = "remote-port-pci-device" /\ Pci(k).id = <<"avy_dev", k - 1>>
         /\ Pci(k).bdf = IF opt.sw THEN (k + 2) * 256
                         ELSE IF opt.cxl THEN k * 257 ELSE k * 256
<1>1. (k - 1) + 1 = k
  OBVIOUS
<1> QED
  BY <1>1 DEF Pci, PciDevice, PciBdf

(* No two devices are numbered alike: CXL endpoint n has bus address 256   *)
(* n, PCI device k has 257 k if CXL is on, and neither runs past 9; the    *)
(* two of a switch have those that CXL endpoints 3 and 4 would have.       *)
LEMMA Distinct == IInv /\ Numbered => DevicesDistinct
<1> SUFFICES ASSUME IInv, Numbered
             PROVE  DevicesDistinct
  OBVIOUS
<1> DEFINE Differ(m, n) == /\ eps[m].id # eps[n].id
                           /\ eps[m].bdf # eps[n].bdf
                           /\ {m, n} \subseteq CxlEps => eps[m].chan # eps[n].chan
<1>1. ASSUME NEW m \in DOMAIN eps, NEW n \in DOMAIN eps, m < n
      PROVE  Differ(m, n)
  <2>1. /\ OneRow /\ Listed \in 0 .. 9 /\ PciListed \in 0 .. 9
        /\ Listed # 0 => opt.cxl
        /\ opt.sw => Listed <= 2
        /\ opt.sw => PciListed <= 2
    <3>1. opt.nDecoder \in Nat /\ opt.nEP \in Nat
      BY Numbers
    <3> QED
      BY <3>1, ListedBounds DEF Numbered, OneRow
  <2>2. /\ m \in Nat \ {0} /\ n \in Nat \ {0} /\ n <= Listed + PciListed
        /\ eps[m] = IF m <= Listed THEN Cxl(m) ELSE Pci(m - Listed)
        /\ eps[n] = IF n <= Listed THEN Cxl(n) ELSE Pci(n - Listed)
    BY <2>1 DEF IInv, Devices
  <2>3. CASE n <= Listed
    <3>1. m \in 1 .. 9 /\ n \in 1 .. 9 /\ eps[m] = Cxl(m) /\ eps[n] = Cxl(n)
      BY <1>1, <2>1, <2>2, <2>3
    <3> QED
      BY <1>1, <2>1, <3>1, CxlIs
  <2>4. CASE m <= Listed /\ Listed < n
    <3> DEFINE k == n - Listed
    <3>1. m \in 1 .. 9 /\ k \in 1 .. 9 /\ eps[m] = Cxl(m) /\ eps[n] = Pci(k)
      BY <2>1, <2>2, <2>4
    <3>2. opt.cxl /\ (opt.sw => m <= 2)
      BY <2>1, <2>2, <2>4
    <3> HIDE DEF k
    <3>3. m * 256 # k * 257 /\ (m <= 2 => m * 256 # (k + 2) * 256)
      BY <3>1
    <3>4. n \notin CxlEps
      BY <3>1, PciIs DEF CxlEps
    <3> QED
      BY <2>1, <3>1, <3>2, <3>3, <3>4, CxlIs, PciIs
  <2>5. CASE Listed < m
    <3> DEFINE k == m - Listed
               l == n - Listed
    <3>1. k \in 1 .. 9 /\ l \in 1 .. 9 /\ k < l /\ eps[m] = Pci(k) /\ eps[n] = Pci(l)
      BY <1>1, <2>1, <2>2, <2>5
    <3> HIDE DEF k, l
    <3>2. n \notin CxlEps
      BY <3>1, PciIs DEF CxlEps
    <3> QED
      BY <3>1, <3>2, PciIs
  <2> QED
    BY <1>1, <2>1, <2>2, <2>3, <2>4, <2>5
<1>2. \A m, n \in DOMAIN eps : m # n => m < n \/ n < m
  BY DEF IInv, Devices
<1>3. \A m, n : Differ(m, n) => Differ(n, m)
  OBVIOUS
<1> QED
  BY <1>1, <1>2, <1>3 DEF DevicesDistinct

-----------------------------------------------------------------------------
(* Endpoints in root ports                                                 *)

(* What can be plugged in: root ports are two per decoder, and numbered    *)
(* with the decoder's number times the number of decoders; an endpoint is  *)
(* one of one decoder's, or the only one of its decoder.                   *)
Plugged == opt.nEP = 1 \/ (opt.nDecoder = 1 /\ opt.nEP = 2)

(* Two decoders' ports have different numbers.                             *)
LEMMA PortsApart ==
  ASSUME NEW D \in 1 .. 9, NEW a \in 0 .. 8, NEW b \in 0 .. 8
  PROVE  /\ a * D = b * D => a = b
         /\ D # 1 => a * D + 1 # b * D
OBVIOUS

(* Once the decoders are listed, the CXL endpoints are the first Listed    *)
(* devices.                                                                *)
LEMMA CxlEpsAre ==
  ASSUME IInv, OneRow, BuiltCxl
  PROVE  /\ CxlEps = 1 .. Listed
         /\ \A n \in CxlEps : n \in 1 .. 9 /\ eps[n] = Cxl(n)
         /\ Listed = IF opt.nEP = 1 THEN opt.nDecoder ELSE opt.nEP
         /\ windows = 0 .. (opt.nDecoder - 1)
<1>1. Listed \in 0 .. 9 /\ PciListed \in 0 .. 9
  BY ListedBounds
<1>2. Listed = IF opt.nEP = 1 THEN opt.nDecoder ELSE opt.nEP
  BY DEF Listed, BuiltCxl
<1>3. windows = 0 .. (opt.nDecoder - 1)
  BY DEF IInv, Decoders, BuiltCxl
<1>4. /\ DOMAIN eps = 1 .. (Listed + PciListed)
      /\ \A n \in DOMAIN eps : eps[n] = IF n <= Listed THEN Cxl(n) ELSE Pci(n - Listed)
  BY <1>1 DEF IInv, Devices
<1>5. ASSUME NEW n \in DOMAIN eps
      PROVE  /\ n <= Listed => n \in 1 .. 9 /\ eps[n] = Cxl(n) /\ n \in CxlEps
             /\ n > Listed => n \notin CxlEps
  <2>1. CASE n <= Listed
    <3>1. n \in 1 .. 9 /\ eps[n] = Cxl(n)
      BY <1>1, <1>4, <2>1
    <3>2. eps[n].model = "cxl-type3"
      BY <3>1, CxlIs
    <3>3. n \in CxlEps
      BY <3>2 DEF CxlEps
    <3> QED
      BY <1>1, <2>1, <3>1, <3>3
  <2>2. CASE n > Listed
    <3>1. n - Listed \in 1 .. 9 /\ eps[n] = Pci(n - Listed)
      BY <1>1, <1>4, <2>2
    <3>2. eps[n].model = "remote-port-pci-device"
      BY <3>1, PciIs
    <3> QED
      BY <1>1, <1>4, <2>2, <3>2 DEF CxlEps
  <2> QED
    BY <1>1, <1>4, <2>1, <2>2
<1>6. \A n \in CxlEps : n \in DOMAIN eps
  BY DEF CxlEps
<1>7. \A n : n \in CxlEps <=> n \in 1 .. Listed
  BY <1>1, <1>4, <1>5, <1>6
<1>8. CxlEps = 1 .. Listed
  BY <1>7
<1>9. \A n \in CxlEps : n \in 1 .. 9 /\ eps[n] = Cxl(n)
  BY <1>1, <1>5, <1>6, <1>7
<1> QED
  BY <1>2, <1>3, <1>8, <1>9

(* The root port that CXL endpoint n asks for.                             *)
LEMMA CxlBus ==
  ASSUME NEW n
  PROVE  Cxl(n).bus = IF opt.nEP = 1 THEN <<"rp", FirstPort(n - 1) + 0>>
                      ELSE <<"rp", FirstPort(0) + (n - 1)>>
BY DEF Cxl, CxlEndpoint

(* The endpoints below one decoder.                                        *)
LEMMA UnderIs ==
  ASSUME IInv, Plugged, BuiltCxl, NEW w \in windows
  PROVE  /\ opt.nEP = 1 => Under(w) = {w + 1} /\ w + 1 \in CxlEps
         /\ opt.nEP # 1 => Under(w) = {1, 2} /\ w = 0
<1>1. OneRow
  BY DEF Plugged, OneRow
<1>2. /\ opt.nDecoder \in 0 .. 9 /\ opt.nEP \in 0 .. 9
      /\ CxlEps = 1 .. (IF opt.nEP = 1 THEN opt.nDecoder ELSE opt.nEP)
      /\ \A n \in CxlEps : eps[n] = Cxl(n)
      /\ windows = 0 .. (opt.nDecoder - 1)
  BY <1>1, CxlEpsAre DEF IInv, Loops, Options, Digit
<1>3. \A n : n \in Under(w) <=>
        n \in CxlEps /\ \E p \in ports : p.id = eps[n].bus /\ p.bridge = w
  BY DEF Under, CxlEps
<1>4. \A bus : (\E p \in ports : p.id = bus /\ p.bridge = w) <=>
        bus = <<"rp", FirstPort(w)>> \/ bus = <<"rp", FirstPort(w) + 1>>
  <2> DEFINE p0 == RootPort(FirstPort(w), w, 0, w)
             p1 == RootPort(FirstPort(w) + 1, w, 1, w)
  <2>1. p0 \in ports /\ p1 \in ports
    BY DEF IInv, Decoders
  <2>2. \A p \in ports : p.bridge = w => p = p0 \/ p = p1
    BY DEF IInv, Decoders, RootPort
  <2>3. /\ p0.id = <<"rp", FirstPort(w)>> /\ p0.bridge = w
        /\ p1.id = <<"rp", FirstPort(w) + 1>> /\ p1.bridge = w
    BY DEF RootPort
  <2> HIDE DEF p0, p1
  <2> QED
    BY <2>1, <2>2, <2>3
<1>5. CASE opt.nEP = 1
  <2>1. w \in 0 .. 8 /\ opt.nDecoder \in 1 .. 9 /\ w + 1 \in CxlEps
    BY <1>2, <1>5
  <2>2. ASSUME NEW n \in CxlEps
        PROVE  n \in Under(w) <=> n = w + 1
    <3>1. n \in 1 .. 9 /\ n - 1 \in 0 .. 8 /\ n <= opt.nDecoder
      BY <1>2, <1>5, <2>2
    <3>2. eps[n].bus = <<"rp", (n - 1) * opt.nDecoder + 0>>
      BY <1>2, <1>5, <3>1, CxlBus DEF FirstPort
    <3>3. n \in Under(w) <=> \/ (n - 1) * opt.nDecoder + 0 = w * opt.nDecoder
                             \/ (n - 1) * opt.nDecoder + 0 = w * opt.nDecoder + 1
      BY <1>3, <1>4, <3>2 DEF FirstPort
    <3>4. (n - 1) * opt.nDecoder \in Nat /\ w * opt.nDecoder \in Nat
      BY <2>1, <3>1
    <3>5. CASE opt.nDecoder = 1
      BY <2>1, <3>1, <3>3, <3>5, <1>2
    <3>6. CASE opt.nDecoder # 1
      <4>1. /\ (n - 1) * opt.nDecoder = w * opt.nDecoder => n - 1 = w
            /\ (n - 1) * opt.nDecoder # w * opt.nDecoder + 1
        BY <2>1, <3>1, <3>6, PortsApart
      <4> QED
        BY <2>1, <3>1, <3>3, <3>4, <4>1
    <3> QED
      BY <3>5, <3>6
  <2>3. \A n : n \in Under(w) => n \in CxlEps
    BY <1>3
  <2> QED
    BY <1>5, <2>1, <2>2, <2>3
<1>6. CASE opt.nEP # 1
  <2>1. opt.nDecoder = 1 /\ opt.nEP = 2 /\ w = 0 /\ CxlEps = {1, 2}
    BY <1>2, <1>6 DEF Plugged
  <2>2. eps[1].bus = <<"rp", 0>> /\ eps[2].bus = <<"rp", 1>>
    <3>1. FirstPort(0) + (1 - 1) = 0 /\ FirstPort(0) + (2 - 1) = 1
      BY <2>1 DEF FirstPort
    <3> QED
      BY <1>2, <2>1, <3>1, CxlBus
  <2>3. FirstPort(w) = 0
    BY <2>1 DEF FirstPort
  <2> QED
    BY <1>3, <1>4, <1>6, <2>1, <2>2, <2>3
<1> QED
  BY <1>5, <1>6

(* Each decoder has its endpoints, each endpoint a port of its own.        *)
LEMMA Endpoints == IInv /\ Plugged => EndpointsPerDecoder
<1> SUFFICES ASSUME IInv, Plugged, BuiltCxl
             PROVE  /\ \A w \in windows : Cardinality(Under(w)) = opt.nEP
                    /\ \A m, n \in CxlEps : m # n => eps[m].bus # eps[n].bus
  BY DEF EndpointsPerDecoder
<1>1. OneRow
  BY DEF Plugged, OneRow
<1>2. /\ opt.nDecoder \in 0 .. 9 /\ opt.nEP \in 0 .. 9
      /\ CxlEps = 1 .. Listed
      /\ \A n \in CxlEps : n \in 1 .. 9 /\ eps[n] = Cxl(n)
      /\ Listed = IF opt.nEP = 1 THEN opt.nDecoder ELSE opt.nEP
  BY <1>1, CxlEpsAre DEF IInv, Loops, Options, Digit
<1>3. ASSUME NEW w \in windows
      PROVE  Cardinality(Under(w)) = opt.nEP
  <2>1. CASE opt.nEP = 1
    BY <2>1, UnderIs, FS_Singleton
  <2>2. CASE opt.nEP # 1
    <3>1. Under(w) = 1 .. opt.nEP
      <4>1. Under(w) = {1, 2} /\ opt.nEP = 2
        BY <2>2, UnderIs DEF Plugged
      <4> QED
        BY <4>1
    <3>2. Cardinality(1 .. opt.nEP) = opt.nEP
      BY <1>2, FS_Interval
    <3> QED
      BY <3>1, <3>2
  <2> QED
    BY <2>1, <2>2
<1>4. ASSUME NEW m \in CxlEps, NEW n \in CxlEps, m # n
      PROVE  eps[m].bus # eps[n].bus
  <2>1. CASE opt.nEP = 1
    <3>1. /\ m - 1 \in 0 .. 8 /\ n - 1 \in 0 .. 8 /\ opt.nDecoder \in 1 .. 9
          /\ m - 1 # n - 1
      BY <1>2, <1>4, <2>1
    <3>2. (m - 1) * opt.nDecoder # (n - 1) * opt.nDecoder
      BY <3>1, PortsApart
    <3>3. /\ eps[m].bus = <<"rp", (m - 1) * opt.nDecoder + 0>>
          /\ eps[n].bus = <<"rp", (n - 1) * opt.nDecoder + 0>>
      BY <1>2, <2>1, CxlBus DEF FirstPort
    <3>4. (m - 1) * opt.nDecoder \in Nat /\ (n - 1) * opt.nDecoder \in Nat
      BY <3>1
    <3> QED
      BY <3>2, <3>3, <3>4
  <2>2. CASE opt.nEP # 1
    <3>1. m \in 1 .. 9 /\ n \in 1 .. 9 /\ opt.nDecoder = 1
      BY <1>2, <2>2 DEF Plugged
    <3>2. eps[m].bus = <<"rp", m - 1>> /\ eps[n].bus = <<"rp", n - 1>>
      <4>1. FirstPort(0) + (m - 1) = m - 1 /\ FirstPort(0) + (n - 1) = n - 1
        BY <3>1 DEF FirstPort
      <4> QED
        BY <1>2, <2>2, <4>1, CxlBus
    <3> QED
      BY <1>4, <3>1, <3>2
  <2> QED
    BY <2>1, <2>2
<1> QED
  BY <1>3, <1>4

-----------------------------------------------------------------------------
(* Windows and their routes                                                *)

(* The sizes that the usage of both programs shows (run_qemu.pl:476-478,   *)
(* aqcxl_sv.pl:76-78), and one decoder of one endpoint, the default.       *)
Documented == <<opt.nDecoder, opt.nEP>> \in {<<1, 1>>, <<2, 1>>, <<1, 2>>}

(* The user typed the same size at both programs.                          *)
SameSize == svopt.nDecoder = opt.nDecoder /\ svopt.nEP = opt.nEP

(* The one route of granule g.                                             *)
Route(g) == [port |-> Ranges[g], bdf |-> HdmBdf(Ranges[g]), granule |-> g]

(* What the root complex is told about a decoder's window.                 *)
LEMMA RoutesAre ==
  ASSUME IInv, Documented, SameSize, BuiltCxl, svstage = "mapped",
         NEW w \in windows, NEW g \in Window(w)
  PROVE  /\ g \in DOMAIN Ranges
         /\ opt.nEP = 1 => Ranges[g] = w
         /\ opt.nEP = 2 => w = 0 /\ Ranges[g] = g % 2
<1>1. /\ opt.nDecoder \in {1, 2} /\ opt.nEP \in {1, 2}
      /\ ~ (opt.nDecoder = 2 /\ opt.nEP = 2)
      /\ svopt.nDecoder = opt.nDecoder /\ svopt.nEP = opt.nEP
  BY DEF Documented, SameSize
<1>2. w \in 0 .. (opt.nDecoder - 1)
  BY DEF IInv, Decoders, BuiltCxl
<1>3. /\ "APCI_MPORT" \in defines <=> opt.nDecoder = 2 \/ opt.nEP = 2
      /\ "SEPARATE_EP" \in defines <=> opt.nDecoder = 2
  BY <1>1 DEF IInv, Testbench, PortDefines
<1>4. PortNum = IF opt.nDecoder = 2 \/ opt.nEP = 2 THEN 2 ELSE 1
  BY <1>3 DEF PortNum
<1>5. CASE w = 0
  <2>1. g \in 0 .. (Win - 1)
    BY <1>5, WinAssumption DEF Window
  <2>2. g \in 0 .. (PortNum * Win - 1)
    BY <1>4, <2>1, WinAssumption
  <2> QED
    BY <1>1, <1>3, <1>5, <2>1, <2>2, RangesIs, WinAssumption
<1>6. CASE w = 1
  <2>1. g \in Win .. (2 * Win - 1) /\ PortNum = 2 /\ opt.nDecoder = 2
    BY <1>1, <1>2, <1>4, <1>6, WinAssumption DEF Window
  <2>2. g \in 0 .. (PortNum * Win - 1)
    BY <2>1, WinAssumption
  <2> QED
    BY <1>1, <1>3, <1>6, <2>1, <2>2, RangesIs, WinAssumption
<1> QED
  BY <1>1, <1>2, <1>5, <1>6

(* Each window is routed to the endpoints below its decoder.               *)
LEMMA Routed ==
  ASSUME Win >= 2, IInv, Documented, SameSize
  PROVE  WindowsRouted
<1> SUFFICES ASSUME BuiltCxl, svstage = "mapped"
             PROVE  /\ \A w \in windows : \A g \in Window(w) :
                         /\ Cardinality({h \in hdm : h.granule = g}) = 1
                         /\ \A h \in hdm : h.granule = g =>
                              \E n \in Under(w) : eps[n].bdf = h.bdf
                    /\ \A n \in CxlEps : \E h \in hdm, w \in windows :
                         n \in Under(w) /\ h.bdf = eps[n].bdf /\ h.granule \in Window(w)
  BY DEF WindowsRouted
<1>1. Plugged /\ OneRow /\ opt.nEP \in {1, 2} /\ opt.nDecoder \in {1, 2}
  BY DEF Documented, Plugged, OneRow
<1>2. \A h : h \in hdm <=> \E g \in DOMAIN Ranges : h = Route(g)
  BY DEF IInv, Testbench, Route
<1>3. \A g : Route(g).granule = g /\ Route(g).bdf = HdmBdf(Ranges[g])
  BY DEF Route
<1>4. \A n \in CxlEps : n \in 1 .. 9 /\ eps[n].bdf = n * 256
  <2>1. \A n \in CxlEps : n \in 1 .. 9 /\ eps[n] = Cxl(n)
    BY <1>1, CxlEpsAre
  <2> QED
    BY <1>1, <2>1, CxlIs
<1>5. \A w \in windows : \A g \in Window(w) : g \in DOMAIN Ranges
  BY RoutesAre
<1>6. windows = 0 .. (opt.nDecoder - 1)
  BY <1>1, CxlEpsAre
<1>7. \A w \in windows : \A n \in Under(w) : n \in CxlEps
  BY DEF Under
<1>8. ASSUME NEW w \in windows, NEW g \in Window(w)
      PROVE  /\ Cardinality({h \in hdm : h.granule = g}) = 1
             /\ \A h \in hdm : h.granule = g => \E n \in Under(w) : eps[n].bdf = h.bdf
  <2>1. {h \in hdm : h.granule = g} = {Route(g)}
    BY <1>2, <1>3, <1>5
  <2>2. Cardinality({h \in hdm : h.granule = g}) = 1
    BY <2>1, FS_Singleton
  <2>3. \E n \in Under(w) : n = Ranges[g] + 1
    <3>1. CASE opt.nEP = 1
      BY <1>1, <3>1, UnderIs, RoutesAre
    <3>2. CASE opt.nEP = 2
      <4>1. Under(w) = {1, 2}
        BY <1>1, <3>2, UnderIs
      <4>2. g \in DOMAIN Ranges
        BY <1>5
      <4>3. Ranges[g] \in {0, 1}
        BY <4>2, RangesIs
      <4> QED
        BY <4>1, <4>3
    <3> QED
      BY <1>1, <3>1, <3>2
  <2>4. ASSUME NEW h \in hdm, h.granule = g
        PROVE  \E n \in Under(w) : eps[n].bdf = h.bdf
    <3>1. h.bdf = (Ranges[g] + 1) * 256
      BY <1>2, <1>3, <2>4 DEF HdmBdf
    <3> QED
      BY <1>4, <1>7, <2>3, <3>1
  <2> QED
    BY <2>2, <2>4
<1>9. ASSUME NEW n \in CxlEps
      PROVE  \E h \in hdm, w \in windows :
               n \in Under(w) /\ h.bdf = eps[n].bdf /\ h.granule \in Window(w)
  <2>1. n \in 1 .. Listed /\ Listed = IF opt.nEP = 1 THEN opt.nDecoder ELSE opt.nEP
    BY <1>1, CxlEpsAre
  <2>2. \E w \in windows, g \in Nat :
          n \in Under(w) /\ g \in Window(w) /\ n = Ranges[g] + 1
    <3>1. CASE opt.nEP = 1
      <4> DEFINE w == n - 1
                 g == w * Win
      <4>1. w \in windows /\ w \in {0, 1} /\ w + 1 = n
        BY <1>1, <1>6, <2>1, <3>1
      <4>2. g \in Nat /\ g \in Window(w)
        BY <4>1, WinAssumption DEF Window
      <4> HIDE DEF g, w
      <4>3. Ranges[g] = w
        BY <3>1, <4>1, <4>2, RoutesAre
      <4>4. n \in Under(w)
        BY <1>1, <3>1, <4>1, UnderIs
      <4> QED
        BY <4>1, <4>2, <4>3, <4>4
    <3>2. CASE opt.nEP = 2
      <4> DEFINE g == n - 1
      <4>1. opt.nDecoder = 1 /\ 0 \in windows
        BY <1>1, <1>6, <3>2 DEF Documented
      <4>2. g \in {0, 1} /\ g \in Window(0) /\ n \in {1, 2} /\ g % 2 = g /\ g + 1 = n
        BY <2>1, <3>2, WinAssumption DEF Window
      <4> HIDE DEF g
      <4>3. Ranges[g] = g
        BY <3>2, <4>1, <4>2, RoutesAre
      <4>4. n \in Under(0)
        BY <1>1, <3>2, <4>1, <4>2, UnderIs
      <4> QED
        BY <4>1, <4>2, <4>3, <4>4
    <3> QED
      BY <1>1, <3>1, <3>2
  <2>3. PICK w \in windows, g \in Nat :
          n \in Under(w) /\ g \in Window(w) /\ n = Ranges[g] + 1
    BY <2>2
  <2>4. Route(g) \in hdm
    BY <1>2, <1>5, <2>3
  <2>5. Route(g).bdf = eps[n].bdf
    BY <1>3, <1>4, <2>3 DEF HdmBdf
  <2> QED
    BY <1>3, <2>3, <2>4, <2>5
<1> QED
  BY <1>8, <1>9

-----------------------------------------------------------------------------
(* Theorems                                                                *)

(* The invariant holds at every step of run_qemu.pl and aqcxl_sv.pl, in    *)
(* any order, for any command lines and any size of a window.              *)
THEOREM Invariance == Spec => []IInv
<1>1. Init => IInv
  BY InitOK
<1>2. IInv /\ [Next]_vars => IInv'
  BY StepKeeps
<1> QED
  BY <1>1, <1>2, PTL DEF Spec

(* The variables of both programs keep their types, and their loops their  *)
(* bounds.                                                                 *)
THEOREM TypeCorrect == Spec => []TypeOK
BY Invariance, Types, PTL

(* As long as there is one decoder or one endpoint each, and no more than  *)
(* three of both with a switch, no two devices that run_qemu.pl lists have *)
(* the same id or bus address, and no two CXL endpoints the same channel.  *)
THEOREM NumbersDistinct == Spec => [](Numbered => DevicesDistinct)
<1>1. IInv => (Numbered => DevicesDistinct)
  BY Distinct
<1> QED
  BY <1>1, Invariance, PTL

(* Once the CXL devices are listed, every decoder has its number of        *)
(* endpoints in ports of its own, for any number of decoders of one        *)
(* endpoint, or one decoder of two, in whatever order they are asked for.  *)
THEOREM EndpointsPlugged ==
  Spec => [](Plugged => EndpointsPerDecoder)
<1>1. IInv => (Plugged => EndpointsPerDecoder)
  BY Endpoints
<1> QED
  BY <1>1, Invariance, PTL

(* With the sizes that the usage of both programs shows, typed alike at    *)
(* both programs, every granule of a window is routed to one endpoint      *)
(* below its decoder, and every endpoint has one. Two interleaved          *)
(* endpoints need a window of two granules at least.                       *)
THEOREM SidesAgree ==
  ASSUME Win >= 2
  PROVE  Spec => [](Documented /\ SameSize => WindowsRouted)
<1>1. IInv => (Documented /\ SameSize => WindowsRouted)
  BY Routed
<1> QED
  BY <1>1, Invariance, PTL
=============================================================================
