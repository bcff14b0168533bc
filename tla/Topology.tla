------------------------------ MODULE Topology ------------------------------
(***************************************************************************)
(* The device topology of one simulation, which is configured twice.       *)
(* run_qemu.pl turns its options into QEMU's decoders, root ports and      *)
(* endpoints; aqcxl_sv.pl turns its own into preprocessor defines, from    *)
(* which set_hdm_range (qemu_rx_pkg.sv) tells the root complex which       *)
(* addresses belong to which endpoint.  The two run side by side and share *)
(* nothing but what the user types at both.                                *)
(*                                                                         *)
(* An option is [kind, dims]: kind selects the variables that the option   *)
(* assigns, dims is the function nDecoder/nEP -> digit of those given in   *)
(* its value.  Addresses of the HDM area are counted in granules.          *)
(***************************************************************************)
EXTENDS Naturals, Sequences, FiniteSets

CONSTANTS
    CmdLines,   \* what a user types: records of two option sequences, qemu and sv
    Win         \* granules in 512M: the size of an endpoint and of a window

ASSUME WinAssumption == Win \in Nat \ {0}

VARIABLES
    args,       \* run_qemu.pl: the options not yet parsed
    opt,        \* its $opt_... variables
    stage,      \* where it is
    i, j,       \* its loop variables
    windows,    \* decoders cxl.i, each with a fixed memory window
    ports,      \* root ports
    eps,        \* endpoints, in the order of the command line
    svargs,     \* aqcxl_sv.pl: the options not yet parsed
    svopt,      \* its $opt_... variables
    svstage,
    defines,    \* the defines the testbench is compiled with
    hdm         \* the root complex's HDM map

qemuVars == <<args, opt, stage, i, j, windows, ports, eps>>
svVars == <<svargs, svopt, svstage, defines, hdm>>
vars == <<qemuVars, svVars>>

Dims == {"nDecoder", "nEP"}

-----------------------------------------------------------------------------
(* run_qemu.pl: options *)

Defaults ==
    [bfm |-> FALSE, pci |-> FALSE, cxl |-> TRUE, pass |-> FALSE,
     sw |-> FALSE, hotplug |-> FALSE, nDecoder |-> 1, nEP |-> 1]

\* What "-dut bfm=...|passthru" assigns.
DutSets ==
    [pcie     |-> [bfm |-> TRUE, pci |-> TRUE],
     cxl      |-> [bfm |-> TRUE, cxl |-> TRUE],
     passthru |-> [pass |-> TRUE]]

\* What the other options that shape the topology assign.
FlagSets ==
    [dual    |-> [nDecoder |-> 2],
     bfm     |-> [bfm |-> TRUE],
     switch  |-> [sw |-> TRUE],
     hotplug |-> [hotplug |-> TRUE]]

\* A value of -dut or -p names any of the dimensions, each by a digit.
Digit == 0 .. 9
DimsGiven == UNION {[D -> Digit] : D \in SUBSET Dims}
Option == [kind : DOMAIN DutSets \cup DOMAIN FlagSets, dims : DimsGiven]
SvOption == [kind : STRING, dims : DimsGiven]

ASSUME CmdLinesAssumption ==
    \A c \in CmdLines : c.qemu \in Seq(Option) /\ c.sv \in Seq(SvOption)

Assign(old, sets) ==
    [k \in DOMAIN old |-> IF k \in DOMAIN sets THEN sets[k] ELSE old[k]]

DutDims(o) == Assign(Assign(opt, DutSets[o.kind]), o.dims)

ParseDut ==
    /\ stage = "parse"
    /\ args # <<>>
    /\ Head(args).kind \in DOMAIN DutSets
    /\ opt' = DutDims(Head(args))
    /\ args' = Tail(args)
    /\ UNCHANGED <<stage, i, j, windows, ports, eps, svVars>>

ParseFlag ==
    /\ stage = "parse"
    /\ args # <<>>
    /\ Head(args).kind \in DOMAIN FlagSets
    /\ opt' = Assign(opt, FlagSets[Head(args).kind])
    /\ args' = Tail(args)
    /\ UNCHANGED <<stage, i, j, windows, ports, eps, svVars>>

-----------------------------------------------------------------------------
(* run_qemu.pl: devices *)

BuildsCxl == opt.cxl /\ opt.bfm /\ ~opt.pass
BuildsPci == opt.pci /\ opt.bfm /\ ~opt.hotplug

EndOfOptions ==
    /\ stage = "parse"
    /\ args = <<>>
    /\ stage' = IF BuildsCxl THEN "decoder" ELSE "pci"
    /\ UNCHANGED <<args, opt, i, j, windows, ports, eps, svVars>>

RootPort(n, bridge, chassis, slot) ==
    [id |-> <<"rp", n>>, bridge |-> bridge, chassis |-> chassis, slot |-> slot]

(* Fault: one root port per decoder in the numbering. *)
FirstPortOfOne(d) == d

FirstPort(d) == d * opt.nDecoder

\* A decoder cxl.i and its two root ports.
AddDecoder ==
    /\ stage = "decoder"
    /\ i < opt.nDecoder
    /\ windows' = windows \cup {i}
    /\ ports' = ports \cup {RootPort(FirstPort(i), i, 0, i),
                            RootPort(FirstPort(i) + 1, i, 1, i)}
    /\ stage' = "endpoint"
    /\ j' = 0
    /\ UNCHANGED <<args, opt, i, eps, svVars>>

CxlEndpoint(d, e) ==
    [model |-> "cxl-type3", bus |-> <<"rp", FirstPort(d) + e>>,
     id |-> <<"cxl-pmem", d + e>>, bdf |-> (d + e + 1) * 256, chan |-> (d + e) * 20]

AddEndpoint ==
    /\ stage = "endpoint"
    /\ j < opt.nEP
    /\ eps' = Append(eps, CxlEndpoint(i, j))
    /\ j' = j + 1
    /\ UNCHANGED <<args, opt, stage, i, windows, ports, svVars>>

NextDecoder ==
    /\ stage = "endpoint"
    /\ j = opt.nEP
    /\ i' = i + 1
    /\ stage' = "decoder"
    /\ UNCHANGED <<args, opt, j, windows, ports, eps, svVars>>

EndOfDecoders ==
    /\ stage = "decoder"
    /\ i = opt.nDecoder
    /\ i' = 0
    /\ stage' = "pci"
    /\ UNCHANGED <<args, opt, j, windows, ports, eps, svVars>>

PciDevice(n, bus, bdf, chan) ==
    [model |-> "remote-port-pci-device", bus |-> bus,
     id |-> <<"avy_dev", n>>, bdf |-> bdf, chan |-> chan]

(* Fault: PCI and CXL devices from the same bus address on. *)
UnshiftedBdf(n) == (n + 1) * 256

PciBdf(n) == (n + 1) * (256 + IF opt.cxl THEN 1 ELSE 0)

\* Two devices below a switch.
AddSwitch ==
    /\ stage = "pci"
    /\ BuildsPci /\ opt.sw
    /\ eps' = eps \o <<PciDevice(0, <<"downstream_port", 1>>, 768, 0),
                       PciDevice(1, <<"downstream_port", 2>>, 1024, 0)>>
    /\ stage' = "done"
    /\ UNCHANGED <<args, opt, i, j, windows, ports, svVars>>

AddPci ==
    /\ stage = "pci"
    /\ BuildsPci /\ ~opt.sw
    /\ i < opt.nDecoder
    /\ eps' = Append(eps, PciDevice(i, <<"root_port", i>>, PciBdf(i), i * 20))
    /\ i' = i + 1
    /\ UNCHANGED <<args, opt, stage, j, windows, ports, svVars>>

EndOfPci ==
    /\ stage = "pci"
    /\ BuildsPci => ~opt.sw /\ i = opt.nDecoder
    /\ stage' = "done"
    /\ UNCHANGED <<args, opt, i, j, windows, ports, eps, svVars>>

-----------------------------------------------------------------------------
(* aqcxl_sv.pl and the testbench it compiles *)

SvDefaults == [cxl |-> FALSE, nDecoder |-> 1, nEP |-> 1]

\* -p: the project named last counts, the numbers stay.
ParseProject ==
    /\ svstage = "parse"
    /\ svargs # <<>>
    /\ svopt' = Assign([svopt EXCEPT !.cxl = Head(svargs).kind = "cxl"], Head(svargs).dims)
    /\ svargs' = Tail(svargs)
    /\ UNCHANGED <<svstage, defines, hdm, qemuVars>>

(* Fault: several ports are always interleaved. *)
NoSeparateEp ==
    IF svopt.nDecoder # 1 \/ svopt.nEP # 1 THEN {"APCI_MPORT"} ELSE {}

PortDefines ==
    (IF svopt.nDecoder # 1 \/ svopt.nEP # 1 THEN {"APCI_MPORT"} ELSE {})
        \cup (IF svopt.nDecoder # 1 THEN {"SEPARATE_EP"} ELSE {})

Compile ==
    /\ svstage = "parse"
    /\ svargs = <<>>
    /\ defines' = IF svopt.cxl THEN {"AVERY_CXL"} \cup PortDefines ELSE {}
    /\ svstage' = "compiled"
    /\ UNCHANGED <<svargs, svopt, hdm, qemuVars>>

PortNum == IF "APCI_MPORT" \in defines THEN 2 ELSE 1

(* Fault: ports counted from bus 0. *)
BdfFromZero(p) == p * 256

HdmBdf(p) == (p + 1) * 256

Window(w) == (w * Win) .. ((w + 1) * Win - 1)

\* One contiguous range per port, or granules dealt out in turn.
SeparateRanges == [g \in 0 .. (PortNum * Win - 1) |-> g \div Win]
InterleavedRanges == [g \in 0 .. (2 * Win - 1) |-> g % PortNum]

Ranges == IF "APCI_MPORT" \in defines /\ "SEPARATE_EP" \notin defines
          THEN InterleavedRanges ELSE SeparateRanges

SetHdmRange ==
    /\ svstage = "compiled"
    /\ "AVERY_CXL" \in defines
    /\ hdm' = {[port |-> Ranges[g], bdf |-> HdmBdf(Ranges[g]), granule |-> g] :
                  g \in DOMAIN Ranges}
    /\ svstage' = "mapped"
    /\ UNCHANGED <<svargs, svopt, defines, qemuVars>>

-----------------------------------------------------------------------------

Init ==
    /\ \E c \in CmdLines : args = c.qemu /\ svargs = c.sv
    /\ opt = Defaults
    /\ stage = "parse"
    /\ i = 0 /\ j = 0
    /\ windows = {} /\ ports = {} /\ eps = <<>>
    /\ svopt = SvDefaults
    /\ svstage = "parse"
    /\ defines = {}
    /\ hdm = {}

Next ==
    \/ ParseDut \/ ParseFlag \/ EndOfOptions
    \/ AddDecoder \/ AddEndpoint \/ NextDecoder \/ EndOfDecoders
    \/ AddSwitch \/ AddPci \/ EndOfPci
    \/ ParseProject \/ Compile \/ SetHdmRange

Spec == Init /\ [][Next]_vars

-----------------------------------------------------------------------------

TypeOK ==
    /\ opt \in [bfm : BOOLEAN, pci : BOOLEAN, cxl : BOOLEAN, pass : BOOLEAN,
                sw : BOOLEAN, hotplug : BOOLEAN, nDecoder : 0 .. 9, nEP : 0 .. 9]
    /\ stage \in {"parse", "decoder", "endpoint", "pci", "done"}
    /\ i \in 0 .. opt.nDecoder
    /\ j \in 0 .. opt.nEP
    /\ windows \subseteq 0 .. (opt.nDecoder - 1)
    /\ \A p \in ports : p.bridge \in windows
    /\ \A n \in DOMAIN eps : eps[n].model \in {"cxl-type3", "remote-port-pci-device"}
    /\ svopt \in [cxl : BOOLEAN, nDecoder : 0 .. 9, nEP : 0 .. 9]
    /\ svstage \in {"parse", "compiled", "mapped"}
    /\ defines \subseteq {"AVERY_CXL", "APCI_MPORT", "SEPARATE_EP"}
    /\ hdm \subseteq [port : {0, 1}, bdf : {256, 512}, granule : 0 .. (2 * Win - 1)]

CxlEps == {n \in DOMAIN eps : eps[n].model = "cxl-type3"}

\* The endpoints plugged into a root port of decoder w.
Under(w) == {n \in CxlEps : \E p \in ports : p.id = eps[n].bus /\ p.bridge = w}

BuiltCxl == stage \in {"pci", "done"} /\ BuildsCxl

(***************************************************************************)
(* No two devices on the command line have the same id or bus address, no  *)
(* two CXL endpoints the same channel to the simulator: the numbers are    *)
(* sums of loop variables, and CXL and PCI devices are numbered by         *)
(* different loops.                                                        *)
(***************************************************************************)
DevicesDistinct ==
    \A m, n \in DOMAIN eps : m # n =>
        /\ eps[m].id # eps[n].id
        /\ eps[m].bdf # eps[n].bdf
        /\ {m, n} \subseteq CxlEps => eps[m].chan # eps[n].chan

(***************************************************************************)
(* Once the CXL devices are listed, every decoder has the number of        *)
(* endpoints the user asked for below its own root ports, each in a port   *)
(* of its own, although ports and endpoints are numbered independently.    *)
(***************************************************************************)
EndpointsPerDecoder ==
    BuiltCxl =>
        /\ \A w \in windows : Cardinality(Under(w)) = opt.nEP
        /\ \A m, n \in CxlEps : m # n => eps[m].bus # eps[n].bus

(***************************************************************************)
(* The two sides agree: every granule of a decoder's window is routed by   *)
(* the root complex to exactly one endpoint, one that QEMU has below that  *)
(* decoder, and every endpoint has a granule of its decoder's window.      *)
(***************************************************************************)
WindowsRouted ==
    BuiltCxl /\ svstage = "mapped" =>
        /\ \A w \in windows : \A g \in Window(w) :
              /\ Cardinality({h \in hdm : h.granule = g}) = 1
              /\ \A h \in hdm : h.granule = g => \E n \in Under(w) : eps[n].bdf = h.bdf
        /\ \A n \in CxlEps : \E h \in hdm, w \in windows :
              n \in Under(w) /\ h.bdf = eps[n].bdf /\ h.granule \in Window(w)
=============================================================================
