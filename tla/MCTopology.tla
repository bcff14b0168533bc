----------------------------- MODULE MCTopology -----------------------------
(* Command lines for Topology. *)
EXTENDS Topology

None == [d \in {} |-> 0]
O(kind, dims) == [kind |-> kind, dims |-> dims]
Flag(kind) == O(kind, None)

OneEach == [nEP |-> 1, nDecoder |-> 1]
TwoDecoders == [nEP |-> 1, nDecoder |-> 2]
TwoEndpoints == [nEP |-> 2, nDecoder |-> 1]

\* The ways to ask run_qemu.pl and aqcxl_sv.pl for one of the documented sizes.
QemuFor(dims) ==
    {<<O("cxl", dims)>>, <<Flag("hotplug"), O("cxl", dims)>>, <<O("pcie", dims)>>,
     <<O("pcie", dims), Flag("switch")>>, <<O("pcie", dims), Flag("hotplug")>>,
     <<O("cxl", [nEP |-> 2]), O("cxl", dims), Flag("bfm")>>, <<O("passthru", dims)>>}
        \cup (IF dims = TwoDecoders
              THEN {<<Flag("bfm"), Flag("dual")>>, <<Flag("dual"), O("cxl", None)>>,
                    <<O("cxl", None), Flag("dual")>>, <<O("cxl", OneEach), Flag("dual")>>}
              ELSE {})
        \cup (IF dims = OneEach THEN {<<>>, <<O("cxl", None)>>} ELSE {})

SvFor(dims) ==
    {<<O("cxl", dims)>>, <<O("cxl", [nDecoder |-> 3]), O("cxl", dims)>>}
        \cup (IF dims = OneEach THEN {<<>>, <<O("nvme", None)>>, <<O("cxl", None)>>} ELSE {})

DocumentedLines ==
    UNION {[qemu : QemuFor(d), sv : SvFor(d)] : d \in {OneEach, TwoDecoders, TwoEndpoints}}
=============================================================================
