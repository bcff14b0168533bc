SPECIFICATION Spec
CHECK_DEADLOCK FALSE
CONSTANTS
  Scripts = {"run_qemu"}
  Settled = {"run_qemu"}
INVARIANTS OthersKilled
