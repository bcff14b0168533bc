SPECIFICATION Spec
CHECK_DEADLOCK FALSE
CONSTANTS
  Scripts = {"run_qemu", "aqcxl_sv"}
  Settled = {"run_qemu", "aqcxl_sv"}
INVARIANTS TypeOK SvKillsOthers LauncherSpared NoSurvivor
PROPERTIES OneEndsAllEnd
