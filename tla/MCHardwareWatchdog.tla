------------------------- MODULE MCHardwareWatchdog -------------------------
(* HardwareWatchdog for TLC: the reconfigurations the operator may send are   *)
(* an invalid one, one with equal thresholds and one that disables a source.  *)
EXTENDS HardwareWatchdog

CONSTANTS w1, w2

Config(on, warning, safe, suppress) ==
  [enabled |-> on, warning |-> warning, safe |-> safe, suppress |-> suppress]

MCDefault == Config(TRUE, 1, 2, 3)
MCConfigs == {Config(TRUE, 3, 2, 3), Config(TRUE, 1, 1, 1), Config(FALSE, 1, 2, 3), MCDefault}
=============================================================================
