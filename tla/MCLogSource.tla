---------------------------- MODULE MCLogSource ----------------------------
(* The disturbances of each behaviour TLC explores.                        *)
EXTENDS LogSource

TheScenarios ==
  {{"close", "deaf", "list"}, {"close", "undated", "slow"}, {"panel", "settings"}, {"refresh", "deaf"}}
=============================================================================
