---------------------------- MODULE NatStrategy ----------------------------
(***************************************************************************)
(* NAT-aware choice of a connection strategy                               *)
(* (select_connection_strategy, omni-core/src/manager.rs).                 *)
(***************************************************************************)

\* omninervous::NatType; NoNat is the None of Option<NatType>.
NoNat == "None"

NatType == {"Open", "FullCone", "RestrictedCone", "PortRestrictedCone",
            "Symmetric", "Unknown"}

ConnectionStrategy == {"Direct", "SimultaneousOpen", "PortPrediction", "RelayOnly"}

EasyNat == {"Open", "FullCone"}

Restricted == {"RestrictedCone", "PortRestrictedCone"}

\* The match arms in order: the first one that applies wins.
SelectStrategy(ours, theirs) ==
  LET sides == {ours, theirs}
  IN  IF sides \cap EasyNat # {} THEN "Direct"
      ELSE IF sides = {"Symmetric"} THEN "RelayOnly"
      ELSE IF "Symmetric" \in sides THEN "PortPrediction"
      ELSE IF sides \subseteq Restricted THEN "SimultaneousOpen"
      ELSE "Direct"
=============================================================================
