--------------------------- MODULE MCMachineViews ----------------------------
(***************************************************************************)
(* A small control for MachineViews: one register, two pots, and one or    *)
(* two changes of the data that the reads are sensitive to.                *)
(***************************************************************************)
EXTENDS MachineViews, TLC

MCProfiles == {"mill", "lathe", "export"}
MCMacroVars == <<5063>>
MCLifeGroups == <<<<7>>>>
MCZofsSlots == <<1>>

\* 0x12 is tool 12 in packed BCD, 0x2B no number; pot 1 names the tool of its
\* own number.
Idle == [aut |-> 0, run |-> 0, emergency |-> FALSE]

MCContents == [p \in MCProfiles |->
  CASE p = "mill" ->
         (<<"status", 0>> :> Idle) @@ (<<"head", 0>> :> 12) @@ (<<"next", 0>> :> 0)
         @@ (<<"pot", 1>> :> 1) @@ (<<"pot", 2>> :> 18)
         @@ (<<"macro", 5063>> :> [mcr |-> 393, dec |-> 2])
         @@ (<<"h_geom", 1>> :> 74050) @@ (<<"h_wear", 1>> :> 175)
         @@ (<<"d_geom", 1>> :> -3000) @@ (<<"d_wear", 1>> :> 0)
    [] p = "lathe" ->
         (<<"status", 0>> :> Idle) @@ (<<"program", 0>> :> 1)
         @@ (<<"wcs", 0>> :> "G55") @@ (<<"tword", 0>> :> 1224)
         @@ (<<"x_geom", 1>> :> -40100) @@ (<<"x_wear", 1>> :> 12)
         @@ (<<"z_geom", 1>> :> 0) @@ (<<"z_wear", 1>> :> -7)
         @@ (<<"r_geom", 1>> :> 80) @@ (<<"r_wear", 1>> :> 0) @@ (<<"tip", 1>> :> 3)
         @@ (<<"zofs", 1>> :> 62660) @@ (<<"shift", 0>> :> 195044)
    [] p = "export" -> (<<"program", 0>> :> 1)]

MCChanges == [p \in MCProfiles |->
  CASE p = "mill" ->
         { <<<<"status", 0>>, [aut |-> 0, run |-> 2, emergency |-> FALSE]>>,
           <<<<"status", 0>>, [aut |-> 1, run |-> 3, emergency |-> FALSE]>>,
           <<<<"head", 0>>, 1>>, <<<<"pot", 1>>, 18>>, <<<<"pot", 2>>, 43>>,
           <<<<"macro", 5063>>, [mcr |-> 0, dec |-> -1]>>,
           <<<<"h_geom", 1>>, 0>>, <<<<"h_geom", 1>>, 999999999>> }
    [] p = "lathe" ->
         { <<<<"tip", 1>>, 0>>, <<<<"program", 0>>, 2>>, <<<<"program", 0>>, 0>> }
    [] p = "export" -> { <<<<"program", 0>>, 2>>, <<<<"program", 0>>, 0>> }]

MCLayouts == <<[type |-> 2, use |-> 1], [type |-> 3, use |-> 1],
               [type |-> 1, use |-> 1]>>

MCPrograms == [o \in {1, 2} |->
  IF o = 1 THEN <<"%", "n", "x", "n", "%", "n">>
  ELSE <<"%", "n", "x", "x", "n", "x", "%">>]

MCAssigned == (1 :> <<1>>) @@ (7 :> <<1>>)
MCProbeTool == <<50>>
MCRecords == (1 :> TRUE) @@ (7 :> FALSE)
=============================================================================
