------------------------- MODULE RunControlRefinement -------------------------
(***************************************************************************)
(* The provider's flags runStatus and beginEmitted implement the abstract  *)
(* run of AcquisitionRun.  The mapping reads the stage of the run from the *)
(* GUI's state and from whether the start and the stop command were        *)
(* written.                                                                *)
(***************************************************************************)
EXTENDS RunControl

Stage ==
    CASE gui = "beginning" -> IF starts = 0 THEN "arming" ELSE "taking"
      [] gui = "active" -> "taking"
      [] gui = "ending" -> IF stops = 0 THEN "taking" ELSE "closing"
      [] OTHER -> "idle"

Begun == IF Stage = "idle" THEN {} ELSE {s \in Source : runNumber[s] = run}

Closed == IF Stage = "idle" THEN {} ELSE ended

A == INSTANCE AcquisitionRun
        WITH stage <- Stage, begun <- Begun, closed <- Closed

\* getProvider.tcl:217-246: every begin, end, start and stop of the provider is
\* a step of the abstract run, and what goes wrong abandons it, as long as the
\* operator answers an error by stopping every source.
ImplementsAcquisitionRun == A!Spec
===============================================================================
