---------------------------- MODULE AcquisitionRun ----------------------------
(***************************************************************************)
(* What a run of several GET data sources promises, whatever elects the    *)
(* source that commands the electronics: every source emits its begin item *)
(* before data taking starts, data taking starts once and stops once, and  *)
(* only then does every source emit its end item.  A run may be abandoned  *)
(* at any time.                                                            *)
(***************************************************************************)
CONSTANT Source

VARIABLES
    stage,    \* "idle", "arming", "taking" or "closing"
    begun,    \* sources that emitted the begin item of this run
    closed    \* sources that emitted the end item of this run

vars == <<stage, begun, closed>>

TypeOK ==
    /\ stage \in {"idle", "arming", "taking", "closing"}
    /\ begun \subseteq Source
    /\ closed \subseteq Source

Init == stage = "idle" /\ begun = {} /\ closed = {}

Arm ==
    /\ stage = "idle"
    /\ stage' = "arming"
    /\ UNCHANGED <<begun, closed>>

Begin(s) ==
    /\ stage = "arming" /\ s \notin begun
    /\ begun' = begun \cup {s}
    /\ UNCHANGED <<stage, closed>>

Take ==
    /\ stage = "arming" /\ begun = Source
    /\ stage' = "taking"
    /\ UNCHANGED <<begun, closed>>

Halt ==
    /\ stage = "taking"
    /\ stage' = "closing"
    /\ UNCHANGED <<begun, closed>>

\* The run is over with the last end item.
End(s) ==
    /\ stage = "closing" /\ s \notin closed
    /\ IF closed \cup {s} = Source
       THEN stage' = "idle" /\ begun' = {} /\ closed' = {}
       ELSE closed' = closed \cup {s} /\ UNCHANGED <<stage, begun>>

Abandon ==
    /\ stage # "idle"
    /\ stage' = "idle" /\ begun' = {} /\ closed' = {}

Next ==
    \/ Arm \/ Take \/ Halt \/ Abandon
    \/ \E s \in Source : Begin(s) \/ End(s)

Spec == Init /\ [][Next]_vars

===============================================================================
