---------------------------- MODULE MCEccSession ----------------------------
(* Two CoBos at one ECC server: CoBo 0 with two boards, one of whose chips is *)
(* checked, and CoBo 1 with one board of another number.                      *)
EXTENDS EccSession, TLC

MCRegisters == <<"reg1", "reg2", "reg3", "reg4", "reg6", "reg7", "reg8", "reg8msb", "reg9",
                 "reg9msb", "reg10", "reg11">>
Common == [active |-> TRUE, version |-> 2, validClock |-> TRUE, calibrate |-> TRUE, suppress |-> {},
           external |-> FALSE, memory |-> [start |-> 128, end |-> 256]]
Limits(start, end) == [start |-> start, end |-> end]
MCConfig ==
    0 :> ([asads |-> {0, 1}, chips |-> {1, 4}, connected |-> {0, 1}, scCheck |-> {4},
          partial |-> {1, 4}, periodic |-> TRUE, inspected |-> {0},
          zeros |-> {"reg3", "reg12"}, own |-> 0 :> Limits(160, 192)] @@ Common)
    @@ 1 :> ([asads |-> {2}, chips |-> {11}, connected |-> {2, 3}, scCheck |-> {11},
             partial |-> {}, periodic |-> FALSE, inspected |-> {},
             zeros |-> {}, own |-> [i \in AsAds |-> Limits(224 - 32 * i, 256 - 32 * i)]] @@ Common)

Command(program, targets, pulser) == [program |-> program, targets |-> targets, pulser |-> pulser]
MCLaunches == "configure" :> Command("configure", <<0, 1>>, FALSE)
              @@ "daqstart" :> Command("daqstart", <<0>>, TRUE)
              @@ "daqstop" :> Command("daqstop", <<0>>, FALSE)
              @@ "start" :> Command("start", <<0, 1>>, TRUE)
              @@ "stop" :> Command("stop", <<0, 1>>, FALSE)
MCConfigureOnly == "configure" :> Command("configure", <<0, 1>>, FALSE)

\* Both CoBos have a pulser that starts by itself.
MCPeriodicConfig == [MCConfig EXCEPT ![1].periodic = TRUE]
=============================================================================
