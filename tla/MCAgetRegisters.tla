--------------------------- MODULE MCAgetRegisters ---------------------------
(* Files that differ in every field: the n-th one gives each field the n-th   *)
(* of its values, or a text the code does not know, and shifts the gains and  *)
(* the inhibitions of the channels by n.                                      *)
EXTENDS AgetRegisters

Varied(f, n) ==
    LET k == n % (Len(f.values) + 1) IN
    IF f.values = <<FALSE, TRUE>> THEN n % 3 = 0
    ELSE IF f.values = <<0, 1, 2, 3, 4, 5, 6, 7>> THEN n % 8
    ELSE IF k < Len(f.values) THEN f.values[k + 1]
    ELSE IF f.name = "peackingTime" THEN 71 ELSE "?"
AllFields == Reg1Fields \o ModeFields \o PowerFields
Named == [name \in {AllFields[k].name : k \in DOMAIN AllFields} |->
              CHOOSE k \in DOMAIN AllFields : AllFields[k].name = name]
Gains == <<"120fC", "240fC", "1pC", "10pC", "?">>
Inhibitions == <<"none", "inhibit_channel", "inhibit_trigger">>
Readings == <<"always", "only_if_hit", "never">>
Channel(c, n) == [isActive |-> (c + n) % 7 # 0, isSelectedforTestMode |-> (c + n) % 5 < 2,
                  Gain |-> Gains[((c + n) % 5) + 1],
                  TriggerInhibition |-> Inhibitions[((c * c + n) % 3) + 1],
                  Reading |-> Readings[((c + 2 * n) % 3) + 1]]
File(n) ==
    [name \in DOMAIN Named |-> Varied(AllFields[Named[name]], n)]
    @@ "inputDynamicRange_5pct" :> (n % 2 = 0)
    @@ "triggerLvdsThreshold" :> Levels[(n % 4) + 1]
    @@ "multiplicityLevel" :> Levels[((n \div 2) % 4) + 1]
    @@ "ReadoutPointerOffset" :> (37 * n) % 512
    @@ "enableMem2pMode" :> (n % 2 = 1)
    @@ "readoutDepth" :> 100 * (n % 8)
    @@ "scCheck" :> (n % 6 # 5)
    @@ "channel" :> [c \in Channels |-> Channel(c, n)]
    @@ "thresholds" :> [reg \in {"reg8", "reg8msb", "reg9", "reg9msb"} |-> {n % 64, 3}]
MCFiles == [n \in 0..17 |-> File(n)]
MCFormers == {3}
=============================================================================
