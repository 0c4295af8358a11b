--------------------------- MODULE MCSwitchReports ---------------------------
(* Answers without data points (1), a byte short of the buffer (3), that    *)
(* exactly fill it (4) and too long for it (5, 7), with up to three data     *)
(* points: BOOLs, another type, one that is cut off between two BOOLs.       *)
EXTENDS SwitchReports

MCLengths == {1, 3, 4, 5, 7}

MCMessages ==
    { [total |-> 1, dps |-> <<>>],
      [total |-> 3, dps |-> <<"off">>],
      [total |-> 4, dps |-> <<"on">>],
      [total |-> 4, dps |-> <<"off", "cut", "on">>],
      [total |-> 3, dps |-> <<"on", "other", "off">>],
      [total |-> 5, dps |-> <<"on">>],
      [total |-> 7, dps |-> <<"off">>] }
=============================================================================
