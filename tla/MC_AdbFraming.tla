--------------------------- MODULE MC_AdbFraming ---------------------------
(* Four packets as adbd sends them: one with no payload, one whose        *)
(* payload is as long as a header and longer than a read chunk, one with a *)
(* one-unit payload, and one whose checksum wraps.  Width 3 makes u32      *)
(* arithmetic wrap within the model.                                       *)
EXTENDS AdbFraming

MCSent ==
    << [cmd |-> 1, arg0 |-> 1, arg1 |-> 2, data |-> <<>>],
       [cmd |-> 2, arg0 |-> 1, arg1 |-> 2, data |-> <<3, 3, 1, 2, 2, 1>>],
       [cmd |-> 3, arg0 |-> 2, arg1 |-> 1, data |-> <<1>>],
       [cmd |-> 4, arg0 |-> 1, arg1 |-> 2, data |-> <<7, 7>>] >>

MCBothTimeouts == {"none", "some"}
MCSomeTimeout == {"some"}

====
