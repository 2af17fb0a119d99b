---------------------------- MODULE MCAutoscaler ----------------------------
(* Small instances of Autoscaler for TLC. *)
EXTENDS Autoscaler

Section(min, max, scaler) == [min |-> min, max |-> max, scaler |-> scaler]

\* Fixed and scaled, with ranges that are empty, turned round or start at zero.
Odd == {Section(2, 2, "none"), Section(0, 0, "none"), Section(1, 3, "valid"),
        Section(2, 3, "valid"), Section(0, 2, "valid"), Section(3, 1, "valid"),
        Section(2, 3, "invalid"), Section(1, 3, "none")}

\* Off and on again.
Plain == {Section(1, 1, "none"), Section(1, 3, "valid"), Section(2, 3, "valid")}
=============================================================================
