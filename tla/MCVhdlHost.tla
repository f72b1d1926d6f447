----------------------------- MODULE MCVhdlHost -----------------------------
EXTENDS VhdlHost

Of(w, b, f, s, p, d) ==
    [work |-> w, blocks |-> b, fails |-> f, shares |-> s, polling |-> p, drawn |-> d]

(* Long polling: many jobs and one block, few jobs and two, a failure.     *)
(* Then getwork alone with two failures, and the shares alone with one.    *)
MCSetups == {Of(4, 1, 0, 0, TRUE, FALSE), Of(1, 2, 0, 0, TRUE, FALSE), Of(1, 1, 1, 0, TRUE, TRUE),
             Of(3, 0, 2, 0, FALSE, TRUE), Of(0, 0, 1, 3, FALSE, TRUE)}
=============================================================================
