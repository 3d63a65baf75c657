------------------------------ MODULE MCTransport ------------------------------
(* Finite instances of Transport. *)
EXTENDS Transport, TLC

CONSTANTS f1, f2

M(cmd, queued, noResend, mayReject) ==
    [cmd |-> cmd, queued |-> queued, noResend |-> noResend, mayReject |-> mayReject]

(* Two commands, plain and queued messages, one that is neither resent nor stored. *)
MixedShapes ==
    {M("c1", TRUE, FALSE, FALSE), M("c1", FALSE, TRUE, TRUE), M("c2", TRUE, FALSE, FALSE)}

RejectingShape == {M("c1", FALSE, FALSE, TRUE)}
================================================================================
