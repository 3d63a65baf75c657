----------------------------- MODULE MCMessages -----------------------------
(***************************************************************************)
(* Finite instances of the messages that hammerhead's scripts exchange:    *)
(* with the session through the transport, and among the windows of a      *)
(* page.  They share no state; a behaviour is one of one of them, the      *)
(* other stays as it is.                                                   *)
(***************************************************************************)
EXTENDS MCTransport, WindowMessages

VARIABLE part

(* A message of a page, two service messages, or pings, and frames that unload. *)
Bound(posts, services, requests, unloads) ==
    [posts |-> posts, services |-> services, pings |-> 2, requests |-> requests, unloads |-> unloads]

FewMessages == {Bound(1, 0, 0, 2), Bound(0, 2, 0, 2), Bound(0, 0, 3, 1)}

MessagesInit ==
    /\ part \in {"transport", "windows"}
    /\ Init /\ WindowsInit
    /\ part = "transport" => bound = Bound(1, 0, 0, 2)

MessagesNext ==
    /\ UNCHANGED part
    /\ \/ part = "transport" /\ Next /\ UNCHANGED windowsVars
       \/ part = "windows" /\ WindowsNext /\ UNCHANGED vars

MessagesSpec == MessagesInit /\ [][MessagesNext]_<<part, vars, windowsVars>>
=============================================================================
