-------------------------------- MODULE MCEnds --------------------------------
(***************************************************************************)
(* What must end: a request of the pipeline, one to a destination, and a   *)
(* service message of a window.  They share no state; a behaviour is one   *)
(* of one of them, the others stay as they are.                            *)
(***************************************************************************)
EXTENDS Naturals, Sequences

CONSTANTS r1, top, f1, Kinds

VARIABLES part,
    stage, nature, listeners, rules, running, invoked, mocked, eventData, calls, goToNext, dest,
    browser, wsReset, crashed, touched,
    opts, request, disturbed,
    link, listening, msg, from, copyOf, queue, channel, msgQueue, xhr, lastAttempt, back, callbacks,
    active, promise, store, handled

M(cmd, queued, mayReject) ==
    [cmd |-> cmd, queued |-> queued, noResend |-> FALSE, mayReject |-> mayReject]

P == INSTANCE RequestPipeline WITH Rules <- {r1}
D == INSTANCE DestinationRequest WITH MaxAttempts <- 4
T == INSTANCE Transport WITH Top <- top, Iframes <- {f1}, Resending <- TRUE, MaxSends <- 2,
                             Shapes <- {M("c1", FALSE, FALSE), M("c2", TRUE, TRUE)}

incoming == <<stage, nature, listeners, rules, running, invoked, mocked, eventData, calls, goToNext,
              dest, browser, wsReset, crashed, touched>>
messages == <<link, listening, msg, from, copyOf, queue, channel, msgQueue, xhr, lastAttempt, back,
              callbacks, active, promise, store, handled>>
outgoing == <<opts, request, disturbed>>
vars     == <<part, incoming, outgoing, messages>>

Init ==
    /\ part \in {"pipeline", "destination", "transport"}
    /\ P!Init /\ D!Init /\ T!Init
    /\ part # "pipeline" => nature = (CHOOSE n \in P!Natures : TRUE) /\ listeners = {}
    /\ part # "destination" => opts = (CHOOSE o \in D!Options : TRUE)

Pipeline(A)    == part = "pipeline" /\ A /\ UNCHANGED <<part, outgoing, messages>>
Destination(A) == part = "destination" /\ A /\ UNCHANGED <<part, incoming, messages>>
Messages(A)    == part = "transport" /\ A /\ UNCHANGED <<part, incoming, outgoing>>

Next == Pipeline(P!Next) \/ Destination(D!Next) \/ Messages(T!Next)

(* The fairness of the three specifications. *)
Spec ==
    /\ Init /\ [][Next]_vars
    /\ WF_vars(Pipeline(P!Hooks)) /\ WF_vars(Pipeline(P!Pipeline)) /\ WF_vars(Pipeline(P!Destination))
    /\ WF_vars(Destination(D!CachedAnswer)) /\ WF_vars(Destination(D!SessionObtained))
    /\ \A i \in 1..4 : WF_vars(Destination(D!TimeoutFires(i)))
    /\ WF_vars(Messages(T!Ports))
    /\ \A w \in T!Windows : /\ WF_vars(Messages(T!WorkerReceives(w)))
                            /\ WF_vars(Messages(T!OnWorkerMessage(w)))
    /\ \A s \in T!Sends :
        WF_vars(Messages(s \in T!Sent /\ (T!ServerHandles(s, TRUE) \/ T!XhrLoads(s))))

(* Every request is answered, tunnelled or disconnected. *)
EveryRequestSettles == part = "pipeline" => P!EveryRequestSettles

(* A request to a destination ends in an event. *)
EveryRequestEnds == part = "destination" => D!EveryRequestEnds

(* A window that stays is answered for each of its messages. *)
EveryMessageIsAnswered == T!EveryMessageIsAnswered
===============================================================================
