------------------------------- MODULE Transport -------------------------------
(***************************************************************************)
(* Service messages on their way from the windows of a page to the proxy:  *)
(* client/transport (transport-in-worker.ts, transport-base.ts) and the    *)
(* Transport worker of the top window, client/transport-worker.            *)
(*                                                                         *)
(* A window of an iframe obtains its own port to the worker through the    *)
(* top window; what it sends before that waits in its queue.  The worker   *)
(* sends one XHR per message, a second one when the first breaks, and      *)
(* sends messages of one command that were queued one after the other.  A  *)
(* message that could not be delivered is kept in the local storage that   *)
(* all windows share until some window calls batchUpdate.                  *)
(***************************************************************************)
EXTENDS Naturals, FiniteSets, SequencesExt

CONSTANTS
    Top,         \* the top window, which owns the worker
    Iframes,     \* its iframes; one that is reloaded is another member
    Shapes,      \* the messages that windows send
    Resending,   \* isWebKit || isFirefox: undelivered messages are stored
    MaxSends     \* bound on the number of sends

Windows == {Top} \cup Iframes
Sends   == 1..MaxSends
Cmds    == {m.cmd : m \in Shapes}

(* What is sent: a stored message is sent again as a queued one. *)
Messages == Shapes \cup {[m EXCEPT !.queued = TRUE] : m \in Shapes}

\* disableResending is noResend, allowRejecting is mayReject.
ASSUME ShapesAssumption ==
    /\ \A m \in Shapes : DOMAIN m = {"cmd", "queued", "noResend", "mayReject"}
    /\ \A m \in Shapes : {m.queued, m.noResend, m.mayReject} \subseteq BOOLEAN
ASSUME BoundsAssumption == MaxSends \in Nat /\ Resending \in BOOLEAN /\ Top \notin Iframes

VARIABLES
    link,        \* of a window to the worker
    listening,   \* windows whose port the worker listens to
    msg,         \* the message of every send; sends are numbered in their order
    from,        \* the window of every send
    copyOf,      \* history: the send whose stored message a send repeats, itself otherwise
    queue,       \* _queue of a window
    channel,     \* messages posted by a window that the worker has not received
    msgQueue,    \* the worker's queue of every command
    xhr,         \* the XHR of every send
    lastAttempt, \* sends of which the worker's message has disableResending set
    back,        \* answers posted by the worker that the window has not received
    callbacks,   \* _messageCallbacks of a window
    active,      \* _activeServiceMsgCount of a window
    promise,     \* the promise of every send
    store,       \* stored sends in localStorage
    handled      \* history: how often the server handled a send without an error

windowVars == <<link, listening>>
sendVars   == <<msg, from, copyOf>>
workerVars == <<msgQueue, xhr, lastAttempt>>
pageVars   == <<callbacks, active, promise>>
vars == <<windowVars, sendVars, queue, channel, workerVars, back, pageVars, store, handled>>

Sent == DOMAIN msg

TypeOK ==
    /\ link \in [Windows -> {"absent", "starting", "asking", "granted", "ready", "gone"}]
    /\ listening \subseteq Windows
    /\ msg \in Seq(Messages) /\ Len(msg) <= MaxSends
    /\ from \in [Sent -> Windows] /\ copyOf \in [Sent -> Sent]
    /\ queue \in [Windows -> Seq(Sent)] /\ channel \in [Windows -> Seq(Sent)]
    /\ msgQueue \in [Cmds -> Seq(Sent)]
    /\ xhr \in [Sends -> {"unsent", "sent", "done", "refused", "over"}]
    /\ lastAttempt \subseteq Sends
    /\ back \in [Windows -> Seq([send : Sent, err : BOOLEAN])]
    /\ callbacks \in [Windows -> SUBSET Sent]
    /\ active \in [Windows -> Nat]
    /\ promise \in [Sends -> {"open", "resolved", "rejected"}]
    /\ store \in Seq(Sent)
    /\ handled \in [Sends -> 0..2]

Init ==
    /\ link = [w \in Windows |-> IF w = Top THEN "starting" ELSE "absent"]
    /\ listening = {}
    /\ msg = <<>> /\ from = <<>> /\ copyOf = <<>>
    /\ queue = [w \in Windows |-> <<>>] /\ channel = [w \in Windows |-> <<>>]
    /\ msgQueue = [c \in Cmds |-> <<>>]
    /\ xhr = [s \in Sends |-> "unsent"] /\ lastAttempt = {}
    /\ back = [w \in Windows |-> <<>>]
    /\ callbacks = [w \in Windows |-> {}] /\ active = [w \in Windows |-> 0]
    /\ promise = [s \in Sends |-> "open"]
    /\ store = <<>>
    /\ handled = [s \in Sends |-> 0]

-----------------------------------------------------------------------------
(* Windows and their ports *)

Alive(w) == link[w] \notin {"absent", "gone"}

(* _processQueue.  The mutated form posts the queue backwards. *)
ProcessQueueBackwards(w) == channel' = [channel EXCEPT ![w] = @ \o Reverse(queue[w])]
ProcessQueue(w) == channel' = [channel EXCEPT ![w] = @ \o queue[w]]

(* A window gets its worker or its port and posts what has waited. *)
BecomeReady(w) ==
    /\ link' = [link EXCEPT ![w] = "ready"]
    /\ ProcessQueue(w)
    /\ queue' = [queue EXCEPT ![w] = <<>>]
    /\ UNCHANGED <<sendVars, workerVars, back, pageVars, store, handled>>

(* start in the top window *)
StartTop ==
    /\ link[Top] = "starting"
    /\ BecomeReady(Top)
    /\ listening' = listening \cup {Top}

OnlyLink(w, state) ==
    /\ link' = [link EXCEPT ![w] = state]
    /\ UNCHANGED <<listening, sendVars, queue, channel, workerVars, back, pageVars, store,
                   handled>>

(* start in an iframe, which exists only in a page whose hammerhead has started *)
StartIframe(w) ==
    /\ link[w] = "absent" /\ link[Top] = "ready"
    /\ OnlyLink(w, "asking")

(* The top window receives GET_MESSAGE_PORT and hands a port to each side. *)
GrantPort(w) ==
    /\ link[w] = "asking"
    /\ OnlyLink(w, "granted")

SetMessagePort(w) ==
    /\ link[w] = "granted"
    /\ BecomeReady(w)
    /\ UNCHANGED listening

(* HANDLE_PORT_CMD arrives in the worker. *)
HandlePort(w) ==
    /\ w # Top /\ w \notin listening
    /\ link[w] \in {"granted", "ready"} \/ channel[w] # <<>>
    /\ listening' = listening \cup {w}
    /\ UNCHANGED <<link, sendVars, queue, channel, workerVars, back, pageVars, store, handled>>

(* An iframe is removed or reloaded: its script state is lost, what it has posted is not. *)
IframeLeaves(w) ==
    /\ w # Top /\ Alive(w)
    /\ link' = [link EXCEPT ![w] = "gone"]
    /\ queue' = [queue EXCEPT ![w] = <<>>]
    /\ back' = [back EXCEPT ![w] = <<>>]
    /\ callbacks' = [callbacks EXCEPT ![w] = {}]
    /\ active' = [active EXCEPT ![w] = 0]
    /\ UNCHANGED <<listening, sendVars, channel, workerVars, promise, store, handled>>

-----------------------------------------------------------------------------
(* Sending *)

(* The new sends ids of window w get their callbacks and are posted, or wait for the port. *)
Post(w, ids) ==
    /\ callbacks' = [callbacks EXCEPT ![w] = @ \cup Range(ids)]
    /\ active' = [active EXCEPT ![w] = @ + Len(ids)]
    /\ IF link[w] = "ready"
       THEN channel' = [channel EXCEPT ![w] = @ \o ids] /\ UNCHANGED queue
       ELSE queue' = [queue EXCEPT ![w] = @ \o ids] /\ UNCHANGED channel
    /\ UNCHANGED <<windowVars, workerVars, back, promise, handled>>

(* asyncServiceMsg and queuedAsyncServiceMsg *)
AsyncServiceMsg(w, m) ==
    /\ Alive(w) /\ Len(msg) < MaxSends
    /\ msg' = Append(msg, m)
    /\ from' = Append(from, w)
    /\ copyOf' = Append(copyOf, Len(msg) + 1)
    /\ Post(w, <<Len(msg) + 1>>)
    /\ UNCHANGED store

(* batchUpdate takes the stored messages out and queues all of them.  The mutated form      *)
(* empties the store only.                                                                  *)
DropStored(w) ==
    /\ store' = <<>>
    /\ UNCHANGED <<windowVars, sendVars, queue, channel, workerVars, back, pageVars, handled>>
ResendStored(w) ==
    /\ store' = <<>>
    /\ msg' = msg \o [i \in DOMAIN store |-> [msg[store[i]] EXCEPT !.queued = TRUE]]
    /\ from' = from \o [i \in DOMAIN store |-> w]
    /\ copyOf' = copyOf \o [i \in DOMAIN store |-> copyOf[store[i]]]
    /\ Post(w, [i \in DOMAIN store |-> Len(msg) + i])

BatchUpdate(w) ==
    /\ Alive(w) /\ store # <<>> /\ Len(msg) + Len(store) <= MaxSends
    /\ ResendStored(w)

-----------------------------------------------------------------------------
(* The worker *)

(* What the message listener makes of s: a queued message is sent at once only if it is     *)
(* alone in the queue of its command.  The mutated form sends it in any case.               *)
AlwaysAlone(s) == TRUE
AloneInQueue(s) == msgQueue[msg[s].cmd] = <<>>

WorkerReceives(w) ==
    /\ w \in listening /\ channel[w] # <<>>
    /\ channel' = [channel EXCEPT ![w] = Tail(@)]
    /\ LET s == Head(channel[w]) IN
        /\ msgQueue' = IF msg[s].queued THEN [msgQueue EXCEPT ![msg[s].cmd] = Append(@, s)]
                                        ELSE msgQueue
        /\ xhr' = IF msg[s].queued /\ ~AloneInQueue(s) THEN xhr
                                                       ELSE [xhr EXCEPT ![s] = "sent"]
        /\ lastAttempt' = lastAttempt \cup IF msg[s].noResend THEN {s} ELSE {}
    /\ UNCHANGED <<windowVars, sendVars, queue, back, pageVars, store, handled>>

(* The next XHR of the queue is sent when its first message is over.  The mutated form      *)
(* stops after an error.                                                                    *)
NextInQueueUnlessFailed(s, rest, err) ==
    IF rest = <<>> \/ err THEN [xhr EXCEPT ![s] = "over"]
                          ELSE [xhr EXCEPT ![s] = "over", ![Head(rest)] = "sent"]
NextInQueue(s, rest, err) ==
    IF rest = <<>> THEN [xhr EXCEPT ![s] = "over"]
                   ELSE [xhr EXCEPT ![s] = "over", ![Head(rest)] = "sent"]

(* The callback of s: the answer goes to the window of the message that is first in the     *)
(* queue, and a new XHR is sent for the next one.                                           *)
Answered(s) == IF msg[s].queued THEN Head(msgQueue[msg[s].cmd]) ELSE s
Rest(s)     == IF msg[s].queued THEN Tail(msgQueue[msg[s].cmd]) ELSE <<>>

Callback(s, err) ==
    LET answered == Answered(s) IN
    /\ back' = IF Alive(from[answered])
               THEN [back EXCEPT ![from[answered]] = Append(@, [send |-> answered, err |-> err])]
               ELSE back
    /\ msgQueue' = IF msg[s].queued THEN [msgQueue EXCEPT ![msg[s].cmd] = Rest(s)] ELSE msgQueue
    /\ xhr' = NextInQueue(s, Rest(s), err)

(* 'load': status 500 means that the message handler failed. *)
XhrLoads(s) ==
    /\ xhr[s] \in {"done", "refused"}
    /\ Callback(s, xhr[s] = "refused")
    /\ lastAttempt' = IF xhr[s] = "refused" THEN lastAttempt \cup {s} ELSE lastAttempt
    /\ UNCHANGED <<windowVars, sendVars, queue, channel, pageVars, store, handled>>

(* 'abort', 'error' or 'timeout', whether or not the server has handled the message: it is  *)
(* sent a second time unless resending is disabled.                                         *)
XhrBreaks(s) ==
    /\ xhr[s] \in {"sent", "done", "refused"}
    /\ IF s \in lastAttempt
       THEN Callback(s, TRUE) /\ UNCHANGED lastAttempt
       ELSE /\ xhr' = [xhr EXCEPT ![s] = "sent"]
            /\ lastAttempt' = lastAttempt \cup {s}
            /\ UNCHANGED <<back, msgQueue>>
    /\ UNCHANGED <<windowVars, sendVars, queue, channel, pageVars, store, handled>>

(* The proxy runs the handler of the message and answers, with 500 if it throws. *)
ServerHandles(s, ok) ==
    /\ xhr[s] = "sent"
    /\ xhr' = [xhr EXCEPT ![s] = IF ok THEN "done" ELSE "refused"]
    /\ handled' = [handled EXCEPT ![s] = @ + IF ok THEN 1 ELSE 0]
    /\ UNCHANGED <<windowVars, sendVars, queue, channel, msgQueue, lastAttempt, back, pageVars,
                   store>>

-----------------------------------------------------------------------------
(* Answers *)

(* _removeMessageFromStore removes the first message of the same command, whichever it is.  *)
(* The mutated form keeps it.                                                               *)
StoreKept(c) == store
StoreWithout(c) ==
    LET same == {i \in DOMAIN store : msg[store[i]].cmd = c} IN
    IF same = {} THEN store
    ELSE LET first == CHOOSE i \in same : \A j \in same : i <= j IN RemoveAt(store, first)

(* The window's message, unlike the worker's copy of it, still has the flag it was sent     *)
(* with.                                                                                    *)
IsStored(s) == Resending /\ ~msg[s].noResend

(* The counter counts every callback.  The mutated forms count only successful answers, and *)
(* failed ones twice.                                                                       *)
CountedOnSuccess(w, err) == [active EXCEPT ![w] = IF err THEN @ ELSE @ - 1]
CountedTwice(w, err) == [active EXCEPT ![w] = IF err THEN @ - 2 ELSE @ - 1]
CountedDown(w, err) == [active EXCEPT ![w] = @ - 1]

OnWorkerMessage(w) ==
    /\ back[w] # <<>>
    /\ back' = [back EXCEPT ![w] = Tail(@)]
    /\ LET s == Head(back[w]).send
           err == Head(back[w]).err
       IN
        /\ s \in callbacks[w]
        /\ callbacks' = [callbacks EXCEPT ![w] = @ \ {s}]
        /\ active' = CountedDown(w, err)
        /\ store' = IF err /\ IsStored(s) THEN Append(StoreWithout(msg[s].cmd), s) ELSE store
        /\ promise' = [promise EXCEPT ![s] = IF ~err \/ IsStored(s) THEN "resolved"
                                             ELSE IF msg[s].mayReject THEN "rejected" ELSE @]
    /\ UNCHANGED <<windowVars, sendVars, queue, channel, workerVars, handled>>

-----------------------------------------------------------------------------
Ports == StartTop \/ \E w \in Iframes : GrantPort(w) \/ SetMessagePort(w) \/ HandlePort(w)

Delivery == \E w \in Windows : WorkerReceives(w) \/ OnWorkerMessage(w)

Next ==
    \/ Ports \/ Delivery
    \/ \E w \in Windows, m \in Shapes : AsyncServiceMsg(w, m)
    \/ \E w \in Windows : BatchUpdate(w)
    \/ \E w \in Iframes : StartIframe(w) \/ IframeLeaves(w)
    \/ \E s \in Sent, ok \in BOOLEAN : ServerHandles(s, ok)
    \/ \E s \in Sent : XhrLoads(s) \/ XhrBreaks(s)

Spec == Init /\ [][Next]_vars

(* Events are delivered, and every XHR comes to an end because the proxy answers or the     *)
(* connection breaks.  Windows need not send, resend, start or leave.                       *)
FairSpec ==
    /\ Spec
    /\ WF_vars(Ports)
    /\ \A w \in Windows : WF_vars(WorkerReceives(w)) /\ WF_vars(OnWorkerMessage(w))
    /\ \A s \in Sends : WF_vars(s \in Sent /\ (ServerHandles(s, TRUE) \/ XhrLoads(s)))

-----------------------------------------------------------------------------
(* Properties *)

Waiting(s) == \E w \in Windows : s \in callbacks[w]

(* Messages of one command that a window queues reach the server one after the other in     *)
(* the order of the calls: as long as an earlier one is under way, retried or not yet       *)
(* posted, the server has not seen the later one (queuedAsyncServiceMsg).                   *)
QueuedInOrder ==
    \A s, t \in Sent :
        /\ s < t /\ from[s] = from[t] /\ msg[s].cmd = msg[t].cmd
        /\ msg[s].queued /\ msg[t].queued
        /\ xhr[t] # "unsent"
        => xhr[s] = "over"

(* waitForServiceMessagesCompleted believes the counter: when it is zero, nothing that the  *)
(* window has sent is queued, posted, in flight or still to be answered.                    *)
CounterCountsUnanswered ==
    \A w \in Windows : Alive(w) =>
        /\ active[w] = Cardinality(callbacks[w])
        /\ \A s \in Sent :
            from[s] = w /\ (xhr[s] # "over" \/ \E i \in DOMAIN back[w] : back[w][i].send = s)
            => s \in callbacks[w]

(* A message is reported as delivered only when the server has handled it, when it is kept  *)
(* in the store or has been sent again from there, or when another message of the same      *)
(* command, resolved too, is one that is stored (which of them came first is not said): the *)
(* store keeps one of a command ('do not duplicate messages in store').                     *)
NothingSilentlyLost ==
    /\ \A s \in Sent : promise[s] = "resolved" /\ handled[s] = 0 =>
        \/ s \in Range(store)
        \/ \E t \in Sent : t > s /\ copyOf[t] = copyOf[s]
        \/ \E t \in Sent : /\ copyOf[t] # copyOf[s] /\ msg[t].cmd = msg[s].cmd
                          /\ promise[t] = "resolved" /\ IsStored(t)
    /\ \A i, j \in DOMAIN store : msg[store[i]].cmd = msg[store[j]].cmd => i = j

(* Every message is counted until it is answered, and none is lost without a trace. *)
MessagesAreAccountedFor == CounterCountsUnanswered /\ NothingSilentlyLost

(* A window that stays is answered for each of its messages.                                *)
EveryMessageIsAnswered ==
    \A s \in Sends : Waiting(s) ~> ~Waiting(s)

(* 'failed service messages should respond via error handler (GH-1839)': a message that may *)
(* be rejected is not resolved when the server's handler failed.                            *)
FailedMessagesAreNotResolved ==
    \A s \in Sent :
        msg[s].mayReject /\ xhr[s] = "over" /\ handled[s] = 0 => promise[s] # "resolved"

=============================================================================
