----------------------------- MODULE Publisher -----------------------------
(***************************************************************************)
(* The RabbitMQ publisher: infra/rabbitmq.go.                              *)
(*                                                                         *)
(* Publish runs under one mutex, so one message is in flight at a time     *)
(* from the publisher's view.  Each attempt sends on a channel in confirm  *)
(* mode and waits for the broker's confirmation, a mandatory return, the   *)
(* end of the channel or a timeout.  The broker answers in order, a return *)
(* before the confirmation of the same message; the client library moves   *)
(* the frames into two Go channels of capacity one.                        *)
(*                                                                         *)
(* A definition X_Bug before X is a plausible mistake in the code X models.*)
(***************************************************************************)
EXTENDS Integers, Sequences

CONSTANTS
    Messages,      \* messages the application publishes, once each (bound)
    Unroutable,    \* those whose queue does not exist
    RetryCount,    \* RabbitMQConfig.RetryCount
    MaxLosses,     \* bound: channels lost
    None

ASSUME ConstantsAssumption ==
    /\ Unroutable \subseteq Messages
    /\ RetryCount \in Nat \ {0}
    /\ MaxLosses \in Nat
    /\ None \notin Messages

VARIABLES
    open,        \* the AMQP channel is usable
    closed,      \* RabbitMQ.closed
    toBroker,    \* messages sent on the channel the broker has not handled
    wire,        \* frames of the broker not yet in a Go channel
    returns,     \* RabbitMQ.returns, capacity 1
    confirms,    \* RabbitMQ.confirms, capacity 1
    stored,      \* the messages in their durable queue
    pc,          \* where Publish is
    msg,         \* the message of this Publish
    attempt,     \* the loop variable
    failed,      \* finalErr # nil
    returned,    \* returnedMessage # nil
    overdue,     \* an attempt has timed out on this channel (history)
    result,      \* result[m]: what Publish(m) answered
    losses       \* channels lost so far

chan == <<open, toBroker, wire, returns, confirms>>
vars == <<open, closed, toBroker, wire, returns, confirms, stored, pc, msg, attempt,
          failed, returned, overdue, result, losses>>

Frames == {"return", "ack", "nack"} \X Messages

TypeOK ==
    /\ open \in BOOLEAN /\ closed \in BOOLEAN
    /\ toBroker \in Seq(Messages)
    /\ wire \in Seq(Frames)
    /\ returns \in Seq({"return"} \X Messages) /\ Len(returns) <= 1
    /\ confirms \in Seq({"ack", "nack"} \X Messages) /\ Len(confirms) <= 1
    /\ stored \subseteq Messages
    /\ pc \in {"idle", "top", "send", "wait", "next"}
    /\ msg \in Messages \cup {None}
    /\ attempt \in 0..(RetryCount - 1)
    /\ failed \in BOOLEAN /\ returned \in BOOLEAN
    /\ overdue \in BOOLEAN
    /\ result \in [Messages -> {"none", "ok", "error"}]
    /\ losses \in 0..MaxLosses

\* OpenRabbitMQ has connected.
Init ==
    /\ open = TRUE /\ closed = FALSE
    /\ toBroker = <<>> /\ wire = <<>> /\ returns = <<>> /\ confirms = <<>>
    /\ stored = {}
    /\ pc = "idle"
    /\ msg = None
    /\ attempt = 0
    /\ failed = FALSE /\ returned = FALSE /\ overdue = FALSE
    /\ result = [m \in Messages |-> "none"]
    /\ losses = 0

(***************************************************************************)
(* Publish: the retry loop                                                 *)
(***************************************************************************)
Publish(m) ==
    /\ pc = "idle" /\ result[m] = "none"
    /\ msg' = m
    /\ attempt' = 0
    /\ failed' = FALSE
    /\ pc' = "top"
    /\ UNCHANGED <<chan, closed, stored, returned, result, overdue, losses>>

\* A closed channel is replaced unless Close was called; dialling clears or sets finalErr.
Reconnect ==
    /\ pc = "top" /\ ~open
    /\ \/ /\ ~closed
          /\ open' = TRUE /\ failed' = FALSE
          /\ toBroker' = <<>> /\ wire' = <<>> /\ returns' = <<>> /\ confirms' = <<>>
          /\ overdue' = FALSE
          /\ pc' = "send"
       \/ failed' = TRUE /\ pc' = "next" /\ UNCHANGED <<chan, overdue>>
    /\ UNCHANGED <<closed, stored, msg, attempt, returned, result, losses>>

\* An open channel is kept, and finalErr with it: the attempt sends only if the
\* last one left no error.
KeepChannel ==
    /\ pc = "top" /\ open
    /\ pc' = IF failed THEN "next" ELSE "send"
    /\ UNCHANGED <<chan, closed, stored, msg, attempt, failed, returned, result, overdue, losses>>

Finish(answer) ==
    /\ result' = [result EXCEPT ![msg] = answer]
    /\ msg' = None
    /\ attempt' = 0
    /\ failed' = FALSE
    /\ pc' = "idle"

\* The attempt failed: another one after the back-off, or the end, after the
\* last attempt or when the context is done.
NextAttempt ==
    /\ pc = "next"
    /\ \/ /\ attempt + 1 < RetryCount
          /\ attempt' = attempt + 1
          /\ pc' = "top"
          /\ UNCHANGED <<msg, failed, result>>
       \/ Finish("error")
    /\ UNCHANGED <<chan, closed, stored, returned, overdue, losses>>

(***************************************************************************)
(* publishOnceLocked                                                       *)
(***************************************************************************)
FailAttempt ==
    /\ failed' = TRUE
    /\ returned' = FALSE
    /\ pc' = "next"
    /\ UNCHANGED <<msg, attempt, result>>

\* PublishWithContext writes to an open channel; the write may also fail, on a
\* channel that is closed or about to be found broken.
Send ==
    /\ pc = "send"
    /\ \/ /\ open
          /\ toBroker' = Append(toBroker, msg)
          /\ pc' = "wait"
          /\ UNCHANGED failed
       \/ failed' = TRUE /\ pc' = "next" /\ UNCHANGED toBroker
    /\ UNCHANGED <<open, closed, wire, returns, confirms, stored, msg, attempt, returned, result,
                   overdue, losses>>

\* case returned := <-r.returns: the confirmation still follows.
TakeReturn ==
    /\ pc = "wait" /\ returns # <<>>
    /\ returned' = TRUE
    /\ returns' = <<>>
    /\ UNCHANGED <<open, closed, toBroker, wire, confirms, stored, pc, msg, attempt, failed,
                   result, overdue, losses>>

TakeConfirm_NoDrain ==
    /\ pc = "wait" /\ confirms # <<>>
    /\ confirms' = <<>>
    /\ IF confirms[1][1] = "nack" \/ returned
         THEN FailAttempt
         ELSE Finish("ok") /\ returned' = FALSE
    /\ UNCHANGED <<open, closed, toBroker, wire, returns, stored, overdue, losses>>

\* case confirmation := <-r.confirms, whatever message it confirms; an ACK is
\* followed by a last look into returns, which a closed channel answers like a
\* returned message.
TakeConfirm ==
    /\ pc = "wait" /\ confirms # <<>>
    /\ confirms' = <<>>
    /\ IF confirms[1][1] = "nack"
         THEN FailAttempt /\ UNCHANGED returns
         ELSE /\ returns' = IF returned THEN returns ELSE <<>>
              /\ \/ (returned \/ returns # <<>> \/ ~open) /\ FailAttempt
                 \/ ~returned /\ returns = <<>> /\ Finish("ok") /\ returned' = FALSE
    /\ UNCHANGED <<open, closed, toBroker, wire, stored, overdue, losses>>

\* Both Go channels are closed with the AMQP channel; what they still hold may
\* be read first.
SeeClosed ==
    /\ pc = "wait" /\ ~open
    /\ FailAttempt
    /\ UNCHANGED <<chan, closed, stored, overdue, losses>>

WaitTimeout_Ignored ==
    /\ pc = "wait"
    /\ overdue' = TRUE
    /\ UNCHANGED <<chan, closed, stored, pc, msg, attempt, failed, returned, result, losses>>

\* case <-publishCtx.Done(): the channel stays open.
WaitTimeout ==
    /\ pc = "wait"
    /\ FailAttempt
    /\ overdue' = TRUE
    /\ UNCHANGED <<chan, closed, stored, losses>>

(***************************************************************************)
(* The client library, the broker and the network (external)               *)
(***************************************************************************)

\* The library's dispatcher puts the next frame into its Go channel, when there
\* is room.
Dispatch ==
    /\ wire # <<>>
    /\ IF Head(wire)[1] = "return"
         THEN returns = <<>> /\ returns' = <<Head(wire)>> /\ UNCHANGED confirms
         ELSE confirms = <<>> /\ confirms' = <<Head(wire)>> /\ UNCHANGED returns
    /\ wire' = Tail(wire)
    /\ UNCHANGED <<open, closed, toBroker, stored, pc, msg, attempt, failed, returned, result,
                   overdue, losses>>

\* The broker stores and confirms, refuses, or returns and confirms a message.
BrokerAnswers ==
    /\ open /\ toBroker # <<>>
    /\ LET m == Head(toBroker) IN
       IF m \in Unroutable
         THEN wire' = wire \o <<<<"return", m>>, <<"ack", m>>>> /\ UNCHANGED stored
         ELSE \/ stored' = stored \cup {m} /\ wire' = Append(wire, <<"ack", m>>)
              \/ wire' = Append(wire, <<"nack", m>>) /\ UNCHANGED stored
    /\ toBroker' = Tail(toBroker)
    /\ UNCHANGED <<open, closed, returns, confirms, pc, msg, attempt, failed, returned, result,
                   overdue, losses>>

\* The connection or the channel breaks: what the broker has not answered may
\* or may not be stored, and frames under way are lost.
ChannelLost ==
    /\ open /\ losses < MaxLosses
    /\ losses' = losses + 1
    /\ open' = FALSE
    /\ stored' \in { stored, stored \cup ({ toBroker[i] : i \in DOMAIN toBroker } \ Unroutable) }
    /\ toBroker' = <<>> /\ wire' = <<>>
    /\ UNCHANGED <<closed, returns, confirms, pc, msg, attempt, failed, returned, overdue, result>>

\* Close waits for the mutex; later calls of Publish cannot dial again.
Close ==
    /\ pc = "idle" /\ ~closed
    /\ closed' = TRUE
    /\ open' = FALSE
    /\ toBroker' = <<>> /\ wire' = <<>>
    /\ stored' \in { stored, stored \cup ({ toBroker[i] : i \in DOMAIN toBroker } \ Unroutable) }
    /\ UNCHANGED <<returns, confirms, pc, msg, attempt, failed, returned, overdue, result, losses>>

PublishStep ==
    \/ Reconnect \/ KeepChannel \/ NextAttempt \/ Send \/ TakeReturn
    \/ TakeConfirm \/ SeeClosed \/ WaitTimeout

Next ==
    \/ \E m \in Messages : Publish(m)
    \/ PublishStep \/ Close
    \/ Dispatch \/ BrokerAnswers \/ ChannelLost

\* The goroutine inside Publish runs, its timers included; nothing is assumed
\* of the broker or the network.
Spec == Init /\ [][Next]_vars /\ WF_vars(PublishStep)

(***************************************************************************)
(* Properties                                                              *)
(***************************************************************************)

\* Publish reports success only for a message the broker has put into its
\* queue: a confirmation is never taken for another message's, and a returned
\* message is noticed although its ACK may be read first.
AckMeansStored == \A m \in Messages : result[m] = "ok" => m \in stored

\* The same, on a channel on which no attempt has timed out since it was opened:
\* losses, reconnects, nacks and returns alone never confuse two messages.
AnsweredMeansStored ==
    [][\A m \in Messages :
         result[m] # "ok" /\ result'[m] = "ok" /\ ~overdue => m \in stored]_vars

\* Publish answers, even if the broker never does.
PublishReturns == pc # "idle" ~> pc = "idle"

=============================================================================
