------------------------------ MODULE SqsMessage ------------------------------
(***************************************************************************)
(* One message of a standard SQS queue with a redrive policy, as the       *)
(* queues of pipeline/realtime/template.yaml are configured: the message   *)
(* stays in the queue while a Lambda works on it, comes back when that     *)
(* invocation dies, and moves to the dead-letter queue once it has been    *)
(* received maxReceiveCount times without being deleted.                   *)
(*                                                                         *)
(* The visibility timeout of every queue exceeds the timeout of the Lambda *)
(* that reads it (720 > 120 and 300, 1800 > 900 and 300), so a message is  *)
(* never handed out again while its own invocation may still be running:   *)
(* there is no step from "inflight" that leaves a live invocation behind.  *)
(***************************************************************************)
EXTENDS Naturals

CONSTANT MaxReceive       \* RedrivePolicy.maxReceiveCount

ASSUME MaxReceiveAssumption == MaxReceive \in Nat \ {0}

Status == {"absent", "visible", "inflight", "deleted", "dead"}

\* receives counts the deliveries so far (ApproximateReceiveCount).
Message == [status : Status, receives : 0 .. MaxReceive]

Absent == [status |-> "absent", receives |-> 0]

\* A message just sent, or moved back from the dead-letter queue.
Fresh == [status |-> "visible", receives |-> 0]

\* Mutated form: the delivery is not counted.
ReceivedUncounted(m) == [m EXCEPT !.status = "inflight"]

Received(m) == [status |-> "inflight", receives |-> m.receives + 1]

\* The handler returned: the event source mapping deletes the message.
Deleted(m) == [m EXCEPT !.status = "deleted"]

\* The handler raised or was killed: the message is offered again, unless
\* this was its last permitted delivery.
Returned(m) ==
    [m EXCEPT !.status = IF m.receives < MaxReceive THEN "visible" ELSE "dead"]

\* The queue service still owes a delivery of the message, or has one running.
Pending(m) == m.status \in {"visible", "inflight"}

===============================================================================
