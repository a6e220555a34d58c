------------------------------ MODULE MarkQueue ------------------------------
(***************************************************************************)
(* What readerwriterqueue.h promises to the player, without blocks or      *)
(* indices: an unbounded queue with one producer and one consumer.  An     *)
(* element is in the queue at once or not at all.  A call of the consumer  *)
(* takes time; it may answer "empty" only if the queue was empty when the  *)
(* call began, since the consumer alone can empty it.                      *)
(***************************************************************************)
EXTENDS Sequences

CONSTANT Element

VARIABLES
  queue,    \* the elements, oldest first
  call,     \* the consumer's running call, "none" when there is none
  mayFail,  \* the queue was empty when the running call began
  answer    \* what the last finished call of the consumer gave

vars == <<queue, call, mayFail, answer>>

Init == queue = << >> /\ call = "none" /\ mayFail = FALSE /\ answer = << >>

Enqueue(element) ==
  /\ queue' = Append(queue, element)
  /\ UNCHANGED <<call, mayFail, answer>>

Begin(operation) ==
  /\ call = "none"
  /\ call' = operation
  /\ mayFail' = (queue = << >>)
  /\ answer' = << >>
  /\ UNCHANGED queue

AnswerEmpty ==
  /\ call # "none" /\ mayFail
  /\ call' = "none" /\ mayFail' = FALSE
  /\ UNCHANGED <<queue, answer>>

Peek ==
  /\ call = "peek" /\ queue # << >>
  /\ answer' = <<Head(queue)>>
  /\ call' = "none" /\ mayFail' = FALSE
  /\ UNCHANGED queue

Dequeue ==
  /\ call = "try_dequeue" /\ queue # << >>
  /\ answer' = <<Head(queue)>>
  /\ queue' = Tail(queue)
  /\ call' = "none" /\ mayFail' = FALSE

Next ==
  \/ \E element \in Element : Enqueue(element)
  \/ \E operation \in {"peek", "try_dequeue"} : Begin(operation)
  \/ AnswerEmpty \/ Peek \/ Dequeue

Spec == Init /\ [][Next]_vars
=============================================================================
