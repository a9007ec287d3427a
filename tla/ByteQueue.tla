------------------------------- MODULE ByteQueue -------------------------------
(***************************************************************************)
(* What muduo::net::Buffer promises: a sequence of bytes with two ends.    *)
(* call is the last call: the end that it changed and the bytes that it    *)
(* was given, or gave back.                                                *)
(***************************************************************************)
EXTENDS Sequences

VARIABLES content, call
queueVars == <<content, call>>

QueueInit == content = <<>>
PushBack == call'.op = "pushBack" /\ content' = content \o call'.bytes
PushFront == call'.op = "pushFront" /\ content' = call'.bytes \o content
PopFront == call'.op = "popFront" /\ content = call'.bytes \o content'
PopBack == call'.op = "popBack" /\ content = content' \o call'.bytes
Tidy == call'.op = "tidy" /\ content' = content
QueueSpec == QueueInit /\ [][PushBack \/ PushFront \/ PopFront \/ PopBack \/ Tidy]_queueVars
===============================================================================
