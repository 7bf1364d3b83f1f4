------------------------------ MODULE MCProducer -------------------------------
(* Activities for the payment producer, for TLC.                           *)
EXTENDS PaymentProducer

A(src, start, count, waits, amounts, fails) ==
    [source |-> src, start |-> start, count |-> count, waits |-> waits,
     amounts |-> amounts, fails |-> fails]

\* Two defined activities and a random one that may draw a zero amount or fail.
Mixed == <<A(1, None, 2, {1}, {1}, FALSE), A(2, 0, None, {2}, {1}, FALSE),
           A(3, None, None, {1, 3}, {0, 1}, TRUE)>>

\* Every activity has a count; one of them is zero.
Counted == <<A(1, None, 2, {1}, {1}, FALSE), A(2, 1, 3, {0, 2}, {1}, FALSE),
             A(3, 0, 0, {1}, {1}, FALSE)>>

\* Two activities of one node, as in the README's example.
SharedSource == <<A(1, 0, 1, {2}, {1}, FALSE), A(1, 0, 2, {1}, {1}, FALSE)>>

MCConfiguration == {Mixed, Counted}
SharedConfiguration == {SharedSource}

===============================================================================
