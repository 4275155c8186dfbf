--------------------------- MODULE MCMqttSession ----------------------------
(* Two filters, one of them refused, and messages that fit exactly, that carry
   a packet id and that do not fit. *)
EXTENDS MqttSession

MCFilters == {<<65>>, <<66>>}
MCRefused == {<<66>>}
MCTopic == <<84>>

\* Of 7, 9 and 10 bytes, with a buffer of 9.
MCMessages ==
    {[topic |-> <<84>>, payload |-> <<48>>, qos |-> 0],
     [topic |-> <<84>>, payload |-> <<49>>, qos |-> 1],
     [topic |-> <<84>>, payload |-> <<32, 2, 0, 1>>, qos |-> 0]}

=============================================================================
