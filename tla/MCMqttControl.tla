--------------------------- MODULE MCMqttControl ---------------------------
(* Constants for the model checking of MqttControl.                        *)
EXTENDS MqttControl

Msg(q, p) == [qos |-> q, payload |-> p]

\* The two commands, one of them with more text behind it, a foreign text, and
\* a payload of twice the buffer, the last part of which begins with a command.
WholeMessages ==
    {Msg(1, LedOn), Msg(0, LedOff \o <<"x">>), Msg(1, <<"x">>),
     Msg(1, <<"x", "x", "x">> \o LedOn \o <<"x">>)}

\* A command cut short as well.
PartMessages ==
    {Msg(1, LedOn), Msg(1, <<"x">> \o LedOff \o <<"x">>), Msg(0, <<"LEDO">>)}

\* A text of more than twice the buffer.
LongMessages == {Msg(1, LedOn), Msg(1, [i \in 1..7 |-> "x"])}

=============================================================================
