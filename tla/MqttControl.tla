---------------------------- MODULE MqttControl ----------------------------
(***************************************************************************)
(* The sample mqtt_control: main() connects to a broker, polls the socket, *)
(* feeds the MQTT library, and reconnects for ever; the library calls      *)
(* mqtt_evt_handler, which subscribes, reads a published payload into a    *)
(* static buffer, acknowledges it and obeys the command in the buffer; the *)
(* button thread publishes whenever the button is pressed.                 *)
(*                                                                         *)
(* A payload is a sequence of cells, the payload buffer has BufferCells of *)
(* them, and the two commands differ in their second cell.  Where a read   *)
(* asks for more than the buffer holds and gets it, the model stops, at    *)
(* "overrun": the language says nothing of the program any more.           *)
(* The broker, the network and the MQTT library are external: a read gives *)
(* what has come of what it asks for, the library closes the socket when   *)
(* the network or the broker ends the connection, and                      *)
(* CONFIG_MQTT_CLEAN_SESSION makes the broker forget the subscription with *)
(* the connection.                                                         *)
(*                                                                         *)
(* A definition marked "Mutant" is the definition that follows it with a   *)
(* plausible mistake; no formula uses it.                                  *)
(***************************************************************************)
EXTENDS Naturals, Sequences

CONSTANTS
    BufferCells,  \* CONFIG_MQTT_PAYLOAD_BUFFER_SIZE, in cells
    Messages,     \* the records [qos, payload] that the broker may deliver
    MaxInbox,     \* bound on the messages under way to the device
    Fds           \* the descriptors that socket() may return

LedOn == <<"LEDO", "N">>     \* CONFIG_TURN_LED_ON_CMD
LedOff == <<"LEDO", "FF">>   \* CONFIG_TURN_LED_OFF_CMD
NoCommand == <<>>

ASSUME SizeAssumption ==
    /\ BufferCells \in Nat /\ BufferCells >= 2
    /\ MaxInbox \in Nat
    /\ Messages \subseteq [qos : {0, 1}, payload : Seq(STRING)]

VARIABLES
    mainPc,        \* where main(), or the handler it is in, is
    conn,          \* the client: closed, connecting (no CONNACK yet), connected
    sock,          \* client.transport.tcp.sock
    pollFd,        \* fds.fd in main()
    payloadBuf,    \* payload_buf
    payloadErr,    \* err of get_received_payload
    handling,      \* the message whose event is being handled
    unread,        \* the cells of its payload that are still to be read
    led,           \* LED_CONTROL_OVER_MQTT
    button,        \* what became of the last publication by button_handler
    broken,        \* the network or the broker has ended the connection
    network,       \* the network lets connections live
    subscribed,    \* the broker has the subscription
    inbox,         \* the messages under way to the device
    unacked,       \* history: QoS 1 messages received on this connection
                   \* and not acknowledged
    lastCommand    \* history: the command that began the last payload which
                   \* began with one and fitted in the buffer

device == <<payloadBuf, payloadErr, handling, unread, led, lastCommand>>
session == <<conn, sock, broken, subscribed, inbox, unacked>>
vars == <<mainPc, pollFd, device, session, button, network>>

NoMessage == [qos |-> 0, payload |-> <<>>]

Init ==
    /\ mainPc = "configure"
    /\ conn = "closed" /\ sock \in Fds /\ pollFd \in Fds
    /\ payloadBuf = [i \in 1..BufferCells |-> "nul"]
    /\ payloadErr = "ok"
    /\ handling = NoMessage /\ unread = <<>>
    /\ led = "off"
    /\ button = "none"
    /\ broken = FALSE /\ network \in BOOLEAN
    /\ subscribed = FALSE
    /\ inbox = <<>>
    /\ unacked = 0
    /\ lastCommand = NoCommand

-----------------------------------------------------------------------------
(* main()                                                                  *)

\* nrf_modem_lib_init, the wait for the registration, and the blinking LED,
\* which is the one that the commands control, and ends off.
ModemConfigure ==
    /\ mainPc = "configure"
    /\ mainPc' \in {"client_init", "ended"}
    /\ UNCHANGED <<pollFd, device, session, button, network>>

\* The buttons work from here on: button_handler may run before the client is
\* initialised.  client_init resolves the name of the broker.
ClientInit ==
    /\ mainPc = "client_init"
    /\ mainPc' \in {"connect", "ended"}
    /\ UNCHANGED <<pollFd, device, session, button, network>>

\* mqtt_connect opens a socket and sends CONNECT; an attempt that fails changes
\* nothing and is repeated after CONFIG_MQTT_RECONNECT_DELAY_S.
Connect ==
    /\ mainPc = "connect"
    /\ network
    /\ conn' = "connecting"
    /\ sock' \in Fds
    /\ broken' = FALSE
    /\ mainPc' = "fds_init"
    /\ UNCHANGED <<pollFd, device, subscribed, inbox, unacked, button, network>>

\* Mutant: the descriptor is not set.
FdsInit_None ==
    /\ mainPc = "fds_init"
    /\ mainPc' = "poll"
    /\ UNCHANGED <<pollFd, device, session, button, network>>

FdsInit ==
    /\ mainPc = "fds_init"
    /\ pollFd' = sock
    /\ mainPc' = "poll"
    /\ UNCHANGED <<device, session, button, network>>

\* Mutant: an error of poll does not end the loop.
Poll_NoBreak ==
    /\ mainPc = "poll"
    /\ mainPc' = IF conn = "closed" THEN "poll" ELSE "input"
    /\ UNCHANGED <<pollFd, device, session, button, network>>

\* poll, mqtt_live and the tests of revents: an error, or the descriptor of a
\* socket that is closed or broken, ends the loop; data leads to mqtt_input.
Poll ==
    /\ mainPc = "poll"
    /\ \/ mainPc' = "disconnect" /\ (conn = "closed" \/ broken)
       \/ mainPc' = "input" /\ conn # "closed"
    /\ UNCHANGED <<pollFd, device, session, button, network>>

\* The library closes the socket; the broker drops what belonged to it.
CloseSession ==
    /\ conn' = "closed"
    /\ subscribed' = FALSE
    /\ inbox' = <<>>
    /\ unacked' = 0
    /\ UNCHANGED <<sock, broken>>

\* mqtt_disconnect; its result is only logged.
Disconnect ==
    /\ mainPc = "disconnect"
    /\ CloseSession
    /\ mainPc' = "connect"
    /\ UNCHANGED <<pollFd, device, button, network>>

\* mqtt_input finds that the connection is gone.
InputFails ==
    /\ mainPc = "input"
    /\ broken
    /\ CloseSession
    /\ mainPc' = "disconnect"
    /\ UNCHANGED <<pollFd, device, button, network>>

\* mqtt_input finds nothing that changes the application's state: PINGRESP,
\* PUBACK, SUBACK, or no whole packet yet.
InputOther ==
    /\ mainPc = "input"
    /\ ~broken
    /\ mainPc' = "poll"
    /\ UNCHANGED <<pollFd, device, session, button, network>>

-----------------------------------------------------------------------------
(* mqtt_evt_handler, called by mqtt_input                                  *)

\* MQTT_EVT_CONNACK: the result of subscribe() is ignored.
Connack ==
    /\ mainPc = "input"
    /\ ~broken /\ conn = "connecting"
    /\ conn' = "connected"
    /\ subscribed' \in BOOLEAN
    /\ mainPc' = "poll"
    /\ UNCHANGED <<pollFd, device, sock, broken, inbox, unacked, button, network>>

ConnackRefused ==
    /\ mainPc = "input"
    /\ ~broken /\ conn = "connecting"
    /\ CloseSession
    /\ mainPc' = "disconnect"
    /\ UNCHANGED <<pollFd, device, button, network>>

\* MQTT_EVT_PUBLISH.
Publish ==
    /\ mainPc = "input"
    /\ ~broken /\ conn = "connected" /\ inbox # <<>>
    /\ handling' = Head(inbox) /\ unread' = Head(inbox).payload
    /\ inbox' = Tail(inbox)
    /\ unacked' = unacked + Head(inbox).qos
    /\ mainPc' = "payload"
    /\ UNCHANGED <<pollFd, payloadBuf, payloadErr, led, lastCommand, conn, sock,
                   broken, subscribed, button, network>>

\* Cells read to the start of the buffer; what follows them stays.
Overlay(buf, cells) ==
    [i \in 1..BufferCells |-> IF i <= Len(cells) THEN cells[i] ELSE buf[i]]

Begins(payload, command) ==
    Len(payload) >= Len(command) /\ \A i \in DOMAIN command : payload[i] = command[i]

\* The command that a payload asks for, as the tests of the handler define it:
\* what follows the command does not matter.
CommandIn(payload) ==
    IF Len(payload) > BufferCells     THEN NoCommand
    ELSE IF Begins(payload, LedOn)    THEN LedOn
    ELSE IF Begins(payload, LedOff)   THEN LedOff
    ELSE NoCommand

\* The loop of get_received_payload: each read asks for the cells that are too
\* many, gets some of them, and puts them to the start of the buffer.
TruncateStep ==
    /\ mainPc = "payload" /\ Len(unread) > BufferCells
    /\ \E n \in 1..(Len(unread) - BufferCells) :
         /\ mainPc' = IF n > BufferCells THEN "overrun" ELSE "payload"
         /\ payloadBuf' = Overlay(payloadBuf, SubSeq(unread, 1, n))
         /\ unread' = SubSeq(unread, n + 1, Len(unread))
    /\ UNCHANGED <<pollFd, payloadErr, handling, led, lastCommand, session, button, network>>

\* The cells that fit, or are the last, are read over the others.
ReadRest ==
    /\ mainPc = "payload" /\ Len(unread) <= BufferCells
    /\ payloadBuf' = Overlay(payloadBuf, unread)
    /\ payloadErr' = IF Len(handling.payload) > BufferCells THEN "EMSGSIZE" ELSE "ok"
    /\ lastCommand' = IF CommandIn(handling.payload) = NoCommand
                      THEN lastCommand ELSE CommandIn(handling.payload)
    /\ unread' = <<>>
    /\ mainPc' = "ack"
    /\ UNCHANGED <<pollFd, handling, led, session, button, network>>

\* The connection is gone before the payload is read, or while its last cells
\* are, of which some are in the buffer then.
ReadFails ==
    /\ mainPc = "payload" /\ broken /\ unread # <<>>
    /\ \E n \in 0..(IF Len(unread) > BufferCells THEN 0 ELSE Len(unread) - 1) :
         payloadBuf' = Overlay(payloadBuf, SubSeq(unread, 1, n))
    /\ payloadErr' = "EIO"
    /\ unread' = <<>>
    /\ mainPc' = "ack"
    /\ UNCHANGED <<pollFd, handling, led, lastCommand, session, button, network>>

GetPayload == TruncateStep \/ ReadRest \/ ReadFails

\* Mutant: only a message that could be read is acknowledged.
Ack_OnSuccess ==
    /\ mainPc = "ack"
    /\ unacked' = IF handling.qos = 1 /\ payloadErr = "ok" THEN unacked - 1 ELSE unacked
    /\ mainPc' = "act"
    /\ UNCHANGED <<pollFd, device, conn, sock, broken, subscribed, inbox, button, network>>

\* A QoS 1 message is acknowledged whatever became of its payload.
Ack ==
    /\ mainPc = "ack"
    /\ unacked' = IF handling.qos = 1 THEN unacked - 1 ELSE unacked
    /\ mainPc' = "act"
    /\ UNCHANGED <<pollFd, device, conn, sock, broken, subscribed, inbox, button, network>>

\* strncmp compares as many cells of the buffer as the command has, however
\* long the message was.
BufferHolds(command) == \A i \in DOMAIN command : payloadBuf[i] = command[i]

\* Mutant: a payload that is too long is obeyed as well.
Act_AnyLength ==
    /\ mainPc = "act"
    /\ IF payloadErr # "EIO"
       THEN led' = IF BufferHolds(LedOn) THEN "on"
                   ELSE IF BufferHolds(LedOff) THEN "off" ELSE led
       ELSE UNCHANGED led
    /\ IF payloadErr = "EIO" THEN CloseSession ELSE UNCHANGED session
    /\ mainPc' = "poll"
    /\ UNCHANGED <<pollFd, payloadBuf, payloadErr, handling, unread, lastCommand, button, network>>

Act ==
    /\ mainPc = "act"
    /\ IF payloadErr = "ok"
       THEN led' = IF BufferHolds(LedOn) THEN "on"
                   ELSE IF BufferHolds(LedOff) THEN "off" ELSE led
       ELSE UNCHANGED led
    /\ IF payloadErr = "EIO" THEN CloseSession ELSE UNCHANGED session
    /\ mainPc' = "poll"
    /\ UNCHANGED <<pollFd, payloadBuf, payloadErr, handling, unread, lastCommand, button, network>>

-----------------------------------------------------------------------------
(* The button thread, the broker and the network                           *)

\* data_publish, called as soon as dk_buttons_init has returned.
PressButton ==
    /\ mainPc \notin {"configure", "ended", "overrun"}
    /\ button' = IF conn = "connected" THEN "published" ELSE "failed"
    /\ UNCHANGED <<mainPc, pollFd, device, session, network>>

BrokerSends ==
    /\ subscribed /\ ~broken
    /\ Len(inbox) < MaxInbox
    /\ \E m \in Messages : inbox' = Append(inbox, m)
    /\ UNCHANGED <<mainPc, pollFd, device, conn, sock, broken, subscribed, unacked,
                   button, network>>

ConnectionBreaks ==
    /\ conn # "closed" /\ ~broken
    /\ ~network
    /\ broken' = TRUE
    /\ UNCHANGED <<mainPc, pollFd, device, conn, sock, subscribed, inbox, unacked,
                   button, network>>

NetworkChanges ==
    /\ network' = ~network
    /\ UNCHANGED <<mainPc, pollFd, device, session, button>>

Setup == ModemConfigure \/ ClientInit
Handler == Connack \/ ConnackRefused \/ Publish \/ GetPayload \/ Ack \/ Act
Loop == FdsInit \/ Poll \/ Disconnect \/ InputFails \/ InputOther \/ Handler

Next == \/ Setup \/ Connect \/ Loop
        \/ PressButton \/ BrokerSends \/ ConnectionBreaks \/ NetworkChanges

Spec == Init /\ [][Next]_vars

\* main() runs; an attempt to connect and a CONNACK get through if the network
\* lets them again and again; a broken connection is noticed.
Fairness ==
    /\ WF_vars(Setup) /\ WF_vars(Loop)
    /\ SF_vars(Connect) /\ SF_vars(Connack)
    /\ SF_vars(InputFails \/ (Poll /\ mainPc' = "disconnect"))

FairSpec == Spec /\ Fairness

-----------------------------------------------------------------------------
TypeOK ==
    /\ mainPc \in {"configure", "client_init", "connect", "fds_init", "poll",
                   "input", "payload", "overrun", "ack", "act", "disconnect", "ended"}
    /\ conn \in {"closed", "connecting", "connected"}
    /\ sock \in Fds /\ pollFd \in Fds
    /\ DOMAIN payloadBuf = 1..BufferCells
    /\ payloadErr \in {"ok", "EMSGSIZE", "EIO"}
    /\ handling \in Messages \cup {NoMessage} /\ unread \in Seq(STRING)
    /\ led \in {"on", "off"}
    /\ button \in {"none", "published", "failed"}
    /\ broken \in BOOLEAN /\ network \in BOOLEAN /\ subscribed \in BOOLEAN
    /\ inbox \in Seq(Messages) /\ Len(inbox) <= MaxInbox
    /\ unacked \in {0, 1}
    /\ lastCommand \in {NoCommand, LedOn, LedOff}

\* Inside the loop of main(), fds watches the socket of the connection that is
\* open, also after any number of reconnections.
PollsTheOpenSocket ==
    mainPc \in {"poll", "input", "payload", "ack", "act"} /\ conn # "closed"
        => pollFd = sock

\* mqtt_connect is never called while the previous connection is open,
\* whichever of the loop, the library or the handler closed it.
ConnectsOnceClosed == mainPc = "connect" => conn = "closed"

\* No packet is read before the QoS 1 message in front of it is acknowledged,
\* whatever became of its payload.
AcksBeforeNextPacket == mainPc \in {"poll", "input"} => unacked = 0

\* No read of get_received_payload puts more into the payload buffer than it
\* holds.
ReadsFitBuffer == mainPc # "overrun"

\* With no message that ends inside a command, the LED shows the last command
\* that reached the device in a payload that fitted in the buffer.
LedShowsLastCommand ==
    mainPc \in {"poll", "input"} =>
        led = IF lastCommand = LedOn THEN "on" ELSE "off"

\* When the network stays up, a device that has passed its set-up and overruns
\* no buffer ends up connected for good.
Reconnects ==
    <>[]network => \/ <>(mainPc \in {"ended", "overrun"})
                   \/ <>[](conn = "connected")

=============================================================================
