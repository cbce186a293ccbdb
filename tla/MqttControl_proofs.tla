------------------------- MODULE MqttControl_proofs -------------------------
(***************************************************************************)
(* The connection of mqtt_control: what main(), the event handler and the  *)
(* library know of it at each step, through any number of reconnections,   *)
(* for messages of any length, any descriptors and any size of the payload *)
(* buffer.  A read that overruns the buffer ends what the model says:      *)
(* nothing follows a state in which mainPc is "overrun".                   *)
(***************************************************************************)
EXTENDS MqttControl, TLAPS

InLoop == {"poll", "input", "payload", "ack", "act"}

\* The connection as main() finds it, step by step.
ConnInv ==
    /\ mainPc \in {"configure", "client_init", "connect"} => conn = "closed"
    /\ mainPc = "fds_init" => conn = "connecting"
    /\ mainPc \in {"payload", "ack", "act"} => conn = "connected"
    /\ mainPc \in InLoop /\ conn # "closed" => pollFd = sock
    /\ conn = "closed" => ~subscribed /\ inbox = <<>>

\* The one message that is not acknowledged is the one that is handled.
AckInv ==
    unacked = IF mainPc \in {"payload", "overrun", "ack"} THEN handling.qos ELSE 0

IInv == TypeOK /\ ConnInv /\ AckInv

-----------------------------------------------------------------------------
\* The inbox of a new connection.
LEMMA EmptyInbox == <<>> \in Seq(Messages) /\ Len(<<>>) <= MaxInbox
BY SizeAssumption

LEMMA IInvInit == ASSUME Init PROVE IInv
<1>1. DOMAIN payloadBuf = 1..BufferCells
  BY DEF Init
<1>2. unread \in Seq(STRING)
  BY DEF Init
<1>3. TypeOK
  BY <1>1, <1>2, EmptyInbox, Zenon DEF Init, TypeOK
<1> QED BY <1>3 DEF Init, IInv, ConnInv, AckInv, InLoop

\* A message has a QoS of 0 or 1.
LEMMA MessageQos ==
    ASSUME NEW m \in Messages \cup {NoMessage}
    PROVE  m.qos \in {0, 1}
BY SizeAssumption DEF NoMessage

\* main() outside mqtt_input.
LEMMA LoopKeeps ==
    ASSUME IInv, Setup \/ Connect \/ FdsInit \/ Poll \/ Disconnect \/ InputFails \/ InputOther
    PROVE  IInv'
<1> USE SizeAssumption DEF IInv, TypeOK, ConnInv, AckInv, InLoop, device, session, CloseSession
<1>1. CASE Setup
  BY <1>1 DEF Setup, ModemConfigure, ClientInit
<1>2. CASE Connect
  BY <1>2 DEF Connect
<1>3. CASE FdsInit
  BY <1>3 DEF FdsInit
<1>4. CASE Poll
  BY <1>4 DEF Poll
<1>5. CASE Disconnect
  BY <1>5, EmptyInbox DEF Disconnect
<1>6. CASE InputFails
  BY <1>6, EmptyInbox DEF InputFails
<1>7. CASE InputOther
  BY <1>7 DEF InputOther
<1> QED BY <1>1, <1>2, <1>3, <1>4, <1>5, <1>6, <1>7

\* mqtt_evt_handler.
LEMMA HandlerKeeps == ASSUME IInv, Handler PROVE IInv'
<1> USE SizeAssumption DEF IInv, TypeOK, ConnInv, AckInv, InLoop, device, session, CloseSession
<1>1. CASE Connack
  BY <1>1 DEF Connack
<1>2. CASE ConnackRefused
  BY <1>2, EmptyInbox DEF ConnackRefused
<1>3. CASE Publish
  <2>1. handling' \in Messages /\ inbox' \in Seq(Messages) /\ Len(inbox') <= MaxInbox
        /\ unread' \in Seq(STRING)
    BY <1>3 DEF Publish
  <2>2. unacked' = handling'.qos /\ unacked' \in {0, 1}
    <3>1. handling'.qos \in {0, 1}
      BY <2>1, MessageQos
    <3>2. unacked = 0 /\ unacked' = unacked + handling'.qos
      BY <1>3 DEF Publish
    <3> QED BY <3>1, <3>2
  <2>3. TypeOK'
    BY <1>3, <2>1, <2>2 DEF Publish
  <2>4. ConnInv' /\ AckInv'
    BY <1>3, <2>2 DEF Publish
  <2> QED BY <2>3, <2>4
<1>4. CASE TruncateStep
  <2>1. PICK n \in 1..(Len(unread) - BufferCells) :
          /\ mainPc' = IF n > BufferCells THEN "overrun" ELSE "payload"
          /\ payloadBuf' = Overlay(payloadBuf, SubSeq(unread, 1, n))
          /\ unread' = SubSeq(unread, n + 1, Len(unread))
    BY <1>4 DEF TruncateStep
  <2>2. unread' \in Seq(STRING) /\ mainPc' \in {"overrun", "payload"}
    BY <2>1
  <2>3. DOMAIN payloadBuf' = 1..BufferCells
    BY <2>1 DEF Overlay
  <2>4. TypeOK'
    BY <1>4, <2>2, <2>3 DEF TruncateStep
  <2>5. ConnInv' /\ AckInv'
    BY <1>4, <2>2 DEF TruncateStep
  <2> QED BY <2>4, <2>5
<1>7. CASE ReadRest
  <2>1. DOMAIN payloadBuf' = 1..BufferCells /\ payloadErr' \in {"ok", "EMSGSIZE"}
    BY <1>7 DEF ReadRest, Overlay
  <2>2. lastCommand' \in {NoCommand, LedOn, LedOff}
    BY <1>7 DEF ReadRest, CommandIn
  <2>3. unread' \in Seq(STRING)
    BY <1>7 DEF ReadRest
  <2>4. TypeOK'
    BY <1>7, <2>1, <2>2, <2>3 DEF ReadRest
  <2>5. ConnInv' /\ AckInv'
    BY <1>7 DEF ReadRest
  <2> QED BY <2>4, <2>5
<1>8. CASE ReadFails
  <2>1. DOMAIN payloadBuf' = 1..BufferCells
    BY <1>8 DEF ReadFails, Overlay
  <2>2. unread' \in Seq(STRING)
    BY <1>8 DEF ReadFails
  <2>3. TypeOK'
    BY <1>8, <2>1, <2>2 DEF ReadFails
  <2>4. ConnInv' /\ AckInv'
    BY <1>8 DEF ReadFails
  <2> QED BY <2>3, <2>4
<1>5. CASE Ack
  <2>1. unacked' = 0
    BY <1>5, MessageQos DEF Ack
  <2> QED BY <1>5, <2>1 DEF Ack
<1>6. CASE Act
  <2>1. led' \in {"on", "off"}
    BY <1>6 DEF Act
  <2>2. conn' \in {"closed", "connected"} /\ sock' = sock /\ broken' = broken /\ unacked' = 0
        /\ subscribed' \in BOOLEAN /\ inbox' \in {inbox, <<>>}
        /\ (conn' = "closed" => ~subscribed' /\ inbox' = <<>>)
    BY <1>6 DEF Act
  <2>3. TypeOK'
    BY <1>6, <2>1, <2>2, EmptyInbox DEF Act
  <2>4. ConnInv' /\ AckInv'
    BY <1>6, <2>2 DEF Act
  <2> QED BY <2>3, <2>4
<1> QED BY <1>1, <1>2, <1>3, <1>4, <1>5, <1>6, <1>7, <1>8 DEF Handler, GetPayload

\* The button, the broker and the network.
LEMMA OthersKeep ==
    ASSUME IInv, PressButton \/ BrokerSends \/ ConnectionBreaks \/ NetworkChanges
    PROVE  IInv'
<1> USE SizeAssumption DEF IInv, TypeOK, ConnInv, AckInv, InLoop, device, session
<1>1. CASE PressButton
  BY <1>1 DEF PressButton
<1>2. CASE BrokerSends
  <2>1. inbox' \in Seq(Messages) /\ Len(inbox') <= MaxInbox
    BY <1>2 DEF BrokerSends
  <2> QED BY <1>2, <2>1 DEF BrokerSends
<1>3. CASE ConnectionBreaks
  BY <1>3 DEF ConnectionBreaks
<1>4. CASE NetworkChanges
  BY <1>4 DEF NetworkChanges
<1> QED BY <1>1, <1>2, <1>3, <1>4

LEMMA NextKeeps == ASSUME IInv, [Next]_vars PROVE IInv'
<1>1. CASE UNCHANGED vars
  BY <1>1 DEF vars, device, session, IInv, TypeOK, ConnInv, AckInv, InLoop
<1>2. CASE Next
  BY <1>2, LoopKeeps, HandlerKeeps, OthersKeep DEF Next, Loop
<1> QED BY <1>1, <1>2

\* The invariant that the others follow from.
THEOREM Inductive == Spec => []IInv
<1>1. Init => IInv BY IInvInit
<1>2. IInv /\ [Next]_vars => IInv' BY NextKeeps
<1> QED BY <1>1, <1>2, PTL DEF Spec

\* Every variable of mqtt_control keeps its type, however long the payloads of
\* the broker, until a read overruns the payload buffer, if one does.
THEOREM TypeCorrect == Spec => []TypeOK
<1>1. IInv => TypeOK BY DEF IInv
<1> QED BY <1>1, Inductive, PTL

\* fds watches the socket of the open connection, whichever descriptor each
\* reconnection of main() got.
THEOREM PollsOpenSocket == Spec => []PollsTheOpenSocket
<1>1. IInv => PollsTheOpenSocket BY DEF IInv, ConnInv, InLoop, PollsTheOpenSocket
<1> QED BY <1>1, Inductive, PTL

\* main() never calls mqtt_connect while the previous connection is open.
THEOREM ConnectsClosed == Spec => []ConnectsOnceClosed
<1>1. IInv => ConnectsOnceClosed BY DEF IInv, ConnInv, ConnectsOnceClosed
<1> QED BY <1>1, Inductive, PTL

\* The handler acknowledges each QoS 1 message before mqtt_input reads on,
\* whatever became of the payloads and wherever the connection breaks.
THEOREM AcksFirst == Spec => []AcksBeforeNextPacket
<1>1. IInv => AcksBeforeNextPacket BY DEF IInv, AckInv, AcksBeforeNextPacket
<1> QED BY <1>1, Inductive, PTL

-----------------------------------------------------------------------------
(* The payload *)

\* What is left of the payload is no longer than it, and all of it if it fits
\* in the buffer: the loop of get_received_payload did not touch it then.
UnreadInv ==
    mainPc = "payload" =>
        /\ handling \in Messages
        /\ Len(unread) <= Len(handling.payload)
        /\ Len(handling.payload) <= BufferCells => unread = handling.payload

\* What the loop of get_received_payload leaves of a payload.
LEMMA TruncateShortens ==
    ASSUME IInv, UnreadInv, TruncateStep
    PROVE  /\ Len(handling.payload) > BufferCells
           /\ Len(unread') <= Len(unread)
<1>1. unread \in Seq(STRING) /\ Len(unread) \in Nat /\ BufferCells \in Nat
  BY SizeAssumption DEF IInv, TypeOK
<1>2. handling.payload \in Seq(STRING) /\ Len(handling.payload) \in Nat
  BY SizeAssumption DEF UnreadInv, TruncateStep
<1>3. PICK n \in 1..(Len(unread) - BufferCells) : unread' = SubSeq(unread, n + 1, Len(unread))
  BY DEF TruncateStep
<1>4. Len(unread') = Len(unread) - n
  BY <1>1, <1>3
<1> QED BY <1>1, <1>2, <1>3, <1>4 DEF UnreadInv, TruncateStep

\* The steps other than those of get_received_payload neither read nor leave
\* its loop; one begins it.
LEMMA OthersKeepMessage ==
    ASSUME IInv, [Next]_vars, ~GetPayload
    PROVE  \/ UNCHANGED <<mainPc, handling, unread>>
           \/ /\ mainPc \notin {"payload", "overrun"} /\ handling' = handling
              /\ mainPc' \notin {"payload", "overrun"}
           \/ /\ mainPc = "input" /\ mainPc' = "payload" /\ handling' \in Messages
              /\ unread' = handling'.payload
<1>1. CASE Publish
  BY <1>1 DEF Publish, IInv, TypeOK
<1>2. CASE ~Publish
  BY <1>2 DEF Next, Setup, Loop, Handler, ModemConfigure, ClientInit, Connect, FdsInit, Poll,
     Disconnect, InputFails, InputOther, Connack, ConnackRefused, Ack, Act, PressButton,
     BrokerSends, ConnectionBreaks, NetworkChanges, vars, device
<1> QED BY <1>1, <1>2

LEMMA UnreadKeeps == ASSUME IInv, UnreadInv, [Next]_vars PROVE UnreadInv'
<1>1. CASE TruncateStep
  <2>1. handling' = handling /\ mainPc = "payload"
    BY <1>1 DEF TruncateStep
  <2>2. /\ unread \in Seq(STRING) /\ unread' \in Seq(STRING)
        /\ handling \in Messages /\ handling.payload \in Seq(STRING)
    BY <1>1, <2>1, NextKeeps, SizeAssumption DEF UnreadInv, IInv, TypeOK
  <2>3. Len(unread) \in Nat /\ Len(unread') \in Nat /\ Len(handling.payload) \in Nat
        /\ BufferCells \in Nat
    BY <2>2, SizeAssumption
  <2> QED BY <1>1, <2>1, <2>2, <2>3, TruncateShortens DEF UnreadInv
<1>2. CASE ReadRest \/ ReadFails
  BY <1>2 DEF ReadRest, ReadFails, UnreadInv
<1>3. CASE ~GetPayload
  <2>1. CASE mainPc = "input" /\ mainPc' = "payload" /\ handling' \in Messages
             /\ unread' = handling'.payload
    <3>1. Len(handling'.payload) \in Nat
      BY <2>1, SizeAssumption
    <3> QED BY <2>1, <3>1 DEF UnreadInv
  <2> QED BY <1>3, <2>1, OthersKeepMessage DEF UnreadInv
<1> QED BY <1>1, <1>2, <1>3 DEF GetPayload

THEOREM UnreadCorrect == Spec => []UnreadInv
<1>1. Init => UnreadInv BY DEF Init, UnreadInv
<1>2. IInv /\ UnreadInv /\ [Next]_vars => UnreadInv' BY UnreadKeeps
<1> QED BY <1>1, <1>2, Inductive, PTL DEF Spec

\* No message of the broker is longer than twice the buffer.
ShortPayloads == \A m \in Messages : Len(m.payload) <= 2 * BufferCells

\* No read overruns the payload buffer while the messages are at most twice as
\* long as it: the loop of get_received_payload is sound up to there.
THEOREM ReadsFit == ShortPayloads /\ Spec => []ReadsFitBuffer
<1> SUFFICES ASSUME ShortPayloads PROVE Spec => []ReadsFitBuffer
  OBVIOUS
<1>1. Init => ReadsFitBuffer
  BY DEF Init, ReadsFitBuffer
<1>2. IInv /\ UnreadInv /\ ReadsFitBuffer /\ [Next]_vars => ReadsFitBuffer'
  <2> SUFFICES ASSUME IInv, UnreadInv, ReadsFitBuffer, [Next]_vars PROVE ReadsFitBuffer'
    OBVIOUS
  <2>1. CASE TruncateStep
    <3>1. mainPc = "payload" /\ Len(unread) <= Len(handling.payload)
          /\ Len(handling.payload) <= 2 * BufferCells
      BY <2>1 DEF TruncateStep, UnreadInv, ShortPayloads
    <3>2. Len(unread) \in Nat /\ Len(handling.payload) \in Nat /\ BufferCells \in Nat
      BY <3>1, SizeAssumption DEF IInv, TypeOK, UnreadInv
    <3>3. PICK n \in 1..(Len(unread) - BufferCells) :
            mainPc' = IF n > BufferCells THEN "overrun" ELSE "payload"
      BY <2>1 DEF TruncateStep
    <3>4. n <= BufferCells
      BY <3>1, <3>2, <3>3
    <3> QED BY <3>2, <3>3, <3>4 DEF ReadsFitBuffer
  <2>2. CASE ReadRest \/ ReadFails
    BY <2>2 DEF ReadRest, ReadFails, ReadsFitBuffer
  <2>3. CASE ~GetPayload
    BY <2>3, OthersKeepMessage DEF ReadsFitBuffer
  <2> QED BY <2>1, <2>2, <2>3 DEF GetPayload
<1> QED BY <1>1, <1>2, Inductive, UnreadCorrect, PTL DEF Spec

-----------------------------------------------------------------------------
(* The LED *)

\* The text of a message is over before the command is: the cells behind it
\* in the buffer would complete it.
EndsInside(payload, command) ==
    /\ Len(payload) < Len(command)
    /\ \A i \in DOMAIN payload : payload[i] = command[i]

\* The broker delivers no message that ends inside a command, the empty one
\* among them.  More text behind a command, and foreign texts, are allowed.
WholeCommands == \A m \in Messages : \A c \in {LedOn, LedOff} : ~EndsInside(m.payload, c)

Shown == IF lastCommand = LedOn THEN "on" ELSE "off"

\* A message that was read without an error, and asks for a command.
CommandRead ==
    /\ mainPc \in {"ack", "act"} /\ payloadErr = "ok"
    /\ CommandIn(handling.payload) # NoCommand

\* While a command is handled, the buffer holds it; else the LED is as the last
\* one wants it, and the buffer holds none that was read without an error.
LedInv ==
    IF CommandRead
    THEN lastCommand = CommandIn(handling.payload) /\ BufferHolds(lastCommand)
    ELSE /\ led = Shown
         /\ mainPc \in {"ack", "act"} /\ payloadErr = "ok" =>
              ~BufferHolds(LedOn) /\ ~BufferHolds(LedOff)

\* The two commands fit in the buffer and differ in their second cell.
LEMMA Commands ==
    /\ Len(LedOn) = 2 /\ DOMAIN LedOn = 1..2 /\ LedOn[1] = "LEDO" /\ LedOn[2] = "N"
    /\ Len(LedOff) = 2 /\ DOMAIN LedOff = 1..2 /\ LedOff[1] = "LEDO" /\ LedOff[2] = "FF"
    /\ LedOn # LedOff /\ NoCommand # LedOn /\ NoCommand # LedOff
<1>1. Len(NoCommand) = 0
  BY DEF NoCommand
<1>2. /\ Len(LedOn) = 2 /\ DOMAIN LedOn = 1..2 /\ LedOn[1] = "LEDO" /\ LedOn[2] = "N"
      /\ Len(LedOff) = 2 /\ DOMAIN LedOff = 1..2 /\ LedOff[1] = "LEDO" /\ LedOff[2] = "FF"
  BY DEF LedOn, LedOff
<1>3. LedOn # LedOff
  BY <1>2
<1> QED BY <1>1, <1>2, <1>3

LEMMA LedInit == ASSUME Init PROVE LedInv
BY Commands DEF Init, LedInv, CommandRead, Shown

\* A buffer that holds one command does not hold the other.
LEMMA OneCommand == ~(BufferHolds(LedOn) /\ BufferHolds(LedOff))
<1> SUFFICES ASSUME BufferHolds(LedOn), BufferHolds(LedOff) PROVE FALSE
  OBVIOUS
<1>1. payloadBuf[2] = "N" /\ payloadBuf[2] = "FF"
  BY Commands DEF BufferHolds
<1> QED BY <1>1

\* A payload that fits is read whole, to the start of the buffer, which holds
\* then the command the payload begins with, and no command if it begins with
\* none.
LEMMA ReadWhole ==
    ASSUME IInv, WholeCommands, UnreadInv, ReadRest, payloadErr' = "ok"
    PROVE  LET command == CommandIn(handling.payload)
           IN  IF command # NoCommand
               THEN lastCommand' = command /\ BufferHolds(lastCommand)'
               ELSE lastCommand' = lastCommand /\ ~BufferHolds(LedOn)' /\ ~BufferHolds(LedOff)'
<1> DEFINE p == handling.payload
           c == CommandIn(p)
           Holds(command) == \A i \in DOMAIN command : payloadBuf'[i] = command[i]
<1>1. handling \in Messages /\ p \in Seq(STRING) /\ Len(p) \in Nat /\ DOMAIN p = 1..Len(p)
  BY SizeAssumption DEF ReadRest, UnreadInv
<1>2. BufferCells \in Nat /\ BufferCells >= 2
  BY SizeAssumption
<1>3. Len(p) <= BufferCells
  BY <1>1, <1>2 DEF ReadRest
<1>4. unread = p /\ payloadBuf' = Overlay(payloadBuf, p)
      /\ lastCommand' = IF c = NoCommand THEN lastCommand ELSE c
  BY <1>3 DEF ReadRest, UnreadInv
<1>5. \A i \in 1..Len(p) : payloadBuf'[i] = p[i]
  BY <1>1, <1>2, <1>3, <1>4 DEF Overlay
<1>6. ASSUME NEW command \in {LedOn, LedOff} PROVE Holds(command) <=> Begins(p, command)
  <2>1. Len(command) = 2 /\ DOMAIN command = 1..2
    BY Commands
  <2>2. CASE Len(p) >= 2
    BY <1>1, <1>5, <2>1, <2>2 DEF Begins
  <2>3. CASE Len(p) < 2
    <3>1. PICK i \in DOMAIN p : p[i] # command[i]
      BY <1>1, <2>1, <2>3 DEF WholeCommands, EndsInside
    <3>2. i \in DOMAIN command /\ payloadBuf'[i] # command[i]
      BY <1>1, <1>5, <2>1, <2>3, <3>1
    <3> QED BY <1>1, <2>1, <2>3, <3>2 DEF Begins
  <2> QED BY <1>1, <2>2, <2>3
<1>7. c = IF Begins(p, LedOn) THEN LedOn ELSE IF Begins(p, LedOff) THEN LedOff ELSE NoCommand
  BY <1>1, <1>2, <1>3 DEF CommandIn
<1>8. CASE c # NoCommand
  <2>1. c \in {LedOn, LedOff} /\ Begins(p, c)
    BY <1>7, <1>8
  <2>2. Holds(c) /\ lastCommand' = c
    BY <1>4, <1>6, <1>8, <2>1
  <2>3. BufferHolds(lastCommand)'
    <3> HIDE DEF c
    <3> QED BY <2>2 DEF BufferHolds
  <2> QED BY <1>8, <2>2, <2>3
<1>9. CASE c = NoCommand
  <2>1. ~Begins(p, LedOn) /\ ~Begins(p, LedOff)
    BY <1>7, <1>9, Commands
  <2>2. ~Holds(LedOn) /\ ~Holds(LedOff)
    BY <1>6, <2>1
  <2> QED BY <1>4, <1>9, <2>2 DEF BufferHolds
<1> QED BY <1>8, <1>9

\* Reading, acknowledging and obeying a message.
LEMMA MessageKeepsLed ==
    ASSUME IInv, WholeCommands, UnreadInv, LedInv, GetPayload \/ Ack \/ Act
    PROVE  LedInv'
<1>1. CASE TruncateStep
  <2>1. mainPc = "payload" /\ mainPc' \in {"payload", "overrun"}
        /\ led' = led /\ lastCommand' = lastCommand
    BY <1>1 DEF TruncateStep
  <2> QED BY <2>1 DEF LedInv, CommandRead, Shown
<1>2. CASE ReadRest
  <2>1. /\ mainPc = "payload" /\ mainPc' = "ack" /\ led' = led /\ handling' = handling
        /\ led = Shown
    BY <1>2 DEF ReadRest, LedInv, CommandRead
  <2>2. CASE payloadErr' = "ok"
    <3>1. CASE CommandIn(handling.payload) # NoCommand
      <4>1. lastCommand' = CommandIn(handling.payload) /\ BufferHolds(lastCommand)'
        BY <1>2, <2>2, <3>1, ReadWhole
      <4>2. CommandRead' /\ CommandIn(handling.payload)' = CommandIn(handling.payload)
        BY <2>1, <2>2, <3>1 DEF CommandRead
      <4> QED BY <4>1, <4>2 DEF LedInv
    <3>2. CASE CommandIn(handling.payload) = NoCommand
      <4>1. lastCommand' = lastCommand /\ ~BufferHolds(LedOn)' /\ ~BufferHolds(LedOff)'
        BY <1>2, <2>2, <3>2, ReadWhole
      <4>2. ~CommandRead'
        BY <2>1, <3>2 DEF CommandRead
      <4> QED BY <2>1, <4>1, <4>2 DEF LedInv, Shown
    <3> QED BY <3>1, <3>2
  <2>3. CASE payloadErr' # "ok"
    <3>1. CommandIn(handling.payload) = NoCommand
      BY <1>2, <2>3 DEF ReadRest, CommandIn
    <3>2. lastCommand' = lastCommand
      BY <1>2, <3>1 DEF ReadRest
    <3> QED BY <2>1, <2>3, <3>2 DEF LedInv, CommandRead, Shown
  <2> QED BY <2>2, <2>3
<1>3. CASE ReadFails
  <2>1. mainPc = "payload" /\ payloadErr' = "EIO" /\ led' = led /\ lastCommand' = lastCommand
    BY <1>3 DEF ReadFails
  <2> QED BY <2>1 DEF LedInv, CommandRead, Shown
<1>4. CASE Ack
  <2>1. mainPc = "ack" /\ mainPc' = "act"
        /\ UNCHANGED <<payloadBuf, payloadErr, led, lastCommand, handling>>
    BY <1>4 DEF Ack, device
  <2> QED BY <2>1 DEF LedInv, CommandRead, Shown, BufferHolds
<1>5. CASE Act
  <2> USE <1>5
  <2>1. mainPc = "act" /\ mainPc' = "poll" /\ lastCommand' = lastCommand
    BY DEF Act
  <2>2. led' = Shown
    <3>1. CASE CommandRead
      <4>1. lastCommand \in {LedOn, LedOff} /\ BufferHolds(lastCommand)
        BY <3>1 DEF LedInv, CommandRead, CommandIn
      <4>2. led' = IF BufferHolds(LedOn) THEN "on" ELSE IF BufferHolds(LedOff) THEN "off" ELSE led
        BY <3>1 DEF Act, CommandRead
      <4> QED BY <4>1, <4>2, OneCommand, Commands DEF Shown
    <3>2. CASE ~CommandRead
      BY <2>1, <3>2 DEF LedInv, Act
    <3> QED BY <3>1, <3>2
  <2> QED BY <2>1, <2>2 DEF LedInv, CommandRead, Shown
<1> QED BY <1>1, <1>2, <1>3, <1>4, <1>5 DEF GetPayload

\* Every other step leaves the buffer, the LED and the last command alone, and
\* begins or ends no message after it was read.
LEMMA OthersKeepLed ==
    ASSUME IInv, LedInv, [Next]_vars, ~GetPayload, ~Ack, ~Act
    PROVE  LedInv'
<1>1. UNCHANGED <<payloadBuf, payloadErr, led, lastCommand>>
  BY DEF Next, Setup, Loop, Handler, ModemConfigure, ClientInit, Connect, FdsInit, Poll,
     Disconnect, InputFails, InputOther, Connack, ConnackRefused, Publish, PressButton,
     BrokerSends, ConnectionBreaks, NetworkChanges, vars, device
<1>2. \/ UNCHANGED <<mainPc, handling>>
      \/ mainPc \notin {"ack", "act"} /\ mainPc' \notin {"ack", "act"}
  BY DEF Next, Setup, Loop, Handler, ModemConfigure, ClientInit, Connect, FdsInit, Poll,
     Disconnect, InputFails, InputOther, Connack, ConnackRefused, Publish, PressButton,
     BrokerSends, ConnectionBreaks, NetworkChanges, vars, device
<1> QED BY <1>1, <1>2 DEF LedInv, CommandRead, Shown, BufferHolds

\* If no message ends inside a command, the LED shows the last command that
\* get_received_payload read, with whatever text behind it, whatever foreign
\* texts and payloads longer than the buffer come between, wherever the
\* connection breaks while one is read.
THEOREM LedFollowsCommands == WholeCommands /\ Spec => []LedShowsLastCommand
<1> SUFFICES ASSUME WholeCommands PROVE Spec => []LedShowsLastCommand
  OBVIOUS
<1>1. Init => LedInv
  BY LedInit
<1>2. IInv /\ UnreadInv /\ LedInv /\ [Next]_vars => LedInv'
  BY MessageKeepsLed, OthersKeepLed
<1>3. LedInv => LedShowsLastCommand
  BY DEF LedInv, CommandRead, LedShowsLastCommand, Shown
<1> QED BY <1>1, <1>2, <1>3, Inductive, UnreadCorrect, PTL DEF Spec

=============================================================================
