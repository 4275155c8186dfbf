----------------------------- MODULE MqttCodec ------------------------------
(***************************************************************************)
(* MQTT 3.1.1 on the wire (src/codec/mqtt.c): the fixed header with its    *)
(* length of one to four bytes, the bodies a broker sends and the packets  *)
(* this client sends.  A packet is a sequence of bytes, 0 .. 255, and a    *)
(* string the sequence of its bytes.                                       *)
(*                                                                         *)
(* A length byte carries one digit and, in its top bit, whether another    *)
(* follows.  The code counts in digits of 128; Radix scales that down, so  *)
(* that a length of two bytes does not need a packet of 128.               *)
(***************************************************************************)
EXTENDS Integers, Sequences, FiniteSetsExt

CONSTANTS
    Radix,          \* the digits of a length, 128 in the code
    LengthMax       \* INKWELL_MQTT_REMAINING_BYTES_MAX, 4 in the code

ASSUME RadixAssumption == Radix \in 4 .. 128
ASSUME LengthMaxAssumption == LengthMax \in Nat \ {0, 1}

Continued == 128
StringMax == 65535

\* enum inkwell_mqtt_packet_type.
CONNECT == 1
CONNACK == 2
PUBLISH == 3
PUBREL == 6
SUBSCRIBE == 8
SUBACK == 9
UNSUBSCRIBE == 10
PINGREQ == 12
PINGRESP == 13
DISCONNECT == 14

\* What a decoder answers when the bytes are not all there, and when they never
\* can be.
NotYet == [ok |-> FALSE, bad |-> FALSE]
Bad == [ok |-> FALSE, bad |-> TRUE]

-----------------------------------------------------------------------------
(* Primitives. *)

\* The multiplier of the digit behind i others; weight[LengthMax] is one more than
\* INKWELL_MQTT_REMAINING_MAX.
weight[i \in 0 .. LengthMax] == IF i = 0 THEN 1 ELSE Radix * weight[i - 1]

\* What the first so many bytes of data come to, least significant digit first.
Values(data) ==
    LET value[i \in 0 .. Min({LengthMax, Len(data)})] ==
            IF i = 0 THEN 0
            ELSE value[i - 1] + (data[i] % Continued) * weight[i - 1]
    IN  value

\* mqtt_read_varint(): up to the byte without the top bit.
mqtt_read_varint(data) ==
    LET ends == {i \in 1 .. Min({LengthMax, Len(data)}) : data[i] < Continued}
    IN  IF ends # {} THEN [ok |-> TRUE, bad |-> FALSE,
                           value |-> Values(data)[Min(ends)], used |-> Min(ends)]
        ELSE IF Len(data) < LengthMax THEN NotYet ELSE Bad

\* mqtt_varint_width().
mqtt_varint_width(value) ==
    Min({w \in 1 .. LengthMax : value < weight[w]})

\* mqtt_write_varint().
mqtt_write_varint(value) ==
    LET width == mqtt_varint_width(value)
    IN  [i \in 1 .. width |->
            ((value \div weight[i - 1]) % Radix) + (IF i < width THEN Continued ELSE 0)]

\* mqtt_read_u16() and mqtt_write_u16(), most significant byte first.
mqtt_read_u16(data) == 256 * data[1] + data[2]
mqtt_write_u16(value) == <<value \div 256, value % 256>>

\* mqtt_write_string().
mqtt_write_string(text) == mqtt_write_u16(Len(text)) \o text

-----------------------------------------------------------------------------
(* What comes in. *)

\* mqtt_flags_are_legal().
mqtt_flags_are_legal(type, flags) ==
    CASE type = PUBLISH -> TRUE
      [] type \in {PUBREL, SUBSCRIBE, UNSUBSCRIBE} -> flags = 2
      [] OTHER -> flags = 0

\* inkwell_mqtt_decode_header().
decode_header(data) ==
    IF data = <<>> THEN NotYet
    ELSE LET type == data[1] \div 16
             flags == data[1] % 16
             length == mqtt_read_varint(Tail(data))
         IN  IF type \in {0, 15} \/ ~mqtt_flags_are_legal(type, flags) THEN Bad
             ELSE IF ~length.ok THEN length
             ELSE [ok |-> TRUE, bad |-> FALSE, type |-> type, flags |-> flags,
                   remaining |-> length.value, header_len |-> 1 + length.used]

\* inkwell_mqtt_decode_publish(): a packet id stands between the topic and the
\* payload of anything but QoS 0.
decode_publish(flags, body) ==
    LET qos == (flags % 8) \div 2
        topic_len == mqtt_read_u16(body)
        offset == 2 + topic_len + (IF qos > 0 THEN 2 ELSE 0)
    IN  IF qos > 2 \/ Len(body) < 2 THEN Bad
        ELSE IF topic_len = 0 \/ offset > Len(body) THEN Bad
        ELSE [ok |-> TRUE, bad |-> FALSE, topic |-> SubSeq(body, 3, 2 + topic_len),
              payload |-> SubSeq(body, offset + 1, Len(body))]

\* inkwell_mqtt_decode_connack().
decode_connack(body) ==
    IF Len(body) # 2 \/ body[1] > 1 THEN Bad
    ELSE [ok |-> TRUE, bad |-> FALSE, code |-> body[2]]

\* inkwell_mqtt_decode_suback().
decode_suback(body) ==
    IF Len(body) < 3 THEN Bad
    ELSE [ok |-> TRUE, bad |-> FALSE, id |-> mqtt_read_u16(body), code |-> body[3]]

-----------------------------------------------------------------------------
(* What goes out: the packet, or <<>> where the code answers with an error. *)

\* mqtt_begin_packet() and the body behind it, in a buffer of cap bytes.
mqtt_begin_packet(cap, type, flags, body) ==
    IF \/ Len(body) >= weight[LengthMax]
       \/ cap < 1 + mqtt_varint_width(Len(body)) + Len(body)
    THEN <<>>
    ELSE <<16 * type + flags>> \o mqtt_write_varint(Len(body)) \o body

\* inkwell_mqtt_encode_connect(), of a client id, a user name and a password, the
\* last two <<>> for none.
encode_connect(cap, id, username, password, clean, keepalive) ==
    LET flags == (IF clean THEN 2 ELSE 0) + (IF password # <<>> THEN 64 ELSE 0)
                   + (IF username # <<>> THEN 128 ELSE 0)
        optional(text) == IF text = <<>> THEN <<>> ELSE mqtt_write_string(text)
        name == <<0, 4, 77, 81, 84, 84, 4>>
    IN  IF \/ \E text \in {id, username, password} : Len(text) > StringMax
           \/ id = <<>> /\ ~clean
           \/ password # <<>> /\ username = <<>>
        THEN <<>>
        ELSE mqtt_begin_packet(cap, CONNECT, 0,
                 name \o <<flags>> \o mqtt_write_u16(keepalive) \o mqtt_write_string(id)
                   \o optional(username) \o optional(password))

\* inkwell_mqtt_encode_publish(), at QoS 0.
encode_publish(cap, topic, payload, retained) ==
    IF topic = <<>> \/ Len(topic) > StringMax THEN <<>>
    ELSE mqtt_begin_packet(cap, PUBLISH, IF retained THEN 1 ELSE 0,
                           mqtt_write_string(topic) \o payload)

\* inkwell_mqtt_encode_subscribe().
encode_subscribe(cap, id, filter) ==
    IF id = 0 \/ filter = <<>> \/ Len(filter) > StringMax THEN <<>>
    ELSE mqtt_begin_packet(cap, SUBSCRIBE, 2,
                           mqtt_write_u16(id) \o mqtt_write_string(filter) \o <<0>>)

\* inkwell_mqtt_encode_empty().
encode_empty(cap, type) ==
    IF type \notin {PINGREQ, DISCONNECT} THEN <<>>
    ELSE mqtt_begin_packet(cap, type, 0, <<>>)

\* inkwell_mqtt_topic_is_publishable(): no wildcard, '#' or '+', in it.
topic_is_publishable(topic) ==
    /\ Len(topic) \in 1 .. StringMax
    /\ \A i \in DOMAIN topic : topic[i] \notin {35, 43}

=============================================================================
