---------------------------- MODULE MCMqttCodec ----------------------------
(* Packs on both sides of every boundary of the encoding.                  *)
EXTENDS MqttCodec

Pk(own, type, qos, flags, strs, msg) ==
    [own |-> own, type |-> type, qos |-> qos, flags |-> flags,
     strs |-> strs, msg |-> msg]

(* One and two digits, two and three, the limit, three and four.           *)
Lengths == {0, 127, 128, 16383, 16384, MaxPackLength, MaxPackLength + 1,
            128 ^ 3 - 1, 128 ^ 3, 128 ^ 3 + MaxPackLength}
(* A client lays a PUBLISH out as DelayWritePack does, so both are one.    *)
Publishes ==
    {Pk(TRUE, PUBLISH, 0, 0, <<1>>, IF l > 3 THEN l - 3 ELSE 0) : l \in Lengths}
      \cup {Pk(TRUE, PUBLISH, 1, 0, <<1>>, m) : m \in {0, 1, 122, 123}}
      \cup {Pk(TRUE, PUBLISH, 0, 0, <<t>>, 1) : t \in {0, 65535, 65536, 65537}}

(* Flags: none, user, user and password, will, all of them.                *)
Connects ==
    {Pk(FALSE, CONNECT, 0, 0, <<4, i>>, 0) : i \in {0, 1, 64, 65}}
      \cup {Pk(FALSE, CONNECT, 0, 128, <<6, 1, u>>, 0) : u \in {0, 2}}
      \cup {Pk(FALSE, CONNECT, 0, 192, <<6, 1, 0, w>>, 0) : w \in {0, 2}}
      \cup {Pk(FALSE, CONNECT, 0, 4, <<4, 1, 1, 0>>, 0),
            Pk(FALSE, CONNECT, 0, 196, <<4, 64, 0, 0, 0, 0>>, 0)}

(* Own lists of topics: of 127 and 128 bytes, and with a short last topic. *)
TopicLists ==
    {Pk(FALSE, t, 1, 0, names, 0) : t \in Lists, names \in {<<1>>, <<0, 1>>, <<130>>}}
      \cup {Pk(TRUE, SUBSCRIBE, 1, 0, names, 0) : names \in {<<1>>, <<124>>, <<125>>, <<2, 0>>}}
      \cup {Pk(TRUE, UNSUBSCRIBE, 1, 0, names, 0) : names \in {<<2>>, <<125>>, <<126>>, <<2, 1>>}}

Others ==
    {Pk(o, t, 0, 0, <<>>, 0) : o \in BOOLEAN, t \in {4, 6}}
      \cup {Pk(FALSE, t, 0, 0, <<>>, 0) : t \in {PINGREQ, DISCONNECT}}
      \cup {Pk(TRUE, t, 0, 0, <<>>, 0) : t \in {CONNACK, SUBACK, 11, 13}}

MCPacks == Publishes \cup Connects \cup TopicLists \cup Others
=============================================================================
