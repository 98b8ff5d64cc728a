----------------------------- MODULE MqttCodec -----------------------------
(***************************************************************************)
(* The MQTT codec of the gate (gate/base/mqtt/mqtt.go): DelayWritePack     *)
(* lays packs out on a stream, ReadPack takes them off it again.           *)
(*                                                                         *)
(* The stream is bytes, but the codec decides on few of them: the fixed    *)
(* header, the digits of the remaining length, the lengths of strings and  *)
(* the flags of CONNECT.  wire holds exactly these, by their offset, with  *)
(* their width and value; every other byte is content.  So packs can have  *)
(* their real sizes, on both sides of every boundary of the encoding.      *)
(* Content is told apart by its length only.                               *)
(*                                                                         *)
(* A reader that takes content, or part of a number, for a number goes on  *)
(* with whatever value it finds there: it is "lost", and not followed any  *)
(* further.                                                                *)
(***************************************************************************)
EXTENDS Integers, Sequences, SequencesExt

CONSTANTS Packs,          \* the packs that may be sent
          MaxSent,        \* bound: packs on one stream
          MaxPackLength   \* max_pack_length, MaxPackSize of the options

VARIABLES
    wire,     \* offset -> [w, v]: the numbers on the stream
    end,      \* bytes on the stream
    cut,      \* the stream ended, in the middle of the last pack
    sent,     \* the packs written
    ends,     \* where they end
    pos,      \* bytes read
    pc,       \* what ReadPack reads next
    pack,     \* what it has of the pack so far
    got       \* the packs it has returned

sendVars == <<wire, end, cut, sent, ends>>
readVars == <<pos, pc, pack, got>>
vars == <<wire, end, cut, sent, ends, pos, pc, pack, got>>

CONNECT == 1
CONNACK == 2
PUBLISH == 3
SUBSCRIBE == 8
SUBACK == 9
UNSUBSCRIBE == 10
PINGREQ == 12
PINGRESP == 13
DISCONNECT == 14
Acks == {4, 5, 6, 7, 11}     \* PUBACK .. PUBCOMP and UNSUBACK
Lists == {SUBSCRIBE, UNSUBSCRIBE}

(* Whether a bit is set in the flags of CONNECT.                           *)
Flag(flags, bit) == (flags \div bit) % 2 # 0

(* What a pack says: its strings and its message by their lengths, the     *)
(* flags of CONNECT as their byte.                                         *)
Says(type, qos, flags, strs, msg) ==
    [type |-> type, qos |-> qos, flags |-> flags, strs |-> strs, msg |-> msg]

-----------------------------------------------------------------------------
(* Writing                                                                 *)

Number(w, v) == <<[w |-> w, v |-> v]>>
Content(n) == IF n = 0 THEN <<>> ELSE <<[w |-> n, v |-> -1]>>
Bytes(items) == FoldLeft(LAMBDA n, it : n + it.w, 0, items)

(* The 16 bits before a string wrap around.                                *)
MaxString == 65535
Wrap(n) == n % (MaxString + 1)
WriteString(n) == Number(2, Wrap(n)) \o Content(n)

Mid == Content(2)

(* The variable header and the payload.                                    *)
Body(p) ==
    CASE p.type = CONNECT ->
           WriteString(Head(p.strs)) \o Content(1) \o Number(1, p.flags)
             \o Content(2) \o FlattenSeq([i \in 1..(Len(p.strs) - 1) |->
                                             WriteString(p.strs[i + 1])])
      [] p.type = CONNACK -> Content(2)
      [] p.type = PUBLISH ->
           WriteString(p.strs[1]) \o (IF p.qos > 0 THEN Mid ELSE <<>>)
             \o Content(p.msg)
      [] p.type \in Acks -> Mid
      [] p.type = SUBSCRIBE ->
           Mid \o FlattenSeq([i \in DOMAIN p.strs |->
                                 WriteString(p.strs[i]) \o Content(1)])
      [] p.type = SUBACK -> Mid \o Content(1)
      [] p.type = UNSUBSCRIBE ->
           Mid \o FlattenSeq([i \in DOMAIN p.strs |-> WriteString(p.strs[i])])
      [] OTHER -> <<>>

(* Digits to the base 128, the lowest first; all but the last are marked.  *)
GetRemainingLength(n) ==
    LET count == CHOOSE k \in 1..4 : /\ n < 128 ^ k
                                     /\ k > 1 => n >= 128 ^ (k - 1)
    IN  [i \in 1..count |->
            ((n \div 128 ^ (i - 1)) % 128) + (IF i < count THEN 128 ELSE 0)]

(* The length a pack declares, and how.  For lists of topics               *)
(* DelayWritePack leaves out the identifier, and of all types but PUBLISH  *)
(* it writes the first digit only.                                         *)
Declared(p) ==
    Bytes(Body(p)) - (IF p.own /\ p.type \in Lists THEN 2 ELSE 0)
LengthDigits(p) ==
    LET digits == GetRemainingLength(Declared(p))
    IN  IF p.own /\ p.type # PUBLISH THEN SubSeq(digits, 1, 1) ELSE digits

Layout(p) ==
    LET digits == LengthDigits(p)
    IN  Number(1, 16 * p.type + 2 * p.qos)
          \o FlattenSeq([i \in DOMAIN digits |-> Number(1, digits[i])])
          \o Body(p)

(* The packs there are.  The gate lays out the types DelayWritePack knows, *)
(* a list with a topic at least.  The strings of a peer's pack fit their   *)
(* 16 bits, and CONNECT has those its flags announce.  A pack of 2^28      *)
(* bytes overruns the four digits of getRemainingLength, a panic that is   *)
(* not modelled.                                                           *)
OwnTypes == {CONNACK, PUBLISH, SUBACK, PINGRESP} \cup Acks \cup Lists
Announced(flags) ==
    2 + (IF Flag(flags, 4) THEN 2 ELSE 0) + (IF Flag(flags, 128) THEN 1 ELSE 0)
      + (IF Flag(flags, 64) THEN 1 ELSE 0)
WellFormed(p) ==
    /\ IF p.own THEN p.type \in OwnTypes
       ELSE \A i \in DOMAIN p.strs : p.strs[i] <= MaxString
    /\ p.type = CONNECT => Len(p.strs) = Announced(p.flags)
    /\ p.type = PUBLISH => Len(p.strs) = 1
    /\ p.type \in Lists /\ p.own => Len(p.strs) > 0
    /\ p.type \notin {CONNECT, PUBLISH} \cup Lists => p.strs = <<>>
    /\ p.type # CONNECT => p.flags = 0
    /\ p.type # PUBLISH => p.msg = 0
    /\ Declared(p) < 128 ^ 4

ASSUME PacksAssumption ==
    /\ Packs \subseteq [own : BOOLEAN, type : 0..15, qos : 0..3, flags : 0..255,
                        strs : Seq(Nat), msg : Nat]
    /\ \A p \in Packs : WellFormed(p)
    /\ MaxSent \in Nat /\ MaxPackLength \in Nat

(* Where the items of a layout begin, from offset o on.                    *)
Offset(items, i) == Bytes(SubSeq(items, 1, i - 1))
Placed(items, o) ==
    LET at == [i \in DOMAIN items |-> o + Offset(items, i)]
        numbers == {i \in DOMAIN items : items[i].v >= 0}
    IN  [x \in {at[i] : i \in numbers} |->
            items[CHOOSE i \in numbers : at[i] = x]]

(* The numbers on the wire, with those of a layout behind them.            *)
WireWith(items) ==
    LET new == Placed(items, end)
    IN  [x \in DOMAIN wire \cup DOMAIN new |->
            IF x \in DOMAIN wire THEN wire[x] ELSE new[x]]

Write(p) ==
    /\ ~cut /\ Len(sent) < MaxSent /\ pc \notin {"err", "lost"}
    /\ LET items == Layout(p) IN
         /\ wire' = WireWith(items)
         /\ end' = end + Bytes(items)
    /\ sent' = Append(sent, p)
    /\ ends' = Append(ends, end')
    /\ UNCHANGED <<cut, readVars>>

(* The connection breaks while a pack is under way: before one of its      *)
(* items, or after the first byte of one.                                  *)
WriteCut(p) ==
    /\ ~cut /\ Len(sent) < MaxSent /\ pc \notin {"err", "lost"}
    /\ LET items == Layout(p) IN
         \E i \in DOMAIN items, more \in 0..1 :
            /\ more < items[i].w
            /\ end' = end + Offset(items, i) + more
            /\ wire' = WireWith(items)
    /\ cut' = TRUE
    /\ sent' = Append(sent, p)
    /\ ends' = Append(ends, end')
    /\ UNCHANGED readVars

-----------------------------------------------------------------------------
(* Reading                                                                 *)

Strings == {"protocol", "id", "will_topic", "will_msg", "uname", "upassword",
            "topic", "name"}

(* The number the next read depends on: its offset and width.              *)
NextNumber ==
    CASE pc \in {"fixed", "length"} -> {<<pos, 1>>}
      [] pc \in Strings -> {<<pos, 2>>}
      [] pc = "flags" -> {<<pos + 1, 1>>}
      [] OTHER -> {}
IsNumber(o, w) == o \in DOMAIN wire /\ wire[o].w = w
Value(o) == wire[o].v

(* Bytes of the payload a PUBLISH still holds after the topic: the mid,    *)
(* when there is one, and the message.                                     *)
MidBytes == IF pack.qos > 0 THEN 2 ELSE 0

(* The bytes the next read takes, and whether they are there.              *)
Needed ==
    CASE pc \in {"fixed", "length"} -> 1
      [] pc \in Strings -> IF IsNumber(pos, 2) /\ pos + 2 <= end
                           THEN 2 + Value(pos) + (IF pack.type = SUBSCRIBE THEN 1 ELSE 0)
                           ELSE 2
      [] pc = "flags" -> 4
      [] pc = "mid" -> 2
      [] pc = "msg" -> IF pack.rest > MidBytes THEN pack.rest ELSE MidBytes
      [] pc = "ack" -> pack.length
      [] pc = "skip" -> pack.length
      [] OTHER -> 0
Arrived == pos + Needed <= end

(* Mutant: a read waits for a byte more than it takes.                     *)
ReadyLate ==
    pos + Needed + 1 <= end /\ \A n \in NextNumber : IsNumber(n[1], n[2])

(* A read returns once all of its bytes are there, and they are a number   *)
(* where it takes them for one.                                            *)
Ready == Arrived /\ \A n \in NextNumber : IsNumber(n[1], n[2])

NoPack == [type |-> 0, qos |-> 0, flags |-> 0, strs |-> <<>>, msg |-> 0,
           length |-> 0, count_len |-> 1, rest |-> 0]

Fail == pc' = "err" /\ UNCHANGED <<pos, pack, got>>
Return(p, n) ==
    /\ got' = Append(got, Says(p.type, p.qos, p.flags, p.strs, p.msg))
    /\ pos' = pos + n
    /\ pc' = "fixed" /\ pack' = NoPack
Continue(p, n, next) ==
    pack' = p /\ pos' = pos + n /\ pc' = next /\ UNCHANGED got

ReadFixed ==
    /\ pc = "fixed" /\ Ready
    /\ LET b == Value(pos) IN
         Continue([NoPack EXCEPT !.type = b \div 16, !.qos = (b % 8) \div 2],
                  1, "length")
    /\ UNCHANGED sendVars

(* What is read first of a pack, by its type.                              *)
Start(type) ==
    CASE type = CONNECT -> "protocol"
      [] type = PUBLISH -> "topic"
      [] type \in Acks \cup {SUBACK} -> "ack"
      [] type \in Lists -> "mid"
      [] type \in {PINGREQ, DISCONNECT} -> "nothing"
      [] OTHER -> "skip"

(* Mutant: the compare stops one digit earlier.                            *)
MoreDigitsTwo(b, count_len) == b >= 128 /\ count_len < 3

(* count_len starts at 1 and counts the byte at hand before it is compared *)
(* with 4: a fourth digit is never read.                                   *)
MoreDigits(b, count_len) == b >= 128 /\ count_len < 4

ReadLength ==
    /\ pc = "length" /\ Ready
    /\ LET b == Value(pos)
           count == pack.count_len + 1
           p == [pack EXCEPT !.count_len = count,
                     !.length = @ + (b % 128) * 128 ^ (count - 2)]
       IN  IF MoreDigits(b, count) THEN Continue(p, 1, "length")
           ELSE IF p.length > MaxPackLength THEN Fail
           ELSE Continue(p, 1, Start(pack.type))
    /\ UNCHANGED sendVars

-----------------------------------------------------------------------------
(* CONNECT.  rest is playload_len: it leaves the two bytes before each     *)
(* string uncounted, so it is only an upper bound of what is left.         *)
HasUser == Flag(pack.flags, 128)
HasPassword == Flag(pack.flags, 64)
HasWill == Flag(pack.flags, 4)

ReadProtocol ==
    /\ pc = "protocol" /\ Ready
    /\ LET n == Value(pos) IN
         IF n > pack.length - 4 THEN Fail
         ELSE Continue([pack EXCEPT !.strs = <<n>>, !.rest = pack.length - 2 - n - 4],
                       2 + n, "flags")
    /\ UNCHANGED sendVars

ReadFlags ==
    /\ pc = "flags" /\ Ready
    /\ Continue([pack EXCEPT !.flags = Value(pos + 1)], 4, "id")
    /\ UNCHANGED sendVars

(* The string that comes after the one named, with rest bytes left.        *)
NextString(name, rest) ==
    IF name = "id" /\ HasWill THEN "will_topic"
    ELSE IF name = "will_topic" THEN "will_msg"
    ELSE IF name \in {"id", "will_msg"} /\ HasUser /\ rest > 0 THEN "uname"
    ELSE IF name # "upassword" /\ HasPassword /\ rest > 0 THEN "upassword"
    ELSE "none"

Refused(name, n, rest) ==
    IF name = "id" THEN n > 64 \/ n < 1 ELSE rest < 0 /\ name # "will_msg"

ReadConnectString ==
    /\ pc \in {"id", "will_topic", "will_msg", "uname", "upassword"} /\ Ready
    /\ LET n == Value(pos)
           rest == pack.rest - n
           next == NextString(pc, rest)
           p == [pack EXCEPT !.strs = Append(@, n), !.rest = rest]
       IN  IF Refused(pc, n, rest) THEN Fail
           ELSE IF next = "none" THEN Return(p, 2 + n)
           ELSE Continue(p, 2 + n, next)
    /\ UNCHANGED sendVars

-----------------------------------------------------------------------------
ReadTopic ==
    /\ pc = "topic" /\ Ready
    /\ LET n == Value(pos) IN
         IF n < 1 THEN Fail
         ELSE Continue([pack EXCEPT !.strs = <<n>>, !.rest = pack.length - n - 2],
                       2 + n, "msg")
    /\ UNCHANGED sendVars

ReadMessage ==
    /\ pc = "msg"
    /\ IF pack.qos > 0 /\ pack.rest < 2 THEN Fail
       ELSE /\ Ready
            /\ Return([pack EXCEPT !.msg = Needed - MidBytes], Needed)
    /\ UNCHANGED sendVars

AckLength == IF pack.type = SUBACK THEN 3 ELSE 2

ReadAck ==
    /\ pc = "ack"
    /\ IF pack.length # AckLength THEN Fail ELSE Ready /\ Return(pack, AckLength)
    /\ UNCHANGED sendVars

(* PINGREQ and DISCONNECT have no body; of an unknown type it is skipped.  *)
ReadNothing ==
    /\ pc = "nothing"
    /\ Return(pack, 0)
    /\ UNCHANGED sendVars

SkipUnknown ==
    /\ pc = "skip" /\ Ready
    /\ Return(pack, pack.length)
    /\ UNCHANGED sendVars

-----------------------------------------------------------------------------
(* SUBSCRIBE and UNSUBSCRIBE.  vlen starts as the whole length, the two    *)
(* bytes of the identifier included, and the loop ends when it is at       *)
(* most 3.                                                                 *)
ListBytes(length) == length
MoreTopics(vlen) == vlen > 3

ReadMid ==
    /\ pc = "mid" /\ Ready
    /\ LET vlen == ListBytes(pack.length)
           p == [pack EXCEPT !.rest = vlen]
       IN  IF MoreTopics(vlen) THEN Continue(p, 2, "name") ELSE Return(p, 2)
    /\ UNCHANGED sendVars

ReadName ==
    /\ pc = "name" /\ Ready
    /\ LET vlen == pack.rest - Needed
           p == [pack EXCEPT !.strs = Append(@, Value(pos)), !.rest = vlen]
       IN  IF MoreTopics(vlen) THEN Continue(p, Needed, "name") ELSE Return(p, Needed)
    /\ UNCHANGED sendVars

(* In the loop over the topics err is a variable of the loop: a stream     *)
(* that ends there is a pack with fewer topics, or, in UNSUBSCRIBE, with   *)
(* the one that was cut.                                                   *)
NameCut ==
    /\ pc = "name" /\ cut /\ ~Arrived
    /\ \A n \in NextNumber : n[1] + n[2] > end \/ IsNumber(n[1], n[2])
    /\ Return([pack EXCEPT !.strs = IF pack.type = UNSUBSCRIBE /\ pos + 2 <= end
                                    THEN Append(@, Value(pos)) ELSE @],
              end - pos)
    /\ UNCHANGED sendVars

(* Everywhere else the error of the read ends ReadPack.                    *)
ReadError ==
    /\ pc \notin {"err", "lost", "name"} /\ cut /\ ~Arrived
    /\ \A n \in NextNumber : n[1] + n[2] > end \/ IsNumber(n[1], n[2])
    /\ Fail
    /\ UNCHANGED sendVars

(* What is read as a number is none, or not all of one.                    *)
Lose ==
    /\ \E n \in NextNumber : n[1] + n[2] <= end /\ ~IsNumber(n[1], n[2])
    /\ pc' = "lost"
    /\ UNCHANGED <<pos, pack, got, sendVars>>

ReadPack ==
    \/ ReadFixed \/ ReadLength \/ ReadProtocol \/ ReadFlags \/ ReadConnectString
    \/ ReadTopic \/ ReadMessage \/ ReadAck \/ ReadNothing \/ SkipUnknown
    \/ ReadMid \/ ReadName \/ NameCut \/ ReadError \/ Lose

-----------------------------------------------------------------------------
Init ==
    /\ wire = <<>> /\ end = 0 /\ cut = FALSE
    /\ sent = <<>> /\ ends = <<>>
    /\ pos = 0 /\ pc = "fixed" /\ pack = NoPack /\ got = <<>>

Next == (\E p \in Packs : Write(p) \/ WriteCut(p)) \/ ReadPack

(* The goroutine that reads the connection goes on with what has arrived.  *)
Spec == Init /\ [][Next]_vars /\ WF_vars(ReadPack)

-----------------------------------------------------------------------------
(* A pack the reader can delimit.  The three digits it reads hold lengths  *)
(* below 2^21.  Of the packs DelayWritePack writes, a list of topics has   *)
(* to declare less than 128 bytes, and its last topic more than 3.         *)
LastTopic(p) == Last(p.strs) + (IF p.type = SUBSCRIBE THEN 3 ELSE 2)
Framed(p) ==
    /\ Declared(p) < 128 ^ 3
    /\ p.own /\ p.type \in Lists => Declared(p) < 128 /\ LastTopic(p) > 3

(* A pack within the limits of the codec: nothing about it is refused.     *)
Legal(p) ==
    /\ Framed(p) /\ Declared(p) <= MaxPackLength
    /\ p.type = CONNECT => p.strs[2] \in 1..64
    /\ p.type = PUBLISH => p.strs[1] \in 1..MaxString

CutAt(i) == cut /\ i = Len(sent)
Boundary(n) == IF n = 0 THEN 0 ELSE ends[n]

(* As long as every pack could be delimited, the reader stands at the      *)
(* boundary between two packs whenever it starts on one, takes no content  *)
(* for a number, and has returned what was sent: every string and message  *)
(* with its length, and of a pack that was cut off nothing.  Two cases     *)
(* differ: a topic of 2^16 bytes or more comes back shorter, and a list of *)
(* topics that was cut off is returned as if it were complete.  It fails   *)
(* for a reason only: the stream ends before the pack does, or the pack is *)
(* beyond the limits.                                                      *)
ReadsBack ==
    LET n == Len(got)
        reached == {i \in DOMAIN sent : i <= n + 1}
    IN  (\A i \in reached : Framed(sent[i])) =>
           /\ pc # "lost" /\ n <= Len(sent)
           /\ pc = "fixed" => pos = Boundary(n)
           /\ pc = "err" => \/ cut /\ n + 1 >= Len(sent)
                            \/ n < Len(sent) /\ ~Legal(sent[n + 1])
           /\ \A i \in 1..n :
                 LET s == sent[i] IN
                   \/ CutAt(i) /\ s.type \in Lists
                   \/ ~CutAt(i) /\ s.type = PUBLISH /\ s.strs[1] > MaxString
                   \/ /\ ~CutAt(i)
                      /\ got[i] = Says(s.type, s.qos, s.flags, s.strs, s.msg)

(* A pack within the limits is returned once all of it has arrived: the    *)
(* reader neither refuses it nor waits for bytes that do not come.         *)
Delivered ==
    \A i \in 1..MaxSent :
        (i \in DOMAIN sent /\ ~CutAt(i) /\ \A j \in 1..i : Legal(sent[j]))
            ~> Len(got) >= i
=============================================================================
