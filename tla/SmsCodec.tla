-------------------------------- MODULE SmsCodec --------------------------------
(***************************************************************************)
(* The codec of short messages (SMS/SMSMessages, the BCD numbers and the   *)
(* LV elements of GSM, the fields of BitVector): an SMS-SUBMIT in RP-DATA  *)
(* as a phone encodes it, what TLSubmit and RPData parse of it, the        *)
(* SMS-DELIVER in RP-DATA that is written for the other phone, with the    *)
(* user data of the SUBMIT or with its text decoded and encoded again, and *)
(* what a phone reads in it.  A frame is a sequence of bits.               *)
(***************************************************************************)
EXTENDS BitVectors

CONSTANTS
    Messages,   \* what the users send: [to, from, vpf, vp, dcs, header, text]
    Failed,     \* a parser has thrown
    NoFrame     \* nothing there yet

VARIABLES
    sms,        \* what the user sends
    uplink,     \* the RP-DATA from the sender's phone
    submit,     \* the TLSubmit parsed from it
    downlink,   \* the RP-DATA to the receiver's phone
    got         \* what the receiver's phone reads

codecVars == <<sms, uplink, submit, downlink, got>>

Octets(v) == Ceil(Len(v), 8)

--------------------------------------------------------------------------------
(* Numbers *)

\* A number: a plus or none, and digits. The type and plan that the constructors set.
International(number) == IF number.plus THEN 1 ELSE 2
E164Plan == 1
MaxDigits == 20

\* L3BCDDigits::write: two digits to an octet, the second one first, 15 to fill up.
Nibble(d, q) == IF q % 2 = 1 THEN d[q] ELSE IF q + 2 <= Len(d) THEN d[q + 2] ELSE 15
Digits(number) ==
    LET d == number.digits
    IN  [i \in 1..(8 * Ceil(Len(d), 2)) |->
            Field(Nibble(d, (i - 1) \div 4), 4)[((i - 1) % 4) + 1]]

\* A faulty length, without the octet of the last of an odd count of digits.
DigitsRoundedDown(number) == Len(number.digits) \div 2
\* L3BCDDigits::lengthV
DigitsLengthV(number) == Ceil(Len(number.digits), 2)

\* L3BCDDigits::size, the length of the string.
Size(number) == Len(number.digits) + (IF number.plus THEN 1 ELSE 0)

\* L3BCDDigits::parse: the digits after each octet, and all of them.
ReadDigits(v, rp, octets) ==
    LET d1(k) == Peek(v, rp + 8 * k - 4, 4)
        d2(k) == Peek(v, rp + 8 * k - 8, 4)
        read[k \in 0..octets] ==
            IF k = 0 THEN << >>
            ELSE read[k - 1] \o (IF d2(k) = 15 THEN <<d1(k)>> ELSE <<d1(k), d2(k)>>)
    IN  read
ParseDigits(v, rp, octets, plus) ==
    [plus |-> plus, digits |-> ReadDigits(v, rp, octets)[octets]]

\* TLAddress::write
TLAddress(number) ==
    Field(Size(number), 8) \o <<1>> \o Field(International(number), 3) \o Field(E164Plan, 4)
        \o Digits(number)
TLAddressLength(number) == 2 + DigitsLengthV(number)

\* TLAddress::parse: the number, and where it ends.
ParseTLAddress(v, rp) ==
    LET octets == Ceil(Peek(v, rp, 8), 2)
        number == ParseDigits(v, rp + 16, octets, Peek(v, rp + 9, 3) = 1)
    IN  IF Peek(v, rp + 8, 1) # 1 \/ Size(number) > MaxDigits THEN Failed
        ELSE [number |-> number, rp |-> rp + 16 + 8 * octets]

\* L3CalledPartyBCDNumber::writeV, in LV format (writeLV): nothing if there are no digits.
RPAddressLengthV(number) ==
    IF number.digits = << >> THEN 0 ELSE 1 + DigitsLengthV(number)
RPAddress(number) ==
    IF number.digits = << >> THEN Field(0, 8)
    ELSE Field(RPAddressLengthV(number), 8)
            \o <<1>> \o Field(International(number), 3) \o Field(E164Plan, 4) \o Digits(number)

\* A faulty parseLV, that takes the length octet for a part of the element.
SkipElement(v, rp) == rp + 8 * Peek(v, rp, 8)
\* parseLV of an address: it takes as many bits as its length says.
AfterLV(v, rp) == rp + 8 + 8 * Peek(v, rp, 8)

--------------------------------------------------------------------------------
(* The validity period, in minutes; 10080 is "assuming 1 week".  The date of the absolute *)
(* format is not told apart from it. *)

\* TLValidityPeriod::parse of the relative format.
Minutes(vp) ==
    CASE vp < 144 -> (vp + 1) * 5
      [] vp \in 144..167 -> 12 * 60 + (vp - 143) * 30
      [] vp \in 168..196 -> 24 * 60 * (vp - 166)
      [] OTHER -> 7 * 24 * 60 * (vp - 192)

\* L3TimeZoneAndTime::parseV reads the sign of the zone and then four bits of its tens,
\* although the sign is the first of these four: 57 bits.
AbsoluteBits == 6 * 8 + 4 + 1 + 4

\* TLValidityPeriod::parse; the enhanced format is stepped over by seven bits of its seven octets.
ParseValidity(v, rp, vpf) ==
    CASE vpf = 2 -> [minutes |-> Minutes(Peek(v, rp, 8)), rp |-> rp + 8]
      [] vpf = 3 -> [minutes |-> 10080, rp |-> rp + AbsoluteBits]
      [] vpf = 1 -> [minutes |-> 10080, rp |-> rp + 7]
      [] vpf = 0 -> [minutes |-> 10080, rp |-> rp]

--------------------------------------------------------------------------------
(* User data: septets, of which the first ones may be a header *)

\* The two septets that stand twice in the alphabet: what they are encoded as again.
Canonical(c) == CASE c = 27 -> 32 [] c = 2 -> 36 [] OTHER -> c

\* encode7bit: the septets, lowest bit first, filled up to octets.
Septets(text) ==
    [i \in 1..(7 * Len(text)) |-> FieldReversed(text[((i - 1) \div 7) + 1], 7)[((i - 1) % 7) + 1]]
Filling(v) == Zeros(8 * Octets(v) - Len(v))
Encode7bit(text) ==
    [dcs |-> 0, udhi |-> FALSE, length |-> Len(text),
     data |-> Septets(text) \o Filling(Septets(text))]

\* A faulty decode, that steps over the octets of the header only.
HeaderOctetsOnly(octets) == (octets * 8 + 6) \div 7
\* udh_septets: the header, its length octet and the fill bits, in septets.
HeaderSeptets(octets) == (octets * 8 + 8 + 6) \div 7

\* decode: fails for another alphabet, and for a length beyond the data.
Decode(ud) ==
    IF ud.dcs \notin {0, 244, 245, 246, 247} \/ ud.length * 7 > Len(ud.data) THEN Failed
    ELSE LET skip == IF ud.udhi THEN HeaderSeptets(PeekReversed(ud.data, 0, 8)) ELSE 0
         IN  IF skip > ud.length THEN Failed
             ELSE [i \in 1..(ud.length - skip) |->
                      Canonical(PeekReversed(ud.data, 7 * (skip + i - 1), 7))]

\* TLUserData::parse: the rest of the frame.
ParseUserData(v, rp, dcs, udhi) ==
    [dcs |-> dcs, udhi |-> udhi, length |-> Peek(v, rp, 8),
     data |-> LSB8MSB(SubSeq(v, rp + 9, Len(v)))]

\* TLUserData::write: after data that is not whole octets stands what was there, here zeros.
UserData(ud) ==
    Field(ud.length, 8) \o LSB8MSB(ud.data \o Filling(ud.data))
UserDataLength(ud) == 1 + Octets(ud.data)

--------------------------------------------------------------------------------
(* RP-DATA *)

\* RPMessage::write and RPData::writeBody; the direction is in the message type.
RPData(type, reference, originator, destination, tpdu) ==
    Zeros(5) \o Field(type, 3) \o Field(reference, 8)
        \o RPAddress(originator) \o RPAddress(destination) \o Field(Octets(tpdu), 8) \o tpdu
RPDataLength(originator, destination, tpdu) ==
    2 + (RPAddressLengthV(originator) + 1) + (RPAddressLengthV(destination) + 1)
      + (Octets(tpdu) + 1)

\* RPMessage::parse, RPData::parseBody, RPUserData::parseV: the TPDU.
TPDU(v) ==
    LET rp == AfterLV(v, AfterLV(v, 16))
        n == 8 * Peek(v, rp, 8)
    IN  IF rp + 8 + n > Len(v) THEN Failed ELSE SubSeq(v, rp + 9, rp + 8 + n)

NoNumber == [plus |-> FALSE, digits |-> << >>]
Centre == [plus |-> FALSE, digits |-> <<0, 0, 0, 0>>]

--------------------------------------------------------------------------------
(* The way of a message *)

CodecInit ==
    /\ sms \in Messages
    /\ uplink = NoFrame
    /\ submit = NoFrame
    /\ downlink = NoFrame
    /\ got = NoFrame

\* The septets of the header, lowest bit first: its length octet, then zeros.
Header(octets) == IF octets = 0 THEN << >> ELSE
    [i \in 1..Ceil(8 + 8 * octets, 7) |->
        CASE i = 1 -> octets % 128 [] i = 2 -> octets \div 128 [] OTHER -> 0]

\* A number as GSM 03.40 has it in a TPDU: the count of its digits, without a plus.
StandardAddress(number) ==
    Field(Len(number.digits), 8) \o <<1>> \o Field(International(number), 3)
        \o Field(E164Plan, 4) \o Digits(number)

Flag(b) == IF b THEN <<1>> ELSE <<0>>

\* The numbers (digits, and * and # as 10 and 11), and what the parsers return: Failed is none
\* of it. A number has as many digits as they take, and a text as many septets as an SMS-SUBMIT,
\* with its header.
PhoneNumbers == [plus : BOOLEAN, digits : Seq(0..11)]
UserDatas == [dcs : 0..255, udhi : BOOLEAN, length : 0..160, data : Seq({0, 1})]
ASSUME CodecAssumption ==
    /\ Messages \subseteq
          [to : PhoneNumbers, from : PhoneNumbers, vpf : 0..3, vp : 0..255, dcs : 0..255,
           header : 0..139, text : Seq(0..127)]
    /\ \A m \in Messages :
          /\ Size(m.to) <= MaxDigits
          /\ Size(m.from) <= MaxDigits
          /\ Len(Header(m.header)) + Len(m.text) <= 160
    /\ Failed \notin Seq({0, 1})
    /\ Failed \notin [number : PhoneNumbers, rp : Nat]
    /\ Failed \notin [to : PhoneNumbers, minutes : Nat, ud : UserDatas]
    /\ Failed \notin [from : PhoneNumbers, udhi : BOOLEAN, dcs : 0..255, text : Seq(0..127) \cup {Failed}]

\* The phone: SMS-SUBMIT of GSM 03.40 9.2.2.2.
SubmitTPDU ==
    LET ud == Encode7bit(Header(sms.header) \o sms.text)
    IN  <<0>> \o Flag(sms.header > 0) \o <<0>> \o Field(sms.vpf, 2) \o <<0>> \o Field(1, 2)
          \o Field(7, 8) \o StandardAddress(sms.to) \o Field(0, 8) \o Field(sms.dcs, 8)
          \o (CASE sms.vpf = 0 -> << >>
                [] sms.vpf = 2 -> Field(sms.vp, 8)
                [] OTHER -> Zeros(56))
          \o UserData(ud)
Submit ==
    /\ uplink = NoFrame
    /\ uplink' = RPData(0, 5, NoNumber, Centre, SubmitTPDU)
    /\ UNCHANGED <<sms, submit, downlink, got>>

\* TLSubmit::parseBody
ParseSubmit(v) ==
    LET da == ParseTLAddress(v, 16)
    IN  IF da = Failed THEN Failed
        ELSE LET dcs == Peek(v, da.rp + 8, 8)
                 vp == ParseValidity(v, da.rp + 16, Peek(v, 3, 2))
             IN  [to |-> da.number, minutes |-> vp.minutes,
                  ud |-> ParseUserData(v, vp.rp, dcs, v[2] = 1)]

\* decodeRPData, and parseTPDU, which knows the SUBMIT only.
ParseUplink ==
    /\ uplink # NoFrame /\ submit = NoFrame
    /\ LET tpdu == TPDU(uplink)
       IN  submit' = IF tpdu = Failed THEN Failed
                     ELSE IF Peek(tpdu, 6, 2) # 1 THEN Failed ELSE ParseSubmit(tpdu)
    /\ UNCHANGED <<sms, uplink, downlink, got>>

\* TLDeliver: TLMessage::write, TLDeliver::writeBody.
DeliverTPDU(from, ud) ==
    <<0>> \o Flag(ud.udhi) \o <<0, 0, 0, 1>> \o Field(0, 2)
        \o TLAddress(from) \o Field(0, 8) \o Field(ud.dcs, 8) \o Zeros(56) \o UserData(ud)
DeliverLength(from, ud) == 1 + TLAddressLength(from) + 1 + 1 + 7 + UserDataLength(ud)

\* TLMessage::write, RPMessage::write: the frame is as long as bitsNeeded says. fillField asserts
\* that it writes within it; what is not written stays as it was, here zeros.
Written(octets, v) ==
    IF Len(v) > 8 * octets THEN Failed
    ELSE [i \in 1..(8 * octets) |-> IF i <= Len(v) THEN v[i] ELSE 0]

\* The RP-DATA with the SMS-DELIVER.
DeliverFrame(from, ud) ==
    LET tpdu == Written(DeliverLength(from, ud), DeliverTPDU(from, ud))
    IN  IF tpdu = Failed THEN Failed
        ELSE Written(RPDataLength(Centre, NoNumber, tpdu), RPData(1, 9, Centre, NoNumber, tpdu))

\* create_sms_delivery, with the user data of the SUBMIT (recode_tpdu), or with the text
\* that get_text decodes (pack_text_to_tpdu).
Forward ==
    /\ submit \notin {NoFrame, Failed} /\ downlink = NoFrame
    /\ \/ downlink' = [frame |-> DeliverFrame(sms.from, submit.ud), ud |-> submit.ud, as |-> "userdata"]
       \/ /\ Decode(submit.ud) # Failed
          /\ LET ud == Encode7bit(Decode(submit.ud))
             IN  downlink' = [frame |-> DeliverFrame(sms.from, ud), ud |-> ud, as |-> "text"]
    /\ UNCHANGED <<sms, uplink, submit, got>>

\* The other phone: SMS-DELIVER of GSM 03.40 9.2.2.1.
Receive ==
    /\ downlink # NoFrame /\ got = NoFrame
    /\ LET v == IF downlink.frame = Failed THEN Failed ELSE TPDU(downlink.frame)
           oa == ParseTLAddress(v, 8)
           ud == ParseUserData(v, oa.rp + 72, Peek(v, oa.rp + 8, 8), v[2] = 1)
       IN  got' = IF v = Failed THEN Failed
                  ELSE IF oa = Failed \/ oa.rp + 80 > Len(v) THEN Failed
                  ELSE [from |-> oa.number, udhi |-> ud.udhi, dcs |-> ud.dcs, text |-> Decode(ud)]
    /\ UNCHANGED <<sms, uplink, submit, downlink>>

CodecNext == Submit \/ ParseUplink \/ Forward \/ Receive

CodecSpec == CodecInit /\ [][CodecNext]_codecVars

--------------------------------------------------------------------------------
(* Properties *)

\* A number whose plus makes TLAddress::write announce an octet too many; a period that
\* TLValidityPeriod::parse leaves the reading a bit too far.
Miscounted(number) == number.plus /\ Len(number.digits) % 2 = 0
Misread == sms.vpf \in {1, 3}

\* What the sender wrote is parsed: his number, his period and his text, a header or none.
SubmitIsParsed ==
    submit # NoFrame /\ ~Misread =>
        /\ submit # Failed
        /\ submit.to = sms.to
        /\ submit.minutes = (IF sms.vpf = 2 THEN Minutes(sms.vp) ELSE 10080)
        /\ sms.dcs = 0 => Decode(submit.ud) = [i \in DOMAIN sms.text |-> Canonical(sms.text[i])]

\* The receiver reads the number and the text of the sender, both ways; so the lengths by which
\* the frames are made are those of what is written to them.
DeliverArrives ==
    got # NoFrame /\ ~Misread /\ ~Miscounted(sms.from) =>
        /\ got # Failed
        /\ got.from = sms.from
        /\ sms.dcs = 0 => got.text = [i \in DOMAIN sms.text |-> Canonical(sms.text[i])]
        /\ downlink.as = "userdata" => got.dcs = sms.dcs /\ got.udhi = (sms.header > 0)

================================================================================
