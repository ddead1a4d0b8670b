---------------------------- MODULE Messages_proofs ----------------------------
(***************************************************************************)
(* What is proved of the content of a message, of its way through the      *)
(* queue (ShortMsg) and then of the checks and the tag (SmqValidation).    *)
(***************************************************************************)
EXTENDS ShortMsg, SmqValidation, SequenceTheorems, WellFoundedInduction, TLAPS

States ==
    {"NO_STATE", "DELETE_ME_STATE", "REQUEST_FROM_ADDRESS_LOOKUP", "REQUEST_DESTINATION_IMSI",
     "REQUEST_DESTINATION_SIPURL", "AWAITING_TRY_MSG_DELIVERY", "REQUEST_MSG_DELIVERY",
     "ASKED_FOR_MSG_DELIVERY"}
Delivering == {"AWAITING_TRY_MSG_DELIVERY", "REQUEST_MSG_DELIVERY", "ASKED_FOR_MSG_DELIVERY"}
Converts == ContentTypes \cup {"UNSUPPORTED_CONTENT"}
HostNames == {"here", "cell", "relay", "nowhere"}

Message ==
    [state : States, text : Forms, parsed : Forms, parsed_is_valid : {TRUE},
     parsed_is_better : BOOLEAN, content_type : ContentTypes, convert : Converts,
     tl_message : TPDUs \cup {NoTPDU}, ms_to_sc : BOOLEAN, need_repack : BOOLEAN]
Records == [state : States, text : Forms, ms_to_sc : BOOLEAN, need_repack : BOOLEAN]

ShortMsgTypeOK ==
    /\ sm \in Message \cup {NoMsg}
    /\ file \in Records \cup {NoMsg}
    /\ config \in [relay : BOOLEAN, type : ContentTypes]
    /\ starts \in Nat \ {0}
    /\ up \in BOOLEAN
    /\ calls \in Nat
    /\ calls + starts <= MaxRounds
    /\ out \in Forms \cup {NoForm}
    /\ asked \in SUBSET [call : 0..MaxRounds, host : HostNames]
    /\ orig \in Records
    /\ bounced \in {Text, Empty, Garbled, NoForm}
    /\ forgot \in BOOLEAN

\* The message as it came.
CameSo ==
    /\ orig.text.body.kind \in {"plain", "SUBMIT", "norp"}
    /\ orig.text.type = "TEXT_PLAIN" <=> orig.text.body.kind = "plain"
    /\ orig.text.body.kind = "SUBMIT" => orig.ms_to_sc
    /\ Readable(orig) => orig.text.body.text = Text

\* A form of it that is not packed yet says what came; a packed one is in its type.
Says(form, toward, repack) ==
    IF repack
    THEN form.body = orig.text.body /\ form.type = orig.text.type /\ toward = orig.ms_to_sc
    ELSE /\ form.body.kind # "SUBMIT"
         /\ form.type = "TEXT_PLAIN" <=> form.body.kind = "plain"
         /\ Readable(orig) => form.body.text = Text /\ form.body.kind # "norp"

\* Only who is known by an IMSI is looked for in a cell.
Reached(form) == form.host = "cell" => form.to = "imsi"

\* It is not for the relay, or of the type the relay takes.
Suits(form, type) ==
    \/ form.to = "imsi" /\ form.host # "relay"
    \/ type = config.type

\* What the cached text tells of the tree even where From has been changed quietly.
Same(f, g) == f.body = g.body /\ f.type = g.type /\ f.to = g.to /\ f.host = g.host /\ f.call = g.call

\* It went to a place that may take another type.
LeftCells == \E a \in asked : a.host # "cell"

\* It is, or will be, converted to a type other than its own.
Changes(m) == m.convert \notin {"UNSUPPORTED_CONTENT", orig.text.type}

MessageOK(m) ==
    /\ Says(m.parsed, m.ms_to_sc, m.need_repack)
    /\ m.need_repack => m.content_type = orig.text.type /\ m.tl_message = Decoded(orig.text)
    /\ ~m.parsed_is_better => Same(m.text, m.parsed)
    /\ m.state \in Delivering => m.parsed_is_better \/ m.text = m.parsed
    /\ Reached(m.parsed)
    /\ m.convert \in {"UNSUPPORTED_CONTENT", config.type}
    /\ Changes(m) => LeftCells \/ /\ m.parsed.to # "imsi"
                                  /\ m.state \notin {"REQUEST_FROM_ADDRESS_LOOKUP", "REQUEST_DESTINATION_IMSI"}
    /\ ~m.need_repack /\ Readable(orig) /\ ~Changes(m) => GetText(m) = Text
    /\ ~forgot /\ m.need_repack /\ m.state \in Delivering => Suits(m.parsed, m.convert)
    /\ ~forgot /\ ~m.need_repack => Suits(m.parsed, m.parsed.type)

RecordOK(r) ==
    /\ Says(r.text, r.ms_to_sc, r.need_repack)
    /\ Reached(r.text)
    /\ ~forgot /\ ~r.need_repack => Suits(r.text, r.text.type)

\* A Call-ID stands for one place.
Calls ==
    asked \cup (IF Queued THEN {[call |-> sm.parsed.call, host |-> sm.parsed.host]} ELSE {})
          \cup (IF file # NoMsg THEN {[call |-> file.text.call, host |-> file.text.host]} ELSE {})
CallsOK ==
    /\ \A a \in Calls : a.call <= calls
    /\ \A a, b \in Calls : a.call = b.call => a.host = b.host

MessageInv ==
    /\ ShortMsgTypeOK
    /\ CameSo
    /\ Queued => MessageOK(sm)
    /\ file # NoMsg => RecordOK(file)
    /\ CallsOK
    /\ TextArrives
    /\ RelayGetsItsType
    /\ BounceQuotesText

--------------------------------------------------------------------------------
(* The operations on a message *)

\* Of a message in the queue the tree is always there.
LEMMA ParseAgain ==
    ASSUME NEW m \in Message
    PROVE  Parse(m) = m
BY DEF Parse, Message

\* What get_text returns is a text.
LEMMA GetTextType ==
    ASSUME NEW m \in Message
    PROVE  GetText(m) \in {Text, Empty, Garbled}
<1>1. m.parsed.body.text \in {Text, Empty, Garbled}
    BY DEF Message, Forms, Bodies, TPDUs
<1>2. m.tl_message # NoTPDU => m.tl_message.text \in {Text, Empty, Garbled}
    BY DEF Message, TPDUs
<1>3. QED
    BY <1>1, <1>2 DEF GetText

\* A body in place of another, in a form of a type.
LEMMA FormType ==
    ASSUME NEW f \in Forms, NEW b \in Bodies, NEW t \in ContentTypes
    PROVE  /\ [f EXCEPT !.body = b] \in Forms
           /\ [f EXCEPT !.body = b, !.type = t] \in Forms
           /\ [f EXCEPT !.type = t] \in Forms
BY DEF Forms

LEMMA BodyType ==
    ASSUME NEW text \in {Text, Empty, Garbled}
    PROVE  /\ [kind |-> "plain", text |-> text] \in Bodies
           /\ [kind |-> "DELIVER", text |-> text] \in Bodies
           /\ [kind |-> "DELIVER", text |-> text] \in TPDUs
BY DEF Bodies, TPDUs

\* make_text_valid brings the text up to the tree and changes nothing else.
LEMMA MadeValidOK ==
    ASSUME NEW m \in Message, MessageOK(m)
    PROVE  /\ MadeValid(m) \in Message
           /\ MessageOK(MadeValid(m))
           /\ Same(MadeValid(m).text, m.parsed)
           /\ m.state \in Delivering => MadeValid(m).text = m.parsed
           /\ MadeValid(m).parsed = m.parsed
           /\ MadeValid(m).state = m.state
           /\ MadeValid(m).ms_to_sc = m.ms_to_sc
           /\ MadeValid(m).need_repack = m.need_repack
<1>1. CASE m.parsed_is_better
    <2> DEFINE v == MadeValid(m)
    <2>1. v = [m EXCEPT !.text = m.parsed, !.parsed_is_better = FALSE]
        BY <1>1 DEF MadeValid, Message
    <2>2. /\ v \in Message
          /\ v.text = m.parsed /\ v.parsed = m.parsed /\ v.state = m.state
          /\ v.content_type = m.content_type /\ v.tl_message = m.tl_message
          /\ v.convert = m.convert /\ v.ms_to_sc = m.ms_to_sc /\ v.need_repack = m.need_repack
        BY <2>1 DEF Message
    <2>3. GetText(v) = GetText(m)
        BY <2>2 DEF GetText
    <2> HIDE DEF v
    <2>4. Same(v.text, v.parsed)
        BY <2>2 DEF Same
    <2>5. MessageOK(v)
        BY <2>2, <2>3, <2>4 DEF MessageOK, Changes
    <2> QED
        BY <2>2, <2>4, <2>5 DEF v
<1>2. CASE ~m.parsed_is_better
    BY <1>2 DEF MadeValid, MessageOK, Message
<1> QED
    BY <1>1, <1>2

\* Before it is packed a message has the text it came with.
LEMMA UnpackedText ==
    ASSUME NEW m \in Message, MessageOK(m), m.need_repack, CameSo, Readable(orig)
    PROVE  GetText(m) = Text
<1>1. /\ m.parsed.body = orig.text.body /\ m.content_type = orig.text.type
      /\ m.tl_message = Decoded(orig.text) /\ m.ms_to_sc = orig.ms_to_sc
    BY DEF MessageOK, Says
<1>2. CASE orig.text.body.kind = "plain"
    BY <1>1, <1>2 DEF GetText, CameSo
<1>3. CASE orig.text.body.kind = "SUBMIT"
    <2>1. orig.text.type = "VND_3GPP_SMS"
        BY <1>1, <1>3 DEF CameSo, Message, ContentTypes
    <2>2. m.tl_message = orig.text.body
        BY <1>1, <1>3, <2>1 DEF Decoded
    <2>3. m.tl_message # NoTPDU
        BY <1>1, <1>3, <2>2, ShortMsgAssumption DEF Message, Forms, Bodies, TPDUs
    <2> QED
        BY <1>1, <1>3, <2>1, <2>2, <2>3 DEF GetText, CameSo
<1> QED
    BY <1>2, <1>3 DEF CameSo, Readable

\* What the packing leaves alone.
SameRoute(m, n) ==
    /\ n.state = m.state /\ n.convert = m.convert /\ n.content_type = m.content_type
    /\ n.parsed.to = m.parsed.to /\ n.parsed.host = m.parsed.host /\ n.parsed.call = m.parsed.call

\* Packed as a text.
LEMMA PlainTextPacks ==
    ASSUME NEW m \in Message, MessageOK(m), CameSo, m.need_repack, m.state \in Delivering,
           config.type \in ContentTypes,
           \/ m.convert = "TEXT_PLAIN"
           \/ m.convert = "UNSUPPORTED_CONTENT" /\ m.content_type = "TEXT_PLAIN"
    PROVE  LET n == [PlainText(m, GetText(m)) EXCEPT !.need_repack = FALSE]
           IN  n \in Message /\ MessageOK(n) /\ SameRoute(m, n)
<1> DEFINE text == GetText(m)
           body == [kind |-> "plain", text |-> text]
           form == [m.parsed EXCEPT !.body = body, !.type = "TEXT_PLAIN"]
           n == [PlainText(m, GetText(m)) EXCEPT !.need_repack = FALSE]
<1>1. text \in {Text, Empty, Garbled} /\ (Readable(orig) => text = Text)
    BY GetTextType, UnpackedText
<1> HIDE DEF text
<1>2. body \in Bodies /\ m.parsed \in Forms /\ "TEXT_PLAIN" \in ContentTypes
    BY <1>1, BodyType DEF Message, ContentTypes
<1>3. form \in Forms
    BY <1>2, FormType
<1>4. /\ form.body = body /\ form.type = "TEXT_PLAIN"
      /\ form.to = m.parsed.to /\ form.host = m.parsed.host /\ form.call = m.parsed.call
    BY <1>2 DEF Forms
<1>5. n = [m EXCEPT !.parsed = form, !.parsed_is_better = TRUE, !.ms_to_sc = FALSE,
                    !.need_repack = FALSE]
    BY DEF PlainText, Changed, Message, text
<1> HIDE DEF form, body, n
<1>6. /\ n \in Message
      /\ n.parsed = form /\ n.parsed_is_better /\ ~n.need_repack
      /\ n.state = m.state /\ n.convert = m.convert /\ n.content_type = m.content_type
    BY <1>3, <1>5 DEF Message
<1>7. SameRoute(m, n)
    BY <1>4, <1>6 DEF SameRoute
<1>8. Says(n.parsed, n.ms_to_sc, n.need_repack)
    BY <1>1, <1>4, <1>6 DEF Says, body
<1>9. Readable(orig) /\ ~Changes(n) => GetText(n) = Text
    <2> SUFFICES ASSUME Readable(orig), ~Changes(n) PROVE GetText(n) = Text
        OBVIOUS
    <2>1. n.content_type = "TEXT_PLAIN"
        BY <1>6 DEF Changes, MessageOK
    <2> QED
        BY <1>1, <1>4, <1>6, <2>1 DEF GetText, body
<1>10. ~forgot => Suits(n.parsed, n.parsed.type)
    BY <1>4, <1>6 DEF MessageOK, Suits, ContentTypes
<1>11. MessageOK(n)
    BY <1>4, <1>6, <1>8, <1>9, <1>10 DEF MessageOK, Changes, Reached
<1> QED
    BY <1>6, <1>7, <1>11 DEF n

\* Packed as a TPDU of the type VND_3GPP_SMS, which it had or gets.
AsDelivery(m) ==
    LET deliver == [kind |-> "DELIVER", text |-> GetText(m)]
    IN  [m EXCEPT !.parsed = [m.parsed EXCEPT !.body = deliver, !.type = "VND_3GPP_SMS"],
                  !.parsed_is_better = TRUE, !.tl_message = deliver, !.ms_to_sc = FALSE,
                  !.need_repack = FALSE]

LEMMA DeliveryPacks ==
    ASSUME NEW m \in Message, MessageOK(m), CameSo, m.need_repack, m.state \in Delivering,
           config.type \in ContentTypes,
           \/ m.convert = "VND_3GPP_SMS"
           \/ m.convert = "UNSUPPORTED_CONTENT" /\ m.content_type = "VND_3GPP_SMS"
    PROVE  AsDelivery(m) \in Message /\ MessageOK(AsDelivery(m)) /\ SameRoute(m, AsDelivery(m))
<1> DEFINE text == GetText(m)
           deliver == [kind |-> "DELIVER", text |-> text]
           form == [m.parsed EXCEPT !.body = deliver, !.type = "VND_3GPP_SMS"]
           n == AsDelivery(m)
<1>1. text \in {Text, Empty, Garbled} /\ (Readable(orig) => text = Text)
    BY GetTextType, UnpackedText
<1>3. n = [m EXCEPT !.parsed = form, !.parsed_is_better = TRUE, !.tl_message = deliver,
                    !.ms_to_sc = FALSE, !.need_repack = FALSE]
    BY DEF AsDelivery
<1> HIDE DEF text
<1>4. deliver \in TPDUs /\ deliver \in Bodies
    BY <1>1, BodyType
<1>2. form \in Forms
    BY <1>4, FormType DEF Message, ContentTypes
<1>5. /\ form.body = deliver /\ form.type = "VND_3GPP_SMS"
      /\ form.to = m.parsed.to /\ form.host = m.parsed.host /\ form.call = m.parsed.call
    BY DEF Forms, Message
<1>6. deliver # NoTPDU /\ deliver.kind = "DELIVER" /\ deliver.text = text
    BY <1>4, ShortMsgAssumption
<1> HIDE DEF deliver, form, n
<1>7. /\ n \in Message
      /\ n.parsed = form /\ n.parsed_is_better /\ ~n.need_repack /\ ~n.ms_to_sc
      /\ n.tl_message = deliver
      /\ n.state = m.state /\ n.convert = m.convert /\ n.content_type = m.content_type
    BY <1>2, <1>3, <1>4 DEF Message
<1>8. SameRoute(m, n)
    BY <1>5, <1>7 DEF SameRoute
<1>9. Says(n.parsed, n.ms_to_sc, n.need_repack)
    BY <1>1, <1>5, <1>6, <1>7 DEF Says
<1>10. Readable(orig) /\ ~Changes(n) => GetText(n) = Text
    <2> SUFFICES ASSUME Readable(orig), ~Changes(n) PROVE GetText(n) = Text
        OBVIOUS
    <2>1. n.content_type = "VND_3GPP_SMS"
        BY <1>7 DEF Changes, MessageOK
    <2> QED
        BY <1>1, <1>6, <1>7, <2>1 DEF GetText
<1>11. ~forgot => Suits(n.parsed, n.parsed.type)
    <2>1. ~forgot => Suits(m.parsed, m.convert)
        BY DEF MessageOK
    <2>2. m.convert \in {"VND_3GPP_SMS", "UNSUPPORTED_CONTENT"} /\ config.type # "UNSUPPORTED_CONTENT"
        BY DEF ContentTypes
    <2> QED
        BY <1>5, <1>7, <2>1, <2>2 DEF Suits
<1>12. MessageOK(n)
    BY <1>5, <1>7, <1>9, <1>10, <1>11 DEF MessageOK, Changes, Reached
<1> QED
    BY <1>7, <1>8, <1>12 DEF n

\* pack_sms_for_delivery, once or not at all: the text stays what it was, in the type that the
\* place takes.
LEMMA PackedOK ==
    ASSUME NEW m \in Message, MessageOK(m), CameSo, CanPack(m), m.state \in Delivering,
           config.type \in ContentTypes
    PROVE  Packed(m) \in Message /\ MessageOK(Packed(m)) /\ SameRoute(m, Packed(m))
           /\ ~Packed(m).need_repack
<1> DEFINE n == Packed(m)
           deliver == [kind |-> "DELIVER", text |-> GetText(m)]
           form == [m.parsed EXCEPT !.body = deliver, !.type = "VND_3GPP_SMS"]
<1>1. CASE ~m.need_repack
    BY <1>1 DEF Packed, SameRoute
<1>2. deliver \in Bodies /\ form \in Forms
    BY GetTextType, BodyType, FormType DEF Message, ContentTypes
<1>3. CASE /\ m.need_repack
           /\ \/ m.convert = "TEXT_PLAIN"
              \/ m.convert = "UNSUPPORTED_CONTENT" /\ m.content_type = "TEXT_PLAIN"
    <2>1. Converted(m) = PlainText(m, GetText(m))
        BY <1>3 DEF Converted
    <2>2. n = [PlainText(m, GetText(m)) EXCEPT !.need_repack = FALSE]
        BY <1>3, <2>1 DEF Packed
    <2>3. n \in Message /\ MessageOK(n) /\ SameRoute(m, n)
        BY <1>3, <2>2, PlainTextPacks
    <2> QED
        BY <1>3, <2>2, <2>3 DEF PlainText, Changed, Message
<1>4. CASE m.need_repack /\ m.convert = "VND_3GPP_SMS"
    <2>1. Converted(m) = TextToTPDU(m, GetText(m))
        BY <1>4 DEF Converted
    <2>2. n = AsDelivery(m)
        BY <1>4, <2>1 DEF Packed, TextToTPDU, Delivery, Changed, AsDelivery, Message, Forms
    <2>3. n \in Message /\ MessageOK(n) /\ SameRoute(m, n)
        BY <1>4, <2>2, DeliveryPacks
    <2> QED
        BY <2>2, <2>3 DEF AsDelivery, Message
<1>5. CASE /\ m.need_repack /\ m.convert = "UNSUPPORTED_CONTENT"
           /\ m.content_type = "VND_3GPP_SMS" /\ m.ms_to_sc
    <2>1. Converted(m) = Delivery(m, GetText(m))
        BY <1>5 DEF Converted, Recoded
    <2>2. m.parsed.type = "VND_3GPP_SMS"
        BY <1>5 DEF MessageOK, Says
    <2>3. form = [m.parsed EXCEPT !.body = deliver]
        BY <2>2 DEF Message, Forms
    <2>4. n = AsDelivery(m)
        BY <1>5, <2>1, <2>3 DEF Packed, Delivery, Changed, AsDelivery, Message
    <2>5. n \in Message /\ MessageOK(n) /\ SameRoute(m, n)
        BY <1>5, <2>4, DeliveryPacks
    <2> QED
        BY <2>4, <2>5 DEF AsDelivery, Message
<1>6. CASE /\ m.need_repack /\ m.convert = "UNSUPPORTED_CONTENT"
           /\ m.content_type = "VND_3GPP_SMS" /\ ~m.ms_to_sc
    <2>1. Converted(m) = m
        BY <1>6 DEF Converted
    <2>2. n = [m EXCEPT !.need_repack = FALSE]
        BY <1>6, <2>1 DEF Packed
    <2>3. orig.text.body.kind = "norp" /\ orig.text.type = "VND_3GPP_SMS"
        BY <1>6 DEF MessageOK, Says, CameSo
    <2>4. /\ n \in Message /\ SameRoute(m, n) /\ ~n.need_repack
          /\ n.parsed = m.parsed /\ n.text = m.text /\ n.parsed_is_better = m.parsed_is_better
        BY <2>2 DEF Message, SameRoute
    <2>5. Says(n.parsed, n.ms_to_sc, n.need_repack)
        BY <1>6, <2>3, <2>4 DEF MessageOK, Says, Readable
    <2>6. ~forgot => Suits(n.parsed, n.parsed.type)
        BY <1>6, <2>4 DEF MessageOK, Suits, ContentTypes
    <2>7. MessageOK(n)
        BY <1>6, <2>3, <2>4, <2>5, <2>6 DEF MessageOK, Changes, Reached, Readable, SameRoute
    <2> QED
        BY <2>4, <2>7
<1> QED
    BY <1>1, <1>3, <1>4, <1>5, <1>6 DEF Message, ContentTypes, Converts

--------------------------------------------------------------------------------
(* The parts of a step *)

\* A message is not nothing, and neither is a record.
LEMMA SomeMessage ==
    /\ \A m \in Message : m # NoMsg
    /\ \A r \in Records : r # NoMsg
<1>1. NoMsg.state = "none" /\ "none" \notin States
    BY DEF NoMsg, States
<1>2. (\A m \in Message : m.state \in States) /\ (\A r \in Records : r.state \in States)
    BY DEF Message, Records
<1> QED
    BY <1>1, <1>2

\* The invariant says the same of the message after a step that keeps what it refers to.
LEMMA MessageKept ==
    ASSUME NEW m \in Message, MessageOK(m), sm' = m,
           UNCHANGED <<orig, config, forgot>>, LeftCells => LeftCells'
    PROVE  MessageOK(sm)'
<1>1. Says(m.parsed, m.ms_to_sc, m.need_repack) => Says(sm.parsed, sm.ms_to_sc, sm.need_repack)'
    BY DEF Says, Readable
<1>2. Changes(sm)' <=> Changes(m)
    BY DEF Changes
<1>3. /\ Reached(sm.parsed)' <=> Reached(m.parsed)
      /\ Suits(sm.parsed, sm.convert)' <=> Suits(m.parsed, m.convert)
      /\ Suits(sm.parsed, sm.parsed.type)' <=> Suits(m.parsed, m.parsed.type)
      /\ Same(sm.text, sm.parsed)' <=> Same(m.text, m.parsed)
      /\ GetText(sm)' = GetText(m)
      /\ Decoded(orig.text)' = Decoded(orig.text)
      /\ Readable(orig)' <=> Readable(orig)
    BY DEF Reached, Suits, Same, GetText, Decoded, Readable
<1> QED
    BY <1>1, <1>2, <1>3 DEF MessageOK

LEMMA RecordKept ==
    ASSUME NEW r \in Records, RecordOK(r), file' = r,
           UNCHANGED <<orig, config>>, forgot => forgot'
    PROVE  RecordOK(file)'
BY DEF RecordOK, Says, Readable, Reached, Suits

LEMMA CallsKept ==
    ASSUME CallsOK, Calls' \subseteq Calls, calls' = calls
    PROVE  CallsOK'
BY DEF CallsOK

\* The message after another change of its state.
LEMMA StateOK ==
    ASSUME NEW m \in Message, MessageOK(m), NEW st \in States,
           st \in Delivering =>
              /\ m.parsed_is_better \/ m.text = m.parsed
              /\ ~forgot /\ m.need_repack => Suits(m.parsed, m.convert),
           st \in {"REQUEST_FROM_ADDRESS_LOOKUP", "REQUEST_DESTINATION_IMSI"} =>
              (Changes(m) => LeftCells)
    PROVE  LET n == [m EXCEPT !.state = st]
           IN  n \in Message /\ MessageOK(n) /\ n.parsed = m.parsed /\ n.state = st
<1> DEFINE n == [m EXCEPT !.state = st]
<1>1. /\ n \in Message /\ n.state = st
      /\ n.parsed = m.parsed /\ n.text = m.text /\ n.parsed_is_better = m.parsed_is_better
      /\ n.content_type = m.content_type /\ n.tl_message = m.tl_message
      /\ n.convert = m.convert /\ n.ms_to_sc = m.ms_to_sc /\ n.need_repack = m.need_repack
    BY DEF Message
<1> HIDE DEF n
<1>2. GetText(n) = GetText(m)
    BY <1>1 DEF GetText
<1>3. Changes(n) <=> Changes(m)
    BY <1>1 DEF Changes
<1>4. MessageOK(n)
    BY <1>1, <1>2, <1>3 DEF MessageOK
<1> QED
    BY <1>1, <1>4 DEF n

\* A handler that changes the message only, and not the place it is to go to.
LEMMA BecomesOK ==
    ASSUME MessageInv, Queued, NEW m \in Message, MessageOK(m), Becomes(m),
           m.parsed.call = sm.parsed.call, m.parsed.host = sm.parsed.host
    PROVE  MessageInv'
<1>1. sm' = m /\ UNCHANGED <<file, config, starts, up, calls, out, asked, orig, bounced, forgot>>
    BY DEF Becomes
<1>2. ShortMsgTypeOK'
    BY <1>1 DEF MessageInv, ShortMsgTypeOK
<1>3. MessageOK(sm)'
    BY <1>1, MessageKept DEF LeftCells
<1>4. (file # NoMsg => RecordOK(file))'
    BY <1>1 DEF MessageInv, RecordOK, Says, Readable, Reached, Suits
<1>5. Calls' \subseteq Calls
    BY <1>1 DEF Calls, Queued
<1>6. CallsOK'
    BY <1>1, <1>5, CallsKept DEF MessageInv
<1>7. (CameSo /\ TextArrives /\ RelayGetsItsType /\ BounceQuotesText)'
    BY <1>1 DEF MessageInv, CameSo, TextArrives, RelayGetsItsType, BounceQuotesText, Readable
<1> QED
    BY <1>2, <1>3, <1>4, <1>6, <1>7 DEF MessageInv

LEMMA LeavesOK ==
    ASSUME MessageInv, Becomes(NoMsg)
    PROVE  MessageInv'
<1>1. sm' = NoMsg /\ UNCHANGED <<file, config, starts, up, calls, out, asked, orig, bounced, forgot>>
    BY DEF Becomes
<1>2. ShortMsgTypeOK' /\ ~Queued'
    BY <1>1 DEF MessageInv, ShortMsgTypeOK, Queued
<1>4. (file # NoMsg => RecordOK(file))'
    BY <1>1 DEF MessageInv, RecordOK, Says, Readable, Reached, Suits
<1>5. Calls' \subseteq Calls
    BY <1>1, <1>2 DEF Calls
<1>6. CallsOK'
    BY <1>1, <1>5, CallsKept DEF MessageInv
<1>7. (CameSo /\ TextArrives /\ RelayGetsItsType /\ BounceQuotesText)'
    BY <1>1 DEF MessageInv, CameSo, TextArrives, RelayGetsItsType, BounceQuotesText, Readable
<1> QED
    BY <1>2, <1>4, <1>6, <1>7 DEF MessageInv

\* A bounce quotes the text: get_text is wrong only for a message that was converted for a
\* place of another type, and it was sent there before.
LEMMA BounceOK ==
    ASSUME MessageInv, Queued, NEW m \in Message, MessageOK(m), Bounce(m),
           m.parsed.call = sm.parsed.call, m.parsed.host = sm.parsed.host,
           Changes(m) => LeftCells
    PROVE  MessageInv'
<1> DEFINE n == [m EXCEPT !.state = "DELETE_ME_STATE"]
<1>1. /\ sm' = n /\ bounced' = GetText(m)
      /\ UNCHANGED <<file, config, starts, up, calls, out, asked, orig, forgot>>
    BY DEF Bounce
<1>2. n \in Message /\ MessageOK(n) /\ n.parsed = m.parsed
    BY StateOK DEF States, Delivering
<1> HIDE DEF n
<1>3. ShortMsgTypeOK'
    BY <1>1, <1>2, GetTextType DEF MessageInv, ShortMsgTypeOK
<1>4. MessageOK(sm)'
    BY <1>1, <1>2, MessageKept DEF LeftCells
<1>5. (file # NoMsg => RecordOK(file))'
    BY <1>1 DEF MessageInv, RecordOK, Says, Readable, Reached, Suits
<1>6. Calls' \subseteq Calls
    BY <1>1, <1>2 DEF Calls, Queued
<1>7. CallsOK'
    BY <1>1, <1>6, CallsKept DEF MessageInv
<1>8. (CameSo /\ TextArrives /\ RelayGetsItsType)'
    BY <1>1 DEF MessageInv, CameSo, TextArrives, RelayGetsItsType, Readable
<1>9. BounceQuotesText'
    <2> SUFFICES ASSUME Readable(orig), \A a \in asked : a.host # "cell" => orig.text.type = config.type
                 PROVE  GetText(m) = Text
        BY <1>1 DEF BounceQuotesText, Readable
    <2>1. ~Changes(m)
        BY DEF Changes, LeftCells, MessageOK
    <2>2. CASE m.need_repack
        BY <2>2, UnpackedText DEF MessageInv
    <2>3. CASE ~m.need_repack
        BY <2>1, <2>3 DEF MessageOK
    <2> QED
        BY <2>2, <2>3
<1> QED
    BY <1>3, <1>4, <1>5, <1>7, <1>8, <1>9 DEF MessageInv

\* The message after a lookup has changed its tree, and what it is to be converted to, but not
\* what it says.
LookedUp(m, form, better, st, c) ==
    [m EXCEPT !.parsed = form, !.parsed_is_better = better, !.state = st, !.convert = c]

MayBe(m, form, better, st, c) ==
    /\ form \in Forms /\ better \in BOOLEAN /\ st \in States /\ c \in Converts
    /\ form.body = m.parsed.body /\ form.type = m.parsed.type
    /\ Reached(form)
    /\ ~better => better = m.parsed_is_better /\ Same(form, m.parsed) /\ st \notin Delivering
    /\ c \in {m.convert, config.type}
    /\ c \notin {"UNSUPPORTED_CONTENT", orig.text.type} =>
          \/ LeftCells
          \/ /\ form.to # "imsi"
             /\ st \notin {"REQUEST_FROM_ADDRESS_LOOKUP", "REQUEST_DESTINATION_IMSI"}
    /\ ~forgot => IF m.need_repack THEN st \in Delivering => Suits(form, c)
                  ELSE Suits(form, form.type)

LEMMA LookedUpOK ==
    ASSUME NEW m \in Message, MessageOK(m), config.type \in ContentTypes,
           NEW form, NEW better, NEW st, NEW c, MayBe(m, form, better, st, c)
    PROVE  /\ LookedUp(m, form, better, st, c) \in Message
           /\ MessageOK(LookedUp(m, form, better, st, c))
           /\ LookedUp(m, form, better, st, c).parsed = form
<1> DEFINE n == LookedUp(m, form, better, st, c)
<1>1. /\ n \in Message /\ n.state = st /\ n.convert = c
      /\ n.parsed = form /\ n.text = m.text /\ n.parsed_is_better = better
      /\ n.content_type = m.content_type /\ n.tl_message = m.tl_message
      /\ n.ms_to_sc = m.ms_to_sc /\ n.need_repack = m.need_repack
    BY DEF LookedUp, MayBe, Message
<1> HIDE DEF n
<1>2. GetText(n) = GetText(m)
    BY <1>1 DEF GetText, MayBe
<1>3. Changes(m) => Changes(n) \/ c = "UNSUPPORTED_CONTENT"
    BY <1>1 DEF Changes, MessageOK, MayBe
<1>4. c = "UNSUPPORTED_CONTENT" => ~Changes(m)
    BY DEF Changes, ContentTypes, MessageOK, MayBe
<1>5. ~better => Same(n.text, n.parsed)
    BY <1>1 DEF MessageOK, Same, MayBe
<1>6. Says(n.parsed, n.ms_to_sc, n.need_repack)
    BY <1>1 DEF MessageOK, Says, MayBe
<1>7. MessageOK(n)
    BY <1>1, <1>2, <1>3, <1>4, <1>5, <1>6 DEF MessageOK, Changes, MayBe
<1> QED
    BY <1>1, <1>7 DEF n

--------------------------------------------------------------------------------
(* The handlers *)

LEMMA LookupFromAddressOK ==
    ASSUME MessageInv, Queued, LookupFromAddress
    PROVE  MessageInv'
<1>1. sm \in Message /\ MessageOK(sm) /\ config.type \in ContentTypes
    BY DEF MessageInv, ShortMsgTypeOK, Queued
<1>2. sm.state = "REQUEST_FROM_ADDRESS_LOOKUP" /\ sm.parsed \in Forms
    BY <1>1 DEF LookupFromAddress, Message
<1>0. PICK changed \in BOOLEAN : changed = TRUE
    OBVIOUS
<1> DEFINE form == [sm.parsed EXCEPT !.via = TRUE]
           numbered == [sm.parsed EXCEPT !.via = TRUE, !.from = "local"]
           st == "REQUEST_DESTINATION_IMSI"
           m == [sm EXCEPT !.parsed.via = TRUE, !.state = st]
           n == Changed(m, [m.parsed EXCEPT !.from = "local"])
<1>3. /\ m = LookedUp(sm, form, sm.parsed_is_better, st, sm.convert)
      /\ n = LookedUp(sm, numbered, changed, st, sm.convert)
    BY <1>0, <1>1, <1>2 DEF Message, Forms, Changed, LookedUp
<1>4. Becomes(m) \/ Becomes(n)
    BY DEF LookupFromAddress
<1>5. /\ form \in Forms /\ Same(form, sm.parsed)
      /\ numbered \in Forms /\ Same(numbered, sm.parsed)
    BY <1>2 DEF Forms, Same
<1>6. /\ Reached(form) /\ Reached(numbered)
      /\ Suits(sm.parsed, sm.parsed.type) => /\ Suits(form, form.type)
                                             /\ Suits(numbered, numbered.type)
    BY <1>1, <1>5 DEF MessageOK, Reached, Suits, Same
<1> HIDE DEF form, numbered, m, n
<1>7. Changes(sm) => LeftCells
    BY <1>1, <1>2 DEF MessageOK
<1>8. sm.parsed_is_better \in BOOLEAN /\ sm.convert \in Converts /\ st \in States \ Delivering
    BY <1>1 DEF Message, States, Delivering
<1>9. ~forgot /\ ~sm.need_repack => Suits(sm.parsed, sm.parsed.type)
    BY <1>1 DEF MessageOK
<1> HIDE DEF st
<1>10. /\ MayBe(sm, form, sm.parsed_is_better, st, sm.convert)
       /\ MayBe(sm, numbered, changed, st, sm.convert)
    BY <1>0, <1>5, <1>6, <1>7, <1>8, <1>9 DEF MayBe, Same, Changes
<1>11. m \in Message /\ MessageOK(m) /\ m.parsed = form
    BY <1>1, <1>3, <1>10, LookedUpOK
<1>12. n \in Message /\ MessageOK(n) /\ n.parsed = numbered
    BY <1>1, <1>3, <1>10, LookedUpOK
<1> QED
    BY <1>4, <1>5, <1>11, <1>12, BecomesOK DEF Same

LEMMA LookupUriImsiOK ==
    ASSUME MessageInv, Queued, LookupUriImsi
    PROVE  MessageInv'
<1>1. sm \in Message /\ MessageOK(sm) /\ config.type \in ContentTypes
    BY DEF MessageInv, ShortMsgTypeOK, Queued
<1>2. sm.state = "REQUEST_DESTINATION_IMSI" /\ sm.parsed \in Forms /\ Parse(sm) = sm
    BY <1>1, ParseAgain DEF LookupUriImsi, Message
<1>3. Changes(sm) => LeftCells
    BY <1>1, <1>2 DEF MessageOK
<1>4. ~forgot /\ ~sm.need_repack => Suits(sm.parsed, sm.parsed.type)
    BY <1>1 DEF MessageOK
<1>0. PICK changed \in BOOLEAN : changed = TRUE
    OBVIOUS
<1> DEFINE st == "REQUEST_DESTINATION_SIPURL"
           found == [sm EXCEPT !.state = st]
           form == [sm.parsed EXCEPT !.to = "imsi"]
           n == Changed(found, [sm.parsed EXCEPT !.to = "imsi"])
<1>5. st \in States \ Delivering /\ sm.convert \in Converts /\ config.type \in Converts
    BY <1>1 DEF States, Delivering, Message, Converts
<1>6. CASE Becomes(found)
    <2>1. found \in Message /\ MessageOK(found) /\ found.parsed = sm.parsed
        BY <1>1, <1>5, StateOK
    <2> QED
        BY <1>6, <2>1, BecomesOK
<1>7. CASE Becomes(n)
    <2>1. n = LookedUp(sm, form, changed, st, sm.convert)
        BY <1>0, <1>1 DEF Changed, Message, LookedUp
    <2>2. /\ form \in Forms /\ form.to = "imsi" /\ Reached(form)
          /\ form.body = sm.parsed.body /\ form.type = sm.parsed.type
          /\ form.call = sm.parsed.call /\ form.host = sm.parsed.host
        BY <1>2 DEF Forms, Reached
    <2>3. Suits(sm.parsed, sm.parsed.type) => Suits(form, form.type)
        BY <2>2 DEF Suits
    <2> HIDE DEF form, n, st
    <2>4. MayBe(sm, form, changed, st, sm.convert)
        BY <1>0, <1>3, <1>4, <1>5, <2>2, <2>3 DEF MayBe, Changes
    <2>5. n \in Message /\ MessageOK(n) /\ n.parsed = form
        BY <1>1, <2>1, <2>4, LookedUpOK
    <2> QED
        BY <1>7, <2>2, <2>5, BecomesOK
<1>8. CASE ToRelay(sm) /\ sm.parsed.to # "imsi"
    <2> DEFINE global == [sm.parsed EXCEPT !.from = "global"]
               r == [sm EXCEPT !.convert = config.type, !.state = st]
               g == [r EXCEPT !.parsed.from = "global"]
    <2>1. /\ r = LookedUp(sm, sm.parsed, sm.parsed_is_better, st, config.type)
          /\ g = LookedUp(sm, global, sm.parsed_is_better, st, config.type)
        BY <1>1, <1>2 DEF Message, Forms, LookedUp
    <2>2. Becomes(r) \/ Becomes(g)
        BY <1>8 DEF ToRelay
    <2>3. global \in Forms /\ Same(global, sm.parsed) /\ Same(sm.parsed, sm.parsed)
        BY <1>2 DEF Forms, Same
    <2>4. /\ Reached(sm.parsed) /\ Reached(global)
          /\ Suits(sm.parsed, sm.parsed.type) => Suits(global, global.type)
        BY <1>1, <2>3 DEF MessageOK, Reached, Suits, Same
    <2>5. sm.parsed_is_better \in BOOLEAN /\ st \notin {"REQUEST_FROM_ADDRESS_LOOKUP", "REQUEST_DESTINATION_IMSI"}
        BY <1>1 DEF Message
    <2> HIDE DEF global, r, g, st
    <2>6. /\ MayBe(sm, sm.parsed, sm.parsed_is_better, st, config.type)
          /\ MayBe(sm, global, sm.parsed_is_better, st, config.type)
        BY <1>2, <1>4, <1>5, <1>8, <2>3, <2>4, <2>5 DEF MayBe, Same
    <2>7. /\ r \in Message /\ MessageOK(r) /\ r.parsed = sm.parsed
          /\ g \in Message /\ MessageOK(g) /\ g.parsed = global
        BY <1>1, <2>1, <2>6, LookedUpOK
    <2> QED
        BY <2>2, <2>3, <2>7, BecomesOK DEF Same
<1>9. CASE Bounce(sm)
    BY <1>1, <1>3, <1>9, BounceOK
<1> QED
    BY <1>2, <1>6, <1>7, <1>8, <1>9 DEF LookupUriImsi

LEMMA LookupUriHostportOK ==
    ASSUME MessageInv, Queued, LookupUriHostport
    PROVE  MessageInv'
<1>0. PICK changed \in BOOLEAN : changed = TRUE
    OBVIOUS
<1>1. /\ sm \in Message /\ MessageOK(sm) /\ config.type \in ContentTypes
      /\ calls \in Nat /\ starts \in Nat \ {0} /\ calls + starts < MaxRounds
      /\ calls' = calls + 1
      /\ UNCHANGED <<file, config, starts, up, out, asked, orig, bounced, forgot>>
    BY DEF MessageInv, ShortMsgTypeOK, Queued, LookupUriHostport
<1>2. sm.state = "REQUEST_DESTINATION_SIPURL" /\ sm.parsed \in Forms /\ Parse(sm) = sm
    BY <1>1, ParseAgain DEF LookupUriHostport, Message
<1>3. calls + 1 \in 0..MaxRounds
    BY <1>1, ShortMsgAssumption
<1> DEFINE st == "REQUEST_MSG_DELIVERY"
           m == [sm EXCEPT !.state = st]
           relay == IF config.relay THEN "relay" ELSE "nowhere"
           host == IF sm.parsed.to = "imsi" THEN "cell" ELSE relay
           form == Placed(sm, host)
           c == IF sm.parsed.to = "imsi" THEN sm.convert ELSE config.type
           n == LookedUp(sm, form, changed, st, c)
<1>4. /\ form \in Forms /\ form.host = host /\ form.call = calls + 1
      /\ form.to = sm.parsed.to /\ form.body = sm.parsed.body /\ form.type = sm.parsed.type
    BY <1>1, <1>2, <1>3 DEF Forms, Placed
<1>5. host # "relay" \/ form.to # "imsi"
    BY <1>4
<1>6. host = "cell" <=> form.to = "imsi"
    BY <1>4
<1>7. sm' = n
    <2>1. CASE sm.parsed.to = "imsi"
        BY <1>0, <1>1, <1>2, <2>1 DEF LookupUriHostport, LookedUp, Changed, Placed, Message
    <2>2. CASE sm.parsed.to # "imsi"
        BY <1>0, <1>1, <1>2, <2>2 DEF LookupUriHostport, LookedUp, Changed, Placed, Message
    <2> QED
        BY <2>1, <2>2
<1>8. /\ c \in Converts /\ c \in {sm.convert, config.type}
      /\ form.to = "imsi" => c = sm.convert
      /\ form.to # "imsi" => c = config.type
      /\ st \in States
      /\ st \notin {"REQUEST_FROM_ADDRESS_LOOKUP", "REQUEST_DESTINATION_IMSI"}
    BY <1>1, <1>4 DEF Message, Converts, States
<1> HIDE DEF st, host, form, c, n
<1>9. c \notin {"UNSUPPORTED_CONTENT", orig.text.type} => LeftCells \/ form.to # "imsi"
    BY <1>1, <1>4, <1>8 DEF MessageOK, Changes
<1>10. ~forgot => IF sm.need_repack THEN Suits(form, c) ELSE Suits(form, form.type)
    <2>1. ~forgot /\ ~sm.need_repack => Suits(sm.parsed, sm.parsed.type)
        BY <1>1 DEF MessageOK
    <2> QED
        BY <1>4, <1>5, <1>8, <2>1 DEF Suits
<1>11. MayBe(sm, form, changed, st, c)
    BY <1>0, <1>4, <1>6, <1>8, <1>9, <1>10 DEF MayBe, Reached
<1>12. n \in Message /\ MessageOK(n) /\ n.parsed = form
    BY <1>1, <1>11, LookedUpOK DEF n
<1>13. ShortMsgTypeOK'
    BY <1>1, <1>7, <1>12, ShortMsgAssumption DEF MessageInv, ShortMsgTypeOK
<1>14. MessageOK(sm)'
    BY <1>1, <1>7, <1>12, MessageKept DEF LeftCells
<1>15. (file # NoMsg => RecordOK(file))'
    BY <1>1 DEF MessageInv, RecordOK, Says, Readable, Reached, Suits
<1>16. CallsOK'
    <2>1. Calls' \subseteq Calls \cup {[call |-> form.call, host |-> form.host]}
        BY <1>1, <1>7, <1>12 DEF Calls, Queued
    <2>2. \A a \in Calls : a.call <= calls /\ a.call \in Nat
        <3>1. \A a \in asked : a.call \in Nat
            BY DEF MessageInv, ShortMsgTypeOK
        <3>2. sm.parsed.call \in Nat /\ (file # NoMsg => file.text.call \in Nat)
            BY <1>2 DEF MessageInv, ShortMsgTypeOK, Records, Forms
        <3> QED
            BY <3>1, <3>2 DEF MessageInv, CallsOK, Calls
    <2>3. \A a \in Calls' : (a \in Calls \/ a = [call |-> calls + 1, host |-> form.host])
        BY <2>1, <1>4
    <2>4. \A a, b \in Calls : a.call = b.call => a.host = b.host
        BY DEF MessageInv, CallsOK
    <2> QED
        BY <1>1, <2>2, <2>3, <2>4 DEF CallsOK
<1>17. (CameSo /\ TextArrives /\ RelayGetsItsType /\ BounceQuotesText)'
    BY <1>1 DEF MessageInv, CameSo, TextArrives, RelayGetsItsType, BounceQuotesText, Readable
<1> QED
    BY <1>13, <1>14, <1>15, <1>16, <1>17 DEF MessageInv

\* What is sent is packed, and it is the tree.
LEMMA SendOK ==
    ASSUME MessageInv, Queued, NEW m \in Message, MessageOK(m), Send(m), ~m.need_repack,
           m.state \in Delivering,
           m.parsed.call = sm.parsed.call, m.parsed.host = sm.parsed.host
    PROVE  MessageInv' /\ (out' # out => out' = sm'.parsed)
<1> DEFINE v == MadeValid(m)
           st == "ASKED_FOR_MSG_DELIVERY"
           n == [v EXCEPT !.state = st]
           a == [call |-> v.text.call, host |-> v.parsed.host]
<1>1. /\ sm' = n
      /\ \/ out' = v.text /\ asked' = asked \cup {a}
         \/ out' = out /\ asked' = asked
      /\ UNCHANGED <<file, config, starts, up, calls, orig, bounced, forgot>>
    BY DEF Send
<1>2. /\ v \in Message /\ MessageOK(v) /\ v.text = m.parsed /\ v.parsed = m.parsed
      /\ v.text = v.parsed /\ ~v.need_repack
    BY MadeValidOK
<1>4. a = [call |-> sm.parsed.call, host |-> sm.parsed.host] /\ m.parsed \in Forms
    BY <1>2 DEF Message
<1> HIDE DEF v
<1>0. st \in States /\ st \notin {"REQUEST_FROM_ADDRESS_LOOKUP", "REQUEST_DESTINATION_IMSI"}
    BY DEF States
<1>3. n \in Message /\ MessageOK(n) /\ n.parsed = m.parsed
    <2> HIDE DEF st
    <2> QED
        BY <1>0, <1>2, StateOK
<1> HIDE DEF n, a
<1>5. LeftCells => LeftCells'
    BY <1>1 DEF LeftCells
<1>6. ShortMsgTypeOK'
    <2>1. a \in [call : 0..MaxRounds, host : HostNames]
        BY <1>4 DEF MessageInv, ShortMsgTypeOK, Queued, Message, Forms, HostNames
    <2>2. out' \in Forms \cup {NoForm} /\ asked' \in SUBSET [call : 0..MaxRounds, host : HostNames]
        BY <1>1, <1>2, <1>4, <2>1 DEF MessageInv, ShortMsgTypeOK
    <2> QED
        BY <1>1, <1>3, <2>2 DEF MessageInv, ShortMsgTypeOK
<1>7. MessageOK(sm)'
    BY <1>1, <1>3, <1>5, MessageKept
<1>8. (file # NoMsg => RecordOK(file))'
    BY <1>1 DEF MessageInv, RecordOK, Says, Readable, Reached, Suits
<1>9. Calls' \subseteq Calls
    BY <1>1, <1>3, <1>4 DEF Calls, Queued
<1>10. CallsOK'
    BY <1>1, <1>9, CallsKept DEF MessageInv
<1>11. /\ m.parsed.body.kind # "SUBMIT"
       /\ Readable(orig) => m.parsed.body.text = Text
       /\ ~forgot /\ m.parsed.host = "relay" => m.parsed.type = config.type
    BY DEF MessageOK, Says, Suits
<1>12. (CameSo /\ TextArrives /\ RelayGetsItsType)'
    BY <1>1, <1>2, <1>11 DEF MessageInv, CameSo, TextArrives, RelayGetsItsType, Readable
<1>13. BounceQuotesText'
    BY <1>1 DEF MessageInv, BounceQuotesText, Readable
<1> QED
    BY <1>1, <1>2, <1>3, <1>6, <1>7, <1>8, <1>10, <1>12, <1>13 DEF MessageInv

LEMMA DeliverMsgOK ==
    ASSUME MessageInv, Queued, DeliverMsg
    PROVE  MessageInv' /\ (out' # out => out' = sm'.parsed)
<1>1. sm \in Message /\ MessageOK(sm) /\ config.type \in ContentTypes /\ CameSo
    BY DEF MessageInv, ShortMsgTypeOK, Queued
<1>2. sm.state \in Delivering /\ Parse(sm) = sm
    BY <1>1, ParseAgain DEF DeliverMsg, Delivering
<1>3. CASE ~CanPack(sm)
    <2> DEFINE n == [sm EXCEPT !.state = "NO_STATE"]
    <2>1. Becomes(n)
        BY <1>2, <1>3 DEF DeliverMsg
    <2>2. n \in Message /\ MessageOK(n) /\ n.parsed = sm.parsed
        BY <1>1, StateOK DEF States, Delivering
    <2>3. MessageInv'
        BY <2>1, <2>2, BecomesOK
    <2> QED
        BY <2>1, <2>3 DEF Becomes
<1>4. CASE CanPack(sm)
    <2> DEFINE m == Packed(sm)
    <2>1. /\ m \in Message /\ MessageOK(m) /\ ~m.need_repack
          /\ m.state \in Delivering
          /\ m.parsed.call = sm.parsed.call /\ m.parsed.host = sm.parsed.host
        BY <1>1, <1>2, <1>4, PackedOK DEF SameRoute
    <2>2. \/ Becomes([m EXCEPT !.state = "DELETE_ME_STATE"])
          \/ Becomes([m EXCEPT !.state = "REQUEST_MSG_DELIVERY"])
          \/ Send(m)
        BY <1>2, <1>4 DEF DeliverMsg
    <2> HIDE DEF m
    <2>3. ASSUME NEW st \in {"DELETE_ME_STATE", "REQUEST_MSG_DELIVERY"},
                 Becomes([m EXCEPT !.state = st])
          PROVE  MessageInv' /\ out' = out
        <3> DEFINE n == [m EXCEPT !.state = st]
        <3>1. m.parsed_is_better \/ m.text = m.parsed
            BY <2>1 DEF MessageOK
        <3>2. /\ st \in States
              /\ st \notin {"REQUEST_FROM_ADDRESS_LOOKUP", "REQUEST_DESTINATION_IMSI"}
            BY <2>3 DEF States
        <3>4. n \in Message /\ MessageOK(n) /\ n.parsed = m.parsed
            BY <2>1, <3>1, <3>2, StateOK
        <3> HIDE DEF n
        <3>3. Becomes(n)
            BY <2>3 DEF n
        <3>5. MessageInv'
            BY <2>1, <3>3, <3>4, BecomesOK
        <3> QED
            BY <3>3, <3>5 DEF Becomes
    <2> QED
        BY <2>1, <2>2, <2>3, SendOK
<1> QED
    BY <1>3, <1>4

LEMMA NoAnswerOK ==
    ASSUME MessageInv, Queued, NoAnswer
    PROVE  MessageInv'
<1> DEFINE n == [sm EXCEPT !.state = "AWAITING_TRY_MSG_DELIVERY"]
<1>1. sm \in Message /\ MessageOK(sm) /\ sm.state \in Delivering /\ Becomes(n)
    BY DEF MessageInv, ShortMsgTypeOK, Queued, NoAnswer, Delivering
<1>2. /\ sm.parsed_is_better \/ sm.text = sm.parsed
      /\ ~forgot /\ sm.need_repack => Suits(sm.parsed, sm.convert)
    BY <1>1 DEF MessageOK
<1>3. n \in Message /\ MessageOK(n) /\ n.parsed = sm.parsed
    BY <1>1, <1>2, StateOK DEF States
<1> QED
    BY <1>1, <1>3, BecomesOK

\* The answer is to what was sent, under this Call-ID, to this place.
LEMMA AnsweredOK ==
    ASSUME MessageInv, Queued, Answered
    PROVE  MessageInv'
<1>1. sm \in Message /\ MessageOK(sm)
    BY DEF MessageInv, ShortMsgTypeOK, Queued
<1>2. PICK a \in asked : a.call = sm.parsed.call
    BY DEF Answered
<1>3. a.host = sm.parsed.host
    <2> DEFINE b == [call |-> sm.parsed.call, host |-> sm.parsed.host]
    <2>1. a \in Calls /\ b \in Calls
        BY DEF Calls
    <2>2. a.call = b.call => a.host = b.host
        BY <2>1 DEF MessageInv, CallsOK
    <2> QED
        BY <1>2, <2>2
<1>4. Changes(sm) => LeftCells
    BY <1>1, <1>3 DEF MessageOK, LeftCells, Reached
<1>5. CASE Becomes(NoMsg)
    BY <1>5, LeavesOK
<1>6. CASE Becomes([sm EXCEPT !.state = "REQUEST_DESTINATION_IMSI"])
    <2> DEFINE n == [sm EXCEPT !.state = "REQUEST_DESTINATION_IMSI"]
    <2>1. n \in Message /\ MessageOK(n) /\ n.parsed = sm.parsed
        BY <1>1, <1>4, StateOK DEF States, Delivering
    <2> QED
        BY <1>6, <2>1, BecomesOK
<1>7. CASE Bounce(sm)
    BY <1>1, <1>4, <1>7, BounceOK
<1> QED
    BY <1>5, <1>6, <1>7 DEF Answered

--------------------------------------------------------------------------------
(* The save file *)

LEMMA DumpOK ==
    ASSUME MessageInv, Queued, Becomes(MadeValid(sm))
    PROVE  MessageInv'
<1>1. sm \in Message /\ MessageOK(sm)
    BY DEF MessageInv, ShortMsgTypeOK, Queued
<1> QED
    BY <1>1, MadeValidOK, BecomesOK

LEMMA SaveOK ==
    ASSUME MessageInv, Save
    PROVE  MessageInv'
<1>1. UNCHANGED <<config, starts, up, calls, out, asked, orig, bounced, forgot>>
    BY DEF Save
<1>2. (CameSo /\ TextArrives /\ RelayGetsItsType /\ BounceQuotesText)'
    BY <1>1 DEF MessageInv, CameSo, TextArrives, RelayGetsItsType, BounceQuotesText, Readable
<1>3. CASE Queued
    <2> DEFINE v == MadeValid(sm)
               r == Record(v)
    <2>1. sm' = v /\ file' = r /\ sm \in Message /\ MessageOK(sm)
        BY <1>3 DEF MessageInv, ShortMsgTypeOK, Queued, Save
    <2>2. /\ v \in Message /\ MessageOK(v) /\ Same(v.text, sm.parsed) /\ v.parsed = sm.parsed
        BY <2>1, MadeValidOK
    <2> HIDE DEF v
    <2>3. /\ r \in Records /\ r.text = v.text /\ r.ms_to_sc = v.ms_to_sc
          /\ r.need_repack = v.need_repack
        BY <2>2 DEF Record, Records, Message
    <2> HIDE DEF r
    <2>4. RecordOK(r)
        BY <2>2, <2>3 DEF MessageOK, RecordOK, Same, Says, Reached, Suits
    <2>5. ShortMsgTypeOK'
        BY <1>1, <2>1, <2>2, <2>3 DEF MessageInv, ShortMsgTypeOK
    <2>6. MessageOK(sm)'
        BY <1>1, <2>1, <2>2, MessageKept DEF LeftCells
    <2>7. RecordOK(file)'
        BY <1>1, <2>1, <2>3, <2>4, RecordKept
    <2>8. Calls' \subseteq Calls
        BY <1>1, <1>3, <2>1, <2>2, <2>3 DEF Calls, Queued, Same
    <2>9. CallsOK'
        BY <1>1, <2>8, CallsKept DEF MessageInv
    <2> QED
        BY <1>2, <2>5, <2>6, <2>7, <2>9 DEF MessageInv
<1>4. CASE ~Queued
    <2>1. sm' = sm /\ file' = NoMsg /\ sm = NoMsg
        BY <1>4 DEF Queued, Save
    <2>2. ShortMsgTypeOK'
        BY <1>1, <2>1 DEF MessageInv, ShortMsgTypeOK
    <2>3. Calls' \subseteq Calls
        BY <1>1, <2>1 DEF Calls, Queued
    <2>4. CallsOK'
        BY <1>1, <2>3, CallsKept DEF MessageInv
    <2> QED
        BY <1>2, <2>1, <2>2, <2>4 DEF MessageInv, Queued
<1> QED
    BY <1>3, <1>4

LEMMA CrashOK ==
    ASSUME MessageInv, Crash
    PROVE  MessageInv'
<1>1. /\ sm' = NoMsg /\ up' = FALSE
      /\ UNCHANGED <<file, config, starts, calls, out, asked, orig, bounced, forgot>>
    BY DEF Crash
<1>2. (CameSo /\ TextArrives /\ RelayGetsItsType /\ BounceQuotesText)'
    BY <1>1 DEF MessageInv, CameSo, TextArrives, RelayGetsItsType, BounceQuotesText, Readable
<1>3. ShortMsgTypeOK'
    BY <1>1 DEF MessageInv, ShortMsgTypeOK
<1>4. (file # NoMsg => RecordOK(file))'
    BY <1>1 DEF MessageInv, RecordOK, Says, Readable, Reached, Suits
<1>5. Calls' \subseteq Calls
    BY <1>1 DEF Calls, Queued
<1>6. CallsOK'
    BY <1>1, <1>5, CallsKept DEF MessageInv
<1> QED
    BY <1>1, <1>2, <1>3, <1>4, <1>6 DEF MessageInv, Queued

\* What a record restores: a DELIVER does not parse, so what was packed is a text.
LEMMA RestoredType ==
    ASSUME NEW r \in Records
    PROVE  /\ Restored(r) \in Message
           /\ Restored(r).text = r.text /\ Restored(r).parsed = r.text
           /\ ~Restored(r).parsed_is_better
           /\ Restored(r).state = r.state
           /\ Restored(r).content_type = r.text.type
           /\ Restored(r).tl_message = Decoded(r.text)
           /\ Restored(r).convert = "UNSUPPORTED_CONTENT"
           /\ Restored(r).ms_to_sc = r.ms_to_sc
           /\ Restored(r).need_repack = r.need_repack
<1> DEFINE m == Restored(r)
<1>1. m = [state |-> r.state, text |-> r.text, parsed |-> r.text, parsed_is_valid |-> TRUE,
           parsed_is_better |-> FALSE, content_type |-> r.text.type,
           convert |-> "UNSUPPORTED_CONTENT", tl_message |-> Decoded(r.text),
           ms_to_sc |-> r.ms_to_sc, need_repack |-> r.need_repack]
    BY DEF Restored, NewMsg, Parse
<1>2. Decoded(r.text) \in TPDUs \cup {NoTPDU}
    <2>1. r.text.body \in Bodies
        BY DEF Records, Forms
    <2>2. r.text.body.kind = "SUBMIT" => r.text.body \in TPDUs
        BY <2>1 DEF Bodies, TPDUs
    <2> QED
        BY <2>2 DEF Decoded
<1>3. r.text \in Forms /\ r.text.type \in ContentTypes
    BY DEF Records, Forms
<1> QED
    BY <1>1, <1>2, <1>3 DEF Message, Records, Converts

LEMMA RestoredText ==
    ASSUME NEW r \in Records, RecordOK(r), Parses(r.text), ~r.need_repack, Readable(orig)
    PROVE  GetText(Restored(r)) = Text
<1> DEFINE m == Restored(r)
<1>1. m.content_type = r.text.type /\ m.parsed = r.text
    BY RestoredType
<1>2. r.text.body.kind \in {"plain", "SUBMIT", "DELIVER", "norp"}
    BY DEF Records, Forms, Bodies, TPDUs
<1>3. r.text.body.kind = "plain" /\ r.text.type = "TEXT_PLAIN" /\ r.text.body.text = Text
    BY <1>2 DEF RecordOK, Says, Parses
<1> HIDE DEF m
<1> QED
    BY <1>1, <1>3 DEF GetText, m

LEMMA StartOK ==
    ASSUME MessageInv, Start
    PROVE  MessageInv'
<1>1. /\ UNCHANGED <<file, config, calls, out, asked, orig, bounced>>
      /\ up' = TRUE /\ starts' = starts + 1 /\ calls + starts < MaxRounds
      /\ forgot' = (forgot \/ (file # NoMsg /\ file.state \notin Unplaced /\ file.need_repack))
    BY DEF Start
<1>2. (CameSo /\ TextArrives /\ RelayGetsItsType /\ BounceQuotesText)'
    BY <1>1 DEF MessageInv, CameSo, TextArrives, RelayGetsItsType, BounceQuotesText, Readable
<1>3. (file # NoMsg => RecordOK(file))'
    BY <1>1 DEF MessageInv, RecordOK, Says, Readable, Reached, Suits
<1>4. forgot' \in BOOLEAN /\ starts' \in Nat \ {0} /\ calls + starts' <= MaxRounds
    BY <1>1, ShortMsgAssumption DEF MessageInv, ShortMsgTypeOK
<1>5. CASE file # NoMsg /\ Parses(file.text)
    <2> DEFINE m == Restored(file)
    <2>1. sm' = m /\ file \in Records /\ RecordOK(file)
        BY <1>5 DEF Start, MessageInv, ShortMsgTypeOK
    <2>2. /\ m \in Message
          /\ m.text = file.text /\ m.parsed = file.text /\ ~m.parsed_is_better
          /\ m.state = file.state /\ m.content_type = file.text.type
          /\ m.tl_message = Decoded(file.text) /\ m.convert = "UNSUPPORTED_CONTENT"
          /\ m.ms_to_sc = file.ms_to_sc /\ m.need_repack = file.need_repack
        BY <2>1, RestoredType
    <2>3. ~m.need_repack /\ Readable(orig) => GetText(m) = Text
        BY <1>5, <2>1, <2>2, RestoredText
    <2> HIDE DEF m
    <2>4. ShortMsgTypeOK'
        BY <1>1, <1>4, <2>1, <2>2 DEF MessageInv, ShortMsgTypeOK
    <2>5. file.need_repack => Decoded(file.text) = Decoded(orig.text)
        BY <2>1 DEF RecordOK, Says, Decoded
    <2>6. ~forgot' /\ file.need_repack => m.state \notin Delivering
        BY <1>1, <1>5, <2>2 DEF Unplaced, Delivering
    <2>7. (Says(sm.parsed, sm.ms_to_sc, sm.need_repack))'
        BY <1>1, <2>1, <2>2 DEF RecordOK, Says, Readable
    <2>8. (sm.need_repack => sm.content_type = orig.text.type /\ sm.tl_message = Decoded(orig.text))'
        BY <1>1, <2>1, <2>2, <2>5 DEF RecordOK, Says, Decoded
    <2>9. (Same(sm.text, sm.parsed) /\ sm.text = sm.parsed /\ Reached(sm.parsed) /\ ~Changes(sm))'
        BY <2>1, <2>2 DEF RecordOK, Same, Reached, Changes
    <2>10. (~sm.need_repack /\ Readable(orig) => GetText(sm) = Text)'
        BY <1>1, <2>1, <2>3 DEF Readable, GetText
    <2>11. (~forgot /\ ~sm.need_repack => Suits(sm.parsed, sm.parsed.type))'
        BY <1>1, <2>1, <2>2 DEF RecordOK, Suits
    <2>12. (~forgot /\ sm.need_repack => sm.state \notin Delivering)'
        BY <2>1, <2>2, <2>6
    <2>13. MessageOK(sm)'
        BY <2>1, <2>2, <2>7, <2>8, <2>9, <2>10, <2>11, <2>12 DEF MessageOK
    <2>14. Calls' \subseteq Calls
        BY <1>1, <1>5, <2>1, <2>2 DEF Calls, Queued
    <2>15. CallsOK'
        BY <1>1, <2>14, CallsKept DEF MessageInv
    <2> QED
        BY <1>2, <1>3, <2>4, <2>13, <2>15 DEF MessageInv
<1>6. CASE ~(file # NoMsg /\ Parses(file.text))
    <2>1. sm' = NoMsg
        BY <1>6 DEF Start
    <2>2. ShortMsgTypeOK'
        BY <1>1, <1>4, <2>1 DEF MessageInv, ShortMsgTypeOK
    <2>3. Calls' \subseteq Calls
        BY <1>1, <2>1 DEF Calls, Queued
    <2>4. CallsOK'
        BY <1>1, <2>3, CallsKept DEF MessageInv
    <2> QED
        BY <1>2, <1>3, <2>1, <2>2, <2>4 DEF MessageInv, Queued
<1> QED
    BY <1>5, <1>6

--------------------------------------------------------------------------------
(* The theorems *)

LEMMA MessageInit ==
    ASSUME ShortMsgInit
    PROVE  MessageInv
<1>1. PICK form \in Came, toward \in BOOLEAN, st \in Unplaced :
            /\ form.body.kind = "SUBMIT" => toward
            /\ file = [state |-> st, text |-> form, ms_to_sc |-> toward, need_repack |-> TRUE]
    BY DEF ShortMsgInit
<1>2. /\ orig = file /\ sm = Restored(file) /\ starts = 1 /\ up = TRUE /\ calls = 0
      /\ out = NoForm /\ asked = {} /\ bounced = NoForm /\ forgot = FALSE
    BY DEF ShortMsgInit
<1>3. /\ form \in Forms /\ form.host = "here" /\ form.call = 0
      /\ form.body.kind \in {"plain", "SUBMIT", "norp"}
      /\ form.type = "TEXT_PLAIN" <=> form.body.kind = "plain"
      /\ form.body.kind # "norp" => form.body.text = Text
    <2>1. PICK k \in {"plain", "SUBMIT", "norp"}, f \in {"imsi", "local"}, t \in {"number", "imsi"} :
              form = [type |-> IF k = "plain" THEN "TEXT_PLAIN" ELSE "VND_3GPP_SMS",
                      body |-> [kind |-> k, text |-> IF k = "norp" THEN Empty ELSE Text],
                      via |-> FALSE, from |-> f, to |-> t, host |-> "here", call |-> 0]
        BY DEF Came
    <2>2. [kind |-> k, text |-> IF k = "norp" THEN Empty ELSE Text] \in Bodies
        BY DEF Bodies, TPDUs
    <2>3. 0 \in 0..MaxRounds
        BY ShortMsgAssumption
    <2> QED
        BY <2>1, <2>2, <2>3 DEF Forms, ContentTypes
<1>4. file \in Records /\ file.text = form /\ file.ms_to_sc = toward /\ file.need_repack
      /\ file.state = st
    BY <1>1, <1>3 DEF Records, Unplaced, States
<1>5. /\ sm \in Message
      /\ sm.text = form /\ sm.parsed = form /\ ~sm.parsed_is_better
      /\ sm.state = st /\ sm.content_type = form.type
      /\ sm.tl_message = Decoded(form) /\ sm.convert = "UNSUPPORTED_CONTENT"
      /\ sm.ms_to_sc = toward /\ sm.need_repack
    BY <1>2, <1>4, RestoredType
<1>6. config \in [relay : BOOLEAN, type : ContentTypes]
    BY DEF ShortMsgInit, ContentTypes
<1>7. ShortMsgTypeOK
    <2>1. calls \in Nat /\ starts \in Nat \ {0} /\ calls + starts <= MaxRounds
        BY <1>2, ShortMsgAssumption
    <2> QED
        BY <1>2, <1>4, <1>5, <1>6, <2>1 DEF ShortMsgTypeOK
<1>8. CameSo
    BY <1>1, <1>2, <1>3, <1>4 DEF CameSo, Readable
<1>9. st \notin Delivering
    BY DEF Unplaced, Delivering
<1>10. MessageOK(sm)
    BY <1>2, <1>3, <1>4, <1>5, <1>9 DEF MessageOK, Says, Same, Reached, Changes
<1>11. RecordOK(file)
    BY <1>2, <1>3, <1>4 DEF RecordOK, Says, Reached
<1>12. CallsOK
    BY <1>2, <1>3, <1>4, <1>5 DEF CallsOK, Calls
<1>13. TextArrives /\ RelayGetsItsType /\ BounceQuotesText
    BY <1>2 DEF TextArrives, RelayGetsItsType, BounceQuotesText
<1> QED
    BY <1>7, <1>8, <1>10, <1>11, <1>12, <1>13 DEF MessageInv

\* Only deliver_msg_datagram changes what was sent last, and it sends the tree.
LEMMA MessageStep ==
    ASSUME MessageInv, [ShortMsgNext]_msgVars
    PROVE  MessageInv' /\ (out' # out => out' = sm'.parsed)
<1>1. ASSUME Serve /\ ~Queued PROVE FALSE
    <2>1. sm.state = "none"
        BY <1>1 DEF Queued, NoMsg
    <2> QED
        BY <1>1, <2>1 DEF Serve, LookupFromAddress, LookupUriImsi, LookupUriHostport, DeliverMsg,
            NoAnswer, Deleted, Answered
<1>2. CASE LookupFromAddress
    BY <1>1, <1>2, LookupFromAddressOK DEF Serve, LookupFromAddress, Becomes
<1>3. CASE LookupUriImsi
    BY <1>1, <1>3, LookupUriImsiOK DEF Serve, LookupUriImsi, ToRelay, Bounce, Becomes
<1>4. CASE LookupUriHostport
    BY <1>1, <1>4, LookupUriHostportOK DEF Serve, LookupUriHostport
<1>5. CASE DeliverMsg
    BY <1>1, <1>5, DeliverMsgOK DEF Serve
<1>6. CASE NoAnswer
    BY <1>1, <1>6, NoAnswerOK DEF Serve, NoAnswer, Becomes
<1>7. CASE Deleted
    BY <1>7, LeavesOK DEF Deleted, Becomes
<1>8. CASE Answered
    BY <1>1, <1>8, AnsweredOK DEF Serve, Answered, Bounce, Becomes
<1>9. CASE Save
    BY <1>9, SaveOK DEF Save
<1>10. CASE Dump
    BY <1>10, DumpOK DEF Dump, Becomes
<1>11. CASE Crash
    BY <1>11, CrashOK DEF Crash
<1>12. CASE Start
    BY <1>12, StartOK DEF Start
<1>13. CASE UNCHANGED msgVars
    <2>1. CASE Queued
        <3>1. sm \in Message /\ MessageOK(sm) /\ Becomes(sm)
            BY <1>13, <2>1 DEF MessageInv, ShortMsgTypeOK, Queued, Becomes, msgVars
        <3> QED
            BY <2>1, <3>1, BecomesOK DEF Becomes
    <2>2. CASE ~Queued
        BY <1>13, <2>2, LeavesOK DEF Queued, Becomes, msgVars
    <2> QED
        BY <2>1, <2>2
<1> QED
    BY <1>2, <1>3, <1>4, <1>5, <1>6, <1>7, <1>8, <1>9, <1>10, <1>11, <1>12, <1>13
        DEF ShortMsgNext, Serve

THEOREM MessageCorrect == ShortMsgSpec => []MessageInv
<1>1. ShortMsgInit => MessageInv
    BY MessageInit
<1>2. MessageInv /\ [ShortMsgNext]_msgVars => MessageInv'
    BY MessageStep
<1> QED
    BY <1>1, <1>2, PTL DEF ShortMsgSpec

\* A message arrives with its text, and no SUBMIT is sent to a handset or the relay, through
\* any number of lookups, conversions, retries, saves and restarts.
THEOREM TextsArrive == ShortMsgSpec => []TextArrives
<1>1. MessageInv => TextArrives
    BY DEF MessageInv
<1> QED
    BY <1>1, MessageCorrect, PTL

\* The relay gets the type configured for it, as long as no start forgot the conversion.
THEOREM RelayTypes == ShortMsgSpec => []RelayGetsItsType
<1>1. MessageInv => RelayGetsItsType
    BY DEF MessageInv
<1> QED
    BY <1>1, MessageCorrect, PTL

\* A bounce quotes the text of the message, but for one that was sent where another type is
\* taken.
THEOREM BouncesQuote == ShortMsgSpec => []BounceQuotesText
<1>1. MessageInv => BounceQuotesText
    BY DEF MessageInv
<1> QED
    BY <1>1, MessageCorrect, PTL

\* What is sent is never an earlier rendering than the tree the handlers made.
THEOREM LatestIsSent == ShortMsgSpec => SentIsLatest
<1>1. MessageInv /\ [ShortMsgNext]_msgVars => [out' # out => out' = sm'.parsed]_msgVars
    BY MessageStep
<1> QED
    BY <1>1, MessageCorrect, PTL DEF ShortMsgSpec, SentIsLatest

--------------------------------------------------------------------------------
(* The checks and the tag (SmqValidation) *)

\* A set of numbers that is not empty has a least.
LEMMA LowestNumber ==
  ASSUME NEW T, T \subseteq Nat, T # {}
  PROVE  \E n \in T : \A y \in T : n <= y
<1>1. PICK x \in T : \A y \in T : <<y, x>> \notin OpToRel(<, Nat)
  BY WFMin, NatLessThanWellFounded, Zenon
<1>2. \A y \in T : y \in Nat /\ x \in Nat /\ ~ (y < x)
  BY <1>1, Zenon DEF OpToRel
<1>3. \A y \in T : x <= y
  BY <1>2
<1>. QED  BY <1>3



\* Sequences of checks, each a condition and a code that is not 0.
IsChecks(checks) ==
    /\ \E S : checks \in Seq(S)
    /\ \A k \in DOMAIN checks : checks[k][2] # 0
Met(checks) == \A k \in DOMAIN checks : checks[k][1]

LEMMA VerdictMet ==
  ASSUME NEW checks, IsChecks(checks)
  PROVE  Verdict(checks) = 0 <=> Met(checks)
<1>. DEFINE failed == {k \in DOMAIN checks : ~checks[k][1]}
<1>1. DOMAIN checks \subseteq Nat
  BY LenProperties DEF IsChecks
<1>2. CASE failed = {}
  BY <1>2 DEF Verdict, Met
<1>3. CASE failed # {}
  <2>. DEFINE first == CHOOSE k \in failed : \A l \in failed : k <= l
  <2>1. \E k \in failed : \A l \in failed : k <= l
    <3>. HIDE DEF failed
    <3>1. failed \subseteq Nat
      BY <1>1 DEF failed
    <3>. QED  BY <1>3, <3>1, LowestNumber
  <2>2. first \in failed
    BY <2>1
  <2>3. first \in DOMAIN checks /\ ~checks[first][1]
    BY <2>2
  <2>4. Verdict(checks) = checks[first][2]
    BY <1>3 DEF Verdict
  <2>. HIDE DEF first
  <2>. QED  BY <2>3, <2>4 DEF Met, IsChecks
<1>. QED  BY <1>2, <1>3

LEMMA MetConcat ==
  ASSUME NEW a, NEW b, IsChecks(a), IsChecks(b)
  PROVE  IsChecks(a \o b) /\ (Met(a \o b) <=> Met(a) /\ Met(b))
<1>. PICK S : a \in Seq(S)
  BY DEF IsChecks
<1>. PICK T : b \in Seq(T)
  BY DEF IsChecks
<1>0. a \in Seq(S \cup T) /\ b \in Seq(S \cup T)
  OBVIOUS
<1>1. /\ Len(a) \in Nat /\ Len(b) \in Nat
      /\ DOMAIN a = 1..Len(a) /\ DOMAIN b = 1..Len(b)
      /\ DOMAIN (a \o b) = 1..(Len(a) + Len(b))
      /\ \A k \in 1..(Len(a) + Len(b)) :
             (a \o b)[k] = IF k <= Len(a) THEN a[k] ELSE b[k - Len(a)]
  BY <1>0, ConcatProperties, LenProperties
<1>2. ASSUME Met(a), Met(b) PROVE Met(a \o b)
  <2>. SUFFICES ASSUME NEW k \in 1..(Len(a) + Len(b)) PROVE (a \o b)[k][1]
    BY <1>1 DEF Met
  <2>1. CASE k <= Len(a)
    BY <1>1, <1>2, <2>1 DEF Met
  <2>2. CASE ~ (k <= Len(a))
    <3>1. k - Len(a) \in DOMAIN b
      BY <1>1, <2>2
    <3>. QED  BY <1>1, <1>2, <2>2, <3>1 DEF Met
  <2>. QED  BY <2>1, <2>2
<1>3. ASSUME Met(a \o b) PROVE Met(a)
  <2>1. \A k \in 1..Len(a) : k \in 1..(Len(a) + Len(b)) /\ (a \o b)[k] = a[k]
    BY <1>1
  <2>. QED  BY <1>1, <1>3, <2>1 DEF Met
<1>4. ASSUME Met(a \o b) PROVE Met(b)
  <2>. SUFFICES ASSUME NEW k \in 1..Len(b) PROVE b[k][1]
    BY <1>1 DEF Met
  <2>1. k + Len(a) \in 1..(Len(a) + Len(b)) /\ ~ (k + Len(a) <= Len(a))
        /\ (k + Len(a)) - Len(a) = k
    BY <1>1
  <2>2. (a \o b)[k + Len(a)] = b[k]
    BY <1>1, <2>1
  <2>. QED  BY <1>1, <1>4, <2>1, <2>2 DEF Met
<1>5. \A k \in DOMAIN (a \o b) : (a \o b)[k][2] # 0
  <2>. SUFFICES ASSUME NEW k \in 1..(Len(a) + Len(b)) PROVE (a \o b)[k][2] # 0
    BY <1>1
  <2>1. CASE k <= Len(a)
    BY <1>1, <2>1 DEF IsChecks
  <2>2. CASE ~ (k <= Len(a))
    <3>1. k - Len(a) \in DOMAIN b
      BY <1>1, <2>2
    <3>. QED  BY <1>1, <2>2, <3>1 DEF IsChecks
  <2>. QED  BY <2>1, <2>2
<1>6. IsChecks(a \o b)
  <2>1. a \o b \in Seq(S \cup T)
    BY <1>0, ConcatProperties
  <2>. QED  BY <1>5, <2>1 DEF IsChecks
<1>. QED  BY <1>2, <1>3, <1>4, <1>6

LEMMA MetOne ==
  ASSUME NEW c, c = <<c[1]>>, c[1][2] # 0
  PROVE  IsChecks(c) /\ (Met(c) <=> c[1][1])
<1>1. DOMAIN c = {1}
  OBVIOUS
<1>2. \A S : c[1] \in S => <<c[1]>> \in Seq(S)
  OBVIOUS
<1>3. \E S : <<c[1]>> \in Seq(S)
  <2>. DEFINE S == {c[1]}
  <2>1. c[1] \in S
    OBVIOUS
  <2>. HIDE DEF S
  <2>. QED  BY <1>2, <2>1
<1>. QED  BY <1>1, <1>3 DEF Met, IsChecks

LEMMA MetTwo ==
  ASSUME NEW c, c = <<c[1], c[2]>>, c[1][2] # 0 /\ c[2][2] # 0
  PROVE  IsChecks(c) /\ (Met(c) <=> c[1][1] /\ c[2][1])
<1>1. DOMAIN c = {1, 2}
  OBVIOUS
<1>2. \A S : c[1] \in S /\ c[2] \in S => <<c[1], c[2]>> \in Seq(S)
  OBVIOUS
<1>3. \E S : <<c[1], c[2]>> \in Seq(S)
  <2>. DEFINE S == {c[1], c[2]}
  <2>1. c[1] \in S /\ c[2] \in S
    OBVIOUS
  <2>. HIDE DEF S
  <2>. QED  BY <1>2, <2>1
<1>. QED  BY <1>1, <1>3 DEF Met, IsChecks

LEMMA MetThree ==
  ASSUME NEW c, c = <<c[1], c[2], c[3]>>, c[1][2] # 0 /\ c[2][2] # 0 /\ c[3][2] # 0
  PROVE  IsChecks(c) /\ (Met(c) <=> c[1][1] /\ c[2][1] /\ c[3][1])
<1>1. DOMAIN c = {1, 2, 3}
  OBVIOUS
<1>2. \A S : c[1] \in S /\ c[2] \in S /\ c[3] \in S => <<c[1], c[2], c[3]>> \in Seq(S)
  OBVIOUS
<1>3. \E S : <<c[1], c[2], c[3]>> \in Seq(S)
  <2>. DEFINE S == {c[1], c[2], c[3]}
  <2>1. c[1] \in S /\ c[2] \in S /\ c[3] \in S
    OBVIOUS
  <2>. HIDE DEF S
  <2>. QED  BY <1>2, <2>1
<1>. QED  BY <1>1, <1>3 DEF Met, IsChecks

LEMMA MetFour ==
  ASSUME NEW c, c = <<c[1], c[2], c[3], c[4]>>, c[1][2] # 0 /\ c[2][2] # 0 /\ c[3][2] # 0 /\ c[4][2] # 0
  PROVE  IsChecks(c) /\ (Met(c) <=> c[1][1] /\ c[2][1] /\ c[3][1] /\ c[4][1])
<1>1. DOMAIN c = {1, 2, 3, 4}
  OBVIOUS
<1>2. \A S : c[1] \in S /\ c[2] \in S /\ c[3] \in S /\ c[4] \in S => <<c[1], c[2], c[3], c[4]>> \in Seq(S)
  OBVIOUS
<1>3. \E S : <<c[1], c[2], c[3], c[4]>> \in Seq(S)
  <2>. DEFINE S == {c[1], c[2], c[3], c[4]}
  <2>1. c[1] \in S /\ c[2] \in S /\ c[3] \in S /\ c[4] \in S
    OBVIOUS
  <2>. HIDE DEF S
  <2>. QED  BY <1>2, <2>1
<1>. QED  BY <1>1, <1>3 DEF Met, IsChecks


--------------------------------------------------------------------------------
(* The messages and their names *)

\* What the checks come to that do not look at the TPDU, and what all of them come to.
Formed(t) ==
    /\ t.parses /\ t.version = "2.0"
    /\ IF t.kind = "response"
       THEN t.reason /\ t.length \in {"none", "zero"} /\ t.bodies = 0
       ELSE /\ t.scheme = "sip" /\ t.host # "none"
            /\ \/ /\ t.method = "MESSAGE" /\ t.cseq = "MESSAGE"
                  /\ t.user # "none" /\ t.type \in {"TEXT_PLAIN", "VND_3GPP_SMS"}
                  /\ t.length = "positive" => t.bodies = 1
               \/ t.method = "REGISTER" /\ t.cseq = "REGISTER"
    /\ t.call # 0 /\ t.from \notin {"none", "nourl"} /\ t.mime \in {"none", "1.0"}
    /\ t.to = "sip" /\ t.cseq # "none"
NoDeliver(t) == t.type = "VND_3GPP_SMS" => t.tpdu # "DELIVER"
ShortMsgMet(t) == Formed(t) /\ NoDeliver(t)

Item ==
    [id : Nat, tree : Tree, qtag : Nat \X Nat, linktag : {<< >>} \cup (Nat \X Nat),
     linked : Nat, own : BOOLEAN, valid : BOOLEAN, ms_to_sc : BOOLEAN, need_repack : BOOLEAN,
     convert : {"none", "TEXT_PLAIN", "VND_3GPP_SMS"}]

\* A message of the queue, when there have been n messages: it is under the tag of its
\* headers, and one that smqueue made, or that was in order when it came, would pass the
\* checks if it were saved and read now, but perhaps for its TPDU once it is packed.
Sound(m, n) ==
    /\ m \in Item
    /\ m.id \in 1..n /\ m.linked \in 0..n
    /\ m.qtag = Qtag(m.tree)
    /\ m.own \/ m.valid => Formed(Rendered(m.tree)) /\ (m.need_repack => NoDeliver(m.tree))

\* The number of a message names it for good: the messages of the queue differ in it, all
\* that goes by one number, in the queue or as an answer, has one tag, and a link is to the
\* tag of the message with that number, whatever is left of it.
ValidationInv ==
    /\ ids \in Nat /\ callIds \in Nat /\ register_call_id \in Nat /\ register_call_seq \in Nat
    /\ refused = {}
    /\ \A m \in queued : Sound(m, ids)
    /\ \A a \in answers : a.id \in 1..ids /\ a.tree \in Tree
    /\ \A m, n \in queued : m.id = n.id => m = n
    /\ \A m, n \in queued \cup answers : m.id = n.id => Qtag(m.tree) = Qtag(n.tree)
    /\ \A r \in queued, m \in queued \cup answers : r.linked = m.id => r.linktag = Qtag(m.tree)
LEMMA ShortMsgVerdict ==
  ASSUME NEW t \in Tree
  PROVE  ValidateShortMsg(t) = 0 <=> ShortMsgMet(t)
<1>. DEFINE first == << <<IsTaken(t), 400>>, <<t.version = "2.0", 400>> >>
<1>. DEFINE none == << <<FALSE, 405>> >>
<1>1. IsChecks(first) /\ (Met(first) <=> IsTaken(t) /\ t.version = "2.0")
  <2>1. first = <<first[1], first[2]>>
    OBVIOUS
  <2>2. first[1][2] # 0 /\ first[2][2] # 0
    OBVIOUS
  <2>3. /\ first[1][1] <=> IsTaken(t)
        /\ first[2][1] <=> t.version = "2.0"
    OBVIOUS
  <2>. HIDE DEF first
  <2>. QED  BY <2>1, <2>2, <2>3, MetTwo
<1>2. /\ IsChecks(AckChecks(t))
      /\ Met(AckChecks(t)) <=> t.reason /\ t.length \in {"none", "zero"} /\ t.bodies = 0
  <2>1. AckChecks(t) = <<AckChecks(t)[1], AckChecks(t)[2], AckChecks(t)[3]>>
    BY DEF AckChecks
  <2>2. AckChecks(t)[1][2] # 0 /\ AckChecks(t)[2][2] # 0 /\ AckChecks(t)[3][2] # 0
    BY DEF AckChecks
  <2>3. /\ AckChecks(t)[1][1] <=> t.reason
        /\ AckChecks(t)[2][1] <=> t.length \in {"none", "zero"}
        /\ AckChecks(t)[3][1] <=> t.bodies = 0
    BY DEF AckChecks
  <2>. QED  BY <2>1, <2>2, <2>3, MetThree
<1>3. /\ IsChecks(UriChecks(t))
      /\ Met(UriChecks(t)) <=>
           t.scheme # "none" /\ t.scheme = "sip" /\ t.host # "none" /\ t.method # "none"
  <2>1. UriChecks(t) = <<UriChecks(t)[1], UriChecks(t)[2], UriChecks(t)[3], UriChecks(t)[4]>>
    BY DEF UriChecks
  <2>2. UriChecks(t)[1][2] # 0 /\ UriChecks(t)[2][2] # 0 /\ UriChecks(t)[3][2] # 0 /\ UriChecks(t)[4][2] # 0
    BY DEF UriChecks
  <2>3. /\ UriChecks(t)[1][1] <=> t.scheme # "none"
        /\ UriChecks(t)[2][1] <=> t.scheme = "sip"
        /\ UriChecks(t)[3][1] <=> t.host # "none"
        /\ UriChecks(t)[4][1] <=> t.method # "none"
    BY DEF UriChecks
  <2>. QED  BY <2>1, <2>2, <2>3, MetFour
<1>4. /\ IsChecks(MessageChecks(t))
      /\ Met(MessageChecks(t)) <=>
           /\ t.user # "none" /\ t.type \in {"TEXT_PLAIN", "VND_3GPP_SMS"}
           /\ t.length = "positive" => t.bodies = 1
           /\ t.cseq = "MESSAGE"
  <2>1. MessageChecks(t) = <<MessageChecks(t)[1], MessageChecks(t)[2], MessageChecks(t)[3], MessageChecks(t)[4]>>
    BY DEF MessageChecks
  <2>2. MessageChecks(t)[1][2] # 0 /\ MessageChecks(t)[2][2] # 0 /\ MessageChecks(t)[3][2] # 0 /\ MessageChecks(t)[4][2] # 0
    BY DEF MessageChecks
  <2>3. /\ MessageChecks(t)[1][1] <=> t.user # "none"
        /\ MessageChecks(t)[2][1] <=> t.type \in {"TEXT_PLAIN", "VND_3GPP_SMS"}
        /\ MessageChecks(t)[3][1] <=> (t.length = "positive" => t.bodies = 1)
        /\ MessageChecks(t)[4][1] <=> t.cseq = "MESSAGE"
    BY DEF MessageChecks
  <2>. QED  BY <2>1, <2>2, <2>3, MetFour
<1>5. IsChecks(RegisterChecks(t)) /\ (Met(RegisterChecks(t)) <=> t.cseq = "REGISTER")
  <2>1. RegisterChecks(t) = <<RegisterChecks(t)[1]>>
    BY DEF RegisterChecks
  <2>2. RegisterChecks(t)[1][2] # 0
    BY DEF RegisterChecks
  <2>3. /\ RegisterChecks(t)[1][1] <=> t.cseq = "REGISTER"
    BY DEF RegisterChecks
  <2>. QED  BY <2>1, <2>2, <2>3, MetOne
<1>6. IsChecks(none) /\ ~ Met(none)
  <2>1. none = <<none[1]>>
    OBVIOUS
  <2>2. none[1][2] # 0
    OBVIOUS
  <2>3. /\ none[1][1] <=> FALSE
    OBVIOUS
  <2>. HIDE DEF none
  <2>. QED  BY <2>1, <2>2, <2>3, MetOne
<1>7. /\ IsChecks(MethodChecks(t))
      /\ Met(MethodChecks(t)) <=>
           \/ t.method = "MESSAGE" /\ Met(MessageChecks(t))
           \/ t.method = "REGISTER" /\ Met(RegisterChecks(t))
  BY <1>4, <1>5, <1>6 DEF MethodChecks
<1>8. /\ IsChecks(KindChecks(t))
      /\ Met(KindChecks(t)) <=>
           IF t.kind = "response" THEN Met(AckChecks(t))
           ELSE Met(UriChecks(t)) /\ Met(MethodChecks(t))
  BY <1>2, <1>3, <1>7, MetConcat DEF KindChecks
<1>9. /\ IsChecks(HeaderChecks(t))
      /\ Met(HeaderChecks(t)) <=>
           /\ t.call # 0 /\ t.from \notin {"none", "nourl"} /\ t.mime \in {"none", "1.0"}
           /\ t.to = "sip"
  <2>1. HeaderChecks(t) = <<HeaderChecks(t)[1], HeaderChecks(t)[2], HeaderChecks(t)[3], HeaderChecks(t)[4]>>
    BY DEF HeaderChecks
  <2>2. HeaderChecks(t)[1][2] # 0 /\ HeaderChecks(t)[2][2] # 0 /\ HeaderChecks(t)[3][2] # 0 /\ HeaderChecks(t)[4][2] # 0
    BY DEF HeaderChecks
  <2>3. /\ HeaderChecks(t)[1][1] <=> t.call # 0
        /\ HeaderChecks(t)[2][1] <=> t.from \notin {"none", "nourl"}
        /\ HeaderChecks(t)[3][1] <=> t.mime \in {"none", "1.0"}
        /\ HeaderChecks(t)[4][1] <=> t.to = "sip"
    BY DEF HeaderChecks
  <2>. QED  BY <2>1, <2>2, <2>3, MetFour
<1>10. /\ IsChecks(QtagChecks(t))
       /\ Met(QtagChecks(t)) <=> t.from # "none" /\ t.call # 0 /\ t.cseq # "none"
  <2>1. QtagChecks(t) = <<QtagChecks(t)[1], QtagChecks(t)[2], QtagChecks(t)[3]>>
    BY DEF QtagChecks
  <2>2. QtagChecks(t)[1][2] # 0 /\ QtagChecks(t)[2][2] # 0 /\ QtagChecks(t)[3][2] # 0
    BY DEF QtagChecks
  <2>3. /\ QtagChecks(t)[1][1] <=> t.from # "none"
        /\ QtagChecks(t)[2][1] <=> t.call # 0
        /\ QtagChecks(t)[3][1] <=> t.cseq # "none"
    BY DEF QtagChecks
  <2>. QED  BY <2>1, <2>2, <2>3, MetThree
<1>11. /\ IsChecks(ShortMsgChecks(t))
       /\ Met(ShortMsgChecks(t)) <=>
            Met(first) /\ Met(KindChecks(t)) /\ Met(HeaderChecks(t)) /\ Met(QtagChecks(t))
  <2>. HIDE DEF first
  <2>1. ShortMsgChecks(t) = ((first \o KindChecks(t)) \o HeaderChecks(t)) \o QtagChecks(t)
    BY DEF ShortMsgChecks, first
  <2>2. /\ IsChecks(first \o KindChecks(t))
        /\ Met(first \o KindChecks(t)) <=> Met(first) /\ Met(KindChecks(t))
    BY <1>1, <1>8, MetConcat
  <2>3. /\ IsChecks((first \o KindChecks(t)) \o HeaderChecks(t))
        /\ Met((first \o KindChecks(t)) \o HeaderChecks(t)) <=>
             Met(first) /\ Met(KindChecks(t)) /\ Met(HeaderChecks(t))
    BY <1>9, <2>2, MetConcat
  <2>. QED  BY <1>10, <2>1, <2>3, MetConcat
<1>12. ValidateShortMsg(t) = 0 <=> Met(ShortMsgChecks(t))
  BY <1>11, VerdictMet DEF ValidateShortMsg
<1>. HIDE DEF first, none
<1>13. Met(ShortMsgChecks(t)) <=> ShortMsgMet(t)
  BY <1>1, <1>2, <1>3, <1>4, <1>5, <1>7, <1>8, <1>9, <1>10, <1>11
     DEF ShortMsgMet, Formed, NoDeliver, IsTaken
<1>. QED  BY <1>12, <1>13

--------------------------------------------------------------------------------
(* What the handlers do to the invariant *)

\* n is what a handler makes of m, and is under the same number and tag.
Follows(n, m) ==
    /\ n.id = m.id /\ Qtag(n.tree) = Qtag(m.tree)
    /\ n.linked = 0 \/ (n.linked = m.linked /\ n.linktag = m.linktag)

\* Answers that are under the number and the tag of a message.
Answering(a) ==
    /\ a.id \in 1..ids /\ a.tree \in Tree
    /\ \E m \in queued \cup answers : a.id = m.id /\ Qtag(a.tree) = Qtag(m.tree)

LEMMA OldAnswers ==
  ASSUME ValidationInv
  PROVE  \A a \in answers : Answering(a)
BY DEF ValidationInv, Answering

\* A step that makes messages of the messages of the queue, or takes some away, and may get
\* answers.
LEMMA FollowStep ==
  ASSUME ValidationInv, ids' = ids, refused' = refused, \A a \in answers' : Answering(a),
         callIds' \in Nat, register_call_id' \in Nat, register_call_seq' \in Nat,
         \A n \in queued' : Sound(n, ids) /\ \E m \in queued : Follows(n, m),
         \A m, n \in queued' : m.id = n.id => m = n
  PROVE  ValidationInv'
<1>1. \A m \in queued \cup answers : m.id # 0
  BY DEF ValidationInv, Sound
<1>2. \A n \in queued' \cup answers' : \E m \in queued \cup answers :
          n.id = m.id /\ Qtag(n.tree) = Qtag(m.tree)
  BY DEF Follows, Answering
<1>3. \A m, n \in queued' \cup answers' : m.id = n.id => Qtag(m.tree) = Qtag(n.tree)
  <2>. TAKE m, n \in queued' \cup answers'
  <2>. HAVE m.id = n.id
  <2>1. PICK k \in queued \cup answers : m.id = k.id /\ Qtag(m.tree) = Qtag(k.tree)
    BY <1>2
  <2>2. PICK l \in queued \cup answers : n.id = l.id /\ Qtag(n.tree) = Qtag(l.tree)
    BY <1>2
  <2>3. Qtag(k.tree) = Qtag(l.tree)
    BY <2>1, <2>2 DEF ValidationInv
  <2>. QED  BY <2>1, <2>2, <2>3
<1>4. \A r \in queued', m \in queued' \cup answers' : r.linked = m.id => r.linktag = Qtag(m.tree)
  <2>. TAKE r \in queued', m \in queued' \cup answers'
  <2>. HAVE r.linked = m.id
  <2>1. PICK k \in queued \cup answers : m.id = k.id /\ Qtag(m.tree) = Qtag(k.tree)
    BY <1>2
  <2>2. PICK s \in queued : Follows(r, s)
    OBVIOUS
  <2>3. r.linked = s.linked /\ r.linktag = s.linktag
    BY <1>1, <2>1, <2>2 DEF Follows
  <2>4. s.linktag = Qtag(k.tree)
    BY <2>1, <2>3 DEF ValidationInv
  <2>. QED  BY <2>1, <2>3, <2>4
<1>5. \A a \in answers' : a.id \in 1..ids' /\ a.tree \in Tree
  BY DEF Answering
<1>. QED  BY <1>3, <1>4, <1>5 DEF ValidationInv

\* A step that lets a message in, or refuses one that came.
LEMMA EnterStep ==
  ASSUME ValidationInv, ids' = ids + 1, refused' = refused, answers' = answers,
         callIds' \in Nat, register_call_id' \in Nat, register_call_seq' \in Nat,
         NEW e, Sound(e, ids + 1), e.id = ids + 1, e.linked \in 0..ids,
         \A m \in queued \cup answers : e.linked = m.id => e.linktag = Qtag(m.tree),
         queued' \in {queued, queued \cup {e}}
  PROVE  ValidationInv'
<1>1. \A m \in queued \cup answers : m.id \in 1..ids
  BY DEF ValidationInv, Sound
<1>2. ids \in Nat
  BY DEF ValidationInv
<1>3. \A m \in queued : m.linked \in 0..ids
  BY DEF ValidationInv, Sound
<1>4. \A m \in queued : Sound(m, ids + 1)
  BY <1>2 DEF ValidationInv, Sound
<1>5. \A m, n \in queued' : m.id = n.id => m = n
  BY <1>1, <1>2 DEF ValidationInv
<1>6. \A m, n \in queued' \cup answers' : m.id = n.id => Qtag(m.tree) = Qtag(n.tree)
  BY <1>1, <1>2 DEF ValidationInv
<1>7. \A r \in queued', m \in queued' \cup answers' : r.linked = m.id => r.linktag = Qtag(m.tree)
  BY <1>1, <1>2, <1>3 DEF ValidationInv
<1>8. \A a \in answers' : a.id \in 1..(ids + 1) /\ a.tree \in Tree
  BY <1>2 DEF ValidationInv
<1>. QED  BY <1>4, <1>5, <1>6, <1>7, <1>8 DEF ValidationInv

\* What Rendered gives, and that rendering twice is no more than once.
LEMMA RenderedTree ==
  ASSUME NEW t \in Tree
  PROVE  /\ Rendered(t) \in Tree
         /\ Qtag(Rendered(t)) = Qtag(t) /\ Qtag(t) \in Nat \X Nat
         /\ Rendered(Rendered(t)) = Rendered(t)
<1>1. Rendered(t) \in Tree
  <2>. DEFINE l == IF t.bodies = 0 THEN "zero" ELSE "positive"
  <2>1. l \in {"none", "zero", "positive"}
    OBVIOUS
  <2>. HIDE DEF l
  <2>2. [t EXCEPT !.version = "2.0", !.length = l] =
            [f \in DOMAIN t |-> IF f = "version" THEN "2.0" ELSE IF f = "length" THEN l ELSE t[f]]
    BY DEF Tree
  <2>3. [t EXCEPT !.version = "2.0", !.length = l] \in Tree
    BY <2>1, <2>2 DEF Tree
  <2>. QED  BY <2>3 DEF Rendered, l
<1>2. Qtag(Rendered(t)) = Qtag(t) /\ Qtag(t) \in Nat \X Nat
  BY DEF Tree, Rendered, Qtag
<1>3. Rendered(Rendered(t)) = Rendered(t)
  <2>. DEFINE n == Rendered(t)
  <2>1. /\ n.version = "2.0" /\ n.bodies = t.bodies
        /\ n.length = IF t.bodies = 0 THEN "zero" ELSE "positive"
    BY DEF Tree, Rendered
  <2>2. n \in Tree
    BY <1>1
  <2>. HIDE DEF n
  <2>3. [n EXCEPT !.version = n.version, !.length = n.length] = n
    BY <2>2 DEF Tree
  <2>4. Rendered(n) = [n EXCEPT !.version = n.version, !.length = n.length]
    BY <2>1 DEF Rendered
  <2>. QED  BY <2>3, <2>4 DEF n
<1>. QED  BY <1>1, <1>2, <1>3

LEMMA RenderedFields ==
  ASSUME NEW t \in Tree
  PROVE  /\ Rendered(t).parses = t.parses /\ Rendered(t).kind = t.kind
         /\ Rendered(t).bodies = t.bodies /\ Rendered(t).scheme = t.scheme
         /\ Rendered(t).host = t.host /\ Rendered(t).method = t.method
         /\ Rendered(t).cseq = t.cseq /\ Rendered(t).user = t.user /\ Rendered(t).type = t.type
         /\ Rendered(t).call = t.call /\ Rendered(t).from = t.from
         /\ Rendered(t).mime = t.mime /\ Rendered(t).to = t.to /\ Rendered(t).tpdu = t.tpdu
         /\ Rendered(t).reason = t.reason /\ Rendered(t).version = "2.0"
         /\ Rendered(t).length = IF t.bodies = 0 THEN "zero" ELSE "positive"
BY DEF Tree, Rendered

\* What comes in order is so too when it is rendered: it has one body.
LEMMA ArrivalRendered ==
  ASSUME NEW t \in Arrivals, t.kind = "request", Formed(t)
  PROVE  Formed(Rendered(t))
<1>1. t \in Tree /\ (t.type \in {"TEXT_PLAIN", "VND_3GPP_SMS"} => t.bodies <= 1)
  BY ValidationAssumption
<1>2. t.bodies \in Nat
  BY <1>1 DEF Tree
<1>3. t.type \in {"TEXT_PLAIN", "VND_3GPP_SMS"} /\ Rendered(t).length = "positive" => t.bodies = 1
  BY <1>1, <1>2, RenderedFields
<1>. QED  BY <1>1, <1>3, RenderedFields DEF Formed

LEMMA HalfTree ==
  ASSUME NEW method \in {"none", "MESSAGE", "REGISTER", "other"}, NEW number \in Nat, NEW call \in Nat
  PROVE  HalfMsg(method, number, call) \in Tree
BY DEF HalfMsg, Tree

\* What smqueue makes itself is in order: a text, with one body, and a REGISTER.
LEMMA OriginatedMet ==
  ASSUME NEW number \in Nat, NEW call \in Nat \ {0}, NEW user \in {"imsi", "number"}
  PROVE  OriginatedSm(number, call, user) \in Tree
         /\ ShortMsgMet(Rendered(OriginatedSm(number, call, user)))
<1>. DEFINE t == OriginatedSm(number, call, user)
<1>1. t \in Tree
  <2>. DEFINE h == HalfMsg("MESSAGE", number, call)
  <2>1. h \in Tree
    BY HalfTree
  <2>. HIDE DEF h
  <2>2. t = [f \in DOMAIN h |->
                CASE f = "from" -> "number" [] f = "fromtag" -> number [] f = "to" -> "sip"
                  [] f = "scheme" -> "sip" [] f = "host" -> "here" [] f = "user" -> user
                  [] f = "type" -> "TEXT_PLAIN" [] f = "bodies" -> 1 [] OTHER -> h[f]]
    BY <2>1 DEF OriginatedSm, h, Tree
  <2>. HIDE DEF t
  <2>. QED  BY <2>1, <2>2 DEF Tree
<1>2. /\ t.parses /\ t.kind = "request" /\ t.scheme = "sip" /\ t.host = "here"
      /\ t.method = "MESSAGE" /\ t.cseq = "MESSAGE" /\ t.user = user /\ t.type = "TEXT_PLAIN"
      /\ t.bodies = 1 /\ t.call = call /\ t.from = "number" /\ t.mime = "none" /\ t.to = "sip"
  BY DEF OriginatedSm, HalfMsg
<1>. HIDE DEF t
<1>3. ShortMsgMet(Rendered(t))
  BY <1>1, <1>2, RenderedFields DEF ShortMsgMet, Formed, NoDeliver
<1>. QED  BY <1>1, <1>3 DEF t

LEMMA RegisterMet ==
  ASSUME NEW number \in Nat, NEW call \in Nat \ {0}
  PROVE  RegisterMsg(number, call) \in Tree /\ ShortMsgMet(Rendered(RegisterMsg(number, call)))
<1>. DEFINE t == RegisterMsg(number, call)
<1>1. t \in Tree
  <2>. DEFINE h == HalfMsg("REGISTER", number, call)
  <2>1. h \in Tree
    BY HalfTree
  <2>. HIDE DEF h
  <2>2. t = [f \in DOMAIN h |->
                CASE f = "from" -> "imsi" [] f = "fromtag" -> number [] f = "to" -> "sip"
                  [] f = "scheme" -> "sip" [] f = "host" -> "registry" [] OTHER -> h[f]]
    BY <2>1 DEF RegisterMsg, h, Tree
  <2>. HIDE DEF t
  <2>. QED  BY <2>1, <2>2 DEF Tree
<1>2. /\ t.parses /\ t.kind = "request" /\ t.scheme = "sip" /\ t.host = "registry"
      /\ t.method = "REGISTER" /\ t.cseq = "REGISTER"
      /\ t.bodies = 0 /\ t.call = call /\ t.from = "imsi" /\ t.mime = "none" /\ t.to = "sip"
      /\ t.type = "none"
  BY DEF RegisterMsg, HalfMsg
<1>. HIDE DEF t
<1>3. ShortMsgMet(Rendered(t))
  BY <1>1, <1>2, RenderedFields DEF ShortMsgMet, Formed, NoDeliver
<1>. QED  BY <1>1, <1>3 DEF t

\* The message m with another tree, direction, need of packing and type to convert to.
Remade(m, t, toward, repack, to) ==
    [m EXCEPT !.tree = t, !.ms_to_sc = toward, !.need_repack = repack, !.convert = to]

LEMMA NewTree ==
  ASSUME NEW n, NEW m, Sound(m, n), NEW t \in Tree, Qtag(t) = Qtag(m.tree),
         NEW toward \in BOOLEAN, NEW repack \in BOOLEAN,
         NEW to \in {"none", "TEXT_PLAIN", "VND_3GPP_SMS"},
         Formed(Rendered(m.tree)) => Formed(Rendered(t)),
         repack => m.need_repack /\ (NoDeliver(m.tree) => NoDeliver(t))
  PROVE  /\ Sound(Remade(m, t, toward, repack, to), n)
         /\ Follows(Remade(m, t, toward, repack, to), m)
         /\ WithTag(Remade(m, t, toward, repack, to)) = Remade(m, t, toward, repack, to)
<1>. DEFINE k == Remade(m, t, toward, repack, to)
<1>0. m \in Item
  BY DEF Sound
<1>1. /\ k.tree = t /\ k.id = m.id /\ k.linked = m.linked /\ k.qtag = m.qtag
      /\ k.linktag = m.linktag /\ k.own = m.own /\ k.valid = m.valid /\ k.need_repack = repack
  BY <1>0 DEF Remade, Item
<1>2. k \in Item
  <2>1. k = [f \in DOMAIN m |->
                CASE f = "tree" -> t [] f = "ms_to_sc" -> toward [] f = "need_repack" -> repack
                  [] f = "convert" -> to [] OTHER -> m[f]]
    BY <1>0 DEF Remade, Item
  <2>. HIDE DEF k
  <2>. QED  BY <1>0, <2>1 DEF Item
<1>. HIDE DEF k
<1>3. WithTag(k) = k
  <2>1. k.qtag = Qtag(k.tree)
    BY <1>1 DEF Sound
  <2>2. [k EXCEPT !.qtag = k.qtag] = k
    BY <1>2 DEF Item
  <2>. QED  BY <2>1, <2>2 DEF WithTag
<1>4. Sound(k, n)
  BY <1>1, <1>2 DEF Sound
<1>5. Follows(k, m)
  BY <1>1 DEF Follows
<1>. QED  BY <1>3, <1>4, <1>5 DEF k

\* A handler puts n for m.
LEMMA ReplaceStep ==
  ASSUME ValidationInv, ids' = ids, refused' = refused, \A a \in answers' : Answering(a),
         callIds' \in Nat, register_call_id' \in Nat, register_call_seq' \in Nat,
         NEW m \in queued, NEW n, Sound(n, ids), Follows(n, m), Replace(m, n)
  PROVE  ValidationInv'
<1>1. \A k \in queued' : Sound(k, ids) /\ \E l \in queued : Follows(k, l)
  BY DEF Replace, ValidationInv, Follows
<1>2. \A k, l \in queued' : k.id = l.id => k = l
  BY DEF Replace, ValidationInv, Follows
<1>. QED  BY <1>1, <1>2, FollowStep

\* Messages go.
LEMMA LessStep ==
  ASSUME ValidationInv, ids' = ids, refused' = refused, answers' = answers,
         callIds' = callIds, register_call_id' = register_call_id,
         register_call_seq' = register_call_seq, queued' \subseteq queued
  PROVE  ValidationInv'
<1>1. \A n \in queued' : Sound(n, ids) /\ \E m \in queued : Follows(n, m)
  BY DEF ValidationInv, Follows
<1>2. \A m, n \in queued' : m.id = n.id => m = n
  BY DEF ValidationInv
<1>3. callIds' \in Nat /\ register_call_id' \in Nat /\ register_call_seq' \in Nat
  BY DEF ValidationInv
<1>. QED  BY <1>1, <1>2, <1>3, OldAnswers, FollowStep

\* What a new message is, that is in order if it is smqueue's own.
LEMMA EntryFields ==
  ASSUME NEW t \in Tree, NEW own \in BOOLEAN
  PROVE  /\ Entry(t, own).id = ids + 1 /\ Entry(t, own).tree = t /\ Entry(t, own).qtag = Qtag(t)
         /\ Entry(t, own).linktag = << >> /\ Entry(t, own).linked = 0
         /\ Entry(t, own).own = own /\ Entry(t, own).valid = (ValidateShortMsg(t) = 0)
         /\ Entry(t, own).need_repack = TRUE
BY DEF Entry

LEMMA EntryItem ==
  ASSUME ValidationInv, NEW t \in Tree, NEW own \in BOOLEAN
  PROVE  Entry(t, own) \in Item
<1>1. ids + 1 \in Nat /\ Qtag(t) \in Nat \X Nat /\ (ValidateShortMsg(t) = 0) \in BOOLEAN
      /\ (~ own) \in BOOLEAN
  BY RenderedTree DEF ValidationInv
<1>. QED  BY <1>1 DEF Entry, Item

LEMMA ArriveStep ==
  ASSUME ValidationInv, Arrive
  PROVE  ValidationInv'
<1>1. PICK t \in Arrivals :
          /\ t.kind = "request"
          /\ queued' \in {queued, queued \cup {Entry(t, FALSE)}}
  BY DEF Arrive
<1>2. t \in Tree
  BY ValidationAssumption
<1>. DEFINE e == Entry(t, FALSE)
<1>3. /\ e.id = ids + 1 /\ e.tree = t /\ e.qtag = Qtag(t) /\ e.linktag = << >>
      /\ e.linked = 0 /\ e.own = FALSE /\ e.valid = (ValidateShortMsg(t) = 0)
  BY <1>2, EntryFields
<1>4. e \in Item
  BY <1>2, EntryItem
<1>5. e.valid => Formed(Rendered(t)) /\ NoDeliver(t)
  BY <1>1, <1>2, <1>3, ShortMsgVerdict, ArrivalRendered DEF ShortMsgMet
<1>6. \A m \in queued \cup answers : m.id # 0
  BY DEF ValidationInv, Sound
<1>7. queued' \in {queued, queued \cup {e}}
  BY <1>1
<1>. HIDE DEF e
<1>8. Sound(e, ids + 1) /\ e.linked \in 0..ids
  BY <1>3, <1>4, <1>5 DEF Sound, ValidationInv
<1>9. /\ ids' = ids + 1 /\ refused' = refused /\ answers' = answers
      /\ callIds' \in Nat /\ register_call_id' \in Nat /\ register_call_seq' \in Nat
  BY DEF Arrive, ValidationInv
<1>. QED  BY <1>3, <1>6, <1>7, <1>8, <1>9, EnterStep

\* smqueue puts a message of its own into the queue, whose link, if it has one, is to a
\* message of the queue.
LEMMA AcceptStep ==
  ASSUME ValidationInv, ids' = ids + 1, answers' = answers,
         callIds' \in Nat, register_call_id' \in Nat, register_call_seq' \in Nat,
         NEW t \in Tree, ShortMsgMet(Rendered(t)),
         NEW linktag, NEW linked, Accept(t, linktag, linked),
         \/ linktag = << >> /\ linked = 0
         \/ \E m \in queued : linktag = m.qtag /\ linked = m.id
  PROVE  ValidationInv'
<1>. DEFINE e == [Entry(t, TRUE) EXCEPT !.tree = Reparsed(t), !.linktag = linktag,
                                        !.linked = linked, !.need_repack = t.method # "REGISTER"]
<1>1. /\ e.id = ids + 1 /\ e.tree = Rendered(t) /\ e.qtag = Qtag(t) /\ e.linktag = linktag
      /\ e.linked = linked /\ e.own = TRUE /\ e.valid = (ValidateShortMsg(t) = 0)
  BY DEF Entry, Reparsed
<1>2. \A m \in queued : m.id \in 1..ids /\ m.qtag = Qtag(m.tree) /\ m.qtag \in Nat \X Nat
  BY DEF ValidationInv, Sound, Item
<1>3. linked \in 0..ids /\ linktag \in {<< >>} \cup (Nat \X Nat)
  BY <1>2 DEF ValidationInv
<1>4. Rendered(t) \in Tree /\ Qtag(Rendered(t)) = Qtag(t) /\ Qtag(t) \in Nat \X Nat
      /\ Rendered(Rendered(t)) = Rendered(t)
  BY RenderedTree
<1>5. e \in Item
  <2>. DEFINE n == Entry(t, TRUE)
  <2>1. n \in Item
    BY EntryItem
  <2>2. linked \in Nat
    BY <1>3 DEF ValidationInv
  <2>3. e = [f \in DOMAIN n |->
                CASE f = "tree" -> Rendered(t) [] f = "linktag" -> linktag
                  [] f = "linked" -> linked [] f = "need_repack" -> t.method # "REGISTER"
                  [] OTHER -> n[f]]
    BY <2>1 DEF Reparsed, Item
  <2>. HIDE DEF n, e
  <2>. QED  BY <1>3, <1>4, <2>1, <2>2, <2>3 DEF Item
<1>6. queued' = queued \cup {e} /\ refused' = refused
  <2>1. ValidateShortMsg(e.tree) = 0
    BY <1>1, <1>4, ShortMsgVerdict
  <2>. QED  BY <2>1 DEF Accept
<1>. HIDE DEF e
<1>7. Sound(e, ids + 1)
  <2>1. Formed(Rendered(t)) /\ NoDeliver(Rendered(t))
    BY DEF ShortMsgMet
  <2>. QED  BY <1>1, <1>3, <1>4, <1>5, <2>1 DEF Sound, ValidationInv
<1>8. \A m \in queued \cup answers : e.linked = m.id => e.linktag = Qtag(m.tree)
  <2>1. \A m \in queued \cup answers : m.id # 0
    BY DEF ValidationInv, Sound
  <2>. QED  BY <1>1, <1>2, <2>1 DEF ValidationInv
<1>. QED  BY <1>1, <1>3, <1>6, <1>7, <1>8, EnterStep

LEMMA OriginateStep ==
  ASSUME ValidationInv, OriginateSm
  PROVE  ValidationInv'
<1>1. PICK number \in Randoms, user \in {"imsi", "number"} :
          Accept(OriginatedSm(number, callIds', user), << >>, 0)
  BY DEF OriginateSm
<1>2. number \in Nat /\ callIds' \in Nat \ {0}
  BY ValidationAssumption DEF OriginateSm, ValidationInv
<1>3. /\ ids' = ids + 1 /\ answers' = answers
      /\ callIds' \in Nat /\ register_call_id' \in Nat /\ register_call_seq' \in Nat
  BY <1>2 DEF OriginateSm, ValidationInv
<1>. DEFINE t == OriginatedSm(number, callIds', user)
<1>4. t \in Tree /\ ShortMsgMet(Rendered(t))
  BY <1>2, OriginatedMet
<1>. HIDE DEF t
<1>5. Accept(t, << >>, 0)
  BY <1>1 DEF t
<1>. QED  BY <1>3, <1>4, <1>5, AcceptStep

LEMMA RegisterStep ==
  ASSUME ValidationInv, RegisterHandset
  PROVE  ValidationInv'
<1>1. PICK m \in queued :
          Accept(RegisterMsg(register_call_seq', register_call_id'), m.qtag, m.id)
  BY DEF RegisterHandset
<1>2. /\ ids' = ids + 1 /\ answers' = answers
      /\ callIds' \in Nat /\ register_call_id' \in Nat \ {0} /\ register_call_seq' \in Nat
  BY DEF RegisterHandset, ValidationInv
<1>. DEFINE t == RegisterMsg(register_call_seq', register_call_id')
<1>3. t \in Tree /\ ShortMsgMet(Rendered(t))
  BY <1>2, RegisterMet
<1>4. Accept(t, m.qtag, m.id)
  BY <1>1
<1>. HIDE DEF t
<1>. QED  BY <1>2, <1>3, <1>4, AcceptStep

LEMMA HandlerStep ==
  ASSUME ValidationInv, NewFrom \/ NewUser \/ NewPlace
  PROVE  ValidationInv'
<1>1. /\ ids' = ids /\ refused' = refused /\ \A a \in answers' : Answering(a)
      /\ callIds' \in Nat /\ register_call_id' \in Nat /\ register_call_seq' \in Nat
  <2>1. callIds \in Nat /\ register_call_id \in Nat /\ register_call_seq \in Nat
    BY DEF ValidationInv
  <2>2. CASE NewFrom
    BY <2>1, <2>2, OldAnswers DEF NewFrom
  <2>3. CASE NewUser
    BY <2>1, <2>3, OldAnswers DEF NewUser
  <2>4. CASE NewPlace
    <3>1. /\ ids' = ids /\ refused' = refused /\ answers' = answers
          /\ callIds' = callIds + 1 /\ register_call_id' = register_call_id
          /\ register_call_seq' = register_call_seq
      BY <2>4, Zenon DEF NewPlace
    <3>. QED  BY <2>1, <3>1, OldAnswers
  <2>. QED  BY <2>2, <2>3, <2>4
<1>2. \A m \in queued : Sound(m, ids) /\ m.tree \in Tree /\ m \in Item
  BY DEF ValidationInv, Sound, Item
<1>k. \A m \in queued : /\ m.ms_to_sc \in BOOLEAN /\ m.need_repack \in BOOLEAN
                        /\ m.convert \in {"none", "TEXT_PLAIN", "VND_3GPP_SMS"}
  BY <1>2 DEF Item
<1>r. RelayContents \subseteq {"TEXT_PLAIN", "VND_3GPP_SMS"}
  BY ValidationAssumption
<1>3. CASE NewFrom
  <2>1. PICK m \in queued : /\ m.tree.from = "imsi"
                            /\ Replace(m, [m EXCEPT !.tree.from = "number"])
    BY <1>3 DEF NewFrom
  <2>. DEFINE t == [m.tree EXCEPT !.from = "number"]
  <2>2. t \in Tree /\ Qtag(t) = Qtag(m.tree) /\ (NoDeliver(m.tree) => NoDeliver(t))
    BY <1>2 DEF Tree, Qtag, NoDeliver
  <2>3. Formed(Rendered(m.tree)) => Formed(Rendered(t))
    <3>1. /\ t.parses = m.tree.parses /\ t.kind = m.tree.kind /\ t.bodies = m.tree.bodies
          /\ t.scheme = m.tree.scheme /\ t.host = m.tree.host /\ t.method = m.tree.method
          /\ t.cseq = m.tree.cseq /\ t.user = m.tree.user /\ t.type = m.tree.type
          /\ t.call = m.tree.call /\ t.mime = m.tree.mime /\ t.to = m.tree.to
          /\ t.reason = m.tree.reason /\ t.from = "number"
      BY <1>2 DEF Tree
    <3>. HIDE DEF t
    <3>. QED  BY <1>2, <2>2, <3>1, RenderedFields DEF Formed
  <2>. DEFINE n == Remade(m, t, m.ms_to_sc, m.need_repack, m.convert)
  <2>4. [m EXCEPT !.tree.from = "number"] = n
    BY <1>2 DEF Item, Remade
  <2>. HIDE DEF t
  <2>5. Sound(n, ids) /\ Follows(n, m)
    BY <1>2, <1>k, <2>2, <2>3, NewTree
  <2>6. Replace(m, n)
    BY <2>1, <2>4
  <2>. HIDE DEF n
  <2>. QED  BY <1>1, <2>5, <2>6, ReplaceStep
<1>4. CASE NewUser
  <2>u. PICK m \in queued : /\ m.tree.user = "number"
                            /\ \/ Replace(m, [m EXCEPT !.tree.user = "imsi"])
                               \/ \E type \in RelayContents : Replace(m, [m EXCEPT !.convert = type])
    BY <1>4 DEF NewUser
  <2>1. CASE Replace(m, [m EXCEPT !.tree.user = "imsi"])
    <3>. DEFINE t == [m.tree EXCEPT !.user = "imsi"]
    <3>2. t \in Tree /\ Qtag(t) = Qtag(m.tree) /\ (NoDeliver(m.tree) => NoDeliver(t))
      BY <1>2 DEF Tree, Qtag, NoDeliver
    <3>3. Formed(Rendered(m.tree)) => Formed(Rendered(t))
      <4>1. /\ t.parses = m.tree.parses /\ t.kind = m.tree.kind /\ t.bodies = m.tree.bodies
            /\ t.scheme = m.tree.scheme /\ t.host = m.tree.host /\ t.method = m.tree.method
            /\ t.cseq = m.tree.cseq /\ t.from = m.tree.from /\ t.type = m.tree.type
            /\ t.call = m.tree.call /\ t.mime = m.tree.mime /\ t.to = m.tree.to
            /\ t.reason = m.tree.reason /\ t.user = "imsi"
        BY <1>2 DEF Tree
      <4>. HIDE DEF t
      <4>. QED  BY <1>2, <3>2, <4>1, RenderedFields DEF Formed
    <3>. DEFINE n == Remade(m, t, m.ms_to_sc, m.need_repack, m.convert)
    <3>4. [m EXCEPT !.tree.user = "imsi"] = n
      BY <1>2 DEF Item, Remade
    <3>. HIDE DEF t
    <3>5. Sound(n, ids) /\ Follows(n, m)
      BY <1>2, <1>k, <3>2, <3>3, NewTree
    <3>6. Replace(m, n)
      BY <2>1, <3>4
    <3>. HIDE DEF n
    <3>. QED  BY <1>1, <3>5, <3>6, ReplaceStep
  <2>2. CASE \E type \in RelayContents : Replace(m, [m EXCEPT !.convert = type])
    <3>1. PICK type \in RelayContents : Replace(m, [m EXCEPT !.convert = type])
      BY <2>2
    <3>. DEFINE n == Remade(m, m.tree, m.ms_to_sc, m.need_repack, type)
    <3>2. [m EXCEPT !.convert = type] = n
      BY <1>2 DEF Item, Remade
    <3>3. Sound(n, ids) /\ Follows(n, m)
      BY <1>2, <1>k, <1>r, NewTree
    <3>4. Replace(m, n)
      BY <3>1, <3>2
    <3>. HIDE DEF n
    <3>. QED  BY <1>1, <3>3, <3>4, ReplaceStep
  <2>. QED  BY <2>u, <2>1, <2>2
<1>5. CASE NewPlace
  <2>1. PICK m \in queued :
            IF m.tree.user = "imsi"
            THEN Replace(m, WithTag([m EXCEPT !.tree.host = "cell", !.tree.call = callIds']))
            ELSE \E type \in RelayContents :
                    Replace(m, WithTag([m EXCEPT !.tree.host = "relay", !.tree.call = callIds',
                                                 !.convert = type]))
    BY <1>5, Zenon DEF NewPlace
  <2>3. callIds' \in Nat \ {0}
    <3>1. callIds' = callIds + 1
      BY <1>5, Zenon DEF NewPlace
    <3>. QED  BY <3>1 DEF ValidationInv
  <2>4. PICK call \in Nat \ {0} : call = callIds'
    BY <2>3
  <2>. DEFINE T(host) == [m.tree EXCEPT !.host = host, !.call = call]
  <2>p. ASSUME NEW host \in {"cell", "relay"}, NEW to \in {"none", "TEXT_PLAIN", "VND_3GPP_SMS"},
               Replace(m, WithTag(Remade(m, T(host), m.ms_to_sc, m.need_repack, to)))
        PROVE  ValidationInv'
    <3>. DEFINE t == T(host)
    <3>1. t \in Tree /\ Qtag(t) = Qtag(m.tree) /\ (NoDeliver(m.tree) => NoDeliver(t))
      <4>1. t = [f \in DOMAIN m.tree |->
                    IF f = "host" THEN host ELSE IF f = "call" THEN call ELSE m.tree[f]]
        BY <1>2 DEF Tree
      <4>2. t \in Tree
        <5>. HIDE DEF t, T
        <5>. QED  BY <1>2, <4>1 DEF Tree
      <4>3. /\ t.number = m.tree.number /\ t.fromtag = m.tree.fromtag
            /\ t.type = m.tree.type /\ t.tpdu = m.tree.tpdu
        BY <1>2 DEF Tree
      <4>. QED  BY <4>2, <4>3 DEF Qtag, NoDeliver
    <3>2. Formed(Rendered(m.tree)) => Formed(Rendered(t))
      <4>1. /\ t.parses = m.tree.parses /\ t.kind = m.tree.kind /\ t.bodies = m.tree.bodies
            /\ t.scheme = m.tree.scheme /\ t.method = m.tree.method
            /\ t.cseq = m.tree.cseq /\ t.from = m.tree.from /\ t.type = m.tree.type
            /\ t.user = m.tree.user /\ t.mime = m.tree.mime /\ t.to = m.tree.to
            /\ t.reason = m.tree.reason /\ t.host = host /\ t.call = call
        BY <1>2 DEF Tree
      <4>. HIDE DEF t, T
      <4>. QED  BY <1>2, <3>1, <4>1, RenderedFields DEF Formed
    <3>. DEFINE n == Remade(m, t, m.ms_to_sc, m.need_repack, to)
    <3>. HIDE DEF T
    <3>3. Sound(n, ids) /\ Follows(n, m) /\ WithTag(n) = n
      BY <1>2, <1>k, <3>1, <3>2, NewTree
    <3>4. Replace(m, n)
      BY <2>p, <3>3
    <3>. HIDE DEF n
    <3>. QED  BY <1>1, <3>3, <3>4, ReplaceStep
  <2>5. CASE m.tree.user = "imsi"
    <3>1. Replace(m, WithTag([m EXCEPT !.tree.host = "cell", !.tree.call = call]))
      BY <2>1, <2>4, <2>5
    <3>2. [m EXCEPT !.tree.host = "cell", !.tree.call = call]
            = Remade(m, T("cell"), m.ms_to_sc, m.need_repack, m.convert)
      BY <1>2 DEF Item, Remade
    <3>. HIDE DEF T
    <3>. QED  BY <1>k, <2>p, <3>1, <3>2
  <2>6. CASE m.tree.user # "imsi"
    <3>1. PICK type \in RelayContents :
              Replace(m, WithTag([m EXCEPT !.tree.host = "relay", !.tree.call = call,
                                           !.convert = type]))
      BY <2>1, <2>4, <2>6, Zenon
    <3>2. [m EXCEPT !.tree.host = "relay", !.tree.call = call, !.convert = type]
            = Remade(m, T("relay"), m.ms_to_sc, m.need_repack, type)
      BY <1>2 DEF Item, Remade
    <3>. HIDE DEF T
    <3>. QED  BY <1>r, <2>p, <3>1, <3>2
  <2>. QED  BY <2>5, <2>6
<1>. QED  BY <1>3, <1>4, <1>5

\* The answer to a message is under its tag.
LEMMA AnswerTag ==
  ASSUME NEW t \in Tree
  PROVE  AnswerTo(t) \in Tree /\ Qtag(AnswerTo(t)) = Qtag(t)
<1>. DEFINE h == HalfMsg("none", t.number, t.call)
            a == AnswerTo(t)
<1>1. h \in Tree
  <2>1. t.number \in Nat /\ t.call \in Nat
    BY DEF Tree
  <2>. QED  BY <2>1, HalfTree
<1>2. h.number = t.number
  BY DEF HalfMsg
<1>. HIDE DEF h
<1>. DEFINE k == [h EXCEPT !.reason = TRUE]
<1>k. k \in Tree /\ DOMAIN k = DOMAIN h
  BY <1>1 DEF Tree
<1>3. a = [f \in DOMAIN k |->
              CASE f = "kind" -> "response" [] f = "cseq" -> t.cseq
                [] f = "from" -> t.from [] f = "fromtag" -> t.fromtag
                [] f = "to" -> t.to [] OTHER -> k[f]]
  BY <1>1 DEF AnswerTo, h, Tree
<1>4. a.number = h.number /\ a.fromtag = t.fromtag
  BY <1>1 DEF AnswerTo, h, Tree
<1>. HIDE DEF a, k
<1>5. a \in Tree
  <2>1. /\ t.cseq \in {"none", "MESSAGE", "REGISTER", "other"}
        /\ t.from \in {"none", "nourl", "imsi", "number"} /\ t.fromtag \in Nat
        /\ t.to \in {"none", "sip", "other"}
    BY DEF Tree
  <2>. QED  BY <1>k, <1>3, <2>1 DEF Tree
<1>. QED  BY <1>2, <1>4, <1>5 DEF Qtag, a

\* What is packed has the type it is packed for, and nothing else is changed that the checks
\* look at but the TPDU.
LEMMA PackedForm ==
  ASSUME NEW t \in Tree, NEW type \in {"TEXT_PLAIN", "VND_3GPP_SMS"}
  PROVE  /\ PackedTree(t, type) \in Tree /\ Qtag(PackedTree(t, type)) = Qtag(t)
         /\ Formed(Rendered(t)) => Formed(Rendered(PackedTree(t, type)))
<1>. DEFINE tpdu == IF type = "TEXT_PLAIN" THEN "none"
                    ELSE IF t.bodies = 0 THEN t.tpdu ELSE "DELIVER"
            u == PackedTree(t, type)
<1>1. tpdu \in {"none", "SUBMIT", "DELIVER"}
  BY DEF Tree
<1>2. u = [f \in DOMAIN t |-> IF f = "type" THEN type ELSE IF f = "tpdu" THEN tpdu ELSE t[f]]
  BY DEF PackedTree, Tree
<1>. HIDE DEF tpdu, u
<1>3. u \in Tree
  BY <1>1, <1>2 DEF Tree
<1>4. /\ u.parses = t.parses /\ u.kind = t.kind /\ u.bodies = t.bodies
      /\ u.scheme = t.scheme /\ u.host = t.host /\ u.method = t.method
      /\ u.cseq = t.cseq /\ u.from = t.from /\ u.type = type /\ u.user = t.user
      /\ u.call = t.call /\ u.mime = t.mime /\ u.to = t.to /\ u.reason = t.reason
      /\ u.number = t.number /\ u.fromtag = t.fromtag
  BY <1>2 DEF Tree
<1>5. Formed(Rendered(t)) => Formed(Rendered(u))
  BY <1>3, <1>4, RenderedFields DEF Formed
<1>. QED  BY <1>3, <1>4, <1>5 DEF Qtag, u

LEMMA RepackedSound ==
  ASSUME ValidationInv, NEW m \in queued, CanRepack(m)
  PROVE  Sound(Repacked(m), ids) /\ Follows(Repacked(m), m)
<1>1. Sound(m, ids) /\ m \in Item /\ m.tree \in Tree
  BY DEF ValidationInv, Sound, Item
<1>2. /\ m.ms_to_sc \in BOOLEAN /\ m.need_repack \in BOOLEAN
      /\ m.convert \in {"none", "TEXT_PLAIN", "VND_3GPP_SMS"}
  BY <1>1 DEF Item
<1>3. CASE ~ m.need_repack
  <2>1. Repacked(m) = m
    BY <1>3 DEF Repacked
  <2>. QED  BY <1>1, <2>1 DEF Follows
<1>4. CASE m.need_repack /\ Stays(m)
  <2>1. Repacked(m) = Remade(m, m.tree, m.ms_to_sc, FALSE, m.convert)
    BY <1>1, <1>4 DEF Repacked, Remade, Item
  <2>2. ASSUME NEW repack \in BOOLEAN, repack => m.need_repack
        PROVE  LET n == Remade(m, m.tree, m.ms_to_sc, repack, m.convert)
               IN  Sound(n, ids) /\ Follows(n, m)
    BY <1>1, <1>2, <2>2, NewTree
  <2>. QED  BY <2>1, <2>2, Zenon
<1>5. CASE m.need_repack /\ ~ Stays(m)
  <2>. DEFINE type == PackedType(m)
              t == PackedTree(m.tree, type)
  <2>1. type \in {"TEXT_PLAIN", "VND_3GPP_SMS"}
    BY <1>5 DEF CanRepack
  <2>2. Repacked(m) = Remade(m, t, FALSE, FALSE, m.convert)
    BY <1>1, <1>5 DEF Repacked, Remade, Item
  <2>. HIDE DEF type
  <2>3. t \in Tree /\ Qtag(t) = Qtag(m.tree) /\ (Formed(Rendered(m.tree)) => Formed(Rendered(t)))
    BY <1>1, <2>1, PackedForm
  <2>. HIDE DEF t
  <2>4. ASSUME NEW toward \in BOOLEAN, NEW repack \in BOOLEAN, ~ repack
        PROVE  LET n == Remade(m, t, toward, repack, m.convert)
               IN  Sound(n, ids) /\ Follows(n, m)
    BY <1>1, <1>2, <2>3, <2>4, NewTree
  <2>. QED  BY <2>2, <2>4, Zenon
<1>. QED  BY <1>2, <1>3, <1>4, <1>5

LEMMA DeliverStep ==
  ASSUME ValidationInv, DeliverMsgDatagram
  PROVE  ValidationInv'
<1>1. /\ ids' = ids /\ refused' = refused /\ callIds' \in Nat
      /\ register_call_id' \in Nat /\ register_call_seq' \in Nat
  BY DEF DeliverMsgDatagram, ValidationInv
<1>2. PICK m \in queued :
          \/ UNCHANGED <<queued, answers>>
          \/ /\ CanRepack(m) /\ Replace(m, Repacked(m))
             /\ answers' \in {answers, answers \cup {[id |-> m.id, tree |-> Rendered(AnswerTo(m.tree))]}}
  BY DEF DeliverMsgDatagram
<1>3. CASE UNCHANGED <<queued, answers>>
  BY <1>1, <1>3, LessStep DEF DeliverMsgDatagram
<1>4. CASE /\ CanRepack(m) /\ Replace(m, Repacked(m))
           /\ answers' \in {answers, answers \cup {[id |-> m.id, tree |-> Rendered(AnswerTo(m.tree))]}}
  <2>. DEFINE a == [id |-> m.id, tree |-> Rendered(AnswerTo(m.tree))]
              n == Repacked(m)
  <2>1. Sound(m, ids) /\ m.tree \in Tree
    BY DEF ValidationInv, Sound, Item
  <2>2. a.id = m.id /\ a.tree \in Tree /\ Qtag(a.tree) = Qtag(m.tree)
    BY <2>1, AnswerTag, RenderedTree
  <2>3. answers' \in {answers, answers \cup {a}}
    BY <1>4
  <2>. HIDE DEF a
  <2>4. \A b \in answers' : Answering(b)
    BY <2>1, <2>2, <2>3, OldAnswers DEF Answering, Sound
  <2>5. Sound(n, ids) /\ Follows(n, m) /\ Replace(m, n)
    BY <1>4, RepackedSound
  <2>. HIDE DEF n
  <2>. QED  BY <1>1, <2>4, <2>5, ReplaceStep
<1>. QED  BY <1>2, <1>3, <1>4


\* What is read back: the messages that pass the checks, without their links.
LEMMA ReadStep ==
  ASSUME ValidationInv, SaveAndRead
  PROVE  ValidationInv'
<1>. DEFINE Read(m) ==
         WithTag([m EXCEPT !.tree = Rendered(m.tree), !.linktag = << >>, !.linked = 0,
                           !.convert = "none"])
<1>1. /\ ids' = ids /\ refused' = refused /\ \A a \in answers' : Answering(a)
      /\ callIds' \in Nat /\ register_call_id' \in Nat /\ register_call_seq' \in Nat
  <2>1. /\ ids' = ids /\ refused' = refused /\ answers' = answers /\ callIds' = callIds
        /\ register_call_id' = 0 /\ register_call_seq' = 0
    BY Zenon DEF SaveAndRead
  <2>. QED  BY <2>1, OldAnswers DEF ValidationInv
<1>r. queued' = {Read(m) : m \in {m \in queued : ValidateShortMsg(Rendered(m.tree)) = 0}}
  BY Zenon DEF SaveAndRead
<1>. HIDE DEF Read
<1>2. \A n \in queued' : \E m \in queued : n = Read(m)
  BY <1>r
<1>3. \A m \in queued : Sound(Read(m), ids) /\ Follows(Read(m), m)
  <2>. TAKE m \in queued
  <2>1. Sound(m, ids) /\ m \in Item /\ m.tree \in Tree
    BY DEF ValidationInv, Sound, Item
  <2>2. /\ Rendered(m.tree) \in Tree /\ Qtag(m.tree) \in Nat \X Nat
        /\ Qtag(Rendered(m.tree)) = Qtag(m.tree)
        /\ Rendered(Rendered(m.tree)) = Rendered(m.tree)
    BY <2>1, RenderedTree
  <2>. DEFINE k == [m EXCEPT !.tree = Rendered(m.tree), !.linktag = << >>, !.linked = 0,
                            !.convert = "none"]
              n == [k EXCEPT !.qtag = Qtag(k.tree)]
  <2>3. /\ k.id = m.id /\ k.tree = Rendered(m.tree) /\ k.linked = 0
        /\ k.own = m.own /\ k.valid = m.valid /\ k.need_repack = m.need_repack
    BY <2>1 DEF Item
  <2>4. k \in Item
    <3>1. k = [f \in DOMAIN m |->
                  CASE f = "tree" -> Rendered(m.tree) [] f = "linktag" -> << >>
                    [] f = "linked" -> 0 [] f = "convert" -> "none" [] OTHER -> m[f]]
      BY <2>1 DEF Item
    <3>. HIDE DEF k
    <3>. QED  BY <2>1, <2>2, <3>1 DEF Item
  <2>. HIDE DEF k
  <2>5. /\ n \in Item
        /\ n.id = m.id /\ n.tree = Rendered(m.tree) /\ n.qtag = Qtag(Rendered(m.tree))
        /\ n.linked = 0 /\ n.own = m.own /\ n.valid = m.valid
        /\ n.need_repack = m.need_repack
    BY <2>2, <2>3, <2>4 DEF Item
  <2>n. n = Read(m)
    BY DEF WithTag, k, Read
  <2>. HIDE DEF n
  <2>6. Sound(n, ids) /\ Follows(n, m)
    <3>1. 0 \in 0..ids
      BY DEF ValidationInv
    <3>2. NoDeliver(m.tree) => NoDeliver(Rendered(m.tree))
      BY <2>1, RenderedFields DEF NoDeliver
    <3>. QED  BY <2>1, <2>2, <2>5, <3>1, <3>2 DEF Sound, Follows
  <2>. QED  BY <2>6, <2>n
<1>4. \A n \in queued' : Sound(n, ids) /\ \E m \in queued : Follows(n, m)
  BY <1>2, <1>3
<1>5. \A m, n \in queued' : m.id = n.id => m = n
  <2>. TAKE m, n \in queued'
  <2>. HAVE m.id = n.id
  <2>1. PICK k \in queued : m = Read(k)
    BY <1>2
  <2>2. PICK l \in queued : n = Read(l)
    BY <1>2
  <2>3. k.id = l.id
    BY <1>3, <2>1, <2>2 DEF Follows
  <2>4. k = l
    BY <2>3 DEF ValidationInv
  <2>. QED  BY <2>1, <2>2, <2>4
<1>. QED  BY <1>1, <1>4, <1>5, FollowStep

LEMMA ValidationInductive == ValidationSpec => []ValidationInv
<1>1. ValidationInit => ValidationInv
  BY DEF ValidationInit, ValidationInv
<1>2. ASSUME ValidationInv, [ValidationNext]_validationVars
      PROVE  ValidationInv'
  <2>1. CASE UNCHANGED validationVars
    BY <1>2, <2>1, LessStep DEF validationVars
  <2>2. CASE Arrive
    BY <1>2, <2>2, ArriveStep
  <2>3. CASE OriginateSm
    BY <1>2, <2>3, OriginateStep
  <2>4. CASE RegisterHandset
    BY <1>2, <2>4, RegisterStep
  <2>5. CASE NewFrom \/ NewUser \/ NewPlace
    BY <1>2, <2>5, HandlerStep
  <2>6. CASE DeliverMsgDatagram
    BY <1>2, <2>6, DeliverStep
  <2>7. CASE HandleResponse \/ Leave
    BY <1>2, <2>7, LessStep DEF HandleResponse, Leave
  <2>8. CASE SaveAndRead
    BY <1>2, <2>8, ReadStep
  <2>. QED  BY <1>2, <2>1, <2>2, <2>3, <2>4, <2>5, <2>6, <2>7, <2>8 DEF ValidationNext
<1>. QED  BY <1>1, <1>2, PTL DEF ValidationSpec

\* What smqueue makes passes its own checks, and what was in order when it came passes them
\* after whatever the handlers and the packing for delivery changed in it (validate_short_msg,
\* pack_sms_for_delivery), so that a stop and a start keep it and its tag; but for what was
\* packed into a DELIVER, which does not pass them.
THEOREM StaysValid == ValidationSpec => []ValidStaysValid
<1>1. ValidationInv => ValidStaysValid
  <2>. SUFFICES ASSUME ValidationInv PROVE ValidStaysValid
    OBVIOUS
  <2>1. ASSUME NEW m \in queued, m.own \/ m.valid
        PROVE  /\ ValidateShortMsg(Rendered(m.tree)) = 0 <=> ~ PackedDeliver(m)
               /\ Qtag(Rendered(m.tree)) = m.qtag
    <3>1. Sound(m, ids) /\ m.tree \in Tree
      BY DEF ValidationInv, Sound, Item
    <3>2. Formed(Rendered(m.tree)) /\ (m.need_repack => NoDeliver(m.tree))
      BY <2>1, <3>1 DEF Sound
    <3>3. NoDeliver(Rendered(m.tree)) <=> NoDeliver(m.tree)
      BY <3>1, RenderedFields DEF NoDeliver
    <3>4. NoDeliver(m.tree) <=> ~ PackedDeliver(m)
      BY <3>2 DEF NoDeliver, PackedDeliver
    <3>5. Rendered(m.tree) \in Tree /\ Qtag(Rendered(m.tree)) = m.qtag
      BY <3>1, RenderedTree DEF Sound
    <3>. QED  BY <3>2, <3>3, <3>4, <3>5, ShortMsgVerdict DEF ShortMsgMet
  <2>. QED  BY <2>1 DEF ValidStaysValid, ValidationInv
<1>. QED  BY <1>1, ValidationInductive, PTL

\* An answer finds the message that it answers, whatever Call-ID that was sent with, and no
\* other (find_queued_msg_by_tag), and a REGISTER's link finds the message that waits for it;
\* but for messages with the same number and tag.
THEOREM AnswersFind == ValidationSpec => []AnswerFindsItsMessage
<1>1. ValidationInv => AnswerFindsItsMessage
  <2>. SUFFICES ASSUME ValidationInv PROVE AnswerFindsItsMessage
    OBVIOUS
  <2>1. \A m \in queued : m.qtag = Qtag(m.tree)
    BY DEF ValidationInv, Sound
  <2>2. ASSUME NEW a \in queued \cup answers, ~ Twins(a)
        PROVE  \A m \in queued : m.qtag = Qtag(a.tree) <=> m.id = a.id
    <3>. TAKE m \in queued
    <3>1. ASSUME m.id = a.id PROVE m.qtag = Qtag(a.tree)
      BY <2>1, <3>1 DEF ValidationInv
    <3>2. ASSUME m.qtag = Qtag(a.tree) PROVE m.id = a.id
      <4>1. m.tree.number = a.tree.number /\ m.tree.fromtag = a.tree.fromtag
        BY <2>1, <3>2 DEF Qtag
      <4>. QED  BY <2>2, <4>1 DEF Twins, Named
    <3>. QED  BY <3>1, <3>2
  <2>3. \A a \in answers : ~ Twins(a) => FoundByTag(Qtag(a.tree)) = {m \in queued : m.id = a.id}
    BY <2>2 DEF FoundByTag
  <2>4. ASSUME NEW r \in queued, NEW m \in queued, r.linked = m.id, ~ Twins(m)
        PROVE  FoundByTag(r.linktag) = {m}
    <3>1. r.linktag = Qtag(m.tree)
      BY <2>4 DEF ValidationInv
    <3>2. \A n \in queued : n.qtag = r.linktag <=> n = m
      BY <2>2, <2>4, <3>1 DEF ValidationInv
    <3>. QED  BY <3>2 DEF FoundByTag
  <2>. QED  BY <2>3, <2>4 DEF AnswerFindsItsMessage
<1>. QED  BY <1>1, ValidationInductive, PTL
================================================================================
