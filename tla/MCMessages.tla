------------------------------ MODULE MCMessages ------------------------------
(***************************************************************************)
(* The content of a message: how it goes through the queue (ShortMsg), the *)
(* checks and the tag (SmqValidation), and its encoding (SmsCodec).  They  *)
(* share no state; a behaviour is one of either, and the others stay as    *)
(* they are.                                                               *)
(***************************************************************************)
EXTENDS ShortMsg, SmqValidation, SmsCodec

VARIABLE part

\* Lengths around the seven septets that leave no fill bits, septets of all ones, and the
\* two that stand twice in the alphabet.
Texts == {[i \in 1..n |-> c] : n \in {1, 6, 7, 8, 9}, c \in {1, 127}} \cup {<<27, 2, 64>>, << >>}

\* Odd and even counts of digits, with a star among them.
Numbers == {[plus |-> p, digits |-> d] : p \in BOOLEAN, d \in {<<1, 0, 9>>, <<9, 1, 0, 10>>}}

\* A header of six octets leaves no fill bits and one of five some; the periods are those at
\* the boundaries of their ranges.
SomeMessages ==
    [to : {[plus |-> TRUE, digits |-> <<1, 2, 3>>], [plus |-> TRUE, digits |-> <<1, 2>>]},
     from : Numbers, vpf : {0, 1, 3}, vp : {0}, dcs : {0, 8}, header : {0, 5}, text : Texts]
    \cup
    [to : {[plus |-> FALSE, digits |-> <<1, 2, 3>>]},
     from : {[plus |-> FALSE, digits |-> <<4>>]}, vpf : {2},
     vp : {0, 143, 144, 167, 168, 196, 197, 255}, dcs : {0}, header : {0, 6}, text : Texts]

\* What a phone sends through its cell, a text from another smqueue, and messages that are
\* not in order: with a DELIVER, without a Content-Type (where the packing may end the
\* process), without a tag in From (where the process ends), without a Call-ID, and without a
\* recipient.
Phone ==
    [kind |-> "request", parses |-> TRUE, version |-> "2.0", scheme |-> "sip", host |-> "here",
     method |-> "MESSAGE", user |-> "number", type |-> "VND_3GPP_SMS", tpdu |-> "SUBMIT",
     length |-> "positive", bodies |-> 1, reason |-> FALSE, cseq |-> "MESSAGE", number |-> 1,
     call |-> 9, from |-> "imsi", fromtag |-> 7, mime |-> "none", to |-> "sip"]
SomeArrivals ==
    {Phone, [Phone EXCEPT !.number = 2, !.type = "TEXT_PLAIN", !.tpdu = "none", !.from = "number"],
     [Phone EXCEPT !.tpdu = "DELIVER"], [Phone EXCEPT !.type = "none", !.tpdu = "none"],
     [Phone EXCEPT !.fromtag = 0], [Phone EXCEPT !.call = 0],
     [Phone EXCEPT !.user = "none"]}

\* Where the queue is not the part, one state of the message in it stands for all, and where
\* the codec is not, one message.
MessagesInit ==
    /\ part \in {"queue", "checks", "codec"}
    /\ ShortMsgInit
    /\ part # "queue" =>
          /\ ~config.relay
          /\ orig.text.from = "imsi" /\ orig.text.to = "imsi" /\ orig.text.body.kind = "plain"
          /\ ~orig.ms_to_sc
    /\ IF part = "codec" THEN sms \in Messages ELSE sms = CHOOSE m \in Messages : TRUE
    /\ CodecInit
    /\ ValidationInit

MessagesNext ==
    /\ UNCHANGED part
    /\ \/ part = "queue" /\ ShortMsgNext /\ UNCHANGED <<codecVars, validationVars>>
       \/ part = "checks" /\ ValidationNext /\ UNCHANGED <<msgVars, codecVars>>
       \/ part = "codec" /\ CodecNext /\ UNCHANGED <<msgVars, validationVars>>

MessagesSpec == MessagesInit /\ [][MessagesNext]_<<part, msgVars, validationVars, codecVars>>
===============================================================================
