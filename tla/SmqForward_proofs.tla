-------------------------- MODULE SmqForward_proofs --------------------------
(***************************************************************************)
(* SmqManager implements StoreAndForward, for every number of messages,    *)
(* all delays and every retry limit, provided that no two requests share a *)
(* tag and that no answer comes in while another to its tag is queued.     *)
(***************************************************************************)
EXTENDS SmqForward, SmqManager_proofs

Ends == {"NO_STATE", "DELETE_ME_STATE"}

\* A request carries its own number as its tag, a response that of a request that
\* was sent, and waits to be handled; two queued responses answer two requests.
TagInv ==
    /\ \A id \in Queued : msg[id].kind # "RESPONSE" => msg[id].qtag = id
    /\ \A id \in Queued : msg[id].kind = "RESPONSE" =>
           msg[id].state = "INITIAL_STATE" /\ \E s \in sent : s[1] = msg[id].qtag
    /\ \A s \in sent :
           /\ s[1] \in 1..created
           /\ s[1] \in Queued /\ msg[s[1]].kind # "RESPONSE" => sends[s[1]] > 0
    /\ \A i, j \in Queued :
           msg[i].kind = "RESPONSE" /\ msg[j].kind = "RESPONSE" /\ msg[i].qtag = msg[j].qtag
               => i = j

ForwardInv == Safe /\ TagInv

--------------------------------------------------------------------------------
(* What a step does to tags *)

\* The message id stays, with its kind and its tag.
Stays(id) ==
    /\ id \in Queued
    /\ msg'[id].kind = msg[id].kind
    /\ msg'[id].qtag = msg[id].qtag
    /\ msg[id].kind = "RESPONSE" => msg'[id].state = msg[id].state
    /\ sends'[id] >= sends[id]

NewRequest(id) ==
    /\ id = created + 1
    /\ id = created'
    /\ msg'[id].kind # "RESPONSE"
    /\ msg'[id].qtag = id

NewResponse(id) ==
    /\ id = created + 1
    /\ id = created'
    /\ msg'[id].kind = "RESPONSE"
    /\ msg'[id].state = "INITIAL_STATE"
    /\ \E s \in sent : s[1] = msg'[id].qtag
    /\ \A j \in Queued : msg[j].kind = "RESPONSE" => msg[j].qtag # msg'[id].qtag

TagShape ==
    /\ sent \subseteq sent'
    /\ created' \in {created, created + 1}
    /\ \A s \in sent' \ sent : s[1] \in Queued /\ s[1] \in Queued' /\ sends'[s[1]] > 0
    /\ \A id \in Queued' : Stays(id) \/ NewRequest(id) \/ NewResponse(id)

LEMMA TagShapeInv ==
    ASSUME Safe, TagInv, TypeOK', TagShape
    PROVE  TagInv'
<1>. USE DEF Safe
<1>1. created \in Nat /\ created' \in Nat /\ Queued \subseteq 1..created
    BY ManagerAssumption DEF ListInv, TypeOK
<1>2. Queued' \subseteq Ids
    BY ElementOfSeq DEF TypeOK, Queued, ToSet
<1>3. \A id \in Ids : sends[id] \in Nat /\ sends'[id] \in Nat
    BY DEF TypeOK
<1>4. \A id \in Queued' : msg'[id].kind # "RESPONSE" => msg'[id].qtag = id
    BY DEF TagShape, TagInv, Stays, NewRequest, NewResponse
<1>5. \A id \in Queued' : msg'[id].kind = "RESPONSE" =>
          msg'[id].state = "INITIAL_STATE" /\ \E s \in sent' : s[1] = msg'[id].qtag
    BY DEF TagShape, TagInv, Stays, NewRequest, NewResponse
<1>6. ASSUME NEW s \in sent'
      PROVE  /\ s[1] \in 1..created'
             /\ s[1] \in Queued' /\ msg'[s[1]].kind # "RESPONSE" => sends'[s[1]] > 0
    <2>1. CASE s \in sent
        <3>1. s[1] \in 1..created /\ s[1] # created + 1 /\ s[1] \in 1..created'
            BY <1>1, <2>1 DEF TagInv, TagShape
        <3>2. ASSUME s[1] \in Queued', msg'[s[1]].kind # "RESPONSE"
              PROVE  sends'[s[1]] > 0
            <4>1. Stays(s[1])
                BY <3>1, <3>2 DEF TagShape, NewRequest, NewResponse
            <4>2. sends[s[1]] > 0
                BY <2>1, <3>2, <4>1 DEF TagInv, Stays
            <4>. QED  BY <1>2, <1>3, <3>2, <4>1, <4>2 DEF Stays
        <3>. QED  BY <3>1, <3>2
    <2>2. CASE s \notin sent
        <3>1. s[1] \in Queued /\ sends'[s[1]] > 0 /\ created' \in {created, created + 1}
            BY <2>2 DEF TagShape
        <3>2. s[1] \in 1..created
            BY <1>1, <3>1
        <3>3. 1..created \subseteq 1..created'
            BY <1>1, <3>1
        <3>. QED  BY <3>1, <3>2, <3>3
    <2>. QED  BY <2>1, <2>2
<1>7. ASSUME NEW i \in Queued', NEW j \in Queued', msg'[i].kind = "RESPONSE",
             msg'[j].kind = "RESPONSE", msg'[i].qtag = msg'[j].qtag
      PROVE  i = j
    <2>1. \A id \in {i, j} : Stays(id) \/ NewResponse(id)
        BY <1>7 DEF TagShape, NewRequest
    <2>2. CASE Stays(i) /\ Stays(j)  BY <1>7, <2>2 DEF Stays, TagInv
    <2>3. CASE Stays(i) /\ NewResponse(j)  BY <1>7, <2>3 DEF Stays, NewResponse
    <2>4. CASE NewResponse(i) /\ Stays(j)  BY <1>7, <2>4 DEF Stays, NewResponse
    <2>5. CASE NewResponse(i) /\ NewResponse(j)  BY <2>5 DEF NewResponse
    <2>. QED  BY <2>1, <2>2, <2>3, <2>4, <2>5
<1>. QED  BY <1>4, <1>5, <1>6, <1>7 DEF TagInv

--------------------------------------------------------------------------------
(* The messages that a step does not touch *)

Untouched(id) ==
    /\ id \in Queued' <=> id \in Queued
    /\ msg'[id] = msg[id]

\* If only x is touched, and stays the request it was, the abstract state changes
\* in whether x has ended.
LEMMA OneTouched ==
    ASSUME TypeOK, NEW x \in HeldMessages, x \in Queued', Queued' \subseteq Ids,
           \A id \in Ids : Untouched(id) \/ id = x,
           Continues(msg[x], msg'[x])
    PROVE  /\ HeldMessages' = HeldMessages
           /\ ReturnedMessages' = ReturnedMessages
           /\ EndedMessages' = IF msg'[x].state \in Ends THEN EndedMessages \cup {x}
                                                         ELSE EndedMessages \ {x}
<1>1. Queued \subseteq Ids /\ x \in Ids
    BY ElementOfSeq DEF TypeOK, Queued, ToSet, HeldMessages
<1>2. Queued' = Queued
    BY <1>1 DEF Untouched, HeldMessages
<1>3. \A id \in Queued : id # x => msg'[id] = msg[id]
    BY <1>1 DEF Untouched
<1>4. HeldMessages' = HeldMessages
    BY <1>2, <1>3 DEF HeldMessages, Continues
<1>5. ReturnedMessages' = ReturnedMessages
    BY <1>2, <1>3, <1>4 DEF ReturnedMessages, HeldMessages, Continues
<1>6. EndedMessages' = IF msg'[x].state \in Ends THEN EndedMessages \cup {x}
                                                 ELSE EndedMessages \ {x}
    BY <1>2, <1>3, <1>4 DEF EndedMessages, HeldMessages, Ends
<1>. QED  BY <1>4, <1>5, <1>6

\* A step that leaves the tags alone and maps to a step of StoreAndForward.
Maps == TagShape /\ [SF!Next]_(SF!vars)

LEMMA EndOrStutter ==
    ASSUME NEW x \in HeldMessages, HeldMessages' = HeldMessages,
           ReturnedMessages' = ReturnedMessages, UNCHANGED <<created, sends, acked>>,
           EndedMessages' \in {EndedMessages, EndedMessages \cup {x}}
    PROVE  [SF!Next]_(SF!vars)
<1>1. CASE EndedMessages' = EndedMessages
    BY <1>1 DEF SF!vars
<1>2. CASE EndedMessages' = EndedMessages \cup {x}
    BY <1>2 DEF SF!Next, SF!End
<1>. QED  BY <1>1, <1>2

--------------------------------------------------------------------------------
(* The handlers *)

\* The front message, a request, is put back as m, with its end decided or not as before.
LEMMA RequeueMaps ==
    ASSUME ForwardInv, NonEmpty, qmsg \in HeldMessages, NEW m \in Message,
           Continues(msg[qmsg], m), Requeue(m), UNCHANGED <<created, sent, sends, acked>>,
           m.state \in Ends \/ msg[qmsg].state \notin Ends
    PROVE  Maps
<1>. USE DEF ForwardInv, Safe
<1>1. /\ Queued' = Queued
      /\ \A id \in Ids : msg'[id] = IF id = qmsg THEN m ELSE msg[id]
    BY RequeueList
<1>2. qmsg \in Queued /\ Queued \subseteq Ids /\ qmsg \in Ids
    BY FrontQueued, FrontType
<1>3. /\ HeldMessages' = HeldMessages
      /\ ReturnedMessages' = ReturnedMessages
      /\ EndedMessages' = IF m.state \in Ends THEN EndedMessages \cup {qmsg}
                                              ELSE EndedMessages \ {qmsg}
    BY <1>1, <1>2, OneTouched DEF Untouched
<1>4. m.state \notin Ends => qmsg \notin EndedMessages
    BY DEF EndedMessages, Ends
<1>5. [SF!Next]_(SF!vars)
    BY <1>3, <1>4, EndOrStutter
<1>6. ASSUME NEW id \in Queued' PROVE Stays(id)
    <2>1. sends[id] \in Nat
        BY <1>1, <1>2 DEF TypeOK
    <2>2. CASE id = qmsg  BY <1>1, <1>2, <2>1, <2>2 DEF Stays, Continues, HeldMessages
    <2>3. CASE id # qmsg  BY <1>1, <1>2, <2>1, <2>3 DEF Stays
    <2>. QED  BY <2>2, <2>3
<1>. QED  BY <1>5, <1>6 DEF Maps, TagShape

\* A request is due, and not about to end.
LEMMA DueRequest ==
    ASSUME ForwardInv, NEW kinds, NEW states, Due(kinds, states), kinds \subseteq Requests
    PROVE  NonEmpty /\ qmsg \in HeldMessages /\ qmsg \in Ids /\ msg[qmsg] \in Message
BY FrontType, FrontQueued DEF ForwardInv, Safe, Due, NonEmpty, Requests, HeldMessages

LEMMA MoveToMaps ==
    ASSUME ForwardInv, NonEmpty, qmsg \in HeldMessages, NEW s \in sm_state, MoveTo(s),
           msg[qmsg].state \notin Ends
    PROVE  Maps
<1>1. SetState(msg[qmsg], s) \in Message /\ Continues(msg[qmsg], SetState(msg[qmsg], s))
    BY FrontType, SetStateIsMessage, SetStateContinues DEF ForwardInv, Safe
<1>. QED  BY <1>1, RequeueMaps DEF MoveTo

\* A request enters, with the next number for a tag: nothing else is touched but x, if
\* there is an x.
LEMMA EntersAbstract ==
    ASSUME TypeOK, ListInv, NEW new \in Ids, new = created + 1, new \notin Queued,
           Queued' = Queued \cup {new}, NEW x \in HeldMessages,
           \A id \in Ids \ {new, x} : msg'[id] = msg[id],
           Continues(msg[x], msg'[x]), msg'[new].kind # "RESPONSE",
           msg'[new].state \notin Ends
    PROVE  /\ HeldMessages' = HeldMessages \cup {new}
           /\ ReturnedMessages' = IF msg'[new].from = "Bounce.Code"
                                  THEN ReturnedMessages \cup {new} ELSE ReturnedMessages
           /\ EndedMessages' = IF msg'[x].state \in Ends THEN EndedMessages \cup {x}
                                                         ELSE EndedMessages \ {x}
<1>1. Queued \subseteq Ids /\ x \in Ids /\ x # new /\ x \in Queued
    BY ElementOfSeq DEF TypeOK, Queued, ToSet, HeldMessages
<1>2. \A id \in Queued : id # x => msg'[id] = msg[id]
    BY <1>1
<1>3. HeldMessages' = HeldMessages \cup {new}
    BY <1>1, <1>2 DEF HeldMessages, Continues
<1>4. \A id \in HeldMessages : msg'[id].from = msg[id].from
    BY <1>1, <1>2 DEF HeldMessages, Continues
<1>5. ReturnedMessages' = IF msg'[new].from = "Bounce.Code"
                          THEN ReturnedMessages \cup {new} ELSE ReturnedMessages
    BY <1>3, <1>4 DEF ReturnedMessages
<1>6. EndedMessages' = IF msg'[x].state \in Ends THEN EndedMessages \cup {x}
                                                 ELSE EndedMessages \ {x}
    BY <1>1, <1>2, <1>3 DEF EndedMessages, HeldMessages, Ends
<1>. QED  BY <1>3, <1>5, <1>6

\* The front message, a request, stays as moved; a new request enters: a reply or a
\* REGISTER (from the user), or a bounce, which ends what it answers.
LEMMA OriginateMaps ==
    ASSUME ForwardInv, NonEmpty, qmsg \in HeldMessages, FreshTags,
           NEW kind \in {"MESSAGE", "REGISTER"}, NEW tag \in NewTags,
           NEW from \in {"user", "Bounce.Code"}, NEW linktag \in Tags,
           NEW first \in sm_state, first \notin Ends,
           NEW moved \in Message, Continues(msg[qmsg], moved),
           OriginateAndRequeue(New(kind, tag, from, linktag, "none"), first, moved),
           msg[qmsg].state \notin Ends,
           from = "Bounce.Code" => MayBounce(qmsg) /\ moved.state \in Ends
    PROVE  Maps
<1>. USE DEF ForwardInv, Safe
<1>. DEFINE new == created + 1
            m == New(kind, tag, from, linktag, "none")
<1>1. tag \in Tags /\ tag = new
    BY NewTagsAreTags DEF OriginateAndRequeue, NewTags
<1>2. m \in Message
    BY <1>1, NewIsMessage
<1>3. /\ SetState(m, first).qtag = tag /\ SetState(m, first).from = from
      /\ SetState(m, first).kind = kind
    BY NewFields
<1>4. SetState(m, first).state = first
    BY <1>2 DEF SetState, Message
<1>5. /\ new \in Ids /\ new \notin Queued /\ new # qmsg /\ created' = new
      /\ Queued' = Queued \cup {new}
      /\ \A id \in Ids : msg'[id] = IF id = qmsg THEN moved
                                    ELSE IF id = new THEN SetState(m, first)
                                    ELSE msg[id]
    BY <1>2, OriginateList
<1>6. UNCHANGED <<sent, sends, acked>>
    BY DEF OriginateAndRequeue
<1>7. qmsg \in Queued /\ Queued \subseteq Ids /\ qmsg \in Ids
    BY FrontQueued, FrontType
<1>8. /\ msg'[qmsg] = moved /\ msg'[new].kind = kind /\ msg'[new].qtag = new
      /\ msg'[new].from = from /\ msg'[new].state = first
      /\ \A id \in Ids \ {new, qmsg} : msg'[id] = msg[id]
    BY <1>1, <1>3, <1>4, <1>5, <1>7
<1>. HIDE DEF m
<1>9. /\ HeldMessages' = HeldMessages \cup {new}
      /\ ReturnedMessages' = IF from = "Bounce.Code"
                             THEN ReturnedMessages \cup {new} ELSE ReturnedMessages
      /\ EndedMessages' = IF moved.state \in Ends THEN EndedMessages \cup {qmsg}
                                                  ELSE EndedMessages \ {qmsg}
    BY <1>5, <1>8, EntersAbstract
<1>10. qmsg \notin EndedMessages
    BY DEF EndedMessages, Ends
<1>11. [SF!Next]_(SF!vars)
    <2>1. CASE from = "user"
        <3>1. SF!Accept(new)
            BY <1>5, <1>6, <1>9, <1>10, <2>1 DEF SF!Accept, SF!Enter
        <3>. QED  BY <1>5, <3>1 DEF SF!Next
    <2>2. CASE from = "Bounce.Code"
        <3>1. qmsg \notin ReturnedMessages
            BY <2>2 DEF MayBounce, ReturnedMessages
        <3>2. SF!Return(qmsg, new)
            BY <1>5, <1>6, <1>9, <2>2, <3>1 DEF SF!Return, SF!Enter
        <3>. QED  BY <1>5, <3>2 DEF SF!Next
    <2>. QED  BY <2>1, <2>2
<1>12. ASSUME NEW id \in Queued' PROVE Stays(id) \/ NewRequest(id)
    <2>1. CASE id = new  BY <1>5, <1>8, <2>1 DEF NewRequest
    <2>2. CASE id = qmsg
        <3>1. sends[id] \in Nat
            BY <1>7, <2>2 DEF TypeOK
        <3>. QED  BY <1>6, <1>7, <1>8, <2>2, <3>1 DEF Stays, Continues, HeldMessages
    <2>3. CASE id # new /\ id # qmsg
        <3>1. id \in Queued /\ id \in Ids /\ sends[id] \in Nat
            BY <1>5, <1>7, <2>3 DEF TypeOK
        <3>. QED  BY <1>6, <1>8, <2>3, <3>1 DEF Stays
    <2>. QED  BY <2>1, <2>2, <2>3
<1>. QED  BY <1>5, <1>6, <1>11, <1>12 DEF Maps, TagShape

\* A datagram arrives: a request, or a response to one that was sent.
LEMMA ArriveMaps ==
    ASSUME ForwardInv, NEW kind \in {"MESSAGE", "OTHER", "RESPONSE"}, NEW tag, NEW status,
           NEW from, Arrive(New(kind, tag, from, NoTag, status)),
           kind # "RESPONSE" => tag = created + 1 /\ from = "user",
           kind = "RESPONSE" =>
               /\ \E s \in sent : s[1] = tag
               /\ \A j \in Queued : msg[j].kind = "RESPONSE" => msg[j].qtag # tag
    PROVE  Maps
<1>. USE DEF ForwardInv, Safe
<1>. DEFINE new == created + 1
            m == SetState(New(kind, tag, from, NoTag, status), "INITIAL_STATE")
<1>1. new \in Ids /\ new \notin Queued
    <2>1. new \in Ids
        BY ManagerAssumption DEF Arrive, TypeOK, Ids
    <2>2. new \notin Queued
        BY ManagerAssumption DEF TypeOK, ListInv
    <2>. QED  BY <2>1, <2>2
<1>2. m.qtag = tag /\ m.from = from /\ m.kind = kind /\ m.state = "INITIAL_STATE"
    BY NewFields DEF SetState, New
<1>3. /\ created' = new /\ time_sorted_list' = <<new>> \o time_sorted_list
      /\ UNCHANGED <<sent, sends, acked>>
      /\ \A id \in Ids : msg'[id] = IF id = new THEN m ELSE msg[id]
    BY DEF Arrive, TypeOK
<1>4. Queued' = Queued \cup {new} /\ Queued \subseteq Ids
    <2>1. Queued' = Queued \cup {new}
        BY <1>1, <1>3, ConsElements DEF TypeOK, Queued
    <2>2. Queued \subseteq Ids
        BY ElementOfSeq DEF TypeOK, Queued, ToSet
    <2>. QED  BY <2>1, <2>2
<1>5. /\ msg'[new].kind = kind /\ msg'[new].qtag = tag /\ msg'[new].from = from
      /\ msg'[new].state = "INITIAL_STATE"
      /\ \A id \in Queued : id # new /\ id \in Ids /\ msg'[id] = msg[id]
    BY <1>1, <1>2, <1>3, <1>4
<1>. HIDE DEF m
<1>6. [SF!Next]_(SF!vars)
    <2>1. CASE kind = "RESPONSE"
        <3>1. HeldMessages' = HeldMessages
            BY <1>4, <1>5, <2>1 DEF HeldMessages
        <3>2. EndedMessages' = EndedMessages /\ ReturnedMessages' = ReturnedMessages
            BY <1>5, <3>1 DEF EndedMessages, ReturnedMessages, HeldMessages
        <3>. QED  BY <1>3, <3>1, <3>2 DEF SF!Next, SF!Hear
    <2>2. CASE kind # "RESPONSE"
        <3>1. HeldMessages' = HeldMessages \cup {new}
            BY <1>4, <1>5, <2>2 DEF HeldMessages
        <3>2. EndedMessages' = EndedMessages /\ ReturnedMessages' = ReturnedMessages
            BY <1>5, <2>2, <3>1 DEF EndedMessages, ReturnedMessages, HeldMessages
        <3>. QED  BY <1>1, <1>3, <3>1, <3>2 DEF SF!Next, SF!Accept, SF!Enter
    <2>. QED  BY <2>1, <2>2
<1>7. ASSUME NEW id \in Queued' PROVE Stays(id) \/ NewRequest(id) \/ NewResponse(id)
    <2>1. CASE id = new  BY <1>3, <1>5, <2>1 DEF NewRequest, NewResponse
    <2>2. CASE id # new
        <3>1. id \in Queued /\ id \in Ids /\ sends[id] \in Nat
            BY <1>4, <2>2 DEF TypeOK
        <3>. QED  BY <1>3, <1>5, <3>1 DEF Stays
    <2>. QED  BY <2>1, <2>2
<1>. QED  BY <1>3, <1>6, <1>7 DEF Maps, TagShape

--------------------------------------------------------------------------------
(* Messages that leave, and responses *)

\* A request whose end was decided leaves.
LEMMA DeleteMaps ==
    ASSUME ForwardInv, DeleteMessage
    PROVE  Maps
<1>. USE DEF ForwardInv, Safe
<1>1. NonEmpty /\ msg[qmsg].state \in Ends
    BY DEF DeleteMessage, Due, NonEmpty, Ends
<1>2. /\ Queued' = Queued \ {qmsg} /\ qmsg \in Queued /\ Queued \subseteq Ids
      /\ UNCHANGED <<created, sent, acked>>
    BY <1>1, FrontQueued DEF DeleteMessage, Queued
<1>3. qmsg \in HeldMessages /\ qmsg \in EndedMessages
    BY <1>1, <1>2 DEF TagInv, HeldMessages, EndedMessages, Ends
<1>4. \A id \in Ids : /\ id # qmsg => msg'[id] = msg[id]
                      /\ sends'[id] = IF id = qmsg THEN 0 ELSE sends[id]
    BY DEF DeleteMessage, Delete, Cleared
<1>5. sends' = [sends EXCEPT ![qmsg] = 0]
    BY <1>2, <1>4 DEF DeleteMessage, Delete, Cleared, TypeOK
<1>6. HeldMessages' = HeldMessages \ {qmsg}
    BY <1>2, <1>4 DEF HeldMessages
<1>7. /\ EndedMessages' = EndedMessages \ {qmsg}
      /\ ReturnedMessages' = ReturnedMessages \ {qmsg}
    BY <1>2, <1>4, <1>6 DEF EndedMessages, ReturnedMessages, HeldMessages
<1>8. [SF!Next]_(SF!vars)
    BY <1>2, <1>3, <1>5, <1>6, <1>7 DEF SF!Next, SF!Discard, SF!Leave
<1>9. ASSUME NEW id \in Queued' PROVE Stays(id)
    <2>1. sends[id] \in Nat
        BY <1>2 DEF TypeOK
    <2>. QED  BY <1>2, <1>4, <2>1 DEF Stays
<1>. QED  BY <1>2, <1>8, <1>9 DEF Maps, TagShape

\* What a response answers is the request that has its tag for a number, and was sent.
LEMMA MatchIsRequest ==
    ASSUME ForwardInv, NEW statuses, Response(statuses), Matches # {}
    PROVE  /\ SentId \in HeldMessages /\ SentId \in Ids /\ SentId # qmsg
           /\ sends[SentId] > 0 /\ SentId = msg[qmsg].qtag
<1>1. /\ NonEmpty /\ sends[qmsg] = 0 /\ ToSet(Rest) = Queued \ {qmsg} /\ qmsg \in Queued
      /\ msg[qmsg].kind = "RESPONSE"
    BY FrontResponse DEF ForwardInv, Response, Due
<1>2. /\ SentId \in Ids /\ SentId \in Queued /\ SentId # qmsg
      /\ msg[SentId].qtag = msg[qmsg].qtag
    BY <1>1, SentType DEF ForwardInv, Safe
<1>3. msg[SentId].kind # "RESPONSE"
    BY <1>1, <1>2 DEF ForwardInv, TagInv
<1>4. msg[SentId].qtag = SentId
    BY <1>2, <1>3 DEF ForwardInv, TagInv
<1>5. PICK s \in sent : s[1] = msg[qmsg].qtag
    BY <1>1 DEF ForwardInv, TagInv
<1>6. sends[SentId] > 0
    BY <1>2, <1>3, <1>4, <1>5 DEF ForwardInv, TagInv
<1>. QED  BY <1>2, <1>3, <1>4, <1>6 DEF HeldMessages

\* A response leaves the list, which the abstract queue does not see.
LEMMA IgnoreMaps ==
    ASSUME ForwardInv, IgnoreResponse
    PROVE  Maps
<1>. USE DEF ForwardInv, Safe
<1>1. /\ NonEmpty /\ sends[qmsg] = 0 /\ ToSet(Rest) = Queued \ {qmsg} /\ qmsg \in Queued
      /\ msg[qmsg].kind = "RESPONSE"
    BY FrontResponse DEF IgnoreResponse, Response, Due
<1>2. /\ Queued' = Queued \ {qmsg} /\ Queued \subseteq Ids
      /\ UNCHANGED <<created, sent, acked>>
    BY <1>1, FrontQueued DEF IgnoreResponse, Queued
<1>3. \A id \in Ids : /\ id # qmsg => msg'[id] = msg[id]
                      /\ sends'[id] = sends[id]
    BY <1>1 DEF IgnoreResponse, Delete, Cleared
<1>4. sends' = sends
    BY <1>3 DEF IgnoreResponse, Delete, Cleared, TypeOK
<1>5. HeldMessages' = HeldMessages
    BY <1>1, <1>2, <1>3 DEF HeldMessages
<1>6. EndedMessages' = EndedMessages /\ ReturnedMessages' = ReturnedMessages
    BY <1>1, <1>2, <1>3, <1>5 DEF EndedMessages, ReturnedMessages, HeldMessages
<1>7. ASSUME NEW id \in Queued' PROVE Stays(id)
    <2>1. sends[id] \in Nat
        BY <1>2 DEF TypeOK
    <2>. QED  BY <1>2, <1>3, <2>1 DEF Stays
<1>. QED  BY <1>2, <1>4, <1>5, <1>6, <1>7 DEF Maps, TagShape, SF!vars

\* A response leaves; the request it answers becomes m.
LEMMA AnsweredMaps ==
    ASSUME ForwardInv, NEW statuses, Response(statuses), Matches # {},
           NEW m \in Message, Continues(msg[SentId], m), Answered(m)
    PROVE  Maps
<1>. USE DEF ForwardInv, Safe
<1>1. /\ NonEmpty /\ sends[qmsg] = 0 /\ ToSet(Rest) = Queued \ {qmsg} /\ qmsg \in Queued
      /\ msg[qmsg].kind = "RESPONSE" /\ qmsg \in Ids
    BY FrontResponse, FrontType DEF Response, Due
<1>2. SentId \in HeldMessages /\ SentId \in Ids /\ SentId # qmsg /\ sends[SentId] > 0
    BY MatchIsRequest
<1>. DEFINE x == SentId
<1>3. /\ \A id \in Ids : msg'[id] = IF id = x THEN m
                                    ELSE IF id = qmsg THEN Nobody ELSE msg[id]
      /\ UNCHANGED <<created, sent, sends, acked>>
    BY <1>1, <1>2 DEF Answered, TypeOK
<1>4. Queued' = Queued \ {qmsg} /\ Queued \subseteq Ids /\ x \in Queued
    BY <1>1, <1>2, FrontQueued DEF Answered, Queued, HeldMessages
<1>5. x \in HeldMessages /\ x # qmsg /\ sends[x] > 0 /\ x \in Ids /\ Continues(msg[x], m)
    BY <1>2
<1>. HIDE DEF x
<1>6. HeldMessages' = HeldMessages
    BY <1>1, <1>3, <1>4, <1>5 DEF HeldMessages, Continues
<1>7. ReturnedMessages' = ReturnedMessages
    BY <1>3, <1>4, <1>5, <1>6 DEF ReturnedMessages, HeldMessages, Continues
<1>8. EndedMessages' = IF m.state \in Ends THEN EndedMessages \cup {x}
                                           ELSE EndedMessages \ {x}
    BY <1>1, <1>3, <1>4, <1>5, <1>6 DEF EndedMessages, HeldMessages, Ends
<1>9. [SF!Next]_(SF!vars)
    <2>1. CASE m.state \in Ends
        BY <1>3, <1>5, <1>6, <1>7, <1>8, <2>1 DEF SF!Next, SF!End
    <2>2. CASE m.state \notin Ends
        BY <1>3, <1>5, <1>6, <1>7, <1>8, <2>2 DEF SF!Next, SF!Resume
    <2>. QED  BY <2>1, <2>2
<1>10. ASSUME NEW id \in Queued' PROVE Stays(id)
    <2>1. sends[id] \in Nat /\ id \in Ids /\ id # qmsg
        BY <1>4 DEF TypeOK
    <2>2. CASE id = x  BY <1>3, <1>4, <1>5, <2>1, <2>2 DEF Stays, Continues, HeldMessages
    <2>3. CASE id # x  BY <1>3, <1>4, <2>1, <2>3 DEF Stays
    <2>. QED  BY <2>2, <2>3
<1>. QED  BY <1>3, <1>9, <1>10 DEF Maps, TagShape

\* 2xx: the message that was answered has been delivered; an SMS that waited for it to
\* be registered goes on.
LEMMA DeliveredMaps ==
    ASSUME ForwardInv, ResponseDelivered
    PROVE  Maps
<1>. USE DEF ForwardInv, Safe
<1>1. /\ NonEmpty /\ Matches # {} /\ Response({"2xx"})
      /\ ToSet(Rest) = Queued \ {qmsg} /\ qmsg \in Queued /\ Distinct(Rest)
      /\ msg[qmsg].kind = "RESPONSE"
    BY FrontResponse DEF ResponseDelivered, Response, Due
<1>2. /\ SentPos \in 1..Len(Rest) /\ Rest \in Seq(Ids) /\ qmsg \in Ids
      /\ SentId = Rest[SentPos]
    BY <1>1, SentType, FrontType DEF SentId
<1>3. /\ SentId \in HeldMessages /\ SentId \in Ids /\ SentId # qmsg /\ sends[SentId] > 0
      /\ SentId = msg[qmsg].qtag
    BY <1>1, MatchIsRequest
<1>. DEFINE x == SentId
<1>4. Queued' = Queued \ {qmsg, x} /\ Queued \subseteq Ids /\ x \in Queued
    <2>1. ToSet(RemoveAt(Rest, SentPos)) = ToSet(Rest) \ {SentId}
        BY <1>1, <1>2, RemoveAtElements
    <2>2. Queued' = Queued \ {qmsg, x}
        BY <1>1, <2>1 DEF ResponseDelivered, Queued
    <2>. QED  BY <1>1, <1>3, <2>2, FrontQueued DEF HeldMessages
<1>5. /\ \A id \in Ids : /\ sends'[id] = IF id \in {qmsg, x} THEN 0 ELSE sends[id]
                         /\ id \notin {qmsg, x} =>
                               \/ msg'[id] = msg[id]
                               \/ /\ msg[id].state \in Registering
                                  /\ msg'[id] = SetState(msg[id], "INITIAL_STATE")
      /\ acked' = acked \cup {x}
      /\ UNCHANGED <<created, sent>>
    BY <1>3 DEF ResponseDelivered, Cleared, Reruns
<1>6. sends' = [sends EXCEPT ![x] = 0]
    <2>1. sends[qmsg] = 0
        BY <1>1, FrontResponse
    <2>. QED  BY <1>5, <2>1, <1>3 DEF ResponseDelivered, Cleared, TypeOK
<1>7. \A id \in Queued' :
          /\ id \in Queued /\ id \in Ids /\ id \notin {qmsg, x}
          /\ Continues(msg[id], msg'[id])
          /\ msg'[id].state \in Ends <=> msg[id].state \in Ends
          /\ msg[id].kind = "RESPONSE" => msg'[id].state = msg[id].state
    <2>. SUFFICES ASSUME NEW id \in Queued'
                  PROVE  /\ id \in Queued /\ id \in Ids /\ id \notin {qmsg, x}
                         /\ Continues(msg[id], msg'[id])
                         /\ msg'[id].state \in Ends <=> msg[id].state \in Ends
                         /\ msg[id].kind = "RESPONSE" => msg'[id].state = msg[id].state
        OBVIOUS
    <2>1. /\ id \in Queued /\ id \in Ids /\ id \notin {qmsg, x} /\ msg[id] \in Message
          /\ msg[id].kind = "RESPONSE" => msg[id].state = "INITIAL_STATE"
        BY <1>4 DEF TypeOK, TagInv
    <2>2. CASE msg'[id] = msg[id]
        BY <2>1, <2>2, SameContinues
    <2>3. CASE /\ msg[id].state \in Registering
               /\ msg'[id] = SetState(msg[id], "INITIAL_STATE")
        <3>1. msg'[id].state = "INITIAL_STATE"
            BY <2>1, <2>3 DEF SetState, Message
        <3>. QED  BY <2>1, <2>3, <3>1, SetStateContinues DEF Ends, Registering
    <2>. QED  BY <1>5, <2>1, <2>2, <2>3
<1>8. x \in HeldMessages /\ x # qmsg /\ sends[x] > 0 /\ qmsg \notin HeldMessages
    BY <1>1, <1>3 DEF HeldMessages
<1>. HIDE DEF x
<1>9. HeldMessages' = HeldMessages \ {x}
    <2>1. \A id \in Queued' : msg'[id].kind = msg[id].kind
        BY <1>7 DEF Continues
    <2>. QED  BY <1>4, <1>7, <1>8, <2>1 DEF HeldMessages
<1>10. ReturnedMessages' = ReturnedMessages \ {x}
    <2>1. \A id \in HeldMessages' : msg'[id].from = msg[id].from
        BY <1>7 DEF Continues, HeldMessages
    <2>. QED  BY <1>9, <2>1 DEF ReturnedMessages
<1>11. EndedMessages' = EndedMessages \ {x}
    <2>1. \A id \in HeldMessages' : msg'[id].state \in Ends <=> msg[id].state \in Ends
        BY <1>7 DEF HeldMessages
    <2>. QED  BY <1>9, <2>1 DEF EndedMessages, Ends
<1>12. SF!Deliver(x)
    BY <1>5, <1>6, <1>8, <1>9, <1>10, <1>11 DEF SF!Deliver, SF!Leave
<1>13. ASSUME NEW id \in Queued' PROVE Stays(id)
    <2>1. sends[id] \in Nat
        BY <1>7 DEF TypeOK
    <2>. QED  BY <1>5, <1>7, <2>1 DEF Stays, Continues
<1>. QED  BY <1>5, <1>8, <1>12, <1>13 DEF Maps, TagShape, SF!Next

\* 4xx: the message that was answered is returned, or given up.
LEMMA BouncesMaps ==
    ASSUME ForwardInv, FreshTags, ResponseBounces
    PROVE  Maps
<1>. USE DEF ForwardInv, Safe
<1>1. /\ NonEmpty /\ Matches # {} /\ Response({"4xx"}) /\ sends[qmsg] = 0
      /\ ToSet(Rest) = Queued \ {qmsg} /\ qmsg \in Queued
      /\ msg[qmsg].kind = "RESPONSE"
    BY FrontResponse DEF ResponseBounces, Response, Due
<1>2. /\ SentId \in HeldMessages /\ SentId \in Ids /\ SentId # qmsg /\ qmsg \in Ids
      /\ msg[SentId] \in Message /\ Rest \in Seq(Ids)
    BY <1>1, MatchIsRequest, SentType, FrontType
<1>3. CASE Answered(SetState(msg[SentId], "NO_STATE"))
    <2>1. SetState(msg[SentId], "NO_STATE") \in Message
        BY <1>2, SetStateIsMessage DEF sm_state
    <2>. QED  BY <1>1, <1>2, <1>3, <2>1, SetStateContinues, AnsweredMaps
<1>4. ASSUME NEW tag \in NewTags, NEW first \in BounceStates,
             MayBounce(SentId), created < MaxMsgs, created' = created + 1,
             time_sorted_list' = <<created + 1>> \o Rest,
             msg' = [msg EXCEPT ![qmsg] = Nobody,
                                ![created + 1] = SetState(Bounce(tag), first),
                                ![SentId] = SetState(msg[SentId], "DELETE_ME_STATE")],
             UNCHANGED <<sent, sends, acked>>
      PROVE  Maps
    <2>. DEFINE new == created + 1
                b == SetState(Bounce(tag), first)
                x == SentId
                m == SetState(msg[SentId], "DELETE_ME_STATE")
    <2>1. new \in Ids /\ new \notin Queued
        <3>1. new \in Ids
            BY <1>4, ManagerAssumption DEF TypeOK, Ids
        <3>2. new \notin Queued
            BY ManagerAssumption DEF TypeOK, ListInv
        <3>. QED  BY <3>1, <3>2
    <2>2. b.qtag = new /\ b.from = "Bounce.Code" /\ b.kind = "MESSAGE" /\ b.state = first
        <3>1. tag = new /\ tag \in Tags
            BY <1>4, NewTagsAreTags DEF NewTags
        <3>2. Bounce(tag) \in Message
            <4>1. NoTag \in Tags
                BY DEF Tags
            <4>. QED  BY <3>1, <4>1, NewIsMessage DEF Bounce
        <3>3. b.state = first
            BY <3>2 DEF SetState, Message
        <3>. QED  BY <3>1, <3>3, NewFields DEF Bounce
    <2>3. Continues(msg[x], m) /\ m.state = "DELETE_ME_STATE"
        BY <1>2, SetStateContinues DEF SetState, Message
    <2>4. \A id \in Ids : msg'[id] = IF id = x THEN m ELSE IF id = new THEN b
                                     ELSE IF id = qmsg THEN Nobody ELSE msg[id]
        BY <1>1, <1>2, <1>4, <2>1 DEF TypeOK
    <2>5. Queued' = (Queued \ {qmsg}) \cup {new} /\ Queued \subseteq Ids
        BY <1>1, <1>2, <1>4, <2>1, ConsElements, FrontQueued DEF Queued
    <2>6. /\ x \in HeldMessages /\ x \in Queued /\ x \in Ids /\ x # qmsg /\ x # new
          /\ new # qmsg /\ x \notin ReturnedMessages /\ qmsg \notin HeldMessages
        BY <1>1, <1>2, <1>4, <2>1 DEF HeldMessages, MayBounce, ReturnedMessages
    <2>7. created' = new /\ new = created + 1
        BY <1>4
    <2>8. first \notin Ends
        BY DEF BounceStates, Ends
    <2>. HIDE DEF new, b, x, m
    <2>9. HeldMessages' = HeldMessages \cup {new}
        BY <2>1, <2>2, <2>3, <2>4, <2>5, <2>6 DEF HeldMessages, Continues
    <2>10. ReturnedMessages' = ReturnedMessages \cup {new}
        <3>1. msg'[new].from = "Bounce.Code"
            BY <2>1, <2>2, <2>4, <2>6
        <3>2. \A id \in HeldMessages : msg'[id].from = msg[id].from
            BY <2>1, <2>3, <2>4, <2>5, <2>6 DEF HeldMessages, Continues
        <3>. QED  BY <2>9, <3>1, <3>2 DEF ReturnedMessages
    <2>11. EndedMessages' = EndedMessages \cup {x}
        <3>1. msg'[new].state \notin Ends /\ msg'[x].state \in Ends
            BY <2>1, <2>2, <2>3, <2>4, <2>6, <2>8 DEF Ends
        <3>2. \A id \in HeldMessages \ {x} : msg'[id].state = msg[id].state
            BY <2>1, <2>4, <2>5, <2>6 DEF HeldMessages
        <3>. QED  BY <2>6, <2>9, <3>1, <3>2 DEF EndedMessages, Ends
    <2>12. SF!Return(x, new)
        BY <1>4, <2>6, <2>7, <2>9, <2>10, <2>11 DEF SF!Return, SF!Enter
    <2>13. ASSUME NEW id \in Queued' PROVE Stays(id) \/ NewRequest(id)
        <3>1. CASE id = new
            BY <2>1, <2>2, <2>4, <2>6, <2>7, <3>1 DEF NewRequest
        <3>2. CASE id = x
            <4>1. sends[id] \in Nat
                BY <2>6, <3>2 DEF TypeOK
            <4>2. msg'[id] = m
                BY <2>4, <2>6, <3>2
            <4>. QED  BY <1>4, <2>3, <2>6, <3>2, <4>1, <4>2
                      DEF Stays, Continues, HeldMessages
        <3>3. CASE id # new /\ id # x
            <4>1. id \in Queued /\ id # qmsg /\ id \in Ids /\ sends[id] \in Nat
                BY <2>5, <3>3 DEF TypeOK
            <4>2. msg'[id] = msg[id]
                BY <2>4, <3>3, <4>1
            <4>. QED  BY <1>4, <4>1, <4>2 DEF Stays
        <3>. QED  BY <3>1, <3>2, <3>3
    <2>. QED  BY <1>4, <2>1, <2>6, <2>7, <2>12, <2>13 DEF Maps, TagShape, SF!Next
<1>. QED  BY <1>3, <1>4 DEF ResponseBounces

LEMMA HandleResponseMaps ==
    ASSUME ForwardInv, FreshTags, HandleResponse
    PROVE  Maps
<1>1. ASSUME ResponseDefers PROVE Maps
    <2>1. /\ Response({"1xx", "480", "5xx"}) /\ Matches # {}
          /\ Answered(IncreaseTimeout(msg[SentId]))
        BY <1>1 DEF ResponseDefers
    <2>2. msg[SentId] \in Message
        BY <2>1, FrontResponse, SentType DEF ForwardInv, Safe
    <2>. QED  BY <2>1, <2>2, IncreaseTimeoutIsMessage, SameContinues, AnsweredMaps
<1>2. ASSUME ResponseRedirects PROVE Maps
    <2>1. /\ Response({"3xx", "6xx"}) /\ Matches # {}
          /\ Answered(SetState(msg[SentId], "REQUEST_DESTINATION_IMSI"))
        BY <1>2 DEF ResponseRedirects
    <2>2. msg[SentId] \in Message
        BY <2>1, FrontResponse, SentType DEF ForwardInv, Safe
    <2>3. SetState(msg[SentId], "REQUEST_DESTINATION_IMSI") \in Message
        BY <2>2, SetStateIsMessage DEF sm_state
    <2>. QED  BY <2>1, <2>2, <2>3, SetStateContinues, AnsweredMaps
<1>. QED  BY <1>1, <1>2, IgnoreMaps, DeliveredMaps, BouncesMaps DEF HandleResponse

--------------------------------------------------------------------------------
(* Attempts *)

\* An attempt fails for good, is put off, or forwards the message once more.
LEMMA AttemptMaps ==
    ASSUME ForwardInv, PackFails \/ DropAfterRetries \/ RateLimit \/ Deliver
    PROVE  Maps
<1>. USE DEF ForwardInv, Safe
<1>1. /\ NonEmpty /\ qmsg \in HeldMessages /\ qmsg \in Ids /\ msg[qmsg] \in Message
      /\ msg[qmsg].kind # "RESPONSE" /\ msg[qmsg].state \notin Ends
    <2>1. Due(Requests, {"AWAITING_TRY_MSG_DELIVERY", "REQUEST_MSG_DELIVERY"})
        BY DEF PackFails, DropAfterRetries, RateLimit, Deliver, Delivering
    <2>. QED  BY <2>1, DueRequest DEF Due, Requests, Ends
<1>2. /\ Attempt \in Message /\ Packed \in Message
      /\ Continues(msg[qmsg], Attempt) /\ Continues(msg[qmsg], Packed)
      /\ Packed.retries = msg[qmsg].retries + 1
    BY <1>1, AttemptType, AttemptContinues
<1>3. qmsg \in Queued /\ Queued \subseteq Ids
    BY <1>1, FrontQueued
<1>4. ASSUME PackFails \/ DropAfterRetries PROVE Maps
    <2>1. /\ SetState(Attempt, "NO_STATE") \in Message
          /\ Continues(msg[qmsg], SetState(Attempt, "NO_STATE"))
          /\ SetState(Packed, "DELETE_ME_STATE") \in Message
          /\ Continues(msg[qmsg], SetState(Packed, "DELETE_ME_STATE"))
        BY <1>1, <1>2, SetStateIsMessage, ContinuesTwice DEF sm_state
    <2>2. /\ SetState(Attempt, "NO_STATE").state \in Ends
          /\ SetState(Packed, "DELETE_ME_STATE").state \in Ends
        BY <1>2 DEF SetState, Message, Ends
    <2>. QED  BY <1>1, <1>4, <2>1, <2>2, RequeueMaps DEF PackFails, DropAfterRetries
<1>5. ASSUME RateLimit PROVE Maps
    <2>. DEFINE late == [Packed EXCEPT !.due = @ + msSMSRateLimit]
                packed == [msg EXCEPT ![qmsg] = Packed]
    <2>1. Continues(msg[qmsg], late) /\ late.state \notin Ends
        <3>1. Packed.state \notin Ends
            <4>1. Attempt.state \notin Ends
                <5>1. SetState(msg[qmsg], "REQUEST_MSG_DELIVERY").state
                          = "REQUEST_MSG_DELIVERY"
                    BY <1>1 DEF SetState, Message
                <5>. QED  BY <1>1, <5>1 DEF Attempt, Ends, SetState, Message
            <4>. QED  BY <1>2, <4>1 DEF Packed, Message
        <3>. QED  BY <1>1, <1>2, <3>1 DEF Continues, Message
    <2>2. \A id \in Ids : msg'[id] = IF id = qmsg THEN late ELSE msg[id]
        BY <1>5 DEF RateLimit, TypeOK
    <2>3. Queued' = Queued
        <3>1. \A y \in Ids : packed[y].due \in Int
            BY <1>1, <1>2 DEF TypeOK, Message
        <3>2. \/ time_sorted_list' = time_sorted_list
              \/ time_sorted_list' = InsertByTime(Rest, packed, qmsg)
            BY <1>5 DEF RateLimit
        <3>. HIDE DEF packed
        <3>3. ToSet(InsertByTime(Rest, packed, qmsg)) = ToSet(Rest) \cup {qmsg}
            BY <1>1, <3>1, FrontType, FrontQueued, InsertByTimeElements
        <3>. QED  BY <1>1, <3>2, <3>3, FrontQueued DEF Queued
    <2>. HIDE DEF late, packed
    <2>4. UNCHANGED <<created, sent, sends, acked>>
        BY <1>5 DEF RateLimit
    <2>5. /\ HeldMessages' = HeldMessages /\ ReturnedMessages' = ReturnedMessages
          /\ EndedMessages' = EndedMessages \ {qmsg}
        BY <1>1, <1>3, <2>1, <2>2, <2>3, OneTouched DEF Untouched
    <2>6. qmsg \notin EndedMessages
        BY <1>1 DEF EndedMessages, Ends
    <2>7. ASSUME NEW id \in Queued' PROVE Stays(id)
        <3>1. id \in Queued /\ id \in Ids /\ sends[id] \in Nat
            BY <1>3, <2>3 DEF TypeOK
        <3>2. CASE id = qmsg  BY <1>1, <2>1, <2>2, <2>4, <3>1, <3>2 DEF Stays, Continues
        <3>3. CASE id # qmsg  BY <2>2, <2>4, <3>1, <3>3 DEF Stays
        <3>. QED  BY <3>2, <3>3
    <2>. QED  BY <2>4, <2>5, <2>6, <2>7 DEF Maps, TagShape, SF!vars
<1>6. ASSUME Deliver PROVE Maps
    <2>. DEFINE m == SetState(Packed, "ASKED_FOR_MSG_DELIVERY")
    <2>1. /\ m \in Message /\ Continues(msg[qmsg], m) /\ m.state \notin Ends
        <3>1. m.state = "ASKED_FOR_MSG_DELIVERY"
            BY <1>2 DEF SetState, Message
        <3>. QED  BY <1>1, <1>2, <3>1, SetStateIsMessage, ContinuesTwice DEF sm_state, Ends
    <2>2. /\ Queued' = Queued
          /\ \A id \in Ids : msg'[id] = IF id = qmsg THEN m ELSE msg[id]
        BY <1>1, <1>6, <2>1, RequeueList DEF Deliver
    <2>. HIDE DEF m
    <2>3. /\ HeldMessages' = HeldMessages /\ ReturnedMessages' = ReturnedMessages
          /\ EndedMessages' = EndedMessages \ {qmsg}
        BY <1>1, <1>3, <2>1, <2>2, OneTouched DEF Untouched
    <2>4. qmsg \notin EndedMessages
        BY <1>1 DEF EndedMessages, Ends
    <2>5. max_retries > 0 => sends[qmsg] < max_retries
        <3>1. sends[qmsg] <= msg[qmsg].retries /\ sends[qmsg] \in Nat
              /\ msg[qmsg].retries \in Nat
            BY <1>1 DEF SendsInv, TypeOK, Message
        <3>2. Attempt.retries = msg[qmsg].retries + 1
            BY <1>1, AttemptContinues
        <3>3. max_retries > 0 => msg[qmsg].retries + 1 <= max_retries
            BY <1>6, <3>1, <3>2, RateLimitInNat DEF Deliver, RetriesExceeded
        <3>. QED  BY <3>1, <3>3, RateLimitInNat
    <2>6. /\ sends' = [sends EXCEPT ![qmsg] = @ + 1]
          /\ sent' = sent \cup {<<msg[qmsg].qtag, msg[qmsg].from>>}
          /\ UNCHANGED <<created, acked>>
        BY <1>6 DEF Deliver
    <2>7. SF!Forward(qmsg)
        BY <2>3, <2>4, <2>5, <2>6 DEF SF!Forward
    <2>8. \A id \in Ids : sends[id] \in Nat /\ sends'[id] \in Nat /\ sends'[id] >= sends[id]
        BY <2>6 DEF TypeOK
    <2>9. sends'[qmsg] > 0
        BY <1>1, <2>6 DEF TypeOK
    <2>10. msg[qmsg].qtag = qmsg
        BY <1>1, <1>3 DEF TagInv
    <2>11. ASSUME NEW s \in sent' \ sent
           PROVE  s[1] \in Queued /\ s[1] \in Queued' /\ sends'[s[1]] > 0
        BY <1>3, <2>2, <2>6, <2>9, <2>10
    <2>12. ASSUME NEW id \in Queued' PROVE Stays(id)
        <3>1. id \in Queued /\ id \in Ids
            BY <1>3, <2>2
        <3>2. CASE id = qmsg  BY <1>1, <2>1, <2>2, <2>8, <3>1, <3>2 DEF Stays, Continues
        <3>3. CASE id # qmsg  BY <2>2, <2>8, <3>1, <3>3 DEF Stays
        <3>. QED  BY <3>2, <3>3
    <2>13. TagShape
        BY <2>6, <2>11, <2>12 DEF TagShape
    <2>. QED  BY <1>1, <2>7, <2>13 DEF Maps, SF!Next
<1>. QED  BY <1>4, <1>5, <1>6

--------------------------------------------------------------------------------
(* Every step *)

LEMMA RegisterHandsetMaps ==
    ASSUME ForwardInv, FreshTags, NonEmpty, qmsg \in HeldMessages,
           msg[qmsg].state \notin Ends,
           NEW m \in Message, Continues(msg[qmsg], m), RegisterHandset(m)
    PROVE  Maps
<1>1. /\ \A s \in sm_state :
             SetState(m, s) \in Message /\ Continues(msg[qmsg], SetState(m, s))
      /\ m.qtag \in Tags
    BY FrontType, SetStateIsMessage, ContinuesTwice DEF ForwardInv, Safe, Message
<1>2. ASSUME NEW tag \in NewTags,
             OriginateAndRequeue(New("REGISTER", tag, "user", m.qtag, "none"),
                                 "REQUEST_MSG_DELIVERY",
                                 SetState(m, "ASKED_TO_REGISTER_HANDSET"))
      PROVE  Maps
    BY <1>1, <1>2, OriginateMaps DEF sm_state, Ends
<1>3. ASSUME Requeue(SetState(m, "DELETE_ME_STATE")),
             UNCHANGED <<created, sent, elapsed, mode, sends, waited, acked>>
      PROVE  Maps
    <2>1. SetState(m, "DELETE_ME_STATE").state \in Ends
        BY DEF SetState, Message, Ends
    <2>. QED  BY <1>1, <1>3, <2>1, RequeueMaps DEF sm_state
<1>. QED  BY <1>2, <1>3 DEF RegisterHandset

LEMMA DoneIsEnd ==
    ASSUME NEW m \in Message
    PROVE  /\ SetState(m, "DELETE_ME_STATE") \in Message
           /\ Continues(m, SetState(m, "DELETE_ME_STATE"))
           /\ SetState(m, "DELETE_ME_STATE").state \in Ends
<1>1. SetState(m, "DELETE_ME_STATE") \in Message
    BY SetStateIsMessage DEF sm_state
<1>2. SetState(m, "DELETE_ME_STATE").state = "DELETE_ME_STATE"
    BY DEF SetState, Message
<1>. QED  BY <1>1, <1>2, SetStateContinues DEF Ends

LEMMA ShortCodeMaps ==
    ASSUME ForwardInv, FreshTags, HandleShortCode
    PROVE  Maps
<1>1. /\ NonEmpty /\ qmsg \in HeldMessages /\ msg[qmsg] \in Message
      /\ msg[qmsg].state \notin Ends
    <2>1. Due({"MESSAGE"}, {"INITIAL_STATE"})
        BY DEF HandleShortCode, ShortCodeReply, ShortCodeError, ShortCodeDone,
               ShortCodeAwait, ShortCodeRegister, ShortCodeRestart, ShortCodeRetry,
               ShortCodeQuit, ShortCode
    <2>. QED  BY <2>1, DueRequest DEF Due, Requests, Ends
<1>2. /\ SetState(msg[qmsg], "DELETE_ME_STATE") \in Message
      /\ Continues(msg[qmsg], SetState(msg[qmsg], "DELETE_ME_STATE"))
      /\ SetState(msg[qmsg], "DELETE_ME_STATE").state \in Ends
      /\ Continues(msg[qmsg], msg[qmsg])
    BY <1>1, DoneIsEnd, SameContinues
<1>3. ASSUME ShortCodeReply PROVE Maps
    <2>1. ASSUME NEW tag \in NewTags,
                 OriginateAndRequeue(New("MESSAGE", tag, "user", NoTag, "none"),
                                     "REQUEST_DESTINATION_SIPURL",
                                     SetState(msg[qmsg], "DELETE_ME_STATE"))
          PROVE  Maps
        BY <1>1, <1>2, <2>1, OriginateMaps DEF sm_state, Tags, Ends
    <2>. QED  BY <1>1, <1>3, <2>1, MoveToMaps DEF ShortCodeReply, sm_state
<1>4. ASSUME ShortCodeError \/ ShortCodeDone \/ ShortCodeAwait \/ ShortCodeRestart
      PROVE  Maps
    BY <1>1, <1>4, MoveToMaps
       DEF ShortCodeError, ShortCodeDone, ShortCodeAwait, ShortCodeRestart, sm_state
<1>5. ASSUME ShortCodeRegister PROVE Maps
    BY <1>1, <1>2, <1>5, RegisterHandsetMaps DEF ShortCodeRegister
<1>6. ASSUME ShortCodeRetry PROVE Maps
    <2>. DEFINE m == [msg[qmsg] EXCEPT !.retries = @ + 1]
    <2>1. m \in Message /\ Continues(msg[qmsg], m)
        BY <1>1 DEF Message, Continues
    <2>2. SetState(m, "REQUEST_FROM_ADDRESS_LOOKUP") \in Message
          /\ Continues(msg[qmsg], SetState(m, "REQUEST_FROM_ADDRESS_LOOKUP"))
        BY <1>1, <2>1, SetStateIsMessage, ContinuesTwice DEF sm_state
    <2>. QED  BY <1>1, <1>6, <2>2, RequeueMaps DEF ShortCodeRetry
<1>7. ASSUME ShortCodeQuit PROVE Maps
    BY <1>1, <1>2, <1>7, RequeueMaps DEF ShortCodeQuit
<1>. QED  BY <1>3, <1>4, <1>5, <1>6, <1>7 DEF HandleShortCode

\* Neither time nor a crash changes what the abstract queue sees.
LEMMA StutterMaps ==
    ASSUME ForwardInv, UNCHANGED <<time_sorted_list, created, sent, sends, acked>>,
           \A id \in Ids : msg'[id] = [msg[id] EXCEPT !.due = @ - 1] \/ msg'[id] = msg[id]
    PROVE  Maps
<1>. USE DEF ForwardInv, Safe
<1>1. Queued' = Queued /\ Queued \subseteq Ids
    BY ElementOfSeq DEF Queued, TypeOK, ToSet
<1>2. \A id \in Queued : /\ msg'[id].kind = msg[id].kind /\ msg'[id].state = msg[id].state
                         /\ msg'[id].from = msg[id].from /\ msg'[id].qtag = msg[id].qtag
                         /\ sends[id] \in Nat
    BY <1>1 DEF TypeOK, Message
<1>3. HeldMessages' = HeldMessages
    BY <1>1, <1>2 DEF HeldMessages
<1>4. EndedMessages' = EndedMessages /\ ReturnedMessages' = ReturnedMessages
    BY <1>2, <1>3 DEF EndedMessages, ReturnedMessages, HeldMessages
<1>5. \A id \in Queued' : Stays(id)
    BY <1>1, <1>2 DEF Stays
<1>. QED  BY <1>3, <1>4, <1>5 DEF Maps, TagShape, SF!vars

LEMMA ProcessTimeoutMaps ==
    ASSUME ForwardInv, FreshTags, ProcessTimeout
    PROVE  Maps
<1>1. ASSUME RejectMethod \/ OrdinaryMessage PROVE Maps
    <2>1. NonEmpty /\ qmsg \in HeldMessages /\ msg[qmsg].state \notin Ends
        BY <1>1, DueRequest DEF RejectMethod, OrdinaryMessage, Due, Requests, Ends
    <2>. QED  BY <1>1, <2>1, MoveToMaps DEF RejectMethod, OrdinaryMessage, sm_state
<1>2. ASSUME LookupFromAddress PROVE Maps
    <2>. DEFINE m == IF msg[qmsg].state \in Unexpected
                     THEN SetState(msg[qmsg], "INITIAL_STATE") ELSE msg[qmsg]
    <2>1. /\ NonEmpty /\ qmsg \in HeldMessages /\ msg[qmsg] \in Message
          /\ msg[qmsg].state \notin Ends
        BY <1>2, DueRequest DEF LookupFromAddress, Due, Requests, Ends, Unexpected
    <2>2. m \in Message /\ Continues(msg[qmsg], m)
        <3>1. SetState(msg[qmsg], "INITIAL_STATE") \in Message
            BY <2>1, SetStateIsMessage DEF sm_state
        <3>. QED  BY <2>1, <3>1, SetStateContinues, SameContinues
    <2>3. PICK newstate \in {"NO_STATE", "REQUEST_DESTINATION_IMSI"} :
              Requeue(SetState(m, newstate))
        BY <1>2 DEF LookupFromAddress
    <2>. HIDE DEF m
    <2>4. SetState(m, newstate) \in Message /\ Continues(msg[qmsg], SetState(m, newstate))
        BY <2>1, <2>2, SetStateIsMessage, ContinuesTwice DEF sm_state
    <2>5. UNCHANGED <<created, sent, sends, acked>>
        BY <1>2 DEF LookupFromAddress
    <2>. QED  BY <2>1, <2>3, <2>4, <2>5, RequeueMaps
<1>3. ASSUME LookupUriImsi PROVE Maps
    <2>1. /\ NonEmpty /\ qmsg \in HeldMessages /\ msg[qmsg] \in Message
          /\ msg[qmsg].state \notin Ends
        BY <1>3, DueRequest DEF LookupUriImsi, Due, Requests, Ends
    <2>2. ASSUME MoveTo("NO_STATE") \/ MoveTo("REQUEST_DESTINATION_SIPURL")
          PROVE  Maps
        BY <2>1, <2>2, MoveToMaps DEF sm_state
    <2>3. ASSUME NEW tag \in NewTags, NEW first \in BounceStates, MayBounce(qmsg),
                 OriginateAndRequeue(Bounce(tag), first,
                                     SetState(msg[qmsg], "DELETE_ME_STATE"))
          PROVE  Maps
        <3>1. /\ SetState(msg[qmsg], "DELETE_ME_STATE") \in Message
              /\ Continues(msg[qmsg], SetState(msg[qmsg], "DELETE_ME_STATE"))
              /\ SetState(msg[qmsg], "DELETE_ME_STATE").state \in Ends
            BY <2>1, DoneIsEnd
        <3>2. first \in sm_state /\ first \notin Ends /\ NoTag \in Tags
            BY DEF BounceStates, sm_state, Tags, Ends
        <3>. QED  BY <2>1, <2>3, <3>1, <3>2, OriginateMaps DEF Bounce
    <2>. QED  BY <1>3, <2>2, <2>3 DEF LookupUriImsi
<1>4. ASSUME CrashInLookup PROVE Maps
    BY <1>4, StutterMaps DEF CrashInLookup
<1>5. ASSUME LookupUriHostport \/ NoAnswer \/ AwaitRegister \/ NoRegisterAnswer PROVE Maps
    <2>1. NonEmpty /\ qmsg \in HeldMessages /\ msg[qmsg].state \notin Ends
        BY <1>5, DueRequest DEF LookupUriHostport, NoAnswer, AwaitRegister,
                                NoRegisterAnswer, Due, Requests, Ends
    <2>. QED  BY <1>5, <2>1, MoveToMaps DEF LookupUriHostport, NoAnswer, AwaitRegister,
                                            NoRegisterAnswer, sm_state
<1>6. ASSUME Register PROVE Maps
    <2>1. /\ NonEmpty /\ qmsg \in HeldMessages /\ msg[qmsg] \in Message
          /\ msg[qmsg].state \notin Ends
        BY <1>6, DueRequest DEF Register, Due, Requests, Ends
    <2>2. /\ SetState(msg[qmsg], "REGISTER_HANDSET") \in Message
          /\ Continues(msg[qmsg], SetState(msg[qmsg], "REGISTER_HANDSET"))
        BY <2>1, SetStateIsMessage, SetStateContinues DEF sm_state
    <2>. QED  BY <1>6, <2>1, <2>2, RegisterHandsetMaps DEF Register
<1>. QED  BY <1>1, <1>2, <1>3, <1>4, <1>5, <1>6, DeleteMaps, ShortCodeMaps,
             HandleResponseMaps, AttemptMaps DEF ProcessTimeout

LEMMA StepMaps ==
    ASSUME ForwardInv, FreshTags, SerialResponses, [Next]_vars
    PROVE  Maps
<1>. USE DEF ForwardInv, Safe
<1>1. ASSUME ReceiveRequest PROVE Maps
    <2>1. PICK kind \in RequestKinds, tag \in NewTags :
              Arrive(New(kind, tag, "user", NoTag, "none"))
        BY <1>1 DEF ReceiveRequest
    <2>2. kind \in {"MESSAGE", "OTHER"} /\ tag = created + 1
        BY ManagerAssumption DEF NewTags
    <2>. QED  BY <2>1, <2>2, ArriveMaps
<1>2. ASSUME ReceiveResponse PROVE Maps
    <2>1. PICK s \in sent, status \in Statuses :
              /\ \A i \in Tagged(time_sorted_list, msg, s[1]) :
                     msg[time_sorted_list[i]].kind # "RESPONSE"
              /\ Arrive(New("RESPONSE", s[1], s[2], NoTag, status))
        BY <1>2 DEF ReceiveResponse
    <2>2. \A j \in Queued : msg[j].kind = "RESPONSE" => msg[j].qtag # s[1]
        BY <2>1 DEF Queued, ToSet, Tagged, TypeOK
    <2>. QED  BY <2>1, <2>2, ArriveMaps
<1>3. ASSUME Tick PROVE Maps
    <2>1. UNCHANGED <<time_sorted_list, created, sent, sends, acked>>
        BY <1>3 DEF Tick
    <2>2. \A id \in Ids : msg'[id] = [msg[id] EXCEPT !.due = @ - 1] \/ msg'[id] = msg[id]
        BY <1>3 DEF Tick
    <2>. QED  BY <2>1, <2>2, StutterMaps
<1>4. ASSUME UNCHANGED vars PROVE Maps
    <2>1. UNCHANGED <<time_sorted_list, msg, created, sent, sends, acked>>
        BY <1>4 DEF vars
    <2>. QED  BY <2>1, StutterMaps
<1>. QED  BY <1>1, <1>2, <1>3, <1>4, ProcessTimeoutMaps DEF Next

\* Tags stay what TagInv says when they are fresh and answers come one at a time.
LEMMA ForwardInvariant ==
    ASSUME FreshTags, SerialResponses
    PROVE  Spec => []ForwardInv
<1>1. ASSUME Init, Safe PROVE ForwardInv
    BY <1>1 DEF Init, ForwardInv, TagInv, Queued, ToSet
<1>2. ASSUME ForwardInv, [Next]_vars, Safe' PROVE ForwardInv'
    <2>1. TagShape /\ TypeOK'
        BY <1>2, StepMaps DEF Maps, Safe
    <2>. QED  BY <1>2, <2>1, TagShapeInv DEF ForwardInv
<1>. QED  BY <1>1, <1>2, Safety, PTL DEF Spec

\* The queue of SmqManager keeps the promises of a store-and-forward queue: whatever
\* the delays, the retry limit and the number of messages, every step of its handlers,
\* timers and answers is one that StoreAndForward allows.
THEOREM Implements ==
    ASSUME FreshTags, SerialResponses
    PROVE  Spec => Forwards
<1>1. Init => SF!Init
    BY DEF Init, SF!Init, HeldMessages, EndedMessages, ReturnedMessages, Queued, ToSet
<1>2. ForwardInv /\ [Next]_vars => [SF!Next]_(SF!vars)
    BY StepMaps DEF Maps
<1>. QED  BY <1>1, <1>2, ForwardInvariant, PTL DEF Spec, Forwards, SF!Spec

\* Also while answers and redirections cross, a response is never routed as a request.
THEOREM ResponsesConsumed ==
    ASSUME FreshTags, SerialResponses
    PROVE  Spec => []ResponsesAreConsumed
<1>1. ForwardInv => ResponsesAreConsumed
    BY DEF ForwardInv, TagInv, ResponsesAreConsumed
<1>. QED  BY <1>1, ForwardInvariant, PTL

\* What StoreAndForward promises of a delivered message: it was taken in once, and is
\* not held any more.
AckedInv ==
    /\ HeldMessages \cup acked \subseteq 1..created
    /\ HeldMessages \cap acked = {}

LEMMA AckedStep ==
    ASSUME created \in Nat, AckedInv, [SF!Next]_(SF!vars)
    PROVE  AckedInv'
<1>1. ASSUME NEW new, SF!Enter(new), UNCHANGED acked PROVE AckedInv'
    <2>1. created' = created + 1 /\ HeldMessages' = HeldMessages \cup {created + 1}
        BY <1>1 DEF SF!Enter
    <2>2. /\ 1..created \subseteq 1..(created + 1)
          /\ created + 1 \in 1..(created + 1) /\ created + 1 \notin 1..created
        OBVIOUS
    <2>. QED  BY <1>1, <2>1, <2>2 DEF AckedInv
<1>2. ASSUME SF!Hear PROVE AckedInv'
    <2>1. 1..created \subseteq 1..(created + 1)
        OBVIOUS
    <2>. QED  BY <1>2, <2>1 DEF SF!Hear, AckedInv
<1>3. ASSUME NEW id \in HeldMessages,
             SF!Forward(id) \/ SF!End(id) \/ SF!Resume(id) \/ SF!Discard(id) \/ SF!Deliver(id)
      PROVE  AckedInv'
    BY <1>3 DEF SF!Forward, SF!End, SF!Resume, SF!Discard, SF!Deliver, SF!Leave, AckedInv
<1>4. ASSUME UNCHANGED SF!vars PROVE AckedInv'
    BY <1>4 DEF SF!vars, AckedInv
<1>. QED  BY <1>1, <1>2, <1>3, <1>4 DEF SF!Next, SF!Accept, SF!Return

\* A delivered message is gone: no lookup, timer or late answer brings it back.
THEOREM DeliveredStaysGone ==
    ASSUME FreshTags, SerialResponses
    PROVE  Spec => []DeliveredIsGone
<1>1. Init => AckedInv
    BY DEF Init, AckedInv, HeldMessages, Queued, ToSet
<1>2. ForwardInv /\ [Next]_vars /\ AckedInv => AckedInv'
    <2>1. ForwardInv => created \in Nat
        BY ManagerAssumption DEF ForwardInv, Safe, TypeOK
    <2>. QED  BY <2>1, StepMaps, AckedStep DEF Maps
<1>3. ForwardInv /\ AckedInv => DeliveredIsGone
    BY DEF ForwardInv, TagInv, AckedInv, HeldMessages, DeliveredIsGone
<1>. QED  BY <1>1, <1>2, <1>3, ForwardInvariant, PTL DEF Spec

\* A request leaves the list in error, done, or sent and answered by a 2xx.
THEOREM LeavesOnlyWhenDone ==
    ASSUME FreshTags, SerialResponses
    PROVE  Spec => LeavesWhenDone
<1>1. ASSUME ForwardInv, [Next]_vars, NEW id \in Queued \ Queued'
      PROVE  \/ msg[id].kind = "RESPONSE"
             \/ msg[id].state \in {"NO_STATE", "DELETE_ME_STATE"}
             \/ sends[id] > 0 /\ msg[id].qtag \in acked'
    <2>. SUFFICES ASSUME msg[id].kind # "RESPONSE"
                  PROVE  id \in EndedMessages \/ (sends[id] > 0 /\ id \in acked')
        BY <1>1 DEF EndedMessages, ForwardInv, TagInv
    <2>1. id \in HeldMessages /\ id \notin HeldMessages'
        BY <1>1 DEF HeldMessages
    <2>2. HeldMessages # HeldMessages' /\ SF!Next
        BY <1>1, <2>1, StepMaps DEF Maps, SF!vars
    <2>3. PICK x \in HeldMessages : SF!Discard(x) \/ SF!Deliver(x)
        BY <2>1, <2>2 DEF SF!Next, SF!Hear, SF!Accept, SF!Return, SF!Enter, SF!Forward,
                          SF!End, SF!Resume
    <2>4. x = id
        BY <2>1, <2>3 DEF SF!Discard, SF!Deliver, SF!Leave
    <2>. QED  BY <2>3, <2>4 DEF SF!Discard, SF!Deliver
<1>2. ForwardInv /\ [Next]_vars =>
          [\A id \in Queued \ Queued' :
               \/ msg[id].kind = "RESPONSE"
               \/ msg[id].state \in {"NO_STATE", "DELETE_ME_STATE"}
               \/ sends[id] > 0 /\ msg[id].qtag \in acked']_vars
    BY <1>1
<1>. QED  BY <1>2, ForwardInvariant, PTL DEF Spec, LeavesWhenDone

================================================================================
