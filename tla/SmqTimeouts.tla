------------------------------ MODULE SmqTimeouts ------------------------------
(***************************************************************************)
(* The processing states of a queued short message and the time that may   *)
(* pass in a state before process_timeout acts on it (enum sm_state of     *)
(* shortmsgpending.h, the timeout tables of shortmsgpending.cpp).          *)
(*                                                                         *)
(* The code counts milliseconds.  A model counts ticks: the constant Ticks *)
(* says how many ticks each delay of the tables lasts.  Only the order of  *)
(* the delays matters to the queue, so an instance may scale them down.    *)
(***************************************************************************)
EXTENDS Integers

CONSTANT Ticks

\* Every delay that occurs in the tables, in milliseconds, and the 60 s of
\* INCREASEACKEDMSGTMOMS.
Delays == {0, 1, 10, 60, 1000, 2000, 10000, 15000, 60000, 75000, 300000, 3000000}

ASSUME TicksAssumption ==
    /\ Ticks \in [Delays -> Nat]
    /\ Ticks[0] = 0
    /\ \A a, b \in Delays : a <= b => Ticks[a] <= Ticks[b]

sm_state ==
    { "NO_STATE", "INITIAL_STATE",
      "REQUEST_FROM_ADDRESS_LOOKUP", "ASKED_FOR_FROM_ADDRESS_LOOKUP",
      "AWAITING_TRY_DESTINATION_IMSI", "REQUEST_DESTINATION_IMSI",
      "ASKED_FOR_DESTINATION_IMSI",
      "AWAITING_TRY_DESTINATION_SIPURL", "REQUEST_DESTINATION_SIPURL",
      "ASKED_FOR_DESTINATION_SIPURL",
      "AWAITING_TRY_MSG_DELIVERY", "REQUEST_MSG_DELIVERY",
      "ASKED_FOR_MSG_DELIVERY",
      "DELETE_ME_STATE",
      "AWAITING_REGISTER_HANDSET", "REGISTER_HANDSET",
      "ASKED_TO_REGISTER_HANDSET" }

NT == 3000000    \* "No Timeout": 50 minutes
RT == 300000     \* "Re Try"

\* The states of the registration of a handset: their rows agree but for the
\* time after which the REGISTER is asked for again.
Registering ==
    {"AWAITING_REGISTER_HANDSET", "REGISTER_HANDSET", "ASKED_TO_REGISTER_HANDSET"}

\* The rows that retry a lookup, RT later, from scratch.
Retrying ==
    sm_state \ {"NO_STATE", "INITIAL_STATE", "REQUEST_FROM_ADDRESS_LOOKUP",
                "ASKED_FOR_FROM_ADDRESS_LOOKUP", "DELETE_ME_STATE"}

\* The states that are acted on at once when they are entered from old.
Immediate(old) ==
    {"DELETE_ME_STATE"} \cup
    CASE old = "NO_STATE" ->
           {"INITIAL_STATE", "REQUEST_FROM_ADDRESS_LOOKUP", "REQUEST_DESTINATION_IMSI",
            "REQUEST_DESTINATION_SIPURL", "REQUEST_MSG_DELIVERY"}
      [] old = "INITIAL_STATE" ->
           {"NO_STATE", "INITIAL_STATE", "REQUEST_FROM_ADDRESS_LOOKUP",
            "REQUEST_MSG_DELIVERY"}
      [] old = "REQUEST_FROM_ADDRESS_LOOKUP" ->
           {"NO_STATE", "REQUEST_DESTINATION_IMSI", "REGISTER_HANDSET"}
      [] old = "REQUEST_DESTINATION_IMSI" -> {"NO_STATE", "REQUEST_DESTINATION_SIPURL"}
      [] old \in {"REQUEST_DESTINATION_SIPURL", "AWAITING_TRY_MSG_DELIVERY"} ->
           {"NO_STATE", "REQUEST_MSG_DELIVERY"}
      [] old = "AWAITING_REGISTER_HANDSET" ->
           {"NO_STATE", "REQUEST_FROM_ADDRESS_LOOKUP", "REGISTER_HANDSET"}
      [] old \in {"REGISTER_HANDSET", "ASKED_TO_REGISTER_HANDSET"} ->
           {"NO_STATE", "REQUEST_FROM_ADDRESS_LOOKUP"}
      [] old = "DELETE_ME_STATE" -> sm_state
      [] OTHER -> {"NO_STATE"}

\* (*timeouts[old])[new], in milliseconds.
Timeout(old, new) ==
    CASE new \in Immediate(old) -> 0
      [] /\ old = "REQUEST_FROM_ADDRESS_LOOKUP"
         /\ new \in {"REQUEST_FROM_ADDRESS_LOOKUP", "ASKED_FOR_FROM_ADDRESS_LOOKUP"} -> 10
      [] /\ old = "REQUEST_FROM_ADDRESS_LOOKUP"
         /\ new = "AWAITING_REGISTER_HANDSET" -> 1
      [] /\ old = "ASKED_FOR_FROM_ADDRESS_LOOKUP"
         /\ new = "REQUEST_FROM_ADDRESS_LOOKUP" -> 60
      [] /\ old \in Retrying \ Registering
         /\ new = "REQUEST_FROM_ADDRESS_LOOKUP" -> RT
      [] /\ old \in Retrying \ {"ASKED_FOR_MSG_DELIVERY"}
         /\ new = "AWAITING_TRY_DESTINATION_IMSI" -> RT
      [] /\ old \in {"AWAITING_TRY_MSG_DELIVERY", "REQUEST_MSG_DELIVERY"}
         /\ new = "AWAITING_TRY_MSG_DELIVERY" -> 75000
      [] old = "REQUEST_MSG_DELIVERY" /\ new = "REQUEST_MSG_DELIVERY" -> 75000
      [] /\ old = "REQUEST_MSG_DELIVERY"
         /\ new \in {"REQUEST_DESTINATION_SIPURL", "ASKED_FOR_MSG_DELIVERY"} -> 15000
      [] old = "ASKED_FOR_MSG_DELIVERY" /\ new = "REQUEST_MSG_DELIVERY" -> 10000
      [] /\ old = "ASKED_FOR_MSG_DELIVERY"
         /\ new \in {"AWAITING_TRY_MSG_DELIVERY", "ASKED_FOR_MSG_DELIVERY"} -> 60000
      [] old \in Registering /\ new = "AWAITING_REGISTER_HANDSET" -> 1000
      [] /\ old \in {"REGISTER_HANDSET", "ASKED_TO_REGISTER_HANDSET"}
         /\ new = "REGISTER_HANDSET" -> 1000
      [] old = "REGISTER_HANDSET" /\ new = "ASKED_TO_REGISTER_HANDSET" -> 2000
      [] old = "ASKED_TO_REGISTER_HANDSET" /\ new = "ASKED_TO_REGISTER_HANDSET" -> 10000
      [] OTHER -> NT

================================================================================
