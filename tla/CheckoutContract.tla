-------------------------- MODULE CheckoutContract --------------------------
(***************************************************************************)
(* What a checkout promises to a customer and to the shop, with no         *)
(* services, events or databases in it: an order is placed, its card is    *)
(* charged or declined once, stock is held for it or refused once, and     *)
(* these two facts alone decide what becomes of it.                        *)
(***************************************************************************)
CONSTANT Orders

VARIABLES
    status,   \* status[o]: what the shop shows for the order
    payment,  \* payment[o]: what happened to the customer's card
    stock,    \* stock[o]: what happened to the goods
    mails     \* mails[o]: the kinds of mail the customer received

contractVars == <<status, payment, stock, mails>>

Init ==
    /\ status = [o \in Orders |-> "ABSENT"]
    /\ payment = [o \in Orders |-> "NONE"]
    /\ stock = [o \in Orders |-> "NONE"]
    /\ mails = [o \in Orders |-> {}]

Place(o) ==
    /\ status[o] = "ABSENT"
    /\ status' = [status EXCEPT ![o] = "PENDING"]
    /\ UNCHANGED <<payment, stock, mails>>

\* A placed order is charged at most once, even one already cancelled.
ChargeCard(o) ==
    /\ status[o] # "ABSENT"
    /\ payment[o] = "NONE"
    /\ \E outcome \in {"COMPLETED", "FAILED"} :
          payment' = [payment EXCEPT ![o] = outcome]
    /\ UNCHANGED <<status, stock, mails>>

\* Stock is decided on at most once: held, or refused for good.
DecideStock(o) ==
    /\ status[o] # "ABSENT"
    /\ stock[o] = "NONE"
    /\ \E outcome \in {"RESERVED", "REFUSED"} :
          stock' = [stock EXCEPT ![o] = outcome]
    /\ UNCHANGED <<status, payment, mails>>

Confirm(o) ==
    /\ status[o] = "PENDING"
    /\ payment[o] = "COMPLETED"
    /\ stock[o] = "RESERVED"
    /\ status' = [status EXCEPT ![o] = "CONFIRMED"]
    /\ UNCHANGED <<payment, stock, mails>>

Cancel(o) ==
    /\ status[o] = "PENDING"
    /\ payment[o] = "FAILED" \/ stock[o] = "REFUSED"
    /\ status' = [status EXCEPT ![o] = "CANCELLED"]
    /\ UNCHANGED <<payment, stock, mails>>

ReturnStock(o) ==
    /\ status[o] = "CANCELLED"
    /\ stock[o] = "RESERVED"
    /\ stock' = [stock EXCEPT ![o] = "RELEASED"]
    /\ UNCHANGED <<status, payment, mails>>

SendMail(o) ==
    /\ \E kind \in {"ORDER_CONFIRMED", "PAYMENT_FAILED"} \ mails[o] :
          /\ kind = "ORDER_CONFIRMED" => status[o] = "CONFIRMED"
          /\ kind = "PAYMENT_FAILED" => payment[o] = "FAILED"
          /\ mails' = [mails EXCEPT ![o] = @ \cup {kind}]
    /\ UNCHANGED <<status, payment, stock>>

Next ==
    \E o \in Orders :
        \/ Place(o)
        \/ ChargeCard(o)
        \/ DecideStock(o)
        \/ Confirm(o)
        \/ Cancel(o)
        \/ ReturnStock(o)
        \/ SendMail(o)

Spec == Init /\ [][Next]_contractVars
=============================================================================
