\* A network that need not report a payment.
SPECIFICATION FairSpec
CONSTANTS
    p1 = p1
    p2 = p2
    p3 = p3
    h1 = h1
    h2 = h2
    NoPayment = NoPayment
    Payment <- MCPayment
    Hash <- MCHash
    PaymentHash <- MCPaymentHash
    ToRoute <- MCToRoute
CHECK_DEADLOCK FALSE
PROPERTY SendsAreNotHeldUp
