--------------------------- MODULE MCPaymentReads ---------------------------
EXTENDS PaymentReads
=============================================================================
