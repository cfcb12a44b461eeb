--------------------------- MODULE MCStripeCheckout ---------------------------
(* StripeCheckout for TLC; the configurations give the constants.          *)
EXTENDS StripeCheckout
===============================================================================
