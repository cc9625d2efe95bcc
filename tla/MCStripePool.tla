---------------------------- MODULE MCStripePool ----------------------------
(* Two workers beside the main thread, three stripes and two jobs: enough    *)
(* for a worker to be late for a whole job and for three threads to race for *)
(* the last stripe.                                                          *)
EXTENDS StripePool
=============================================================================
