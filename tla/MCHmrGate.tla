----------------------------- MODULE MCHmrGate -----------------------------
(* A source the gate is about with a file of the build output, batched one  *)
(* by one, or two sources that the debounce may put into one batch.         *)
EXTENDS HmrGate

CONSTANTS a, b, out
=============================================================================
