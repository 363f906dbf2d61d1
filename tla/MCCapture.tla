----------------------------- MODULE MCCapture -----------------------------
(* Instances of the capture hand-off: one caller, or two concurrent ones.  *)
EXTENDS Capture

=============================================================================
