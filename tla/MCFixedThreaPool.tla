-------------------------- MODULE MCFixedThreaPool --------------------------
(***************************************************************************)
(* Model checking of FixedThreaPool: two workers, two submitting threads    *)
(* and three tasks, so that a submit can race with another submit, with a   *)
(* worker about to block and with the destructor.                           *)
(***************************************************************************)
EXTENDS FixedThreaPool
=============================================================================
