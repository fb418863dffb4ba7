---------------------------- MODULE MCEIAClient -----------------------------
(* Instances of EIAClient for TLC. *)
EXTENDS EIAClient, TLC

RetryAfters == {<<"none", 0>>, <<"unreadable", 0>>, <<"seconds", 0>>, <<"seconds", 5>>,
                <<"date", 100>>, <<"date", -3>>}
=============================================================================
