----------------------------- MODULE MCSessions -----------------------------
(* Instances of Sessions for TLC.                                          *)
EXTENDS Sessions, TLC

CONSTANTS ann1, ann2, bob1, ann, bob

\* One person signs in twice, at the same time or again; another one once.
MCIdentityOf == ann1 :> ann @@ ann2 :> ann @@ bob1 :> bob

=============================================================================
