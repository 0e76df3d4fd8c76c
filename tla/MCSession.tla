------------------------------ MODULE MCSession ------------------------------
(* Two users, the first with a load limit, and two hosts of which only one   *)
(* may bring the second user.                                                *)
EXTENDS Session, TLC

CONSTANTS s1, s2, s3, u1, u2, d1, d2, h1, h2

MCUsers == {u1, u2}
MCSchemas == {d1, d2}
MCGrants == u1 :> {d1, d2} @@ u2 :> {d2}
MCBenchmark == u1 :> 2 @@ u2 :> 0
MCHost == s1 :> h1 @@ s2 :> h1 @@ s3 :> h2
MCWhite == h1 :> {u1, u2} @@ h2 :> {u1}
=============================================================================
