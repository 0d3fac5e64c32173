------------------------------ MODULE MCLimits ------------------------------
(* Model checking Limits: instants around the windows, midnight and an hour's end. *)
EXTENDS Limits

SomeInstants == {0, 95, 105}
SomeStreams == {<<"BTC", "5M">>, <<"BTC", "1M">>}
SomeLosing == {<<"BTC", "1M">>, <<"ETH", "5M">>}
SomeReleases == {[at |-> 16, stars |-> 2], [at |-> 101, stars |-> 3]}
=============================================================================
