-------------------------- MODULE MCForwardedStream --------------------------
(* ForwardedStream for TLC: two chunks each way through buffers of one, and *)
(* X clients that offer the cookie with a tail, half of it, or another one. *)
EXTENDS ForwardedStream

Fake == <<1, 2>>
Offered == {<<1, 2, 3>>, <<1>>, <<2, 1>>}
=============================================================================
