------------------------ MODULE MCSessionForensics ------------------------
(* A small instance: two causes, a greeting of two bytes, every chunk of   *)
(* one or two bytes over two byte values and one that is longer.           *)
EXTENDS SessionForensics

MCBanner == <<1, 1>>
MCChunks == {<<1>>, <<0>>, <<1, 1>>, <<1, 0>>, <<0, 1>>, <<1, 1, 1>>}
=============================================================================
