----------------------------- MODULE MCFraming -----------------------------
(* Instances of Framing: small headers, the delimiter two bytes of them.  *)
EXTENDS Framing

\* Empty payloads, small ones, one that fills the buffer exactly, and at last
\* one that is a byte too large for it.
SixPayloads == <<0, 2, 4, 1, 0, 5>>
=============================================================================
