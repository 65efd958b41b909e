--------------------------- MODULE MCExternalSync ---------------------------
(* TLC instances of ExternalSync: a polled booking and one that comes by    *)
(* mail, which may want the same slot.                                      *)
EXTENDS ExternalSync

CONSTANTS b1, b2, w1, w2, s1, s2
=============================================================================
