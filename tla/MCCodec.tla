------------------------------ MODULE MCCodec ------------------------------
(* Instance values for TLC: bodies of our own that look like headers. *)
EXTENDS CodecProperties

LengthsSmall == {0, 1}
BodiesTricky == {<<>>, <<Sym("bad")>>, <<Sym("newline"), Sym("newline")>>,
                 <<Length(1), Sym("newline"), Sym("newline"), Sym("text")>>}
============================================================================
