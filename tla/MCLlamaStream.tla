--------------------------- MODULE MCLlamaStream ---------------------------
(* Small instances of LlamaStream for TLC.                                 *)
EXTENDS LlamaStream

\* "ab" after "a" is both the next delta of a text and all of a longer text;
\* a delta may be empty.
SomeDeltas == {<<>>, <<"a">>, <<"a", "b">>}
=============================================================================
