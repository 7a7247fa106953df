-------------------------- MODULE MCChatGeneration --------------------------
(* ChatGeneration for TLC: two stop sequences, ab listed before bb, and a wide
   letter w.  With tokens that share a buffer there are texts with one sequence
   cut into tokens of two generations (a, b), with the second listed in front of
   the first (b, bab), and with wide letters in front of one (ww, bab). *)
EXTENDS ChatGeneration
CONSTANTS a, b, w
AllLetters == {a, b, w}
WideLetters == {w}
Listed == <<<<a, b>>, <<b, b>>>>
Emitted == <<{<<b>>, <<w, w>>}, {<<a>>, <<b, a, b>>}, {<<b>>}>>
EmittedTwo == <<{<<a>>}, {<<b>>, <<w>>}>>
=============================================================================
