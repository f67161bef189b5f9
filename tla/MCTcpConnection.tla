------------------------------ MODULE MCTcpConnection -----------------------------
(***************************************************************************)
(* TcpConnection for TLC, with what it takes scramble for: one value of    *)
(* the challenge has one right answer.  The answer is computed here, bit   *)
(* by bit, for some challenges; TcpConnectionProofs has the rest.          *)
(***************************************************************************)
EXTENDS TcpConnection, Scramble

\* Bits at either end of a word, of its low seven bytes and of a digit.
SampleWords == SUBSET {0, 3, 4, 55, 56, 63}

\* scramble(0) is 0xC00411301ED9FA97.
ASSUME ZeroScrambled ==
  scramble({}) = OfDigits(<<7, 9, 10, 15, 9, 13, 14, 1, 0, 3, 1, 1, 4, 0, 0, 12>>)

\* Two challenges have the same answer when they differ in the top byte only.
ASSUME SamplesAgree ==
  \A a, b \in SampleWords :
     scramble(a) = scramble(b) <=> a \cap Seen = b \cap Seen
================================================================================
