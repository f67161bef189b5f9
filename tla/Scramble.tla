--------------------------------- MODULE Scramble --------------------------------
(***************************************************************************)
(* AConnection::scramble, which computes the answer to a challenge of the  *)
(* handshake.  A uint64_t is the set of the positions of its one bits.     *)
(***************************************************************************)
EXTENDS Integers

Bits == 0..63
Word == SUBSET Bits

\* The operators of C++ on words.
Xor(a, b) == (a \ b) \cup (b \ a)
ShiftRight(a, n) == {i - n : i \in {j \in a : j >= n}}
ShiftLeft(a, n) == {i + n : i \in {j \in a : j + n <= 63}}

\* A constant of the code: its hexadecimal digits, the last one first.
OfDigits(d) == {i \in Bits : (d[(i \div 4) + 1] \div (2 ^ (i % 4))) % 2 = 1}

\* 0xDEADBEEFC0DECAFE and 0xC0DEFACE12345678.
FirstKey == OfDigits(<<14, 15, 10, 12, 14, 13, 0, 12, 15, 14, 14, 11, 13, 10, 14, 13>>)
SecondKey == OfDigits(<<8, 7, 6, 5, 4, 3, 2, 1, 14, 12, 10, 15, 14, 13, 0, 12>>)

\* 0xF0F0F0F0F0F0F0 and 0x0F0F0F0F0F0F0F: the digits of the low seven bytes.
Seen == 0..55
HighDigits == {i \in Seen : i % 8 >= 4}
LowDigits == {i \in Seen : i % 8 < 4}

SwapDigits(a) ==
  ShiftRight(a \cap HighDigits, 4) \cup ShiftLeft(a \cap LowDigits, 4)

scramble(input) == Xor(SwapDigits(Xor(input, FirstKey)), SecondKey)
================================================================================
