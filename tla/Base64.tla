-------------------------------- MODULE Base64 --------------------------------
(***************************************************************************)
(* base64_encode and base64_decode, which carry a fabric address through   *)
(* the key/value store of PMI.  A character is its index in base64_chars;  *)
(* Pad is the sign that fills the last group.  The loops over groups of    *)
(* three bytes and four characters are written by position; shifts and     *)
(* masks are divisions and remainders.                                     *)
(***************************************************************************)
EXTENDS Naturals, Sequences

Byte == 0..255
Char == 0..63
Pad == 64

\* Where position i lies when positions are grouped by n: its group counts from
\* 0, its place in the group from 1.
Group(i, n) == (i - 1) \div n
Place(i, n) == ((i - 1) % n) + 1

\* Positions behind the end count as 0: char_array_3 is filled up with '\0'.
At0(s, i) == IF i <= Len(s) THEN s[i] ELSE 0

\* The character at place p of a group, from the bytes b1, b2, b3.
\* Faulty variant: the first byte is not masked.
UnmaskedSextet(b1, b2, b3, p) ==
  CASE p = 1 -> b1 \div 4
    [] p = 2 -> b1 * 16 + b2 \div 16
    [] p = 3 -> (b2 % 16) * 4 + b3 \div 64
    [] p = 4 -> b3 % 64

Sextet(b1, b2, b3, p) ==
  CASE p = 1 -> b1 \div 4
    [] p = 2 -> (b1 % 4) * 16 + b2 \div 16
    [] p = 3 -> (b2 % 16) * 4 + b3 \div 64
    [] p = 4 -> b3 % 64

\* n bytes make this many characters, before and after padding.
Chars(n) == (4 * n + 2) \div 3
Padded(n) == 4 * ((n + 2) \div 3)

Encode(s) ==
  [i \in 1..Padded(Len(s)) |->
     LET k == 3 * Group(i, 4)
     IN  IF i <= Chars(Len(s))
         THEN Sextet(At0(s, k + 1), At0(s, k + 2), At0(s, k + 3), Place(i, 4))
         ELSE Pad]

\* The byte at place p of a group, from the characters c1 to c4.
\* Faulty variant: what the third character leaves is not shifted.
UnshiftedOctet(c1, c2, c3, c4, p) ==
  CASE p = 1 -> (c1 * 4 + c2 \div 16) % 256
    [] p = 2 -> ((c2 % 16) * 16 + c3 \div 4) % 256
    [] p = 3 -> ((c3 % 4) + c4) % 256

Octet(c1, c2, c3, c4, p) ==
  CASE p = 1 -> (c1 * 4 + c2 \div 16) % 256
    [] p = 2 -> ((c2 % 16) * 16 + c3 \div 4) % 256
    [] p = 3 -> ((c3 % 4) * 64 + c4) % 256

\* How many characters come before the first that is not in base64_chars.
Leading(t) ==
  CHOOSE n \in 0..Len(t) :
    /\ \A i \in 1..n : t[i] \in Char
    /\ n < Len(t) => t[n + 1] \notin Char

\* n characters make this many bytes: a last group of i of them makes i - 1.
Bytes(n) == (3 * n) \div 4

Decode(t) ==
  [k \in 1..Bytes(Leading(t)) |->
     LET i == 4 * Group(k, 3)
     IN  Octet(At0(t, i + 1), At0(t, i + 2), At0(t, i + 3), At0(t, i + 4), Place(k, 3))]
=============================================================================
