----------------------------- MODULE Base64Proofs -----------------------------
(***************************************************************************)
(* Decoding what was encoded gives back the bytes, for any number of them. *)
(***************************************************************************)
EXTENDS Base64, TLAPS

\* The alphabet and its padding.
Sign == 0..Pad

LEMMA SextetIsChar ==
  ASSUME NEW b1 \in Byte, NEW b2 \in Byte, NEW b3 \in Byte, NEW p \in 1..4
  PROVE  Sextet(b1, b2, b3, p) \in Char
<1>1. CASE p = 1
  BY <1>1 DEF Sextet, Byte, Char
<1>2. CASE p = 2
  BY <1>2 DEF Sextet, Byte, Char
<1>3. CASE p = 3
  BY <1>3 DEF Sextet, Byte, Char
<1>4. CASE p = 4
  BY <1>4 DEF Sextet, Byte, Char
<1>. QED
  BY <1>1, <1>2, <1>3, <1>4

\* A byte is in two neighbouring characters.
LEMMA OctetOfSextets ==
  ASSUME NEW b1 \in Byte, NEW b2 \in Byte, NEW b3 \in Byte
  PROVE  /\ \A c3, c4 : Octet(Sextet(b1, b2, b3, 1), Sextet(b1, b2, b3, 2), c3, c4, 1) = b1
         /\ \A c1, c4 : Octet(c1, Sextet(b1, b2, b3, 2), Sextet(b1, b2, b3, 3), c4, 2) = b2
         /\ \A c1, c2 : Octet(c1, c2, Sextet(b1, b2, b3, 3), Sextet(b1, b2, b3, 4), 3) = b3
<1>1. ((b1 \div 4) * 4 + ((b1 % 4) * 16 + b2 \div 16) \div 16) % 256 = b1
  BY DEF Byte
<1>2. ((((b1 % 4) * 16 + b2 \div 16) % 16) * 16 + ((b2 % 16) * 4 + b3 \div 64) \div 4) % 256 = b2
  BY DEF Byte
<1>3. ((((b2 % 16) * 4 + b3 \div 64) % 4) * 64 + (b3 % 64)) % 256 = b3
  BY DEF Byte
<1>4. /\ Sextet(b1, b2, b3, 1) = b1 \div 4
      /\ Sextet(b1, b2, b3, 2) = (b1 % 4) * 16 + b2 \div 16
      /\ Sextet(b1, b2, b3, 3) = (b2 % 16) * 4 + b3 \div 64
      /\ Sextet(b1, b2, b3, 4) = b3 % 64
  BY DEF Sextet
<1>5. ASSUME NEW c1, NEW c2, NEW c3, NEW c4
      PROVE  /\ Octet(c1, c2, c3, c4, 1) = (c1 * 4 + c2 \div 16) % 256
             /\ Octet(c1, c2, c3, c4, 2) = ((c2 % 16) * 16 + c3 \div 4) % 256
             /\ Octet(c1, c2, c3, c4, 3) = ((c3 % 4) * 64 + c4) % 256
  BY DEF Octet
<1>. QED
  BY <1>1, <1>2, <1>3, <1>4, <1>5

LEMMA ByteAt ==
  ASSUME NEW s \in Seq(Byte), NEW i \in Nat \ {0}
  PROVE  At0(s, i) \in Byte
<1>1. CASE i <= Len(s)
  <2>1. i \in 1..Len(s)
    BY <1>1
  <2>. QED
    BY <1>1, <2>1 DEF At0
<1>2. CASE ~(i <= Len(s))
  BY <1>2 DEF At0, Byte
<1>. QED
  BY <1>1, <1>2

\* How many signs there are.
LEMMA Sizes ==
  ASSUME NEW n \in Nat
  PROVE  /\ Chars(n) \in Nat /\ Padded(n) \in Nat
         /\ Chars(n) <= Padded(n)
         /\ Bytes(Chars(n)) = n
BY DEF Chars, Padded, Bytes

LEMMA Positions ==
  ASSUME NEW i \in Nat \ {0}
  PROVE  /\ Group(i, 4) \in Nat /\ Place(i, 4) \in 1..4 /\ i = 4 * Group(i, 4) + Place(i, 4)
         /\ Group(i, 3) \in Nat /\ Place(i, 3) \in 1..3 /\ i = 3 * Group(i, 3) + Place(i, 3)
BY DEF Group, Place

LEMMA PositionIn ==
  ASSUME NEW g \in Nat, NEW p \in 1..4
  PROVE  Group(4 * g + p, 4) = g /\ Place(4 * g + p, 4) = p
BY DEF Group, Place

\* What Encode gives at the places of characters and behind them.
LEMMA EncodeSigns ==
  ASSUME NEW s \in Seq(Byte)
  PROVE  /\ Encode(s) \in Seq(Sign) /\ Len(Encode(s)) = Padded(Len(s))
         /\ \A i \in 1..Chars(Len(s)) : Encode(s)[i] \in Char
         /\ \A i \in 1..Padded(Len(s)) : i > Chars(Len(s)) => Encode(s)[i] = Pad
<1>. DEFINE L == Len(s)
            sign(i) == LET k == 3 * Group(i, 4)
                       IN  IF i <= Chars(L)
                           THEN Sextet(At0(s, k + 1), At0(s, k + 2), At0(s, k + 3), Place(i, 4))
                           ELSE Pad
<1>1. L \in Nat /\ Chars(L) \in Nat /\ Padded(L) \in Nat /\ Chars(L) <= Padded(L)
  BY Sizes
<1>2. ASSUME NEW i \in 1..Padded(L)
      PROVE  /\ i <= Chars(L) => sign(i) \in Char
             /\ i > Chars(L) => sign(i) = Pad
             /\ sign(i) \in Sign
  <2>1. i \in Nat \ {0}
    BY <1>1
  <2>2. Group(i, 4) \in Nat /\ Place(i, 4) \in 1..4
    BY <2>1, Positions
  <2>3. /\ At0(s, 3 * Group(i, 4) + 1) \in Byte
        /\ At0(s, 3 * Group(i, 4) + 2) \in Byte
        /\ At0(s, 3 * Group(i, 4) + 3) \in Byte
    BY <2>2, ByteAt
  <2>4. Sextet(At0(s, 3 * Group(i, 4) + 1), At0(s, 3 * Group(i, 4) + 2),
               At0(s, 3 * Group(i, 4) + 3), Place(i, 4)) \in Char
    BY <2>2, <2>3, SextetIsChar
  <2>. QED
    BY <2>1, <2>4, <1>1 DEF Char, Sign, Pad
<1>3. Encode(s) = [i \in 1..Padded(L) |-> sign(i)]
  BY DEF Encode
<1>. HIDE DEF sign
<1>4. Encode(s) \in Seq(Sign) /\ Len(Encode(s)) = Padded(L)
  BY <1>1, <1>2, <1>3
<1>5. \A i \in 1..Chars(L) : i \in 1..Padded(L)
  BY <1>1
<1>. QED
  BY <1>1, <1>2, <1>3, <1>4, <1>5

\* The decoder stops at the padding.
LEMMA LeadingOfEncode ==
  ASSUME NEW s \in Seq(Byte)
  PROVE  Leading(Encode(s)) = Chars(Len(s))
<1>. DEFINE t == Encode(s)
            c == Chars(Len(s))
            Stops(n) == /\ \A i \in 1..n : t[i] \in Char
                        /\ n < Len(t) => t[n + 1] \notin Char
<1>1. Len(s) \in Nat /\ c \in Nat /\ Len(t) \in Nat /\ c <= Len(t)
  BY EncodeSigns, Sizes
<1>2. \A i \in 1..c : t[i] \in Char
  BY EncodeSigns
<1>3. ASSUME c < Len(t) PROVE t[c + 1] \notin Char
  <2>1. c + 1 \in 1..Padded(Len(s)) /\ c + 1 > c
    BY <1>1, <1>3, EncodeSigns
  <2>2. t[c + 1] = Pad
    BY <2>1, EncodeSigns
  <2>. QED
    BY <2>2 DEF Char, Pad
<1>4. c \in 0..Len(t) /\ Stops(c)
  BY <1>1, <1>2, <1>3
<1>5. ASSUME NEW n \in 0..Len(t), Stops(n) PROVE n = c
  <2>1. CASE n < c
    BY <2>1, <1>1, <1>2, <1>5
  <2>2. CASE n > c
    BY <2>2, <1>1, <1>3, <1>5
  <2>. QED
    BY <2>1, <2>2, <1>1
<1>6. Leading(t) = CHOOSE n \in 0..Len(t) : Stops(n)
  BY DEF Leading
<1>. HIDE DEF t, c, Stops
<1>7. Leading(t) = c
  BY <1>4, <1>5, <1>6
<1>. QED
  BY <1>7 DEF t, c

\* The k-th byte comes back: its two characters are before the padding.
LEMMA ByteReturns ==
  ASSUME NEW s \in Seq(Byte), NEW k \in 1..Len(s)
  PROVE  LET t == Encode(s)
             i == 4 * Group(k, 3)
         IN  Octet(At0(t, i + 1), At0(t, i + 2), At0(t, i + 3), At0(t, i + 4), Place(k, 3)) = s[k]
<1>. DEFINE t == Encode(s)
            g == Group(k, 3)
            p == Place(k, 3)
            b(j) == At0(s, 3 * g + j)
<1>1. k \in Nat \ {0} /\ Len(s) \in Nat /\ g \in Nat /\ p \in 1..3 /\ k = 3 * g + p
  BY Positions
<1>2. b(1) \in Byte /\ b(2) \in Byte /\ b(3) \in Byte
  BY <1>1, ByteAt
<1>3. b(p) = s[k]
  BY <1>1 DEF At0
<1>4. ASSUME NEW j \in 1..4, j <= p + 1
      PROVE  At0(t, 4 * g + j) = Sextet(b(1), b(2), b(3), j)
  <2>1. Group(4 * g + j, 4) = g /\ Place(4 * g + j, 4) = j
    BY <1>1, PositionIn
  <2>2. 4 * g + j \in Nat \ {0}
    BY <1>1
  <2>3. 4 * g + j <= Chars(Len(s))
    <3>1. 3 * g + p <= Len(s)
      BY <1>1
    <3>. QED
      BY <3>1, <1>1, <1>4 DEF Chars
  <2>4. Chars(Len(s)) <= Padded(Len(s)) /\ Padded(Len(s)) \in Nat /\ Chars(Len(s)) \in Nat
    BY <1>1, Sizes
  <2>5. 4 * g + j \in 1..Padded(Len(s))
    BY <2>2, <2>3, <2>4
  <2>6. t[4 * g + j] = Sextet(b(1), b(2), b(3), j)
    BY <2>1, <2>3, <2>5 DEF Encode
  <2>7. Len(t) = Padded(Len(s))
    BY EncodeSigns
  <2>. QED
    BY <2>3, <2>4, <2>6, <2>7, <1>1 DEF At0
<1>. HIDE DEF t, b, g, p
<1>5. CASE p = 1
  <2>1. At0(t, 4 * g + 1) = Sextet(b(1), b(2), b(3), 1) /\ At0(t, 4 * g + 2) = Sextet(b(1), b(2), b(3), 2)
    BY <1>4, <1>5
  <2>. QED
    BY <2>1, <1>2, <1>3, <1>5, OctetOfSextets DEF t, g, p
<1>6. CASE p = 2
  <2>1. At0(t, 4 * g + 2) = Sextet(b(1), b(2), b(3), 2) /\ At0(t, 4 * g + 3) = Sextet(b(1), b(2), b(3), 3)
    BY <1>4, <1>6
  <2>. QED
    BY <2>1, <1>2, <1>3, <1>6, OctetOfSextets DEF t, g, p
<1>7. CASE p = 3
  <2>1. At0(t, 4 * g + 3) = Sextet(b(1), b(2), b(3), 3) /\ At0(t, 4 * g + 4) = Sextet(b(1), b(2), b(3), 4)
    BY <1>4, <1>7
  <2>. QED
    BY <2>1, <1>2, <1>3, <1>7, OctetOfSextets DEF t, g, p
<1>. QED
  BY <1>1, <1>5, <1>6, <1>7

\* base64_decode undoes base64_encode: whatever bytes a provider's address has,
\* they arrive at the other ranks.
THEOREM RoundTrip ==
  ASSUME NEW s \in Seq(Byte)
  PROVE  Decode(Encode(s)) = s
<1>1. Len(s) \in Nat
  OBVIOUS
<1>2. Bytes(Leading(Encode(s))) = Len(s)
  BY <1>1, LeadingOfEncode, Sizes
<1>3. DOMAIN Decode(Encode(s)) = 1..Len(s)
  BY <1>1, <1>2 DEF Decode
<1>4. ASSUME NEW k \in 1..Len(s) PROVE Decode(Encode(s))[k] = s[k]
  BY <1>1, <1>2, ByteReturns DEF Decode
<1>5. Decode(Encode(s)) = [k \in 1..Len(s) |-> Decode(Encode(s))[k]]
  BY <1>1, <1>2, <1>3 DEF Decode
<1>6. s = [k \in 1..Len(s) |-> s[k]]
  OBVIOUS
<1>. QED
  BY <1>4, <1>5, <1>6
=============================================================================
