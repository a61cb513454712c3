------------------------------- MODULE Rijndael -------------------------------
(***************************************************************************)
(* AES.cpp: the tables, the expanded key, the rounds by tables, the chain  *)
(* of the blocks; for the nine sizes of block and key that it offers.      *)
(* rscp2mqtt uses blocks and keys of 256 bits and carries the chain from   *)
(* frame to frame. A word is a tuple of four octets, the lowest first.     *)
(***************************************************************************)
EXTENDS Integers, Sequences

Octet == 0..255
Bit(n, k) == (n \div 2^(k % 8)) % 2

XorOf ==
  LET bit(a, b, k) == 2^k * ((Bit(a, k) + Bit(b, k)) % 2)
      nibble == [a \in 0..15 |-> [b \in 0..15 |->
                   bit(a, b, 0) + bit(a, b, 1) + bit(a, b, 2) + bit(a, b, 3)]]
  IN [a \in Octet |-> [b \in Octet |->
        (16 * nibble[a \div 16][b \div 16]) + nibble[a % 16][b % 16]]]

(* The sequence itself; TLC evaluates it once, not at every use.           *)
Evaluated(s) == SubSeq(s, 1, Len(s))

XorWord(u, v) == <<XorOf[u[1]][v[1]], XorOf[u[2]][v[2]], XorOf[u[3]][v[3]], XorOf[u[4]][v[4]]>>

-----------------------------------------------------------------------------
(* The field of 256 elements, and the tables that CreateAESTables fills.   *)
xmult == [a \in Octet |-> XorOf[(2 * a) % 256][IF a >= 128 THEN 27 ELSE 0]]

GF2_8_mult(a, b) ==
  LET power[k \in 0..7] == IF k = 0 THEN a ELSE xmult[power[k - 1]]
      sum[k \in 0..7] == XorOf[power[k] * Bit(b, k)][IF k = 7 THEN 0 ELSE sum[k + 1]]
  IN sum[0]

gf2_8_inv ==
  [a \in Octet |-> IF a = 0 THEN 0 ELSE CHOOSE b \in Octet : GF2_8_mult(a, b) = 1]

(* The masks of the affine transform have the bits k and k + 4 to k + 7.   *)
BitSum(y, k) == (Bit(y, k) + Bit(y, k + 4) + Bit(y, k + 5) + Bit(y, k + 6) + Bit(y, k + 7)) % 2

byte_sub ==
  LET bit(y, k) == 2^k * BitSum(y, k)
      affine(y) == bit(y, 0) + bit(y, 1) + bit(y, 2) + bit(y, 3)
                   + bit(y, 4) + bit(y, 5) + bit(y, 6) + bit(y, 7)
  IN [x \in Octet |-> XorOf[affine(gf2_8_inv[x])][99]]

inv_byte_sub == [x \in Octet |-> CHOOSE y \in Octet : byte_sub[y] = x]

Rcon[i \in 1..59] == IF i = 1 THEN 1 ELSE xmult[Rcon[i - 1]]

(* RotByteL n times.                                                       *)
Rotated(w, n) == [i \in 1..4 |-> w[1 + ((i - 1 - n) % 4)]]

AllRotations(words) == [b \in 1..4 |-> [x \in Octet |-> Rotated(words[x], b - 1)]]

(* T0 to T3, T4 to T7, I0 to I3, I4 to I7.                                 *)
T0T3 == AllRotations([x \in Octet |->
          LET a == byte_sub[x] IN <<xmult[a], a, a, XorOf[xmult[a]][a]>>])
T4T7 == AllRotations([x \in Octet |-> <<byte_sub[x], 0, 0, 0>>])
I0I3 == AllRotations([x \in Octet |->
          LET b == inv_byte_sub[x]
          IN <<GF2_8_mult(14, b), GF2_8_mult(9, b), GF2_8_mult(13, b), GF2_8_mult(11, b)>>])
I4I7 == AllRotations([x \in Octet |-> <<inv_byte_sub[x], 0, 0, 0>>])

-----------------------------------------------------------------------------
(* SetParameters: the number of rounds.                                    *)
Nr(Nb, Nk) == IF Nb = 8 \/ Nk = 8 THEN 14 ELSE IF Nb = 6 \/ Nk = 6 THEN 12 ELSE 10

SubByte(w) == <<byte_sub[w[1]], byte_sub[w[2]], byte_sub[w[3]], byte_sub[w[4]]>>
RotByte(w) == <<w[2], w[3], w[4], w[1]>>

(* KeyExpansion: Nk words at a time, from the Nk words before them.        *)
RECURSIVE KeyExpansion(_, _, _)
KeyExpansion(W, Nk, size) ==
  LET i == Len(W)
      word[k \in 1..Nk] ==
        LET last == IF k = 1 THEN W[i] ELSE word[k - 1]
            temp == CASE k = 1 -> XorWord(SubByte(RotByte(last)), <<Rcon[i \div Nk], 0, 0, 0>>)
                      [] Nk > 6 /\ k = 5 -> SubByte(last)
                      [] OTHER -> last
        IN XorWord(W[i + k - Nk], temp)
  IN IF i >= size THEN SubSeq(W, 1, size)
     ELSE KeyExpansion(W \o Evaluated([k \in 1..Nk |-> word[k]]), Nk, size)

(* StartEncryption: the keys of the rounds.                                *)
StartEncryption(key, Nb) ==
  LET n == Nr(Nb, Len(key))
      W == KeyExpansion(key, Len(key), Nb * (n + 1))
  IN Evaluated([r \in 1..(n + 1) |-> SubSeq(W, (r - 1) * Nb + 1, r * Nb)])

(* StartDecryption: all but the first and the last one mixed, in reverse.  *)
Mixed(w) ==
  LET m == <<14, 11, 13, 9>>
      row(i) == [k \in 1..4 |-> GF2_8_mult(m[1 + ((k - i) % 4)], w[k])]
  IN Evaluated([i \in 1..4 |->
       XorOf[XorOf[row(i)[1]][row(i)[2]]][XorOf[row(i)[3]][row(i)[4]]]])

StartDecryption(key, Nb) ==
  LET keys == StartEncryption(key, Nb)
      n == Len(keys)
  IN Evaluated([r \in 1..n |->
       IF r \in {1, n} THEN keys[n + 1 - r]
       ELSE Evaluated([j \in 1..Nb |-> Mixed(keys[n + 1 - r][j])])])

-----------------------------------------------------------------------------
(* The columns that a round puts together: those behind it for encryption, *)
(* dir = 1, those before it for decryption, dir = -1.                      *)
Shift(Nb) == IF Nb = 8 THEN <<0, 1, 3, 4>> ELSE <<0, 1, 2, 3>>

(* compute_one, compute_one_final and their inverses.                      *)
Round(table, dir, state, key) ==
  LET Nb == Len(state)
      from(j, b) == state[1 + ((j - 1 + dir * Shift(Nb)[b]) % Nb)][b]
      part(j, b) == table[b][from(j, b)]
  IN Evaluated([j \in 1..Nb |->
       XorWord(XorWord(XorWord(part(j, 1), part(j, 2)), XorWord(part(j, 3), part(j, 4))),
               key[j])])

AddRoundKey(state, key) == Evaluated([j \in 1..Len(state) |-> XorWord(state[j], key[j])])

RECURSIVE Rounds(_, _, _, _, _)
Rounds(table, last, dir, state, keys) ==
  IF state = <<>> \/ keys = <<>> THEN state
  ELSE LET this == IF Len(keys) = 1 THEN last ELSE table
       IN Rounds(table, last, dir, Round(this, dir, state, keys[1]), Tail(keys))

EncryptBlock(keys, block) ==
  Rounds(T0T3, T4T7, 1, AddRoundKey(block, keys[1]), Tail(keys))

DecryptBlock(keys, block) ==
  Rounds(I0I3, I4I7, -1, AddRoundKey(block, keys[1]), Tail(keys))

(* CBC: each block with the one before it.                                 *)
RECURSIVE Encrypt(_, _, _)
Encrypt(keys, iv, blocks) ==
  IF blocks = <<>> THEN <<>>
  ELSE LET block == EncryptBlock(keys, AddRoundKey(Head(blocks), iv))
       IN <<block>> \o Encrypt(keys, block, Tail(blocks))

Decrypt(keys, iv, blocks) ==
  [i \in DOMAIN blocks |->
     AddRoundKey(DecryptBlock(keys, blocks[i]), IF i = 1 THEN iv ELSE blocks[i - 1])]

-----------------------------------------------------------------------------
(* What TLC evaluates of it. Some(n, f) is n words with octets i * f.      *)
Some(n, f) == [i \in 1..n |-> [b \in 1..4 |-> ((4 * i + b - 5) * f) % 256]]
Sizes == {4, 6, 8}

(* The known answers of FIPS-197, appendix C.1 and C.3: what the tables,   *)
(* the expanded key and the rounds of AES.cpp come to is AES.              *)
ASSUME KnownAnswers ==
  LET answer(n) == EncryptBlock(StartEncryption(Some(n, 1), 4), Some(4, 17))
  IN /\ answer(4) = << <<105, 196, 224, 216>>, <<106, 123, 4, 48>>,
                       <<216, 205, 183, 128>>, <<112, 180, 197, 90>> >>
     /\ answer(8) = << <<142, 162, 183, 202>>, <<81, 103, 69, 191>>,
                       <<234, 252, 73, 144>>, <<75, 73, 96, 137>> >>

(* byte_sub is a permutation, each octet has its inverse, and no octet is  *)
(* replaced by itself: the searches of CheckInverses and CheckInvByteSub   *)
(* end.                                                                    *)
ASSUME TablesComplete ==
  /\ {byte_sub[x] : x \in Octet} = Octet
  /\ \A x \in Octet : byte_sub[x] # x /\ inv_byte_sub[byte_sub[x]] = x

(* The round by tables is the round of the standard, written out: replace  *)
(* the octets, shift the rows, mix the columns, add the key of the round.  *)
RoundOfStandard(state, key) ==
  LET Nb == Len(state)
      replaced == [j \in 1..Nb |-> SubByte(state[j])]
      shifted == [j \in 1..Nb |->
                    [b \in 1..4 |-> replaced[1 + ((j - 1 + Shift(Nb)[b]) % Nb)][b]]]
      times(a, n) == GF2_8_mult(n, a)
      mixed(w) == XorWord(XorWord(<<times(w[1], 2), w[1], w[1], times(w[1], 3)>>,
                                  <<times(w[2], 3), times(w[2], 2), w[2], w[2]>>),
                          XorWord(<<w[3], times(w[3], 3), times(w[3], 2), w[3]>>,
                                  <<w[4], w[4], times(w[4], 3), times(w[4], 2)>>))
  IN [j \in 1..Nb |-> XorWord(mixed(shifted[j]), key[j])]

ASSUME RoundIsRound ==
  \A Nb \in Sizes, f \in {1, 37, 91} :
    Round(T0T3, 1, Some(Nb, f), Some(Nb, 5)) = RoundOfStandard(Some(Nb, f), Some(Nb, 5))

(* For all nine sizes, although keys are mixed and tables are others on    *)
(* the way back: DecryptBlock undoes EncryptBlock.                         *)
ASSUME BlockComesBack ==
  \A Nb \in Sizes, Nk \in Sizes :
    LET key == Some(Nk, 37)
        code == EncryptBlock(StartEncryption(key, Nb), Some(Nb, 91))
    IN DecryptBlock(StartDecryption(key, Nb), code) = Some(Nb, 91)

(* The chain over calls, as mainLoop and processReceiveBuffer use it: the  *)
(* last block of a call is the vector of the next one. The blocks that one *)
(* side encrypts in two calls the other may decrypt in any two calls; with *)
(* another vector the first block is lost, and it alone. This is what      *)
(* ReceiveLoop takes for granted of the cipher.                            *)
ASSUME ChainOverCalls ==
  LET key == Some(8, 37)
      iv == [j \in 1..8 |-> <<255, 255, 255, 255>>]
      blocks == [i \in 1..3 |-> Some(8, 2 * i + 1)]
      there == StartEncryption(key, 8)
      back == StartDecryption(key, 8)
      first == Encrypt(there, iv, SubSeq(blocks, 1, 1))
      code == first \o Encrypt(there, first[1], SubSeq(blocks, 2, 3))
      inTwo(k) == Decrypt(back, iv, SubSeq(code, 1, k))
                  \o Decrypt(back, code[k], SubSeq(code, k + 1, 3))
      astray == Decrypt(back, code[1], code)
  IN /\ \A k \in 1..3 : inTwo(k) = blocks
     /\ astray[1] # blocks[1] /\ Tail(astray) = Tail(blocks)

===============================================================================
