-------------------------------- MODULE Bits --------------------------------
(***************************************************************************)
(* The libraries bit32 and bit64 (auxlib/bit32.go, auxlib/bit64.go).       *)
(*                                                                         *)
(* A machine word is the set of the positions of its ones. A conversion of *)
(* a float64 outside the range of an integer type gives what the processor *)
(* gives: any word.                                                        *)
(***************************************************************************)
EXTENDS Integers, Sequences

CONSTANTS W,  \* bits of a word: 32 in bit32, 64 in bit64
          P   \* bits of the mantissa of a float64 in bit64: 53

VARIABLE operands  \* the two numbers of the last call, if there was one

\* A count of up to W + 1 is an int64 of W bits from W = 4 on.
ASSUME BitParameters == W \in Nat /\ W >= 4 /\ P \in 1..(W - 1)

Positions == 0..(W - 1)
Words == SUBSET Positions

\* uint32(x) and uint64(x) of an integer: it wraps.
ToWord(x) == {i \in Positions : (x \div 2^i) % 2 = 1}
Unsigned(word) == CHOOSE x \in 0..(2^W - 1) : ToWord(x) = word

\* >> and << by an unsigned count, 1<<k - 1 and ^.
Right(word, k) == {i \in Positions : i + k \in word}
Left(word, k) == {i \in Positions : i - k \in word}
Low(k) == {i \in Positions : i < k}
Xor(x, y) == (x \cup y) \ (x \cap y)

\* uint32(n): the count of a shift wraps as well.
Count(n) == n % 2^W

-----------------------------------------------------------------------------
(* bit32. The first operand is an int64 before it is a uint32; the others  *)
(* go from float64 to uint32 at once.                                      *)

Operand(x) == IF x \in 0..(2^W - 1) THEN {ToWord(x)} ELSE Words

\* The words that a loop over the operands may end with.
Looped(first, rest, Op(_, _)) ==
  LET after[n \in 0..Len(rest)] ==
        IF n = 0 THEN {first} ELSE {Op(p, q) : p \in after[n - 1], q \in Operand(rest[n])}
  IN after[Len(rest)]

bit32band(x, rest) == Looped(ToWord(x), rest, LAMBDA p, q : p \cap q)
bit32or(x, rest) == Looped(ToWord(x), rest, LAMBDA p, q : p \cup q)
bit32xor(x, rest) == Looped(ToWord(x), rest, Xor)
bit32btest(x, rest) == {word # {} : word \in bit32band(x, rest)}
bit32not(x) == Positions \ ToWord(x)

bit32lshift(x, n) == IF n < 0 THEN Right(ToWord(x), Count(-n)) ELSE Left(ToWord(x), Count(n))
bit32rshift(x, n) == IF n < 0 THEN Left(ToWord(x), Count(-n)) ELSE Right(ToWord(x), Count(n))

\* Fault: the sign does not come in from the left.
bit32arshiftZeros(x, n) == bit32rshift(x, n)

\* The bits of Low(n) that 2^n - 1 has no room for are shifted out anyway.
bit32arshift(x, n) ==
  IF n >= 0 /\ W - 1 \in ToWord(x)
  THEN Right(ToWord(x), Count(n)) \cup Left(Low(n), Count(W - n))
  ELSE bit32rshift(x, n)

bit32lrotate(x, n) == {(i + n) % W : i \in ToWord(x)}
bit32rrotate(x, n) == bit32lrotate(x, -n)

Outside(offset, width) == \/ offset < 0 \/ offset > W - 1
                          \/ width < 1 \/ width > W
                          \/ offset + width > W

\* No word: the error that is raised.
NoBits == {-1}

bit32extract(x, offset, width) ==
  IF Outside(offset, width) THEN NoBits ELSE Right(ToWord(x), offset) \cap Low(width)

bit32replace(x, v, offset, width) ==
  LET field == Left(Right(ToWord(x), offset) \cap Low(width), offset)
      put == Left(Right(Left(ToWord(v), W - width), W - width), offset)
  IN IF Outside(offset, width) THEN NoBits ELSE Xor(ToWord(x), field) \cup put

-----------------------------------------------------------------------------
(* bit64. Operands are numbers, and so are results.                        *)

\* int64(x) of a float64, then uint64.
Int64(x) == IF x \in -(2^(W - 1))..(2^(W - 1) - 1) THEN {ToWord(x)} ELSE Words

\* uint64(x) of a float64.
Uint64(x) == IF x \in 0..(2^W - 1) THEN {ToWord(x)} ELSE Words

\* lua.LNumber of a uint64: P bits of it, rounded to the nearest, or to the even.
Float(word) ==
  LET x == Unsigned(word)
      unit == CHOOSE u \in {2^k : k \in 0..W} : x < 2^P * u /\ (u > 1 => x >= 2^(P - 1) * u)
      up == \/ 2 * (x % unit) > unit
            \/ 2 * (x % unit) = unit /\ (x \div unit) % 2 = 1
  IN (x \div unit) * unit + IF up THEN unit ELSE 0

\* The numbers that an operation on two words may push.
Operated(lhs, rhs, Op(_, _)) == {Float(Op(x, y)) : x \in lhs, y \in rhs}

bit64brshift(x, y) == Operated(Int64(x), Int64(y), LAMBDA p, q : Right(p, Unsigned(q)))
bit64blshift(x, y) == Operated(Int64(x), Int64(y), LAMBDA p, q : Left(p, Unsigned(q)))
bit64band(x, y) == Operated(Int64(x), Int64(y), LAMBDA p, q : p \cap q)
bit64bxor(x, y) == Operated(Int64(x), Int64(y), Xor)

\* The second operand goes to uint64 at once.
bit64bor(x, y) == Operated(Int64(x), Uint64(y), LAMBDA p, q : p \cup q)
bit64bnot(x) == {Float(Positions \ p) : p \in Int64(x)}

-----------------------------------------------------------------------------
Numbers == -(2^(W - 1))..(2^W - 1)
Signed(word) == IF W - 1 \in word THEN Unsigned(word) - 2^W ELSE Unsigned(word)

\* Shifts by at most a word multiply and divide, of either sign; rotations are
\* shifts out of one end and into the other. A shift to the right by more than
\* a word loses the sign: arshift is then 0.
ShiftsAgree(x) ==
  \A n \in 0..W :
    LET word == ToWord(x)
        left == ToWord(Unsigned(word) * 2^n)
        right == ToWord(Unsigned(word) \div 2^n)
    IN /\ bit32lshift(x, n) = left /\ bit32lshift(x, -n) = right
       /\ bit32rshift(x, n) = right /\ bit32rshift(x, -n) = left
       /\ bit32arshift(x, n) = ToWord(Signed(word) \div 2^n) /\ bit32arshift(x, -n) = left
       /\ bit32lrotate(x, n) = left \cup ToWord(Unsigned(word) \div 2^(W - n))
       /\ bit32rrotate(x, n) = right \cup ToWord(Unsigned(word) * 2^(W - n))

\* replace writes its field and no other bit, extract reads it back, both
\* refuse a field exactly when it leaves the word, and the same comes of masks
\* made with lshift, band, bnot and bor.
FieldsReadBack(x, v) ==
  \A offset, width \in -1..(W + 1) :
    LET inside == offset >= 0 /\ width >= 1 /\ offset + width <= W
        new == bit32replace(x, v, offset, width)
        mask == Unsigned(bit32lshift(2^width - 1, offset))
        kept == CHOOSE word \in bit32band(x, <<Unsigned(bit32not(mask))>>) : TRUE
        moved == CHOOSE word \in bit32band(Unsigned(bit32lshift(v, offset)), <<mask>>) : TRUE
    IN /\ (new = NoBits) = ~inside /\ (bit32extract(x, offset, width) = NoBits) = ~inside
       /\ inside => /\ bit32extract(Unsigned(new), offset, width) = ToWord(v) \cap Low(width)
                    /\ {new} = bit32or(Unsigned(kept), <<Unsigned(moved)>>)
                    /\ {new} = bit32xor(Unsigned(kept), <<Unsigned(moved)>>)

\* On numbers that float64 holds exactly, bit64 is exact, except for bnot, which
\* is only so on small negative numbers: of others it has too many bits. A mask
\* of -1 is all ones. A shift to the left comes back while it stays below the
\* sign, and is 0 or more even where it reaches it.
Bits64Exact(x, y) ==
  /\ bit64band(x, -1) = {x} /\ bit64bnot(-x - 1) = {x}
  /\ \E and \in bit64band(x, y), or \in bit64bor(x, y), xor \in bit64bxor(x, y) :
       and + or = x + y /\ or - and = xor
  /\ \A n \in 0..(W + 1) :
       /\ bit64brshift(x, n) = {x \div 2^n}
       /\ bit64blshift(x, n) = {(x * 2^n) % 2^W}
       /\ \A shifted \in bit64blshift(x, n) :
            x * 2^n < 2^(W - 1) => bit64brshift(shifted, n) = {x}

\* The three together: what the two libraries compute is what their names say.
AgreeOn(x, y) == /\ ShiftsAgree(x)
                 /\ FieldsReadBack(x, y)
                 /\ x \in 0..(2^P - 1) /\ y \in 0..(2^P - 1) => Bits64Exact(x, y)

-----------------------------------------------------------------------------
BitsInit == operands = <<>>

\* A script calls with two numbers; no call leaves anything behind for the next.
Called(x, y) == operands' = <<x, y>>

BitsNext == \E x, y \in Numbers : Called(x, y)

BitsSpec == BitsInit /\ [][BitsNext]_operands

\* bit32 and bit64 compute what their names say: shifts, fields and masks agree
\* with arithmetic, and with each other.
BitsAgree == operands # <<>> => AgreeOn(operands[1], operands[2])
=============================================================================
