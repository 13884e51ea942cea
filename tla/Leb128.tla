------------------------------- MODULE Leb128 -------------------------------
(***************************************************************************)
(* read_LEB_: how a number is read from the bytes of a module.  Every      *)
(* index, count and constant of a module is read by it.  Widths are        *)
(* parameters, 7, 32 and 64 in the code.                                   *)
(***************************************************************************)
EXTENDS Integers, Sequences

CONSTANTS
  Group,      (* the bits of a number in one byte                          *)
  IntBits,    (* the bits of an int, and of an i32                         *)
  LongBits,   (* the bits of the result, and of an i64                     *)
  Shapes      (* "wide negative": negative numbers in several bytes that   *)
              (* hold more bits than an int and fewer than a long          *)

VARIABLES
  number,     (* the number that the bytes stand for                       *)
  bytes,      (* the bytes: [data, more]                                   *)
  maxbits, sign, pos, result, shift, done

vars == <<number, bytes, maxbits, sign, pos, result, shift, done>>

Bit(width) == 2 ^ width

-----------------------------------------------------------------------------
(* The numbers of a width and their bytes, as WebAssembly defines them.    *)

Numbers(width, signed) ==
  IF signed THEN -Bit(width - 1) .. Bit(width - 1) - 1 ELSE 0 .. Bit(width) - 1

Encoding(n, length) ==
  [k \in 1 .. length |->
    [data |-> (n \div Bit(Group * (k - 1))) % Bit(Group), more |-> k < length]]

(* n has an encoding of that many bytes, which may be more than it needs.  *)
FitsIn(n, length, signed) == n \in Numbers(Group * length, signed)
Longest(width) == (width + Group - 1) \div Group

-----------------------------------------------------------------------------

Init ==
  \E width \in {IntBits, LongBits}, signed \in BOOLEAN :
    \E n \in Numbers(width, signed), length \in 1 .. Longest(width) :
      /\ FitsIn(n, length, signed)
      /\ n < 0 /\ Group * length \in IntBits .. width - 1 => "wide negative" \in Shapes
      /\ number = n /\ bytes = Encoding(n, length)
      /\ maxbits = width /\ sign = signed
      /\ pos = 1 /\ result = 0 /\ shift = 0 /\ done = FALSE

(* 1 << shift, an int: undefined when the shift is not less than its       *)
(* width.  Processors then shift by the remainder or answer zero.          *)
Shifted(by) ==
  IF by < IntBits THEN {Bit(by)} ELSE {Bit(by % IntBits), 0}

(* r | -p, p a power of two or zero, in the width of the result.           *)
WithSign(r, p) == IF p = 0 THEN r ELSE (Bit(LongBits) - p) + (r % p)

ReadByte ==
  /\ ~done
  /\ LET byte == bytes[pos]
         read == result + ((byte.data * Bit(shift)) % Bit(LongBits))
         next == shift + Group
         negative == sign /\ next < maxbits /\ byte.data >= Bit(Group - 1)
     IN  /\ IF ~byte.more /\ negative
            THEN \E p \in Shifted(next) : result' = WithSign(read, p)
            ELSE result' = read
         /\ shift' = next /\ done' = ~byte.more
  /\ pos' = pos + 1
  /\ UNCHANGED <<number, bytes, maxbits, sign>>

Next == ReadByte
Spec == Init /\ [][Next]_vars

-----------------------------------------------------------------------------

(* What is read is the number that the bytes stand for, in the width that  *)
(* the caller keeps, and nothing behind its bytes has been read.           *)
ReadsNumber ==
  done => /\ result % Bit(maxbits) = number % Bit(maxbits)
          /\ pos = Len(bytes) + 1
=============================================================================
