----------------------------- MODULE NsecBitmap -----------------------------
(***************************************************************************)
(* The NSEC type bitmap test of libval, validator/libval/val_assertion.c: *)
(* is_type_set(field, field_len, type).  The field is the rdata after the *)
(* next owner name: a sequence of <window, length, bitmap> blocks (RFC     *)
(* 4034, 4.1.2).  Bytes are naturals below 256; field[i] of the C code is  *)
(* Byte(field, i, junk) here.  A read at or past field_len reads whatever *)
(* follows the rdata in memory; that value is the parameter junk.          *)
(***************************************************************************)
EXTENDS Naturals, Sequences

(* field[i] for a C index i (0-based); past the end, the junk byte.       *)
Byte(field, i, junk) == IF i < Len(field) THEN field[i + 1] ELSE junk

(* The test field[i] & (1 << k) of the C code, for k in 0..7.             *)
BitSet(byte, k) == (byte \div (2 ^ k)) % 2 = 1

(* The bit of type within its bitmap byte: 1 << (7 - (type % 8)).         *)
TypeBit(type) == 7 - (type % 8)

(* The while loop of is_type_set, from offset cnt: the first block of the *)
(* matching window decides, a block of another window is skipped.        *)
RECURSIVE TypeLoop(_, _, _, _)
TypeLoop(field, type, cnt, junk) ==
    LET t_block     == type \div 256
        t_bm_offset == type \div 8
        block       == Byte(field, cnt, junk)
        blen        == Byte(field, cnt + 1, junk)
        next        == cnt + 2
    IN  IF ~(Len(field) > cnt + 2) THEN FALSE
        ELSE IF block = t_block
        THEN /\ blen >= t_bm_offset
             /\ Len(field) >= next + blen
             /\ BitSet(Byte(field, next + t_bm_offset, junk), TypeBit(type))
        ELSE TypeLoop(field, type, next + blen, junk)

is_type_set(field, type, junk) == TypeLoop(field, type, 0, junk)

(***************************************************************************)
(* Reference: the RFC 4034 encoding of a set of types, windows ascending, *)
(* each bitmap as long as its highest set byte.                            *)
(***************************************************************************)
WindowBytes(T, w) ==
    LET inW  == {t \in T : t \div 256 = w}
        len  == 1 + (CHOOSE m \in {(t % 256) \div 8 : t \in inW} :
                         \A t \in inW : (t % 256) \div 8 <= m)
        Bits(j) == {t \in inW : (t % 256) \div 8 = j}
        ByteOf(j) == LET RECURSIVE S(_)
                         S(B) == IF B = {} THEN 0
                                 ELSE LET t == CHOOSE x \in B : TRUE
                                      IN  2 ^ (7 - (t % 8)) + S(B \ {t})
                     IN  S(Bits(j))
    IN  <<w, len>> \o [j \in 1..len |-> ByteOf(j - 1)]

RECURSIVE EncodeFrom(_, _)
EncodeFrom(T, ws) ==
    IF ws = {} THEN <<>>
    ELSE LET w == CHOOSE x \in ws : \A y \in ws : x <= y
         IN  WindowBytes(T, w) \o EncodeFrom(T, ws \ {w})

TypeBitmap(T) == EncodeFrom(T, {t \div 256 : t \in T})
=============================================================================
