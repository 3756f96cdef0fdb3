------------------------------- MODULE Varint --------------------------------
(***************************************************************************)
(* The length field of a frame (core/frame.go).  A byte is a digit, plus    *)
(* Group when another byte follows; the code has Group = 128, ten bytes     *)
(* and the largest uint64.  protowire is external: AppendVarint writes the  *)
(* shortest encoding, ConsumeVarint refuses a value beyond the width.       *)
(***************************************************************************)
EXTENDS Integers, Sequences, SequencesExt

CONSTANTS Group,        \* digits per byte, 128 in the code
          MaxVarintLen, \* maxVarintLen, 10 in the code
          VarintMax     \* the largest value, 2^64 - 1 in the code

Byte == 0 .. 2 * Group - 1

Continues(b) == b >= Group

(* Powers of Group: the value of the digit after i others.                *)
Weight[i \in Nat] == IF i = 0 THEN 1 ELSE Group * Weight[i - 1]

AppendVarint[v \in Nat] ==
  IF v < Group THEN <<v>>
  ELSE <<Group + (v % Group)>> \o AppendVarint[v \div Group]

(* The value of a sequence of bytes, least digit first.                   *)
Value(bytes) ==
  LET v[i \in 0 .. Len(bytes)] ==
        IF i = 0 THEN 0 ELSE v[i - 1] + (bytes[i] % Group) * Weight[i - 1]
  IN v[Len(bytes)]

ConsumeFails(encoded) == Value(encoded) > VarintMax

(* Mutant: the bound is off by one. *)
NonCanonicalStrict(encoded) ==
  Len(encoded) > 1 /\ Value(encoded) <= Weight[Len(encoded) - 1]

(* i > 0 && v < 1 << (7*i), for the byte with index i.                    *)
NonCanonical(encoded) ==
  Len(encoded) > 1 /\ Value(encoded) < Weight[Len(encoded) - 1]

(* Position of the byte that ends the field, 0 if there is none yet.      *)
FieldEnd(bytes) ==
  LET ends == {i \in 1 .. Len(bytes) : ~Continues(bytes[i])}
  IN IF ends = {} THEN 0 ELSE CHOOSE i \in ends : \A j \in ends : i <= j

(* readVarint on the bytes that are there: it needs more, or ends with a    *)
(* value or an error.                                                       *)
readVarint(bytes) ==
  LET field == SubSeq(bytes, 1, FieldEnd(bytes)) IN
  CASE field = <<>> -> IF Len(bytes) < MaxVarintLen THEN "more" ELSE "error"
    [] Len(field) > MaxVarintLen \/ ConsumeFails(field) -> "error"
    [] NonCanonical(field) -> "error"
    [] OTHER -> "value"

-----------------------------------------------------------------------------
(* readVarint accepts exactly what AppendVarint writes: a value it returns  *)
(* has no other accepted encoding, and no encoding of a value in range is   *)
(* refused ("rejects non-canonical and overlong encodings", frame.go:184).  *)
VarintExact(bytes) ==
  /\ readVarint(bytes) = "value" =>
       LET field == SubSeq(bytes, 1, FieldEnd(bytes)) IN field = AppendVarint[Value(field)]
  /\ readVarint(bytes) = "error" =>
       \A v \in 0 .. VarintMax : ~IsPrefix(AppendVarint[v], bytes)
=============================================================================
