----------------------------- MODULE MCCliCodec -----------------------------
(* Checks the parsers of index.ts against the reference encodings of        *)
(* spec.md section 6, over every byte string of up to MaxBytes bytes drawn  *)
(* from Bytes and every selector value up to MaxNumber.                     *)
EXTENDS CliCodec

CONSTANTS Bytes, MaxBytes, MaxNumber

\* The input under test: a byte string or a selector value.
VARIABLE input

ByteCases   == [kind : {"bytes"}, bytes : BoundedSeq(Bytes, MaxBytes)]
NumberCases == [kind : {"number"}, num : 0..MaxNumber]

Init == input = [kind |-> "number", num |-> 0]

ChooseBytes  == input' \in ByteCases
ChooseNumber == input' \in NumberCases

Next == ChooseBytes \/ ChooseNumber

Spec == Init /\ [][Next]_input

(* spec.md section 8: parseVecU8 yields the same bytes from their 0x-hex   *)
(* and from their base64 text, and the empty string yields no bytes.  The  *)
(* parser tells the two apart by a leading "0x" (index.ts:17), which the   *)
(* base64 text of some byte strings also begins with.                      *)
ByteEncodingsAgree ==
    input.kind = "bytes" =>
        /\ ParseVecU8(<<"0", "x">> \o HexBytesText(input.bytes)) = input.bytes
        /\ ParseVecU8(Base64Text(input.bytes)) = input.bytes
        /\ ParseVecU8(<<>>) = <<>>

(* spec.md section 8: parseU64BigInt reads a number's decimal and 0x-hex   *)
(* text as that number.                                                    *)
SelectorEncodingsAgree ==
    input.kind = "number" =>
        /\ ParseU64BigInt(DecimalText(input.num)) = Ok(input.num)
        /\ ParseU64BigInt(<<"0", "x">> \o HexText(input.num)) = Ok(input.num)
=============================================================================
