----------------------------- MODULE MCCliInput -----------------------------
(* Feeds parseU64BigInt every command-line string of up to MaxChars         *)
(* characters over Chars, to compare what it accepts with the encodings     *)
(* spec.md section 6 accepts.                                               *)
EXTENDS CliCodec

CONSTANTS Chars, MaxChars

VARIABLE raw

Init == raw = <<>>

ChooseText == raw' \in BoundedSeq(Chars, MaxChars)

Spec == Init /\ [][ChooseText]_raw

(* spec.md section 4.1, failure conditions: a selector that is neither     *)
(* decimal nor 0x-prefixed hex text fails to parse (parseU64BigInt).       *)
SelectorRejectsMalformed ==
    ~(IsDecimalText(raw) \/ Is0xHexNumber(raw)) => ~ParseU64BigInt(raw).ok

=============================================================================
