------------------------------ MODULE CliCodec ------------------------------
(***************************************************************************)
(* The two argument parsers of ts-sdk-examples/index.ts and the runtime    *)
(* conversions they rely on.  A command-line string is a sequence of       *)
(* one-character strings.                                                  *)
(*   parseU64BigInt(input)  = BigInt(input) (both branches are the same)    *)
(*   parseVecU8(input)      = Buffer.from(hex) after "0x", else            *)
(*                            Buffer.from(s, 'base64')                     *)
(* BigInt follows ECMAScript StringToBigInt; Buffer follows Node's         *)
(* decoders, which never throw: hex stops at the first pair that is not    *)
(* two hex digits, base64 skips characters outside its alphabet and stops  *)
(* at the first "=".                                                       *)
(***************************************************************************)
EXTENDS Integers, Sequences, SequencesExt

Digits   == <<"0", "1", "2", "3", "4", "5", "6", "7", "8", "9">>
HexLower == Digits \o <<"a", "b", "c", "d", "e", "f">>
HexUpper == Digits \o <<"A", "B", "C", "D", "E", "F">>
B64 == <<"A", "B", "C", "D", "E", "F", "G", "H", "I", "J", "K", "L", "M",
         "N", "O", "P", "Q", "R", "S", "T", "U", "V", "W", "X", "Y", "Z",
         "a", "b", "c", "d", "e", "f", "g", "h", "i", "j", "k", "l", "m",
         "n", "o", "p", "q", "r", "s", "t", "u", "v", "w", "x", "y", "z">>
         \o Digits \o <<"+", "/">>
\* Node also accepts the URL-safe alphabet when decoding.
B64Url == [B64 EXCEPT ![63] = "-", ![64] = "_"]
WhiteSpace == {" ", "\t", "\n"}

IndexIn(seq, c) == SelectInSeq(seq, LAMBDA x : x = c)
IsHexDigit(c)   == IndexIn(HexLower, c) # 0 \/ IndexIn(HexUpper, c) # 0
HexVal(c)       == IF IndexIn(HexLower, c) # 0 THEN IndexIn(HexLower, c) - 1
                                               ELSE IndexIn(HexUpper, c) - 1
IsB64(c)        == IndexIn(B64, c) # 0 \/ IndexIn(B64Url, c) # 0
B64Val(c)       == IF IndexIn(B64, c) # 0 THEN IndexIn(B64, c) - 1 ELSE IndexIn(B64Url, c) - 1

\* String.prototype.trim
Trim(s) ==
    LET keep  == { i \in DOMAIN s : s[i] \notin WhiteSpace }
        first == IF keep = {} THEN 1 ELSE Min(keep)
        last  == IF keep = {} THEN 0 ELSE Max(keep)
    IN SubSeq(s, first, last)

\* Value of a digit string in a radix.
DigitsValue(ds, radix) == FoldLeft(LAMBDA acc, c : acc * radix + HexVal(c), 0, ds)
AllDigitsIn(ds, radix) == \A i \in DOMAIN ds : IsHexDigit(ds[i]) /\ HexVal(ds[i]) < radix

Ok(v)     == [ok |-> TRUE, val |-> v]
SyntaxErr == [ok |-> FALSE, val |-> 0]

Radix == [x |-> 16, X |-> 16, o |-> 8, O |-> 8, b |-> 2, B |-> 2]

\* BigInt(string): empty or blank is 0n; "0x"/"0o"/"0b" literals take no
\* sign; decimal literals take one; anything else is a SyntaxError.
JsBigInt(input) ==
    LET t == Trim(input) IN
    IF t = <<>> THEN Ok(0)
    ELSE IF Len(t) >= 2 /\ t[1] = "0" /\ t[2] \in DOMAIN Radix
    THEN LET ds == SubSeq(t, 3, Len(t)) IN
         IF ds # <<>> /\ AllDigitsIn(ds, Radix[t[2]])
         THEN Ok(DigitsValue(ds, Radix[t[2]])) ELSE SyntaxErr
    ELSE LET signed == t[1] \in {"+", "-"}
             ds     == IF signed THEN Tail(t) ELSE t
         IN IF ds # <<>> /\ AllDigitsIn(ds, 10)
            THEN Ok(IF t[1] = "-" THEN -DigitsValue(ds, 10) ELSE DigitsValue(ds, 10))
            ELSE SyntaxErr

\* Mutant: the 0x prefix stripped before BigInt.
ParseU64BigIntStripped(input) ==
    IF IsPrefix(<<"0", "x">>, input) THEN JsBigInt(SubSeq(input, 3, Len(input))) ELSE JsBigInt(input)

\* parseU64BigInt: input.startsWith('0x') ? BigInt(input) : BigInt(input)
ParseU64BigInt(input) == JsBigInt(input)

\* Buffer.from(s, 'hex')
RECURSIVE HexDecode(_)
HexDecode(s) ==
    IF Len(s) < 2 \/ ~IsHexDigit(s[1]) \/ ~IsHexDigit(s[2]) THEN <<>>
    ELSE << 16 * HexVal(s[1]) + HexVal(s[2]) >> \o HexDecode(SubSeq(s, 3, Len(s)))

\* Groups of four 6-bit values give three bytes; a final group of two or
\* three values gives one or two; a single leftover value gives nothing.
RECURSIVE Sextets2Bytes(_)
Sextets2Bytes(v) ==
    IF Len(v) < 2 THEN <<>>
    ELSE LET n == IF Len(v) < 4 THEN Len(v) ELSE 4
             w == FoldLeft(LAMBDA acc, i : acc * 64 + (IF i <= n THEN v[i] ELSE 0), 0, <<1, 2, 3, 4>>)
         IN [k \in 1..(n - 1) |-> (w \div (2 ^ (8 * (3 - k)))) % 256]
            \o Sextets2Bytes(SubSeq(v, n + 1, Len(v)))

\* Buffer.from(s, 'base64')
Base64Decode(s) ==
    LET eq     == IndexIn(s, "=")
        body   == IF eq = 0 THEN s ELSE SubSeq(s, 1, eq - 1)
        valid  == SelectSeq(body, IsB64)
    IN Sextets2Bytes([i \in DOMAIN valid |-> B64Val(valid[i])])

\* parseVecU8
ParseVecU8(input) ==
    IF input = <<>> THEN <<>>
    ELSE LET s == Trim(input) IN
         IF IsPrefix(<<"0", "x">>, s) THEN HexDecode(SubSeq(s, 3, Len(s)))
                                      ELSE Base64Decode(s)

-----------------------------------------------------------------------------
(* Reference encodings (spec.md section 6): decimal and lower-case hex     *)
(* text of a number, 0x-hex and padded RFC 4648 base64 text of bytes.      *)
RECURSIVE DecimalText(_), HexText(_)
DecimalText(n) == IF n < 10 THEN <<Digits[n + 1]>>
                  ELSE DecimalText(n \div 10) \o <<Digits[(n % 10) + 1]>>
HexText(n) == IF n < 16 THEN <<HexLower[n + 1]>>
              ELSE HexText(n \div 16) \o <<HexLower[(n % 16) + 1]>>

HexBytesText(b) ==
    FoldLeft(LAMBDA acc, x : acc \o <<HexLower[x \div 16 + 1], HexLower[(x % 16) + 1]>>, <<>>, b)

RECURSIVE Base64Text(_)
Base64Text(b) ==
    IF b = <<>> THEN <<>>
    ELSE LET n == IF Len(b) < 3 THEN Len(b) ELSE 3
             w == FoldLeft(LAMBDA acc, i : acc * 256 + (IF i <= n THEN b[i] ELSE 0), 0, <<1, 2, 3>>)
         IN [k \in 1..4 |-> IF k <= n + 1 THEN B64[((w \div (2 ^ (6 * (4 - k)))) % 64) + 1] ELSE "="]
            \o Base64Text(SubSeq(b, n + 1, Len(b)))

\* The accepted encodings of spec.md section 6.
IsDecimalText(s) == s # <<>> /\ AllDigitsIn(s, 10)
Is0xHexNumber(s) == Len(s) > 2 /\ IsPrefix(<<"0", "x">>, s) /\ AllDigitsIn(SubSeq(s, 3, Len(s)), 16)
Is0xHexBytes(s)  == IsPrefix(<<"0", "x">>, s) /\ AllDigitsIn(SubSeq(s, 3, Len(s)), 16)
                    /\ Len(s) % 2 = 0
\* Canonical padded base64: the text is the encoding of what it decodes to.
IsBase64Text(s)  == s # <<>> /\ Base64Text(Base64Decode(s)) = s
=============================================================================
