------------------------------ MODULE HexCodec ------------------------------
(***************************************************************************)
(* Keys as hexadecimal text in the configuration of psn (psn.c): a          *)
(* key is turned into digits when the configuration is written, and back   *)
(* when it is read.  hexc holds the key, the text, the bytes that come     *)
(* back, and the position of the last write into the text's buffer.        *)
(***************************************************************************)
EXTENDS Topics

CONSTANTS
    Base,           \* the digits of a byte are two numbers below it
    KEY_BUF,        \* size of pk_key_buf, of pk_hex_str it is twice that and one
    ExportedKeys,           \* exported keys: sequences of bytes
    UINT_MAX        \* the greatest unsigned int

\* A byte is a number, and the buffer's size fits the integers of the code.
ASSUME HexAssumption ==
    /\ Base \in Nat \ {0} /\ KEY_BUF \in Nat /\ UINT_MAX \in Nat
    /\ \A key \in ExportedKeys : key \in Seq(Nat)

VARIABLE hexc

HEX_STR == 2 * KEY_BUF + 1

HexInit == hexc = [pc |-> "off", key |-> <<>>, text |-> <<>>, last |-> 0, bytes |-> <<>>, outlen |-> 0]

\* Mutant of digits: a small byte has one digit.
digits_unpadded(byte) == IF byte < Base THEN <<byte>> ELSE <<byte \div Base, byte % Base>>

\* "%02x"
digits(byte) == <<byte \div Base, byte % Base>>

\* The pointer has moved with the digits when the end is marked once more, at
\* twice their number.
buf_to_hex_str(buf_in, outlen) ==
    IF outlen < 2 * Len(buf_in) + 1 THEN [text |-> <<>>, last |-> 0]
    ELSE [text |-> FoldLeft(LAMBDA text, byte : text \o digits(byte), <<>>, buf_in), last |-> 4 * Len(buf_in)]

\* The room is compared without regard to an empty text: length and bytes stay.
hex_str_to_buf(hex_in, outlen) ==
    IF outlen < ((Len(hex_in) - 1) % (UINT_MAX + 1)) \div 2 THEN [bytes |-> <<>>, outlen |-> outlen]
    ELSE [bytes |-> [i \in 1..(Len(hex_in) \div 2) |-> Base * hex_in[2 * i - 1] + hex_in[2 * i]], outlen |-> Len(hex_in) \div 2]

\* psn_serialize_config writes a key, and psn_deserialize_config reads it.
HexWrite ==
    /\ hexc.pc = "off"
    /\ \E key_bytes \in ExportedKeys :
         LET hex == buf_to_hex_str(key_bytes, HEX_STR)
         IN hexc' = [hexc EXCEPT !.pc = "text", !.key = key_bytes, !.text = hex.text, !.last = hex.last]

HexRead ==
    /\ hexc.pc = "text"
    /\ LET buf == hex_str_to_buf(hexc.text, KEY_BUF)
       IN hexc' = [hexc EXCEPT !.pc = "read", !.bytes = buf.bytes, !.outlen = buf.outlen]

HexNext == HexWrite \/ HexRead

HexSpec == HexInit /\ [][HexNext]_hexc

\* A key comes back as it was, whatever its bytes, and nothing is written outside
\* the buffer of the text, for keys up to half the size of their buffer (those
\* that psn_generate_new_key makes are about a quarter): buf_to_hex_str ends the
\* text a second time, at twice its length, and hex_str_to_buf takes an empty text
\* for one that is too long.
KeysComeBack ==
    Len(hexc.key) \in 1..(KEY_BUF \div 2) =>
      /\ hexc.last < HEX_STR
      /\ hexc.pc = "read" => hexc.bytes = hexc.key /\ hexc.outlen = Len(hexc.key)
=============================================================================
