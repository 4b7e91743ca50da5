---------------------------- MODULE Parts_proofs ----------------------------
(***************************************************************************)
(* Proofs about parts of the programs: the hexadecimal codec of psn        *)
(* (HexCodec), the sockets of mosquitto (Sockets), mosquitto_passwd        *)
(* (PasswordFile), what the two brokers know of a bridge (Bridge), and     *)
(* what the broker publishes about itself (SysTree). They walk over lists  *)
(* with a fold, and SequenceFolds has the induction.                       *)
(***************************************************************************)
EXTENDS HexCodec, Sockets, PasswordFile, Bridge, SysTree, FiniteSetTheorems, SequenceTheorems, TLAPS

-----------------------------------------------------------------------------
(* Numbers and sequences.                                                  *)

\* A set of natural numbers has a least one.
LEMMA LeastNat ==
    ASSUME NEW T, T \subseteq Nat, T # {}
    PROVE  \E x \in T : \A y \in T : x <= y
<1>1. PICK x \in T : \A y \in T : ~(<<y, x>> \in OpToRel(<, Nat))
    BY NatLessThanWellFounded, WFMin
<1>2. \A y \in T : ~(y < x)
    BY <1>1 DEF OpToRel
<1>3. \A y \in T : x <= y
    BY <1>2
<1> QED BY <1>3

\* Induction on the natural numbers: the least number that is not in T is not 0,
\* and comes after one that is.
LEMMA NatInduct ==
    ASSUME NEW T, 0 \in T, \A k \in Nat : k \in T => k + 1 \in T
    PROVE  Nat \subseteq T
<1>1. SUFFICES ASSUME Nat \ T # {} PROVE FALSE
    OBVIOUS
<1>2. PICK x \in Nat \ T : \A y \in Nat \ T : x <= y
    <2>1. Nat \ T \subseteq Nat
        OBVIOUS
    <2> QED BY <1>1, <2>1, LeastNat
<1>3. x # 0
    OBVIOUS
<1>4. x - 1 \in Nat /\ x - 1 < x /\ x = (x - 1) + 1
    BY <1>3
<1>5. x - 1 \in T
    BY <1>2, <1>4
<1> QED BY <1>4, <1>5

\* Where the elements of two sequences are when they are put together.
LEMMA PutTogether ==
    ASSUME NEW S, NEW s \in Seq(S), NEW t \in Seq(S)
    PROVE  /\ s \o t \in Seq(S) /\ Len(s \o t) = Len(s) + Len(t)
           /\ DOMAIN (s \o t) = 1..(Len(s) + Len(t))
           /\ \A i \in 1..Len(s) : (s \o t)[i] = s[i]
           /\ \A i \in 1..(Len(s) + Len(t)) : i > Len(s) => (s \o t)[i] = t[i - Len(s)]
    OBVIOUS

\* Sequences are equal when their elements are.
LEMMA SameElements ==
    ASSUME NEW S, NEW s \in Seq(S), NEW t \in Seq(S), Len(s) = Len(t), \A m \in 1..Len(s) : s[m] = t[m]
    PROVE  s = t
<1>1. DOMAIN s = 1..Len(s) /\ DOMAIN t = 1..Len(t)
    OBVIOUS
<1>2. s = [m \in 1..Len(s) |-> s[m]] /\ t = [m \in 1..Len(t) |-> t[m]]
    BY <1>1
<1> QED BY <1>2

\* A tail.
LEMMA TailElements ==
    ASSUME NEW S, NEW c \in Seq(S), NEW p \in 1..Len(c)
    PROVE  /\ Len(SubSeq(c, p, Len(c))) = Len(c) - p + 1
           /\ \A x \in 1..(Len(c) - p + 1) : SubSeq(c, p, Len(c))[x] = c[p + x - 1]
    OBVIOUS

\* Texts that end in the same way, with zeros in front: the longer one is the
\* other with more zeros.
LEMMA SameTail ==
    ASSUME NEW c \in Seq(STRING), NEW d \in Seq(STRING), NEW p \in 1..Len(c), NEW q \in 1..Len(d), p >= q,
           SubSeq(c, p, Len(c)) = SubSeq(d, q, Len(d)),
           \A m \in 1..(p - 1) : c[m] = "0", \A m \in 1..(q - 1) : d[m] = "0"
    PROVE  c = [m \in 1..(p - q) |-> "0"] \o d
<1> DEFINE z == [m \in 1..(p - q) |-> "0"]
<1>1. p \in Nat /\ q \in Nat /\ p - q \in Nat /\ Len(c) \in Nat /\ Len(d) \in Nat /\ p <= Len(c) /\ q <= Len(d) /\ p >= 1 /\ q >= 1
    OBVIOUS
<1>2. z \in Seq(STRING) /\ Len(z) = p - q /\ \A m \in 1..(p - q) : z[m] = "0"
    <2>1. \A m \in 1..(p - q) : "0" \in STRING
        <3> SUFFICES ASSUME NEW m \in 1..(p - q) PROVE "0" \in STRING
            OBVIOUS
        <3>1. m \in 1..(p - 1) /\ m \in 1..Len(c)
            BY <1>1
        <3>2. c[m] \in STRING /\ c[m] = "0"
            BY <3>1
        <3> QED BY <3>2
    <2> QED BY <1>1, <2>1
<1>3. Len(c) - p + 1 = Len(d) - q + 1
    BY TailElements
<1> HIDE DEF z
<1>4. Len(c) = (p - q) + Len(d)
    <2>1. PICK lc \in Int, ld \in Int : lc = Len(c) /\ ld = Len(d)
        BY <1>1
    <2>2. lc - p + 1 = ld - q + 1
        BY <1>3, <2>1
    <2>3. lc = (p - q) + ld
        BY <1>1, <2>2
    <2> QED BY <2>1, <2>3
<1>5. /\ z \o d \in Seq(STRING) /\ Len(z \o d) = Len(z) + Len(d)
      /\ \A m \in 1..Len(z) : (z \o d)[m] = z[m]
      /\ \A m \in 1..(Len(z) + Len(d)) : m > Len(z) => (z \o d)[m] = d[m - Len(z)]
    <2>1. z \in Seq(STRING)
        BY <1>2
    <2> QED BY <2>1, PutTogether
<1>6. /\ Len(z \o d) = Len(c)
      /\ \A m \in 1..(p - q) : (z \o d)[m] = "0"
      /\ \A m \in 1..Len(c) : m > p - q => (z \o d)[m] = d[m - (p - q)]
    BY <1>2, <1>4, <1>5
<1>7. ASSUME NEW m \in 1..Len(c) PROVE c[m] = (z \o d)[m]
    <2>1. CASE m <= p - q
        <3>1. m \in 1..(p - 1) /\ m \in 1..(p - q)
            BY <1>1, <2>1
        <3> QED BY <3>1, <1>6
    <2>2. CASE p - q < m /\ m < p
        <3>1. m \in 1..(p - 1) /\ m - (p - q) \in 1..(q - 1) /\ m > p - q
            BY <1>1, <2>2
        <3>2. (z \o d)[m] = d[m - (p - q)]
            BY <1>6, <3>1
        <3> QED BY <3>1, <3>2
    <2>3. CASE p <= m
        <3> DEFINE x == m - p + 1
        <3>1. x \in 1..(Len(c) - p + 1) /\ p + x - 1 = m /\ q + x - 1 = m - (p - q) /\ x \in 1..(Len(d) - q + 1) /\ m > p - q
            BY <1>1, <2>3, <1>4
        <3> HIDE DEF x
        <3>2. SubSeq(c, p, Len(c))[x] = c[m]
            BY <3>1, TailElements
        <3>3. SubSeq(d, q, Len(d))[x] = d[m - (p - q)]
            BY <3>1, TailElements, SMTT(30)
        <3>4. (z \o d)[m] = d[m - (p - q)]
            BY <1>6, <3>1
        <3> QED BY <3>2, <3>3, <3>4
    <2>4. m <= p - q \/ (p - q < m /\ m < p) \/ p <= m
        BY <1>1
    <2> QED BY <2>1, <2>2, <2>3, <2>4
<1>8. c = z \o d
    <2>1. \A m \in 1..Len(c) : c[m] = (z \o d)[m]
        BY <1>7
    <2> QED BY <1>5, <1>6, <2>1, SameElements, Zenon
<1> QED BY <1>8 DEF z

-----------------------------------------------------------------------------
(* The hexadecimal codec.                                                  *)

\* One byte of a key, as a step of buf_to_hex_str.
put_byte(buf_in, text, byte) == text \o digits(byte)

\* The text after k bytes: the digits of each.
DigitsOf(buf_in, k, text) ==
    text = [i \in 1..(2 * k) |-> digits(buf_in[(i + 1) \div 2])[2 - (i % 2)]]

\* The walk over the bytes of a key.
HexWalk == INSTANCE SequenceFolds WITH op <- put_byte, Inv <- DigitsOf

\* The induction that the theorem of HexWalk assumes.
LEMMA HexWalkInducts == HexWalk!Induction
    BY NatInduct DEF HexWalk!Induction

\* The digits of k + 1 bytes are those of k, and two more.
LEMMA TwoMoreDigits ==
    ASSUME NEW key \in Seq(Nat), NEW k \in Nat, k + 1 <= Len(key), NEW text, DigitsOf(key, k, text)
    PROVE  DigitsOf(key, k + 1, put_byte(key, text, key[k + 1]))
<1> DEFINE two == digits(key[k + 1])
           more == text \o two
           all == [i \in 1..(2 * (k + 1)) |-> digits(key[(i + 1) \div 2])[2 - (i % 2)]]
<1>1. two = <<two[1], two[2]>> /\ Len(two) = 2 /\ two \in Seq(Int)
    <2>1. key[k + 1] \in Nat
        OBVIOUS
    <2> QED BY <2>1, HexAssumption DEF digits
<1> HIDE DEF two
<1>2. text = [i \in 1..(2 * k) |-> digits(key[(i + 1) \div 2])[2 - (i % 2)]]
    BY DEF DigitsOf
<1>3. text \in Seq(Int) /\ Len(text) = 2 * k
    <2>1. \A i \in 1..(2 * k) : text[i] \in Int
        <3> SUFFICES ASSUME NEW i \in 1..(2 * k) PROVE digits(key[(i + 1) \div 2])[2 - (i % 2)] \in Int
            BY <1>2
        <3>1. (i + 1) \div 2 \in 1..Len(key) /\ 2 - (i % 2) \in 1..2
            OBVIOUS
        <3>2. key[(i + 1) \div 2] \in Nat
            BY <3>1
        <3> QED BY <3>1, <3>2, HexAssumption, SMTT(30) DEF digits
    <2> QED BY <1>2, <2>1
<1>4. Len(more) = 2 * (k + 1) /\ DOMAIN more = 1..(2 * (k + 1)) /\ more \in Seq(Int)
    <2>1. Len(text) + Len(two) = 2 * (k + 1)
        BY <1>1, <1>3
    <2>2. text \in Seq(Int) /\ two \in Seq(Int)
        BY <1>1, <1>3
    <2>3. more \in Seq(Int) /\ Len(more) = Len(text) + Len(two)
        BY <2>2, PutTogether
    <2> HIDE DEF more
    <2> QED BY <2>1, <2>3
<1>5. ASSUME NEW i \in 1..(2 * (k + 1)) PROVE more[i] = digits(key[(i + 1) \div 2])[2 - (i % 2)]
    <2>1. CASE i <= 2 * k
        <3>1. more[i] = text[i]
            BY <1>1, <1>3, <2>1
        <3>2. i \in 1..(2 * k)
            BY <2>1
        <3> HIDE DEF more
        <3> QED BY <3>1, <3>2, <1>2
    <2>2. CASE i = 2 * k + 1
        <3>1. more[i] = two[1]
            <4>1. i - Len(text) = 1 /\ i \in 1..(Len(text) + Len(two)) /\ i > Len(text)
                BY <1>1, <1>3, <2>2
            <4>2. more[i] = two[i - Len(text)]
                BY <1>1, <1>3, <4>1, PutTogether, ZenonT(60)
            <4> QED BY <4>1, <4>2
        <3>2. (i + 1) \div 2 = k + 1 /\ 2 - (i % 2) = 1
            BY <2>2
        <3> HIDE DEF more
        <3> QED BY <3>1, <3>2 DEF two
    <2>3. CASE i = 2 * k + 2
        <3>1. more[i] = two[2]
            <4>1. i - Len(text) = 2 /\ i \in 1..(Len(text) + Len(two)) /\ i > Len(text)
                BY <1>1, <1>3, <2>3
            <4>2. more[i] = two[i - Len(text)]
                BY <1>1, <1>3, <4>1, PutTogether, ZenonT(60)
            <4> QED BY <4>1, <4>2
        <3>2. (i + 1) \div 2 = k + 1 /\ 2 - (i % 2) = 2
            BY <2>3
        <3> HIDE DEF more
        <3> QED BY <3>1, <3>2 DEF two
    <2>4. i <= 2 * k \/ i = 2 * k + 1 \/ i = 2 * k + 2
        OBVIOUS
    <2> HIDE DEF more
    <2> QED BY <2>1, <2>2, <2>3, <2>4
<1>6. more = all
    <2> HIDE DEF more
    <2>1. more = [i \in 1..(2 * (k + 1)) |-> more[i]]
        BY <1>4
    <2> QED BY <2>1, <1>5
<1> QED BY <1>6 DEF DigitsOf, put_byte, two

\* The text of a key.
LEMMA TextOfKey ==
    ASSUME NEW key \in Seq(Nat)
    PROVE  FoldLeft(LAMBDA text, byte : text \o digits(byte), <<>>, key)
             = [i \in 1..(2 * Len(key)) |-> digits(key[(i + 1) \div 2])[2 - (i % 2)]]
<1>1. DigitsOf(key, 0, <<>>)
    BY DEF DigitsOf
<1>2. \A k \in 1..Len(key) : \A text : DigitsOf(key, k - 1, text) => DigitsOf(key, k, put_byte(key, text, key[k]))
    <2> TAKE k \in 1..Len(key)
    <2> TAKE text
    <2> HAVE DigitsOf(key, k - 1, text)
    <2>1. k - 1 \in Nat /\ (k - 1) + 1 = k /\ k <= Len(key)
        OBVIOUS
    <2> QED BY <2>1, TwoMoreDigits
<1>3. DOMAIN key = 1..Len(key) /\ Len(key) \in Nat
    OBVIOUS
<1>4. DigitsOf(key, Len(key), HexWalk!Walk(key, <<>>, key))
    BY <1>1, <1>2, <1>3, HexWalk!WalkInvariant, HexWalkInducts
<1>5. HexWalk!Walk(key, <<>>, key) = FoldLeft(LAMBDA text, byte : text \o digits(byte), <<>>, key)
    BY DEF HexWalk!Walk, HexWalk!Greatest, FoldLeft, MapThenFoldSet, Max, put_byte
<1> QED BY <1>4, <1>5 DEF DigitsOf

\* A number is its quotient and its remainder.
LEMMA Division ==
    ASSUME NEW a \in Nat, NEW b \in Nat \ {0}
    PROVE  b * (a \div b) + (a % b) = a
    OBVIOUS

\* The text of a key, read again.
LEMMA KeyComesBack ==
    ASSUME NEW key \in Seq(Nat), Len(key) \in 1..(KEY_BUF \div 2)
    PROVE  LET hex == buf_to_hex_str(key, HEX_STR)
               buf == hex_str_to_buf(hex.text, KEY_BUF)
           IN hex.last < HEX_STR /\ buf.bytes = key /\ buf.outlen = Len(key)
<1> DEFINE n == Len(key)
           text == [i \in 1..(2 * n) |-> digits(key[(i + 1) \div 2])[2 - (i % 2)]]
           hex == buf_to_hex_str(key, HEX_STR)
           buf == hex_str_to_buf(text, KEY_BUF)
<1>1. n \in Nat /\ 2 * n <= KEY_BUF /\ n >= 1 /\ KEY_BUF \in Nat /\ UINT_MAX \in Nat
    BY HexAssumption
<1>2. hex.text = text /\ hex.last = 4 * n
    <2>1. ~(HEX_STR < 2 * n + 1)
        BY <1>1 DEF HEX_STR
    <2>2. hex = [text |-> text, last |-> 4 * n]
        BY <2>1, TextOfKey DEF buf_to_hex_str
    <2> QED BY <2>2
<1>3. hex.last < HEX_STR
    BY <1>1, <1>2 DEF HEX_STR
<1>4. DOMAIN text = 1..(2 * n) /\ Len(text) = 2 * n
    BY <1>1
<1>5. ~(KEY_BUF < ((2 * n - 1) % (UINT_MAX + 1)) \div 2)
    <2> DEFINE m == (2 * n - 1) % (UINT_MAX + 1)
    <2>1. m \in Nat /\ m <= 2 * n - 1
        BY <1>1
    <2> HIDE DEF m
    <2> QED BY <1>1, <2>1
<1>6. (2 * n) \div 2 = n
    BY <1>1
<1>7. buf.bytes = [i \in 1..n |-> Base * text[2 * i - 1] + text[2 * i]] /\ buf.outlen = n
    <2> HIDE DEF text, n
    <2> QED BY <1>4, <1>5, <1>6 DEF hex_str_to_buf
<1>8. ASSUME NEW i \in 1..n PROVE Base * text[2 * i - 1] + text[2 * i] = key[i]
    <2>1. 2 * i - 1 \in 1..(2 * n) /\ 2 * i \in 1..(2 * n)
        OBVIOUS
    <2>2. /\ ((2 * i - 1) + 1) \div 2 = i /\ 2 - ((2 * i - 1) % 2) = 1
          /\ (2 * i + 1) \div 2 = i /\ 2 - ((2 * i) % 2) = 2
        OBVIOUS
    <2>3. text[2 * i - 1] = digits(key[i])[1] /\ text[2 * i] = digits(key[i])[2]
        <3> HIDE DEF n
        <3> QED BY <2>1, <2>2
    <2>4. key[i] \in Nat
        OBVIOUS
    <2>5. Base * (key[i] \div Base) + (key[i] % Base) = key[i]
        BY <2>4, HexAssumption, Division
    <2> HIDE DEF text
    <2> QED BY <2>3, <2>5 DEF digits
<1>9. key = [i \in 1..n |-> key[i]]
    OBVIOUS
<1>10. buf.bytes = key
    <2> HIDE DEF buf, text, n
    <2> QED BY <1>7, <1>8, <1>9
<1> QED BY <1>2, <1>3, <1>7, <1>10

\* What is known on the way of a key into a file and back.
HexInv ==
    /\ DOMAIN hexc = {"pc", "key", "text", "last", "bytes", "outlen"}
    /\ LET hex == buf_to_hex_str(hexc.key, HEX_STR)
           buf == hex_str_to_buf(hex.text, KEY_BUF)
       IN \/ hexc.pc = "off" /\ hexc.key = <<>>
          \/ /\ hexc.key \in Seq(Nat) /\ hexc.text = hex.text /\ hexc.last = hex.last
             /\ \/ hexc.pc = "text"
                \/ hexc.pc = "read" /\ hexc.bytes = buf.bytes /\ hexc.outlen = buf.outlen

\* Writing and reading go the way of KeyComesBack.
LEMMA HexStep == HexInv /\ [HexNext]_hexc => HexInv'
<1> SUFFICES ASSUME HexInv, [HexNext]_hexc PROVE HexInv'
    OBVIOUS
<1>1. CASE HexWrite
    <2>1. PICK key \in ExportedKeys :
            hexc' = [hexc EXCEPT !.pc = "text", !.key = key, !.text = buf_to_hex_str(key, HEX_STR).text,
                                 !.last = buf_to_hex_str(key, HEX_STR).last]
        BY <1>1 DEF HexWrite
    <2>2. /\ hexc'.pc = "text" /\ hexc'.key = key /\ DOMAIN hexc' = {"pc", "key", "text", "last", "bytes", "outlen"}
          /\ hexc'.text = buf_to_hex_str(key, HEX_STR).text /\ hexc'.last = buf_to_hex_str(key, HEX_STR).last
        BY <2>1 DEF HexInv
    <2>3. key \in Seq(Nat)
        BY HexAssumption
    <2> QED BY <2>2, <2>3 DEF HexInv
<1>2. CASE HexRead
    <2> QED BY <1>2 DEF HexInv, HexRead
<1>3. CASE UNCHANGED hexc
    <2> QED BY <1>3 DEF HexInv
<1> QED BY <1>1, <1>2, <1>3 DEF HexNext

\* A key is written and read as it was, for every key.
THEOREM KeysSurvive == HexSpec => []KeysComeBack
<1>1. HexInit => HexInv
    BY DEF HexInit, HexInv
<1>2. HexInv => KeysComeBack
    <2> SUFFICES ASSUME HexInv, Len(hexc.key) \in 1..(KEY_BUF \div 2)
                 PROVE  /\ hexc.last < HEX_STR
                        /\ hexc.pc = "read" => hexc.bytes = hexc.key /\ hexc.outlen = Len(hexc.key)
        BY DEF KeysComeBack
    <2>1. hexc.key \in Seq(Nat)
        BY DEF HexInv
    <2>2. LET hex == buf_to_hex_str(hexc.key, HEX_STR)
              buf == hex_str_to_buf(hex.text, KEY_BUF)
          IN hex.last < HEX_STR /\ buf.bytes = hexc.key /\ buf.outlen = Len(hexc.key)
        BY <2>1, KeyComesBack
    <2>3. hexc.key # <<>>
        OBVIOUS
    <2> QED BY <2>2, <2>3 DEF HexInv
<1>3. HexSpec => []HexInv
    BY <1>1, HexStep, PTL DEF HexSpec
<1> QED BY <1>2, <1>3, PTL

-----------------------------------------------------------------------------
(* The sockets: the descriptors.                                           *)

\* The fields of net.
Fields == {"world", "open", "twice", "broken", "sock", "sockpair", "ssl", "ssl_ctx", "shake",
           "inits", "tries", "socks", "secure", "username", "pc"}

\* Descriptors are numbers, and there are finitely many.
Fds(n) == DOMAIN n = Fields /\ IsFiniteSet(n.open) /\ n.open \subseteq Nat

\* q is p but for the fields F.
SameBut(p, q, F) == DOMAIN q = Fields /\ \A f \in Fields \ F : q[f] = p[f]

\* One address, as a step of _mosquitto_try_connect.
try_address(before, s, outcome) ==
    LET fd == free_fd(s.n)
        opened == socket(s.n)
    IN CASE s.sock # NULL \/ outcome = "no socket" -> s
         [] s.sock = NULL /\ outcome \in {"bind", "refused"} -> [s EXCEPT !.n = COMPAT_CLOSE(opened, fd)]
         [] s.sock = NULL /\ outcome = "fcntl" -> [s EXCEPT !.n = COMPAT_CLOSE(_mosquitto_socket_nonblock(opened, fd), fd)]
         [] s.sock = NULL /\ outcome = "ok" -> [n |-> opened, sock |-> fd]

\* What has become of the descriptors after k addresses.
Tried(before, k, s) ==
    /\ s = [n |-> s.n, sock |-> s.sock]
    /\ Fds(s.n) /\ SameBut(before, s.n, {"open", "twice", "broken"})
    /\ s.sock = NULL => s.n.open = before.open
    /\ s.sock # NULL => s.sock \in Nat \ before.open /\ s.n.open = before.open \cup {s.sock}
    /\ ~s.n.broken => ~before.broken /\ (~before.twice => ~s.n.twice)

\* The walk over the addresses, with what holds after each.
TryWalk == INSTANCE SequenceFolds WITH op <- try_address, Inv <- Tried

\* The induction that the theorem of TryWalk assumes.
LEMMA TryWalkInducts == TryWalk!Induction
    BY NatInduct DEF TryWalk!Induction

-----------------------------------------------------------------------------

\* There is a free number, as the open ones are finitely many.
LEMMA FreeFd ==
    ASSUME NEW n, IsFiniteSet(n.open)
    PROVE  free_fd(n) \in Nat \ n.open
<1> DEFINE c == Cardinality(n.open)
           D == {k \in Nat : k >= 1 /\ k \notin n.open}
<1>1. c \in Nat
    BY FS_CardinalityType
<1> HIDE DEF c
<1>2. PICK x \in 1..(c + 1) : x \notin n.open
    <2>1. SUFFICES ASSUME 1..(c + 1) \subseteq n.open PROVE FALSE
        OBVIOUS
    <2>2. Cardinality(1..(c + 1)) <= c
        BY <2>1, FS_Subset DEF c
    <2>3. Cardinality(1..(c + 1)) = c + 1
        <3>1. 1 \in Int /\ c + 1 \in Int /\ 1 <= c + 1
            BY <1>1
        <3>2. Cardinality(1..(c + 1)) = (c + 1) - 1 + 1
            BY <3>1, FS_Interval
        <3> QED BY <3>2, <1>1
    <2> QED BY <1>1, <2>2, <2>3
<1>3. PICK m \in D : \A y \in D : m <= y
    <2>1. x \in D
        BY <1>1, <1>2
    <2> QED BY <2>1, LeastNat
<1>4. m \in 1..(c + 1) /\ m \notin n.open
    BY <1>1, <1>2, <1>3
<1>5. \A lower_fd \in 1..(m - 1) : lower_fd \in n.open
    BY <1>3
<1>6. free_fd(n) \in 1..(c + 1) /\ free_fd(n) \notin n.open
    <2>1. \E fd \in 1..(c + 1) : fd \notin n.open /\ \A lower_fd \in 1..(fd - 1) : lower_fd \in n.open
        BY <1>4, <1>5
    <2> QED BY <2>1, Zenon DEF free_fd, c
<1> QED BY <1>1, <1>6

\* A new descriptor.
LEMMA Opens ==
    ASSUME NEW n, Fds(n)
    PROVE  /\ free_fd(n) \in Nat \ n.open
           /\ Fds(socket(n)) /\ SameBut(n, socket(n), {"open"})
           /\ socket(n).open = n.open \cup {free_fd(n)}
<1>1. free_fd(n) \in Nat \ n.open
    BY FreeFd DEF Fds
<1>2. DOMAIN socket(n) = Fields /\ socket(n).open = n.open \cup {free_fd(n)}
      /\ \A f \in Fields \ {"open"} : socket(n)[f] = n[f]
    BY DEF Fds, socket, Fields
<1>3. IsFiniteSet(n.open \cup {free_fd(n)})
    BY FS_AddElement DEF Fds
<1> QED BY <1>1, <1>2, <1>3 DEF Fds, SameBut

\* A descriptor is closed.
LEMMA Closes ==
    ASSUME NEW n, NEW fd, Fds(n)
    PROVE  LET q == COMPAT_CLOSE(n, fd)
           IN /\ Fds(q) /\ SameBut(n, q, {"open", "twice"})
              /\ q.open = n.open \ {fd}
              /\ fd \in n.open /\ ~n.twice => ~q.twice
<1> DEFINE q == COMPAT_CLOSE(n, fd)
<1>1. DOMAIN q = Fields /\ q.open = n.open \ {fd}
      /\ \A f \in Fields \ {"open", "twice"} : q[f] = n[f]
    BY DEF Fds, COMPAT_CLOSE, Fields
<1>2. fd \in n.open /\ ~n.twice => ~q.twice
    BY DEF Fds, COMPAT_CLOSE, Fields
<1>3. IsFiniteSet(n.open \ {fd})
    BY FS_RemoveElement DEF Fds
<1> HIDE DEF q
<1>4. Fds(q) /\ SameBut(n, q, {"open", "twice"})
    BY <1>1, <1>3 DEF Fds, SameBut
<1> QED BY <1>1, <1>2, <1>4 DEF q

\* A descriptor is closed because fcntl fails.
LEMMA Breaks ==
    ASSUME NEW n, NEW fd, Fds(n)
    PROVE  LET q == _mosquitto_socket_nonblock(n, fd)
           IN /\ Fds(q) /\ SameBut(n, q, {"open", "twice", "broken"})
              /\ q.open = n.open \ {fd} /\ q.broken
<1> DEFINE c == COMPAT_CLOSE(n, fd)
           q == _mosquitto_socket_nonblock(n, fd)
<1>1. Fds(c) /\ SameBut(n, c, {"open", "twice"}) /\ c.open = n.open \ {fd}
    BY Closes
<1>2. q = [c EXCEPT !.broken = TRUE]
    BY DEF _mosquitto_socket_nonblock
<1> HIDE DEF c, q
<1>3. DOMAIN q = Fields /\ q.broken /\ q.open = c.open /\ \A f \in Fields \ {"broken"} : q[f] = c[f]
    BY <1>1, <1>2 DEF Fds, Fields
<1>4. \A f \in Fields \ {"open", "twice", "broken"} : q[f] = n[f]
    BY <1>1, <1>3 DEF SameBut
<1>5. Fds(q) /\ SameBut(n, q, {"open", "twice", "broken"}) /\ q.open = n.open \ {fd} /\ q.broken
    BY <1>1, <1>3, <1>4 DEF Fds, SameBut
<1> QED BY <1>5 DEF q

\* What may become of an attempt to use an address.
Outcomes == {"no socket", "bind", "refused", "fcntl", "ok"}

\* One address leaves no descriptor behind that is not the connection's.
LEMMA TryStep ==
    ASSUME NEW before, NEW k, NEW j, NEW s, NEW outcome \in Outcomes, Tried(before, j, s)
    PROVE  Tried(before, k, try_address(before, s, outcome))
<1> DEFINE fd == free_fd(s.n)
           opened == socket(s.n)
           r == try_address(before, s, outcome)
<1>0. s = [n |-> s.n, sock |-> s.sock] /\ Fds(s.n) /\ NULL \notin Nat
    BY WorldsAssumption DEF Tried
<1>1. CASE s.sock # NULL \/ outcome = "no socket"
    <2>1. r = s
        BY <1>1 DEF try_address
    <2> QED BY <2>1 DEF Tried
<1>2. CASE ~(s.sock # NULL \/ outcome = "no socket")
    <2>1. s.sock = NULL /\ s.n.open = before.open
        BY <1>2 DEF Tried
    <2>2. /\ fd \in Nat \ s.n.open /\ Fds(opened) /\ SameBut(s.n, opened, {"open"})
          /\ opened.open = s.n.open \cup {fd}
        BY <1>0, Opens
    <2>3. opened.twice = s.n.twice /\ opened.broken = s.n.broken
        BY <2>2 DEF SameBut, Fields
    <2>4. /\ SameBut(before, s.n, {"open", "twice", "broken"})
          /\ ~s.n.broken => ~before.broken /\ (~before.twice => ~s.n.twice)
        BY DEF Tried
    <2>5. CASE outcome \in {"bind", "refused"}
        <3> DEFINE c == COMPAT_CLOSE(opened, fd)
        <3>1. r = [s EXCEPT !.n = c]
            BY <1>2, <2>5 DEF try_address
        <3>2. /\ Fds(c) /\ SameBut(opened, c, {"open", "twice"}) /\ c.open = opened.open \ {fd}
              /\ fd \in opened.open /\ ~opened.twice => ~c.twice
            BY <2>2, Closes
        <3> HIDE DEF c, opened, fd, r
        <3>3. r.n = c /\ r.sock = NULL /\ r = [n |-> r.n, sock |-> r.sock]
            BY <1>0, <2>1, <3>1
        <3>4. c.open = before.open
            BY <2>1, <2>2, <3>2
        <3>5. SameBut(before, c, {"open", "twice", "broken"})
            BY <2>2, <2>4, <3>2 DEF SameBut
        <3>6. c.broken = s.n.broken
            BY <2>3, <3>2 DEF SameBut, Fields
        <3>7. ~c.broken => ~before.broken /\ (~before.twice => ~c.twice)
            BY <2>2, <2>3, <2>4, <3>2, <3>6
        <3> QED BY <3>2, <3>3, <3>4, <3>5, <3>7 DEF Tried, r
    <2>6. CASE outcome = "fcntl"
        <3> DEFINE b == _mosquitto_socket_nonblock(opened, fd)
                   c == COMPAT_CLOSE(b, fd)
        <3>1. r = [s EXCEPT !.n = c]
            BY <1>2, <2>6 DEF try_address
        <3>2. Fds(b) /\ SameBut(opened, b, {"open", "twice", "broken"}) /\ b.open = opened.open \ {fd} /\ b.broken
            BY <2>2, Breaks
        <3>3. Fds(c) /\ SameBut(b, c, {"open", "twice"}) /\ c.open = b.open \ {fd}
            BY <3>2, Closes
        <3> HIDE DEF b, c, opened, fd, r
        <3>4. r.n = c /\ r.sock = NULL /\ r = [n |-> r.n, sock |-> r.sock]
            BY <1>0, <2>1, <3>1
        <3>5. c.open = before.open
            BY <2>1, <2>2, <3>2, <3>3
        <3>6. SameBut(before, c, {"open", "twice", "broken"})
            BY <2>2, <2>4, <3>2, <3>3 DEF SameBut
        <3>7. c.broken
            BY <3>2, <3>3 DEF SameBut, Fields
        <3> QED BY <3>3, <3>4, <3>5, <3>6, <3>7 DEF Tried, r
    <2>7. CASE outcome = "ok"
        <3>1. r = [n |-> opened, sock |-> fd]
            BY <1>2, <2>7 DEF try_address
        <3> HIDE DEF opened, fd, r
        <3>2. r.n = opened /\ r.sock = fd /\ r = [n |-> r.n, sock |-> r.sock]
            BY <3>1
        <3>3. fd # NULL
            BY <1>0, <2>2
        <3>4. SameBut(before, opened, {"open", "twice", "broken"})
            BY <2>2, <2>4 DEF SameBut
        <3> QED BY <2>1, <2>2, <2>3, <2>4, <3>2, <3>3, <3>4 DEF Tried, r
    <2> QED BY <1>2, <2>5, <2>6, <2>7 DEF Outcomes
<1> QED BY <1>1, <1>2

\* Trying the addresses opens one descriptor, the connection's, or none.
LEMMA TryConnect ==
    ASSUME NEW n, NEW addresses \in Seq(Outcomes), Fds(n)
    PROVE  Tried(n, Len(addresses), _mosquitto_try_connect(n, addresses))
<1> DEFINE base == [n |-> n, sock |-> NULL]
<1>1. Tried(n, 0, base)
    BY DEF Tried, Fds, SameBut
<1>2. \A k \in 1..Len(addresses) : \A s : Tried(n, k - 1, s) => Tried(n, k, try_address(n, s, addresses[k]))
    <2> TAKE k \in 1..Len(addresses)
    <2> TAKE s
    <2> HAVE Tried(n, k - 1, s)
    <2>1. addresses[k] \in Outcomes
        OBVIOUS
    <2> QED BY <2>1, TryStep
<1>3. DOMAIN addresses = 1..Len(addresses) /\ Len(addresses) \in Nat
    OBVIOUS
<1>4. Tried(n, Len(addresses), TryWalk!Walk(n, base, addresses))
    <2> HIDE DEF base
    <2> QED BY <1>1, <1>2, <1>3, TryWalk!WalkInvariant, TryWalkInducts
<1>5. TryWalk!Walk(n, base, addresses) = _mosquitto_try_connect(n, addresses)
    BY DEF _mosquitto_try_connect, try_address, TryWalk!Walk, TryWalk!Greatest,
           FoldLeft, MapThenFoldSet, Max
<1> QED BY <1>4, <1>5

\* A socket pair is two new descriptors, or nothing has changed, or fcntl fails.
LEMMA Paired ==
    ASSUME NEW n, NEW outcome, Fds(n)
    PROVE  LET p == _mosquitto_socketpair(n, outcome)
           IN /\ Fds(p) /\ SameBut(n, p, {"open", "twice", "broken", "sockpair"})
              /\ \/ p = n
                 \/ p.broken
                 \/ \E r, w \in Nat \ n.open :
                      /\ r # w /\ p.sockpair = <<r, w>> /\ p.open = n.open \cup {r, w}
                      /\ p.twice = n.twice /\ p.broken = n.broken
<1> DEFINE one == socket(n)
           both == socket(one)
           r == free_fd(n)
           w == free_fd(one)
           p == _mosquitto_socketpair(n, outcome)
<1>1. r \in Nat \ n.open /\ Fds(one) /\ SameBut(n, one, {"open"}) /\ one.open = n.open \cup {r}
    BY Opens
<1>2. w \in Nat \ one.open /\ Fds(both) /\ SameBut(one, both, {"open"}) /\ both.open = one.open \cup {w}
    BY <1>1, Opens
<1>3. CASE outcome = "ok"
    <2>1. p = [both EXCEPT !.sockpair = <<r, w>>]
        BY <1>3 DEF _mosquitto_socketpair
    <2> HIDE DEF one, both, r, w, p
    <2>2. DOMAIN p = Fields /\ p.sockpair = <<r, w>> /\ \A f \in Fields \ {"sockpair"} : p[f] = both[f]
        BY <1>2, <2>1 DEF Fds, Fields
    <2>3. p.open = n.open \cup {r, w} /\ p.twice = n.twice /\ p.broken = n.broken
        BY <1>1, <1>2, <2>2 DEF SameBut, Fields
    <2>4. SameBut(n, p, {"open", "twice", "broken", "sockpair"})
        BY <1>1, <1>2, <2>2 DEF SameBut
    <2>5. Fds(p)
        BY <1>2, <2>2 DEF Fds, Fields
    <2>6. r \in Nat \ n.open /\ w \in Nat \ n.open /\ r # w
        BY <1>1, <1>2
    <2> QED BY <2>2, <2>3, <2>4, <2>5, <2>6 DEF p
<1>4. CASE outcome = "fcntl"
    <2> DEFINE b == _mosquitto_socket_nonblock(both, r)
               c == COMPAT_CLOSE(b, r)
               d == COMPAT_CLOSE(c, w)
    <2>1. p = d
        BY <1>4 DEF _mosquitto_socketpair
    <2>2. Fds(b) /\ SameBut(both, b, {"open", "twice", "broken"}) /\ b.broken
        BY <1>2, Breaks
    <2>3. Fds(c) /\ SameBut(b, c, {"open", "twice"})
        BY <2>2, Closes
    <2>4. Fds(d) /\ SameBut(c, d, {"open", "twice"})
        BY <2>3, Closes
    <2> HIDE DEF one, both, r, w, p, b, c, d
    <2>5. p.broken
        BY <2>1, <2>2, <2>3, <2>4 DEF SameBut, Fields
    <2>6. SameBut(n, p, {"open", "twice", "broken", "sockpair"})
        BY <1>1, <1>2, <2>1, <2>2, <2>3, <2>4 DEF SameBut
    <2> QED BY <2>1, <2>4, <2>5, <2>6 DEF p
<1>5. CASE outcome \notin {"ok", "fcntl"}
    <2>1. p = n
        BY <1>5 DEF _mosquitto_socketpair
    <2>2. SameBut(n, n, {"open", "twice", "broken", "sockpair"})
        BY DEF SameBut, Fds
    <2> HIDE DEF p
    <2> QED BY <2>1, <2>2 DEF p
<1> QED BY <1>3, <1>4, <1>5

-----------------------------------------------------------------------------

\* What a call that connects may change, and how the connection is then.
Connected(n, q) ==
    /\ Fds(q) /\ SameBut(n, q, {"open", "twice", "broken", "sock", "ssl", "ssl_ctx", "shake"})
    /\ q.sock = NULL => q.open = n.open /\ q.shake = "none"
    /\ q.sock # NULL => q.sock \in Nat \ n.open /\ q.open = n.open \cup {q.sock}
    /\ ~q.broken => ~n.broken /\ (~n.twice => ~q.twice)
    /\ q.shake \in {"none", "pending", "done"}
    /\ q.shake # "none" => q.sock # NULL /\ q.ssl = q.sock /\ n.world.client.tls # "none"
    /\ q.shake = "done" => accepted(n.world.client, n.world.peer)

\* _mosquitto_socket_connect keeps the descriptor of a connection that it makes,
\* and no other, however it fails.
LEMMA Connects ==
    ASSUME NEW n, Fds(n), n.sock = NULL, n.shake = "none", n.world.addresses \in Seq(Outcomes),
           NEW q \in _mosquitto_socket_connect(n)
    PROVE  Connected(n, q)
<1> DEFINE tried == _mosquitto_try_connect(n, n.world.addresses)
           t == tried.n
           fd == tried.sock
           client == n.world.client
           closed == COMPAT_CLOSE(t, fd)
           shaking == [t EXCEPT !.ssl_ctx = TRUE, !.ssl = fd, !.sock = fd]
<1>1. /\ Fds(t) /\ SameBut(n, t, {"open", "twice", "broken"})
      /\ fd = NULL => t.open = n.open
      /\ fd # NULL => fd \in Nat \ n.open /\ t.open = n.open \cup {fd}
      /\ ~t.broken => ~n.broken /\ (~n.twice => ~t.twice)
    BY TryConnect DEF Tried
<1>2. t.sock = NULL /\ t.shake = "none"
    <2> HIDE DEF tried
    <2> QED BY <1>1 DEF SameBut, Fields
<1>3. q \in CASE fd = NULL -> {t}
              [] fd # NULL /\ client.tls = "none" -> {[t EXCEPT !.sock = fd]}
              [] fd # NULL /\ client.tls # "none" /\ client.bad = "version" -> {closed}
              [] fd # NULL /\ client.tls # "none" /\ client.bad \notin {NULL, "version"} -> {[closed EXCEPT !.ssl_ctx = TRUE]}
              [] fd # NULL /\ client.tls # "none" /\ client.bad = NULL ->
                   (IF accepted(client, n.world.peer) THEN {[shaking EXCEPT !.shake = "done"]} ELSE {})
                   \cup {[shaking EXCEPT !.shake = "pending"], [closed EXCEPT !.ssl_ctx = TRUE, !.ssl = fd]}
    BY DEF _mosquitto_socket_connect
<1>4. CASE fd = NULL
    <2> HIDE DEF tried
    <2>1. q = t
        BY <1>3, <1>4
    <2>2. SameBut(n, t, {"open", "twice", "broken", "sock", "ssl", "ssl_ctx", "shake"})
        BY <1>1 DEF SameBut
    <2> QED BY <1>1, <1>2, <1>4, <2>1, <2>2 DEF Connected
<1>5. CASE fd # NULL /\ q \in {[t EXCEPT !.sock = fd], [shaking EXCEPT !.shake = "pending"], [shaking EXCEPT !.shake = "done"]}
    <2>1. /\ DOMAIN q = Fields /\ q.sock = fd
          /\ \A f \in Fields \ {"sock", "ssl", "ssl_ctx", "shake"} : q[f] = t[f]
        <3> HIDE DEF tried
        <3> QED BY <1>1, <1>5 DEF Fds, Fields
    <2>2. /\ q.shake \in {"none", "pending", "done"} /\ (q.shake # "none" => q.ssl = fd)
        <3> HIDE DEF tried
        <3> QED BY <1>1, <1>2, <1>5 DEF Fds, Fields
    <2>3. q.shake # "none" => client.tls # "none"
        <3> HIDE DEF tried
        <3>1. CASE client.tls = "none"
            <4>1. q = [t EXCEPT !.sock = fd]
                BY <1>3, <1>5, <3>1
            <4> QED BY <1>1, <1>2, <4>1 DEF Fds, Fields
        <3> QED BY <3>1
    <2>4. q.shake = "done" => accepted(client, n.world.peer)
        <3> HIDE DEF tried
        <3>1. CASE ~accepted(client, n.world.peer)
            <4>1. q \in {t, [t EXCEPT !.sock = fd], closed, [closed EXCEPT !.ssl_ctx = TRUE],
                         [shaking EXCEPT !.shake = "pending"], [closed EXCEPT !.ssl_ctx = TRUE, !.ssl = fd]}
                BY <1>3, <3>1, <1>5
            <4>2. Fds(closed) /\ SameBut(t, closed, {"open", "twice"})
                BY <1>1, Closes
            <4> HIDE DEF closed
            <4>3. closed.shake = "none"
                BY <1>2, <4>2 DEF SameBut, Fields
            <4>4. DOMAIN t = Fields /\ DOMAIN closed = Fields
                BY <1>1, <4>2 DEF Fds
            <4> QED BY <1>2, <4>1, <4>3, <4>4 DEF Fields
        <3> QED BY <3>1
    <2> HIDE DEF tried, t, fd
    <2>5. q.open = t.open /\ q.twice = t.twice /\ q.broken = t.broken
        BY <2>1 DEF Fields
    <2>6. SameBut(n, q, {"open", "twice", "broken", "sock", "ssl", "ssl_ctx", "shake"})
        BY <1>1, <2>1 DEF SameBut
    <2>7. Fds(q)
        BY <1>1, <2>1, <2>5 DEF Fds
    <2> QED BY <1>1, <1>5, <2>1, <2>2, <2>3, <2>4, <2>5, <2>6, <2>7 DEF Connected
<1>6. CASE fd # NULL /\ q \in {closed, [closed EXCEPT !.ssl_ctx = TRUE], [closed EXCEPT !.ssl_ctx = TRUE, !.ssl = fd]}
    <2>1. /\ Fds(closed) /\ SameBut(t, closed, {"open", "twice"}) /\ closed.open = t.open \ {fd}
          /\ fd \in t.open /\ ~t.twice => ~closed.twice
        BY <1>1, Closes
    <2> HIDE DEF tried, closed
    <2>2. DOMAIN q = Fields /\ \A f \in Fields \ {"ssl", "ssl_ctx"} : q[f] = closed[f]
        BY <1>6, <2>1 DEF Fds, Fields
    <2>3. q.open = n.open
        <3>1. q.open = closed.open
            BY <2>2 DEF Fields
        <3> QED BY <1>1, <1>6, <2>1, <3>1
    <2>4. q.sock = NULL /\ q.shake = "none" /\ q.broken = t.broken /\ q.twice = closed.twice
        BY <1>2, <2>1, <2>2 DEF SameBut, Fields
    <2>5. SameBut(n, q, {"open", "twice", "broken", "sock", "ssl", "ssl_ctx", "shake"})
        BY <1>1, <2>1, <2>2 DEF SameBut
    <2>6. Fds(q)
        BY <1>1, <2>1, <2>2 DEF Fds, Fields
    <2> HIDE DEF t, fd
    <2> QED BY <1>1, <1>6, <2>1, <2>3, <2>4, <2>5, <2>6 DEF Connected
<1> HIDE DEF tried, closed
<1> QED BY <1>3, <1>4, <1>5, <1>6

\* The connection is closed.
LEMMA Disconnects ==
    ASSUME NEW n, Fds(n)
    PROVE  LET q == _mosquitto_socket_close(n)
           IN /\ Fds(q) /\ SameBut(n, q, {"open", "twice", "sock", "ssl", "ssl_ctx", "shake"})
              /\ q.sock = NULL /\ q.shake = "none" /\ q.open = n.open \ {n.sock}
              /\ (n.sock # NULL => n.sock \in n.open) /\ ~n.twice => ~q.twice
<1> DEFINE plain == [n EXCEPT !.ssl = NULL, !.ssl_ctx = FALSE, !.shake = "none"]
           c == COMPAT_CLOSE(plain, n.sock)
           q == _mosquitto_socket_close(n)
<1>1. DOMAIN plain = Fields /\ plain.shake = "none" /\ \A f \in Fields \ {"ssl", "ssl_ctx", "shake"} : plain[f] = n[f]
    BY DEF Fds, Fields
<1>2. q = IF n.sock = NULL THEN plain ELSE [c EXCEPT !.sock = NULL]
    BY DEF _mosquitto_socket_close
<1> HIDE DEF plain
<1>3. plain.open = n.open /\ plain.twice = n.twice /\ plain.sock = n.sock
    BY <1>1 DEF Fields
<1>4. Fds(plain)
    BY <1>1, <1>3 DEF Fds
<1>5. CASE n.sock = NULL
    <2>1. q = plain
        BY <1>2, <1>5
    <2>2. n.open \ {n.sock} = n.open
        BY <1>5, WorldsAssumption DEF Fds
    <2>3. SameBut(n, q, {"open", "twice", "sock", "ssl", "ssl_ctx", "shake"})
        BY <1>1, <2>1 DEF SameBut
    <2> HIDE DEF q
    <2> QED BY <1>1, <1>3, <1>4, <1>5, <2>1, <2>2, <2>3 DEF q
<1>6. CASE n.sock # NULL
    <2>1. /\ Fds(c) /\ SameBut(plain, c, {"open", "twice"}) /\ c.open = plain.open \ {n.sock}
          /\ n.sock \in plain.open /\ ~plain.twice => ~c.twice
        BY <1>4, Closes
    <2> HIDE DEF c, q
    <2>2. q = [c EXCEPT !.sock = NULL]
        BY <1>2, <1>6
    <2>3. DOMAIN q = Fields /\ q.sock = NULL /\ \A f \in Fields \ {"sock"} : q[f] = c[f]
        BY <2>1, <2>2 DEF Fds, Fields
    <2>4. q.open = c.open /\ q.twice = c.twice /\ q.shake = c.shake
        BY <2>3 DEF Fields
    <2>5. q.shake = "none"
        BY <1>1, <2>1, <2>4 DEF SameBut, Fields
    <2>6. SameBut(n, q, {"open", "twice", "sock", "ssl", "ssl_ctx", "shake"})
        BY <1>1, <2>1, <2>3 DEF SameBut
    <2>7. Fds(q)
        BY <2>1, <2>3, <2>4 DEF Fds
    <2> QED BY <1>3, <1>6, <2>1, <2>3, <2>4, <2>5, <2>6, <2>7 DEF q
<1> QED BY <1>5, <1>6

-----------------------------------------------------------------------------
(* The listener.                                                           *)

\* One address, as a step of open_sockets.
open_address(before, s, outcome) ==
    LET fd == free_fd(s.n)
        opened == socket(s.n)
    IN CASE s.rc = 1 \/ outcome = "no socket" -> s
         [] s.rc = 0 /\ outcome \in {"bind", "refused"} -> [rc |-> 1, n |-> COMPAT_CLOSE(opened, fd)]
         [] s.rc = 0 /\ outcome = "fcntl" -> [rc |-> 1, n |-> _mosquitto_socket_nonblock(opened, fd)]
         [] s.rc = 0 /\ outcome = "ok" -> [rc |-> 0, n |-> [opened EXCEPT !.socks = Append(@, fd)]]

\* The sockets of the listener after k addresses, if none has failed.
Listening(before, k, s) ==
    /\ s.rc \in {0, 1}
    /\ s.rc = 0 =>
         /\ Fds(s.n) /\ SameBut(before, s.n, {"open", "socks"})
         /\ s.n.socks \in Seq(Nat) /\ ToSet(s.n.socks) = s.n.open

\* The walk over the listener's addresses.
ListenWalk == INSTANCE SequenceFolds WITH op <- open_address, Inv <- Listening

\* The induction that the theorem of ListenWalk assumes.
LEMMA ListenWalkInducts == ListenWalk!Induction
    BY NatInduct DEF ListenWalk!Induction

\* One address more.
LEMMA ListenStep ==
    ASSUME NEW before, NEW k, NEW j, NEW s, NEW outcome \in Outcomes, Listening(before, j, s)
    PROVE  Listening(before, k, open_address(before, s, outcome))
<1> DEFINE fd == free_fd(s.n)
           opened == socket(s.n)
           r == open_address(before, s, outcome)
           more == [opened EXCEPT !.socks = Append(@, fd)]
<1>0. s.rc = 0 \/ s.rc = 1
    BY DEF Listening
<1>1. CASE s.rc = 1 \/ outcome = "no socket"
    <2>1. r = s
        <3>1. CASE s.rc = 1
            BY <3>1 DEF open_address
        <3>2. CASE s.rc = 0 /\ outcome = "no socket"
            BY <3>2 DEF open_address
        <3> QED BY <1>0, <1>1, <3>1, <3>2
    <2> HIDE DEF r
    <2>2. Listening(before, k, r)
        BY <2>1 DEF Listening
    <2> QED BY <2>2 DEF r
<1>2. CASE s.rc = 0 /\ outcome \in {"bind", "refused", "fcntl"}
    <2>1. r.rc = 1
        BY <1>2 DEF open_address
    <2> QED BY <2>1 DEF Listening
<1>3. CASE s.rc = 0 /\ outcome = "ok"
    <2>1. r = [rc |-> 0, n |-> more]
        BY <1>3 DEF open_address
    <2>2. /\ Fds(s.n) /\ SameBut(before, s.n, {"open", "socks"})
          /\ s.n.socks \in Seq(Nat) /\ ToSet(s.n.socks) = s.n.open
        BY <1>3 DEF Listening
    <2>3. /\ fd \in Nat \ s.n.open /\ Fds(opened) /\ SameBut(s.n, opened, {"open"})
          /\ opened.open = s.n.open \cup {fd}
        BY <2>2, Opens
    <2> HIDE DEF fd, opened
    <2>4. opened.socks = s.n.socks
        BY <2>3 DEF SameBut, Fields
    <2>5. DOMAIN more = Fields /\ more.socks = Append(s.n.socks, fd) /\ \A f \in Fields \ {"socks"} : more[f] = opened[f]
        BY <2>3, <2>4 DEF Fds, Fields
    <2> HIDE DEF more
    <2>6. more.open = opened.open
        BY <2>5 DEF Fields
    <2>7. Append(s.n.socks, fd) \in Seq(Nat) /\ ToSet(Append(s.n.socks, fd)) = ToSet(s.n.socks) \cup {fd}
        <3>1. Append(s.n.socks, fd) \in Seq(Nat)
            BY <2>2, <2>3
        <3>2. ASSUME NEW q \in Seq(Nat), NEW e \in Nat PROVE ToSet(Append(q, e)) = ToSet(q) \cup {e}
            <4>1. DOMAIN Append(q, e) = 1..(Len(q) + 1) /\ DOMAIN q = 1..Len(q) /\ Len(q) \in Nat
                OBVIOUS
            <4>2. \A i \in 1..Len(q) : Append(q, e)[i] = q[i]
                OBVIOUS
            <4>3. Append(q, e)[Len(q) + 1] = e
                OBVIOUS
            <4>4. 1..(Len(q) + 1) = (1..Len(q)) \cup {Len(q) + 1}
                BY <4>1
            <4> QED BY <4>1, <4>2, <4>3, <4>4 DEF ToSet
        <3> QED BY <2>2, <2>3, <3>1, <3>2
    <2>8. SameBut(before, more, {"open", "socks"}) /\ Fds(more)
        BY <2>2, <2>3, <2>5, <2>6 DEF SameBut, Fds
    <2>9. r.rc = 0 /\ r.n = more
        BY <2>1
    <2> HIDE DEF r
    <2> QED BY <2>2, <2>3, <2>5, <2>6, <2>7, <2>8, <2>9 DEF Listening, r
<1> QED BY <1>1, <1>2, <1>3 DEF Listening, Outcomes

\* If every address gets its socket, those are the sockets that are open.
LEMMA Listens ==
    ASSUME NEW n, NEW addresses \in Seq(Outcomes), Fds(n), n.open = {}
    PROVE  LET s == open_sockets(n, addresses)
           IN /\ s.rc \in {0, 1}
              /\ s.rc = 0 => /\ Fds(s.n) /\ SameBut(n, s.n, {"open", "socks"})
                             /\ s.n.socks \in Seq(Nat) /\ ToSet(s.n.socks) = s.n.open
<1> DEFINE first_n == [n EXCEPT !.socks = <<>>]
           base == [rc |-> 0, n |-> first_n]
<1>1. DOMAIN first_n = Fields /\ first_n.socks = <<>> /\ \A f \in Fields \ {"socks"} : first_n[f] = n[f]
    BY DEF Fds, Fields
<1>2. Listening(n, 0, base)
    <2> HIDE DEF first_n
    <2>1. first_n.open = {}
        BY <1>1 DEF Fields
    <2>2. Fds(first_n) /\ SameBut(n, first_n, {"open", "socks"})
        BY <1>1, <2>1 DEF Fds, SameBut
    <2>3. <<>> \in Seq(Nat) /\ ToSet(<<>>) = {}
        BY DEF ToSet
    <2> QED BY <1>1, <2>1, <2>2, <2>3 DEF Listening
<1>3. \A k \in 1..Len(addresses) : \A s : Listening(n, k - 1, s) => Listening(n, k, open_address(n, s, addresses[k]))
    <2> TAKE k \in 1..Len(addresses)
    <2> TAKE s
    <2> HAVE Listening(n, k - 1, s)
    <2>1. addresses[k] \in Outcomes
        OBVIOUS
    <2> QED BY <2>1, ListenStep
<1>4. DOMAIN addresses = 1..Len(addresses) /\ Len(addresses) \in Nat
    OBVIOUS
<1>5. Listening(n, Len(addresses), ListenWalk!Walk(n, base, addresses))
    <2> HIDE DEF base
    <2> QED BY <1>2, <1>3, <1>4, ListenWalk!WalkInvariant, ListenWalkInducts
<1>6. ListenWalk!Walk(n, base, addresses) = open_sockets(n, addresses)
    BY DEF open_sockets, open_address, ListenWalk!Walk, ListenWalk!Greatest,
           FoldLeft, MapThenFoldSet, Max
<1> QED BY <1>5, <1>6 DEF Listening

-----------------------------------------------------------------------------
(* The peer.                                                               *)

\* Two texts with the same number as bytes differ in the zeros in front only.
LEMMA SameNumber ==
    ASSUME NEW a \in Seq(STRING), NEW b \in Seq(STRING),
           _mosquitto_hex2bin(a) = _mosquitto_hex2bin(b), _mosquitto_hex2bin(a) # <<>>
    PROVE  \E k \in 0..Len(a) + Len(b) : LET zeros == [m \in 1..k |-> "0"] IN a = zeros \o b \/ b = zeros \o a
<1> DEFINE Zeros(k) == [m \in 1..k |-> "0"]
<1>1. ASSUME NEW c \in Seq(STRING), _mosquitto_hex2bin(c) # <<>>
      PROVE  \E i \in 1..Len(c) : /\ _mosquitto_hex2bin(c) = SubSeq(c, i, Len(c))
                                   /\ \A j \in 1..(i - 1) : c[j] = "0"
    <2> DEFINE digs == {k \in DOMAIN c : c[k] # "0"}
    <2>1. digs # {}
        BY <1>1 DEF _mosquitto_hex2bin
    <2>2. digs \subseteq 1..Len(c) /\ Len(c) \in Nat
        OBVIOUS
    <2>3. PICK i \in digs : \A j \in digs : i <= j
        <3>1. digs \subseteq Nat
            BY <2>2
        <3> HIDE DEF digs
        <3> QED BY <2>1, <3>1, LeastNat
    <2> DEFINE i0 == CHOOSE k \in digs : \A j \in digs : k <= j
    <2>4. i0 \in digs /\ \A j \in digs : i0 <= j
        BY <2>3, Zenon
    <2>5. _mosquitto_hex2bin(c) = SubSeq(c, i0, Len(c))
        BY <2>1 DEF _mosquitto_hex2bin
    <2>6. \A j \in 1..(i0 - 1) : c[j] = "0"
        <3> HIDE DEF i0
        <3> QED BY <2>2, <2>4
    <2> HIDE DEF i0
    <2> QED BY <2>2, <2>4, <2>5, <2>6
<1>2. PICK i \in 1..Len(a) : _mosquitto_hex2bin(a) = SubSeq(a, i, Len(a)) /\ \A j \in 1..(i - 1) : a[j] = "0"
    BY <1>1
<1>3. PICK j \in 1..Len(b) : _mosquitto_hex2bin(b) = SubSeq(b, j, Len(b)) /\ \A m \in 1..(j - 1) : b[m] = "0"
    BY <1>1
<1>4. SubSeq(a, i, Len(a)) = SubSeq(b, j, Len(b))
    BY <1>2, <1>3
<1>5. ASSUME NEW c \in Seq(STRING), NEW d \in Seq(STRING), NEW p \in 1..Len(c), NEW q \in 1..Len(d), p >= q,
             SubSeq(c, p, Len(c)) = SubSeq(d, q, Len(d)),
             \A m \in 1..(p - 1) : c[m] = "0", \A m \in 1..(q - 1) : d[m] = "0"
      PROVE  c = Zeros(p - q) \o d
    BY <1>5, SameTail
<1>6. CASE i >= j
    <2>1. a = Zeros(i - j) \o b
        BY <1>2, <1>3, <1>4, <1>5, <1>6
    <2>2. i - j \in 0..Len(a) + Len(b)
        BY <1>6
    <2> QED BY <2>1, <2>2
<1>7. CASE j >= i
    <2>1. b = Zeros(j - i) \o a
        BY <1>2, <1>3, <1>4, <1>5, <1>7
    <2>2. j - i \in 0..Len(a) + Len(b)
        BY <1>7
    <2> QED BY <2>1, <2>2
<1>8. i >= j \/ j >= i
    OBVIOUS
<1> QED BY <1>6, <1>7, <1>8

\* What TrustedPeer says of a finished handshake, with a certificate.
Bears(client, cert) ==
    \/ [type |-> "dns", name |-> lower[client.host]] \in
         {[v EXCEPT !.name = lower[@]] : v \in {w \in ToSet(cert.san) : w.type = "dns"}}
    \/ inet_pton[client.host] # NULL /\ inet_pton[client.host] \in {v.name : v \in {w \in ToSet(cert.san) : w.type = "ip"}}
    \/ lower[client.host] = lower[cert.cn] /\ \A v \in ToSet(cert.san) : v.type = "ip"

\* The search through the names finds what the certificate bears.
LEMMA HostnameVerified ==
    ASSUME NEW client, NEW cert, _mosquitto_verify_certificate_hostname(cert, client.host),
           \A san \in Range(cert.san) : san.type \in {"dns", "ip"} /\ DOMAIN san = {"type", "name"}
    PROVE  Bears(client, cert)
<1> DEFINE san == cert.san
           host == client.host
<1>1. \A n \in DOMAIN san : san[n] \in Range(san) /\ san[n] \in ToSet(san)
    BY DEF Range, ToSet
<1>2. CASE \E n \in DOMAIN san : san[n].type = "dns" /\ strcasecmp(san[n].name, host)
    <2>1. PICK n \in DOMAIN san : san[n].type = "dns" /\ lower[san[n].name] = lower[host]
        BY <1>2 DEF strcasecmp
    <2>2. san[n] \in {w \in ToSet(san) : w.type = "dns"}
        BY <1>1, <2>1
    <2>3. [san[n] EXCEPT !.name = lower[@]] = [type |-> "dns", name |-> lower[host]]
        <3>1. DOMAIN san[n] = {"type", "name"}
            BY <1>1
        <3> QED BY <2>1, <3>1
    <2> QED BY <2>2, <2>3 DEF Bears
<1>3. CASE \E n \in DOMAIN san : san[n].type = "ip" /\ inet_pton[host] # NULL /\ san[n].name = inet_pton[host]
    <2>1. PICK n \in DOMAIN san : san[n].type = "ip" /\ inet_pton[host] # NULL /\ san[n].name = inet_pton[host]
        BY <1>3
    <2>2. san[n] \in {w \in ToSet(san) : w.type = "ip"}
        BY <1>1, <2>1
    <2> QED BY <2>1, <2>2 DEF Bears
<1>4. CASE ~(\E n \in DOMAIN san : san[n].type = "dns") /\ lower[cert.cn] = lower[host]
    <2>1. \A v \in ToSet(san) : v.type = "ip"
        <3>1. \A v \in ToSet(san) : v \in Range(san) /\ v.type # "dns"
            BY <1>4 DEF ToSet, Range
        <3> QED BY <3>1
    <2> QED BY <1>4, <2>1 DEF Bears
<1>5. \/ \E n \in DOMAIN san : san[n].type = "dns" /\ strcasecmp(san[n].name, host)
      \/ \E n \in DOMAIN san : san[n].type = "ip" /\ inet_pton[host] # NULL /\ san[n].name = inet_pton[host]
      \/ ~(\E n \in DOMAIN san : san[n].type = "dns") /\ lower[cert.cn] = lower[host]
    <2>1. \A n \in DOMAIN san : san[n].type \in {"dns", "ip"}
        BY <1>1
    <2>2. CASE \E n \in DOMAIN san : IF san[n].type = "dns" THEN strcasecmp(san[n].name, host)
                                     ELSE inet_pton[host] # NULL /\ san[n].name = inet_pton[host]
        BY <2>1, <2>2
    <2>3. CASE ~(\E n \in DOMAIN san : san[n].type = "dns") /\ cert.cn # NULL /\ strcasecmp(cert.cn, host)
        BY <2>3 DEF strcasecmp
    <2> QED BY <2>2, <2>3 DEF _mosquitto_verify_certificate_hostname
<1> QED BY <1>2, <1>3, <1>4, <1>5

\* A handshake that ends well has shown who the peer is.
LEMMA Trusts ==
    ASSUME NEW world \in Worlds, world.client # NULL, accepted(world.client, world.peer)
    PROVE  LET client == world.client
               peer == world.peer
           IN /\ client.tls = "cert" /\ client.verify /\ ~client.tls_insecure =>
                   Bears(client, peer.chain[1]) /\ \A n \in DOMAIN peer.chain : peer.chain[n].preverify_ok
              /\ client.tls = "psk" =>
                   \E n \in DOMAIN peer.psk_id :
                     /\ peer.psk_id[n].identity = client.identity
                     /\ \E k \in 0..Len(peer.psk_id[n].psk) + Len(client.psk) :
                          LET zeros == [m \in 1..k |-> "0"]
                          IN peer.psk_id[n].psk = zeros \o client.psk \/ client.psk = zeros \o peer.psk_id[n].psk
<1> DEFINE client == world.client
           peer == world.peer
           chain == peer.chain
<1>1. /\ client.psk \in Seq(STRING)
      /\ \A n \in DOMAIN peer.psk_id : n \in Nat /\ peer.psk_id[n].psk \in Seq(STRING)
      /\ Len(chain) \in Nat /\ DOMAIN chain = 1..Len(chain)
      /\ client.tls = "cert" => Len(chain) > 0
      /\ \A n \in DOMAIN chain : \A san \in Range(chain[n].san) :
            san.type \in {"dns", "ip"} /\ DOMAIN san = {"type", "name"}
    BY WorldsAssumption
<1>2. CASE client.tls = "cert" /\ client.verify /\ ~client.tls_insecure
    <2>1. \A depth \in 0..(Len(chain) - 1) : _mosquitto_server_certificate_verify(client, chain, depth)
        BY <1>2 DEF accepted
    <2>2. \A n \in DOMAIN chain : n - 1 \in 0..(Len(chain) - 1) /\ (n - 1) + 1 = n
        BY <1>1
    <2>3. \A n \in DOMAIN chain : chain[n].preverify_ok
        BY <2>1, <2>2 DEF _mosquitto_server_certificate_verify
    <2>4. 0 \in 0..(Len(chain) - 1) /\ 0 + 1 = 1 /\ 1 \in DOMAIN chain
        BY <1>1, <1>2
    <2>5. _mosquitto_verify_certificate_hostname(chain[1], client.host)
        BY <1>2, <2>1, <2>4 DEF _mosquitto_server_certificate_verify
    <2>6. Bears(client, chain[1])
        BY <1>1, <2>4, <2>5, HostnameVerified, SMTT(30)
    <2> QED BY <1>2, <2>3, <2>6
<1>3. CASE client.tls = "psk"
    <2> DEFINE lines == {k \in DOMAIN peer.psk_id : peer.psk_id[k].identity = client.identity}
               n == Min(lines)
    <2>1. /\ _mosquitto_hex2bin(client.psk) # <<>>
          /\ _mosquitto_hex2bin(client.psk) = _mosquitto_hex2bin(mosquitto_psk_key_get(peer.psk_id, client.identity))
        BY <1>3 DEF accepted, psk_client_callback, psk_server_callback
    <2>2. lines # {}
        <3>1. CASE lines = {}
            <4>1. mosquitto_psk_key_get(peer.psk_id, client.identity) = <<>>
                BY <3>1 DEF mosquitto_psk_key_get
            <4>2. _mosquitto_hex2bin(<<>>) = <<>>
                BY DEF _mosquitto_hex2bin
            <4> QED BY <2>1, <4>1, <4>2
        <3> QED BY <3>1
    <2>3. mosquitto_psk_key_get(peer.psk_id, client.identity) = peer.psk_id[n].psk
        BY <2>2 DEF mosquitto_psk_key_get
    <2>4. n \in lines
        <3>1. lines \subseteq Nat
            BY <1>1
        <3> HIDE DEF lines
        <3>2. \E x \in lines : \A y \in lines : x <= y
            BY <2>2, <3>1, LeastNat
        <3> QED BY <3>2, Zenon DEF Min
    <2> HIDE DEF n
    <2>5. peer.psk_id[n].psk \in Seq(STRING) /\ peer.psk_id[n].identity = client.identity /\ n \in DOMAIN peer.psk_id
        BY <1>1, <2>4
    <2>6. \E k \in 0..Len(peer.psk_id[n].psk) + Len(client.psk) :
             LET zeros == [m \in 1..k |-> "0"]
             IN peer.psk_id[n].psk = zeros \o client.psk \/ client.psk = zeros \o peer.psk_id[n].psk
        BY <1>1, <2>1, <2>3, <2>5, SameNumber
    <2> QED BY <1>3, <2>5, <2>6
<1>4. "cert" # "psk"
    OBVIOUS
<1> QED BY <1>2, <1>3, <1>4

-----------------------------------------------------------------------------
(* The invariant.                                                          *)

\* The descriptors that a client knows of.
mine(n) ==
    (IF n.sock = NULL THEN {} ELSE {n.sock})
    \cup (IF n.sockpair = NULL THEN {} ELSE {n.sockpair[1], n.sockpair[2]})

\* What kind of values the state holds.
NetTyped(n) ==
    /\ Fds(n)
    /\ n.pc \in {"off", "new", "gone", "listen", "listening"}
    /\ n.shake \in {"none", "pending", "done"}
    /\ n.sock # NULL => n.sock \in Nat
    /\ n.inits \in Nat
    /\ n.pc # "off" => n.world \in Worlds

\* A socket pair is two descriptors, neither of which is the connection's.
Pair(n) ==
    n.sockpair # NULL =>
      /\ n.sockpair = <<n.sockpair[1], n.sockpair[2]>>
      /\ n.sockpair[1] \in Nat /\ n.sockpair[2] \in Nat /\ n.sockpair[1] # n.sockpair[2]
      /\ n.sock \notin {n.sockpair[1], n.sockpair[2]}

\* Nothing has been opened yet.
Untouched(n) == n.open = {} /\ n.sock = NULL /\ n.sockpair = NULL /\ n.inits = 0 /\ ~n.twice /\ ~n.broken

\* Every descriptor the client knows of is open, and until a second call of
\* mosquitto_connect no other.
Owned(n) ==
    /\ n.inits = 0 => n.sockpair = NULL /\ n.sock = NULL
    /\ Pair(n)
    /\ mine(n) \subseteq n.open
    /\ n.inits <= 1 => n.open = mine(n)

\* The descriptors: none at first and then, as long as fcntl works, the client's.
Descriptors(n) ==
    /\ n.pc \in {"off", "listen"} => Untouched(n)
    /\ ~n.broken =>
         /\ ~n.twice
         /\ n.pc \in {"new", "gone"} /\ n.world.client # NULL => Owned(n)

\* A handshake belongs to the open connection, and ends with an accepted peer.
Handshake(n) ==
    /\ n.pc \in {"off", "listen", "listening"} => n.shake = "none" /\ n.sock = NULL
    /\ n.pc = "new" => n.world.client # NULL
    /\ n.pc \in {"listen", "listening"} => n.world.client = NULL
    /\ n.shake # "none" => n.pc = "new" /\ n.sock # NULL /\ n.ssl = n.sock /\ n.world.client.tls # "none"
    /\ n.shake = "done" => accepted(n.world.client, n.world.peer)

\* A listener has got all its sockets and settings.
Listener(n) ==
    n.pc = "listening" =>
      LET tls == listen_tls(n.world.listener)
      IN n.socks # <<>> /\ ToSet(n.socks) = n.open /\ tls.rc = 0 /\ n.secure = tls.secure

\* The inductive invariant of the sockets.
NetInv == NetTyped(net) /\ Descriptors(net) /\ Handshake(net) /\ Listener(net)

\* A step that leaves descriptors, handshake and listener alone.
LEMMA NetSame ==
    ASSUME NEW n, NEW q, NetTyped(n), Descriptors(n), Handshake(n), Listener(n),
           SameBut(n, q, {"tries", "username"}), q.open = n.open
    PROVE  NetTyped(q) /\ Descriptors(q) /\ Handshake(q) /\ Listener(q)
<1>1. /\ DOMAIN q = Fields /\ q.world = n.world /\ q.open = n.open /\ q.twice = n.twice /\ q.broken = n.broken
      /\ q.sock = n.sock /\ q.sockpair = n.sockpair /\ q.ssl = n.ssl /\ q.shake = n.shake /\ q.inits = n.inits
      /\ q.socks = n.socks /\ q.secure = n.secure /\ q.pc = n.pc
    BY DEF SameBut, Fields
<1>2. NetTyped(q)
    BY <1>1 DEF NetTyped, Fds
<1>3. Descriptors(q)
    BY <1>1 DEF Descriptors, Untouched, Owned, Pair, mine
<1>4. Handshake(q) /\ Listener(q)
    BY <1>1 DEF Handshake, Listener
<1> QED BY <1>2, <1>3, <1>4

\* A state n that mosquitto_connect or mosquitto_reconnect has prepared: no
\* connection, and the client's descriptors are the pair's.
Ready(n) ==
    /\ NetTyped(n) /\ n.pc = "new" /\ n.world.client # NULL /\ n.sock = NULL /\ n.shake = "none" /\ n.inits # 0
    /\ ~n.broken => ~n.twice /\ Owned(n)

\* Connecting keeps the invariant.
LEMMA ConnectKeeps ==
    ASSUME NEW n, Ready(n), NEW q \in _mosquitto_socket_connect(n)
    PROVE  NetTyped(q) /\ Descriptors(q) /\ Handshake(q) /\ Listener(q)
<1>0. NULL \notin Nat /\ n.world.addresses \in Seq(Outcomes)
    BY WorldsAssumption DEF Ready, NetTyped, Outcomes
<1>1. Connected(n, q)
    BY <1>0, Connects DEF Ready, NetTyped
<1>2. /\ Fds(q)
      /\ q.sock = NULL => q.open = n.open /\ q.shake = "none"
      /\ q.sock # NULL => q.sock \in Nat \ n.open /\ q.open = n.open \cup {q.sock}
      /\ ~q.broken => ~n.broken /\ (~n.twice => ~q.twice)
      /\ q.shake \in {"none", "pending", "done"}
      /\ q.shake # "none" => q.sock # NULL /\ q.ssl = q.sock /\ n.world.client.tls # "none"
      /\ q.shake = "done" => accepted(n.world.client, n.world.peer)
    BY <1>1 DEF Connected
<1>3. q.world = n.world /\ q.sockpair = n.sockpair /\ q.inits = n.inits /\ q.pc = n.pc
    BY <1>1 DEF Connected, SameBut, Fields
<1>4. NetTyped(q)
    BY <1>2, <1>3 DEF NetTyped, Ready
<1>5. Handshake(q) /\ Listener(q)
    BY <1>2, <1>3 DEF Handshake, Listener, Ready
<1>6. ASSUME ~q.broken PROVE Owned(q)
    <2>1. Owned(n) /\ n.sock = NULL /\ n.inits # 0
        BY <1>2, <1>6 DEF Ready
    <2>2. CASE q.sock = NULL
        <3>1. q.open = n.open
            BY <1>2, <2>2
        <3> QED BY <1>3, <2>1, <2>2, <3>1 DEF Owned, Pair, mine
    <2>3. CASE q.sock # NULL
        <3>1. q.sock \in Nat \ n.open /\ q.open = n.open \cup {q.sock}
            BY <1>2, <2>3
        <3>2. mine(q) = mine(n) \cup {q.sock}
            BY <1>3, <2>1, <2>3 DEF mine
        <3>3. Pair(q)
            BY <1>3, <2>1, <2>3, <3>1 DEF Pair, Owned, mine
        <3> QED BY <1>3, <2>1, <3>1, <3>2, <3>3 DEF Owned
    <2> QED BY <2>2, <2>3
<1>7. Descriptors(q)
    BY <1>2, <1>3, <1>6 DEF Descriptors, Ready
<1> QED BY <1>4, <1>5, <1>7

\* mosquitto_connect.
LEMMA NetConnectKeeps == NetInv /\ NetConnect => NetInv'
<1> SUFFICES ASSUME NetInv, NetConnect PROVE NetInv'
    OBVIOUS
<1> DEFINE n == [net EXCEPT !.inits = @ + 1, !.tries = @ + 1]
<1>1. PICK outcome \in {"ok", "none", "fcntl"} : net' \in _mosquitto_socket_connect(_mosquitto_socketpair(n, outcome))
    BY DEF NetConnect
<1> DEFINE p == _mosquitto_socketpair(n, outcome)
<1>2. DOMAIN n = Fields /\ n.inits = net.inits + 1 /\ \A f \in Fields \ {"inits", "tries"} : n[f] = net[f]
    BY DEF NetInv, NetTyped, Fds, Fields
<1> HIDE DEF n
<1>3. /\ n.world = net.world /\ n.open = net.open /\ n.twice = net.twice /\ n.broken = net.broken
      /\ n.sock = net.sock /\ n.sockpair = net.sockpair /\ n.shake = net.shake /\ n.pc = net.pc
    BY <1>2 DEF Fields
<1>4. Fds(n)
    BY <1>2, <1>3 DEF NetInv, NetTyped, Fds
<1>5. /\ Fds(p) /\ SameBut(n, p, {"open", "twice", "broken", "sockpair"})
      /\ \/ p = n
         \/ p.broken
         \/ \E r, w \in Nat \ n.open :
              /\ r # w /\ p.sockpair = <<r, w>> /\ p.open = n.open \cup {r, w}
              /\ p.twice = n.twice /\ p.broken = n.broken
    BY <1>4, Paired
<1>6. net.pc = "new" /\ net.sock = NULL /\ NULL \notin Nat
    BY WorldsAssumption DEF NetConnect
<1>7. net.shake = "none" /\ net.world.client # NULL /\ net.inits \in Nat /\ net.world \in Worlds
    BY <1>6 DEF NetInv, Handshake, NetTyped
<1>8. ~net.broken => ~net.twice /\ Owned(net)
    BY <1>6, <1>7 DEF NetInv, Descriptors
<1> HIDE DEF p
<1>9. p.world = net.world /\ p.sock = NULL /\ p.shake = "none" /\ p.inits = net.inits + 1 /\ p.pc = "new"
    BY <1>2, <1>3, <1>5, <1>6, <1>7 DEF SameBut, Fields
<1>10. NetTyped(p)
    BY <1>5, <1>7, <1>9 DEF NetTyped
<1>11. ASSUME ~p.broken PROVE ~p.twice /\ Owned(p)
    <2>1. CASE p = n
        <3>1. ~net.broken /\ p.open = net.open /\ p.twice = net.twice /\ p.sockpair = net.sockpair /\ p.sock = net.sock
            BY <1>3, <1>11, <2>1
        <3>2. mine(p) = mine(net)
            BY <3>1 DEF mine
        <3>3. Pair(p)
            BY <1>8, <3>1 DEF Owned, Pair
        <3>4. mine(p) \subseteq p.open /\ (net.inits <= 1 => p.open = mine(p))
            BY <1>8, <3>1, <3>2 DEF Owned
        <3>5. p.inits # 0 /\ (p.inits <= 1 => net.inits <= 1)
            BY <1>7, <1>9
        <3> QED BY <1>8, <3>1, <3>3, <3>4, <3>5 DEF Owned
    <2>2. CASE \E r, w \in Nat \ n.open :
              /\ r # w /\ p.sockpair = <<r, w>> /\ p.open = n.open \cup {r, w}
              /\ p.twice = n.twice /\ p.broken = n.broken
        <3>1. PICK r \in Nat \ n.open, w \in Nat \ n.open :
              /\ r # w /\ p.sockpair = <<r, w>> /\ p.open = n.open \cup {r, w}
              /\ p.twice = n.twice /\ p.broken = n.broken
            BY <2>2
        <3>2. ~net.broken /\ ~p.twice /\ Owned(net)
            BY <1>3, <1>8, <1>11, <3>1
        <3>3. p.sockpair # NULL => mine(p) = {r, w}
            BY <1>9, <3>1 DEF mine
        <3>4. p.sockpair # NULL
            <4>1. <<r, w>> \in Nat \X Nat
                OBVIOUS
            <4>2. NULL \notin Nat \X Nat
                BY WorldsAssumption
            <4> QED BY <3>1, <4>1, <4>2
        <3>5. Pair(p)
            BY <1>6, <1>9, <3>1 DEF Pair
        <3>6. p.inits <= 1 => p.open = {r, w}
            <4>1. p.inits <= 1 => net.inits = 0
                BY <1>7, <1>9
            <4>2. net.inits = 0 => net.open = {}
                BY <3>2 DEF Owned, mine
            <4> QED BY <1>3, <3>1, <4>1, <4>2
        <3>7. p.inits # 0
            BY <1>7, <1>9
        <3> QED BY <3>1, <3>2, <3>3, <3>4, <3>5, <3>6, <3>7 DEF Owned
    <2> QED BY <1>5, <1>11, <2>1, <2>2
<1>12. Ready(p)
    <2>1. p.inits # 0
        BY <1>7, <1>9
    <2> QED BY <1>7, <1>9, <1>10, <1>11, <2>1 DEF Ready
<1>13. net' \in _mosquitto_socket_connect(p)
    BY <1>1 DEF p
<1> QED BY <1>12, <1>13, ConnectKeeps DEF NetInv

\* mosquitto_reconnect.
LEMMA NetReconnectKeeps == NetInv /\ NetReconnect => NetInv'
<1> SUFFICES ASSUME NetInv, NetReconnect PROVE NetInv'
    OBVIOUS
<1> DEFINE n == [net EXCEPT !.tries = @ + 1]
<1>1. net' \in _mosquitto_socket_connect(n)
    BY DEF NetReconnect
<1>2. DOMAIN n = Fields /\ \A f \in Fields \ {"tries"} : n[f] = net[f]
    BY DEF NetInv, NetTyped, Fds, Fields
<1> HIDE DEF n
<1>3. net.pc = "new" /\ net.sock = NULL /\ net.inits > 0
    BY DEF NetReconnect
<1>4. net.shake = "none" /\ net.world.client # NULL /\ net.inits \in Nat /\ net.inits # 0
    BY <1>3 DEF NetInv, Handshake, NetTyped
<1>5. NetTyped(n) /\ Descriptors(n) /\ Handshake(n) /\ Listener(n)
    <2>1. SameBut(net, n, {"tries", "username"}) /\ n.open = net.open
        BY <1>2 DEF SameBut, Fields
    <2> QED BY <2>1, NetSame DEF NetInv
<1>6. n.pc = "new" /\ n.sock = NULL /\ n.shake = "none" /\ n.world = net.world /\ n.inits = net.inits
    BY <1>2, <1>3, <1>4 DEF Fields
<1>7. ~n.broken => ~n.twice /\ Owned(n)
    BY <1>4, <1>5, <1>6 DEF Descriptors
<1>8. Ready(n)
    BY <1>4, <1>5, <1>6, <1>7 DEF Ready
<1> QED BY <1>1, <1>8, ConnectKeeps DEF NetInv

\* The connection is closed in a state where there is one.
LEMMA CloseKeeps ==
    ASSUME NetInv, net.pc = "new", net.sock # NULL,
           NEW q, q = _mosquitto_socket_close(net)
    PROVE  /\ NetTyped(q) /\ Descriptors(q) /\ Handshake(q) /\ Listener(q)
           /\ q.pc = "new" /\ q.sock = NULL /\ q.shake = "none" /\ q.world = net.world
<1>1. /\ Fds(q) /\ SameBut(net, q, {"open", "twice", "sock", "ssl", "ssl_ctx", "shake"})
      /\ q.sock = NULL /\ q.shake = "none" /\ q.open = net.open \ {net.sock}
      /\ (net.sock # NULL => net.sock \in net.open) /\ ~net.twice => ~q.twice
    <2>1. Fds(net)
        BY DEF NetInv, NetTyped
    <2> QED BY <2>1, Disconnects
<1>2. /\ q.world = net.world /\ q.broken = net.broken /\ q.sockpair = net.sockpair
      /\ q.inits = net.inits /\ q.pc = "new"
    BY <1>1 DEF SameBut, Fields
<1>3. net.world.client # NULL
    BY DEF NetInv, Handshake
<1>4. ASSUME ~q.broken PROVE ~q.twice /\ Owned(q)
    <2>1. ~net.twice /\ Owned(net)
        BY <1>2, <1>3, <1>4 DEF NetInv, Descriptors
    <2>2. net.sock \in net.open /\ mine(q) = mine(net) \ {net.sock} /\ Pair(q) /\ net.inits # 0
        <3>1. Pair(net) /\ (net.inits = 0 => net.sock = NULL)
            BY <2>1 DEF Owned
        <3>2. Pair(q)
            BY <1>1, <1>2, <3>1, WorldsAssumption DEF Pair
        <3>3. mine(q) = IF net.sockpair = NULL THEN {} ELSE {net.sockpair[1], net.sockpair[2]}
            BY <1>1, <1>2 DEF mine
        <3>4. mine(net) = {net.sock} \cup mine(q)
            BY <3>3 DEF mine
        <3>5. net.sock \notin mine(q)
            BY <3>1, <3>3 DEF Pair
        <3>6. mine(q) = mine(net) \ {net.sock}
            BY <3>4, <3>5
        <3>7. net.sock \in net.open /\ net.inits # 0
            BY <2>1, <3>1, <3>4 DEF Owned
        <3> QED BY <3>2, <3>6, <3>7
    <2> QED BY <1>1, <1>2, <2>1, <2>2 DEF Owned
<1>5. NetTyped(q)
    BY <1>1, <1>2 DEF NetInv, NetTyped
<1>6. Descriptors(q)
    BY <1>2, <1>4 DEF Descriptors
<1>7. Handshake(q) /\ Listener(q)
    BY <1>1, <1>2, <1>3 DEF Handshake, Listener
<1> QED BY <1>1, <1>2, <1>5, <1>6, <1>7

\* The handshake goes on, the connection ends.
LEMMA NetHandshakeKeeps == NetInv /\ (NetHandshake \/ NetLose) => NetInv'
<1> SUFFICES ASSUME NetInv, NetHandshake \/ NetLose PROVE NetInv'
    OBVIOUS
<1>1. net.pc = "new" /\ net.sock # NULL
    BY DEF NetHandshake, NetLose, NetInv, Handshake
<1>2. CASE net' = _mosquitto_socket_close(net)
    BY <1>1, <1>2, CloseKeeps DEF NetInv
<1>3. CASE NetHandshake /\ accepted(net.world.client, net.world.peer)
    <2>1. net.shake = "pending" /\ net' = [net EXCEPT !.shake = "done"]
        BY <1>3 DEF NetHandshake
    <2>2. /\ DOMAIN net' = Fields /\ net'.shake = "done" /\ net'.world = net.world /\ net'.open = net.open
          /\ net'.twice = net.twice /\ net'.broken = net.broken /\ net'.sock = net.sock /\ net'.sockpair = net.sockpair
          /\ net'.ssl = net.ssl /\ net'.inits = net.inits /\ net'.pc = net.pc
        BY <2>1 DEF NetInv, NetTyped, Fds, Fields
    <2>3. NetTyped(net)'
        BY <2>2 DEF NetInv, NetTyped, Fds
    <2>4. Descriptors(net)'
        BY <2>2 DEF NetInv, Descriptors, Untouched, Owned, Pair, mine
    <2>5. Handshake(net)' /\ Listener(net)'
        BY <1>1, <1>3, <2>1, <2>2 DEF NetInv, Handshake, Listener
    <2> QED BY <2>3, <2>4, <2>5 DEF NetInv
<1> QED BY <1>2, <1>3 DEF NetHandshake, NetLose

\* mosquitto_destroy.
LEMMA DestroyKeeps == NetInv /\ _mosquitto_destroy => NetInv'
<1> SUFFICES ASSUME NetInv, _mosquitto_destroy PROVE NetInv'
    OBVIOUS
<1> DEFINE closed == IF net.sock = NULL THEN net ELSE _mosquitto_socket_close(net)
           one == COMPAT_CLOSE(closed, closed.sockpair[1])
           both == COMPAT_CLOSE(one, closed.sockpair[2])
           unpaired == IF closed.sockpair = NULL THEN closed ELSE [both EXCEPT !.sockpair = NULL]
<1>1. net.pc = "new" /\ net' = [unpaired EXCEPT !.pc = "gone", !.ssl = NULL, !.ssl_ctx = FALSE]
    BY DEF _mosquitto_destroy
<1>2. /\ NetTyped(closed) /\ Descriptors(closed) /\ Handshake(closed)
      /\ closed.pc = "new" /\ closed.sock = NULL /\ closed.shake = "none" /\ closed.world = net.world
      /\ net.world.client # NULL
    BY <1>1, CloseKeeps DEF NetInv, Handshake
<1> HIDE DEF closed
<1>3. ~closed.broken => ~closed.twice /\ Owned(closed)
    BY <1>2 DEF Descriptors
<1>4. /\ Fds(unpaired) /\ SameBut(closed, unpaired, {"open", "twice", "sockpair"})
      /\ ~unpaired.broken => ~unpaired.twice /\ Owned(unpaired)
    <2>1. CASE closed.sockpair = NULL
        <3>1. unpaired = closed
            BY <2>1
        <3> HIDE DEF unpaired
        <3> QED BY <1>2, <1>3, <3>1 DEF NetTyped, Fds, SameBut
    <2>2. CASE closed.sockpair # NULL
        <3>1. /\ Fds(one) /\ SameBut(closed, one, {"open", "twice"}) /\ one.open = closed.open \ {closed.sockpair[1]}
              /\ closed.sockpair[1] \in closed.open /\ ~closed.twice => ~one.twice
            BY <1>2, Closes DEF NetTyped
        <3>2. /\ Fds(both) /\ SameBut(one, both, {"open", "twice"}) /\ both.open = one.open \ {closed.sockpair[2]}
              /\ closed.sockpair[2] \in one.open /\ ~one.twice => ~both.twice
            BY <3>1, Closes
        <3>3. unpaired = [both EXCEPT !.sockpair = NULL]
            BY <2>2
        <3> HIDE DEF one, both, unpaired
        <3>4. DOMAIN unpaired = Fields /\ unpaired.sockpair = NULL /\ \A f \in Fields \ {"sockpair"} : unpaired[f] = both[f]
            BY <3>2, <3>3 DEF Fds, Fields
        <3>5. /\ unpaired.open = (closed.open \ {closed.sockpair[1]}) \ {closed.sockpair[2]} /\ unpaired.twice = both.twice
              /\ unpaired.broken = closed.broken /\ unpaired.sock = NULL /\ unpaired.inits = closed.inits
            BY <1>2, <3>1, <3>2, <3>4 DEF SameBut, Fields
        <3>6. Fds(unpaired)
            BY <3>2, <3>4 DEF Fds, Fields
        <3>7. SameBut(closed, unpaired, {"open", "twice", "sockpair"})
            BY <3>1, <3>2, <3>4 DEF SameBut
        <3>8. ASSUME ~unpaired.broken PROVE ~unpaired.twice /\ Owned(unpaired)
            <4>1. /\ ~closed.twice /\ Owned(closed)
                  /\ closed.sockpair[1] # closed.sockpair[2] /\ mine(closed) = {closed.sockpair[1], closed.sockpair[2]}
                BY <1>2, <1>3, <2>2, <3>5, <3>8 DEF Owned, Pair, mine
            <4>2. ~unpaired.twice
                BY <3>1, <3>2, <3>5, <4>1 DEF Owned
            <4>3. mine(unpaired) = {} /\ Pair(unpaired)
                BY <3>4, <3>5 DEF mine, Pair
            <4> QED BY <3>4, <3>5, <4>1, <4>2, <4>3 DEF Owned
        <3> QED BY <3>6, <3>7, <3>8
    <2> QED BY <2>1, <2>2
<1> HIDE DEF unpaired
<1>5. /\ unpaired.world = net.world /\ unpaired.sock = NULL /\ unpaired.shake = "none" /\ unpaired.inits = closed.inits
    BY <1>2, <1>4 DEF SameBut, Fields
<1>6. /\ DOMAIN net' = Fields /\ net'.pc = "gone" /\ \A f \in Fields \ {"pc", "ssl", "ssl_ctx"} : net'[f] = unpaired[f]
    BY <1>1, <1>4 DEF Fds, Fields
<1>7. /\ net'.world = net.world /\ net'.open = unpaired.open /\ net'.twice = unpaired.twice /\ net'.broken = unpaired.broken
      /\ net'.sock = NULL /\ net'.sockpair = unpaired.sockpair /\ net'.shake = "none" /\ net'.inits = closed.inits
    BY <1>5, <1>6 DEF Fields
<1>8. NetTyped(net)'
    BY <1>2, <1>4, <1>6, <1>7 DEF NetTyped, Fds
<1>9. Descriptors(net)'
    BY <1>4, <1>5, <1>6, <1>7 DEF Descriptors, Owned, Pair, mine
<1>10. Handshake(net)' /\ Listener(net)'
    BY <1>6, <1>7 DEF Handshake, Listener
<1> QED BY <1>8, <1>9, <1>10 DEF NetInv

\* The program starts, as a client or as a broker.
LEMMA NetStartKeeps == NetInv /\ NetStart => NetInv'
<1> SUFFICES ASSUME NetInv, NetStart PROVE NetInv'
    OBVIOUS
<1>1. PICK world \in Worlds :
        net' = [net EXCEPT !.world = world, !.pc = IF world.client = NULL THEN "listen" ELSE "new"]
    BY DEF NetStart
<1>2. net.pc = "off"
    BY DEF NetStart
<1>3. /\ DOMAIN net' = Fields /\ net'.world = world
      /\ net'.pc = IF world.client = NULL THEN "listen" ELSE "new"
      /\ \A f \in Fields \ {"world", "pc"} : net'[f] = net[f]
    BY <1>1 DEF NetInv, NetTyped, Fds, Fields
<1>4. /\ net'.open = net.open /\ net'.twice = net.twice /\ net'.broken = net.broken /\ net'.sock = net.sock
      /\ net'.sockpair = net.sockpair /\ net'.shake = net.shake /\ net'.inits = net.inits
    BY <1>3 DEF Fields
<1>5. net.shake = "none" /\ net.sock = NULL
    BY <1>2 DEF NetInv, Handshake
<1>6. net'.pc \in {"listen", "new"} /\ (net'.pc = "new" <=> world.client # NULL)
    BY <1>3
<1>7. NetTyped(net)'
    BY <1>3, <1>4, <1>6 DEF NetInv, NetTyped, Fds
<1>8. Descriptors(net)'
    <2>1. Untouched(net)
        BY <1>2 DEF NetInv, Descriptors
    <2> QED BY <1>4, <1>6, <2>1 DEF Descriptors, Untouched, Owned, Pair, mine
<1>9. Handshake(net)' /\ Listener(net)'
    BY <1>3, <1>4, <1>5, <1>6 DEF Handshake, Listener
<1> QED BY <1>7, <1>8, <1>9 DEF NetInv

\* The broker's listener.
LEMMA ListenKeeps == NetInv /\ mqtt3_socket_listen => NetInv'
<1> SUFFICES ASSUME NetInv, mqtt3_socket_listen PROVE NetInv'
    OBVIOUS
<1> DEFINE sockets == open_sockets(net, net.world.addresses)
           tls == listen_tls(net.world.listener)
           listening == [sockets.n EXCEPT !.secure = tls.secure, !.pc = "listening"]
<1>1. /\ net.pc = "listen"
      /\ net' = IF sockets.rc = 1 \/ sockets.n.socks = <<>> \/ tls.rc = 1 THEN [net EXCEPT !.pc = "gone"] ELSE listening
    BY DEF mqtt3_socket_listen
<1>2. net.shake = "none" /\ net.sock = NULL /\ net.world.client = NULL /\ net.world \in Worlds
    BY <1>1 DEF NetInv, NetTyped, Handshake
<1>3. CASE net' = [net EXCEPT !.pc = "gone"]
    <2>1. /\ DOMAIN net' = Fields /\ net'.pc = "gone" /\ net'.world = net.world /\ net'.open = net.open
          /\ net'.twice = net.twice /\ net'.broken = net.broken /\ net'.sock = net.sock
          /\ net'.sockpair = net.sockpair /\ net'.shake = net.shake /\ net'.inits = net.inits
        BY <1>3 DEF NetInv, NetTyped, Fds, Fields
    <2>2. NetTyped(net)' /\ Handshake(net)' /\ Listener(net)'
        BY <1>2, <2>1 DEF NetInv, NetTyped, Fds, Handshake, Listener
    <2>3. Descriptors(net)'
        BY <1>1, <1>2, <2>1 DEF NetInv, Descriptors
    <2> QED BY <2>2, <2>3 DEF NetInv
<1>4. CASE net' = listening /\ sockets.rc # 1 /\ sockets.n.socks # <<>> /\ tls.rc # 1
    <2>1. net.world.addresses \in Seq(Outcomes)
        BY <1>2, WorldsAssumption DEF Outcomes
    <2>2. Untouched(net) /\ Fds(net)
        BY <1>1 DEF NetInv, Descriptors, NetTyped
    <2>3. /\ sockets.rc \in {0, 1}
          /\ sockets.rc = 0 => /\ Fds(sockets.n) /\ SameBut(net, sockets.n, {"open", "socks"})
                               /\ sockets.n.socks \in Seq(Nat) /\ ToSet(sockets.n.socks) = sockets.n.open
        BY <2>1, <2>2, Listens DEF Untouched
    <2>4. tls.rc = 0
        BY <1>4 DEF listen_tls
    <2>5. net' = listening
        BY <1>4
    <2>6. /\ Fds(sockets.n) /\ SameBut(net, sockets.n, {"open", "socks"})
          /\ sockets.n.socks # <<>> /\ ToSet(sockets.n.socks) = sockets.n.open
        BY <1>4, <2>3
    <2> HIDE DEF sockets, tls
    <2>7. /\ DOMAIN net' = Fields /\ net'.pc = "listening" /\ net'.secure = tls.secure
          /\ \A f \in Fields \ {"pc", "secure"} : net'[f] = sockets.n[f]
        BY <2>5, <2>6 DEF Fds, Fields
    <2>8. /\ net'.world = net.world /\ net'.open = sockets.n.open /\ net'.twice = net.twice
          /\ net'.broken = net.broken /\ net'.sock = net.sock /\ net'.shake = net.shake
          /\ net'.inits = net.inits /\ net'.socks = sockets.n.socks
        BY <2>6, <2>7 DEF SameBut, Fields
    <2>9. NetTyped(net)'
        BY <1>2, <2>6, <2>7, <2>8 DEF NetInv, NetTyped, Fds
    <2>10. Descriptors(net)' /\ Handshake(net)'
        BY <1>2, <2>2, <2>7, <2>8 DEF Descriptors, Untouched, Handshake
    <2>11. Listener(net)'
        BY <2>4, <2>6, <2>7, <2>8 DEF Listener, tls
    <2> QED BY <2>9, <2>10, <2>11 DEF NetInv
<1> QED BY <1>1, <1>3, <1>4

\* A client shows the broker which key it has.
LEMMA PskAcceptKeeps == NetInv /\ PskAccept => NetInv'
<1> SUFFICES ASSUME NetInv, PskAccept PROVE NetInv'
    OBVIOUS
<1>1. PICK identity : net' = [net EXCEPT !.username = identity]
    BY DEF PskAccept
<1>2. SameBut(net, net', {"tries", "username"}) /\ net'.open = net.open
    BY <1>1 DEF NetInv, NetTyped, Fds, SameBut, Fields
<1> QED BY <1>2, NetSame DEF NetInv

\* The invariant of the sockets is inductive.
LEMMA NetStep == NetInv /\ [NetNext]_net => NetInv'
<1> SUFFICES ASSUME NetInv, [NetNext]_net PROVE NetInv'
    OBVIOUS
<1>1. CASE UNCHANGED net
    BY <1>1 DEF NetInv, NetTyped, Fds, Descriptors, Untouched, Owned, Pair, mine, Handshake, Listener
<1>2. CASE NetNext
    BY <1>2, NetStartKeeps, NetConnectKeeps, NetReconnectKeeps, NetHandshakeKeeps, DestroyKeeps, ListenKeeps,
       PskAcceptKeeps DEF NetNext
<1> QED BY <1>1, <1>2

\* The invariant holds from the start.
THEOREM NetInvariant == NetSpec => []NetInv
<1>1. NetInit => NetInv
    <2> SUFFICES ASSUME NetInit PROVE NetInv
        OBVIOUS
    <2>1. /\ DOMAIN net = Fields /\ net.open = {} /\ net.twice = FALSE /\ net.broken = FALSE /\ net.sock = NULL
          /\ net.sockpair = NULL /\ net.shake = "none" /\ net.inits = 0 /\ net.pc = "off"
        BY DEF NetInit, Fields
    <2>2. IsFiniteSet({}) /\ {} \subseteq Nat
        BY FS_EmptySet
    <2> QED BY <2>1, <2>2 DEF NetInv, NetTyped, Fds, Descriptors, Untouched, Handshake, Listener
<1> QED BY <1>1, NetStep, PTL DEF NetSpec

\* A client's open descriptors are its socket and its pair, however connecting
\* fails (DescriptorsBelong): _mosquitto_try_connect, _mosquitto_socket_connect.
THEOREM DescriptorsKept == NetSpec => []DescriptorsBelong
<1>1. NetInv => DescriptorsBelong
    <2> SUFFICES ASSUME NetInv PROVE DescriptorsBelong
        OBVIOUS
    <2>1. CASE net.broken
        BY <2>1 DEF DescriptorsBelong
    <2>2. CASE ~net.broken
        <3>1. ~net.twice
            BY <2>2 DEF NetInv, Descriptors
        <3>2. ASSUME net.pc \in {"new", "gone"}, net.world.client # NULL
              PROVE  /\ mine(net) \subseteq net.open
                     /\ net.inits <= 1 => net.open = mine(net)
                     /\ net.sockpair # NULL => ToSet(net.sockpair) = {net.sockpair[1], net.sockpair[2]}
            <4>1. Owned(net)
                BY <2>2, <3>2 DEF NetInv, Descriptors
            <4>2. ASSUME NEW r, NEW w PROVE ToSet(<<r, w>>) = {r, w}
                BY DEF ToSet
            <4>3. net.sockpair # NULL => ToSet(net.sockpair) = {net.sockpair[1], net.sockpair[2]}
                BY <4>1, <4>2, SMTT(30) DEF Owned, Pair
            <4> QED BY <4>1, <4>3 DEF Owned
        <3> QED BY <3>1, <3>2 DEF DescriptorsBelong, mine
    <2> QED BY <2>1, <2>2
<1> QED BY <1>1, NetInvariant, PTL

\* Neither a client nor a listener falls back to less than its TLS settings ask
\* for (NothingInClear): tls_mosq.c, mqtt3_socket_listen.
THEOREM NothingClear == NetSpec => []NothingInClear
<1>1. NetInv => TrustedPeer
    <2> SUFFICES ASSUME NetInv, net.shake = "done" PROVE TrustedPeer
        BY DEF TrustedPeer
    <2>1. net.sock # NULL /\ net.ssl = net.sock /\ accepted(net.world.client, net.world.peer) /\ net.pc = "new"
        BY DEF NetInv, Handshake
    <2>2. net.world \in Worlds /\ net.world.client # NULL
        BY <2>1 DEF NetInv, Handshake, NetTyped
    <2> QED BY <2>1, <2>2, Trusts, ZenonT(60) DEF TrustedPeer, Bears
<1>2. NetInv => ListenerIsUp
    <2> SUFFICES ASSUME NetInv, net.pc = "listening" PROVE ListenerIsUp
        BY DEF ListenerIsUp
    <2> DEFINE l == net.world.listener
               certs == l.ca /\ l.cert /\ l.key
    <2>1. /\ net.socks # <<>> /\ ToSet(net.socks) = net.open /\ listen_tls(l).rc = 0
          /\ net.secure = listen_tls(l).secure
        BY DEF NetInv, Listener
    <2>2. net.world \in Worlds /\ net.world.client = NULL
        BY DEF NetInv, NetTyped, Handshake
    <2>3. l.bad # NULL =>
                 \/ l.bad \in {"version", "ciphers"}
                 \/ l.bad \in {"ca", "cert", "key", "mismatch", "crl"} /\ l.ca /\ l.cert /\ l.key
                 \/ l.bad = "hint" /\ l.psk_hint # NULL /\ ~(l.ca /\ l.cert /\ l.key)
        BY <2>2, WorldsAssumption
    <2>4. certs \/ l.psk_hint # NULL => net.secure /\ l.bad = NULL
        <3> DEFINE wrong == IF certs THEN {"version", "ciphers", "ca", "cert", "key", "mismatch", "crl"}
                            ELSE {"version", "hint", "ciphers"}
                   asked == certs \/ l.psk_hint # NULL
                   failed == asked /\ l.bad \in wrong
        <3>1. listen_tls(l) = [rc |-> IF failed THEN 1 ELSE 0, secure |-> asked /\ l.bad \notin wrong]
            BY Zenon DEF listen_tls
        <3>2. CASE ~asked
            BY <3>2
        <3>3. CASE asked /\ l.bad \in wrong
            <4>1. failed
                BY <3>3
            <4> HIDE DEF failed
            <4>2. listen_tls(l).rc = 1
                BY <3>1, <4>1
            <4> QED BY <2>1, <4>2
        <3>4. CASE asked /\ l.bad \notin wrong
            <4>1. listen_tls(l).secure = (asked /\ l.bad \notin wrong)
                BY <3>1
            <4>2. net.secure
                BY <2>1, <3>4, <4>1, Zenon
            <4>3. l.bad = NULL
                <5>1. CASE certs
                    BY <2>3, <3>4, <5>1
                <5>2. CASE ~certs
                    BY <2>3, <3>4, <5>2
                <5> QED BY <5>1, <5>2
            <4> QED BY <4>2, <4>3
        <3> QED BY <3>2, <3>3, <3>4
    <2> QED BY <2>1, <2>4 DEF ListenerIsUp
<1>3. NetInv => NothingInClear
    BY <1>1, <1>2 DEF NothingInClear
<1> QED BY <1>3, NetInvariant, PTL

-----------------------------------------------------------------------------
(* The password file: what mosquitto_passwd leaves when it is stopped.     *)

\* A list of any lines.
Listed(q) == q \in Seq(Range(q))

\* to is the beginning of from.
Copied(to, from) ==
    Listed(to) /\ Listed(from) /\ Len(to) <= Len(from) /\ \A k \in 1..Len(to) : to[k] = from[k]

PwFields == {"pc", "cmd", "file", "backup", "tmp", "old", "typed", "echo", "rc", "full", "calls"}

\* What the files hold at each point of a call that edits them.
Stored(p) ==
    /\ p.pc = "back up" => p.file = p.old /\ Copied(p.backup, p.file)
    /\ p.pc \in {"ask", "edit"} => p.file = p.old /\ p.backup = p.old
    /\ p.pc = "copy" => p.backup = p.old /\ Copied(p.file, p.tmp)
    /\ p.pc = "ended" => p.file = p.old \/ p.backup = p.old \/ (p.rc = 0 /\ p.file = p.tmp)

\* The inductive invariant of mosquitto_passwd.
PwInv ==
    /\ DOMAIN pw = PwFields
    /\ pw.pc \in {"new", "back up", "ask", "edit", "copy", "ended"}
    /\ pw.pc # "ask" => pw.echo = TRUE
    /\ pw.pc \in {"new", "ended"} => pw.file = NULL \/ Listed(pw.file)
    /\ pw.pc \in {"back up", "copy"} => pw.cmd.mode # "c"
    /\ pw.pc = "back up" => Listed(pw.backup)
    /\ pw.pc = "copy" => Listed(pw.tmp)
    /\ pw.pc \notin {"new", "ended"} => Listed(pw.file) \/ (pw.file = NULL /\ pw.cmd.mode = "c")
    /\ pw.pc # "new" /\ pw.cmd.mode # "c" /\ ~pw.full => Stored(pw)

\* Lists of lines grow, begin empty, and lose their last line.
LEMMA ListedLines ==
    /\ Listed(<<>>)
    /\ \A q, x : Listed(q) => Listed(Append(q, x)) /\ Len(Append(q, x)) = Len(q) + 1 /\ Len(q) \in Nat
                              /\ Append(q, x)[Len(q) + 1] = x /\ \A k \in 1..Len(q) : Append(q, x)[k] = q[k]
    /\ \A q : Listed(q) /\ q # <<>> => Listed(Front(q))
<1>1. ASSUME NEW S, NEW q \in Seq(S) PROVE Listed(q)
    <2>1. q = [k \in 1..Len(q) |-> q[k]] /\ DOMAIN q = 1..Len(q) /\ Len(q) \in Nat
        OBVIOUS
    <2>2. \A k \in 1..Len(q) : q[k] \in Range(q)
        BY <2>1 DEF Range
    <2>3. [k \in 1..Len(q) |-> q[k]] \in Seq(Range(q))
        BY <2>1, <2>2, IsASeq
    <2> QED BY <2>1, <2>3, Zenon DEF Listed
<1>2. Listed(<<>>)
    <2>1. <<>> \in Seq({})
        OBVIOUS
    <2> QED BY <1>1, <2>1
<1>3. ASSUME NEW q, NEW x, Listed(q)
      PROVE  /\ Listed(Append(q, x)) /\ Len(Append(q, x)) = Len(q) + 1 /\ Len(q) \in Nat
             /\ Append(q, x)[Len(q) + 1] = x /\ \A k \in 1..Len(q) : Append(q, x)[k] = q[k]
    <2> DEFINE S == Range(q) \cup {x}
    <2>1. q \in Seq(S) /\ x \in S
        <3>1. q \in Seq(Range(q)) /\ Range(q) \subseteq S
            BY <1>3 DEF Listed
        <3> QED BY <3>1, SeqMonotonic
    <2> HIDE DEF S
    <2>2. Append(q, x) \in Seq(S)
        BY <2>1, AppendProperties
    <2>3. Listed(Append(q, x))
        BY <1>1, <2>2
    <2>4. /\ Len(Append(q, x)) = Len(q) + 1 /\ Len(q) \in Nat
          /\ Append(q, x)[Len(q) + 1] = x /\ \A k \in 1..Len(q) : Append(q, x)[k] = q[k]
        BY <2>1
    <2> QED BY <2>3, <2>4
<1>4. ASSUME NEW q, Listed(q), q # <<>> PROVE Listed(Front(q))
    <2> DEFINE S == Range(q)
    <2>1. q \in Seq(S)
        BY <1>4 DEF Listed
    <2> HIDE DEF S
    <2>2. Front(q) \in Seq(S)
        BY <1>4, <2>1 DEF Front
    <2> QED BY <1>1, <2>2
<1> QED BY <1>2, <1>3, <1>4

\* A line that is written leaves a list of lines.
LEMMA Printed ==
    ASSUME NEW file, Listed(file), NEW line
    PROVE  Listed(fprintf(file, line))
<1>1. CASE file = <<>>
    BY <1>1, ListedLines DEF fprintf
<1>2. CASE file # <<>>
    BY <1>2, ListedLines DEF fprintf
<1> QED BY <1>1, <1>2

\* One line of delete_pwuser, update_file and update_pwuser.
delete_line(username, out, line) == IF is_user(line, username) THEN out ELSE fprintf(out, line)

update_line(salt, out, line) ==
    IF second(line) # NULL THEN output_new_password(out, line.name, second(line), salt)
    ELSE fprintf(out, [line EXCEPT !.word = NULL])

set_line(p, out, line) ==
    IF is_user(line, p.username) THEN output_new_password(out, p.username, p.password, p.salt)
    ELSE fprintf(out, line)

\* What is written is a list of lines.
ListedLine(p, k, out) == Listed(out)

\* The walks over the lines of the file.
DeleteWalk == INSTANCE SequenceFolds WITH op <- delete_line, Inv <- ListedLine
UpdateWalk == INSTANCE SequenceFolds WITH op <- update_line, Inv <- ListedLine
SetWalk == INSTANCE SequenceFolds WITH op <- set_line, Inv <- ListedLine

\* The induction that the theorem of DeleteWalk assumes.
LEMMA DeleteWalkInducts == DeleteWalk!Induction
    BY NatInduct DEF DeleteWalk!Induction

\* The induction that the theorem of UpdateWalk assumes.
LEMMA UpdateWalkInducts == UpdateWalk!Induction
    BY NatInduct DEF UpdateWalk!Induction

\* The induction that the theorem of SetWalk assumes.
LEMMA SetWalkInducts == SetWalk!Induction
    BY NatInduct DEF SetWalk!Induction

\* The new contents are a list of lines.
LEMMA NewContents ==
    ASSUME NEW file, Listed(file), NEW username, NEW password, NEW salt
    PROVE  /\ Listed(delete_pwuser(file, username)) /\ Listed(update_file(file, salt))
           /\ Listed(update_pwuser(file, username, password, salt))
<1>0. DOMAIN file = 1..Len(file) /\ Len(file) \in Nat /\ Listed(<<>>)
    <2>1. file \in Seq(Range(file))
        BY DEF Listed
    <2> QED BY <2>1, ListedLines, LenProperties
<1>1. Listed(delete_pwuser(file, username))
    <2>1. ListedLine(username, 0, <<>>)
        BY <1>0 DEF ListedLine
    <2>2. \A k \in 1..Len(file) : \A out : ListedLine(username, k - 1, out)
             => ListedLine(username, k, delete_line(username, out, file[k]))
        BY Printed DEF ListedLine, delete_line
    <2>3. ListedLine(username, Len(file), DeleteWalk!Walk(username, <<>>, file))
        BY <1>0, <2>1, <2>2, DeleteWalk!WalkInvariant, DeleteWalkInducts
    <2>4. DeleteWalk!Walk(username, <<>>, file) = delete_pwuser(file, username)
        BY DEF delete_pwuser, delete_line, DeleteWalk!Walk, DeleteWalk!Greatest,
               FoldLeft, MapThenFoldSet, Max
    <2> QED BY <2>3, <2>4 DEF ListedLine
<1>2. Listed(update_file(file, salt))
    <2>1. ListedLine(salt, 0, <<>>)
        BY <1>0 DEF ListedLine
    <2>2. \A k \in 1..Len(file) : \A out : ListedLine(salt, k - 1, out)
             => ListedLine(salt, k, update_line(salt, out, file[k]))
        BY Printed DEF ListedLine, update_line, output_new_password
    <2>3. ListedLine(salt, Len(file), UpdateWalk!Walk(salt, <<>>, file))
        BY <1>0, <2>1, <2>2, UpdateWalk!WalkInvariant, UpdateWalkInducts
    <2>4. UpdateWalk!Walk(salt, <<>>, file) = update_file(file, salt)
        BY DEF update_file, update_line, UpdateWalk!Walk, UpdateWalk!Greatest,
               FoldLeft, MapThenFoldSet, Max
    <2> QED BY <2>3, <2>4 DEF ListedLine
<1>3. Listed(update_pwuser(file, username, password, salt))
    <2> DEFINE p == [username |-> username, password |-> password, salt |-> salt]
    <2>1. ListedLine(p, 0, <<>>)
        BY <1>0 DEF ListedLine
    <2>2. \A k \in 1..Len(file) : \A out : ListedLine(p, k - 1, out) => ListedLine(p, k, set_line(p, out, file[k]))
        BY Printed DEF ListedLine, set_line, output_new_password
    <2>3. ListedLine(p, Len(file), SetWalk!Walk(p, <<>>, file))
        <3> HIDE DEF p
        <3> QED BY <1>0, <2>1, <2>2, SetWalk!WalkInvariant, SetWalkInducts
    <2>4. SetWalk!Walk(p, <<>>, file)
            = FoldLeft(LAMBDA out, line : IF is_user(line, username) THEN output_new_password(out, username, password, salt)
                                          ELSE fprintf(out, line), <<>>, file)
        BY DEF set_line, SetWalk!Walk, SetWalk!Greatest,
               FoldLeft, MapThenFoldSet, Max
    <2>5. Listed(SetWalk!Walk(p, <<>>, file))
        BY <2>3 DEF ListedLine
    <2>6. update_pwuser(file, username, password, salt)
            \in {SetWalk!Walk(p, <<>>, file), output_new_password(SetWalk!Walk(p, <<>>, file), username, password, salt)}
        <3> HIDE DEF p
        <3> QED BY <2>4 DEF update_pwuser
    <2> HIDE DEF p
    <2> QED BY <2>5, <2>6, Printed DEF output_new_password
<1> QED BY <1>1, <1>2, <1>3

\* A copy goes on by a line, until it is the whole.
LEMMA CopyGoesOn ==
    ASSUME NEW to, NEW from, Copied(to, from)
    PROVE  /\ copy_contents(from, to) => Copied(Append(to, from[Len(to) + 1]), from)
           /\ ~copy_contents(from, to) => to = from
<1>1. Listed(to) /\ Listed(from) /\ Len(to) <= Len(from) /\ \A k \in 1..Len(to) : to[k] = from[k]
    BY DEF Copied
<1>2. Len(to) \in Nat /\ Len(from) \in Nat
    BY <1>1, ListedLines
<1>3. ASSUME copy_contents(from, to) PROVE Copied(Append(to, from[Len(to) + 1]), from)
    <2> DEFINE x == from[Len(to) + 1]
               longer == Append(to, x)
    <2>1. /\ Listed(longer) /\ Len(longer) = Len(to) + 1 /\ longer[Len(to) + 1] = x
          /\ \A k \in 1..Len(to) : longer[k] = to[k]
        BY <1>1, ListedLines
    <2>2. Len(to) + 1 <= Len(from)
        BY <1>2, <1>3 DEF copy_contents
    <2>3. \A k \in 1..(Len(to) + 1) : longer[k] = from[k]
        <3> HIDE DEF longer
        <3>1. \A k \in 1..(Len(to) + 1) : k = Len(to) + 1 \/ k \in 1..Len(to)
            BY <1>2
        <3> QED BY <1>1, <2>1, <3>1
    <2> HIDE DEF longer
    <2>4. Copied(longer, from)
        BY <1>1, <2>1, <2>2, <2>3 DEF Copied
    <2> QED BY <2>4 DEF longer
<1>4. ASSUME ~copy_contents(from, to) PROVE to = from
    <2>1. Len(to) = Len(from)
        BY <1>1, <1>2, <1>4 DEF copy_contents
    <2>2. to = [k \in 1..Len(to) |-> to[k]]
        BY <1>1, LenProperties DEF Listed
    <2>3. from = [k \in 1..Len(from) |-> from[k]]
        BY <1>1, LenProperties DEF Listed
    <2> QED BY <1>1, <2>1, <2>2, <2>3
<1> QED BY <1>3, <1>4

\* A copy begins with nothing.
LEMMA CopyBegins ==
    ASSUME NEW from, Listed(from)
    PROVE  Copied(<<>>, from)
  BY ListedLines DEF Copied, Listed

\* A call ends, with the files as they are.
LEMMA PwEnds ==
    ASSUME PwInv, NEW q, DOMAIN q = PwFields, q.pc = "ended", q.echo = TRUE,
           q.file = NULL \/ Listed(q.file),
           q.cmd.mode # "c" /\ ~q.full => q.file = q.old \/ q.backup = q.old \/ (q.rc = 0 /\ q.file = q.tmp),
           pw' = q
    PROVE  PwInv'
<1>1. Stored(q) \/ q.cmd.mode = "c" \/ q.full
    BY DEF Stored
<1> QED BY <1>1 DEF PwInv

\* main is called.
LEMMA PwCalls == PwInv /\ (\E cmd \in PwCommands : PwCall(cmd)) => PwInv'
<1> SUFFICES ASSUME PwInv, NEW cmd \in PwCommands, PwCall(cmd) PROVE PwInv'
    OBVIOUS
<1>1. PICK file \in IF pw.pc = "new" THEN PwFiles ELSE {pw.file} :
        LET called == [pw EXCEPT !.cmd = cmd, !.file = file, !.old = file, !.tmp = <<>>, !.typed = <<>>,
                                 !.rc = NULL, !.full = FALSE, !.calls = @ + 1]
        IN pw' = CASE cmd.mode = "c" -> [called EXCEPT !.pc = "ask"]
                   [] cmd.mode # "c" /\ file = NULL -> ended(called, 1)
                   [] OTHER -> create_backup(called)
    BY DEF PwCall
<1> DEFINE called == [pw EXCEPT !.cmd = cmd, !.file = file, !.old = file, !.tmp = <<>>, !.typed = <<>>,
                                !.rc = NULL, !.full = FALSE, !.calls = @ + 1]
<1>2. pw.pc \in {"new", "ended"} /\ pw.echo = TRUE
    BY DEF PwCall, PwInv
<1>3. file = NULL \/ Listed(file)
    <2>1. CASE pw.pc = "new"
        BY <1>1, <2>1, PwAssumption DEF Listed
    <2>2. CASE pw.pc # "new"
        BY <1>1, <1>2, <2>2 DEF PwInv
    <2> QED BY <2>1, <2>2
<1>4. /\ DOMAIN called = PwFields /\ called.cmd = cmd /\ called.file = file /\ called.old = file
      /\ called.full = FALSE /\ called.echo = TRUE
    BY <1>2 DEF PwInv, PwFields
<1> HIDE DEF called
<1>5. CASE cmd.mode = "c"
    <2>1. pw' = [called EXCEPT !.pc = "ask"]
        BY <1>1, <1>5 DEF called
    <2>2. /\ DOMAIN pw' = PwFields /\ pw'.pc = "ask" /\ pw'.cmd = cmd /\ pw'.file = file
        BY <1>4, <2>1 DEF PwFields
    <2> QED BY <1>3, <1>5, <2>2 DEF PwInv
<1>6. CASE cmd.mode # "c" /\ file = NULL
    <2>1. pw' = [called EXCEPT !.pc = "ended", !.rc = 1]
        BY <1>1, <1>6 DEF called, ended
    <2>2. /\ DOMAIN pw' = PwFields /\ pw'.pc = "ended" /\ pw'.cmd = cmd /\ pw'.file = file /\ pw'.old = file
          /\ pw'.echo = TRUE
        BY <1>4, <2>1 DEF PwFields
    <2> QED BY <1>3, <2>2, PwEnds
<1>7. CASE cmd.mode # "c" /\ file # NULL
    <2>1. pw' = [called EXCEPT !.pc = "back up", !.backup = <<>>]
        BY <1>1, <1>7 DEF called, create_backup
    <2>2. /\ DOMAIN pw' = PwFields /\ pw'.pc = "back up" /\ pw'.cmd = cmd /\ pw'.file = file /\ pw'.old = file
          /\ pw'.echo = TRUE /\ pw'.full = FALSE /\ pw'.backup = <<>>
        BY <1>4, <2>1 DEF PwFields
    <2>3. Listed(file) /\ Listed(<<>>) /\ Copied(<<>>, file)
        BY <1>3, <1>7, CopyBegins, ListedLines
    <2>4. Stored(pw)'
        BY <2>2, <2>3 DEF Stored
    <2> QED BY <1>7, <2>2, <2>3, <2>4 DEF PwInv
<1> QED BY <1>5, <1>6, <1>7

\* create_backup copies, or the disk is full.
LEMMA PwBacksUp ==
    ASSUME PwInv, pw.pc = "back up", PwBackup \/ PwDiskFull
    PROVE  PwInv'
<1>1. /\ DOMAIN pw = PwFields /\ pw.echo = TRUE /\ pw.cmd.mode # "c" /\ Listed(pw.file) /\ Listed(pw.backup)
      /\ ~pw.full => pw.file = pw.old /\ Copied(pw.backup, pw.file)
    BY DEF PwInv, Stored
<1>2. CASE PwBackup /\ copy_contents(pw.file, pw.backup)
    <2> DEFINE longer == Append(pw.backup, pw.file[Len(pw.backup) + 1])
    <2>1. pw' = [pw EXCEPT !.backup = longer]
        BY <1>2 DEF PwBackup
    <2>2. Listed(longer)
        BY <1>1, ListedLines
    <2>3. ~pw.full => Copied(longer, pw.file)
        BY <1>1, <1>2, CopyGoesOn
    <2> HIDE DEF longer
    <2>4. /\ DOMAIN pw' = PwFields /\ pw'.pc = "back up" /\ pw'.cmd = pw.cmd /\ pw'.file = pw.file /\ pw'.old = pw.old
          /\ pw'.echo = pw.echo /\ pw'.full = pw.full /\ pw'.backup = longer
        BY <1>1, <2>1 DEF PwFields
    <2>5. ~pw.full => Stored(pw)'
        BY <1>1, <2>3, <2>4 DEF Stored
    <2> QED BY <1>1, <2>2, <2>4, <2>5 DEF PwInv
<1>3. ASSUME NEW pc \in {"ask", "edit"}, NEW full, pw' = [pw EXCEPT !.pc = pc, !.full = full],
             ~full => ~pw.full /\ ~copy_contents(pw.file, pw.backup)
      PROVE  PwInv'
    <2>1. /\ DOMAIN pw' = PwFields /\ pw'.pc = pc /\ pw'.cmd = pw.cmd /\ pw'.file = pw.file /\ pw'.old = pw.old
          /\ pw'.echo = pw.echo /\ pw'.full = full /\ pw'.backup = pw.backup
        BY <1>1, <1>3 DEF PwFields
    <2>2. ~full => pw.backup = pw.old
        BY <1>1, <1>3, CopyGoesOn
    <2>3. ~full => Stored(pw)'
        BY <1>1, <1>3, <2>1, <2>2 DEF Stored
    <2> QED BY <1>1, <1>3, <2>1, <2>3 DEF PwInv
<1>4. CASE PwBackup /\ ~copy_contents(pw.file, pw.backup)
    <2>1. pw' = [pw EXCEPT !.pc = IF pw.cmd.mode = "set" THEN "ask" ELSE "edit"]
        BY <1>4 DEF PwBackup
    <2>2. PICK pc \in {"ask", "edit"} : pw' = [pw EXCEPT !.pc = pc]
        BY <2>1
    <2>3. pw' = [pw EXCEPT !.pc = pc, !.full = pw.full]
        BY <1>1, <2>2 DEF PwFields
    <2> QED BY <1>3, <1>4, <2>3
<1>5. CASE PwDiskFull
    <2> DEFINE full == [pw EXCEPT !.full = TRUE]
    <2>1. CASE pw' = ended(full, 1)
        <3>1. pw' = [full EXCEPT !.pc = "ended", !.rc = 1]
            BY <2>1 DEF ended
        <3>2. /\ DOMAIN pw' = PwFields /\ pw'.pc = "ended" /\ pw'.echo = TRUE /\ pw'.full = TRUE /\ pw'.file = pw.file
            BY <1>1, <3>1 DEF PwFields
        <3> QED BY <1>1, <3>2, PwEnds
    <2>2. CASE pw' = [full EXCEPT !.pc = IF pw.cmd.mode = "set" THEN "ask" ELSE "edit"]
        <3>1. PICK pc \in {"ask", "edit"} : pw' = [full EXCEPT !.pc = pc]
            BY <2>2
        <3>2. pw' = [pw EXCEPT !.pc = pc, !.full = TRUE]
            BY <1>1, <3>1 DEF PwFields
        <3> QED BY <1>3, <3>2
    <2> QED BY <1>5, <2>1, <2>2 DEF PwDiskFull
<1> QED BY <1>2, <1>4, <1>5

\* The new contents go into the file, or the disk is full.
LEMMA PwCopies ==
    ASSUME PwInv, pw.pc = "copy", PwCopy \/ PwDiskFull
    PROVE  PwInv'
<1>1. /\ DOMAIN pw = PwFields /\ pw.echo = TRUE /\ pw.cmd.mode # "c" /\ Listed(pw.file) /\ Listed(pw.tmp)
      /\ ~pw.full => pw.backup = pw.old /\ Copied(pw.file, pw.tmp)
    BY DEF PwInv, Stored
<1>2. CASE PwCopy /\ copy_contents(pw.tmp, pw.file)
    <2> DEFINE longer == Append(pw.file, pw.tmp[Len(pw.file) + 1])
    <2>1. pw' = [pw EXCEPT !.file = longer]
        BY <1>2 DEF PwCopy
    <2>2. Listed(longer)
        BY <1>1, ListedLines
    <2>3. ~pw.full => Copied(longer, pw.tmp)
        BY <1>1, <1>2, CopyGoesOn
    <2> HIDE DEF longer
    <2>4. /\ DOMAIN pw' = PwFields /\ pw'.pc = "copy" /\ pw'.cmd = pw.cmd /\ pw'.file = longer /\ pw'.old = pw.old
          /\ pw'.echo = pw.echo /\ pw'.full = pw.full /\ pw'.backup = pw.backup /\ pw'.tmp = pw.tmp
        BY <1>1, <2>1 DEF PwFields
    <2>5. ~pw.full => Stored(pw)'
        BY <1>1, <2>3, <2>4 DEF Stored
    <2> QED BY <1>1, <2>2, <2>4, <2>5 DEF PwInv
<1>3. CASE PwCopy /\ ~copy_contents(pw.tmp, pw.file)
    <2>1. pw' = [[pw EXCEPT !.pc = "ended", !.rc = 0] EXCEPT !.backup = NULL]
        BY <1>3 DEF PwCopy, unlinked, ended
    <2>2. /\ DOMAIN pw' = PwFields /\ pw'.pc = "ended" /\ pw'.echo = TRUE /\ pw'.full = pw.full /\ pw'.file = pw.file
          /\ pw'.tmp = pw.tmp /\ pw'.rc = 0 /\ pw'.cmd = pw.cmd
        BY <1>1, <2>1 DEF PwFields
    <2>3. ~pw.full => pw.file = pw.tmp
        BY <1>1, <1>3, CopyGoesOn
    <2> QED BY <1>1, <2>2, <2>3, PwEnds
<1>4. CASE PwDiskFull
    <2> DEFINE full == [pw EXCEPT !.full = TRUE]
    <2>1. pw' \in {[full EXCEPT !.pc = "ended", !.rc = 1], [[full EXCEPT !.pc = "ended", !.rc = 0] EXCEPT !.backup = NULL]}
        BY <1>4 DEF PwDiskFull, ended, unlinked
    <2>2. /\ DOMAIN pw' = PwFields /\ pw'.pc = "ended" /\ pw'.echo = TRUE /\ pw'.full = TRUE /\ pw'.file = pw.file
        BY <1>1, <2>1 DEF PwFields
    <2> QED BY <1>1, <2>2, PwEnds
<1> QED BY <1>2, <1>3, <1>4

\* Passwords are typed, and the terminal does not show them meanwhile.
LEMMA PwAsks ==
    ASSUME PwInv, pw.pc = "ask", gets_quiet \/ (\E word \in PwWords : get_password(word))
    PROVE  PwInv'
<1>1. /\ DOMAIN pw = PwFields
      /\ (Listed(pw.file) \/ (pw.file = NULL /\ pw.cmd.mode = "c"))
      /\ pw.cmd.mode # "c" /\ ~pw.full => pw.file = pw.old /\ pw.backup = pw.old
    BY DEF PwInv, Stored
<1>2. ASSUME NEW pc \in {"ask", "edit"}, NEW echo, NEW typed, pc = "edit" => echo = TRUE,
             pw' = [pw EXCEPT !.pc = pc, !.echo = echo, !.typed = typed]
      PROVE  PwInv'
    <2>1. /\ DOMAIN pw' = PwFields /\ pw'.pc = pc /\ pw'.cmd = pw.cmd /\ pw'.file = pw.file /\ pw'.old = pw.old
          /\ pw'.echo = echo /\ pw'.full = pw.full /\ pw'.backup = pw.backup
        BY <1>1, <1>2 DEF PwFields
    <2>2. pw.cmd.mode # "c" /\ ~pw.full => Stored(pw)'
        BY <1>1, <1>2, <2>1 DEF Stored
    <2> QED BY <1>1, <1>2, <2>1, <2>2 DEF PwInv
<1>3. CASE gets_quiet
    <2>1. pw' = [pw EXCEPT !.pc = "ask", !.echo = FALSE, !.typed = pw.typed]
        BY <1>1, <1>3 DEF gets_quiet, PwFields
    <2> QED BY <1>2, <2>1
<1>4. ASSUME NEW word \in PwWords, get_password(word) PROVE PwInv'
    <2> DEFINE typed == Append(pw.typed, word)
               wrong == word = <<>> \/ (Len(typed) = 2 /\ typed[1] # typed[2])
               read == [pw EXCEPT !.echo = TRUE, !.typed = typed]
    <2>1. pw' = CASE wrong /\ pw.cmd.mode = "c" -> ended(read, 1)
                  [] wrong /\ pw.cmd.mode # "c" -> unlinked(ended(read, 1))
                  [] OTHER -> IF Len(typed) = 2 THEN [read EXCEPT !.pc = "edit"] ELSE read
        BY <1>4 DEF get_password
    <2>2. pw' \in {ended(read, 1), unlinked(ended(read, 1)), [read EXCEPT !.pc = "edit"], read}
        <3> HIDE DEF read, wrong
        <3> QED BY <2>1
    <2> HIDE DEF typed
    <2>3. CASE pw' \in {ended(read, 1), unlinked(ended(read, 1))}
        <3>1. pw' \in {[read EXCEPT !.pc = "ended", !.rc = 1], [[read EXCEPT !.pc = "ended", !.rc = 1] EXCEPT !.backup = NULL]}
            BY <2>3 DEF ended, unlinked
        <3>2. /\ DOMAIN pw' = PwFields /\ pw'.pc = "ended" /\ pw'.echo = TRUE /\ pw'.full = pw.full
              /\ pw'.file = pw.file /\ pw'.cmd = pw.cmd /\ pw'.old = pw.old
            BY <1>1, <3>1 DEF PwFields
        <3> QED BY <1>1, <3>2, PwEnds
    <2>4. CASE pw' = [read EXCEPT !.pc = "edit"]
        <3>1. pw' = [pw EXCEPT !.pc = "edit", !.echo = TRUE, !.typed = typed]
            BY <1>1, <2>4 DEF PwFields
        <3> QED BY <1>2, <3>1
    <2>5. CASE pw' = read
        <3>1. pw' = [pw EXCEPT !.pc = "ask", !.echo = TRUE, !.typed = typed]
            BY <1>1, <2>5 DEF PwFields
        <3> QED BY <1>2, <3>1
    <2> QED BY <2>2, <2>3, <2>4, <2>5
<1> QED BY <1>3, <1>4

\* The new contents are made, or the program gives up.
LEMMA PwEdits ==
    ASSUME PwInv, pw.pc = "edit", \E salt \in Salts : PwCreate(salt) \/ PwEdit(salt)
    PROVE  PwInv'
<1>1. /\ DOMAIN pw = PwFields
      /\ (Listed(pw.file) \/ (pw.file = NULL /\ pw.cmd.mode = "c"))
      /\ pw.echo = TRUE
      /\ pw.cmd.mode # "c" /\ ~pw.full => pw.file = pw.old /\ pw.backup = pw.old
    BY DEF PwInv, Stored
<1>2. ASSUME NEW file, Listed(file), NEW rc, pw.cmd.mode = "c",
             pw' = [[pw EXCEPT !.file = file] EXCEPT !.pc = "ended", !.rc = rc]
      PROVE  PwInv'
    <2>1. /\ DOMAIN pw' = PwFields /\ pw'.pc = "ended" /\ pw'.echo = TRUE /\ pw'.file = file /\ pw'.cmd = pw.cmd
        BY <1>1, <1>2 DEF PwFields
    <2> QED BY <1>2, <2>1, PwEnds
<1>3. ASSUME NEW salt \in Salts, PwCreate(salt) PROVE PwInv'
    <2>1. Listed(<<>>) /\ Listed(output_new_password(<<>>, pw.cmd.user, pw.typed[1], salt))
        BY ListedLines, Printed DEF output_new_password
    <2> QED BY <1>2, <1>3, <2>1 DEF PwCreate, ended
<1>4. ASSUME NEW salt \in Salts, PwEdit(salt) PROVE PwInv'
    <2>1. pw.cmd.mode # "c"
        BY <1>4 DEF PwEdit
    <2> DEFINE new == CASE pw.cmd.mode = "D" -> delete_pwuser(pw.file, pw.cmd.user)
                        [] pw.cmd.mode = "U" -> update_file(pw.file, salt)
                        [] OTHER -> update_pwuser(pw.file, pw.cmd.user, pw.typed[1], salt)
    <2>2. CASE pw' = [pw EXCEPT !.tmp = new, !.file = <<>>, !.pc = "copy"]
        <3>1. Listed(new)
            <4>1. /\ Listed(delete_pwuser(pw.file, pw.cmd.user)) /\ Listed(update_file(pw.file, salt))
                  /\ Listed(update_pwuser(pw.file, pw.cmd.user, pw.typed[1], salt))
                BY <1>1, <2>1, NewContents
            <4> QED BY <4>1
        <3> HIDE DEF new
        <3>2. /\ DOMAIN pw' = PwFields /\ pw'.pc = "copy" /\ pw'.echo = TRUE /\ pw'.file = <<>> /\ pw'.tmp = new
              /\ pw'.cmd = pw.cmd /\ pw'.full = pw.full /\ pw'.backup = pw.backup /\ pw'.old = pw.old
            BY <1>1, <2>2 DEF PwFields
        <3>3. Copied(<<>>, new) /\ Listed(<<>>)
            BY <3>1, CopyBegins, ListedLines
        <3>4. ~pw.full => Stored(pw)'
            BY <1>1, <2>1, <3>2, <3>3 DEF Stored
        <3> QED BY <2>1, <3>1, <3>2, <3>3, <3>4 DEF PwInv
    <2>3. CASE pw' = unlinked(ended(pw, 1))
        <3>1. pw' = [[pw EXCEPT !.pc = "ended", !.rc = 1] EXCEPT !.backup = NULL]
            BY <2>3 DEF unlinked, ended
        <3>2. /\ DOMAIN pw' = PwFields /\ pw'.pc = "ended" /\ pw'.echo = TRUE /\ pw'.full = pw.full
              /\ pw'.file = pw.file /\ pw'.cmd = pw.cmd /\ pw'.old = pw.old
            BY <1>1, <3>1 DEF PwFields
        <3> QED BY <1>1, <3>2, PwEnds
    <2> QED BY <1>4, <2>2, <2>3 DEF PwEdit
<1> QED BY <1>3, <1>4

\* There is no temporary file, or a signal comes.
LEMMA PwStops ==
    ASSUME PwInv, PwNoTmpfile \/ handle_sigint
    PROVE  PwInv'
<1>1. CASE PwNoTmpfile
    <2>1. pw' = [pw EXCEPT !.pc = "ended", !.rc = 1] /\ pw.pc \in {"ask", "edit"} /\ pw.echo = TRUE
        BY <1>1 DEF PwNoTmpfile, ended, PwInv
    <2>2. /\ DOMAIN pw' = PwFields /\ pw'.pc = "ended" /\ pw'.echo = TRUE /\ pw'.full = pw.full
          /\ pw'.file = pw.file /\ pw'.cmd = pw.cmd /\ pw'.old = pw.old
        BY <2>1 DEF PwInv, PwFields
    <2>3. (Listed(pw.file) \/ pw.file = NULL) /\ (pw.cmd.mode # "c" /\ ~pw.full => pw.file = pw.old)
        BY <2>1 DEF PwInv, Stored
    <2> QED BY <2>2, <2>3, PwEnds
<1>2. CASE handle_sigint
    <2>1. pw' = [[pw EXCEPT !.echo = TRUE] EXCEPT !.pc = "ended", !.rc = NULL] /\ pw.pc \notin {"new", "ended"}
        BY <1>2 DEF handle_sigint, ended
    <2>2. /\ DOMAIN pw' = PwFields /\ pw'.pc = "ended" /\ pw'.echo = TRUE /\ pw'.full = pw.full
          /\ pw'.file = pw.file /\ pw'.cmd = pw.cmd /\ pw'.old = pw.old /\ pw'.backup = pw.backup
        BY <2>1 DEF PwInv, PwFields
    <2>3. /\ Listed(pw.file) \/ pw.file = NULL
          /\ pw.cmd.mode # "c" /\ ~pw.full => pw.file = pw.old \/ pw.backup = pw.old
        BY <2>1 DEF PwInv, Stored
    <2> QED BY <2>2, <2>3, PwEnds
<1> QED BY <1>1, <1>2

\* The invariant of mosquitto_passwd is inductive.
LEMMA PwStep == PwInv /\ [PwNext]_pw => PwInv'
<1> SUFFICES ASSUME PwInv, [PwNext]_pw PROVE PwInv'
    OBVIOUS
<1>1. CASE UNCHANGED pw
    BY <1>1 DEF PwInv, Stored, Copied
<1>2. CASE PwNext
    <2>1. PwBackup \/ PwDiskFull => pw.pc = "back up" \/ pw.pc = "copy"
        BY DEF PwBackup, PwDiskFull
    <2>2. PwCopy => pw.pc = "copy"
        BY DEF PwCopy
    <2>3. PwBackup => pw.pc = "back up"
        BY ZenonT(60) DEF PwBackup
    <2>4. gets_quiet \/ (\E word \in PwWords : get_password(word)) => pw.pc = "ask"
        BY DEF gets_quiet, get_password
    <2>5. (\E salt \in Salts : PwCreate(salt) \/ PwEdit(salt)) => pw.pc = "edit"
        BY DEF PwCreate, PwEdit
    <2> QED BY <1>2, <2>1, <2>2, <2>3, <2>4, <2>5, PwCalls, PwBacksUp, PwCopies, PwAsks, PwEdits, PwStops DEF PwNext
<1> QED BY <1>1, <1>2

\* Wherever mosquitto_passwd is stopped, the passwords are in the file or the backup
\* beside it, and the terminal shows again what is typed (StoppedSafely): main,
\* create_backup, handle_sigint.
THEOREM SafelyStopped == PwSpec => []StoppedSafely
<1>1. PwInit => PwInv
    BY ListedLines DEF PwInit, PwInv, PwFields
<1>2. PwInv => StoppedSafely
    <2> SUFFICES ASSUME PwInv PROVE StoppedSafely
        OBVIOUS
    <2>1. EchoComesBack
        BY DEF PwInv, EchoComesBack
    <2>2. NothingLost
        <3> SUFFICES ASSUME pw.pc # "new", pw.cmd.mode # "c", ~pw.full
                     PROVE  \/ pw.file = pw.old \/ pw.backup = pw.old
                            \/ pw.pc = "ended" /\ pw.rc = 0 /\ pw.file = pw.tmp
            BY DEF NothingLost
        <3> QED BY DEF PwInv, Stored
    <2> QED BY <2>1, <2>2 DEF StoppedSafely
<1> QED BY <1>1, <1>2, PwStep, PTL DEF PwSpec

-----------------------------------------------------------------------------
(* Bridge and SysTree.                                                     *)

-----------------------------------------------------------------------------
(* The inductive invariant, for any value b of bridge.                     *)

BridgeFields ==
    {"stage", "conf", "state", "sock", "cur_address", "primary_retry", "restart_t", "lazy_reconnect",
     "try_private_accepted", "will", "ping_t", "silence", "idle", "msgs", "local_subs", "retained", "wire",
     "replies", "down", "dead", "remote_subs", "faults"}

\* Packets that are about the subscription to topic x.
about(p, x) == p.type \in {"SUBSCRIBE", "UNSUBSCRIBE"} /\ p.topic = x

Nothing(wire, x) == \A i \in DOMAIN wire : ~about(wire[i], x)

\* The last packet on the way that is about topic x asks for what is wanted, or there
\* is none and the remote broker knows it already.
LastWord(wire, subs, x, wanted) ==
    \/ Nothing(wire, x) /\ (x \in subs <=> wanted)
    \/ \E i \in DOMAIN wire :
         /\ about(wire[i], x) /\ (wire[i].type = "SUBSCRIBE" <=> wanted)
         /\ \A j \in DOMAIN wire : j > i => ~about(wire[j], x)

\* The lines of the configuration that decide, each for its topic.
decides(topics, k) == \A l \in DOMAIN topics : l > k => topics[l].remote_topic # topics[k].remote_topic

Entry == {"SUBSCRIBE", "UNSUBSCRIBE", "PUBLISH", "PINGREQ"}

\* Any packets, in turn.
Queue(q) == Len(q) \in Nat /\ q \in Seq({q[k] : k \in DOMAIN q})

\* A connection that is not accepted yet has CONNECT on its way, or the answer.
Opening(b) ==
    /\ b.state = "new"
    /\ \/ Len(b.wire) = 1 /\ b.wire[1].type = "CONNECT" /\ b.replies = <<>>
       \/ b.wire = <<>> /\ Len(b.replies) = 1 /\ b.replies[1] \in {"accepted", "version", "unavailable"}

Open(b) ==
    /\ b.state = "connected"
    /\ \A i \in DOMAIN b.wire : b.wire[i].type \in Entry
    /\ \A i \in DOMAIN b.replies : b.replies[i] = "PINGRESP"
    /\ \A k \in DOMAIN b.conf.topics :
         decides(b.conf.topics, k) =>
           LastWord(b.wire, b.remote_subs, b.conf.topics[k].remote_topic, comes_in(b.conf.topics[k]))

Connection(b) == b.sock => Queue(b.wire) /\ Queue(b.replies) /\ (Opening(b) \/ Open(b))

\* The will is to be sent for as long as there is a connection.
Notified(b) ==
    b.conf.notifications =>
      /\ b.sock => b.will
      /\ b.state # "disconnecting" => (b.retained = "1" <=> b.sock /\ b.state = "connected")

IsBridge(b) ==
    DOMAIN b = BridgeFields /\ b.conf \in Bridges /\ b.state \in {"new", "connected", "disconnecting"}

BridgeInv ==
    \/ BridgeInit
    \/ bridge.stage = "run" /\ IsBridge(bridge) /\ Connection(bridge) /\ Notified(bridge)
    \/ bridge.stage = "aborted" /\ bridge.conf.start_type = "lazy"

-----------------------------------------------------------------------------
(* Queues.                                                                 *)

\* A place in a queue that has grown.
LEMMA LastOrBefore ==
    ASSUME NEW j \in Nat, NEW k \in 1..(j + 1)
    PROVE  k = j + 1 \/ k \in 1..j
  OBVIOUS

\* A queue is a function on its places.
LEMMA QueuePlaces ==
    ASSUME NEW q, Queue(q)
    PROVE  Len(q) \in Nat /\ DOMAIN q = 1..Len(q)
  BY LenProperties DEF Queue

\* What is a sequence of some set is a queue.
LEMMA QueueOf ==
    ASSUME NEW S, NEW q \in Seq(S)
    PROVE  Queue(q)
<1>1. Len(q) \in Nat /\ DOMAIN q = 1..Len(q) /\ q = [k \in 1..Len(q) |-> q[k]]
  BY LenProperties
<1>2. [k \in 1..Len(q) |-> q[k]] \in Seq({q[k] : k \in DOMAIN q})
  BY <1>1, IsASeq
<1> QED
  BY <1>1, <1>2, Zenon DEF Queue

\* An entry that is added.
LEMMA QueueAppend ==
    ASSUME NEW q, Queue(q), NEW x
    PROVE  /\ Queue(Append(q, x)) /\ DOMAIN Append(q, x) = 1..(Len(q) + 1)
           /\ \A k \in 1..Len(q) : Append(q, x)[k] = q[k]
           /\ Append(q, x)[Len(q) + 1] = x
<1> DEFINE S == {q[k] : k \in DOMAIN q} \cup {x}
<1>1. q \in Seq(S) /\ x \in S
  <2>1. q \in Seq({q[k] : k \in DOMAIN q})
    BY DEF Queue
  <2> QED
    BY <2>1, SeqMonotonic
<1> HIDE DEF S
<1>2. /\ Append(q, x) \in Seq(S) /\ Len(Append(q, x)) = Len(q) + 1
      /\ \A k \in 1..Len(q) : Append(q, x)[k] = q[k]
      /\ Append(q, x)[Len(q) + 1] = x
  BY <1>1, AppendProperties
<1>3. Queue(Append(q, x))
  BY <1>2, QueueOf
<1>4. DOMAIN Append(q, x) = 1..(Len(q) + 1)
  BY <1>2, LenProperties
<1> QED
  BY <1>2, <1>3, <1>4

\* The first entry is taken.
LEMMA QueueTail ==
    ASSUME NEW q, Queue(q), q # <<>>
    PROVE  /\ Queue(Tail(q)) /\ 1 \in DOMAIN q /\ Head(q) = q[1] /\ DOMAIN Tail(q) = 1..(Len(q) - 1)
           /\ Len(q) # 0 /\ Len(Tail(q)) = Len(q) - 1
           /\ \A k \in DOMAIN Tail(q) : k + 1 \in DOMAIN q /\ Tail(q)[k] = q[k + 1]
<1> DEFINE S == {q[k] : k \in DOMAIN q}
<1>1. q \in Seq(S)
  BY DEF Queue
<1> HIDE DEF S
<1>2. Len(q) \in Nat /\ DOMAIN q = 1..Len(q) /\ Len(q) # 0
  BY <1>1, LenProperties, EmptySeq
<1>3. /\ Tail(q) \in Seq(S) /\ Len(Tail(q)) = Len(q) - 1 /\ Head(q) = q[1]
      /\ \A k \in 1..(Len(q) - 1) : Tail(q)[k] = q[k + 1]
  BY <1>1, HeadTailProperties
<1>4. Queue(Tail(q)) /\ DOMAIN Tail(q) = 1..Len(Tail(q))
  BY <1>3, QueueOf, LenProperties
<1> QED
  BY <1>2, <1>3, <1>4

\* Two queues, one after the other.
LEMMA QueueConcat ==
    ASSUME NEW S, NEW s1 \in Seq(S), NEW s2 \in Seq(S)
    PROVE  /\ s1 \o s2 \in Seq(S) /\ Len(s1 \o s2) = Len(s1) + Len(s2)
           /\ \A i \in 1..Len(s1) : (s1 \o s2)[i] = s1[i]
           /\ \A k \in 1..Len(s2) : (s1 \o s2)[Len(s1) + k] = s2[k]
<1>1. Len(s1) \in Nat /\ Len(s2) \in Nat
  BY LenProperties
<1>2. /\ s1 \o s2 \in Seq(S) /\ Len(s1 \o s2) = Len(s1) + Len(s2)
      /\ \A i \in 1..(Len(s1) + Len(s2)) : (s1 \o s2)[i] = IF i <= Len(s1) THEN s1[i] ELSE s2[i - Len(s1)]
  BY ConcatProperties
<1>3. \A i \in 1..Len(s1) : i \in 1..(Len(s1) + Len(s2)) /\ i <= Len(s1)
  BY <1>1
<1>4. \A k \in 1..Len(s2) :
        /\ Len(s1) + k \in 1..(Len(s1) + Len(s2)) /\ ~(Len(s1) + k <= Len(s1))
        /\ (Len(s1) + k) - Len(s1) = k
  BY <1>1
<1> QED
  BY <1>2, <1>3, <1>4

\* Nothing is a queue.
LEMMA QueueNone == Queue(<<>>) /\ DOMAIN <<>> = {} /\ Len(<<>>) = 0
<1>1. <<>> \in Seq({})
  BY EmptySeq
<1>2. Queue(<<>>)
  BY <1>1, QueueOf
<1>3. Len(<<>>) = 0 /\ DOMAIN <<>> = {}
  BY EmptySeq
<1> QED
  BY <1>2, <1>3

-----------------------------------------------------------------------------
(* The last word about a topic.                                            *)

\* A packet about something else does not change it.
LEMMA WordKept ==
    ASSUME NEW wire, Queue(wire), NEW subs, NEW x, NEW wanted, LastWord(wire, subs, x, wanted),
           NEW p, ~about(p, x)
    PROVE  LastWord(Append(wire, p), subs, x, wanted)
<1> DEFINE q == Append(wire, p)
           n == Len(wire)
<1>1. /\ DOMAIN q = 1..(n + 1) /\ DOMAIN wire = 1..n /\ n \in Nat
      /\ \A k \in 1..n : q[k] = wire[k] /\ k \in 1..(n + 1)
      /\ q[n + 1] = p
  <2>1. n \in Nat /\ DOMAIN wire = 1..n
    BY QueuePlaces
  <2>2. \A k \in 1..n : k \in 1..(n + 1)
    BY <2>1
  <2> QED
    BY <2>1, <2>2, QueueAppend
<1> HIDE DEF q, n
<1>2. \A k \in DOMAIN q : k = n + 1 \/ k \in DOMAIN wire
  BY <1>1, LastOrBefore
<1>3. CASE Nothing(wire, x) /\ (x \in subs <=> wanted)
  <2>1. Nothing(q, x)
    BY <1>1, <1>2, <1>3 DEF Nothing
  <2> QED
    BY <1>3, <2>1 DEF LastWord, q
<1>4. ASSUME NEW i \in DOMAIN wire, about(wire[i], x) /\ (wire[i].type = "SUBSCRIBE" <=> wanted),
             \A j \in DOMAIN wire : j > i => ~about(wire[j], x)
      PROVE  LastWord(q, subs, x, wanted)
  <2>1. i \in DOMAIN q /\ q[i] = wire[i]
    BY <1>1
  <2>2. \A j \in DOMAIN q : j > i => ~about(q[j], x)
    BY <1>1, <1>2, <1>4
  <2> QED
    BY <1>4, <2>1, <2>2 DEF LastWord
<1> QED
  BY <1>3, <1>4 DEF LastWord, q

\* The remote broker heeds the first packet.
LEMMA WordHeeded ==
    ASSUME NEW wire, Queue(wire), wire # <<>>, NEW subs, NEW x, NEW wanted, LastWord(wire, subs, x, wanted),
           NEW known,
           wire[1].type = "SUBSCRIBE" => known = subs \cup {wire[1].topic},
           wire[1].type = "UNSUBSCRIBE" => known = subs \ {wire[1].topic},
           wire[1].type \notin {"SUBSCRIBE", "UNSUBSCRIBE"} => known = subs
    PROVE  LastWord(Tail(wire), known, x, wanted)
<1> DEFINE q == Tail(wire)
           n == Len(wire)
<1>1. /\ n \in Nat /\ n # 0 /\ DOMAIN wire = 1..n /\ DOMAIN q = 1..(n - 1)
      /\ \A k \in DOMAIN q : k + 1 \in DOMAIN wire /\ q[k] = wire[k + 1]
  BY QueuePlaces, QueueTail
<1> HIDE DEF q
<1>2. \A i \in DOMAIN wire : i # 1 => i - 1 \in DOMAIN q /\ q[i - 1] = wire[i]
  <2> SUFFICES ASSUME NEW i \in DOMAIN wire, i # 1 PROVE i - 1 \in DOMAIN q /\ q[i - 1] = wire[i]
    OBVIOUS
  <2>1. i - 1 \in 1..(n - 1) /\ (i - 1) + 1 = i
    BY <1>1
  <2> QED
    BY <1>1, <2>1
<1>3. ASSUME \A i \in DOMAIN wire : i > 1 => ~about(wire[i], x),
             IF about(wire[1], x) THEN wire[1].type = "SUBSCRIBE" <=> wanted ELSE x \in subs <=> wanted
      PROVE  LastWord(q, known, x, wanted)
  <2>1. Nothing(q, x)
    <3> SUFFICES ASSUME NEW k \in DOMAIN q PROVE ~about(q[k], x)
      BY DEF Nothing
    <3>1. k + 1 > 1
      BY <1>1
    <3> QED
      BY <1>1, <1>3, <3>1
  <2>2. x \in known <=> wanted
    BY <1>3 DEF about
  <2> QED
    BY <2>1, <2>2 DEF LastWord
<1>4. CASE Nothing(wire, x) /\ (x \in subs <=> wanted)
  <2>1. 1 \in DOMAIN wire
    BY <1>1
  <2> QED
    BY <1>3, <1>4, <2>1 DEF Nothing, q
<1>5. ASSUME NEW i \in DOMAIN wire, about(wire[i], x) /\ (wire[i].type = "SUBSCRIBE" <=> wanted),
             \A j \in DOMAIN wire : j > i => ~about(wire[j], x)
      PROVE  LastWord(q, known, x, wanted)
  <2>1. CASE i = 1
    BY <1>3, <1>5, <2>1
  <2>2. CASE i # 1
    <3>1. i - 1 \in DOMAIN q /\ q[i - 1] = wire[i]
      BY <1>2, <2>2
    <3>2. \A j \in DOMAIN q : j > i - 1 => ~about(q[j], x)
      <4> SUFFICES ASSUME NEW j \in DOMAIN q, j > i - 1 PROVE ~about(q[j], x)
        OBVIOUS
      <4>1. j + 1 > i
        BY <1>1
      <4> QED
        BY <1>1, <1>5, <4>1
    <3> QED
      BY <1>5, <3>1, <3>2 DEF LastWord
  <2> QED
    BY <2>1, <2>2
<1> QED
  BY <1>4, <1>5 DEF LastWord, q

-----------------------------------------------------------------------------
(* The steps.                                                              *)

BridgeBut(p, q, F) == DOMAIN q = BridgeFields /\ \A f \in BridgeFields \ F : q[f] = p[f]

\* What holds of a bridge whose broker runs.
Sound(b) == IsBridge(b) /\ Connection(b) /\ Notified(b)

\* A new connection.
LEMMA ConnectSound ==
    ASSUME NEW b, DOMAIN b = BridgeFields, b.conf \in Bridges
    PROVE  LET c == mqtt3_bridge_connect(b).b
           IN Sound(c) /\ c.stage = b.stage /\ c.conf = b.conf
<1> DEFINE fresh == [b EXCEPT !.state = "new", !.sock = FALSE, !.ping_t = FALSE, !.silence = FALSE,
                              !.idle = FALSE, !.lazy_reconnect = FALSE, !.wire = <<>>, !.replies = <<>>,
                              !.dead = FALSE,
                              !.msgs = IF b.conf.clean_session THEN 0 ELSE @,
                              !.local_subs = {t.local_topic : t \in {u \in ToSet(b.conf.topics) : goes_out(u)}},
                              !.retained = IF b.conf.notifications THEN "0" ELSE @,
                              !.will = @ \/ b.conf.notifications]
           connect == [type |-> "CONNECT", private |-> b.conf.try_private /\ b.try_private_accepted]
           c == mqtt3_bridge_connect(b).b
<1>1. /\ DOMAIN fresh = BridgeFields /\ fresh.conf = b.conf /\ fresh.stage = b.stage /\ fresh.state = "new"
      /\ fresh.sock = FALSE /\ fresh.wire = <<>> /\ fresh.replies = <<>>
      /\ fresh.retained = (IF b.conf.notifications THEN "0" ELSE b.retained)
      /\ fresh.will = (b.will \/ b.conf.notifications)
  BY DEF BridgeFields
<1>2. c = fresh \/ c = [fresh EXCEPT !.sock = TRUE, !.wire = <<connect>>]
  <2> HIDE DEF connect, fresh
  <2>1. mqtt3_bridge_connect(b) = IF b.cur_address \in b.down THEN [rc |-> 1, b |-> fresh]
                                 ELSE [rc |-> 0, b |-> [fresh EXCEPT !.sock = TRUE, !.wire = <<connect>>]]
    BY DEF mqtt3_bridge_connect, fresh, connect
  <2> QED
    BY <2>1
<1> HIDE DEF c, fresh
<1>3. connect.type = "CONNECT"
  OBVIOUS
<1>4. Queue(<<connect>>) /\ Len(<<connect>>) = 1 /\ <<connect>>[1] = connect
  <2> HIDE DEF connect
  <2>1. <<connect>> \in Seq({connect})
    OBVIOUS
  <2> QED
    BY <2>1, QueueOf
<1> HIDE DEF connect
<1>5. /\ DOMAIN c = BridgeFields /\ c.conf = b.conf /\ c.stage = b.stage /\ c.state = "new"
      /\ c.replies = <<>> /\ c.retained = fresh.retained /\ c.will = fresh.will
      /\ c.sock => c.wire = <<connect>>
  <2>1. CASE c = fresh
    BY <1>1, <2>1
  <2>2. CASE c = [fresh EXCEPT !.sock = TRUE, !.wire = <<connect>>]
    BY <1>1, <2>2 DEF BridgeFields
  <2> QED
    BY <1>2, <2>1, <2>2
<1>6. IsBridge(c)
  BY <1>5 DEF IsBridge
<1>7. Connection(c)
  BY <1>3, <1>4, <1>5, QueueNone DEF Connection, Opening
<1>8. Notified(c)
  BY <1>1, <1>5 DEF Notified
<1> QED
  BY <1>5, <1>6, <1>7, <1>8 DEF Sound, c

\* The end of a connection.
LEMMA DisconnectSound ==
    ASSUME NEW b, IsBridge(b), b.conf.notifications /\ b.state # "disconnecting" => b.will \/ b.retained # "1"
    PROVE  LET c == mqtt3_context_disconnect(b)
           IN Sound(c) /\ c.stage = b.stage /\ c.conf = b.conf /\ ~c.sock
<1> DEFINE c == mqtt3_context_disconnect(b)
<1>1. /\ BridgeBut(b, c, {"sock", "will", "retained"}) /\ c.sock = FALSE
      /\ c.retained = IF b.state # "disconnecting" /\ b.will THEN "0" ELSE b.retained
  BY DEF mqtt3_context_disconnect, IsBridge, BridgeBut, BridgeFields
<1> HIDE DEF c
<1>2. c.stage = b.stage /\ c.conf = b.conf /\ c.state = b.state
  BY <1>1 DEF BridgeBut, BridgeFields
<1>3. IsBridge(c)
  BY <1>1, <1>2 DEF IsBridge, BridgeBut
<1>4. Notified(c)
  BY <1>1, <1>2 DEF Notified
<1> QED
  BY <1>1, <1>2, <1>3, <1>4 DEF Sound, Connection, c

\* A sound bridge has told what is the case, or will.
LEMMA WillOrTold ==
    ASSUME NEW b, Sound(b), b.conf.notifications, b.state # "disconnecting"
    PROVE  b.will \/ b.retained # "1"
  BY DEF Sound, Notified

\* What does not concern the connection leaves a bridge sound.
LEMMA SoundKept ==
    ASSUME NEW b, NEW c, Sound(b),
           BridgeBut(b, c, {"stage", "cur_address", "primary_retry", "restart_t", "lazy_reconnect", "ping_t", "silence",
                          "idle", "msgs", "local_subs", "down", "dead", "faults"})
    PROVE  Sound(c) /\ c.conf = b.conf /\ c.sock = b.sock
<1>1. /\ c.conf = b.conf /\ c.state = b.state /\ c.sock = b.sock /\ c.will = b.will /\ c.retained = b.retained
      /\ c.wire = b.wire /\ c.replies = b.replies /\ c.remote_subs = b.remote_subs /\ DOMAIN c = BridgeFields
  BY DEF BridgeBut, BridgeFields
<1>2. IsBridge(c)
  BY <1>1 DEF Sound, IsBridge
<1>3. Connection(c)
  BY <1>1 DEF Sound, Connection, Opening, Open
<1>4. Notified(c)
  BY <1>1 DEF Sound, Notified
<1> QED
  BY <1>1, <1>2, <1>3, <1>4 DEF Sound

\* A pass of the main loop with an open socket.
LEMMA WithSocketSound ==
    ASSUME NEW b, Sound(b), b.sock
    PROVE  Sound(with_socket(b)) /\ with_socket(b).stage = b.stage /\ with_socket(b).conf = b.conf
<1> DEFINE k == _mosquitto_check_keepalive(b)
           c == primary_check(k)
           packet == [type |-> "PINGREQ"]
<1>1. /\ BridgeBut(b, k, {"sock", "silence", "idle", "ping_t", "wire"})
      /\ k.sock => \/ k.wire = b.wire
                   \/ b.state = "connected" /\ k.wire = Append(b.wire, packet)
      /\ k.sock => k.sock = b.sock
  <2> HIDE DEF packet
  <2>1. \/ k = [b EXCEPT !.sock = FALSE]
        \/ k = b
        \/ /\ b.state = "connected"
           /\ k = [b EXCEPT !.silence = FALSE, !.idle = FALSE, !.ping_t = TRUE, !.wire = Append(@, packet)]
    BY DEF _mosquitto_check_keepalive, packet
  <2> HIDE DEF k
  <2> QED
    BY <2>1 DEF Sound, IsBridge, BridgeBut, BridgeFields
<1> HIDE DEF k
<1>2. /\ BridgeBut(b, c, {"sock", "silence", "idle", "ping_t", "wire", "cur_address"})
      /\ c.sock => \/ c.wire = b.wire
                   \/ b.state = "connected" /\ c.wire = Append(b.wire, packet)
  <2>1. c = k \/ c = [k EXCEPT !.sock = FALSE, !.cur_address = k.conf.address_count - 1]
    BY DEF primary_check
  <2> HIDE DEF c, packet
  <2> QED
    BY <1>1, <2>1 DEF BridgeBut, BridgeFields
<1>3. with_socket(b) = IF ~c.sock THEN mqtt3_context_disconnect(c)
                       ELSE [c EXCEPT !.msgs = 0, !.idle = @ /\ c.msgs = 0]
  BY DEF with_socket, k
<1> HIDE DEF c
<1>4. /\ c.stage = b.stage /\ c.conf = b.conf /\ c.state = b.state /\ c.will = b.will /\ c.retained = b.retained
      /\ c.replies = b.replies /\ c.remote_subs = b.remote_subs /\ DOMAIN c = BridgeFields
  BY <1>2 DEF BridgeBut, BridgeFields
<1>5. IsBridge(c)
  BY <1>4 DEF Sound, IsBridge
<1>6. CASE ~c.sock
  <2>1. c.conf.notifications /\ c.state # "disconnecting" => c.will \/ c.retained # "1"
    BY <1>4, WillOrTold
  <2> QED
    BY <1>3, <1>4, <1>5, <1>6, <2>1, DisconnectSound
<1>7. CASE c.sock
  <2> DEFINE d == with_socket(b)
  <2>1. d = [c EXCEPT !.msgs = 0, !.idle = @ /\ c.msgs = 0]
    BY <1>3, <1>7
  <2> HIDE DEF d
  <2>2. BridgeBut(c, d, {"msgs", "idle"})
    BY <1>4, <2>1 DEF BridgeBut, BridgeFields
  <2>3. Connection(c)
    <3>1. Queue(b.wire) /\ Queue(b.replies) /\ (Opening(b) \/ Open(b))
      BY DEF Sound, Connection
    <3>2. CASE c.wire = b.wire
      BY <1>4, <3>1, <3>2 DEF Connection, Opening, Open
    <3>3. CASE b.state = "connected" /\ c.wire = Append(b.wire, packet)
      <4>1. /\ Queue(c.wire)
            /\ \A i \in DOMAIN c.wire : c.wire[i] = packet \/ (i \in DOMAIN b.wire /\ c.wire[i] = b.wire[i])
        <5> HIDE DEF packet
        <5>1. /\ Queue(c.wire) /\ DOMAIN c.wire = 1..(Len(b.wire) + 1) /\ DOMAIN b.wire = 1..Len(b.wire) /\ Len(b.wire) \in Nat
              /\ \A i \in 1..Len(b.wire) : c.wire[i] = b.wire[i]
              /\ c.wire[Len(b.wire) + 1] = packet
          BY <3>1, <3>3, QueueAppend, QueuePlaces
        <5>2. \A i \in DOMAIN c.wire : i = Len(b.wire) + 1 \/ i \in 1..Len(b.wire)
          BY <5>1, LastOrBefore, Zenon
        <5> QED
          BY <5>1, <5>2
      <4>2. Open(b)
        BY <3>1, <3>3 DEF Opening
      <4>3. \A i \in DOMAIN c.wire : c.wire[i].type \in Entry
        BY <4>1, <4>2 DEF Open, Entry
      <4>4. ASSUME NEW n \in DOMAIN b.conf.topics, decides(b.conf.topics, n)
            PROVE  LastWord(c.wire, c.remote_subs, b.conf.topics[n].remote_topic, comes_in(b.conf.topics[n]))
        <5>1. LastWord(b.wire, b.remote_subs, b.conf.topics[n].remote_topic, comes_in(b.conf.topics[n]))
          BY <4>2, <4>4 DEF Open
        <5>2. ~about(packet, b.conf.topics[n].remote_topic)
          BY DEF about
        <5> HIDE DEF packet
        <5> QED
          BY <1>4, <3>1, <3>3, <5>1, <5>2, WordKept
      <4>5. Open(c)
        BY <1>4, <4>2, <4>3, <4>4 DEF Open
      <4> QED
        BY <1>4, <3>1, <4>1, <4>5 DEF Connection
    <3> QED
      BY <1>2, <1>7, <3>2, <3>3
  <2>4. Notified(c)
    BY <1>4, <1>7 DEF Sound, Notified
  <2>5. Sound(d) /\ d.conf = c.conf
    BY <1>5, <2>2, <2>3, <2>4, SoundKept DEF Sound, BridgeBut
  <2>6. d.stage = c.stage
    BY <2>2 DEF BridgeBut, BridgeFields
  <2> QED
    BY <1>4, <2>5, <2>6 DEF d
<1> QED
  BY <1>6, <1>7

\* A pass without one.  Only for a lazy bridge poll does not look at the new socket.
LEMMA WithoutSocketSound ==
    ASSUME NEW b, Sound(b), ~b.sock
    PROVE  LET w == without_socket(b)
           IN /\ Sound(w.b) /\ w.b.stage = b.stage /\ w.b.conf = b.conf
              /\ ~w.polled => b.conf.start_type = "lazy"
<1> DEFINE w == without_socket(b)
           rest == [b EXCEPT !.restart_t = "0"]
<1>1. /\ DOMAIN b = BridgeFields /\ b.conf \in Bridges
      /\ DOMAIN rest = BridgeFields /\ rest.conf = b.conf /\ rest.stage = b.stage
  BY DEF Sound, IsBridge, BridgeFields
<1>2. ASSUME NEW c, c \in {b, rest}, NEW d,
             BridgeBut(mqtt3_bridge_connect(c).b, d, {"cur_address", "restart_t"})
      PROVE  Sound(d) /\ d.stage = b.stage /\ d.conf = b.conf
  <2> DEFINE e == mqtt3_bridge_connect(c).b
  <2>1. Sound(e) /\ e.stage = b.stage /\ e.conf = b.conf
    BY <1>1, <1>2, ConnectSound
  <2> HIDE DEF e
  <2>2. d.stage = e.stage /\ BridgeBut(e, d, {"stage", "cur_address", "primary_retry", "restart_t", "lazy_reconnect", "ping_t", "silence",
                          "idle", "msgs", "local_subs", "down", "dead", "faults"})
    BY <1>2 DEF e, BridgeBut, BridgeFields
  <2> QED
    BY <2>1, <2>2, SoundKept
<1>3. ASSUME NEW c, c \in {b, rest}
      PROVE  DOMAIN mqtt3_bridge_connect(c).b = BridgeFields
  BY <1>1, <1>3, ConnectSound DEF Sound, IsBridge
<1>4. CASE w.b = note_restart(b) /\ w.polled
  <2>1. BridgeBut(b, w.b, {"restart_t", "cur_address", "primary_retry"})
    <3> HIDE DEF w
    <3> QED
      BY <1>1, <1>4 DEF note_restart, BridgeBut, BridgeFields
  <2> HIDE DEF w
  <2>2. BridgeBut(b, w.b, {"stage", "cur_address", "primary_retry", "restart_t", "lazy_reconnect", "ping_t", "silence",
                         "idle", "msgs", "local_subs", "down", "dead", "faults"}) /\ w.b.stage = b.stage
    BY <2>1 DEF BridgeBut, BridgeFields
  <2>3. Sound(w.b) /\ w.b.conf = b.conf
    BY <2>2, SoundKept
  <2> QED
    BY <1>4, <2>2, <2>3 DEF w
<1>5. CASE b.conf.start_type = "lazy" /\ w = lazy_restart(b)
  <2> DEFINE try == mqtt3_bridge_connect(b)
  <2>1. w.b = try.b \/ w.b = [try.b EXCEPT !.cur_address = next_address(b)]
    BY <1>5 DEF lazy_restart
  <2>2. DOMAIN try.b = BridgeFields
    BY <1>3
  <2>3. BridgeBut(try.b, w.b, {"cur_address", "restart_t"})
    <3> HIDE DEF w, try
    <3> QED
      BY <2>1, <2>2 DEF BridgeBut, BridgeFields
  <2> HIDE DEF w
  <2>4. Sound(w.b) /\ w.b.stage = b.stage /\ w.b.conf = b.conf
    BY <1>2, <2>3
  <2> QED
    BY <1>5, <2>4 DEF w
<1>6. CASE w = automatic_restart(b)
  <2> DEFINE try == mqtt3_bridge_connect(rest)
  <2>1. w.polled /\ (w.b = try.b \/ w.b = [try.b EXCEPT !.restart_t = "wait", !.cur_address = next_address(b)])
    BY <1>6 DEF automatic_restart
  <2>2. DOMAIN try.b = BridgeFields
    BY <1>3
  <2>3. BridgeBut(try.b, w.b, {"cur_address", "restart_t"})
    <3> HIDE DEF w, try
    <3> QED
      BY <2>1, <2>2 DEF BridgeBut, BridgeFields
  <2> HIDE DEF w
  <2>4. Sound(w.b) /\ w.b.stage = b.stage /\ w.b.conf = b.conf
    BY <1>2, <2>3
  <2> QED
    BY <2>1, <2>4 DEF w
<1>7. CASE w = [polled |-> TRUE, b |-> b]
  BY <1>7
<1>8. \/ w.b = note_restart(b) /\ w.polled
      \/ b.conf.start_type = "lazy" /\ w = lazy_restart(b)
      \/ w = automatic_restart(b)
      \/ w = [polled |-> TRUE, b |-> b]
  BY DEF without_socket
<1> QED
  BY <1>4, <1>5, <1>6, <1>7, <1>8

\* The answer to CONNECT: what is sent to an accepted bridge has, of each topic, the
\* line that decides as the last word.
LEMMA ConnackSound ==
    ASSUME NEW b, IsBridge(b), Notified(b), b.sock, b.state = "new", b.wire = <<>>, Queue(b.replies), b.replies = <<>>,
           NEW rc
    PROVE  LET c == mqtt3_handle_connack(b, rc)
           IN Sound(c) /\ c.stage = b.stage /\ c.conf = b.conf
<1> DEFINE topics == b.conf.topics
           n == Len(topics)
           request(t) == [type |-> IF comes_in(t) THEN "SUBSCRIBE" ELSE "UNSUBSCRIBE", topic |-> t.remote_topic]
           requests == [k \in DOMAIN topics |-> request(topics[k])]
           published == [type |-> "PUBLISH"]
           notification == IF b.conf.notifications THEN <<published>> ELSE <<>>
           c == mqtt3_handle_connack(b, rc)
<1>1. n \in Nat /\ DOMAIN topics = 1..n
  BY BridgesAssumption DEF IsBridge
<1>2. CASE rc = "accepted"
  <2>1. c = [b EXCEPT !.state = "connected",
                      !.retained = IF b.conf.notifications THEN "1" ELSE @,
                      !.wire = (@ \o notification) \o requests]
    BY <1>2 DEF mqtt3_handle_connack
  <2>2. /\ BridgeBut(b, c, {"state", "retained", "wire"}) /\ c.state = "connected"
        /\ c.retained = (IF b.conf.notifications THEN "1" ELSE b.retained)
        /\ c.wire = (b.wire \o notification) \o requests
    <3> HIDE DEF notification, requests, c
    <3> QED
      BY <2>1 DEF IsBridge, BridgeBut, BridgeFields
  <2> DEFINE m == Len(notification)
  <2>3. /\ m \in Nat /\ notification \in Seq({published}) /\ DOMAIN notification = 1..m
        /\ \A i \in 1..m : notification[i] = published
    <3>1. <<published>> \in Seq({published}) /\ <<>> \in Seq({published}) /\ <<published>>[1] = published
          /\ Len(<<published>>) = 1 /\ Len(<<>>) = 0
      <4> HIDE DEF published
      <4> QED
        OBVIOUS
    <3> HIDE DEF published
    <3>2. notification \in Seq({published})
      BY <3>1
    <3> HIDE DEF notification
    <3> QED
      BY <3>2, LenProperties, ElementOfSeq
  <2>4. /\ requests \in Seq({request(topics[k]) : k \in 1..n}) /\ Len(requests) = n
        /\ \A k \in 1..n : requests[k] = request(topics[k])
    <3> DEFINE S == {request(topics[k]) : k \in 1..n}
    <3> HIDE DEF request
    <3>1. requests \in [1..n -> S]
      BY <1>1
    <3>2. \A k \in 1..n : requests[k] = request(topics[k])
      BY <1>1
    <3> HIDE DEF requests, S
    <3>3. requests \in Seq(S) /\ Len(requests) = n
      BY <1>1, <3>1, IsASeq, LenProperties
    <3> QED
      BY <3>2, <3>3 DEF S
  <2> HIDE DEF notification, requests
  <2> DEFINE T == {published} \cup {request(topics[k]) : k \in 1..n}
  <2>5. /\ c.wire \in Seq(T) /\ Len(c.wire) = m + n
        /\ \A i \in 1..m : c.wire[i] = published
        /\ \A k \in 1..n : c.wire[m + k] = request(topics[k])
    <3> HIDE DEF published, request
    <3>1. notification \in Seq(T) /\ requests \in Seq(T)
      BY <2>3, <2>4, SeqMonotonic
    <3> HIDE DEF T
    <3>2. b.wire \o notification = notification
      BY <3>1, ConcatEmptySeq
    <3>3. c.wire = notification \o requests
      BY <2>2, <3>2
    <3>4. /\ notification \o requests \in Seq(T) /\ Len(notification \o requests) = m + Len(requests)
          /\ \A i \in 1..m : (notification \o requests)[i] = notification[i]
          /\ \A k \in 1..Len(requests) : (notification \o requests)[m + k] = requests[k]
      BY <3>1, QueueConcat
    <3>5. Len(requests) = n
      BY <2>4
    <3>6. c.wire \in Seq(T) /\ Len(c.wire) = m + n
      BY <3>3, <3>4, <3>5, Zenon
    <3>7. \A i \in 1..m : c.wire[i] = published
      BY <2>3, <3>3, <3>4, Zenon
    <3>8. \A k \in 1..n : c.wire[m + k] = request(topics[k])
      BY <2>4, <3>3, <3>4, <3>5, Zenon
    <3> QED
      BY <3>6, <3>7, <3>8
  <2>6. Queue(c.wire) /\ DOMAIN c.wire = 1..(m + n)
    <3> HIDE DEF T
    <3> QED
      BY <2>5, QueueOf, LenProperties
  <2>7. \A i \in DOMAIN c.wire : i \in 1..m \/ \E k \in 1..n : i = m + k
    <3> SUFFICES ASSUME NEW i \in 1..(m + n), i \notin 1..m PROVE \E k \in 1..n : i = m + k
      BY <2>6
    <3>1. i - m \in 1..n /\ i = m + (i - m)
      BY <1>1, <2>3
    <3> QED
      BY <3>1
  <2> HIDE DEF c, m, n
  <2>8. \A i \in DOMAIN c.wire : c.wire[i].type \in Entry
    <3>1. published.type \in Entry /\ \A k \in 1..n : request(topics[k]).type \in Entry
      BY DEF Entry
    <3> HIDE DEF published, request
    <3> QED
      BY <2>5, <2>7, <3>1
  <2>9. ASSUME NEW k \in DOMAIN topics, decides(topics, k)
        PROVE  LastWord(c.wire, c.remote_subs, topics[k].remote_topic, comes_in(topics[k]))
    <3> DEFINE x == topics[k].remote_topic
    <3>1. k \in 1..n /\ m + k \in 1..(m + n)
      BY <1>1, <2>3
    <3>2. /\ about(request(topics[k]), x)
          /\ request(topics[k]).type = "SUBSCRIBE" <=> comes_in(topics[k])
      BY DEF about
    <3>3. about(c.wire[m + k], x) /\ (c.wire[m + k].type = "SUBSCRIBE" <=> comes_in(topics[k]))
      <4> HIDE DEF request
      <4> QED
        BY <2>5, <3>1, <3>2
    <3>4. ASSUME NEW j \in DOMAIN c.wire, j > m + k
          PROVE  ~about(c.wire[j], x)
      <4>1. PICK l \in 1..n : j = m + l
        <5>1. j \notin 1..m
          BY <1>1, <2>3, <3>1, <3>4
        <5> QED
          BY <2>7, <5>1
      <4>2. l > k
        BY <1>1, <2>3, <3>1, <3>4, <4>1
      <4>3. topics[l].remote_topic # x
        BY <1>1, <2>9, <4>2 DEF decides
      <4>4. ~about(request(topics[l]), x)
        BY <4>3 DEF about
      <4>5. c.wire[j] = request(topics[l])
        <5> HIDE DEF request
        <5> QED
          BY <2>5, <4>1
      <4> QED
        BY <4>4, <4>5
    <3> HIDE DEF x
    <3> QED
      BY <2>6, <3>1, <3>3, <3>4 DEF LastWord, x
  <2>10. c.replies = <<>> /\ c.conf = b.conf /\ c.stage = b.stage /\ c.will = b.will /\ c.sock = b.sock
         /\ DOMAIN c = BridgeFields
    BY <2>2 DEF BridgeBut, BridgeFields
  <2>11. Open(c)
    BY <2>2, <2>8, <2>9, <2>10 DEF Open
  <2>12. Connection(c)
    BY <2>6, <2>10, <2>11, QueueNone DEF Connection
  <2>13. Notified(c) /\ IsBridge(c)
    BY <2>2, <2>10 DEF Notified, IsBridge
  <2> QED
    BY <2>10, <2>12, <2>13 DEF Sound, c
<1>3. CASE rc # "accepted"
  <2> DEFINE d == [b EXCEPT !.try_private_accepted = FALSE]
  <2>1. c = mqtt3_context_disconnect(d) \/ c = mqtt3_context_disconnect(b)
    BY <1>3 DEF mqtt3_handle_connack
  <2>2. BridgeBut(b, d, {"try_private_accepted"})
    BY DEF BridgeBut, IsBridge, BridgeFields
  <2> HIDE DEF d, c
  <2>3. IsBridge(d) /\ d.conf = b.conf /\ d.stage = b.stage /\ d.will = b.will /\ d.retained = b.retained /\ d.state = b.state
    BY <2>2 DEF BridgeBut, IsBridge, BridgeFields
  <2>4. b.conf.notifications /\ b.state # "disconnecting" => b.will \/ b.retained # "1"
    BY DEF Notified
  <2>5. CASE c = mqtt3_context_disconnect(d)
    BY <2>3, <2>4, <2>5, DisconnectSound DEF c
  <2>6. CASE c = mqtt3_context_disconnect(b)
    BY <2>4, <2>6, DisconnectSound DEF c
  <2> QED
    BY <2>1, <2>5, <2>6
<1> QED
  BY <1>2, <1>3

\* A packet of the remote broker is read.
LEMMA ReadSound ==
    ASSUME Sound(bridge), bridge.stage = "run", Read
    PROVE  Sound(bridge') /\ bridge'.stage = "run"
<1> DEFINE b == [bridge EXCEPT !.replies = Tail(@)]
<1>1. /\ bridge.sock /\ bridge.replies # <<>>
      /\ bridge' = IF Head(bridge.replies) = "PINGRESP" THEN [b EXCEPT !.ping_t = FALSE]
                  ELSE mqtt3_handle_connack(b, Head(bridge.replies))
  BY DEF Read
<1>2. BridgeBut(bridge, b, {"replies"}) /\ b.replies = Tail(bridge.replies)
  BY DEF Sound, IsBridge, BridgeBut, BridgeFields
<1>3. Queue(bridge.wire) /\ Queue(bridge.replies) /\ (Opening(bridge) \/ Open(bridge))
  BY <1>1 DEF Sound, Connection
<1>4. /\ Queue(Tail(bridge.replies)) /\ Head(bridge.replies) = bridge.replies[1] /\ 1 \in DOMAIN bridge.replies
      /\ Len(bridge.replies) # 0 /\ Len(Tail(bridge.replies)) = Len(bridge.replies) - 1
      /\ DOMAIN Tail(bridge.replies) = 1..(Len(bridge.replies) - 1)
      /\ \A k \in DOMAIN Tail(bridge.replies) :
           k + 1 \in DOMAIN bridge.replies /\ Tail(bridge.replies)[k] = bridge.replies[k + 1]
  BY <1>1, <1>3, QueueTail
<1> HIDE DEF b
<1>5. /\ b.conf = bridge.conf /\ b.stage = bridge.stage /\ b.state = bridge.state /\ b.sock = bridge.sock
      /\ b.wire = bridge.wire /\ b.will = bridge.will /\ b.retained = bridge.retained
      /\ b.remote_subs = bridge.remote_subs /\ DOMAIN b = BridgeFields
  BY <1>2 DEF BridgeBut, BridgeFields
<1>6. IsBridge(b) /\ Notified(b)
  BY <1>5 DEF Sound, IsBridge, Notified
<1>7. CASE Opening(bridge)
  <2>1. bridge.wire = <<>> /\ Len(bridge.replies) = 1 /\ Head(bridge.replies) # "PINGRESP" /\ bridge.state = "new"
    BY <1>1, <1>4, <1>7, EmptySeq DEF Opening
  <2>2. Tail(bridge.replies) = <<>>
    <3>1. DOMAIN Tail(bridge.replies) = {} /\ Len(Tail(bridge.replies)) = 0
      BY <1>4, <2>1
    <3>2. Tail(bridge.replies) \in Seq({Tail(bridge.replies)[k] : k \in DOMAIN Tail(bridge.replies)})
      BY <1>4 DEF Queue
    <3> QED
      BY <3>1, <3>2, EmptySeq
  <2>3. Queue(b.replies) /\ b.replies = <<>>
    BY <1>2, <2>2, QueueNone
  <2>4. bridge' = mqtt3_handle_connack(b, Head(bridge.replies))
    BY <1>1, <2>1
  <2> QED
    BY <1>1, <1>5, <1>6, <2>1, <2>3, <2>4, ConnackSound
<1>8. CASE Open(bridge)
  <2>1. bridge' = [b EXCEPT !.ping_t = FALSE]
    BY <1>1, <1>4, <1>8 DEF Open
  <2>2. Open(b)
    BY <1>2, <1>4, <1>5, <1>8 DEF Open
  <2>3. Sound(b)
    BY <1>2, <1>3, <1>4, <1>5, <1>6, <2>2 DEF Sound, Connection
  <2>4. BridgeBut(b, bridge', {"stage", "cur_address", "primary_retry", "restart_t", "lazy_reconnect", "ping_t", "silence",
                             "idle", "msgs", "local_subs", "down", "dead", "faults"}) /\ bridge'.stage = b.stage
    BY <1>5, <2>1 DEF BridgeBut, BridgeFields
  <2> QED
    BY <1>5, <2>3, <2>4, SoundKept
<1> QED
  BY <1>3, <1>7, <1>8

\* The remote broker takes a packet.
LEMMA RemoteSound ==
    ASSUME Sound(bridge), bridge.stage = "run", RemoteReads
    PROVE  Sound(bridge') /\ bridge'.stage = "run"
<1> DEFINE p == Head(bridge.wire)
           b == [bridge EXCEPT !.wire = Tail(@)]
           answers == {"accepted", "version", "unavailable"}
<1>1. bridge.sock /\ bridge.wire # <<>>
  BY DEF RemoteReads
<1>2. BridgeBut(bridge, b, {"wire"}) /\ b.wire = Tail(bridge.wire)
  BY DEF Sound, IsBridge, BridgeBut, BridgeFields
<1>3. Queue(bridge.wire) /\ Queue(bridge.replies) /\ (Opening(bridge) \/ Open(bridge))
  BY <1>1 DEF Sound, Connection
<1>4. /\ Queue(Tail(bridge.wire)) /\ p = bridge.wire[1] /\ 1 \in DOMAIN bridge.wire
      /\ Len(bridge.wire) # 0 /\ Len(Tail(bridge.wire)) = Len(bridge.wire) - 1
      /\ DOMAIN Tail(bridge.wire) = 1..(Len(bridge.wire) - 1)
      /\ \A k \in DOMAIN Tail(bridge.wire) :
           k + 1 \in DOMAIN bridge.wire /\ Tail(bridge.wire)[k] = bridge.wire[k + 1]
  BY <1>1, <1>3, QueueTail
<1>5. CASE Opening(bridge)
  <2>1. /\ p.type = "CONNECT" /\ Len(bridge.wire) = 1 /\ bridge.replies = <<>> /\ bridge.state = "new"
    BY <1>1, <1>4, <1>5, EmptySeq DEF Opening
  <2>2. Tail(bridge.wire) = <<>>
    <3>1. DOMAIN Tail(bridge.wire) = {} /\ Len(Tail(bridge.wire)) = 0
      BY <1>4, <2>1
    <3>2. Tail(bridge.wire) \in Seq({Tail(bridge.wire)[k] : k \in DOMAIN Tail(bridge.wire)})
      BY <1>4 DEF Queue
    <3> QED
      BY <3>1, <3>2, EmptySeq
  <2>3. PICK r \in answers :
          \/ bridge' = [b EXCEPT !.replies = Append(@, r)]
          \/ bridge' = [[b EXCEPT !.replies = Append(@, r)] EXCEPT !.remote_subs = IF b.conf.clean_session THEN {} ELSE @]
          \/ bridge' = [[b EXCEPT !.replies = Append(@, r)] EXCEPT !.faults = @ + 1]
    BY <2>1 DEF RemoteReads
  <2> HIDE DEF b, p
  <2>4. b.replies = <<>>
    BY <1>2, <2>1 DEF BridgeBut, BridgeFields
  <2>5. BridgeBut(b, bridge', {"replies", "remote_subs", "faults"}) /\ bridge'.replies = Append(<<>>, r)
    BY <1>2, <2>3, <2>4 DEF BridgeBut, BridgeFields
  <2>6. Queue(bridge'.replies) /\ Len(bridge'.replies) = 1 /\ bridge'.replies[1] \in answers
    <3>1. Append(<<>>, r) \in Seq(answers) /\ Len(Append(<<>>, r)) = 1 /\ Append(<<>>, r)[1] = r
      <4>1. <<>> \in Seq(answers) /\ Len(<<>>) = 0
        BY EmptySeq
      <4>2. r \in answers
        OBVIOUS
      <4> HIDE DEF answers
      <4> QED
        BY <4>1, <4>2, AppendProperties
    <3> HIDE DEF answers
    <3> QED
      BY <2>5, <3>1, QueueOf
  <2>7. /\ bridge'.wire = <<>> /\ bridge'.conf = bridge.conf /\ bridge'.stage = bridge.stage /\ bridge'.state = "new"
        /\ bridge'.sock = bridge.sock /\ bridge'.will = bridge.will /\ bridge'.retained = bridge.retained
        /\ DOMAIN bridge' = BridgeFields
    BY <1>2, <2>1, <2>2, <2>5 DEF BridgeBut, BridgeFields
  <2>8. Connection(bridge')
    BY <2>6, <2>7, QueueNone DEF Connection, Opening
  <2>9. IsBridge(bridge') /\ Notified(bridge')
    BY <2>1, <2>7 DEF Sound, IsBridge, Notified
  <2> QED
    BY <2>7, <2>8, <2>9 DEF Sound
<1>6. CASE Open(bridge)
  <2>1. p.type \in Entry
    BY <1>4, <1>6 DEF Open
  <2>2. /\ p.type = "SUBSCRIBE" => bridge' = [b EXCEPT !.remote_subs = @ \cup {p.topic}]
        /\ p.type = "UNSUBSCRIBE" => bridge' = [b EXCEPT !.remote_subs = @ \ {p.topic}]
        /\ p.type = "PINGREQ" => bridge' = [b EXCEPT !.replies = Append(@, "PINGRESP")]
        /\ p.type = "PUBLISH" => bridge' = b
    <3>1. CASE p.type = "SUBSCRIBE"
      BY <3>1 DEF RemoteReads
    <3>2. CASE p.type = "UNSUBSCRIBE"
      BY <3>2 DEF RemoteReads
    <3>3. CASE p.type = "PINGREQ"
      BY <3>3 DEF RemoteReads
    <3>4. CASE p.type = "PUBLISH"
      BY <3>4 DEF RemoteReads
    <3> QED
      BY <2>1, <3>1, <3>2, <3>3, <3>4 DEF Entry
  <2> HIDE DEF b
  <2>3. /\ BridgeBut(b, bridge', {"remote_subs", "replies"})
        /\ bridge'.replies = IF p.type = "PINGREQ" THEN Append(b.replies, "PINGRESP") ELSE b.replies
        /\ p.type = "SUBSCRIBE" => bridge'.remote_subs = b.remote_subs \cup {p.topic}
        /\ p.type = "UNSUBSCRIBE" => bridge'.remote_subs = b.remote_subs \ {p.topic}
        /\ p.type \notin {"SUBSCRIBE", "UNSUBSCRIBE"} => bridge'.remote_subs = b.remote_subs
    <3> HIDE DEF p
    <3> QED
      BY <1>2, <2>1, <2>2 DEF BridgeBut, BridgeFields, Entry
  <2>4. /\ bridge'.wire = Tail(bridge.wire) /\ bridge'.conf = bridge.conf /\ bridge'.stage = bridge.stage
        /\ bridge'.state = bridge.state /\ bridge'.sock = bridge.sock /\ bridge'.will = bridge.will
        /\ bridge'.retained = bridge.retained /\ DOMAIN bridge' = BridgeFields
        /\ b.remote_subs = bridge.remote_subs /\ b.replies = bridge.replies
    BY <1>2, <2>3 DEF BridgeBut, BridgeFields
  <2>5. Queue(bridge'.replies) /\ \A i \in DOMAIN bridge'.replies : bridge'.replies[i] = "PINGRESP"
    <3>1. \A i \in DOMAIN bridge.replies : bridge.replies[i] = "PINGRESP"
      BY <1>6 DEF Open
    <3>2. CASE bridge'.replies = bridge.replies
      BY <1>3, <3>1, <3>2
    <3>3. CASE bridge'.replies = Append(bridge.replies, "PINGRESP")
      <4>1. /\ Queue(bridge'.replies) /\ DOMAIN bridge'.replies = 1..(Len(bridge.replies) + 1)
            /\ DOMAIN bridge.replies = 1..Len(bridge.replies) /\ Len(bridge.replies) \in Nat
            /\ \A i \in 1..Len(bridge.replies) : bridge'.replies[i] = bridge.replies[i]
            /\ bridge'.replies[Len(bridge.replies) + 1] = "PINGRESP"
        BY <1>3, <3>3, QueueAppend, QueuePlaces
      <4>2. \A i \in DOMAIN bridge'.replies : i = Len(bridge.replies) + 1 \/ i \in 1..Len(bridge.replies)
        BY <4>1, LastOrBefore, Zenon
      <4> QED
        BY <3>1, <4>1, <4>2
    <3> QED
      BY <2>3, <2>4, <3>2, <3>3
  <2>6. ASSUME NEW k \in DOMAIN bridge.conf.topics, decides(bridge.conf.topics, k)
        PROVE  LastWord(bridge'.wire, bridge'.remote_subs, bridge.conf.topics[k].remote_topic,
                        comes_in(bridge.conf.topics[k]))
    <3>1. LastWord(bridge.wire, bridge.remote_subs, bridge.conf.topics[k].remote_topic, comes_in(bridge.conf.topics[k]))
      BY <1>6, <2>6 DEF Open
    <3>2. /\ bridge.wire[1].type = "SUBSCRIBE" => bridge'.remote_subs = bridge.remote_subs \cup {bridge.wire[1].topic}
          /\ bridge.wire[1].type = "UNSUBSCRIBE" => bridge'.remote_subs = bridge.remote_subs \ {bridge.wire[1].topic}
          /\ bridge.wire[1].type \notin {"SUBSCRIBE", "UNSUBSCRIBE"} => bridge'.remote_subs = bridge.remote_subs
      BY <1>4, <2>3, <2>4
    <3>3. LastWord(Tail(bridge.wire), bridge'.remote_subs, bridge.conf.topics[k].remote_topic,
                   comes_in(bridge.conf.topics[k]))
      BY <1>1, <1>3, <3>1, <3>2, WordHeeded
    <3> QED
      BY <2>4, <3>3
  <2>7. \A i \in DOMAIN bridge'.wire : bridge'.wire[i].type \in Entry
    BY <1>4, <1>6, <2>4 DEF Open
  <2>8. Open(bridge')
    BY <1>6, <2>4, <2>5, <2>6, <2>7 DEF Open
  <2>9. Connection(bridge')
    BY <1>4, <2>4, <2>5, <2>8 DEF Connection
  <2>10. IsBridge(bridge') /\ Notified(bridge')
    BY <2>4 DEF Sound, IsBridge, Notified
  <2> QED
    BY <2>4, <2>9, <2>10 DEF Sound
<1> QED
  BY <1>3, <1>5, <1>6

-----------------------------------------------------------------------------
(* The theorem.                                                            *)

\* What the brokers know of a bridge is what is the case, or on its way.
THEOREM BridgeInvariant == BridgeSpec => []BridgeInv
<1>1. BridgeInit => BridgeInv
  BY DEF BridgeInv
<1>2. BridgeInv /\ [BridgeNext]_bridge => BridgeInv'
  <2> SUFFICES ASSUME BridgeInv, [BridgeNext]_bridge PROVE BridgeInv'
    OBVIOUS
  <2>1. CASE UNCHANGED bridge
    BY <2>1 DEF BridgeInv, BridgeInit
  <2> SUFFICES ASSUME BridgeNext PROVE BridgeInv'
    BY <2>1
  <2>2. CASE BridgeInit
    <3>1. PICK c \in Bridges : mqtt3_bridge_new(c)
      <4>1. bridge.stage = "off"
        BY <2>2 DEF BridgeInit
      <4> QED
        BY <4>1 DEF BridgeNext, mosquitto_main_loop, Read, mqtt3_db_message_insert, mosquitto_security_apply, Time,
                    RemoteReads, Outage, Recovery, Break
    <3> DEFINE b == [bridge EXCEPT !.stage = "run", !.conf = c, !.msgs = c.restored,
                                   !.try_private_accepted = TRUE, !.remote_subs = c.remote.subs]
    <3>2. bridge' = mqtt3_bridge_connect(b).b
      BY <3>1 DEF mqtt3_bridge_new
    <3>3. DOMAIN b = BridgeFields /\ b.conf = c /\ b.stage = "run"
      BY <2>2 DEF BridgeInit, BridgeFields
    <3> HIDE DEF b
    <3>4. Sound(bridge') /\ bridge'.stage = "run"
      BY <3>2, <3>3, ConnectSound
    <3> QED
      BY <3>4 DEF BridgeInv, Sound
  <2>3. CASE bridge.stage = "run" /\ Sound(bridge)
    <3>1. DOMAIN bridge = BridgeFields
      BY <2>3 DEF Sound, IsBridge
    <3>2. ASSUME NEW F \in SUBSET {"cur_address", "primary_retry", "restart_t", "lazy_reconnect", "ping_t", "silence",
                             "idle", "msgs", "local_subs", "down", "dead", "faults"},
                 BridgeBut(bridge, bridge', F)
          PROVE  BridgeInv'
      <4>1. BridgeBut(bridge, bridge', {"stage", "cur_address", "primary_retry", "restart_t", "lazy_reconnect", "ping_t",
                                      "silence", "idle", "msgs", "local_subs", "down", "dead", "faults"})
            /\ bridge'.stage = bridge.stage
        BY <3>2 DEF BridgeBut, BridgeFields
      <4> QED
        BY <2>3, <4>1, SoundKept DEF BridgeInv, Sound
    <3>3. ASSUME NEW c \in Bridges, mqtt3_bridge_new(c) PROVE BridgeInv'
      BY <2>3, <3>3 DEF mqtt3_bridge_new
    <3>4. ASSUME NEW interrupted \in BOOLEAN, mosquitto_main_loop(interrupted) PROVE BridgeInv'
      <4> DEFINE pass == IF bridge.sock THEN [polled |-> TRUE, b |-> with_socket(bridge)] ELSE without_socket(bridge)
      <4>1. bridge' = IF pass.b.sock /\ ~pass.polled /\ ~interrupted THEN [pass.b EXCEPT !.stage = "aborted"] ELSE pass.b
        BY <3>4 DEF mosquitto_main_loop
      <4>2. /\ Sound(pass.b) /\ pass.b.stage = bridge.stage /\ pass.b.conf = bridge.conf
            /\ ~pass.polled => bridge.conf.start_type = "lazy"
        <5>1. CASE bridge.sock
          BY <2>3, <5>1, WithSocketSound
        <5>2. CASE ~bridge.sock
          BY <2>3, <5>2, WithoutSocketSound
        <5> QED
          BY <5>1, <5>2
      <4> HIDE DEF pass
      <4>3. CASE bridge' = pass.b
        BY <2>3, <4>2, <4>3 DEF BridgeInv, Sound
      <4>4. CASE ~pass.polled /\ bridge' = [pass.b EXCEPT !.stage = "aborted"]
        <5>1. bridge'.stage = "aborted" /\ bridge'.conf = bridge.conf
          BY <4>2, <4>4 DEF Sound, IsBridge, BridgeFields
        <5> QED
          BY <4>2, <4>4, <5>1 DEF BridgeInv
      <4> QED
        BY <4>1, <4>3, <4>4
    <3>5. CASE Read
      BY <2>3, <3>5, ReadSound DEF BridgeInv, Sound
    <3>6. CASE mqtt3_db_message_insert
      <4>1. BridgeBut(bridge, bridge', {"msgs", "lazy_reconnect"})
        BY <3>1, <3>6 DEF mqtt3_db_message_insert, BridgeBut, BridgeFields
      <4> QED
        BY <3>2, <4>1
    <3>7. CASE mosquitto_security_apply
      <4>1. /\ BridgeBut(bridge, bridge', {"state", "sock", "faults"}) /\ bridge'.state = "disconnecting" /\ ~bridge'.sock
        BY <3>1, <3>7 DEF mosquitto_security_apply, BridgeBut, BridgeFields
      <4>2. bridge'.conf = bridge.conf /\ bridge'.stage = bridge.stage /\ DOMAIN bridge' = BridgeFields
        BY <4>1 DEF BridgeBut, BridgeFields
      <4> QED
        BY <2>3, <4>1, <4>2 DEF BridgeInv, Sound, IsBridge, Connection, Notified
    <3>8. ASSUME NEW what \in {"restart_t", "primary_retry", "silence", "idle"}, Time(what) PROVE BridgeInv'
      <4>1. bridge' = [bridge EXCEPT ![what] = IF what \in {"silence", "idle"} THEN TRUE ELSE "passed"]
        BY <3>8 DEF Time
      <4>2. BridgeBut(bridge, bridge', {"restart_t", "primary_retry", "silence", "idle"})
        BY <3>1, <4>1 DEF BridgeBut, BridgeFields
      <4> QED
        BY <3>2, <4>2
    <3>9. CASE RemoteReads
      BY <2>3, <3>9, RemoteSound DEF BridgeInv, Sound
    <3>10. ASSUME NEW a, Outage(a) PROVE BridgeInv'
      <4>1. BridgeBut(bridge, bridge', {"down", "faults", "dead"})
        BY <3>1, <3>10 DEF Outage, BridgeBut, BridgeFields
      <4> QED
        BY <3>2, <4>1
    <3>11. ASSUME NEW a, Recovery(a) PROVE BridgeInv'
      <4>1. BridgeBut(bridge, bridge', {"down"})
        BY <3>1, <3>11 DEF Recovery, BridgeBut, BridgeFields
      <4> QED
        BY <3>2, <4>1
    <3>12. CASE Break
      <4> DEFINE b == [bridge EXCEPT !.faults = @ + 1]
      <4>1. bridge' = mqtt3_context_disconnect(b)
        BY <3>12 DEF Break
      <4>2. BridgeBut(bridge, b, {"faults"})
        BY <3>1 DEF BridgeBut, BridgeFields
      <4> HIDE DEF b
      <4>3. b.stage = bridge.stage /\ BridgeBut(bridge, b, {"stage", "cur_address", "primary_retry", "restart_t", "lazy_reconnect", "ping_t",
                                   "silence", "idle", "msgs", "local_subs", "down", "dead", "faults"})
        BY <4>2 DEF BridgeBut, BridgeFields
      <4>4. Sound(b)
        BY <2>3, <4>3, SoundKept
      <4>5. b.conf.notifications /\ b.state # "disconnecting" => b.will \/ b.retained # "1"
        BY <4>4, WillOrTold
      <4>6. Sound(bridge') /\ bridge'.stage = b.stage
        BY <4>1, <4>4, <4>5, DisconnectSound DEF Sound
      <4> QED
        BY <2>3, <4>3, <4>6 DEF BridgeInv, Sound
    <3> QED
      BY <3>3, <3>4, <3>5, <3>6, <3>7, <3>8, <3>9, <3>10, <3>11, <3>12 DEF BridgeNext
  <2>4. CASE bridge.stage = "aborted"
    BY <2>4 DEF BridgeNext, mqtt3_bridge_new, mosquitto_main_loop, Read, mqtt3_db_message_insert,
                mosquitto_security_apply, Time, RemoteReads, Outage, Recovery, Break
  <2> QED
    BY <2>2, <2>3, <2>4 DEF BridgeInv, Sound
<1> QED
  BY <1>1, <1>2, PTL DEF BridgeSpec

\* The retained notification, the remote subscriptions and the set that poll looks at
\* agree with the state of the bridge (bridge.c, read_handle_client.c, loop.c).
THEOREM BridgeSound == BridgeSpec => []BridgeIsSound
<1>1. BridgeInv => BridgeIsSound
  <2> SUFFICES ASSUME BridgeInv PROVE BridgeIsSound
    OBVIOUS
  <2>1. CASE bridge.stage \notin {"run", "aborted"}
    BY <2>1 DEF BridgeIsSound, NotificationTells, RemoteSubscriptions, PollfdsAgree
  <2>2. CASE bridge.stage = "aborted"
    BY <2>2 DEF BridgeInv, BridgeInit, BridgeIsSound, NotificationTells, RemoteSubscriptions, PollfdsAgree
  <2>3. CASE bridge.stage = "run"
    <3>1. IsBridge(bridge) /\ Connection(bridge) /\ Notified(bridge)
      BY <2>3 DEF BridgeInv, BridgeInit
    <3>2. NotificationTells
      BY <3>1 DEF Notified, NotificationTells, up
    <3>3. ASSUME up, bridge.wire = <<>>, NEW k \in DOMAIN bridge.conf.topics, decides(bridge.conf.topics, k)
          PROVE  bridge.conf.topics[k].remote_topic \in bridge.remote_subs <=> comes_in(bridge.conf.topics[k])
      <4>1. Open(bridge)
        BY <3>1, <3>3 DEF Connection, Opening, up
      <4>2. LastWord(<<>>, bridge.remote_subs, bridge.conf.topics[k].remote_topic, comes_in(bridge.conf.topics[k]))
        BY <3>3, <4>1 DEF Open
      <4> QED
        BY <4>2, QueueNone DEF LastWord
    <3>4. RemoteSubscriptions
      BY <3>3 DEF RemoteSubscriptions, decides
    <3> QED
      BY <2>3, <3>2, <3>4 DEF BridgeIsSound, PollfdsAgree
  <2> QED
    BY <2>1, <2>2, <2>3
<1> QED
  BY <1>1, BridgeInvariant, PTL

-----------------------------------------------------------------------------
(* The memory in use: sums along a list.                                   *)

\* One block more, as a step of the sum.
add_size(sums, total, size) == total + size

\* The sums are those of the first elements.
SumSoFar(sums, k, total) == total = sums[k]

\* The walk over the blocks.
SumWalk == INSTANCE SequenceFolds WITH op <- add_size, Inv <- SumSoFar

\* The induction that the theorem of SumWalk assumes.
LEMMA SumWalkInducts == SumWalk!Induction
    BY NatInduct DEF SumWalk!Induction

\* Sums of which a number is taken away, and another one put instead.
LEMMA SameSums ==
    \A a, b, c, d \in Int :
        /\ a + b - b + d = a + d /\ a + b - b = a
        /\ (a + b) - c + d = (a - c + d) + b /\ (a + b) - c = (a - c) + b
        /\ a + b + c - b = a + c
    OBVIOUS

\* The sums of the first elements of a list.
Sums(s, sums) ==
    /\ sums \in [0..Len(s) -> Int] /\ sums[0] = 0
    /\ \A k \in 1..Len(s) : sums[k] = sums[k - 1] + s[k]

\* Every list has them.
LEMMA SumsExist ==
    ASSUME NEW s \in Seq(Nat)
    PROVE  \E sums : Sums(s, sums)
<1> DEFINE UpTo(k, f) == f \in [0..k -> Int] /\ f[0] = 0 /\ \A j \in 1..k : f[j] = f[j - 1] + s[j]
           T == {k \in Nat : k <= Len(s) => \E f : UpTo(k, f)}
<1>1. 0 \in T
    <2>1. UpTo(0, [j \in 0..0 |-> 0])
        OBVIOUS
    <2> QED BY <2>1
<1>2. ASSUME NEW k \in Nat, k \in T PROVE k + 1 \in T
    <2>1. SUFFICES ASSUME k + 1 <= Len(s) PROVE \E f : UpTo(k + 1, f)
        OBVIOUS
    <2>2. PICK f : UpTo(k, f)
        BY <1>2, <2>1, SMTT(30)
    <2> DEFINE h == [j \in 0..(k + 1) |-> IF j <= k THEN f[j] ELSE f[k] + s[k + 1]]
    <2>3. s[k + 1] \in Int /\ f[k] \in Int
        BY <2>1, <2>2
    <2>4. h \in [0..(k + 1) -> Int] /\ h[0] = 0
        BY <2>2, <2>3
    <2>5. ASSUME NEW j \in 1..(k + 1) PROVE h[j] = h[j - 1] + s[j]
        <3>1. CASE j <= k
            BY <2>2, <3>1
        <3>2. CASE j = k + 1
            BY <3>2
        <3> QED BY <3>1, <3>2
    <2> HIDE DEF h
    <2>6. UpTo(k + 1, h)
        BY <2>4, <2>5
    <2> HIDE DEF UpTo
    <2> QED BY <2>6
<1>3. Nat \subseteq T
    <2> HIDE DEF T
    <2> QED BY <1>1, <1>2, NatInduct
<1>4. Len(s) \in T
    <2>1. Len(s) \in Nat
        OBVIOUS
    <2> HIDE DEF T
    <2> QED BY <1>3, <2>1
<1>5. PICK f : UpTo(Len(s), f)
    <2> HIDE DEF UpTo
    <2>1. Len(s) <= Len(s)
        OBVIOUS
    <2> QED BY <1>4, <2>1
<1> QED BY <1>5 DEF Sums

\* The sum of a list is the last of them.
LEMMA SumIsLast ==
    ASSUME NEW s \in Seq(Nat), NEW sums, Sums(s, sums)
    PROVE  allocated(s) = sums[Len(s)]
<1>1. SumSoFar(sums, 0, 0)
    BY DEF SumSoFar, Sums
<1>2. ASSUME NEW k \in 1..Len(s), NEW a, SumSoFar(sums, k - 1, a) PROVE SumSoFar(sums, k, add_size(sums, a, s[k]))
    BY <1>2 DEF SumSoFar, Sums, add_size
<1>3. Len(s) \in Nat /\ DOMAIN s = 1..Len(s)
    OBVIOUS
<1>4. SumSoFar(sums, Len(s), SumWalk!Walk(sums, 0, s))
    BY <1>1, <1>2, <1>3, SumWalk!WalkInvariant, SumWalkInducts
<1>5. SumWalk!Walk(sums, 0, s) = allocated(s)
    BY DEF SumWalk!Walk, SumWalk!Greatest, FoldLeft, MapThenFoldSet, Max, add_size, allocated
<1> QED BY <1>4, <1>5 DEF SumSoFar

\* What a list of partial sums says of each of its elements.
LEMMA SumFacts ==
    ASSUME NEW s \in Seq(Nat), NEW f, Sums(s, f)
    PROVE  /\ \A j \in 0..Len(s) : f[j] \in Int
           /\ \A j \in 1..Len(s) : f[j] = f[j - 1] + s[j] /\ f[j - 1] \in Int /\ f[j] \in Int /\ s[j] \in Nat
<1>1. Len(s) \in Nat /\ \A j \in 1..Len(s) : s[j] \in Nat
    OBVIOUS
<1>2. f \in [0..Len(s) -> Int] /\ \A j \in 1..Len(s) : f[j] = f[j - 1] + s[j]
    BY DEF Sums
<1>3. \A j \in 0..Len(s) : f[j] \in Int
    BY <1>2
<1>4. \A j \in 1..Len(s) : j \in 0..Len(s) /\ j - 1 \in 0..Len(s)
    BY <1>1
<1>5. \A j \in 1..Len(s) : f[j - 1] \in Int /\ f[j] \in Int
    BY <1>3, <1>4
<1> QED BY <1>1, <1>2, <1>3, <1>5

\* Nothing is in use at first, and a new block is added.
LEMMA SumOfNone == allocated(<<>>) = 0
<1>1. Sums(<<>>, [k \in 0..0 |-> 0]) /\ <<>> \in Seq(Nat) /\ Len(<<>>) = 0
    BY DEF Sums
<1> QED BY <1>1, SumIsLast

LEMMA SumOfOneMore ==
    ASSUME NEW s \in Seq(Nat), NEW x \in Nat
    PROVE  allocated(Append(s, x)) = allocated(s) + x /\ allocated(s) \in Int
<1>1. PICK f : Sums(s, f)
    BY SumsExist
<1> DEFINE t == Append(s, x)
           h == [j \in 0..(Len(s) + 1) |-> IF j <= Len(s) THEN f[j] ELSE f[Len(s)] + x]
<1>2. t \in Seq(Nat) /\ Len(t) = Len(s) + 1 /\ t[Len(s) + 1] = x /\ \A j \in 1..Len(s) : t[j] = s[j]
    OBVIOUS
<1>3. Len(s) \in Nat /\ f[Len(s)] \in Int
    BY <1>1 DEF Sums
<1>4. h \in [0..(Len(s) + 1) -> Int] /\ h[0] = 0 /\ h[Len(s) + 1] = f[Len(s)] + x
    <2>1. \A j \in 0..(Len(s) + 1) : j <= Len(s) => j \in 0..Len(s)
        BY <1>3
    <2>2. \A j \in 0..(Len(s) + 1) : j <= Len(s) => f[j] \in Int
        BY <1>1, <2>1, SumFacts
    <2>3. f[0] = 0 /\ f[Len(s)] + x \in Int
        BY <1>1, <1>3 DEF Sums
    <2> QED BY <1>3, <2>2, <2>3
<1>5. ASSUME NEW j \in 1..(Len(s) + 1) PROVE h[j] = h[j - 1] + t[j]
    <2>1. CASE j <= Len(s)
        <3>1. j \in 1..Len(s) /\ f[j] = f[j - 1] + s[j]
            <4>1. j \in 1..Len(s)
                BY <1>3, <2>1
            <4> QED BY <1>1, <4>1, SumFacts
        <3>2. h[j] = f[j] /\ h[j - 1] = f[j - 1]
            BY <1>3, <2>1
        <3>3. t[j] = s[j]
            BY <1>2, <3>1
        <3> QED BY <3>1, <3>2, <3>3
    <2>2. CASE j = Len(s) + 1
        BY <1>2, <1>3, <2>2
    <2> QED BY <1>3, <2>1, <2>2
<1> HIDE DEF t, h
<1>6. Sums(t, h)
    BY <1>2, <1>4, <1>5 DEF Sums
<1>7. allocated(t) = h[Len(t)] /\ allocated(s) = f[Len(s)]
    BY <1>1, <1>2, <1>6, SumIsLast
<1> QED BY <1>2, <1>3, <1>4, <1>7 DEF t

\* A block changes its size.
LEMMA SumOfChanged ==
    ASSUME NEW s \in Seq(Nat), NEW i \in 1..Len(s), NEW x \in Nat
    PROVE  allocated([s EXCEPT ![i] = x]) = allocated(s) - s[i] + x
<1>1. PICK f : Sums(s, f)
    BY SumsExist
<1> DEFINE t == [s EXCEPT ![i] = x]
           h == [j \in 0..Len(s) |-> IF j < i THEN f[j] ELSE f[j] - s[i] + x]
<1>2. t \in Seq(Nat) /\ Len(t) = Len(s) /\ t[i] = x /\ \A j \in 1..Len(s) : j # i => t[j] = s[j]
    OBVIOUS
<1>3. Len(s) \in Nat /\ i \in Nat /\ i >= 1 /\ i <= Len(s) /\ s[i] \in Nat /\ \A j \in 0..Len(s) : f[j] \in Int
    <2>1. \A j \in 0..Len(s) : f[j] \in Int
        BY <1>1 DEF Sums
    <2>2. Len(s) \in Nat /\ s[i] \in Nat
        OBVIOUS
    <2> QED BY <2>1, <2>2
<1>4. h \in [0..Len(s) -> Int] /\ h[0] = 0 /\ h[Len(s)] = f[Len(s)] - s[i] + x
    <2>1. f[0] = 0
        BY <1>1 DEF Sums
    <2>2. \A j \in 0..Len(s) : f[j] - s[i] + x \in Int
        BY <1>3
    <2> QED BY <1>3, <2>1, <2>2, SMTT(30)
<1>5. ASSUME NEW j \in 1..Len(s) PROVE h[j] = h[j - 1] + t[j]
    <2>1. f[j] = f[j - 1] + s[j] /\ f[j - 1] \in Int /\ s[j] \in Nat
        BY <1>1, SumFacts
    <2>2. CASE j < i
        BY <1>2, <1>3, <2>1, <2>2
    <2>3. CASE j = i
        <3>1. h[j] = f[j] - s[i] + x /\ h[j - 1] = f[j - 1]
            BY <1>3, <2>3
        <3>2. t[j] = x /\ s[i] = s[j] /\ s[j] \in Int
            BY <1>2, <1>3, <2>1, <2>3
        <3> HIDE DEF t, h
        <3>3. f[j - 1] + s[j] - s[j] + x = f[j - 1] + x
            BY <2>1, <3>2, SameSums
        <3> QED BY <2>1, <3>1, <3>2, <3>3
    <2>4. CASE j > i
        <3>1. h[j] = f[j] - s[i] + x /\ h[j - 1] = f[j - 1] - s[i] + x
            BY <1>3, <2>4
        <3>2. t[j] = s[j]
            BY <1>2, <1>3, <2>4
        <3> HIDE DEF t, h
        <3>3. s[i] \in Int /\ (f[j - 1] + s[j]) - s[i] + x = (f[j - 1] - s[i] + x) + s[j]
            BY <1>3, <2>1, SameSums, SMTT(30)
        <3> QED BY <2>1, <3>1, <3>2, <3>3
    <2> QED BY <1>3, <2>2, <2>3, <2>4
<1> HIDE DEF t, h
<1>6. Sums(t, h)
    BY <1>2, <1>4, <1>5 DEF Sums
<1>7. allocated(t) = h[Len(t)] /\ allocated(s) = f[Len(s)]
    BY <1>1, <1>2, <1>6, SumIsLast
<1> QED BY <1>2, <1>4, <1>7 DEF t

\* A list without its i-th element.
LEMMA WithoutOne ==
    ASSUME NEW S, NEW s \in Seq(S), NEW i \in 1..Len(s)
    PROVE  /\ RemoveAt(s, i) \in Seq(S) /\ Len(RemoveAt(s, i)) = Len(s) - 1
           /\ \A j \in 1..(Len(s) - 1) : RemoveAt(s, i)[j] = IF j < i THEN s[j] ELSE s[j + 1]
<1>1. Len(s) \in Nat /\ i \in Nat /\ i >= 1 /\ i <= Len(s)
    OBVIOUS
<1>2. SubSeq(s, 1, i - 1) \in Seq(S) /\ Len(SubSeq(s, 1, i - 1)) = i - 1 /\ \A j \in 1..(i - 1) : SubSeq(s, 1, i - 1)[j] = s[j]
    BY <1>1
<1>3. /\ SubSeq(s, i + 1, Len(s)) \in Seq(S) /\ Len(SubSeq(s, i + 1, Len(s))) = Len(s) - i
      /\ \A j \in 1..(Len(s) - i) : SubSeq(s, i + 1, Len(s))[j] = s[i + j]
    BY <1>1
<1> DEFINE a == SubSeq(s, 1, i - 1)
           b == SubSeq(s, i + 1, Len(s))
<1>4. RemoveAt(s, i) = a \o b
    BY DEF RemoveAt
<1>5. a \in Seq(S) /\ b \in Seq(S) /\ Len(a) = i - 1 /\ Len(b) = Len(s) - i
    BY <1>2, <1>3
<1>6. /\ \A j \in 1..(i - 1) : a[j] = s[j]
      /\ \A j \in 1..(Len(s) - i) : b[j] = s[i + j]
    BY <1>2, <1>3
<1> HIDE DEF a, b
<1>7. /\ a \o b \in Seq(S) /\ Len(a \o b) = Len(a) + Len(b)
      /\ \A j \in 1..Len(a) : (a \o b)[j] = a[j]
      /\ \A j \in 1..(Len(a) + Len(b)) : j > Len(a) => (a \o b)[j] = b[j - Len(a)]
    BY <1>5, SMTT(30)
<1>8. ASSUME NEW j \in 1..(Len(s) - 1) PROVE (a \o b)[j] = IF j < i THEN s[j] ELSE s[j + 1]
    <2>1. CASE j < i
        BY <1>1, <1>5, <1>6, <1>7, <2>1
    <2>2. CASE ~(j < i)
        <3>1. j \in 1..(Len(a) + Len(b)) /\ j > Len(a) /\ j - Len(a) \in 1..(Len(s) - i) /\ i + (j - Len(a)) = j + 1
            BY <1>1, <1>5, <2>2
        <3>2. (a \o b)[j] = b[j - Len(a)]
            BY <1>7, <3>1
        <3>3. b[j - Len(a)] = s[i + (j - Len(a))]
            BY <1>6, <3>1
        <3>4. (a \o b)[j] = s[j + 1]
            BY <3>1, <3>2, <3>3
        <3> QED BY <2>2, <3>4
    <2> QED BY <2>1, <2>2
<1>9. Len(a \o b) = Len(s) - 1
    <2>1. Len(a) + Len(b) = Len(s) - 1
        BY <1>1, <1>5
    <2> QED BY <1>7, <2>1
<1>10. a \o b \in Seq(S)
    BY <1>7
<1> QED BY <1>4, <1>8, <1>9, <1>10

\* A block is freed.
LEMMA SumWithoutOne ==
    ASSUME NEW s \in Seq(Nat), NEW i \in 1..Len(s)
    PROVE  allocated(RemoveAt(s, i)) = allocated(s) - s[i]
<1>1. PICK f : Sums(s, f)
    BY SumsExist
<1> DEFINE t == RemoveAt(s, i)
           h == [j \in 0..(Len(s) - 1) |-> IF j < i THEN f[j] ELSE f[j + 1] - s[i]]
<1>2. t \in Seq(Nat) /\ Len(t) = Len(s) - 1 /\ \A j \in 1..(Len(s) - 1) : t[j] = IF j < i THEN s[j] ELSE s[j + 1]
    BY WithoutOne
<1> HIDE DEF t
<1>3. Len(s) \in Nat /\ i \in Nat /\ i >= 1 /\ i <= Len(s) /\ s[i] \in Nat /\ \A j \in 0..Len(s) : f[j] \in Int
    <2>1. \A j \in 0..Len(s) : f[j] \in Int
        BY <1>1 DEF Sums
    <2>2. Len(s) \in Nat /\ s[i] \in Nat
        OBVIOUS
    <2> QED BY <2>1, <2>2
<1>4. h \in [0..(Len(s) - 1) -> Int] /\ h[0] = 0
    <2>1. \A j \in 0..(Len(s) - 1) : j \in 0..Len(s) /\ j + 1 \in 0..Len(s)
        BY <1>3
    <2>2. \A j \in 0..(Len(s) - 1) : f[j] \in Int /\ f[j + 1] - s[i] \in Int
        BY <1>3, <2>1
    <2>3. 0 \in 0..(Len(s) - 1) /\ f[0] = 0 /\ 0 < i
        BY <1>1, <1>3 DEF Sums
    <2>4. h[0] = 0
        BY <2>3
    <2>5. \A j \in 0..(Len(s) - 1) : (IF j < i THEN f[j] ELSE f[j + 1] - s[i]) \in Int
        BY <2>2
    <2> QED BY <2>4, <2>5
<1>5. h[Len(s) - 1] = f[Len(s)] - s[i]
    <2>1. CASE i = Len(s)
        <3>1. f[Len(s)] = f[Len(s) - 1] + s[Len(s)] /\ Len(s) - 1 \in 0..(Len(s) - 1)
            <4>1. Len(s) \in 1..Len(s) /\ Len(s) - 1 \in 0..(Len(s) - 1)
                BY <1>3
            <4> QED BY <1>1, <4>1, SumFacts
        <3>2. h[Len(s) - 1] = f[Len(s) - 1] /\ f[Len(s) - 1] \in Int
            BY <1>3, <2>1
        <3>3. f[Len(s) - 1] + s[Len(s)] - s[Len(s)] = f[Len(s) - 1]
            BY <1>3, <2>1, <3>2, SameSums
        <3> QED BY <2>1, <3>1, <3>2, <3>3
    <2>2. CASE i # Len(s)
        BY <1>3, <2>2
    <2> QED BY <2>1, <2>2
<1>6. ASSUME NEW j \in 1..(Len(s) - 1) PROVE h[j] = h[j - 1] + t[j]
    <2>1. /\ f[j] = f[j - 1] + s[j] /\ f[j + 1] = f[j] + s[j + 1]
          /\ f[j - 1] \in Int /\ f[j] \in Int /\ s[j] \in Nat /\ s[j + 1] \in Nat
        <3>1. j \in 1..Len(s) /\ j + 1 \in 1..Len(s) /\ (j + 1) - 1 = j /\ j - 1 \in 0..Len(s) /\ j \in 0..Len(s)
            BY <1>3
        <3>2. f[j] = f[j - 1] + s[j] /\ f[j + 1] = f[(j + 1) - 1] + s[j + 1]
            BY <1>1, <3>1 DEF Sums
        <3>3. f[j - 1] \in Int /\ f[j] \in Int
            BY <1>3, <3>1
        <3>4. s[j] \in Nat /\ s[j + 1] \in Nat
            BY <3>1
        <3> QED BY <3>1, <3>2, <3>3, <3>4
    <2>2. CASE j < i
        <3>1. j \in 0..(Len(s) - 1) /\ j - 1 \in 0..(Len(s) - 1) /\ j < i /\ j - 1 < i
            BY <1>3, <2>2
        <3>2. h[j] = f[j] /\ h[j - 1] = f[j - 1]
            BY <3>1
        <3>3. t[j] = s[j]
            BY <1>2, <2>2
        <3> HIDE DEF h
        <3> QED BY <2>1, <3>2, <3>3
    <2>3. CASE j = i
        <3>4. j \in 0..(Len(s) - 1) /\ j - 1 \in 0..(Len(s) - 1) /\ ~(j < i) /\ j - 1 < i
            BY <1>3, <2>3
        <3>5. h[j] = f[j + 1] - s[i] /\ h[j - 1] = f[j - 1]
            BY <3>4
        <3>6. t[j] = s[j + 1]
            BY <1>2, <3>4
        <3>1. h[j] = f[j + 1] - s[i] /\ h[j - 1] = f[j - 1] /\ t[j] = s[j + 1] /\ s[i] = s[j]
            BY <2>3, <3>5, <3>6
        <3> HIDE DEF h
        <3>2. f[j - 1] + s[j] + s[j + 1] - s[j] = f[j - 1] + s[j + 1]
            <4>1. f[j - 1] \in Int /\ s[j] \in Int /\ s[j + 1] \in Int
                BY <2>1
            <4> QED BY <4>1, SameSums, SMTT(60)
        <3> QED BY <2>1, <3>1, <3>2
    <2>4. CASE j > i
        <3>4. j \in 0..(Len(s) - 1) /\ j - 1 \in 0..(Len(s) - 1) /\ ~(j < i) /\ ~(j - 1 < i) /\ (j - 1) + 1 = j
            BY <1>3, <2>4
        <3>1. h[j] = f[j + 1] - s[i] /\ h[j - 1] = f[j] - s[i] /\ t[j] = s[j + 1]
            BY <1>2, <3>4
        <3>5. s[i] \in Int /\ f[j] \in Int /\ s[j + 1] \in Int
            <4>1. s[i] \in Nat
                BY <1>3
            <4>2. f[j] \in Int /\ s[j + 1] \in Nat
                BY <2>1
            <4> QED BY <4>1, <4>2
        <3>2. (f[j] + s[j + 1]) - s[i] = (f[j] - s[i]) + s[j + 1]
            BY <3>5, SameSums
        <3> HIDE DEF h
        <3> QED BY <2>1, <3>1, <3>2
    <2> QED BY <1>3, <2>2, <2>3, <2>4
<1> HIDE DEF h
<1>7. Sums(t, h)
    BY <1>2, <1>4, <1>6 DEF Sums
<1>8. allocated(t) = h[Len(t)] /\ allocated(s) = f[Len(s)]
    BY <1>1, <1>2, <1>7, SumIsLast
<1> QED BY <1>2, <1>5, <1>8 DEF t

-----------------------------------------------------------------------------
(* Rates and loads.                                                        *)

\* A finite set of numbers has a greatest one.
LEMMA GreatestOf ==
    ASSUME NEW S \in SUBSET Int, IsFiniteSet(S), S # {}
    PROVE  \E m \in S : \A y \in S : y <= m
<1> DEFINE T == {n \in Nat : \A U \in SUBSET Int : IsFiniteSet(U) /\ Cardinality(U) = n + 1 => \E m \in U : \A y \in U : y <= m}
<1>1. 0 \in T
    <2> SUFFICES ASSUME NEW U \in SUBSET Int, IsFiniteSet(U), Cardinality(U) = 0 + 1 PROVE \E m \in U : \A y \in U : y <= m
        OBVIOUS
    <2>1. Cardinality(U) = 1
        OBVIOUS
    <2>2. PICK x : U = {x}
        BY <2>1, FS_Singleton
    <2> QED BY <2>2
<1>2. ASSUME NEW n \in Nat, n \in T PROVE n + 1 \in T
    <2> SUFFICES ASSUME NEW U \in SUBSET Int, IsFiniteSet(U), Cardinality(U) = (n + 1) + 1 PROVE \E m \in U : \A y \in U : y <= m
        OBVIOUS
    <2>0. Cardinality(U) # 0
        OBVIOUS
    <2>1. PICK x \in U : TRUE
        BY <2>0, FS_EmptySet
    <2>2. IsFiniteSet(U \ {x}) /\ Cardinality(U \ {x}) = Cardinality(U) - 1
        BY <2>1, FS_RemoveElement
    <2>3. U \ {x} \in SUBSET Int /\ Cardinality(U \ {x}) = n + 1
        BY <2>2
    <2>4. PICK m \in U \ {x} : \A y \in U \ {x} : y <= m
        BY <1>2, <2>2, <2>3
    <2>5. CASE x <= m
        <3>1. \A y \in U : y <= m
            BY <2>4, <2>5
        <3> QED BY <3>1
    <2>6. CASE ~(x <= m)
        <3>1. m \in Int /\ x \in Int /\ m <= x /\ x <= x
            BY <2>6
        <3>2. ASSUME NEW y \in U PROVE y <= x
            <4>1. CASE y = x
                BY <3>1, <4>1
            <4>2. CASE y # x
                <5>1. y <= m /\ y \in Int
                    BY <2>4, <4>2
                <5> QED BY <3>1, <5>1
            <4> QED BY <4>1, <4>2
        <3> QED BY <3>2
    <2> QED BY <2>5, <2>6
<1>3. Nat \subseteq T
    <2> HIDE DEF T
    <2> QED BY <1>1, <1>2, NatInduct
<1>4. Cardinality(S) \in Nat /\ Cardinality(S) # 0
    BY FS_CardinalityType, FS_EmptySet
<1>5. Cardinality(S) - 1 \in T /\ (Cardinality(S) - 1) + 1 = Cardinality(S)
    <2>1. Cardinality(S) - 1 \in Nat /\ (Cardinality(S) - 1) + 1 = Cardinality(S)
        BY <1>4
    <2> HIDE DEF T
    <2> QED BY <1>3, <2>1
<1> QED BY <1>5

\* A quotient.
LEMMA Quotient ==
    ASSUME NEW x \in Nat, NEW d \in Nat, d > 0
    PROVE  x \div d \in Nat /\ d * (x \div d) <= x /\ x < d * (x \div d) + d
    OBVIOUS

\* A remainder.
LEMMA Remainder ==
    ASSUME NEW x \in Nat, NEW d \in Nat, d > 0
    PROVE  x % d \in Nat /\ x % d <= x
<1>1. x % d \in 0..(d - 1)
    OBVIOUS
<1>2. CASE x < d
    BY <1>1, <1>2
<1>3. CASE d <= x
    BY <1>1, <1>3
<1> QED BY <1>2, <1>3

\* The rate of more is greater.
LEMMA RateGrows ==
    ASSUME NEW a \in Nat, NEW b \in Nat, a <= b, NEW d \in Nat, d > 0
    PROVE  rate(a, d) \in Nat /\ rate(b, d) \in Nat /\ rate(a, d) <= rate(b, d)
<1> DEFINE x == a * 6000
           y == b * 6000
<1>1. x \in Nat /\ y \in Nat /\ x <= y
    OBVIOUS
<1> HIDE DEF x, y
<1> DEFINE p == x \div d
           q == y \div d
<1>2. p \in Nat /\ d * p <= x /\ x < d * p + d /\ q \in Nat /\ d * q <= y /\ y < d * q + d
    BY <1>1, Quotient
<1> HIDE DEF p, q
<1>3. p <= q
    <2> SUFFICES ASSUME q + 1 <= p PROVE FALSE
        BY <1>2
    <2>1. PICK e \in Nat : p = q + 1 + e
        <3>1. p - (q + 1) \in Nat /\ p = q + 1 + (p - (q + 1))
            BY <1>2
        <3> QED BY <3>1
    <2>2. d * (q + 1 + e) = d * q + d + d * e
        BY <1>2
    <2>3. d * e \in Nat /\ d * q \in Nat
        BY <1>2
    <2>4. d * q + d <= d * p
        BY <2>1, <2>2, <2>3
    <2> QED BY <1>1, <1>2, <2>3, <2>4
<1> QED BY <1>2, <1>3 DEF rate, x, y, p, q

\* A load moves between itself and the rate.
LEMMA LoadBetween ==
    ASSUME NEW p \in Periods, NEW interval \in Nat, NEW current \in Nat, NEW top \in Nat, interval <= top, current <= top
    PROVE  calc_load(p, interval, current) \in Nat /\ calc_load(p, interval, current) <= top
<1>1. CASE p = "1min"
    <2>1. exponent[p].num = 1 /\ exponent[p].den = 2
        BY <1>1 DEF exponent, Periods
    <2>2. interval + (1 * (current - interval)) \div 2 \in Nat /\ interval + (1 * (current - interval)) \div 2 <= top
        OBVIOUS
    <2> QED BY <2>1, <2>2 DEF calc_load
<1>2. CASE p = "15min"
    <2>1. exponent[p].num = 3 /\ exponent[p].den = 4
        BY <1>2 DEF exponent, Periods
    <2>2. interval + (3 * (current - interval)) \div 4 \in Nat /\ interval + (3 * (current - interval)) \div 4 <= top
        OBVIOUS
    <2> QED BY <2>1, <2>2 DEF calc_load
<1> QED BY <1>1, <1>2 DEF Periods

-----------------------------------------------------------------------------
(* What the broker publishes.                                              *)

SysType ==
    [now : Nat, last_update : Nat, g : [Loaded -> Nat], since : [Loaded -> Nat], fastest : Nat,
     contexts : Seq(BOOLEAN), expired : Nat, peak : Nat,
     blocks : Seq(Nat), memcount : Int, max_memcount : Int, lost : BOOLEAN, most : Int,
     seen : [SysTopics -> Int], retained : [SysTopics -> Int \cup {NULL}],
     load : [Loaded -> [Periods -> Nat]], fresh : BOOLEAN, events : Nat]

\* How things are.
value_of(s, t) ==
    CASE t \in Counters -> s.g[t]
      [] t = "clients/active" -> open_sessions(s)
      [] t = "clients/inactive" -> Len(s.contexts) - open_sessions(s)
      [] t \in {"clients/total", "clients/maximum"} -> Len(s.contexts)
      [] t = "clients/expired" -> s.expired
      [] t = "heap/current" -> s.memcount
      [] t = "heap/maximum" -> s.max_memcount

Truth(s) == [t \in SysTopics |-> value_of(s, t)]

\* All but what is published is the same.
SameElse(s, r) ==
    /\ r.now = s.now /\ r.last_update = s.last_update /\ r.g = s.g /\ r.since = s.since /\ r.fastest = s.fastest
    /\ r.contexts = s.contexts /\ r.expired = s.expired /\ r.blocks = s.blocks /\ r.memcount = s.memcount
    /\ r.max_memcount = s.max_memcount /\ r.lost = s.lost /\ r.load = s.load /\ r.fresh = s.fresh /\ r.events = s.events
    /\ r.peak = s.peak /\ r.most = s.most

\* The topics of T are told, since s: what differs from before has been published.
Told(s, truth, r, T) ==
    /\ r \in SysType /\ SameElse(s, r)
    /\ \A t \in SysTopics : IF t \in T THEN r.seen[t] = truth[t] /\ r.retained[t] = truth[t]
                                      ELSE r.seen[t] = s.seen[t] /\ r.retained[t] = s.retained[t]

\* What a reader knows is what the broker remembers, or that will be published.
SysReady(s, truth) == \A t \in SysTopics : s.retained[t] = s.seen[t] \/ s.seen[t] # truth[t]

\* One topic more.
LEMMA TellsOne ==
    ASSUME NEW s \in SysType, NEW truth \in [SysTopics -> Int], SysReady(s, truth), NEW T,
           NEW r, Told(s, truth, r, T), NEW t \in SysTopics, t \notin T
    PROVE  Told(s, truth, tell(r, t, truth[t]), T \cup {t})
<1> DEFINE q == tell(r, t, truth[t])
<1>1. r \in SysType /\ SameElse(s, r) /\ r.seen[t] = s.seen[t] /\ r.retained[t] = s.retained[t]
    BY DEF Told
<1>2. CASE r.seen[t] = truth[t]
    <2>1. q = r
        BY <1>2 DEF tell
    <2>2. r.retained[t] = truth[t]
        BY <1>1, <1>2 DEF SysReady
    <2> HIDE DEF q
    <2>3. ASSUME NEW u \in SysTopics
          PROVE  IF u \in T \cup {t} THEN r.seen[u] = truth[u] /\ r.retained[u] = truth[u]
                                     ELSE r.seen[u] = s.seen[u] /\ r.retained[u] = s.retained[u]
        BY <1>2, <2>2 DEF Told
    <2> QED BY <1>1, <2>1, <2>3 DEF Told, q
<1>3. CASE r.seen[t] # truth[t]
    <2> DEFINE seen == [r.seen EXCEPT ![t] = truth[t]]
               retained == [r.retained EXCEPT ![t] = truth[t]]
    <2>1. q = [r EXCEPT !.seen = seen, !.retained = retained]
        BY <1>1, <1>3 DEF tell, SysType
    <2>4. r.seen \in [SysTopics -> Int] /\ r.retained \in [SysTopics -> Int \cup {NULL}]
        BY <1>1 DEF SysType
    <2>6. seen \in [SysTopics -> Int] /\ retained \in [SysTopics -> Int \cup {NULL}]
        BY <2>4
    <2> HIDE DEF seen, retained
    <2>2. q \in SysType /\ SameElse(s, q)
        <3>1. q \in SysType
            BY <1>1, <2>1, <2>6 DEF SysType
        <3>2. SameElse(s, q)
            BY <1>1, <2>1 DEF SysType, SameElse
        <3> QED BY <3>1, <3>2
    <2>3. q.seen = [r.seen EXCEPT ![t] = truth[t]] /\ q.retained = [r.retained EXCEPT ![t] = truth[t]]
        BY <1>1, <2>1 DEF SysType, seen, retained
    <2> HIDE DEF q
    <2>5. ASSUME NEW u \in SysTopics
          PROVE  IF u \in T \cup {t} THEN q.seen[u] = truth[u] /\ q.retained[u] = truth[u]
                                     ELSE q.seen[u] = s.seen[u] /\ q.retained[u] = s.retained[u]
        BY <2>3, <2>4 DEF Told
    <2> QED BY <2>2, <2>5 DEF Told, q
<1> QED BY <1>2, <1>3

\* How things are, in numbers.
LEMMA TruthType ==
    ASSUME NEW s \in SysType
    PROVE  /\ Truth(s) \in [SysTopics -> Int]
           /\ open_sessions(s) \in Nat
           /\ Cardinality({i \in DOMAIN s.contexts : ~s.contexts[i]}) = Len(s.contexts) - open_sessions(s)
<1> DEFINE D == DOMAIN s.contexts
           A == {i \in D : s.contexts[i]}
           B == {i \in D : ~s.contexts[i]}
<1>1. s.contexts \in Seq(BOOLEAN) /\ s.g \in [Loaded -> Nat] /\ s.expired \in Nat /\ s.memcount \in Int /\ s.max_memcount \in Int
    BY DEF SysType
<1>2. D = 1..Len(s.contexts) /\ Len(s.contexts) \in Nat
    BY <1>1
<1>3. IsFiniteSet(D) /\ Cardinality(D) = Len(s.contexts)
    BY <1>2, FS_Interval
<1>4. A \cup B = D /\ A \cap B = {} /\ A \in SUBSET D /\ B \in SUBSET D
    OBVIOUS
<1> HIDE DEF D, A, B
<1>5. IsFiniteSet(A) /\ IsFiniteSet(B)
    BY <1>3, <1>4, FS_Subset
<1>6. Cardinality(A) \in Nat /\ Cardinality(B) \in Nat
    BY <1>5, FS_CardinalityType
<1>7. Cardinality(D) = Cardinality(A) + Cardinality(B) - Cardinality({})
    BY <1>4, <1>5, FS_Union
<1>8. Cardinality({}) = 0
    BY FS_EmptySet
<1>9. open_sessions(s) = Cardinality(A)
    BY DEF open_sessions, A, D
<1>10. open_sessions(s) \in Nat /\ Cardinality(B) = Len(s.contexts) - open_sessions(s)
    BY <1>2, <1>3, <1>6, <1>7, <1>8, <1>9
<1>11. ASSUME NEW t \in SysTopics PROVE value_of(s, t) \in Int
    <2>1. t \in Counters => s.g[t] \in Int
        BY <1>1 DEF Loaded
    <2>2. t \in Counters \/ t \in {"clients/total", "clients/inactive", "clients/active", "clients/maximum", "clients/expired",
                                     "heap/current", "heap/maximum"}
        BY DEF SysTopics, ClientTopics, HeapTopics
    <2> QED BY <1>1, <1>2, <1>10, <2>1, <2>2 DEF value_of
<1>12. Truth(s) \in [SysTopics -> Int]
    BY <1>11 DEF Truth
<1> QED BY <1>10, <1>12 DEF B, D

\* A set of clients or heap topics.
LEMMA FewTopics ==
    /\ ClientTopics \subseteq SysTopics /\ HeapTopics \subseteq SysTopics /\ Counters \subseteq SysTopics
    /\ SysTopics = (ClientTopics \cup HeapTopics) \cup Counters /\ ClientTopics \cap HeapTopics = {}
    /\ \A c \in Counters : c \notin ClientTopics /\ c \notin HeapTopics /\ c # "sockets"
    BY SysTreeAssumption DEF SysTopics, ClientTopics, HeapTopics

\* The values of the topics that are not counters.
LEMMA OtherValues ==
    ASSUME NEW s \in SysType
    PROVE  /\ Truth(s)["clients/active"] = open_sessions(s) /\ Truth(s)["clients/inactive"] = Len(s.contexts) - open_sessions(s)
           /\ Truth(s)["clients/total"] = Len(s.contexts) /\ Truth(s)["clients/maximum"] = Len(s.contexts)
           /\ Truth(s)["clients/expired"] = s.expired
           /\ Truth(s)["heap/current"] = s.memcount /\ Truth(s)["heap/maximum"] = s.max_memcount
           /\ \A c \in Counters : Truth(s)[c] = s.g[c]
<1>1. \A t \in ClientTopics \cup HeapTopics : t \in SysTopics /\ t \notin Counters
    BY FewTopics
<1>2. \A t \in SysTopics : Truth(s)[t] = value_of(s, t)
    BY DEF Truth
<1>3. \A c \in Counters : value_of(s, c) = s.g[c]
    <2> SUFFICES ASSUME NEW c \in Counters PROVE value_of(s, c) = s.g[c]
        OBVIOUS
    <2>1. c \notin {"clients/total", "clients/inactive", "clients/active", "clients/maximum", "clients/expired", "heap/current", "heap/maximum"}
        BY FewTopics DEF ClientTopics, HeapTopics
    <2> QED BY <2>1 DEF value_of
<1>4. value_of(s, "clients/active") = open_sessions(s)
    BY <1>1 DEF value_of, ClientTopics
<1>5. value_of(s, "clients/inactive") = Len(s.contexts) - open_sessions(s)
    BY <1>1 DEF value_of, ClientTopics
<1>6. value_of(s, "clients/total") = Len(s.contexts) /\ value_of(s, "clients/maximum") = Len(s.contexts)
    BY <1>1 DEF value_of, ClientTopics
<1>7. value_of(s, "clients/expired") = s.expired
    BY <1>1 DEF value_of, ClientTopics
<1>8. value_of(s, "heap/current") = s.memcount /\ value_of(s, "heap/maximum") = s.max_memcount
    BY <1>1 DEF value_of, HeapTopics
<1>9. \A c \in Counters : c \in SysTopics
    BY FewTopics
<1>10. \A t \in ClientTopics \cup HeapTopics : Truth(s)[t] = value_of(s, t)
    BY <1>1, <1>2
<1> QED BY <1>2, <1>3, <1>4, <1>5, <1>6, <1>7, <1>8, <1>9, <1>10 DEF ClientTopics, HeapTopics

\* First the clients are told.
LEMMA TellsClients ==
    ASSUME NEW s \in SysType, SysReady(s, Truth(s))
    PROVE  Told(s, Truth(s), _sys_update_clients(s), ClientTopics)
<1> DEFINE W == Truth(s)
           n == mqtt3_db_client_count(s)
           s1 == tell(s, "clients/total", n.count)
           s2 == tell(s1, "clients/inactive", n.inactive)
           s3 == tell(s2, "clients/active", s2.seen["clients/total"] - n.inactive)
           s4 == tell(s3, "clients/maximum", n.count)
           s5 == tell(s4, "clients/expired", s.expired)
<1>1. W \in [SysTopics -> Int] /\ open_sessions(s) \in Nat /\ Len(s.contexts) \in Nat
    <2>1. s.contexts \in Seq(BOOLEAN)
        BY DEF SysType
    <2>2. Len(s.contexts) \in Nat
        BY <2>1
    <2>3. W \in [SysTopics -> Int] /\ open_sessions(s) \in Nat
        BY TruthType
    <2> QED BY <2>2, <2>3
<1>2. n.count = W["clients/total"] /\ n.count = W["clients/maximum"] /\ n.inactive = W["clients/inactive"] /\ s.expired = W["clients/expired"]
    BY OtherValues, TruthType DEF mqtt3_db_client_count
<1>3. W["clients/active"] = W["clients/total"] - W["clients/inactive"]
    BY <1>1, OtherValues
<1>4. /\ "clients/total" \in SysTopics /\ "clients/inactive" \in SysTopics /\ "clients/active" \in SysTopics
      /\ "clients/maximum" \in SysTopics /\ "clients/expired" \in SysTopics
    BY FewTopics DEF ClientTopics
<1>5. _sys_update_clients(s) = s5
    BY DEF _sys_update_clients
<1>6. Told(s, W, s, {})
    BY DEF Told, SameElse
<1>7. SysReady(s, W)
    OBVIOUS
<1> HIDE DEF W, n
<1>8. Told(s, W, s1, {"clients/total"})
    <2>1. Told(s, W, s1, {} \cup {"clients/total"})
        BY <1>1, <1>2, <1>4, <1>6, <1>7, TellsOne
    <2> QED BY <2>1
<1> HIDE DEF s1
<1>9. Told(s, W, s2, {"clients/total"} \cup {"clients/inactive"})
    BY <1>1, <1>2, <1>4, <1>7, <1>8, TellsOne
<1> HIDE DEF s2
<1>10. s2.seen["clients/total"] - n.inactive = W["clients/active"]
    <2>1. s2.seen["clients/total"] = W["clients/total"]
        BY <1>4, <1>9 DEF Told
    <2> QED BY <1>2, <1>3, <2>1
<1>11. Told(s, W, s3, ({"clients/total"} \cup {"clients/inactive"}) \cup {"clients/active"})
    BY <1>1, <1>4, <1>7, <1>9, <1>10, TellsOne
<1> HIDE DEF s3
<1>12. Told(s, W, s4, (({"clients/total"} \cup {"clients/inactive"}) \cup {"clients/active"}) \cup {"clients/maximum"})
    BY <1>1, <1>2, <1>4, <1>7, <1>11, TellsOne
<1> HIDE DEF s4
<1>13. Told(s, W, s5, ((({"clients/total"} \cup {"clients/inactive"}) \cup {"clients/active"}) \cup {"clients/maximum"}) \cup {"clients/expired"})
    BY <1>1, <1>2, <1>4, <1>7, <1>12, TellsOne
<1>14. ClientTopics = ((({"clients/total"} \cup {"clients/inactive"}) \cup {"clients/active"}) \cup {"clients/maximum"}) \cup {"clients/expired"}
    BY DEF ClientTopics
<1> QED BY <1>5, <1>13, <1>14 DEF W

\* Then, after the loads, the memory.
LEMMA TellsMemory ==
    ASSUME NEW s \in SysType, NEW truth \in [SysTopics -> Int], SysReady(s, truth),
           truth["heap/current"] = s.memcount, truth["heap/maximum"] = s.max_memcount
    PROVE  Told(s, truth, _sys_update_memory(s), HeapTopics)
<1> DEFINE r1 == tell(s, "heap/current", s.memcount)
           r2 == tell(r1, "heap/maximum", s.max_memcount)
<1>1. "heap/current" \in SysTopics /\ "heap/maximum" \in SysTopics
    BY FewTopics DEF HeapTopics
<1>2. Told(s, truth, s, {})
    BY DEF Told, SameElse
<1>3. _sys_update_memory(s) = r2
    BY DEF _sys_update_memory
<1>4. Told(s, truth, r1, {} \cup {"heap/current"})
    BY <1>1, <1>2, TellsOne
<1> HIDE DEF r1
<1>5. Told(s, truth, r2, ({} \cup {"heap/current"}) \cup {"heap/maximum"})
    BY <1>1, <1>4, TellsOne
<1>6. HeapTopics = ({} \cup {"heap/current"}) \cup {"heap/maximum"}
    BY DEF HeapTopics
<1> QED BY <1>3, <1>5, <1>6

\* One counter, as a step of update_counters.
tell_counter(p, r, c) == tell(r, c, p.r.g[c])

\* The counters visited so far are told.
ToldSoFar(p, k, r) == Told(p.s, p.truth, r, HeapTopics \cup {p.seq[j] : j \in 1..k})

\* The walk over the counters.
CounterWalk == INSTANCE SequenceFolds WITH op <- tell_counter, Inv <- ToldSoFar

\* The induction that the theorem of CounterWalk assumes.
LEMMA CounterWalkInducts == CounterWalk!Induction
    BY NatInduct DEF CounterWalk!Induction

\* The counters in a list, each of them once.
LEMMA CounterList ==
    LET seq == SetToSeq(Counters)
        n == Cardinality(Counters)
    IN /\ n \in Nat /\ seq \in [1..n -> Counters] /\ IsInjective(seq) /\ \A c \in Counters : \E j \in 1..n : seq[j] = c
<1> DEFINE seq == SetToSeq(Counters)
           n == Cardinality(Counters)
<1>1. n \in Nat /\ ExistsBijection(1..n, Counters) /\ IsFiniteSet(Counters)
    BY SysTreeAssumption, FS_CardinalityType
<1>2. \E f : f \in [1..n -> Counters] /\ IsInjective(f)
    BY <1>1 DEF ExistsBijection, Bijection, Injection
<1>3. seq \in [1..n -> Counters] /\ IsInjective(seq)
    BY <1>2, Zenon DEF SetToSeq
<1> HIDE DEF seq
<1>4. seq \in Injection(1..n, Counters)
    BY <1>3 DEF Injection
<1>5. Cardinality(1..n) = n
    BY <1>1, FS_Interval
<1>6. seq \in Surjection(1..n, Counters)
    BY <1>1, <1>4, <1>5, FS_Injection
<1> QED BY <1>1, <1>3, <1>6 DEF Surjection, seq

\* At last the counters.
LEMMA TellsCounters ==
    ASSUME NEW s \in SysType, NEW truth \in [SysTopics -> Int], SysReady(s, truth),
           NEW r, Told(s, truth, r, HeapTopics), \A c \in Counters : truth[c] = s.g[c]
    PROVE  Told(s, truth, update_counters(r), HeapTopics \cup Counters)
<1> DEFINE seq == SetToSeq(Counters)
           n == Cardinality(Counters)
           p == [s |-> s, truth |-> truth, r |-> r, seq |-> seq]
<1>1. n \in Nat /\ seq \in [1..n -> Counters] /\ IsInjective(seq) /\ \A c \in Counters : \E j \in 1..n : seq[j] = c
    BY CounterList
<1>2. DOMAIN seq = 1..n
    BY <1>1
<1> HIDE DEF seq, n
<1>3. p.s = s /\ p.truth = truth /\ p.r = r /\ p.seq = seq
    OBVIOUS
<1> HIDE DEF p
<1>4. ToldSoFar(p, 0, r)
    <2>1. HeapTopics \cup {seq[j] : j \in 1..0} = HeapTopics
        OBVIOUS
    <2> QED BY <1>3, <2>1 DEF ToldSoFar
<1>5. ASSUME NEW k \in 1..n, NEW a, ToldSoFar(p, k - 1, a) PROVE ToldSoFar(p, k, tell_counter(p, a, seq[k]))
    <2> DEFINE T == HeapTopics \cup {seq[j] : j \in 1..(k - 1)}
    <2>1. Told(s, truth, a, T)
        BY <1>3, <1>5 DEF ToldSoFar
    <2>2. seq[k] \in Counters /\ seq[k] \in SysTopics
        BY <1>1, FewTopics
    <2>3. seq[k] \notin T
        <3>1. ASSUME NEW j \in 1..(k - 1) PROVE seq[j] # seq[k]
            <4>1. j \in 1..n /\ j # k
                BY <1>1
            <4> QED BY <1>1, <1>2, <4>1 DEF IsInjective
        <3> QED BY <2>2, <3>1, FewTopics
    <2>4. r.g[seq[k]] = truth[seq[k]]
        BY <2>2 DEF Told, SameElse
    <2>5. T \cup {seq[k]} = HeapTopics \cup {seq[j] : j \in 1..k}
        <3>1. 1..k = (1..(k - 1)) \cup {k}
            BY <1>1
        <3> QED BY <3>1
    <2> HIDE DEF T
    <2>6. Told(s, truth, tell(a, seq[k], truth[seq[k]]), T \cup {seq[k]})
        BY <2>1, <2>2, <2>3, TellsOne
    <2>7. tell_counter(p, a, seq[k]) = tell(a, seq[k], truth[seq[k]])
        BY <1>3, <2>4 DEF tell_counter
    <2> QED BY <1>3, <2>5, <2>6, <2>7 DEF ToldSoFar
<1>6. ToldSoFar(p, n, CounterWalk!Walk(p, r, seq))
    BY <1>1, <1>2, <1>4, <1>5, CounterWalk!WalkInvariant, CounterWalkInducts
<1>7. CounterWalk!Walk(p, r, seq) = update_counters(r)
    BY <1>3 DEF CounterWalk!Walk, CounterWalk!Greatest, FoldLeft, MapThenFoldSet, Max,
       tell_counter, update_counters, seq
<1>8. {seq[j] : j \in 1..n} = Counters
    BY <1>1
<1> QED BY <1>3, <1>6, <1>7, <1>8, FewTopics DEF ToldSoFar

-----------------------------------------------------------------------------
(* The invariant.                                                          *)

\* Nothing has happened before the first update.
Blank(s) ==
    /\ s.contexts = <<>> /\ s.expired = 0 /\ s.blocks = <<>> /\ s.memcount = 0 /\ s.max_memcount = 0 /\ ~s.fresh
    /\ \A c \in Loaded : s.g[c] = 0 /\ s.since[c] = 0
    /\ \A c \in Loaded, p \in Periods : s.load[c][p] = 0
    /\ \A t \in SysTopics : s.seen[t] = UnsignedMax

\* After it a reader has what the broker compares with, and what a counter has
\* counted since then is the difference.
Followed(s) ==
    /\ \A t \in SysTopics : s.retained[t] = s.seen[t]
    /\ \A c \in Counters : s.g[c] = s.seen[c] + s.since[c]

SysInv ==
    /\ sys \in SysType /\ sys.last_update <= sys.now
    /\ sys.last_update = 0 => Blank(sys)
    /\ sys.last_update # 0 => Followed(sys)
    /\ sys.g["sockets"] = sys.since["sockets"]
    /\ LoadIsAMean /\ MemoryIsCounted
    /\ sys.fresh => \A t \in SysTopics : sys.retained[t] = Truth(sys)[t]

\* The loads move on, between where they were and the rates since the last update.
LEMMA LoadsMove ==
    ASSUME NEW s \in SysType, s.last_update # 0, s.last_update < s.now, NEW top \in Nat,
           \A c \in Loaded : /\ difference(s, c) \in Nat /\ difference(s, c) <= s.since[c]
                            /\ rate(s.since[c], s.now - s.last_update) <= top,
           \A c \in Loaded, p \in Periods : s.load[c][p] <= top,
           NEW r, r = update_loads(s)
    PROVE  /\ r \in SysType /\ r.g["sockets"] = 0 /\ \A c \in Counters : r.g[c] = s.g[c]
           /\ \A c \in Loaded, p \in Periods : r.load[c][p] <= top
           /\ r.now = s.now /\ r.last_update = s.last_update /\ r.since = s.since /\ r.fastest = s.fastest
           /\ r.contexts = s.contexts /\ r.expired = s.expired /\ r.blocks = s.blocks /\ r.memcount = s.memcount
           /\ r.max_memcount = s.max_memcount /\ r.lost = s.lost /\ r.fresh = s.fresh /\ r.events = s.events
           /\ r.peak = s.peak /\ r.most = s.most
           /\ r.seen = s.seen /\ r.retained = s.retained
<1> DEFINE d == s.now - s.last_update
           new(c, p) == calc_load(p, rate(difference(s, c), d), s.load[c][p])
           load == [c \in Loaded |-> [p \in Periods |-> new(c, p)]]
           g == [s.g EXCEPT !["sockets"] = 0]
<1>1. d \in Nat /\ d > 0
    BY DEF SysType
<1>2. ASSUME NEW c \in Loaded, NEW p \in Periods PROVE new(c, p) \in Nat /\ new(c, p) <= top
    <2>1. s.since[c] \in Nat /\ s.load[c][p] \in Nat
        BY DEF SysType
    <2>2. rate(difference(s, c), d) \in Nat /\ rate(s.since[c], d) \in Nat /\ rate(difference(s, c), d) <= rate(s.since[c], d)
        <3> HIDE DEF d
        <3> QED BY <1>1, <2>1, RateGrows
    <2>3. rate(difference(s, c), d) <= top
        <3>1. rate(s.since[c], d) <= top
            OBVIOUS
        <3> HIDE DEF d
        <3> QED BY <2>2, <3>1
    <2> HIDE DEF d
    <2> QED BY <2>1, <2>2, <2>3, LoadBetween
<1> HIDE DEF d
<1>3. r = [s EXCEPT !.load = load, !.g = g]
    BY DEF update_loads, SysType, d
<1> HIDE DEF new
<1>4. load \in [Loaded -> [Periods -> Nat]] /\ \A c \in Loaded, p \in Periods : load[c][p] <= top
    BY <1>2
<1>5. s.g \in [Loaded -> Nat] /\ "sockets" \in Loaded /\ \A c \in Counters : c \in Loaded /\ c # "sockets"
    BY FewTopics DEF SysType, Loaded
<1>6. g \in [Loaded -> Nat] /\ g["sockets"] = 0 /\ \A c \in Counters : g[c] = s.g[c]
    BY <1>5
<1> HIDE DEF load, g
<1>7. r \in SysType
    BY <1>3, <1>4, <1>6 DEF SysType
<1>8. r.load = load /\ r.g = g
    BY <1>3 DEF SysType
<1>9. /\ r.now = s.now /\ r.last_update = s.last_update /\ r.since = s.since /\ r.fastest = s.fastest
      /\ r.contexts = s.contexts /\ r.expired = s.expired /\ r.blocks = s.blocks /\ r.memcount = s.memcount
      /\ r.max_memcount = s.max_memcount /\ r.lost = s.lost /\ r.fresh = s.fresh /\ r.events = s.events
      /\ r.peak = s.peak /\ r.most = s.most
      /\ r.seen = s.seen /\ r.retained = s.retained
    BY <1>3 DEF SysType
<1> QED BY <1>4, <1>6, <1>7, <1>8, <1>9

\* The rates since the last update, and the fastest there was, have a greatest.
LEMMA FastestRate ==
    ASSUME NEW s \in SysType, s.last_update < s.now,
           NEW rates, rates = {rate(s.since[c], s.now - s.last_update) : c \in Loaded} \cup {s.fastest},
           NEW top, top = CHOOSE r \in rates : \A q \in rates : q <= r
    PROVE  top \in Nat /\ s.fastest <= top /\ \A c \in Loaded : rate(s.since[c], s.now - s.last_update) <= top
<1> DEFINE f == [c \in Loaded |-> rate(s.since[c], s.now - s.last_update)]
           T == {f[c] : c \in Loaded}
<1>1. ASSUME NEW c \in Loaded PROVE f[c] \in Nat /\ f[c] = rate(s.since[c], s.now - s.last_update)
    <2>1. s.since[c] \in Nat /\ s.now - s.last_update \in Nat /\ s.now - s.last_update > 0
        BY DEF SysType
    <2>2. rate(s.since[c], s.now - s.last_update) \in Nat
        BY <2>1, RateGrows
    <2> QED BY <2>2
<1>2. rates = T \cup {s.fastest}
    OBVIOUS
<1>3. IsFiniteSet(Loaded)
    BY SysTreeAssumption, FS_AddElement DEF Loaded
<1>4. f \in Surjection(Loaded, T)
    BY DEF Surjection
<1>5. IsFiniteSet(T)
    <2> HIDE DEF f, T
    <2> QED BY <1>3, <1>4, FS_Surjection
<1>6. T \subseteq Nat /\ s.fastest \in Nat
    BY <1>1 DEF SysType
<1>7. rates \in SUBSET Int /\ IsFiniteSet(rates) /\ rates # {} /\ rates \subseteq Nat
    <2> HIDE DEF T
    <2>1. IsFiniteSet(T \cup {s.fastest})
        BY <1>5, FS_AddElement
    <2>2. T \cup {s.fastest} \subseteq Nat /\ T \cup {s.fastest} # {}
        BY <1>6
    <2>3. \A S : S \subseteq Nat => S \in SUBSET Int
        OBVIOUS
    <2> QED BY <1>2, <2>1, <2>2, <2>3
<1>8. \E m \in rates : \A q \in rates : q <= m
    BY <1>7, GreatestOf
<1>9. top \in rates /\ \A q \in rates : q <= top
    BY <1>8, Zenon
<1>10. \A c \in Loaded : rate(s.since[c], s.now - s.last_update) \in rates
    OBVIOUS
<1> QED BY <1>2, <1>7, <1>9, <1>10

\* Before the first update nothing is known, and nothing is wrong about it.
LEMMA ReadyToTell ==
    ASSUME SysInv
    PROVE  SysReady(sys, Truth(sys)) /\ Truth(sys) \in [SysTopics -> Int]
<1>1. sys \in SysType
    BY DEF SysInv
<1>2. Truth(sys) \in [SysTopics -> Int]
    BY <1>1, TruthType
<1>3. CASE sys.last_update = 0
    <2>1. Blank(sys)
        BY <1>3 DEF SysInv
    <2>2. open_sessions(sys) = 0 /\ Len(sys.contexts) = 0
        <3>1. sys.contexts = <<>>
            BY <2>1 DEF Blank
        <3>2. {i \in DOMAIN sys.contexts : sys.contexts[i]} = {} /\ Len(sys.contexts) = 0
            BY <3>1
        <3> QED BY <3>2, FS_EmptySet DEF open_sessions
    <2>3. ASSUME NEW t \in SysTopics PROVE Truth(sys)[t] = 0
        <3>1. CASE t \in Counters
            <4>1. t \in Loaded /\ sys.g[t] = 0
                BY <2>1, <3>1 DEF Blank, Loaded
            <4> QED BY <1>1, <3>1, <4>1, OtherValues
        <3>2. CASE t \in ClientTopics
            BY <1>1, <2>1, <2>2, <3>2, OtherValues DEF Blank, ClientTopics
        <3>3. CASE t \in HeapTopics
            BY <1>1, <2>1, <3>3, OtherValues DEF Blank, HeapTopics
        <3> QED BY <3>1, <3>2, <3>3 DEF SysTopics
    <2>4. \A t \in SysTopics : sys.seen[t] # 0
        BY <2>1, SysTreeAssumption DEF Blank
    <2> QED BY <1>2, <2>3, <2>4 DEF SysReady
<1>4. CASE sys.last_update # 0
    <2>1. Followed(sys)
        BY <1>4 DEF SysInv
    <2> QED BY <1>2, <2>1 DEF Followed, SysReady
<1> QED BY <1>3, <1>4

\* How things are depends on these alone.
LEMMA SameTruth ==
    ASSUME NEW s \in SysType, NEW r \in SysType, r.contexts = s.contexts, r.expired = s.expired, r.memcount = s.memcount,
           r.max_memcount = s.max_memcount, \A c \in Counters : r.g[c] = s.g[c]
    PROVE  \A t \in SysTopics : Truth(r)[t] = Truth(s)[t]
<1>1. open_sessions(r) = open_sessions(s)
    BY DEF open_sessions
<1> SUFFICES ASSUME NEW t \in SysTopics PROVE Truth(r)[t] = Truth(s)[t]
    OBVIOUS
<1>2. CASE t \in Counters
    BY <1>2, OtherValues
<1>3. CASE t \in ClientTopics
    BY <1>1, <1>3, OtherValues DEF ClientTopics
<1>4. CASE t \in HeapTopics
    BY <1>4, OtherValues DEF HeapTopics
<1> QED BY <1>2, <1>3, <1>4 DEF SysTopics

\* The loads after the clients have been told.
LEMMA LoadsFollow ==
    ASSUME SysInv, sys.last_update < sys.now, NEW s, Told(sys, Truth(sys), s, ClientTopics),
           NEW top \in Nat, sys.fastest <= top,
           \A c \in Loaded : rate(sys.since[c], sys.now - sys.last_update) <= top,
           NEW r, r = update_loads(s)
    PROVE  /\ r \in SysType /\ r.g["sockets"] = 0 /\ \A c \in Counters : r.g[c] = sys.g[c]
           /\ \A c \in Loaded, p \in Periods : r.load[c][p] <= top
           /\ r.now = sys.now /\ r.contexts = sys.contexts /\ r.expired = sys.expired /\ r.blocks = sys.blocks
           /\ r.memcount = sys.memcount /\ r.max_memcount = sys.max_memcount /\ r.lost = sys.lost /\ r.most = sys.most
           /\ r.seen = s.seen /\ r.retained = s.retained
<1>1. s \in SysType /\ SameElse(sys, s) /\ sys \in SysType
    BY DEF Told, SysInv
<1>2. \A c \in Loaded, p \in Periods : s.load[c][p] <= top
    <2> SUFFICES ASSUME NEW c \in Loaded, NEW p \in Periods PROVE s.load[c][p] <= top
        OBVIOUS
    <2>1. s.load[c][p] = sys.load[c][p] /\ sys.load[c][p] <= sys.fastest
        BY <1>1 DEF SameElse, SysInv, LoadIsAMean
    <2>2. s.load[c][p] \in Nat /\ sys.fastest \in Nat
        BY <1>1 DEF SysType
    <2> QED BY <2>1, <2>2
<1>3. CASE sys.last_update = 0
    <2>1. r = s
        BY <1>1, <1>3 DEF update_loads, SameElse
    <2>2. sys.g["sockets"] = 0
        <3>1. Blank(sys) /\ "sockets" \in Loaded
            BY <1>3 DEF SysInv, Loaded
        <3> QED BY <3>1 DEF Blank
    <2> QED BY <1>1, <1>2, <2>1, <2>2 DEF SameElse
<1>4. CASE sys.last_update # 0
    <2>1. ASSUME NEW c \in Loaded
          PROVE  /\ difference(s, c) \in Nat /\ difference(s, c) <= s.since[c]
                 /\ rate(s.since[c], s.now - s.last_update) <= top
        <3>1. s.since[c] = sys.since[c] /\ s.g[c] = sys.g[c] /\ sys.since[c] \in Nat /\ sys.g[c] \in Nat
            BY <1>1 DEF SameElse, SysType
        <3>2. rate(s.since[c], s.now - s.last_update) <= top
            BY <1>1, <3>1 DEF SameElse
        <3>3. CASE c = "sockets"
            <4>1. difference(s, c) = sys.g["sockets"] /\ sys.g["sockets"] = sys.since["sockets"]
                BY <3>1, <3>3 DEF difference, SysInv
            <4> QED BY <3>1, <3>2, <3>3, <4>1
        <3>4. CASE c # "sockets"
            <4>1. c \in Counters /\ c \in SysTopics /\ c \notin ClientTopics
                BY <3>4, FewTopics DEF Loaded
            <4>2. s.seen[c] = sys.seen[c] /\ sys.seen[c] \in Int
                BY <1>1, <4>1 DEF Told, SysType
            <4>3. sys.g[c] = sys.seen[c] + sys.since[c]
                BY <1>4, <4>1 DEF SysInv, Followed
            <4>4. s.g[c] - s.seen[c] = s.since[c]
                BY <3>1, <4>2, <4>3
            <4>5. difference(s, c) = s.since[c] % (UnsignedMax + 1)
                BY <3>4, <4>4 DEF difference
            <4>6. \A x \in Nat, y \in Nat \ {0} : x % (y + 1) \in Nat /\ x % (y + 1) <= x
                <5> SUFFICES ASSUME NEW x \in Nat, NEW y \in Nat \ {0} PROVE x % (y + 1) \in Nat /\ x % (y + 1) <= x
                    OBVIOUS
                <5>1. y + 1 \in Nat /\ y + 1 > 0
                    OBVIOUS
                <5> QED BY <5>1, Remainder
            <4> QED BY <3>1, <3>2, <4>5, <4>6, SysTreeAssumption
        <3> QED BY <3>3, <3>4
    <2>2. s.last_update # 0 /\ s.last_update < s.now
        BY <1>1, <1>4 DEF SameElse
    <2>3. /\ r \in SysType /\ r.g["sockets"] = 0 /\ \A c \in Counters : r.g[c] = s.g[c]
          /\ \A c \in Loaded, p \in Periods : r.load[c][p] <= top
          /\ r.now = s.now /\ r.contexts = s.contexts /\ r.expired = s.expired /\ r.blocks = s.blocks
          /\ r.memcount = s.memcount /\ r.max_memcount = s.max_memcount /\ r.lost = s.lost /\ r.most = s.most
          /\ r.seen = s.seen /\ r.retained = s.retained
        BY <1>1, <1>2, <2>1, <2>2, LoadsMove
    <2> QED BY <1>1, <2>3 DEF SameElse
<1> QED BY <1>3, <1>4

\* After the update a reader knows how things are.
LEMMA UpdateKeeps ==
    ASSUME SysInv, mqtt3_db_sys_update
    PROVE  SysInv'
<1> DEFINE W == Truth(sys)
           rates == {rate(sys.since[c], sys.now - sys.last_update) : c \in Loaded} \cup {sys.fastest}
           top == CHOOSE r \in rates : \A q \in rates : q <= r
           s1 == _sys_update_clients(sys)
           s2 == update_loads(s1)
           s3 == _sys_update_memory(s2)
           s4 == update_counters(s3)
           none == [c \in Loaded |-> 0]
           peak == higher(s4.peak, open_sessions(sys))
<1>1. sys \in SysType /\ sys.last_update < sys.now /\ sys.now \in Nat /\ sys.now # 0
    <2>1. sys \in SysType /\ sys.now - sys_interval > sys.last_update
        BY DEF SysInv, mqtt3_db_sys_update
    <2>2. sys.now \in Nat /\ sys.last_update \in Nat /\ sys_interval \in Nat
        BY <2>1, SysTreeAssumption DEF SysType
    <2> QED BY <2>1, <2>2
<1>2. sys' = [s4 EXCEPT !.last_update = sys.now, !.since = none, !.fresh = TRUE, !.fastest = top, !.peak = higher(@, open_sessions(sys))]
    BY DEF mqtt3_db_sys_update
<1>3. top \in Nat /\ sys.fastest <= top /\ \A c \in Loaded : rate(sys.since[c], sys.now - sys.last_update) <= top
    BY <1>1, FastestRate
<1>4. SysReady(sys, W) /\ W \in [SysTopics -> Int]
    BY ReadyToTell
<1>5. Told(sys, W, s1, ClientTopics)
    BY <1>1, <1>4, TellsClients
<1> HIDE DEF top, s1
<1>6. /\ s2 \in SysType /\ s2.g["sockets"] = 0 /\ \A c \in Counters : s2.g[c] = sys.g[c]
      /\ \A c \in Loaded, p \in Periods : s2.load[c][p] <= top
      /\ s2.now = sys.now /\ s2.contexts = sys.contexts /\ s2.expired = sys.expired /\ s2.blocks = sys.blocks
      /\ s2.memcount = sys.memcount /\ s2.max_memcount = sys.max_memcount /\ s2.lost = sys.lost /\ s2.most = sys.most
      /\ s2.seen = s1.seen /\ s2.retained = s1.retained
    BY <1>1, <1>3, <1>5, LoadsFollow
<1> HIDE DEF s2
<1>7. SysReady(s2, W)
    <2> SUFFICES ASSUME NEW t \in SysTopics PROVE s2.retained[t] = s2.seen[t] \/ s2.seen[t] # W[t]
        BY DEF SysReady
    <2>1. CASE t \in ClientTopics
        BY <1>5, <1>6, <2>1 DEF Told
    <2>2. CASE t \notin ClientTopics
        BY <1>4, <1>5, <1>6, <2>2 DEF Told, SysReady
    <2> QED BY <2>1, <2>2
<1>8. W["heap/current"] = s2.memcount /\ W["heap/maximum"] = s2.max_memcount /\ \A c \in Counters : W[c] = s2.g[c]
    BY <1>1, <1>6, OtherValues
<1> HIDE DEF W
<1>9. Told(s2, W, s3, HeapTopics)
    BY <1>4, <1>6, <1>7, <1>8, TellsMemory
<1> HIDE DEF s3
<1>10. Told(s2, W, s4, HeapTopics \cup Counters)
    BY <1>4, <1>6, <1>7, <1>8, <1>9, TellsCounters
<1> HIDE DEF s4
<1>11. s4 \in SysType /\ SameElse(s2, s4)
    BY <1>10 DEF Told
<1>12. ASSUME NEW t \in SysTopics PROVE s4.seen[t] = W[t] /\ s4.retained[t] = W[t]
    <2>1. CASE t \in HeapTopics \cup Counters
        BY <1>10, <2>1 DEF Told
    <2>2. CASE t \notin HeapTopics \cup Counters
        <3>1. t \in ClientTopics
            BY <2>2, FewTopics
        <3>2. s1.seen[t] = W[t] /\ s1.retained[t] = W[t]
            BY <1>5, <3>1 DEF Told
        <3>3. s4.seen[t] = s2.seen[t] /\ s4.retained[t] = s2.retained[t]
            BY <1>10, <2>2 DEF Told
        <3> QED BY <1>6, <3>2, <3>3
    <2> QED BY <2>1, <2>2
<1>13. none \in [Loaded -> Nat] /\ \A c \in Loaded : none[c] = 0
    OBVIOUS
<1> HIDE DEF none
<1>24. peak \in Nat
    BY <1>1, <1>11, TruthType DEF SysType, higher
<1>25. sys' = [s4 EXCEPT !.last_update = sys.now, !.since = none, !.fresh = TRUE, !.fastest = top, !.peak = peak]
    BY <1>2, <1>11 DEF SysType
<1> HIDE DEF peak
<1>14. sys' \in SysType
    BY <1>1, <1>3, <1>11, <1>13, <1>24, <1>25 DEF SysType
<1>15. /\ sys'.last_update = sys.now /\ sys'.since = none /\ sys'.fresh = TRUE /\ sys'.fastest = top
       /\ sys'.now = s4.now /\ sys'.g = s4.g /\ sys'.contexts = s4.contexts /\ sys'.expired = s4.expired
       /\ sys'.blocks = s4.blocks /\ sys'.memcount = s4.memcount /\ sys'.max_memcount = s4.max_memcount
       /\ sys'.lost = s4.lost /\ sys'.seen = s4.seen /\ sys'.retained = s4.retained /\ sys'.load = s4.load
       /\ sys'.most = s4.most
    BY <1>11, <1>25 DEF SysType
<1>16. /\ sys'.now = sys.now /\ sys'.g = s2.g /\ sys'.contexts = sys.contexts /\ sys'.expired = sys.expired
       /\ sys'.blocks = sys.blocks /\ sys'.memcount = sys.memcount /\ sys'.max_memcount = sys.max_memcount
       /\ sys'.lost = sys.lost /\ sys'.load = s2.load /\ sys'.most = sys.most
    BY <1>6, <1>11, <1>15 DEF SameElse
<1>17. \A t \in SysTopics : Truth(sys')[t] = W[t]
    BY <1>1, <1>6, <1>14, <1>16, SameTruth DEF W
<1>18. (sys.last_update # 0 => Followed(sys))' /\ (sys.last_update = 0 => Blank(sys))'
    <2>1. \A t \in SysTopics : sys'.retained[t] = sys'.seen[t]
        BY <1>12, <1>15
    <2>2. ASSUME NEW c \in Counters PROVE sys'.g[c] = sys'.seen[c] + sys'.since[c]
        <3>1. c \in SysTopics /\ c \in Loaded
            BY FewTopics DEF Loaded
        <3>2. sys'.g[c] = W[c] /\ sys'.seen[c] = W[c] /\ sys'.since[c] = 0
            BY <1>8, <1>12, <1>13, <1>15, <1>16, <3>1
        <3>3. W[c] \in Int
            BY <1>4, <3>1
        <3> QED BY <3>2, <3>3
    <2>3. Followed(sys)'
        BY <2>1, <2>2 DEF Followed
    <2> QED BY <1>1, <1>15, <2>3
<1>19. sys'.g["sockets"] = sys'.since["sockets"]
    BY <1>6, <1>13, <1>15, <1>16 DEF Loaded
<1>20. LoadIsAMean'
    <2>1. \A c \in Loaded, p \in Periods : sys'.load[c][p] \in Nat
        BY <1>14 DEF SysType
    <2> QED BY <1>6, <1>15, <1>16, <2>1 DEF LoadIsAMean
<1>21. MemoryIsCounted'
    BY <1>16 DEF SysInv, MemoryIsCounted
<1>22. sys'.last_update <= sys'.now
    BY <1>1, <1>15, <1>16
<1>23. \A t \in SysTopics : sys'.retained[t] = Truth(sys')[t]
    BY <1>12, <1>15, <1>17
<1> QED BY <1>14, <1>18, <1>19, <1>20, <1>21, <1>22, <1>23 DEF SysInv

-----------------------------------------------------------------------------
(* What happens between updates.                                           *)

\* Something happens: what was published stays, and a counter and what it has
\* counted since move together.
LEMMA HappensKeeps ==
    ASSUME SysInv, CanHappen, NEW s \in SysType, Happens(s),
           s.now = sys.now, s.last_update = sys.last_update, s.seen = sys.seen, s.retained = sys.retained,
           s.load = sys.load, s.fastest = sys.fastest,
           \A c \in Loaded : s.g[c] - s.since[c] = sys.g[c] - sys.since[c],
           s.memcount <= s.max_memcount,
           ~s.lost => s.memcount = allocated(s.blocks) /\ s.max_memcount = higher(s.most, allocated(s.blocks))
    PROVE  SysInv'
<1>1. sys \in SysType /\ sys.last_update # 0 /\ Followed(sys) /\ sys.last_update <= sys.now
    <2>1. sys \in SysType /\ sys.last_update > 0 /\ sys.last_update <= sys.now
        BY DEF SysInv, CanHappen
    <2>2. sys.last_update # 0
        BY <2>1 DEF SysType
    <2> QED BY <2>1, <2>2 DEF SysInv
<1> DEFINE events == s.events + 1
           most == higher(s.most, allocated(s.blocks))
<1>2. sys' = [s EXCEPT !.events = events, !.fresh = FALSE, !.most = most]
    BY DEF Happens, SysType
<1>3. sys' \in SysType
    <2>1. s.most \in Int /\ s.blocks \in Seq(Nat) /\ events \in Nat
        BY DEF SysType
    <2>2. most \in Int
        BY <2>1, SumOfOneMore DEF higher
    <2> HIDE DEF events, most
    <2> QED BY <1>2, <2>1, <2>2 DEF SysType
<1>4. /\ sys'.now = s.now /\ sys'.last_update = s.last_update /\ sys'.g = s.g /\ sys'.since = s.since
      /\ sys'.fastest = s.fastest /\ sys'.blocks = s.blocks /\ sys'.memcount = s.memcount
      /\ sys'.max_memcount = s.max_memcount /\ sys'.lost = s.lost /\ sys'.seen = s.seen /\ sys'.retained = s.retained
      /\ sys'.load = s.load /\ sys'.fresh = FALSE /\ sys'.most = most
    BY <1>2 DEF SysType
<1>5. ASSUME NEW c \in Loaded
      PROVE  s.g[c] \in Nat /\ s.since[c] \in Nat /\ sys.g[c] \in Nat /\ sys.since[c] \in Nat
    BY <1>1 DEF SysType
<1>6. Followed(sys)'
    <2>1. ASSUME NEW c \in Counters PROVE s.g[c] = s.seen[c] + s.since[c]
        <3>1. c \in Loaded /\ c \in SysTopics
            BY FewTopics DEF Loaded
        <3>2. sys.g[c] = sys.seen[c] + sys.since[c] /\ sys.seen[c] \in Int
            BY <1>1, <3>1 DEF Followed, SysType
        <3> QED BY <1>5, <3>1, <3>2
    <2> QED BY <1>1, <1>4, <2>1 DEF Followed
<1>7. sys'.g["sockets"] = sys'.since["sockets"]
    <2>1. "sockets" \in Loaded /\ sys.g["sockets"] = sys.since["sockets"]
        BY DEF Loaded, SysInv
    <2> QED BY <1>4, <1>5, <2>1
<1>8. LoadIsAMean' /\ MemoryIsCounted'
    BY <1>4 DEF LoadIsAMean, MemoryIsCounted, SysInv
<1> QED BY <1>1, <1>3, <1>4, <1>6, <1>7, <1>8 DEF SysInv

\* What is in use is not more than the most there was.
LEMMA MostSoFar ==
    ASSUME SysInv
    PROVE  /\ sys \in SysType /\ sys.memcount <= sys.max_memcount
           /\ ~sys.lost => sys.memcount = allocated(sys.blocks) /\ sys.max_memcount = higher(sys.most, allocated(sys.blocks))
<1>1. /\ sys \in SysType /\ sys.memcount <= sys.max_memcount
      /\ ~sys.lost => sys.memcount = allocated(sys.blocks) /\ sys.max_memcount = sys.most
    BY DEF SysInv, MemoryIsCounted
<1>2. sys.memcount \in Int /\ sys.max_memcount \in Int
    BY <1>1 DEF SysType
<1> QED BY <1>1, <1>2 DEF higher

\* Something is counted.
LEMMA CountKeeps ==
    ASSUME SysInv, Count
    PROVE  SysInv'
<1>1. /\ sys \in SysType /\ sys.memcount <= sys.max_memcount
      /\ ~sys.lost => sys.memcount = allocated(sys.blocks) /\ sys.max_memcount = higher(sys.most, allocated(sys.blocks))
    BY MostSoFar
<1>2. PICK c \in Loaded : Happens([sys EXCEPT !.g[c] = @ + 1, !.since[c] = @ + 1])
    BY DEF Count
<1> DEFINE g == [sys.g EXCEPT ![c] = @ + 1]
           since == [sys.since EXCEPT ![c] = @ + 1]
           s == [sys EXCEPT !.g = g, !.since = since]
<1>3. [sys EXCEPT !.g[c] = @ + 1, !.since[c] = @ + 1] = s
    BY <1>1 DEF SysType
<1>4. sys.g \in [Loaded -> Nat] /\ sys.since \in [Loaded -> Nat]
    BY <1>1 DEF SysType
<1>5. /\ g \in [Loaded -> Nat] /\ since \in [Loaded -> Nat]
      /\ \A e \in Loaded : g[e] - since[e] = sys.g[e] - sys.since[e]
    BY <1>4
<1> HIDE DEF g, since
<1>6. s \in SysType
    BY <1>1, <1>5 DEF SysType
<1>7. /\ s.now = sys.now /\ s.last_update = sys.last_update /\ s.seen = sys.seen /\ s.retained = sys.retained
      /\ s.load = sys.load /\ s.fastest = sys.fastest /\ s.g = g /\ s.since = since
      /\ s.memcount = sys.memcount /\ s.max_memcount = sys.max_memcount /\ s.lost = sys.lost /\ s.blocks = sys.blocks
      /\ s.most = sys.most
    BY <1>1 DEF SysType
<1>8. Happens(s) /\ CanHappen
    BY <1>2, <1>3 DEF Count
<1> HIDE DEF s
<1> QED BY <1>1, <1>5, <1>6, <1>7, <1>8, HappensKeeps

\* Clients come, go and expire.
LEMMA ClientsKeep ==
    ASSUME SysInv, ClientComes \/ ClientGoes \/ ClientExpires
    PROVE  SysInv'
<1>1. /\ sys \in SysType /\ sys.memcount <= sys.max_memcount
      /\ ~sys.lost => sys.memcount = allocated(sys.blocks) /\ sys.max_memcount = higher(sys.most, allocated(sys.blocks))
    BY MostSoFar
<1>2. sys.contexts \in Seq(BOOLEAN) /\ sys.expired \in Nat
    BY <1>1 DEF SysType
<1>3. ASSUME NEW contexts \in Seq(BOOLEAN), NEW expired \in Nat, CanHappen,
             Happens([sys EXCEPT !.contexts = contexts, !.expired = expired])
      PROVE  SysInv'
    <2> DEFINE s == [sys EXCEPT !.contexts = contexts, !.expired = expired]
    <2>1. s \in SysType
        BY <1>1 DEF SysType
    <2>2. /\ s.now = sys.now /\ s.last_update = sys.last_update /\ s.seen = sys.seen /\ s.retained = sys.retained
          /\ s.load = sys.load /\ s.fastest = sys.fastest /\ s.g = sys.g /\ s.since = sys.since
          /\ s.memcount = sys.memcount /\ s.max_memcount = sys.max_memcount /\ s.lost = sys.lost /\ s.blocks = sys.blocks
          /\ s.most = sys.most
        BY <1>1 DEF SysType
    <2>3. Happens(s)
        BY <1>3
    <2> HIDE DEF s
    <2> QED BY <1>1, <1>3, <2>1, <2>2, <2>3, HappensKeeps
<1>4. ASSUME NEW contexts \in Seq(BOOLEAN), CanHappen, Happens([sys EXCEPT !.contexts = contexts])
      PROVE  SysInv'
    <2>1. [sys EXCEPT !.contexts = contexts] = [sys EXCEPT !.contexts = contexts, !.expired = sys.expired]
        BY <1>1 DEF SysType
    <2> QED BY <1>2, <1>3, <1>4, <2>1
<1>5. CASE ClientComes
    <2>1. CASE Happens([sys EXCEPT !.contexts = Append(@, TRUE)])
        <3>1. Append(sys.contexts, TRUE) \in Seq(BOOLEAN)
            BY <1>2
        <3>2. [sys EXCEPT !.contexts = Append(@, TRUE)] = [sys EXCEPT !.contexts = Append(sys.contexts, TRUE)]
            BY <1>1 DEF SysType
        <3> QED BY <1>4, <1>5, <2>1, <3>1, <3>2 DEF ClientComes
    <2>2. ASSUME NEW i \in DOMAIN sys.contexts, Happens([sys EXCEPT !.contexts[i] = TRUE]) PROVE SysInv'
        <3>1. [sys.contexts EXCEPT ![i] = TRUE] \in Seq(BOOLEAN)
            BY <1>2
        <3>2. [sys EXCEPT !.contexts[i] = TRUE] = [sys EXCEPT !.contexts = [sys.contexts EXCEPT ![i] = TRUE]]
            BY <1>1 DEF SysType
        <3> QED BY <1>4, <1>5, <2>2, <3>1, <3>2 DEF ClientComes
    <2> QED BY <1>5, <2>1, <2>2 DEF ClientComes
<1>6. CASE ClientGoes
    <2>1. PICK i \in DOMAIN sys.contexts : Happens([sys EXCEPT !.contexts[i] = FALSE])
        BY <1>6 DEF ClientGoes
    <2>2. [sys.contexts EXCEPT ![i] = FALSE] \in Seq(BOOLEAN)
        BY <1>2
    <2>3. [sys EXCEPT !.contexts[i] = FALSE] = [sys EXCEPT !.contexts = [sys.contexts EXCEPT ![i] = FALSE]]
        BY <1>1 DEF SysType
    <2> QED BY <1>4, <1>6, <2>1, <2>2, <2>3 DEF ClientGoes
<1>7. CASE ClientExpires
    <2>1. PICK i \in DOMAIN sys.contexts : Happens([sys EXCEPT !.contexts = RemoveAt(@, i), !.expired = @ + 1])
        BY <1>7 DEF ClientExpires
    <2>2. RemoveAt(sys.contexts, i) \in Seq(BOOLEAN)
        <3>1. i \in 1..Len(sys.contexts)
            BY <1>2
        <3> QED BY <1>2, <3>1, WithoutOne
    <2>3. [sys EXCEPT !.contexts = RemoveAt(@, i), !.expired = @ + 1]
            = [sys EXCEPT !.contexts = RemoveAt(sys.contexts, i), !.expired = sys.expired + 1]
        BY <1>1 DEF SysType
    <2>4. sys.expired + 1 \in Nat
        BY <1>2
    <2> QED BY <1>3, <1>7, <2>1, <2>2, <2>3, <2>4 DEF ClientExpires
<1> QED BY <1>5, <1>6, <1>7

\* Memory is taken, given back, and changed in size.
LEMMA MemoryKeeps ==
    ASSUME SysInv, Memory
    PROVE  SysInv'
<1>1. /\ sys \in SysType /\ sys.memcount <= sys.max_memcount
      /\ ~sys.lost => sys.memcount = allocated(sys.blocks) /\ sys.max_memcount = sys.most
    BY DEF SysInv, MemoryIsCounted
<1>2. sys.blocks \in Seq(Nat) /\ sys.memcount \in Int /\ sys.max_memcount \in Int /\ sys.lost \in BOOLEAN
    BY <1>1 DEF SysType
<1>3. ASSUME NEW blocks \in Seq(Nat), NEW memcount \in Int, NEW max \in Int, NEW lost \in BOOLEAN,
             memcount <= max, ~lost => memcount = allocated(blocks) /\ max = higher(sys.most, allocated(blocks)), CanHappen,
             Happens([sys EXCEPT !.memcount = memcount, !.max_memcount = max, !.blocks = blocks, !.lost = lost])
      PROVE  SysInv'
    <2> DEFINE s == [sys EXCEPT !.memcount = memcount, !.max_memcount = max, !.blocks = blocks, !.lost = lost]
    <2>1. s \in SysType
        BY <1>1 DEF SysType
    <2>2. /\ s.now = sys.now /\ s.last_update = sys.last_update /\ s.seen = sys.seen /\ s.retained = sys.retained
          /\ s.load = sys.load /\ s.fastest = sys.fastest /\ s.g = sys.g /\ s.since = sys.since
          /\ s.memcount = memcount /\ s.max_memcount = max /\ s.lost = lost /\ s.blocks = blocks /\ s.most = sys.most
        BY <1>1 DEF SysType
    <2>3. Happens(s)
        BY <1>3
    <2> HIDE DEF s
    <2> QED BY <1>3, <2>1, <2>2, <2>3, HappensKeeps
<1> DEFINE max(n) == higher(n, sys.max_memcount)
<1>4. \A n \in Int : max(n) \in Int /\ n <= max(n) /\ (~sys.lost => max(n) = higher(sys.most, n))
    BY <1>1, <1>2 DEF higher
<1>5. CanHappen
    BY DEF Memory
<1>6. ASSUME NEW size \in BlockSizes, Happens(_mosquitto_malloc(sys, size)) PROVE SysInv'
    <2>1. size \in Nat
        BY SysTreeAssumption
    <2> DEFINE n == sys.memcount + size
               blocks == Append(sys.blocks, size)
    <2>2. _mosquitto_malloc(sys, size) = [sys EXCEPT !.memcount = n, !.max_memcount = max(n), !.blocks = blocks, !.lost = sys.lost]
        BY <1>1 DEF _mosquitto_malloc, counted, SysType
    <2>3. blocks \in Seq(Nat) /\ n \in Int
        BY <1>2, <2>1
    <2>4. ~sys.lost => n = allocated(blocks)
        BY <1>1, <1>2, <2>1, SumOfOneMore
    <2> HIDE DEF n, blocks, max
    <2>5. max(n) \in Int /\ n <= max(n) /\ (~sys.lost => max(n) = higher(sys.most, allocated(blocks)))
        BY <1>4, <2>3, <2>4
    <2>6. Happens([sys EXCEPT !.memcount = n, !.max_memcount = max(n), !.blocks = blocks, !.lost = sys.lost])
        BY <1>6, <2>2
    <2> QED BY <1>2, <1>3, <1>5, <2>3, <2>4, <2>5, <2>6
<1>7. ASSUME NEW i \in DOMAIN sys.blocks, Happens(_mosquitto_free(sys, i)) PROVE SysInv'
    <2>1. i \in 1..Len(sys.blocks) /\ sys.blocks[i] \in Nat
        BY <1>2
    <2> DEFINE n == sys.memcount - sys.blocks[i]
               blocks == RemoveAt(sys.blocks, i)
    <2>2. _mosquitto_free(sys, i)
            = [sys EXCEPT !.memcount = n, !.max_memcount = sys.max_memcount, !.blocks = blocks, !.lost = sys.lost]
        BY <1>1 DEF _mosquitto_free, SysType
    <2>3. blocks \in Seq(Nat)
        BY <1>2, <2>1, WithoutOne
    <2>4. n \in Int /\ n <= sys.max_memcount
        BY <1>1, <1>2, <2>1
    <2>5. ~sys.lost => n = allocated(blocks) /\ sys.max_memcount = higher(sys.most, n)
        BY <1>1, <1>2, <2>1, <2>4, SumWithoutOne DEF higher
    <2> HIDE DEF n, blocks
    <2> QED BY <1>2, <1>3, <1>5, <1>7, <2>2, <2>3, <2>4, <2>5
<1>8. ASSUME NEW i \in DOMAIN sys.blocks, NEW size \in BlockSizes \cup {NULL}, Happens(_mosquitto_realloc(sys, i, size))
      PROVE  SysInv'
    <2>1. i \in 1..Len(sys.blocks) /\ sys.blocks[i] \in Nat
        BY <1>2
    <2> DEFINE m == sys.memcount - sys.blocks[i]
    <2>2. m \in Int /\ m <= sys.max_memcount
        BY <1>1, <1>2, <2>1
    <2>3. CASE size = NULL
        <3>1. _mosquitto_realloc(sys, i, size)
                = [sys EXCEPT !.memcount = m, !.max_memcount = sys.max_memcount, !.blocks = sys.blocks, !.lost = TRUE]
            BY <1>1, <2>3 DEF _mosquitto_realloc, SysType
        <3> HIDE DEF m
        <3> QED BY <1>2, <1>3, <1>5, <1>8, <2>2, <3>1
    <2>4. CASE size # NULL
        <3>1. size \in Nat
            BY <2>4, SysTreeAssumption
        <3> DEFINE n == m + size
                   blocks == [sys.blocks EXCEPT ![i] = size]
        <3>2. _mosquitto_realloc(sys, i, size)
                = [sys EXCEPT !.memcount = n, !.max_memcount = max(n), !.blocks = blocks, !.lost = sys.lost]
            BY <1>1, <2>4 DEF _mosquitto_realloc, counted, SysType
        <3>3. blocks \in Seq(Nat) /\ n \in Int
            BY <1>2, <2>1, <2>2, <3>1
        <3>4. ~sys.lost => n = allocated(blocks)
            BY <1>1, <1>2, <2>1, <3>1, SumOfChanged
        <3> HIDE DEF n, blocks, max
        <3>5. max(n) \in Int /\ n <= max(n) /\ (~sys.lost => max(n) = higher(sys.most, allocated(blocks)))
            BY <1>4, <3>3, <3>4
        <3>6. Happens([sys EXCEPT !.memcount = n, !.max_memcount = max(n), !.blocks = blocks, !.lost = sys.lost])
            BY <1>8, <3>2
        <3> QED BY <1>2, <1>3, <1>5, <3>3, <3>4, <3>5, <3>6
    <2> QED BY <2>3, <2>4
<1> QED BY <1>6, <1>7, <1>8 DEF Memory

\* A second goes by.
LEMMA SecondKeeps ==
    ASSUME SysInv, Second
    PROVE  SysInv'
<1>1. sys \in SysType
    BY DEF SysInv
<1>2. sys' = [sys EXCEPT !.now = @ + 1, !.fresh = FALSE]
    BY DEF Second
<1>3. sys' \in SysType
    <2> DEFINE now == sys.now + 1
    <2>1. sys' = [sys EXCEPT !.now = now, !.fresh = FALSE]
        BY <1>1, <1>2 DEF SysType
    <2>2. now \in Nat
        BY <1>1 DEF SysType
    <2> HIDE DEF now
    <2> QED BY <1>1, <2>1, <2>2 DEF SysType
<1>4. /\ sys'.now = sys.now + 1 /\ sys'.last_update = sys.last_update /\ sys'.g = sys.g /\ sys'.since = sys.since
      /\ sys'.fastest = sys.fastest /\ sys'.contexts = sys.contexts /\ sys'.expired = sys.expired /\ sys'.blocks = sys.blocks
      /\ sys'.memcount = sys.memcount /\ sys'.max_memcount = sys.max_memcount /\ sys'.lost = sys.lost
      /\ sys'.seen = sys.seen /\ sys'.retained = sys.retained /\ sys'.load = sys.load /\ sys'.fresh = FALSE
      /\ sys'.most = sys.most
    BY <1>1, <1>2 DEF SysType
<1>5. sys.last_update = 0 => Blank(sys)'
    BY <1>4 DEF SysInv, Blank
<1>6. sys.last_update # 0 => Followed(sys)'
    BY <1>4 DEF SysInv, Followed
<1>7. LoadIsAMean' /\ MemoryIsCounted' /\ sys'.g["sockets"] = sys'.since["sockets"]
    BY <1>4 DEF SysInv, LoadIsAMean, MemoryIsCounted
<1>8. sys'.last_update <= sys'.now
    <2>1. sys.now \in Nat /\ sys.last_update \in Nat /\ sys.last_update <= sys.now
        BY <1>1 DEF SysType, SysInv
    <2> QED BY <1>4, <2>1
<1> QED BY <1>3, <1>4, <1>5, <1>6, <1>7, <1>8 DEF SysInv

\* At the start.
LEMMA SysStarts ==
    ASSUME SysInit
    PROVE  SysInv
<1>1. sys = [now |-> Boot, last_update |-> 0, g |-> [c \in Loaded |-> 0], since |-> [c \in Loaded |-> 0], fastest |-> 0,
             contexts |-> <<>>, expired |-> 0, peak |-> 0,
             blocks |-> <<>>, memcount |-> 0, max_memcount |-> 0, lost |-> FALSE, most |-> 0,
             seen |-> [t \in SysTopics |-> UnsignedMax], retained |-> [t \in SysTopics |-> NULL],
             load |-> [c \in Loaded |-> [p \in Periods |-> 0]], fresh |-> FALSE, events |-> 0]
    BY DEF SysInit
<1>2. sys \in SysType
    <2> DEFINE zeros == [c \in Loaded |-> 0]
               seen == [t \in SysTopics |-> UnsignedMax]
               retained == [t \in SysTopics |-> NULL]
               load == [c \in Loaded |-> [p \in Periods |-> 0]]
    <2>1. /\ Boot \in Nat /\ zeros \in [Loaded -> Nat] /\ seen \in [SysTopics -> Int]
          /\ retained \in [SysTopics -> Int \cup {NULL}] /\ load \in [Loaded -> [Periods -> Nat]]
        BY SysTreeAssumption
    <2>2. sys = [now |-> Boot, last_update |-> 0, g |-> zeros, since |-> zeros, fastest |-> 0,
                 contexts |-> <<>>, expired |-> 0, peak |-> 0,
             blocks |-> <<>>, memcount |-> 0, max_memcount |-> 0, lost |-> FALSE, most |-> 0,
                 seen |-> seen, retained |-> retained, load |-> load, fresh |-> FALSE, events |-> 0]
        BY <1>1
    <2> HIDE DEF zeros, seen, retained, load
    <2> QED BY <2>1, <2>2 DEF SysType
<1>3. /\ sys.now = Boot /\ sys.last_update = 0 /\ ~sys.fresh /\ Boot >= 0
    BY <1>1, SysTreeAssumption
<1>4. Blank(sys)
    BY <1>1 DEF Blank
<1>5. LoadIsAMean
    BY <1>1 DEF LoadIsAMean
<1>6. MemoryIsCounted
    BY <1>1, SumOfNone DEF MemoryIsCounted
<1>7. sys.g["sockets"] = sys.since["sockets"]
    BY <1>1
<1> QED BY <1>2, <1>3, <1>4, <1>5, <1>6, <1>7 DEF SysInv

\* What the broker publishes about itself is so, the maximum of memory included and only
\* the maximum of clients excepted (MaximumIsMaximum fails), for any counters, sizes of
\* blocks and length of the interval (SysTreeTells): mqtt3_db_sys_update and the
\* functions of memory_mosq.c.
THEOREM SysTreeTruth == SysSpec => []SysTreeTells
<1>1. SysInit => SysInv
    BY SysStarts
<1>2. SysInv /\ [SysNext]_sys => SysInv'
    <2> SUFFICES ASSUME SysInv, [SysNext]_sys PROVE SysInv'
        OBVIOUS
    <2>1. CASE UNCHANGED sys
        BY <2>1 DEF SysInv, LoadIsAMean, MemoryIsCounted
    <2> QED BY <2>1, UpdateKeeps, CountKeeps, ClientsKeep, MemoryKeeps, SecondKeeps DEF SysNext
<1>3. SysInv => SysTreeTells
    <2> SUFFICES ASSUME SysInv PROVE SysTreeTells
        OBVIOUS
    <2>1. sys \in SysType
        BY DEF SysInv
    <2>2. SysTreeAgrees
        <3> SUFFICES ASSUME sys.fresh PROVE /\ \A c \in Counters : sys.retained[c] = sys.g[c]
                                           /\ sys.retained["clients/active"] = open_sessions(sys)
                                           /\ sys.retained["clients/inactive"] = Len(sys.contexts) - open_sessions(sys)
                                           /\ sys.retained["clients/total"] = Len(sys.contexts)
                                           /\ sys.retained["clients/expired"] = sys.expired
                                           /\ sys.retained["heap/current"] = sys.memcount
                                           /\ sys.retained["heap/maximum"] = sys.max_memcount
            BY DEF SysTreeAgrees
        <3>1. \A t \in SysTopics : sys.retained[t] = Truth(sys)[t]
            BY DEF SysInv
        <3>2. /\ \A c \in Counters : c \in SysTopics
              /\ "clients/active" \in SysTopics /\ "clients/inactive" \in SysTopics /\ "clients/total" \in SysTopics
              /\ "clients/expired" \in SysTopics /\ "heap/current" \in SysTopics /\ "heap/maximum" \in SysTopics
            BY FewTopics DEF ClientTopics, HeapTopics
        <3> QED BY <2>1, <3>1, <3>2, OtherValues
    <2> QED BY <2>2 DEF SysInv, SysTreeTells
<1> QED BY <1>1, <1>2, <1>3, PTL DEF SysSpec
=============================================================================
