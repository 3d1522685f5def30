------------------------- MODULE DriveCommandsProofs -------------------------
(****************************************************************************)
(* Proofs about the numbers of a motion command, for every table of angles  *)
(* and every set of commands, and about all the parts of MCParts at once.   *)
(*                                                                          *)
(* Every conversion on the way rounds to zero; first what that costs, then  *)
(* that each encoding is undone at the other end, then, by induction over   *)
(* the rounds of can_thread, how a command that is given again settles.     *)
(****************************************************************************)
EXTENDS MCParts, StoreProofs, PartsProofs

(****************************************************************************)
(* Bytes: what one side encodes the other decodes.                          *)
(****************************************************************************)
LEMMA ByteRange ==
  ASSUME NEW x \in Int
  PROVE  /\ Byte(x, 0) \in 0 .. 255 /\ Byte(x, 1) \in 0 .. 255
         /\ Byte(x, 2) \in 0 .. 255 /\ Byte(x, 3) \in 0 .. 255
<1>1. Byte(x, 0) \in 0 .. 255 /\ Byte(x, 1) \in 0 .. 255  BY SMT DEF Byte
<1>2. Byte(x, 2) \in 0 .. 255 /\ Byte(x, 3) \in 0 .. 255  BY SMT DEF Byte
<1> QED  BY <1>1, <1>2, SMT

LEMMA WordBytes ==
  ASSUME NEW x \in Int, -32768 <= x, x <= 32767
  PROVE  hexbyte2short(short2hexbyte(x)) = x
<1> DEFINE b0 == x % 256
           b1 == (x \div 256) % 256
           y == 256 * b1 + b0
<1>1. Byte(x, 0) = b0 /\ Byte(x, 1) = b1  BY SMT DEF Byte
<1>2. b0 \in Int /\ b1 \in Int  BY SMT
<1>3. x >= 0 => y = x  BY SMT
<1>4. x < 0 => y = x + 65536  BY SMT
<1> HIDE DEF b0, b1
<1>5. hexbyte2short(short2hexbyte(x)) = Signed(y, 16)
  BY <1>1, SMT DEF hexbyte2short, short2hexbyte
<1>6. Signed(y, 16) = IF y >= 32768 THEN y - 65536 ELSE y
  <2>1. 2^(16 - 1) = 32768 /\ 2^16 = 65536  BY SMT
  <2> QED  BY <2>1, SMT DEF Signed
<1>7. y \in Int  BY <1>2, SMT
<1> HIDE DEF y
<1>8. (IF y >= 32768 THEN y - 65536 ELSE y) = x  BY <1>3, <1>4, <1>7, SMT
<1> QED  BY <1>5, <1>6, <1>8, SMT

LEMMA ObjectBytes ==
  ASSUME NEW op, NEW object \in Nat, object < 16777216, NEW param
  PROVE  Object(setSendFramData(op, object, param)) = object
<1> DEFINE b0 == object % 256
           b1 == (object \div 256) % 256
           b2 == (object \div 65536) % 256
<1>1. Byte(object, 0) = b0 /\ Byte(object, 1) = b1 /\ Byte(object, 2) = b2  BY SMT DEF Byte
<1>2. b0 \in Int /\ b1 \in Int /\ b2 \in Int /\ 65536 * b2 + 256 * b1 + b0 = object  BY SMT
<1> HIDE DEF b0, b1, b2
<1>3. Object(setSendFramData(op, object, param)) = 65536 * b2 + 256 * b1 + b0
  <2>1. PICK data : data = setSendFramData(op, object, param)  OBVIOUS
  <2>2. data[2] = Byte(object, 1) /\ data[3] = Byte(object, 2) /\ data[4] = Byte(object, 0)
    BY <2>1, SMT DEF setSendFramData
  <2> QED  BY <1>1, <2>1, <2>2, SMT DEF Object
<1> QED  BY <1>2, <1>3, SMT

Wide == {x \in Int : -2147483648 <= x /\ x < 2147483648}
FromBytes(b0, b1, b2, b3) == 16777216 * (IF b3 >= 128 THEN b3 - 256 ELSE b3) + 65536 * b2 + 256 * b1 + b0
LEMMA WideBytes ==
  ASSUME NEW x \in Wide
  PROVE  FromBytes(x % 256, (x \div 256) % 256, (x \div 65536) % 256, (x \div 16777216) % 256) = x
<1> DEFINE b0 == x % 256
           b1 == (x \div 256) % 256
           b2 == (x \div 65536) % 256
           b == x \div 16777216
           b3 == b % 256
<1>1. x \in Int /\ -2147483648 <= x /\ x < 2147483648  BY SMT DEF Wide
<1>2. x = 16777216 * b + 65536 * b2 + 256 * b1 + b0  BY <1>1, SMT
<1>3. b \in Int /\ -128 <= b /\ b < 128  BY <1>1, SMT
<1>4. b = IF b3 >= 128 THEN b3 - 256 ELSE b3
  <2>1. CASE b >= 0
    <3>1. b3 = b  BY <1>3, <2>1, SMT
    <3> QED  BY <1>3, <3>1, SMT
  <2>2. CASE b < 0
    <3>1. b3 = b + 256  BY <1>3, <2>2, SMT
    <3> QED  BY <1>3, <2>2, <3>1, SMT
  <2> QED  BY <1>3, <2>1, <2>2, SMT
<1> HIDE DEF b0, b1, b2, b3, b
<1>5. FromBytes(b0, b1, b2, b3) = x  BY <1>2, <1>4, SMT DEF FromBytes
<1> QED  BY <1>5 DEF b0, b1, b2, b3, b

LEMMA ValueBytes ==
  ASSUME NEW op, NEW object, NEW param \in Wide
  PROVE  Value(setSendFramData(op, object, param)) = param
<1>1. /\ Byte(param, 0) = param % 256 /\ Byte(param, 1) = (param \div 256) % 256
      /\ Byte(param, 2) = (param \div 65536) % 256 /\ Byte(param, 3) = (param \div 16777216) % 256
  BY SMT DEF Byte, Wide
<1>2. Value(setSendFramData(op, object, param)) =
        FromBytes(Byte(param, 0), Byte(param, 1), Byte(param, 2), Byte(param, 3))
  BY SMT DEF Value, setSendFramData, Signed, FromBytes
<1> QED  BY <1>1, <1>2, WideBytes
-----------------------------------------------------------------------------
(****************************************************************************)
(* Rounding to zero, and what it costs.                                     *)
(****************************************************************************)
LEMMA AbsIs == ASSUME NEW a \in Int PROVE Abs(a) \in Nat /\ (a >= 0 => Abs(a) = a) /\ (a <= 0 => Abs(a) = -a)
  BY SMT DEF Abs

LEMMA ClampIs ==
  ASSUME NEW a \in Int, NEW m \in Nat
  PROVE  /\ Clamp(a, m) \in -m .. m /\ Clamp(a, m) \in Int
         /\ a \in -m .. m => Clamp(a, m) = a
  BY SMT DEF Clamp

LEMMA Quotient ==
  ASSUME NEW a \in Nat, NEW b \in Nat, b >= 1
  PROVE  a \div b \in Nat /\ b * (a \div b) <= a /\ a < b * (a \div b) + b
<1>1. a \div b \in Nat  BY SMT
<1>2. b * (a \div b) <= a  BY SMT
<1>3. a < b * (a \div b) + b  BY SMT
<1> QED  BY <1>1, <1>2, <1>3

LEMMA OnlyQuotient ==
  ASSUME NEW a \in Nat, NEW b \in Nat, b >= 1, NEW q \in Nat, b * q <= a, a < b * q + b
  PROVE  a \div b = q
<1> DEFINE p == a \div b
<1>1. p \in Nat /\ b * p <= a /\ a < b * p + b  BY Quotient
<1> HIDE DEF p
<1>2. b * p \in Nat /\ b * q \in Nat  BY <1>1, SMT
<1>3. ASSUME p < q PROVE FALSE
  <2>1. b * (p + 1) <= b * q
    <3>1. p + 1 <= q  BY <1>1, <1>3, SMT
    <3> QED  BY <1>1, <3>1, SMT
  <2>2. b * (p + 1) = b * p + b  BY <1>1, SMT
  <2> QED  BY <1>1, <1>2, <2>1, <2>2, SMT
<1>4. ASSUME q < p PROVE FALSE
  <2>1. b * (q + 1) <= b * p
    <3>1. q + 1 <= p  BY <1>1, <1>4, SMT
    <3> QED  BY <1>1, <3>1, SMT
  <2>2. b * (q + 1) = b * q + b  BY SMT
  <2> QED  BY <1>1, <1>2, <2>1, <2>2, SMT
<1>5. p = q  BY <1>1, <1>3, <1>4, SMT
<1> QED  BY <1>5 DEF p

(* To round twice is to round once.                                         *)
LEMMA QuotientTwice ==
  ASSUME NEW a \in Nat, NEW b \in Nat, b >= 1
  PROVE  (a \div 10) \div b = a \div (10 * b)
<1> DEFINE p == a \div 10
           q == p \div b
<1>1. p \in Nat /\ 10 * p <= a /\ a < 10 * p + 10  BY SMT
<1>2. q \in Nat /\ b * q <= p /\ p < b * q + b  BY <1>1, Quotient
<1> HIDE DEF p, q
<1>3. 10 * b \in Nat /\ 10 * b >= 1  BY SMT
<1>4. (10 * b) * q = 10 * (b * q) /\ b * q \in Nat  BY <1>2, SMT
<1>5. (10 * b) * q <= a /\ a < (10 * b) * q + 10 * b  BY <1>1, <1>2, <1>4, SMT
<1>6. a \div (10 * b) = q  BY <1>2, <1>3, <1>5, OnlyQuotient
<1> QED  BY <1>6 DEF p, q

LEMMA TruncIs ==
  ASSUME NEW a \in Int, NEW b \in Nat, b >= 1
  PROVE  /\ Trunc(a, b) \in Int
         /\ a - b * Trunc(a, b) < b /\ -b < a - b * Trunc(a, b)
         /\ (a >= 0 => Trunc(a, b) >= 0) /\ (a <= 0 => Trunc(a, b) <= 0)
<1>1. CASE a >= 0
  <2>1. Trunc(a, b) = a \div b  BY <1>1, SMT DEF Trunc, Abs
  <2>2. a \in Nat  BY <1>1, SMT
  <2>3. a \div b \in Nat /\ b * (a \div b) <= a /\ a < b * (a \div b) + b  BY <2>2, Quotient
  <2>4. PICK q \in Nat : q = a \div b  BY <2>3
  <2>5. PICK p \in Int : p = b * q  BY <2>4, SMT
  <2>6. a - p < b /\ -b < a - p  BY <2>3, <2>4, <2>5, SMT
  <2>7. Trunc(a, b) = q /\ Trunc(a, b) >= 0  BY <2>1, <2>4, SMT
  <2>8. a <= 0 => q <= 0
    <3> SUFFICES ASSUME a <= 0, q >= 1 PROVE FALSE  BY <2>4, SMT
    <3>1. a = 0  BY <1>1, SMT
    <3>2. b * q >= b * 1  BY <2>4, SMT
    <3> QED  BY <2>3, <2>4, <3>1, <3>2, SMT
  <2> QED  BY <2>4, <2>5, <2>6, <2>7, <2>8
<1>2. CASE ~(a >= 0)
  <2>1. Trunc(a, b) = -((-a) \div b)  BY <1>2, SMT DEF Trunc, Abs
  <2>2. -a \in Nat  BY <1>2, SMT
  <2>3. (-a) \div b \in Nat /\ b * ((-a) \div b) <= -a /\ -a < b * ((-a) \div b) + b  BY <2>2, Quotient
  <2>4. PICK q \in Nat : q = (-a) \div b  BY <2>3
  <2>5. PICK p \in Int : p = b * q  BY <2>4, SMT
  <2>6. p <= -a /\ -a < p + b  BY <2>3, <2>4, <2>5
  <2>7. Trunc(a, b) = -q  BY <2>1, <2>4
  <2>8. b * (-q) = -p  BY <2>4, <2>5, SMT
  <2>9. a - (-p) < b /\ -b < a - (-p)  BY <2>5, <2>6, SMT
  <2>10. a - b * Trunc(a, b) < b /\ -b < a - b * Trunc(a, b)  BY <2>7, <2>8, <2>9
  <2>11. -q \in Int /\ -q <= 0  BY <2>4, SMT
  <2> QED  BY <1>2, <2>7, <2>10, <2>11
<1> QED  BY <1>1, <1>2
-----------------------------------------------------------------------------
(****************************************************************************)
(* Angles: the table is searched by its values, and its values are apart.   *)
(****************************************************************************)
LEMMA Int16Is == ASSUME NEW x \in Int16 PROVE x \in Int /\ -32768 <= x /\ x <= 32767
<1>1. 2^15 = 32768  BY SMT
<1>2. 2^15 \in Int  BY SMT
<1>3. PICK b : b = 2^15  OBVIOUS
<1>4. x \in -b .. b - 1  BY <1>3 DEF Int16
<1> QED  BY <1>1, <1>2, <1>3, <1>4, SMT

Sines == DOMAIN Linkage
LEMMA TableIs ==
  /\ Sines \subseteq Int /\ 0 \in Sines /\ -MaxSine \in Sines /\ MaxSine \in Sines
  /\ MaxSine \in Nat /\ MaxPulses \in Nat
  /\ \A s \in Sines : -MaxSine <= s /\ s <= MaxSine
  /\ \A s \in Sines : Linkage[s] \in Int /\ -MaxPulses <= Linkage[s] /\ Linkage[s] <= MaxPulses
<1>1. MaxSine \in Nat /\ MaxPulses \in Nat  BY SMT DEF MaxSine, MaxPulses
<1>2. Sines \subseteq -MaxSine .. MaxSine  BY LinkageAssumption DEF Sines
<1>3. \A s \in Sines : Linkage[s] \in -MaxPulses .. MaxPulses  BY LinkageAssumption DEF Sines
<1>4. 0 \in Sines /\ -MaxSine \in Sines /\ MaxSine \in Sines  BY LinkageAssumption DEF Sines
<1> QED  BY <1>1, <1>2, <1>3, <1>4, SMT

(* getCurAngle has an answer for every position ...                         *)
LEMMA CurSineIs == ASSUME CruPosition \in Int PROVE CurSine \in Sines
<1> DEFINE Far(s) == Abs(Linkage[s] - CruPosition)
           S == {Far(s) : s \in Sines}
<1>1. \A s \in Sines : Far(s) \in Nat
  <2> SUFFICES ASSUME NEW s \in Sines PROVE Far(s) \in Nat  OBVIOUS
  <2>1. Linkage[s] - CruPosition \in Int  BY TableIs
  <2> QED  BY <2>1, AbsIs
<1> HIDE DEF Far
<1>2. S \subseteq Nat /\ S # {}  BY <1>1, TableIs
<1>3. PICK k \in S : \A j \in S : k <= j  BY <1>2, HasLeast
<1>4. PICK s \in Sines : k = Far(s)  BY <1>3
<1>5. \A r \in Sines : Far(s) <= Far(r)  BY <1>3, <1>4
<1> QED  BY <1>5 DEF CurSine, Far, Sines

(* ... and for a position of the table the angle it belongs to.             *)
LEMMA CurSineExact == ASSUME NEW s \in Sines, CruPosition = Linkage[s] PROVE CurSine = s
<1>1. CruPosition \in Int  BY TableIs
<1>2. CurSine \in Sines  BY <1>1, CurSineIs
<1>3. \A r \in Sines : Abs(Linkage[CurSine] - CruPosition) <= Abs(Linkage[r] - CruPosition)
  <2> DEFINE Far(x) == Abs(Linkage[x] - CruPosition)
             Best(x) == \A r \in Sines : Far(x) <= Far(r)
  <2>1. Best(s)
    <3> SUFFICES ASSUME NEW r \in Sines PROVE Far(s) <= Far(r)  OBVIOUS
    <3>1. Linkage[s] - CruPosition = 0 /\ Linkage[r] - CruPosition \in Int  BY TableIs
    <3>2. Far(s) = 0 /\ Far(r) \in Nat  BY <3>1, AbsIs
    <3> HIDE DEF Far
    <3> QED  BY <3>2
  <2>2. CurSine = CHOOSE x \in Sines : Best(x)  BY DEF CurSine, Sines
  <2> HIDE DEF Best
  <2>3. Best(CurSine)  BY <2>1, <2>2
  <2> QED  BY <2>3 DEF Best
<1>4. PICK r \in Sines : r = CurSine  BY <1>2
<1>5. Linkage[r] = Linkage[s]
  <2>1. Linkage[r] \in Int /\ Linkage[s] \in Int  BY TableIs
  <2>2. Abs(Linkage[r] - CruPosition) <= Abs(Linkage[s] - CruPosition)  BY <1>3, <1>4
  <2>3. Linkage[s] - CruPosition = 0 /\ Linkage[r] - CruPosition \in Int  BY <2>1
  <2>4. Abs(Linkage[s] - CruPosition) = 0  BY <2>3, AbsIs
  <2>5. Abs(Linkage[r] - CruPosition) \in Nat  BY <2>3, AbsIs
  <2>6. Abs(Linkage[r] - CruPosition) = 0  BY <2>2, <2>4, <2>5
  <2>7. Linkage[r] - CruPosition = 0  BY <2>3, <2>6, SMT DEF Abs
  <2> QED  BY <2>1, <2>7
<1>6. r = s
  <2>1. r \in Int /\ s \in Int /\ Linkage[r] \in Int  BY TableIs
  <2>2. ~(r < s) /\ ~(s < r)  BY <1>5, <2>1, LinkageAssumption DEF Sines
  <2> QED  BY <2>1, <2>2
<1> QED  BY <1>4, <1>6

LEMMA CosineIs == ASSUME NEW s \in Sines PROVE Cosine[s] \in Int /\ Cosine[s] >= 900 /\ Cosine[s] <= 1000
<1> DEFINE q == 1000000 - s * s
           S == {c \in Nat : c >= 900 /\ (c + 1) * (c + 1) > q}
           Root(c) == c * c <= q /\ (c + 1) * (c + 1) > q
<1>1. s \in Int /\ -275 <= s /\ s <= 275  BY TableIs, SMT DEF MaxSine
<1>2. s * s \in Int /\ 0 <= s * s /\ s * s <= 75625
  <2>1. CASE s >= 0
    <3>1. s * s <= 275 * 275 /\ s * s >= 0  BY <1>1, <2>1, SMT
    <3> QED  BY <1>1, <3>1, SMT
  <2>2. CASE s < 0
    <3>1. (-s) * (-s) <= 275 * 275 /\ (-s) * (-s) >= 0 /\ (-s) * (-s) = s * s  BY <1>1, <2>2, SMT
    <3> QED  BY <1>1, <3>1, SMT
  <2> QED  BY <1>1, <2>1, <2>2, SMT
<1>3. q \in Int /\ 924375 <= q /\ q <= 1000000  BY <1>2, SMT
<1> HIDE DEF q
<1>4. \E c \in S : c = 1000
  <2>1. PICK c : c = 1000  OBVIOUS
  <2>2. c \in Nat /\ c >= 900 /\ (c + 1) * (c + 1) > q  BY <1>3, <2>1, SMT
  <2>3. c \in S  BY <2>2
  <2> QED  BY <2>1, <2>3
<1>5. S \subseteq Nat  OBVIOUS
<1> HIDE DEF S
<1>6. PICK c \in S : \A j \in S : c <= j  BY <1>4, <1>5, HasLeast
<1>7. c \in Nat /\ c >= 900 /\ (c + 1) * (c + 1) > q /\ c <= 1000
  <2>1. c <= 1000  BY <1>4, <1>6
  <2> QED  BY <2>1 DEF S
<1>8. c * c <= q
  <2>1. CASE c = 900  BY <1>3, <2>1, SMT
  <2>2. CASE c # 900
    <3>1. c - 1 \in Nat /\ c - 1 >= 900 /\ (c - 1) + 1 = c /\ ~(c <= c - 1)  BY <1>7, <2>2, SMT
    <3>2. c - 1 \notin S  BY <1>6, <3>1
    <3>3. ~(c * c > q)  BY <3>1, <3>2 DEF S
    <3>4. c * c \in Int  BY <1>7, SMT
    <3> QED  BY <1>3, <3>3, <3>4, SMT
  <2> QED  BY <2>1, <2>2
<1>9. c \in 900 .. 1000  BY <1>7, SMT
<1>10. s \in -MaxSine .. MaxSine  BY TableIs, SMT
<1>11. Cosine[s] = CHOOSE x \in 900 .. 1000 : Root(x)  BY <1>10 DEF Cosine, q
<1>12. \E x \in 900 .. 1000 : Root(x)  BY <1>7, <1>8, <1>9
<1> HIDE DEF Root
<1>13. Cosine[s] \in 900 .. 1000  BY <1>11, <1>12
<1> QED  BY <1>13, SMT
-----------------------------------------------------------------------------
(****************************************************************************)
(* Set points.                                                              *)
(****************************************************************************)
LEMMA Product ==
  ASSUME NEW a \in Int, NEW b \in Int, NEW m \in Nat, NEW n \in Nat,
         -m <= a, a <= m, -n <= b, b <= n
  PROVE  a * b \in Int /\ -(m * n) <= a * b /\ a * b <= m * n
<1>1. ASSUME NEW x \in Nat, NEW y \in Nat, x <= m, y <= n PROVE x * y \in Nat /\ x * y <= m * n
  <2>1. x * y <= m * y  BY <1>1, SMT
  <2>2. m * y <= m * n  BY <1>1, SMT
  <2>3. x * y \in Nat /\ m * y \in Nat /\ m * n \in Nat  BY SMT
  <2> QED  BY <2>1, <2>2, <2>3
<1>2. a * b \in Int /\ m * n \in Int  BY SMT
<1>3. CASE a >= 0 /\ b >= 0
  <2>1. a \in Nat /\ b \in Nat  BY <1>3
  <2>2. a * b \in Nat /\ a * b <= m * n  BY <1>1, <2>1
  <2> QED  BY <1>2, <2>2
<1>4. CASE a >= 0 /\ b < 0
  <2>1. a \in Nat /\ -b \in Nat /\ -b <= n  BY <1>4
  <2>2. a * (-b) \in Nat /\ a * (-b) <= m * n  BY <1>1, <2>1
  <2>3. a * (-b) = -(a * b)  BY SMT
  <2> QED  BY <1>2, <2>2, <2>3
<1>5. CASE a < 0 /\ b >= 0
  <2>1. -a \in Nat /\ b \in Nat /\ -a <= m  BY <1>5
  <2>2. (-a) * b \in Nat /\ (-a) * b <= m * n  BY <1>1, <2>1
  <2>3. (-a) * b = -(a * b)  BY SMT
  <2> QED  BY <1>2, <2>2, <2>3
<1>6. CASE a < 0 /\ b < 0
  <2>1. -a \in Nat /\ -b \in Nat /\ -a <= m /\ -b <= n  BY <1>6
  <2>2. (-a) * (-b) \in Nat /\ (-a) * (-b) <= m * n  BY <1>1, <2>1
  <2>3. (-a) * (-b) = a * b  BY SMT
  <2> QED  BY <1>2, <2>2, <2>3
<1> QED  BY <1>3, <1>4, <1>5, <1>6

LEMMA RpmIs ==
  ASSUME NEW v \in Int
  PROVE  /\ Rpm(v) \in Int /\ v * 191 - 100 * Rpm(v) < 100 /\ -100 < v * 191 - 100 * Rpm(v)
         /\ v = 0 => Rpm(v) = 0
<1>1. v * 191 \in Int /\ 100 \in Nat  OBVIOUS
<1>2. PICK r : r = Trunc(v * 191, 100)  OBVIOUS
<1>3. r \in Int /\ v * 191 - 100 * r < 100 /\ -100 < v * 191 - 100 * r
  BY <1>1, <1>2, TruncIs
<1>4. v = 0 => r = 0  BY <1>3
<1> QED  BY <1>2, <1>3, <1>4 DEF Rpm

Turn(s) == Trunc(s * 305, 556)
LEMMA TurnIs == ASSUME NEW s \in Sines PROVE Turn(s) \in Int /\ -151 <= Turn(s) /\ Turn(s) <= 151
<1>1. s \in Int /\ -275 <= s /\ s <= 275  BY TableIs, SMT DEF MaxSine
<1>2. s * 305 \in Int  BY <1>1
<1>3. PICK turn : turn = Trunc(s * 305, 556)  OBVIOUS
<1>4. turn \in Int /\ s * 305 - 556 * turn < 556 /\ -556 < s * 305 - 556 * turn  BY <1>2, <1>3, TruncIs
<1>5. -151 <= turn /\ turn <= 151  BY <1>1, <1>4
<1> QED  BY <1>3, <1>4, <1>5 DEF Turn

(* The wheels' speeds for a speed v at the angle s.                         *)
LeftSpeed(s, v) == Trunc(Rpm(v) * (Cosine[s] - Turn(s)), 1000)
RightSpeed(s, v) == Trunc(-Rpm(v) * (Cosine[s] + Turn(s)), 1000)
Fast == 163840

LEMMA WheelIs ==
  ASSUME NEW p \in Int, -144105200 <= p, p <= 144105200
  PROVE  /\ Trunc(p, 1000) \in Int /\ -Fast <= Trunc(p, 1000) /\ Trunc(p, 1000) <= Fast
         /\ p = 0 => Trunc(p, 1000) = 0
<1>1. PICK q : q = Trunc(p, 1000)  OBVIOUS
<1>2. q \in Int /\ p - 1000 * q < 1000 /\ -1000 < p - 1000 * q  BY <1>1, TruncIs, SMT
<1>3. -Fast <= q /\ q <= Fast /\ (p = 0 => q = 0)  BY <1>2, SMT DEF Fast
<1> QED  BY <1>1, <1>2, <1>3, SMT

LEMMA SpeedsAre ==
  ASSUME NEW s \in Sines, NEW v \in Int, -65536 <= v, v <= 65536
  PROVE  /\ LeftSpeed(s, v) \in Int /\ -Fast <= LeftSpeed(s, v) /\ LeftSpeed(s, v) <= Fast
         /\ RightSpeed(s, v) \in Int /\ -Fast <= RightSpeed(s, v) /\ RightSpeed(s, v) <= Fast
         /\ v = 0 => LeftSpeed(s, v) = 0 /\ RightSpeed(s, v) = 0
<1>1. PICK r : r = Rpm(v)  OBVIOUS
<1>2. r \in Int /\ -125200 <= r /\ r <= 125200 /\ (v = 0 => r = 0)
  <2>1. r \in Int /\ v * 191 - 100 * r < 100 /\ -100 < v * 191 - 100 * r /\ (v = 0 => r = 0)
    BY <1>1, RpmIs
  <2> QED  BY <2>1, SMT
<1>3. PICK x : x = Cosine[s] - Turn(s)  OBVIOUS
<1>4. PICK y : y = Cosine[s] + Turn(s)  OBVIOUS
<1>5. x \in Int /\ -1151 <= x /\ x <= 1151 /\ y \in Int /\ -1151 <= y /\ y <= 1151
  BY <1>3, <1>4, CosineIs, TurnIs, SMT
<1>6. 125200 \in Nat /\ 1151 \in Nat /\ 125200 * 1151 = 144105200  BY SMT
<1>7. PICK p : p = r * x  OBVIOUS
<1>8. PICK q : q = -(r * y)  OBVIOUS
<1>9. p \in Int /\ -144105200 <= p /\ p <= 144105200 /\ (v = 0 => p = 0)
  <2>1. r * x \in Int /\ -(125200 * 1151) <= r * x /\ r * x <= 125200 * 1151
    BY <1>2, <1>5, <1>6, Product, SMT
  <2>2. v = 0 => r * x = 0  BY <1>2, <1>5, SMT
  <2> QED  BY <1>6, <1>7, <2>1, <2>2, SMT
<1>10. q \in Int /\ -144105200 <= q /\ q <= 144105200 /\ (v = 0 => q = 0)
  <2>1. r * y \in Int /\ -(125200 * 1151) <= r * y /\ r * y <= 125200 * 1151
    BY <1>2, <1>5, <1>6, Product, SMT
  <2>2. v = 0 => r * y = 0  BY <1>2, <1>5, SMT
  <2> QED  BY <1>6, <1>8, <2>1, <2>2, SMT
<1>11. LeftSpeed(s, v) = Trunc(p, 1000)  BY <1>1, <1>3, <1>7 DEF LeftSpeed
<1>12. RightSpeed(s, v) = Trunc(q, 1000)
  <2>1. -r * y = q  BY <1>2, <1>5, <1>8, SMT
  <2> QED  BY <1>1, <1>4, <2>1 DEF RightSpeed
<1>13. /\ Trunc(p, 1000) \in Int /\ -Fast <= Trunc(p, 1000) /\ Trunc(p, 1000) <= Fast
       /\ p = 0 => Trunc(p, 1000) = 0
  BY <1>9, WheelIs, SMT
<1>14. /\ Trunc(q, 1000) \in Int /\ -Fast <= Trunc(q, 1000) /\ Trunc(q, 1000) <= Fast
       /\ q = 0 => Trunc(q, 1000) = 0
  BY <1>10, WheelIs, SMT
<1> QED  BY <1>9, <1>10, <1>11, <1>12, <1>13, <1>14

(* Dividing twice is dividing once, with signs too.                         *)
LEMMA TruncTwice ==
  ASSUME NEW a \in Int, NEW v \in Int, v # 0
  PROVE  Trunc(Trunc(a, 10), v) = Trunc(a, 10 * v)
<1> DEFINE x == Abs(a)
           m == Abs(v)
           p == x \div 10
           q == p \div m
<1>1. x \in Nat /\ m \in Nat /\ m >= 1 /\ Abs(10) = 10 /\ Abs(10 * v) = 10 * m /\ (10 * v > 0) = (v > 0)
  <2>1. x \in Nat  BY SMT DEF Abs
  <2>2. m \in Nat /\ m >= 1  BY SMT DEF Abs
  <2>3. Abs(10) = 10 /\ Abs(10 * v) = 10 * m  BY SMT DEF Abs
  <2>4. (10 * v > 0) = (v > 0)  BY SMT
  <2> QED  BY <2>1, <2>2, <2>3, <2>4
<1>2. Trunc(a, 10) = IF a >= 0 THEN p ELSE -p  BY <1>1, SMT DEF Trunc
<1> HIDE DEF x, m
<1>3. p \in Nat  BY <1>1, SMT
<1>4. Abs(p) = p /\ Abs(-p) = p  BY <1>3, SMT DEF Abs
<1>5. x \div (10 * m) = q  BY <1>1, QuotientTwice
<1>6. Trunc(a, 10 * v) = IF (a >= 0) = (v > 0) THEN q ELSE -q
  BY <1>1, <1>5 DEF Trunc, x
<1> HIDE DEF p
<1>7. p = 0 => q = 0  BY <1>1, SMT
<1>8. q \in Nat  BY <1>1, <1>3, Quotient
<1> HIDE DEF q
<1>9. CASE a >= 0
  <2>1. Trunc(a, 10) = p /\ p >= 0  BY <1>2, <1>3, <1>9
  <2>2. Trunc(p, v) = IF v > 0 THEN q ELSE -q
    BY <1>3, <1>4, <2>1, SMT DEF Trunc, m, q
  <2> QED  BY <1>6, <1>9, <2>1, <2>2
<1>10. CASE ~(a >= 0) /\ p # 0
  <2>1. PICK n : n = -p  OBVIOUS
  <2>2. Trunc(a, 10) = n /\ ~(n >= 0) /\ Abs(n) = p  BY <1>2, <1>3, <1>4, <1>10, <2>1
  <2>3. Trunc(n, v) = IF v > 0 THEN -q ELSE q  BY <1>8, <2>2, SMT DEF Trunc, m, q
  <2>4. Trunc(a, 10 * v) = IF v > 0 THEN -q ELSE q  BY <1>6, <1>10
  <2> QED  BY <2>2, <2>3, <2>4
<1>11. CASE ~(a >= 0) /\ p = 0
  <2>1. Trunc(a, 10) = 0 /\ q = 0
    <3>1. PICK n : n = -p  OBVIOUS
    <3>2. Trunc(a, 10) = n  BY <1>2, <1>11, <3>1
    <3>3. n \in Int /\ n <= 0  BY <1>3, <3>1
    <3>4. n >= 0
      <4>1. p <= 0  BY <1>11
      <4> QED  BY <1>3, <3>1, <4>1
    <3>5. n = 0  BY <3>3, <3>4
    <3> QED  BY <1>7, <1>11, <3>2, <3>5
  <2>2. PICK n : n = -q  OBVIOUS
  <2>3. n = 0
    <3>1. q <= 0  BY <2>1
    <3>2. n \in Int /\ n <= 0 /\ n >= 0  BY <1>8, <2>2, <3>1
    <3> QED  BY <3>2
  <2>4. PICK z : z = 0  OBVIOUS
  <2>5. Abs(z) = p /\ z \in Int /\ z >= 0  BY <1>4, <1>11, <2>4
  <2>6. Trunc(z, v) = IF v > 0 THEN q ELSE n
    BY <2>2, <2>5, SMT DEF Trunc, m, q
  <2>7. Trunc(a, 10 * v) = 0  BY <1>6, <2>1, <2>2, <2>3
  <2> QED  BY <2>1, <2>3, <2>4, <2>6, <2>7
<1> QED  BY <1>9, <1>10, <1>11

LEMMA TruncAtMost ==
  ASSUME NEW a \in Int, NEW v \in Int, v # 0, Abs(a) <= 1000 * Abs(v)
  PROVE  Abs(Trunc(a, v)) <= 1000
<1> DEFINE x == Abs(a)
           m == Abs(v)
           q == x \div m
<1>1. x \in Nat  BY SMT DEF Abs
<1>2. m \in Nat /\ m >= 1  BY SMT DEF Abs
<1>3. Trunc(a, v) = q \/ Trunc(a, v) = -q  BY DEF Trunc
<1>4. x <= 1000 * m  OBVIOUS
<1> HIDE DEF x, m
<1>5. q \in Nat /\ m * q <= x  BY <1>1, <1>2, Quotient
<1> HIDE DEF q
<1>6. q <= 1000
  <2> SUFFICES ASSUME q >= 1001 PROVE FALSE  BY <1>5, SMT
  <2>1. m * q >= m * 1001  BY <1>2, <1>5, SMT
  <2> QED  BY <1>1, <1>2, <1>4, <1>5, <2>1, SMT
<1> QED  BY <1>3, <1>5, <1>6, SMT DEF Abs

LEMMA WordIs ==
  ASSUME NEW c \in Words \cup {Stop}
  PROVE  /\ c.auto \in BOOLEAN
         /\ c.a \in Int /\ -32768 <= c.a /\ c.a <= 32767
         /\ c.v \in Int /\ -32768 <= c.v /\ c.v <= 32767
         /\ AskedSine(c) \in Sines
         /\ Asked(c) \in Int /\ -65536 <= Asked(c) /\ Asked(c) <= 65536
         /\ (Asked(c) = 0) = (c.v = 0)
<1>1. c.auto \in BOOLEAN
  <2>1. CASE c \in Words  BY <2>1, LinkageAssumption
  <2>2. CASE c = Stop  BY <2>2 DEF Stop
  <2> QED  BY <2>1, <2>2
<1>2. c.a \in Int /\ -32768 <= c.a /\ c.a <= 32767
  <2>1. CASE c \in Words
    <3>1. c.a \in Int16  BY <2>1, LinkageAssumption
    <3> QED  BY <3>1, Int16Is
  <2>2. CASE c = Stop
    <3>1. c.a = 0  BY <2>2 DEF Stop
    <3> QED  BY <3>1, SMT
  <2> QED  BY <2>1, <2>2
<1>3. c.v \in Int /\ -32768 <= c.v /\ c.v <= 32767
  <2>1. CASE c \in Words
    <3>1. c.v \in Int16  BY <2>1, LinkageAssumption
    <3> QED  BY <3>1, Int16Is
  <2>2. CASE c = Stop
    <3>1. c.v = 0  BY <2>2 DEF Stop
    <3> QED  BY <3>1, SMT
  <2> QED  BY <2>1, <2>2
<1>4. AskedSine(c) \in Sines
  <2>1. CASE c \in Words  BY <2>1, WordsAssumption DEF Sines
  <2>2. CASE c = Stop
    <3>1. c.auto = FALSE /\ c.a * 82 = 0  BY <2>2, SMT DEF Stop
    <3>2. Trunc(0, 10) = 0  BY TruncIs, SMT
    <3>3. Clamp(0, MaxSine) = 0  BY ClampIs, TableIs, SMT
    <3>4. AskedSine(c) = 0  BY <3>1, <3>2, <3>3 DEF AskedSine
    <3> QED  BY <3>4, TableIs
  <2> QED  BY <2>1, <2>2
<1>5. /\ Asked(c) \in Int /\ -65536 <= Asked(c) /\ Asked(c) <= 65536
      /\ (Asked(c) = 0) = (c.v = 0)
  <2>1. CASE c.auto
    <3>1. Asked(c) = Clamp(c.v, 1000)  BY <2>1 DEF Asked
    <3> QED  BY <1>3, <3>1, SMT DEF Clamp
  <2>2. CASE ~c.auto
    <3>1. Asked(c) = 2 * c.v  BY <2>2 DEF Asked
    <3> QED  BY <1>3, <3>1, SMT
  <2> QED  BY <2>1, <2>2
<1> QED  BY <1>1, <1>2, <1>3, <1>4, <1>5

(* Where the front drive is sent, and that a command that can be driven     *)
(* sends it to one place.                                                   *)
Allowed == Linkage[-MaxSine] .. Linkage[MaxSine]
Target(c) == IF c.auto /\ c.v = 0 THEN 0 ELSE Linkage[AskedSine(c)]

LEMMA AllowedIs ==
  /\ \A s \in Sines : Linkage[s] \in Allowed
  /\ 0 \in Allowed /\ Allowed \subseteq Int /\ Allowed \subseteq Wide
<1>1. Linkage[-MaxSine] \in Int /\ Linkage[MaxSine] \in Int  BY TableIs
<1>2. \A s \in Sines : Linkage[s] \in Allowed
  <2> SUFFICES ASSUME NEW s \in Sines PROVE Linkage[s] \in Allowed  OBVIOUS
  <2>1. s \in Int /\ -MaxSine <= s /\ s <= MaxSine /\ Linkage[s] \in Int /\ MaxSine \in Nat  BY TableIs
  <2>2. -MaxSine \in Sines /\ MaxSine \in Sines  BY TableIs
  <2>3. Linkage[-MaxSine] <= Linkage[s]
    <3>1. CASE s = -MaxSine  BY <1>1, <3>1
    <3>2. CASE -MaxSine < s
      <4>1. Linkage[-MaxSine] < Linkage[s]  BY <2>2, <3>2, LinkageAssumption DEF Sines
      <4> QED  BY <1>1, <2>1, <4>1
    <3> QED  BY <2>1, <3>1, <3>2
  <2>4. Linkage[s] <= Linkage[MaxSine]
    <3>1. CASE s = MaxSine  BY <1>1, <3>1
    <3>2. CASE s < MaxSine
      <4>1. Linkage[s] < Linkage[MaxSine]  BY <2>2, <3>2, LinkageAssumption DEF Sines
      <4> QED  BY <1>1, <2>1, <4>1
    <3> QED  BY <2>1, <3>1, <3>2
  <2> QED  BY <1>1, <2>1, <2>3, <2>4 DEF Allowed
<1>3. 0 \in Allowed  BY <1>1, LinkageAssumption DEF Allowed
<1>4. Allowed \subseteq Int  BY DEF Allowed
<1>5. Allowed \subseteq Wide
  <2> SUFFICES ASSUME NEW p \in Allowed PROVE p \in Wide  OBVIOUS
  <2>1. p \in Int /\ -MaxPulses <= p /\ p <= MaxPulses  BY <1>1, TableIs DEF Allowed
  <2> QED  BY <2>1, SMT DEF Wide, MaxPulses
<1> QED  BY <1>2, <1>3, <1>4, <1>5

LEMMA Positions ==
  ASSUME NEW c \in Words \cup {Stop}
  PROVE  /\ Target(c) \in Allowed
         /\ ~c.auto => Angle2Position(AngleOf(c.a)) = Target(c)
         /\ \A pos \in getExpPosition(c.a, vLimit(c.v)) :
              c.auto => pos \in Allowed /\ (Drivable(c) => pos = Target(c))
<1>1. /\ c.auto \in BOOLEAN /\ c.a \in Int /\ c.v \in Int /\ AskedSine(c) \in Sines
      /\ (Asked(c) = 0) = (c.v = 0)
  BY WordIs
<1>2. Target(c) \in Allowed  BY <1>1, AllowedIs DEF Target
<1>3. ~c.auto => Angle2Position(AngleOf(c.a)) = Target(c)
  BY DEF Target, Angle2Position, AngleOf, AskedSine
<1>4. ASSUME NEW pos \in getExpPosition(c.a, vLimit(c.v)), c.auto
      PROVE  pos \in Allowed /\ (Drivable(c) => pos = Target(c))
  <2>1. PICK v : v = vLimit(c.v)  OBVIOUS
  <2>2. v \in Int /\ (v = 0) = (c.v = 0)  BY <1>1, <2>1, SMT DEF vLimit, Clamp
  <2>3. CASE v = 0
    <3>1. pos = 0  BY <2>1, <2>3 DEF getExpPosition
    <3>2. Target(c) = 0  BY <1>4, <2>2, <2>3 DEF Target
    <3> QED  BY <3>1, <3>2, AllowedIs
  <2>4. CASE v # 0
    <3>1. PICK b : b = Clamp(c.a, 5000)  OBVIOUS
    <3>2. b \in Int  BY <1>1, <3>1, SMT DEF Clamp
    <3>3. b * 556 \in Int  BY <3>2
    <3>4. SineOf(c.a, v) = Trunc(b * 556, 10 * v)
      BY <2>2, <2>4, <3>1, <3>3, TruncTwice DEF SineOf
    <3>5. AskedSine(c) = Clamp(SineOf(c.a, v), MaxSine)
      BY <1>4, <2>1, <2>2, <2>4, <3>1, <3>4 DEF AskedSine, vLimit
    <3>6. Target(c) = Linkage[AskedSine(c)]  BY <2>2, <2>4 DEF Target
    <3>7. CASE Abs(SineOf(c.a, v)) <= 1000
      <4>1. pos = Angle2Position(SineOf(c.a, v))  BY <2>1, <2>4, <3>7 DEF getExpPosition
      <4>2. pos = Target(c)  BY <3>5, <3>6, <4>1 DEF Angle2Position
      <4> QED  BY <1>2, <4>2
    <3>8. CASE ~(Abs(SineOf(c.a, v)) <= 1000)
      <4>1. pos \in {Linkage[s] : s \in Sines}  BY <2>1, <2>4, <3>8 DEF getExpPosition, Sines
      <4>2. pos \in Allowed  BY <4>1, AllowedIs
      <4>3. ~Drivable(c)
        <5> SUFFICES ASSUME Drivable(c) PROVE FALSE  OBVIOUS
        <5>1. Abs(b) * 556 <= 10000 * Abs(v)
          BY <1>4, <2>1, <2>2, <2>4, <3>1 DEF Drivable, vLimit
        <5>2. Abs(b * 556) = Abs(b) * 556 /\ Abs(10 * v) = 10 * Abs(v)
          BY <2>2, <3>2, SMT DEF Abs
        <5>3. Abs(v) \in Int /\ Abs(b) \in Int  BY <2>2, <3>2, AbsIs
        <5>4. Abs(b * 556) <= 1000 * Abs(10 * v)  BY <5>1, <5>2, <5>3, SMT
        <5>5. 10 * v \in Int /\ 10 * v # 0  BY <2>2, <2>4, SMT
        <5>6. Abs(Trunc(b * 556, 10 * v)) <= 1000  BY <3>3, <5>4, <5>5, TruncAtMost
        <5> QED  BY <3>4, <3>8, <5>6
      <4> QED  BY <4>2, <4>3
    <3> QED  BY <3>7, <3>8
  <2> QED  BY <2>3, <2>4
<1> QED  BY <1>2, <1>3, <1>4
-----------------------------------------------------------------------------
(****************************************************************************)
(* The reply: what becomes of a speed v at the angle s on the way back.     *)
(****************************************************************************)
LEMMA VelocityBack ==
  ASSUME NEW s \in Sines, NEW v \in Int, -1000 <= v, v <= 1000,
         CruVelocity[1] = LeftSpeed(s, v) * DEC, CruVelocity[2] = RightSpeed(s, v) * DEC
  PROVE  /\ getCurVelocity \in Int
         /\ v * Cosine[s] - 1000 * getCurVelocity <= 2298
         /\ -2298 <= v * Cosine[s] - 1000 * getCurVelocity
<1>1. PICK r : r = Rpm(v)  OBVIOUS
<1>2. PICK c : c = Cosine[s]  OBVIOUS
<1>3. PICK turn : turn = Turn(s)  OBVIOUS
<1>4. r \in Int /\ v * 191 - 100 * r <= 99 /\ -99 <= v * 191 - 100 * r
  <2>1. r \in Int /\ v * 191 - 100 * r < 100 /\ -100 < v * 191 - 100 * r  BY <1>1, RpmIs
  <2> QED  BY <2>1, SMT
<1>5. c \in Int /\ 900 <= c /\ c <= 1000 /\ turn \in Int  BY <1>2, <1>3, CosineIs, TurnIs, SMT
<1>6. PICK rc \in Int : rc = r * c  BY <1>4, <1>5
<1>7. PICK rt \in Int : rt = r * turn  BY <1>4, <1>5
<1>8. PICK vc \in Int : vc = v * c  BY <1>5
<1>9. PICK x \in Int : x = LeftSpeed(s, v) /\ rc - rt - 1000 * x <= 999 /\ -999 <= rc - rt - 1000 * x
  <2>1. r * (c - turn) = rc - rt  BY <1>4, <1>5, <1>6, <1>7, SMT
  <2>2. PICK p \in Int : p = rc - rt  OBVIOUS
  <2>3. PICK x : x = Trunc(p, 1000)  OBVIOUS
  <2>4. x \in Int /\ p - 1000 * x < 1000 /\ -1000 < p - 1000 * x  BY <2>3, TruncIs, SMT
  <2>5. x = LeftSpeed(s, v)  BY <1>1, <1>2, <1>3, <2>1, <2>2, <2>3 DEF LeftSpeed
  <2>6. rc - rt - 1000 * x <= 999 /\ -999 <= rc - rt - 1000 * x  BY <2>2, <2>4, SMT
  <2> QED  BY <2>4, <2>5, <2>6
<1>10. PICK y \in Int : y = RightSpeed(s, v) /\ -rc - rt - 1000 * y <= 999 /\ -999 <= -rc - rt - 1000 * y
  <2>1. -r * (c + turn) = 0 - rc - rt  BY <1>4, <1>5, <1>6, <1>7, SMT
  <2>2. PICK p \in Int : p = 0 - rc - rt
    <3>1. 0 - rc - rt \in Int  OBVIOUS
    <3> QED  BY <3>1
  <2>3. PICK y : y = Trunc(p, 1000)  OBVIOUS
  <2>4. y \in Int /\ p - 1000 * y < 1000 /\ -1000 < p - 1000 * y  BY <2>3, TruncIs, SMT
  <2>5. y = RightSpeed(s, v)  BY <1>1, <1>2, <1>3, <2>1, <2>2, <2>3 DEF RightSpeed
  <2>6. -rc - rt - 1000 * y <= 999 /\ -999 <= -rc - rt - 1000 * y  BY <2>2, <2>4, SMT
  <2> QED  BY <2>4, <2>5, <2>6
<1>11. PICK g \in Int : g = getVelocity /\ x - y - 2 * g <= 1 /\ -1 <= x - y - 2 * g
  <2>1. PICK d \in Int : d = CruVelocity[1] - CruVelocity[2] /\ d = 2731 * (x - y)
    <3>1. x * DEC - y * DEC = 2731 * (x - y)  BY SMT DEF DEC
    <3> QED  BY <1>9, <1>10, <3>1
  <2>2. PICK h : h = Trunc(d, 2)  OBVIOUS
  <2>3. h \in Int /\ d - 2 * h < 2 /\ -2 < d - 2 * h  BY <2>2, TruncIs, SMT
  <2>4. PICK g : g = Trunc(h, DEC)  OBVIOUS
  <2>5. DEC \in Nat /\ DEC >= 1 /\ DEC = 2731  BY SMT DEF DEC
  <2>6. g \in Int /\ h - DEC * g < DEC /\ -DEC < h - DEC * g  BY <2>3, <2>4, <2>5, TruncIs
  <2>7. h - 2731 * g < 2731 /\ -2731 < h - 2731 * g  BY <2>5, <2>6
  <2>8. x - y - 2 * g <= 1 /\ -1 <= x - y - 2 * g  BY <2>1, <2>3, <2>6, <2>7, SMT
  <2>9. g = getVelocity  BY <2>1, <2>2, <2>4 DEF getVelocity
  <2> QED  BY <2>6, <2>8, <2>9
<1>12. PICK u \in Int : u = getCurVelocity /\ 100 * g - 191 * u <= 190 /\ -190 <= 100 * g - 191 * u
  <2>1. PICK p \in Int : p = g * 100  OBVIOUS
  <2>2. PICK u : u = Trunc(p, 191)  OBVIOUS
  <2>3. u \in Int /\ p - 191 * u < 191 /\ -191 < p - 191 * u  BY <2>2, TruncIs, SMT
  <2>4. u = getCurVelocity  BY <1>11, <2>1, <2>2 DEF getCurVelocity, MmPerS
  <2>5. 100 * g - 191 * u <= 190 /\ -190 <= 100 * g - 191 * u  BY <2>1, <2>3, SMT
  <2> QED  BY <2>3, <2>4, <2>5
<1>13. 191 * vc - 100 * rc <= 99000 /\ -99000 <= 191 * vc - 100 * rc
  <2>1. PICK e \in Int : e = v * 191 - 100 * r
    <3>1. v * 191 - 100 * r \in Int  BY <1>4, SMT
    <3> QED  BY <3>1
  <2>2. -99 <= e /\ e <= 99 /\ 99 \in Nat /\ 1000 \in Nat /\ -1000 <= c /\ 99 * 1000 = 99000
    BY <1>4, <1>5, <2>1, SMT
  <2>3. e * c <= 99 * 1000 /\ -(99 * 1000) <= e * c  BY <1>5, <2>2, Product
  <2>4. e * c = 191 * vc - 100 * rc  BY <1>4, <1>5, <1>6, <1>8, <2>1, SMT
  <2> QED  BY <2>2, <2>3, <2>4
<1>14. vc - 1000 * u <= 2298 /\ -2298 <= vc - 1000 * u
  BY <1>9, <1>10, <1>11, <1>12, <1>13, SMT
<1> QED  BY <1>2, <1>8, <1>12, <1>14

LEMMA ReplyNear ==
  ASSUME CurSine \in Sines, NEW v \in Int, -1000 <= v, v <= 1000,
         CruVelocity[1] = LeftSpeed(CurSine, v) * DEC, CruVelocity[2] = RightSpeed(CurSine, v) * DEC
  PROVE  /\ getCurVelocity \in Int /\ -32768 <= getCurVelocity /\ getCurVelocity <= 32767
         /\ getCurAngleVel \in Int /\ -32768 <= getCurAngleVel /\ getCurAngleVel <= 32767
         /\ Near(getCurVelocity, Trunc(v * Cosine[CurSine], 1000), 3)
         /\ Near(getCurAngleVel, Trunc(v * CurSine * 10, 556), 40)
<1>1. PICK s \in Sines : s = CurSine  OBVIOUS
<1>2. PICK c : c = Cosine[s]  OBVIOUS
<1>3. PICK u : u = getCurVelocity  OBVIOUS
<1>4. c \in Int /\ 900 <= c /\ c <= 1000 /\ s \in Int /\ -275 <= s /\ s <= 275
  <2>1. c \in Int /\ 900 <= c /\ c <= 1000  BY <1>2, CosineIs, SMT
  <2>2. s \in Int /\ -275 <= s /\ s <= 275  BY <1>1, TableIs, SMT DEF MaxSine
  <2> QED  BY <2>1, <2>2
<1>5. PICK vc \in Int : vc = v * c  BY <1>4
<1>6. u \in Int /\ vc - 1000 * u <= 2298 /\ -2298 <= vc - 1000 * u
  BY <1>1, <1>2, <1>3, <1>5, VelocityBack
<1>7. -1000000 <= vc /\ vc <= 1000000
  <2>1. 1000 \in Nat /\ -1000 <= c /\ 1000 * 1000 = 1000000  BY <1>4, SMT
  <2>2. v * c <= 1000 * 1000 /\ -(1000 * 1000) <= v * c  BY <1>4, <2>1, Product
  <2> QED  BY <1>5, <2>1, <2>2
<1>8. -1002 <= u /\ u <= 1002  BY <1>6, <1>7, SMT
<1>9. Near(u, Trunc(vc, 1000), 3)
  <2>1. PICK e : e = Trunc(vc, 1000)  OBVIOUS
  <2>2. e \in Int /\ vc - 1000 * e < 1000 /\ -1000 < vc - 1000 * e  BY <2>1, TruncIs, SMT
  <2>3. u - e <= 3 /\ -3 <= u - e  BY <1>6, <2>2, SMT
  <2> QED  BY <1>6, <2>1, <2>2, <2>3, SMT DEF Near, Abs
<1>10. PICK us \in Int : us = u * s  BY <1>4, <1>6
<1>11. PICK vs \in Int : vs = v * s  BY <1>4
<1>12. PICK x \in Int : /\ x = Trunc(us * 100, c)
                        /\ 100 * us - c * x <= c - 1 /\ -(c - 1) <= 100 * us - c * x
  <2>1. PICK p \in Int : p = us * 100  OBVIOUS
  <2>2. c \in Nat /\ c >= 1  BY <1>4, SMT
  <2>3. PICK x : x = Trunc(p, c)  OBVIOUS
  <2>4. x \in Int /\ p - c * x < c /\ -c < p - c * x  BY <2>2, <2>3, TruncIs
  <2>5. PICK cx \in Int : cx = c * x  BY <1>4, <2>4
  <2>6. 100 * us - cx <= c - 1 /\ -(c - 1) <= 100 * us - cx  BY <1>4, <2>1, <2>4, <2>5, SMT
  <2> QED  BY <2>1, <2>3, <2>4, <2>5, <2>6
<1>13. PICK cx \in Int : cx = c * x  BY <1>4
<1>14. PICK cvs \in Int : cvs = c * vs  BY <1>4
<1>15. cvs - 1000 * us <= 631950 /\ -631950 <= cvs - 1000 * us
  <2>1. PICK e \in Int : e = vc - 1000 * u  BY <1>6
  <2>2. -2298 <= e /\ e <= 2298 /\ 2298 \in Nat /\ 275 \in Nat /\ 2298 * 275 = 631950  BY <1>6, <2>1, SMT
  <2>3. e * s <= 2298 * 275 /\ -(2298 * 275) <= e * s  BY <1>4, <2>2, Product
  <2>4. e * s = cvs - 1000 * us  BY <1>4, <1>5, <1>6, <1>10, <1>11, <1>14, <2>1, SMT
  <2> QED  BY <2>2, <2>3, <2>4
<1>16. cvs - 10 * cx <= 641940 /\ -641940 <= cvs - 10 * cx  BY <1>4, <1>12, <1>13, <1>15, SMT
<1>17. vs - 10 * x <= 713 /\ -713 <= vs - 10 * x
  <2>1. PICK y \in Int : y = vs - 10 * x  OBVIOUS
  <2>2. PICK cy \in Int : cy = c * y  BY <1>4
  <2>3. cy = cvs - 10 * cx  BY <1>4, <1>13, <1>14, <2>1, <2>2, SMT
  <2>4. y <= 713
    <3> SUFFICES ASSUME y >= 714 PROVE FALSE  BY SMT
    <3>1. c * y >= c * 714  BY <1>4, SMT
    <3> QED  BY <1>4, <1>16, <2>2, <2>3, <3>1, SMT
  <2>5. y >= -713
    <3> SUFFICES ASSUME -y >= 714 PROVE FALSE  BY SMT
    <3>1. c * (-y) >= c * 714  BY <1>4, SMT
    <3>2. c * (-y) = -cy  BY <1>4, <2>2, SMT
    <3> QED  BY <1>4, <1>16, <2>3, <3>1, <3>2, SMT
  <2> QED  BY <2>1, <2>4, <2>5
<1>18. PICK w \in Int : w = getCurAngleVel /\ 100 * x - 556 * w <= 555 /\ -555 <= 100 * x - 556 * w
  <2>1. PICK p \in Int : p = x * 100  OBVIOUS
  <2>2. PICK w : w = Trunc(p, 556)  OBVIOUS
  <2>3. w \in Int /\ p - 556 * w < 556 /\ -556 < p - 556 * w  BY <2>2, TruncIs, SMT
  <2>4. w = getCurAngleVel
    BY <1>1, <1>2, <1>3, <1>10, <1>12, <2>1, <2>2 DEF getCurAngleVel
  <2>5. 100 * x - 556 * w <= 555 /\ -555 <= 100 * x - 556 * w  BY <2>1, <2>3, SMT
  <2> QED  BY <2>3, <2>4, <2>5
<1>19. PICK z \in Int : z = Trunc(vs * 10, 556) /\ 10 * vs - 556 * z <= 555 /\ -555 <= 10 * vs - 556 * z
  <2>1. PICK p \in Int : p = vs * 10  OBVIOUS
  <2>2. PICK z : z = Trunc(p, 556)  OBVIOUS
  <2>3. z \in Int /\ p - 556 * z < 556 /\ -556 < p - 556 * z  BY <2>2, TruncIs, SMT
  <2>4. 10 * vs - 556 * z <= 555 /\ -555 <= 10 * vs - 556 * z  BY <2>1, <2>3, SMT
  <2> QED  BY <2>1, <2>2, <2>3, <2>4
<1>20. Near(w, z, 40)
  <2>1. w - z <= 40 /\ -40 <= w - z  BY <1>17, <1>18, <1>19, SMT
  <2> QED  BY <2>1, SMT DEF Near, Abs
<1>21. -32768 <= w /\ w <= 32767
  <2>1. -275000 <= vs /\ vs <= 275000
    <3>1. 1000 \in Nat /\ 275 \in Nat /\ 1000 * 275 = 275000  BY SMT
    <3>2. v * s <= 1000 * 275 /\ -(1000 * 275) <= v * s  BY <1>4, <3>1, Product
    <3> QED  BY <1>11, <3>1, <3>2
  <2> QED  BY <1>17, <1>18, <2>1, SMT
<1>22. v * CurSine * 10 = vs * 10 /\ v * Cosine[CurSine] = vc  BY <1>1, <1>2, <1>5, <1>11
<1> QED  BY <1>3, <1>6, <1>8, <1>9, <1>18, <1>19, <1>20, <1>21, <1>22, SMT
-----------------------------------------------------------------------------
(****************************************************************************)
(* What a round of can_thread does with each frame of a cycle.              *)
(****************************************************************************)
PollPosition == Frame(3, setSendFramData(GETKEY, GetCruPos, 0))
PollSpeed(d) == Frame(d, setSendFramData(GETKEY, GetVelocity, 0))
SetPosition(p) == Frame(3, setSendFramData(WBYTE4, DTargetPostion, p))
SetSpeed(d, x) == Frame(d, setSendFramData(WBYTE4, SetVelocity, x * DEC))

Dictionary == {GetCruPos, GetVelocity, SetVelocity, DTargetPostion}
LEMMA Objects ==
  /\ GetCruPos # GetVelocity /\ SetVelocity # DTargetPostion /\ GETKEY # WBYTE4
  BY SMT DEF GetCruPos, GetVelocity, SetVelocity, DTargetPostion, GETKEY, WBYTE4

LEMMA ObjectIs ==
  ASSUME NEW op, NEW object \in Dictionary, NEW param
  PROVE  Object(setSendFramData(op, object, param)) = object
<1>1. object \in Nat /\ object < 16777216
  BY SMT DEF Dictionary, GetCruPos, GetVelocity, SetVelocity, DTargetPostion
<1> QED  BY <1>1, ObjectBytes, SMT

LEMMA FrameIs ==
  ASSUME NEW id \in {1, 2, 3}, NEW op, NEW object \in Dictionary, NEW x,
         NEW f, f = Frame(id, setSendFramData(op, object, x))
  PROVE  StdId(f) - 1536 = id /\ f.data[1] = op /\ Object(f.data) = object
<1>1. f.ID = id /\ f.data = setSendFramData(op, object, x)  BY DEF Frame
<1>2. StdId(f) - 1536 = id
  <2>1. (id + 1536) % 2048 = id + 1536  BY SMT
  <2> QED  BY <1>1, <2>1, SMT DEF StdId
<1>3. Object(f.data) = object
  <2>1. Object(setSendFramData(op, object, x)) = object  BY ObjectIs
  <2> QED  BY <1>1, <2>1
<1>4. f.data[1] = op  BY <1>1 DEF setSendFramData
<1> QED  BY <1>2, <1>3, <1>4

LEMMA AnswerIs ==
  ASSUME NEW d, NEW data, NEW value \in Wide,
         value = IF Object(data) = GetCruPos THEN position ELSE speed[d]
  PROVE  /\ Answered(d, data)[1] = RBYTE4
         /\ Object(Answered(d, data)) = Object(data)
         /\ Value(Answered(d, data)) = value
<1>1. PICK b0 : b0 = value % 256  OBVIOUS
<1>2. PICK b1 : b1 = (value \div 256) % 256  OBVIOUS
<1>3. PICK b2 : b2 = (value \div 65536) % 256  BY SMT
<1>4. PICK b3 : b3 = (value \div 16777216) % 256  BY SMT
<1>5. Answered(d, data) = <<RBYTE4, data[2], data[3], data[4], b0, b1, b2, b3>>
  <2>1. 256^3 = 16777216  BY SMT
  <2> QED  BY <1>1, <1>2, <1>3, <1>4, <2>1, SMT DEF Answered
<1>6. PICK a : a = Answered(d, data)  OBVIOUS
<1>7. /\ a[1] = RBYTE4 /\ a[2] = data[2] /\ a[3] = data[3] /\ a[4] = data[4]
      /\ a[5] = b0 /\ a[6] = b1 /\ a[7] = b2 /\ a[8] = b3
  BY <1>5, <1>6
<1>8. Object(a) = Object(data)  BY <1>7, SMT DEF Object
<1>9. Value(a) = FromBytes(b0, b1, b2, b3)
  <2>1. 256^3 = 16777216 /\ 2^(8 - 1) = 128 /\ 2^8 = 256  BY SMT
  <2> QED  BY <1>7, <2>1, SMT DEF Value, Signed, FromBytes
<1>10. FromBytes(b0, b1, b2, b3) = value
  BY <1>1, <1>2, <1>3, <1>4, WideBytes, SMT
<1> QED  BY <1>6, <1>7, <1>8, <1>9, <1>10

LEMMA PositionPolled ==
  ASSUME can_thread, Head(DCQ) = PollPosition, position \in Wide
  PROVE  CruPosition' = position /\ UNCHANGED <<position, speed, CruVelocity>>
<1>1. PICK f : f = Head(DCQ)  OBVIOUS
<1>2. StdId(f) - 1536 = 3 /\ f.data[1] = GETKEY /\ Object(f.data) = GetCruPos
  BY <1>1, FrameIs, Objects DEF PollPosition, Dictionary
<1>3. FeedbackMessge(1408 + 3, Answered(3, f.data)) /\ UNCHANGED <<position, speed>>
  BY <1>1, <1>2 DEF can_thread
<1>4. PICK a : a = Answered(3, f.data)  OBVIOUS
<1>5. a[1] = RBYTE4 /\ Object(a) = GetCruPos /\ Value(a) = position  BY <1>2, <1>4, AnswerIs
<1> QED  BY <1>3, <1>4, <1>5, Objects DEF FeedbackMessge

LEMMA SpeedPolled ==
  ASSUME can_thread, NEW d \in Rear, Head(DCQ) = PollSpeed(d), speed[d] \in Wide
  PROVE  CruVelocity' = [CruVelocity EXCEPT ![d] = speed[d]] /\ UNCHANGED <<position, speed, CruPosition>>
<1>1. PICK f : f = Head(DCQ)  OBVIOUS
<1>2. StdId(f) - 1536 = d /\ f.data[1] = GETKEY /\ Object(f.data) = GetVelocity
  <2>1. d \in {1, 2, 3}  BY DEF Rear
  <2> QED  BY <1>1, <2>1, FrameIs, Objects DEF PollSpeed, Dictionary
<1>3. FeedbackMessge(1408 + d, Answered(d, f.data)) /\ UNCHANGED <<position, speed>>
  BY <1>1, <1>2 DEF can_thread
<1>4. PICK a : a = Answered(d, f.data)  OBVIOUS
<1>5. a[1] = RBYTE4 /\ Object(a) = GetVelocity /\ Value(a) = speed[d]  BY <1>2, <1>4, AnswerIs, Objects
<1>6. PICK id : id = 1408 + d /\ id - 1408 = d  BY SMT DEF Rear
<1>7. FeedbackMessge(id, a)  BY <1>3, <1>4, <1>6
<1>8. CruPosition' = CruPosition  BY <1>5, <1>7, Objects DEF FeedbackMessge
<1>9. id - 1408 \in Rear  BY <1>6
<1>10. CruVelocity' = [CruVelocity EXCEPT ![id - 1408] = Value(a)]
  BY <1>5, <1>7, <1>9 DEF FeedbackMessge
<1>11. CruVelocity' = [CruVelocity EXCEPT ![d] = speed[d]]
  <2>1. PICK n : n = id - 1408  OBVIOUS
  <2>2. CruVelocity' = [CruVelocity EXCEPT ![n] = Value(a)]  BY <1>10, <2>1
  <2>3. n = d  BY <1>6, <2>1
  <2> QED  BY <1>5, <2>2, <2>3
<1> QED  BY <1>3, <1>8, <1>11

LEMMA PositionSet ==
  ASSUME can_thread, NEW p \in Wide, Head(DCQ) = SetPosition(p)
  PROVE  position' = p /\ UNCHANGED <<speed, CruPosition, CruVelocity>>
<1>1. PICK f : f = Head(DCQ)  OBVIOUS
<1>2. StdId(f) - 1536 = 3 /\ f.data[1] = WBYTE4 /\ Object(f.data) = DTargetPostion
  BY <1>1, FrameIs, Objects DEF SetPosition, Dictionary
<1>3. Value(f.data) = p  BY <1>1, ValueBytes DEF SetPosition, Frame
<1>4. DriveObeys(3, f.data) /\ UNCHANGED <<CruPosition, CruVelocity>>
  BY <1>1, <1>2, Objects DEF can_thread
<1>5. 3 \notin Rear  BY DEF Rear
<1> QED  BY <1>2, <1>3, <1>4, <1>5 DEF DriveObeys

LEMMA SpeedSet ==
  ASSUME can_thread, NEW d \in Rear, NEW x, x * DEC \in Wide, Head(DCQ) = SetSpeed(d, x)
  PROVE  speed' = [speed EXCEPT ![d] = x * DEC] /\ UNCHANGED <<position, CruPosition, CruVelocity>>
<1>1. PICK f : f = Head(DCQ)  OBVIOUS
<1>2. StdId(f) - 1536 = d /\ f.data[1] = WBYTE4 /\ Object(f.data) = SetVelocity
  <2>1. d \in {1, 2, 3}  BY DEF Rear
  <2> QED  BY <1>1, <2>1, FrameIs, Objects DEF SetSpeed, Dictionary
<1>3. Value(f.data) = x * DEC  BY <1>1, ValueBytes DEF SetSpeed, Frame
<1>4. DriveObeys(d, f.data) /\ UNCHANGED <<CruPosition, CruVelocity>>
  BY <1>1, <1>2, Objects DEF can_thread
<1>5. d # 3  BY DEF Rear
<1> QED  BY <1>2, <1>3, <1>4, <1>5, Objects DEF DriveObeys
-----------------------------------------------------------------------------
(****************************************************************************)
(* The inductive invariant: what the frames still to send will do, and how  *)
(* far a command that is given again has come, frame by frame: the front    *)
(* drive follows in the cycle it was first given, its position is known in  *)
(* the next one, the rear drives are told the speeds for it then, or in the *)
(* one after that, and are polled at last.                                  *)
(****************************************************************************)
SineAt(p) == CHOOSE s \in DOMAIN Linkage :
               \A r \in DOMAIN Linkage : Abs(Linkage[s] - p) <= Abs(Linkage[r] - p)
Speeds == {x \in Int : -Fast <= x /\ x <= Fast}
DecSpeeds == {x \in Int : -(Fast * DEC) <= x /\ x <= Fast * DEC}
Frames == [ID : {1, 2, 3}, data : [1 .. 8 -> Bytes]]
TwoBytes == [1 .. 2 -> Bytes]

Told(d) == IF d = 1 THEN LeftSpeed(SineAt(Target(word)), Asked(word))
           ELSE RightSpeed(SineAt(Target(word)), Asked(word))
OfCycle == IF stage = "idle" THEN 6 ELSE 3
Done(k) == k <= OfCycle - Len(DCQ)
FrameOf(k, f) ==
  /\ k = 1 => f = PollPosition
  /\ k = 2 => f = PollSpeed(1)
  /\ k = 3 => f = PollSpeed(2)
  /\ k = 4 => \E p \in Allowed : f = SetPosition(p) /\ (Drivable(word) => p = Target(word))
  /\ k = 5 => \E x \in Speeds : f = SetSpeed(1, x) /\ (given >= 2 /\ Drivable(word) => x = Told(1))
  /\ k = 6 => \E x \in Speeds : f = SetSpeed(2, x) /\ (given >= 2 /\ Drivable(word) => x = Told(2))

DriveValues ==
  /\ stage \in {"idle", "poll", "set"} /\ word \in Words \cup {Stop} /\ given \in 0 .. 4
  /\ position \in Allowed /\ speed \in [Rear -> DecSpeeds]
  /\ CruPosition \in Int /\ CruVelocity \in [Rear -> Int]
  /\ reply.w \in TwoBytes /\ reply.v \in TwoBytes
DriveQueue ==
  /\ DCQ \in Seq(Frames) /\ Len(DCQ) <= OfCycle
  /\ \A idx \in 1 .. Len(DCQ) : FrameOf(OfCycle - Len(DCQ) + idx, DCQ[idx])
FrontFollows ==
  /\ given >= 1 \/ Done(4) => position = Target(word)
  /\ given >= 2 \/ (given = 1 /\ Done(1)) => CruPosition = Target(word)
RearFollows ==
  \A d \in Rear : /\ given >= 3 \/ (given = 2 /\ Done(d + 4)) => speed[d] = Told(d) * DEC
                  /\ given >= 4 \/ (given = 3 /\ Done(d + 1)) => CruVelocity[d] = Told(d) * DEC
DriveInv == DriveValues /\ DriveQueue /\ (Drivable(word) => FrontFollows /\ RearFollows) /\ MotionReported

LEMMA CurSineAt == CurSine = SineAt(CruPosition)  BY DEF CurSine, SineAt

LEMMA TargetAt == ASSUME NEW s \in Sines PROVE SineAt(Linkage[s]) \in Sines
<1> DEFINE Far(r) == Abs(Linkage[r] - Linkage[s])
           S == {Far(r) : r \in Sines}
<1>1. \A r \in Sines : Far(r) \in Nat
  <2> SUFFICES ASSUME NEW r \in Sines PROVE Far(r) \in Nat  OBVIOUS
  <2>1. Linkage[r] - Linkage[s] \in Int  BY TableIs
  <2> QED  BY <2>1, AbsIs
<1> HIDE DEF Far
<1>2. S \subseteq Nat /\ S # {}  BY <1>1, TableIs
<1>3. PICK k \in S : \A j \in S : k <= j  BY <1>2, HasLeast
<1>4. PICK r \in Sines : k = Far(r)  BY <1>3
<1>5. \A q \in Sines : Far(r) <= Far(q)  BY <1>3, <1>4
<1> QED  BY <1>5 DEF SineAt, Far, Sines

LEMMA FrameTyped ==
  ASSUME NEW id \in {1, 2, 3}, NEW op \in {GETKEY, WBYTE4}, NEW object \in Dictionary, NEW x \in Int
  PROVE  Frame(id, setSendFramData(op, object, x)) \in Frames
<1>1. op \in Bytes  BY SMT DEF Bytes, GETKEY, WBYTE4
<1>2. object \in Int  BY SMT DEF Dictionary, GetCruPos, GetVelocity, SetVelocity, DTargetPostion
<1>3. /\ Byte(object, 0) \in Bytes /\ Byte(object, 1) \in Bytes /\ Byte(object, 2) \in Bytes
      /\ Byte(x, 0) \in Bytes /\ Byte(x, 1) \in Bytes /\ Byte(x, 2) \in Bytes /\ Byte(x, 3) \in Bytes
  BY <1>2, ByteRange DEF Bytes
<1>4. setSendFramData(op, object, x) \in [1 .. 8 -> Bytes]
  <2> HIDE DEF Bytes
  <2> QED  BY <1>1, <1>3, SMT DEF setSendFramData
<1> QED  BY <1>4 DEF Frame, Frames

LEMMA CycleTyped ==
  /\ PollPosition \in Frames /\ PollSpeed(1) \in Frames /\ PollSpeed(2) \in Frames
  /\ \A p \in Int : SetPosition(p) \in Frames
  /\ \A x \in Int : SetSpeed(1, x) \in Frames /\ SetSpeed(2, x) \in Frames
<1>1. PollPosition \in Frames  BY FrameTyped DEF PollPosition, Dictionary
<1>2. PollSpeed(1) \in Frames /\ PollSpeed(2) \in Frames  BY FrameTyped DEF PollSpeed, Dictionary
<1>3. \A p \in Int : SetPosition(p) \in Frames  BY FrameTyped DEF SetPosition, Dictionary
<1>4. ASSUME NEW x \in Int PROVE SetSpeed(1, x) \in Frames /\ SetSpeed(2, x) \in Frames
  <2>1. x * DEC \in Int  BY SMT DEF DEC
  <2> QED  BY <2>1, FrameTyped DEF SetSpeed, Dictionary
<1> QED  BY <1>1, <1>2, <1>3, <1>4

LEMMA DecIs ==
  /\ DEC \in Nat /\ DEC >= 1 /\ Fast \in Nat
  /\ \A x \in Speeds : x \in Int /\ x * DEC \in DecSpeeds
  /\ DecSpeeds \subseteq Wide /\ DecSpeeds \subseteq Int /\ 0 \in DecSpeeds
<1>1. DEC \in Nat /\ DEC >= 1 /\ Fast \in Nat  BY SMT DEF DEC, Fast
<1>2. \A x \in Speeds : x \in Int /\ x * DEC \in DecSpeeds  BY SMT DEF Speeds, DecSpeeds, DEC, Fast
<1>3. DecSpeeds \subseteq Wide /\ 0 \in DecSpeeds  BY SMT DEF Wide, DecSpeeds, DEC, Fast
<1>4. DecSpeeds \subseteq Int  BY DEF DecSpeeds
<1> QED  BY <1>1, <1>2, <1>3, <1>4

LEMMA RepliesTyped ==
  ASSUME CruPosition \in Int, CruVelocity \in [Rear -> Int]
  PROVE  short2hexbyte(getCurAngleVel) \in TwoBytes /\ short2hexbyte(getCurVelocity) \in TwoBytes
<1>1. PICK s \in Sines : s = CurSine  BY CurSineIs
<1>2. PICK c : c = Cosine[s]  OBVIOUS
<1>3. c \in Nat /\ c >= 1 /\ s \in Int
  <2>1. c \in Int /\ c >= 900  BY <1>2, CosineIs
  <2> QED  BY <2>1, TableIs, SMT
<1>4. PICK d \in Int : d = CruVelocity[1] - CruVelocity[2]
  <2>1. CruVelocity[1] \in Int /\ CruVelocity[2] \in Int  BY DEF Rear
  <2> QED  BY <2>1
<1>5. Trunc(d, 2) \in Int  BY TruncIs, SMT
<1>6. PICK g \in Int : g = getVelocity  BY <1>4, <1>5, DecIs, TruncIs DEF getVelocity
<1>7. PICK u \in Int : u = getCurVelocity
  <2>1. g * 100 \in Int  OBVIOUS
  <2>2. Trunc(g * 100, 191) \in Int  BY <2>1, TruncIs, SMT
  <2> QED  BY <1>6, <2>2 DEF getCurVelocity, MmPerS
<1>8. PICK x \in Int : x = Trunc(u * s * 100, c)
  <2>1. u * s * 100 \in Int  BY <1>3, SMT
  <2> QED  BY <1>3, <2>1, TruncIs
<1>9. PICK w \in Int : w = getCurAngleVel
  <2>1. x * 100 \in Int  OBVIOUS
  <2>2. Trunc(x * 100, 556) \in Int  BY <2>1, TruncIs, SMT
  <2> QED  BY <1>1, <1>2, <1>7, <1>8, <2>2 DEF getCurAngleVel
<1>10. ASSUME NEW n \in Int PROVE short2hexbyte(n) \in TwoBytes
  <2>1. Byte(n, 0) \in Bytes /\ Byte(n, 1) \in Bytes  BY ByteRange DEF Bytes
  <2> HIDE DEF Bytes
  <2> QED  BY <2>1, SMT DEF short2hexbyte, TwoBytes
<1> QED  BY <1>7, <1>9, <1>10

LEMMA DriveInitOk == DriveInit => DriveInv
<1> SUFFICES ASSUME DriveInit PROVE DriveInv  OBVIOUS
<1>1. /\ stage = "idle" /\ word = Stop /\ given = 0 /\ DCQ = <<>> /\ position = Linkage[0]
      /\ speed = [d \in Rear |-> 0] /\ CruPosition = 0 /\ CruVelocity = [d \in Rear |-> 0]
      /\ reply = [w |-> <<0, 0>>, v |-> <<0, 0>>]
  BY DEF DriveInit
<1>2. <<0, 0>> \in TwoBytes
  <2>1. 0 \in Bytes  BY SMT DEF Bytes
  <2> HIDE DEF Bytes
  <2> QED  BY <2>1, SMT DEF TwoBytes
<1>3. DriveValues
  <2>1. Linkage[0] \in Allowed  BY AllowedIs, TableIs
  <2> QED  BY <1>1, <1>2, <2>1, DecIs DEF DriveValues
<1>4. DriveQueue  BY <1>1 DEF DriveQueue, OfCycle
<1>5. position = Target(word)
  <2>1. AskedSine(Stop) = 0
    <3>1. Stop.auto = FALSE /\ Stop.a * 82 = 0  BY SMT DEF Stop
    <3>2. Trunc(0, 10) = 0  BY TruncIs, SMT
    <3>3. Clamp(0, MaxSine) = 0  BY ClampIs, TableIs, SMT
    <3> QED  BY <3>1, <3>2, <3>3 DEF AskedSine
  <2>2. ~Stop.auto  BY DEF Stop
  <2> QED  BY <1>1, <2>1, <2>2 DEF Target
<1>6. FrontFollows /\ RearFollows  BY <1>1, <1>5, SMT DEF FrontFollows, RearFollows
<1>7. MotionReported  BY <1>1 DEF MotionReported, ItsReply
<1> QED  BY <1>3, <1>4, <1>6, <1>7 DEF DriveInv

LEMMA WordRead ==
  ASSUME NEW c \in Words
  PROVE  [c EXCEPT !.a = hexbyte2short(short2hexbyte(c.a)), !.v = hexbyte2short(short2hexbyte(c.v))] = c
<1>1. c \in [auto : BOOLEAN, a : Int16, v : Int16]  BY LinkageAssumption
<1>2. hexbyte2short(short2hexbyte(c.a)) = c.a
  <2>1. c.a \in Int16  BY <1>1
  <2> QED  BY <2>1, Int16Is, WordBytes, SMT
<1>3. hexbyte2short(short2hexbyte(c.v)) = c.v
  <2>1. c.v \in Int16  BY <1>1
  <2> QED  BY <2>1, Int16Is, WordBytes, SMT
<1> QED  BY <1>1, <1>2, <1>3

(* A new command starts over; one given again finds its frames all sent.    *)
LEMMA FeedbackKeeps == DriveInv /\ MotionFeedbackHandle => DriveInv'
<1> SUFFICES ASSUME DriveInv, MotionFeedbackHandle PROVE DriveInv'  OBVIOUS
<1>1. /\ stage = "idle" /\ DCQ = <<>> /\ stage' = "poll"
      /\ DCQ' = <<PollPosition, PollSpeed(1), PollSpeed(2)>>
      /\ UNCHANGED <<position, speed, CruPosition, CruVelocity, reply>>
  BY DEF MotionFeedbackHandle, PollPosition, PollSpeed
<1>2. PICK c \in Words : /\ word' = c
                         /\ given' = IF c # word THEN 0 ELSE IF given < Settled THEN given + 1 ELSE given
  BY WordRead DEF MotionFeedbackHandle
<1>3. DriveValues /\ (Drivable(word) => FrontFollows /\ RearFollows)  BY DEF DriveInv
<1>4. given \in 0 .. 4  BY <1>3 DEF DriveValues
<1>5. given' \in 0 .. 4  BY <1>2, <1>4, SMT DEF Settled
<1>6. DriveValues'  BY <1>1, <1>2, <1>3, <1>5 DEF DriveValues
<1>7. Len(DCQ') = 3 /\ DCQ'[1] = PollPosition /\ DCQ'[2] = PollSpeed(1) /\ DCQ'[3] = PollSpeed(2)
  BY <1>1
<1>8. OfCycle' = 3  BY <1>1 DEF OfCycle
<1>9. DriveQueue'
  <2>1. DCQ' \in Seq(Frames)  BY <1>1, CycleTyped
  <2>2. ASSUME NEW idx \in 1 .. 3 PROVE FrameOf(idx, DCQ[idx])'
    <3>1. CASE idx = 1  BY <1>7, <3>1, SMT DEF FrameOf
    <3>2. CASE idx = 2  BY <1>7, <3>2, SMT DEF FrameOf
    <3>3. CASE idx = 3  BY <1>7, <3>3, SMT DEF FrameOf
    <3> QED  BY <3>1, <3>2, <3>3
  <2>3. \A idx \in 1 .. 3 : 3 - 3 + idx = idx  BY SMT
  <2>4. Len(DCQ') <= OfCycle' /\ Len(DCQ') = 3  BY <1>7, <1>8
  <2>5. \A idx \in 1 .. Len(DCQ') : FrameOf(OfCycle - Len(DCQ) + idx, DCQ[idx])'
    <3> SUFFICES ASSUME NEW idx \in 1 .. 3 PROVE FrameOf(OfCycle - Len(DCQ) + idx, DCQ[idx])'  BY <2>4
    <3>1. (OfCycle - Len(DCQ) + idx)' = idx  BY <1>7, <1>8, <2>3
    <3> QED  BY <2>2, <3>1
  <2> QED  BY <2>1, <2>4, <2>5 DEF DriveQueue
<1>10. \A k \in 1 .. 6 : Done(k) /\ ~Done(k)'
  <2>1. OfCycle = 6 /\ Len(DCQ) = 0  BY <1>1 DEF OfCycle
  <2> QED  BY <1>7, <1>8, <2>1, SMT DEF Done
<1>11. ASSUME given' >= 1
      PROVE  /\ word' = word
             /\ given' >= 2 => given >= 1
             /\ given' >= 3 => given >= 2
             /\ given' >= 4 => given >= 3
  <2>1. c = word  BY <1>2, <1>11, SMT
  <2> QED  BY <1>2, <1>4, <2>1, SMT DEF Settled
<1>12. ASSUME Drivable(word)' PROVE FrontFollows' /\ RearFollows'
  <2>1. CASE ~(given' >= 1)
    <3>1. FrontFollows'  BY <1>5, <1>10, <2>1, SMT DEF FrontFollows
    <3>2. RearFollows'  BY <1>5, <1>10, <2>1, SMT DEF RearFollows
    <3> QED  BY <3>1, <3>2
  <2>2. CASE given' >= 1
    <3>1. /\ word' = word /\ (given' >= 2 => given >= 1)
          /\ (given' >= 3 => given >= 2) /\ (given' >= 4 => given >= 3)
      BY <1>11, <2>2
    <3>2. FrontFollows /\ RearFollows  BY <1>3, <1>12, <3>1
    <3>3. position = Target(word) /\ (given >= 1 => CruPosition = Target(word))
      BY <1>4, <1>10, <3>2, SMT DEF FrontFollows
    <3>4. FrontFollows'
      <4>1. position' = Target(word') /\ (given >= 1 => CruPosition' = Target(word'))
        BY <1>1, <3>1, <3>3
      <4> QED  BY <1>10, <3>1, <4>1 DEF FrontFollows
    <3>5. RearFollows'
      <4> SUFFICES ASSUME NEW d \in Rear
                   PROVE  /\ given' >= 3 => (speed[d] = Told(d) * DEC)'
                          /\ given' >= 4 => (CruVelocity[d] = Told(d) * DEC)'
        BY <1>5, <1>10, SMT DEF RearFollows, Rear
      <4>1. /\ given >= 2 => speed[d] = Told(d) * DEC
            /\ given >= 3 => CruVelocity[d] = Told(d) * DEC
        BY <1>4, <1>10, <3>2, SMT DEF RearFollows, Rear
      <4>2. Told(d)' = Told(d)  BY <3>1 DEF Told
      <4>3. speed' = speed /\ CruVelocity' = CruVelocity  BY <1>1
      <4> QED  BY <3>1, <4>1, <4>2, <4>3
    <3> QED  BY <3>4, <3>5
  <2> QED  BY <2>1, <2>2
<1>13. MotionReported'  BY <1>1 DEF MotionReported, ItsReply
<1> QED  BY <1>6, <1>9, <1>12, <1>13 DEF DriveInv

(* What is replied is what was asked for, from the speeds and the position  *)
(* a settled command leaves.                                                *)
LEMMA SettledReply ==
  ASSUME DriveValues, Drivable(word), CruPosition = Target(word),
         CruVelocity[1] = Told(1) * DEC, CruVelocity[2] = Told(2) * DEC
  PROVE  /\ Near(hexbyte2short(short2hexbyte(getCurVelocity)),
                 Trunc(Asked(word) * Cosine[AskedSine(word)], 1000), 3)
         /\ Near(hexbyte2short(short2hexbyte(getCurAngleVel)),
                 Trunc(Asked(word) * AskedSine(word) * 10, 556), 40)
<1>1. word \in Words \cup {Stop} /\ CruPosition \in Int  BY DEF DriveValues
<1>2. PICK v : v = Asked(word)  OBVIOUS
<1>3. PICK s : s = AskedSine(word)  OBVIOUS
<1>4. PICK k : k = CurSine  OBVIOUS
<1>5. k \in Sines /\ k = SineAt(Target(word))  BY <1>1, <1>4, CurSineIs, CurSineAt
<1>6. s \in Sines /\ v \in Int /\ (v = 0) = (word.v = 0)  BY <1>1, <1>2, <1>3, WordIs
<1>7. -1000 <= v /\ v <= 1000
  <2>1. Abs(v) <= 1000  BY <1>2 DEF Drivable
  <2> QED  BY <1>6, <2>1, SMT DEF Abs
<1>8. CruVelocity[1] = LeftSpeed(CurSine, v) * DEC /\ CruVelocity[2] = RightSpeed(CurSine, v) * DEC
  BY <1>2, <1>4, <1>5 DEF Told
<1>9. /\ getCurVelocity \in Int /\ -32768 <= getCurVelocity /\ getCurVelocity <= 32767
      /\ getCurAngleVel \in Int /\ -32768 <= getCurAngleVel /\ getCurAngleVel <= 32767
      /\ Near(getCurVelocity, Trunc(v * Cosine[CurSine], 1000), 3)
      /\ Near(getCurAngleVel, Trunc(v * CurSine * 10, 556), 40)
  BY <1>4, <1>5, <1>6, <1>7, <1>8, ReplyNear
<1>10. /\ hexbyte2short(short2hexbyte(getCurVelocity)) = getCurVelocity
       /\ hexbyte2short(short2hexbyte(getCurAngleVel)) = getCurAngleVel
  BY <1>9, WordBytes
<1>11. v * Cosine[CurSine] = v * Cosine[s] /\ v * CurSine * 10 = v * s * 10
  <2>1. CASE v = 0
    <3>1. Cosine[k] \in Int /\ Cosine[s] \in Int /\ k \in Int /\ s \in Int
      BY <1>5, <1>6, CosineIs, TableIs
    <3>2. \A a \in Int : v * a = 0  BY <2>1, SMT
    <3> QED  BY <1>4, <3>1, <3>2
  <2>2. CASE v # 0
    <3>1. Target(word) = Linkage[s]  BY <1>3, <1>6, <2>2 DEF Target
    <3>2. CurSine = s  BY <1>6, <3>1, CurSineExact
    <3> QED  BY <3>2
  <2> QED  BY <2>1, <2>2
<1> QED  BY <1>2, <1>3, <1>9, <1>10, <1>11

LEMMA ReplyKeeps == DriveInv /\ Reply => DriveInv'
<1> SUFFICES ASSUME DriveInv, Reply PROVE DriveInv'  OBVIOUS
<1>1. /\ stage = "poll" /\ stage' = "set"
      /\ reply' = [w |-> short2hexbyte(getCurAngleVel), v |-> short2hexbyte(getCurVelocity)]
      /\ UNCHANGED <<word, given, DCQ, position, speed, CruPosition, CruVelocity>>
  BY DEF Reply
<1>2. DriveValues /\ DriveQueue /\ (Drivable(word) => FrontFollows /\ RearFollows)  BY DEF DriveInv
<1>3. DriveValues'
  <2>1. CruPosition \in Int /\ CruVelocity \in [Rear -> Int]  BY <1>2 DEF DriveValues
  <2>2. reply'.w \in TwoBytes /\ reply'.v \in TwoBytes  BY <1>1, <2>1, RepliesTyped
  <2> QED  BY <1>1, <1>2, <2>2 DEF DriveValues
<1>4. OfCycle' = OfCycle  BY <1>1 DEF OfCycle
<1>5. DriveQueue'
  <2>1. \A k : \A f : FrameOf(k, f)' = FrameOf(k, f)  BY <1>1 DEF FrameOf, Told
  <2> QED  BY <1>1, <1>2, <1>4, <2>1 DEF DriveQueue
<1>6. Drivable(word)' => FrontFollows' /\ RearFollows'
  <2>1. \A k : Done(k)' = Done(k)  BY <1>1, <1>4 DEF Done
  <2>2. \A d : Told(d)' = Told(d)  BY <1>1 DEF Told
  <2>3. FrontFollows' = FrontFollows  BY <1>1, <2>1 DEF FrontFollows
  <2>4. RearFollows' = RearFollows  BY <1>1, <2>1, <2>2 DEF RearFollows
  <2> QED  BY <1>1, <1>2, <2>3, <2>4
<1>7. MotionReported'
  <2> SUFFICES ASSUME given = 4, Drivable(word)
               PROVE  (LET v == Asked(word)
                           s == AskedSine(word)
                       IN /\ Near(hexbyte2short(reply.v), Trunc(v * Cosine[s], 1000), 3)
                          /\ Near(hexbyte2short(reply.w), Trunc(v * s * 10, 556), 40))'
    BY <1>1 DEF MotionReported, ItsReply, Settled
  <2>1. FrontFollows /\ RearFollows  BY <1>2
  <2>2. CruPosition = Target(word)  BY <2>1, SMT DEF FrontFollows
  <2>3. CruVelocity[1] = Told(1) * DEC /\ CruVelocity[2] = Told(2) * DEC
    BY <2>1, SMT DEF RearFollows, Rear
  <2>4. /\ Near(hexbyte2short(short2hexbyte(getCurVelocity)),
                Trunc(Asked(word) * Cosine[AskedSine(word)], 1000), 3)
        /\ Near(hexbyte2short(short2hexbyte(getCurAngleVel)),
                Trunc(Asked(word) * AskedSine(word) * 10, 556), 40)
    BY <1>2, <2>2, <2>3, SettledReply
  <2>5. reply'.v = short2hexbyte(getCurVelocity) /\ reply'.w = short2hexbyte(getCurAngleVel)  BY <1>1
  <2> QED  BY <1>1, <2>4, <2>5
<1> QED  BY <1>3, <1>5, <1>6, <1>7 DEF DriveInv

(* The set points are the command's, once the angle is known.               *)
LEMMA SetPointsAre ==
  ASSUME DriveInv, MotionHandle
  PROVE  \E p \in Allowed, l \in Speeds, r \in Speeds :
           /\ DCQ' = DCQ \o <<SetPosition(p), SetSpeed(1, l), SetSpeed(2, r)>>
           /\ Drivable(word) => p = Target(word)
           /\ given >= 2 /\ Drivable(word) => l = Told(1) /\ r = Told(2)
<1>1. DriveValues /\ (Drivable(word) => FrontFollows)  BY DEF DriveInv
<1>2. word \in Words \cup {Stop} /\ CruPosition \in Int  BY <1>1 DEF DriveValues
<1>3. PICK c : c = word  OBVIOUS
<1>4. PICK v : v = Asked(c)  OBVIOUS
<1>5. v \in Int /\ -65536 <= v /\ v <= 65536 /\ c.auto \in BOOLEAN /\ c.v \in Int
  BY <1>2, <1>3, <1>4, WordIs
<1>6. \E p \in Allowed : SetPoints(p, v) /\ (Drivable(c) => p = Target(c))
  <2>1. CASE AngleMotionCmdHandle
    <3>1. ~c.auto /\ SetPoints(Angle2Position(AngleOf(c.a)), c.v * vRatio)
      BY <1>3, <2>1 DEF AngleMotionCmdHandle
    <3>2. c.v * vRatio = v
      <4>1. vRatio = 2  BY SMT DEF vRatio
      <4>2. v = 2 * c.v  BY <1>4, <3>1 DEF Asked
      <4> QED  BY <1>5, <4>1, <4>2
    <3>3. Angle2Position(AngleOf(c.a)) = Target(c) /\ Target(c) \in Allowed
      BY <1>2, <1>3, <3>1, Positions
    <3> QED  BY <3>1, <3>2, <3>3
  <2>2. CASE MotionCmdHandle
    <3>1. c.auto  BY <1>3, <2>2 DEF MotionCmdHandle
    <3>2. PICK p \in getExpPosition(c.a, vLimit(c.v)) : SetPoints(p, vLimit(c.v))
      BY <1>3, <2>2 DEF MotionCmdHandle
    <3>3. vLimit(c.v) = v  BY <1>4, <3>1 DEF Asked, vLimit
    <3>4. p \in Allowed /\ (Drivable(c) => p = Target(c))  BY <1>2, <1>3, <3>1, Positions
    <3> QED  BY <3>2, <3>3, <3>4
  <2> QED  BY <2>1, <2>2 DEF MotionHandle
<1>7. PICK p \in Allowed : SetPoints(p, v) /\ (Drivable(c) => p = Target(c))  BY <1>6
<1>8. PICK l : l = LeftSpeed(CurSine, v)  OBVIOUS
<1>9. PICK r : r = RightSpeed(CurSine, v)  OBVIOUS
<1>10. l \in Speeds /\ r \in Speeds
  <2>1. CurSine \in Sines  BY <1>2, CurSineIs
  <2>2. l \in Int /\ -Fast <= l /\ l <= Fast /\ r \in Int /\ -Fast <= r /\ r <= Fast
    BY <1>5, <1>8, <1>9, <2>1, SpeedsAre
  <2> QED  BY <2>2 DEF Speeds
<1>11. getExpLeftVelocity(v) = l /\ getExpRightVelocity(v) = r
  BY <1>8, <1>9 DEF getExpLeftVelocity, getExpRightVelocity, LeftSpeed, RightSpeed, Turn
<1>12. DCQ' = DCQ \o <<SetPosition(p), SetSpeed(1, l), SetSpeed(2, r)>>
  BY <1>7, <1>11 DEF SetPoints, SetPosition, SetSpeed
<1>13. ASSUME given >= 2, Drivable(c) PROVE l = Told(1) /\ r = Told(2)
  <2>1. CruPosition = Target(c)  BY <1>1, <1>3, <1>13 DEF FrontFollows
  <2>2. CurSine = SineAt(Target(c))  BY <2>1, CurSineAt
  <2> QED  BY <1>3, <1>4, <1>8, <1>9, <2>2 DEF Told
<1> QED  BY <1>3, <1>7, <1>10, <1>12, <1>13

LEMMA MotionKeeps == DriveInv /\ MotionHandle => DriveInv'
<1> SUFFICES ASSUME DriveInv, MotionHandle PROVE DriveInv'  OBVIOUS
<1>1. /\ stage = "set" /\ stage' = "idle"
      /\ UNCHANGED <<word, given, position, speed, CruPosition, CruVelocity, reply>>
  BY DEF MotionHandle
<1>2. DriveValues /\ DriveQueue /\ (Drivable(word) => FrontFollows /\ RearFollows)  BY DEF DriveInv
<1>3. DriveValues'  BY <1>1, <1>2 DEF DriveValues
<1>4. PICK p \in Allowed, l \in Speeds, r \in Speeds :
        /\ DCQ' = DCQ \o <<SetPosition(p), SetSpeed(1, l), SetSpeed(2, r)>>
        /\ Drivable(word) => p = Target(word)
        /\ given >= 2 /\ Drivable(word) => l = Told(1) /\ r = Told(2)
  BY SetPointsAre
<1>5. PICK new : new = <<SetPosition(p), SetSpeed(1, l), SetSpeed(2, r)>>  OBVIOUS
<1>6. new \in Seq(Frames) /\ Len(new) = 3
  <2>1. SetPosition(p) \in Frames /\ SetSpeed(1, l) \in Frames /\ SetSpeed(2, r) \in Frames
    BY AllowedIs, CycleTyped, DecIs
  <2> QED  BY <1>5, <2>1
<1>7. new[1] = SetPosition(p) /\ new[2] = SetSpeed(1, l) /\ new[3] = SetSpeed(2, r)  BY <1>5
<1>8. DCQ \in Seq(Frames) /\ OfCycle = 3 /\ OfCycle' = 6 /\ Len(DCQ) \in Nat /\ Len(DCQ) <= 3
  BY <1>1, <1>2 DEF DriveQueue, OfCycle
<1>9. /\ DCQ' \in Seq(Frames) /\ Len(DCQ') = Len(DCQ) + 3
      /\ \A idx \in 1 .. Len(DCQ) + 3 :
           DCQ'[idx] = IF idx <= Len(DCQ) THEN DCQ[idx] ELSE new[idx - Len(DCQ)]
  BY <1>4, <1>5, <1>6, <1>8, ConcatProperties
<1>10. \A k : \A f : FrameOf(k, f)' = FrameOf(k, f)  BY <1>1 DEF FrameOf, Told
<1>11. FrameOf(4, new[1]) /\ FrameOf(5, new[2]) /\ FrameOf(6, new[3])
  <2>1. FrameOf(4, new[1])  BY <1>4, <1>7, SMT DEF FrameOf
  <2>2. FrameOf(5, new[2])  BY <1>4, <1>7, SMT DEF FrameOf
  <2>3. FrameOf(6, new[3])  BY <1>4, <1>7, SMT DEF FrameOf
  <2> QED  BY <2>1, <2>2, <2>3
<1>12. DriveQueue'
  <2> SUFFICES ASSUME NEW idx \in 1 .. Len(DCQ) + 3 PROVE FrameOf(6 - (Len(DCQ) + 3) + idx, DCQ'[idx])
    BY <1>8, <1>9, <1>10 DEF DriveQueue
  <2>1. CASE idx <= Len(DCQ)
    <3>1. idx \in 1 .. Len(DCQ) /\ 6 - (Len(DCQ) + 3) + idx = 3 - Len(DCQ) + idx  BY <1>8, <2>1
    <3>2. FrameOf(3 - Len(DCQ) + idx, DCQ[idx])  BY <1>2, <1>8, <3>1 DEF DriveQueue
    <3> QED  BY <1>9, <2>1, <3>1, <3>2
  <2>2. CASE ~(idx <= Len(DCQ))
    <3>1. PICK j \in 1 .. 3 : j = idx - Len(DCQ)  BY <1>8, <2>2
    <3>2. 6 - (Len(DCQ) + 3) + idx = 3 + j /\ DCQ'[idx] = new[j]  BY <1>8, <1>9, <2>2, <3>1
    <3>3. FrameOf(3 + j, new[j])
      <4>1. CASE j = 1  BY <1>11, <4>1
      <4>2. CASE j = 2  BY <1>11, <4>2
      <4>3. CASE j = 3  BY <1>11, <4>3
      <4> QED  BY <4>1, <4>2, <4>3
    <3> QED  BY <3>2, <3>3
  <2> QED  BY <2>1, <2>2
<1>13. Drivable(word)' => FrontFollows' /\ RearFollows'
  <2>1. \A k \in Int : Done(k)' = Done(k)  BY <1>8, <1>9, SMT DEF Done
  <2>2. \A d : Told(d)' = Told(d)  BY <1>1 DEF Told
  <2>3. FrontFollows' = FrontFollows  BY <1>1, <2>1 DEF FrontFollows
  <2>4. RearFollows' = RearFollows
    <3>1. \A d \in Rear : Done(d + 4)' = Done(d + 4) /\ Done(d + 1)' = Done(d + 1)
      BY <2>1, SMT DEF Rear
    <3> QED  BY <1>1, <2>2, <3>1 DEF RearFollows
  <2> QED  BY <1>1, <1>2, <2>3, <2>4
<1>14. MotionReported'  BY <1>1 DEF MotionReported, ItsReply
<1> QED  BY <1>3, <1>12, <1>13, <1>14 DEF DriveInv

(* A round takes the next frame of the cycle off the queue.                 *)
LEMMA NextFrame ==
  ASSUME DriveInv, can_thread
  PROVE  /\ DriveQueue'
         /\ \E k \in 1 .. 6 : /\ FrameOf(k, Head(DCQ))
                              /\ \A j \in Int : (Done(j)' <=> Done(j) \/ j = k)
<1>1. DriveValues /\ DriveQueue  BY DEF DriveInv
<1>2. DCQ # <<>> /\ DCQ' = Tail(DCQ) /\ UNCHANGED <<stage, word, given, reply>>  BY DEF can_thread
<1>3. DCQ \in Seq(Frames) /\ Len(DCQ) \in Nat /\ Len(DCQ) >= 1  BY <1>1, <1>2 DEF DriveQueue
<1>4. PICK n : n = Len(DCQ)  OBVIOUS
<1>5. PICK m \in {3, 6} : m = OfCycle /\ m = OfCycle'  BY <1>2 DEF OfCycle
<1>6. n \in Nat /\ 1 <= n /\ n <= m /\ m \in Nat /\ m <= 6
  BY <1>1, <1>3, <1>4, <1>5 DEF DriveQueue
<1>7. DCQ' \in Seq(Frames) /\ Len(DCQ') = n - 1 /\ \A idx \in 1 .. n - 1 : DCQ'[idx] = DCQ[idx + 1]
  BY <1>2, <1>3, <1>4, HeadTailProperties
<1>8. Head(DCQ) = DCQ[1]  BY <1>2, <1>3
<1>9. PICK k \in 1 .. 6 : k = m - n + 1  BY <1>6
<1>10. FrameOf(k, Head(DCQ))
  <2>1. 1 \in 1 .. n  BY <1>6
  <2>2. FrameOf(m - n + 1, DCQ[1])  BY <1>1, <1>4, <1>5, <2>1 DEF DriveQueue
  <2> QED  BY <1>8, <1>9, <2>2
<1>11. \A j : \A f : FrameOf(j, f)' = FrameOf(j, f)  BY <1>2 DEF FrameOf, Told
<1>12. DriveQueue'
  <2> SUFFICES ASSUME NEW idx \in 1 .. n - 1 PROVE FrameOf(m - (n - 1) + idx, DCQ'[idx])
    BY <1>5, <1>6, <1>7, <1>11 DEF DriveQueue
  <2>1. idx + 1 \in 1 .. n /\ m - (n - 1) + idx = m - n + (idx + 1)  BY <1>6
  <2>2. FrameOf(m - n + (idx + 1), DCQ[idx + 1])  BY <1>1, <1>4, <1>5, <2>1 DEF DriveQueue
  <2> QED  BY <1>7, <2>1, <2>2
<1>13. ASSUME NEW j \in Int PROVE Done(j)' <=> Done(j) \/ j = k
  <2>1. (Done(j)' <=> j <= m - (n - 1)) /\ (Done(j) <=> j <= m - n)  BY <1>4, <1>5, <1>7 DEF Done
  <2> QED  BY <1>6, <1>9, <2>1
<1> QED  BY <1>10, <1>12, <1>13

LEMMA ThreadKeeps == DriveInv /\ can_thread => DriveInv'
<1> SUFFICES ASSUME DriveInv, can_thread PROVE DriveInv'  OBVIOUS
<1>1. /\ DriveValues /\ (Drivable(word) => FrontFollows /\ RearFollows) /\ MotionReported
  BY DEF DriveInv
<1>2. UNCHANGED <<stage, word, given, reply>>  BY DEF can_thread
<1>3. DriveQueue'  BY NextFrame
<1>4. PICK k \in 1 .. 6 : FrameOf(k, Head(DCQ)) /\ \A j \in Int : (Done(j)' <=> Done(j) \/ j = k)
  BY NextFrame
<1>5. /\ stage \in {"idle", "poll", "set"} /\ word \in Words \cup {Stop} /\ given \in 0 .. 4
      /\ position \in Allowed /\ speed \in [Rear -> DecSpeeds]
      /\ CruPosition \in Int /\ CruVelocity \in [Rear -> Int]
      /\ reply.w \in TwoBytes /\ reply.v \in TwoBytes
  BY <1>1 DEF DriveValues
<1>6. \A d : Told(d)' = Told(d)  BY <1>2 DEF Told
<1>7. MotionReported'  BY <1>1, <1>2 DEF MotionReported, ItsReply
<1>8. Allowed \subseteq Wide /\ Allowed \subseteq Int  BY AllowedIs
<1> DEFINE Now(g, b) == given >= g \/ b
           Kept == Drivable(word) => FrontFollows' /\ RearFollows'
<1>9. SUFFICES DriveValues' /\ Kept  BY <1>2, <1>3, <1>7 DEF DriveInv
<1>10. CASE k = 1
  <2>1. CruPosition' = position /\ UNCHANGED <<position, speed, CruVelocity>>
    <3>1. Head(DCQ) = PollPosition  BY <1>4, <1>10, SMT DEF FrameOf
    <3> QED  BY <1>5, <1>8, <3>1, PositionPolled
  <2>2. DriveValues'  BY <1>2, <1>5, <1>8, <2>1 DEF DriveValues
  <2>3. /\ Done(4)' <=> Done(4)
        /\ \A d \in Rear : (Done(d + 4)' <=> Done(d + 4)) /\ (Done(d + 1)' <=> Done(d + 1))
    BY <1>4, <1>10, SMT DEF Rear
  <2>4. ASSUME Drivable(word) PROVE FrontFollows' /\ RearFollows'
    <3>1. FrontFollows /\ RearFollows  BY <1>1, <2>4
    <3>2. FrontFollows'
      <4>1. given >= 1 \/ Done(4) => position = Target(word)  BY <3>1 DEF FrontFollows
      <4>2. given >= 2 \/ given = 1 => given >= 1  BY <1>5, SMT
      <4>3. position' = position /\ CruPosition' = position /\ word' = word /\ given' = given  BY <1>2, <2>1
      <4> QED  BY <2>3, <4>1, <4>2, <4>3 DEF FrontFollows
    <3>3. RearFollows'  BY <1>2, <1>6, <2>1, <2>3, <3>1 DEF RearFollows
    <3> QED  BY <3>2, <3>3
  <2> QED  BY <2>2, <2>4
<1>11. CASE k \in {2, 3}
  <2>1. PICK e \in Rear : e = k - 1  BY <1>11, SMT DEF Rear
  <2>2. CruVelocity' = [CruVelocity EXCEPT ![e] = speed[e]] /\ UNCHANGED <<position, speed, CruPosition>>
    <3>1. Head(DCQ) = PollSpeed(e)  BY <1>4, <1>11, <2>1, SMT DEF FrameOf
    <3>2. speed[e] \in Wide  BY <1>5, DecIs
    <3> QED  BY <3>1, <3>2, SpeedPolled
  <2>3. DriveValues'
    <3>1. speed[e] \in Int  BY <1>5, DecIs
    <3> QED  BY <1>2, <1>5, <2>2, <3>1 DEF DriveValues
  <2>4. /\ (Done(4)' <=> Done(4)) /\ (Done(1)' <=> Done(1))
        /\ \A d \in Rear : (Done(d + 4)' <=> Done(d + 4))
        /\ \A d \in Rear : d # e => (Done(d + 1)' <=> Done(d + 1))
    BY <1>4, <1>11, <2>1, SMT DEF Rear
  <2>5. ASSUME Drivable(word) PROVE FrontFollows' /\ RearFollows'
    <3>1. FrontFollows /\ RearFollows  BY <1>1, <2>5
    <3>2. FrontFollows'  BY <1>2, <2>2, <2>4, <3>1 DEF FrontFollows
    <3>3. ASSUME NEW d \in Rear
          PROVE  /\ given >= 3 \/ (given = 2 /\ Done(d + 4)) => speed[d] = Told(d) * DEC
                 /\ given >= 4 \/ (given = 3 /\ Done(d + 1)') => CruVelocity'[d] = Told(d) * DEC
      <4>1. /\ given >= 3 \/ (given = 2 /\ Done(d + 4)) => speed[d] = Told(d) * DEC
            /\ given >= 4 \/ (given = 3 /\ Done(d + 1)) => CruVelocity[d] = Told(d) * DEC
        BY <3>1 DEF RearFollows
      <4>2. CASE d = e
        <5>1. CruVelocity'[d] = speed[d]  BY <1>5, <2>2, <4>2
        <5>2. given >= 4 \/ given = 3 => given >= 3  BY <1>5, SMT
        <5> QED  BY <4>1, <5>1, <5>2
      <4>3. CASE d # e
        <5>1. CruVelocity'[d] = CruVelocity[d]  BY <1>5, <2>2, <4>3
        <5> QED  BY <2>4, <4>1, <4>3, <5>1
      <4> QED  BY <4>2, <4>3
    <3>4. RearFollows'  BY <1>2, <1>6, <2>2, <2>4, <3>3 DEF RearFollows
    <3> QED  BY <3>2, <3>4
  <2> QED  BY <2>3, <2>5
<1>12. CASE k = 4
  <2>1. PICK p \in Allowed : Head(DCQ) = SetPosition(p) /\ (Drivable(word) => p = Target(word))
    BY <1>4, <1>12, SMT DEF FrameOf
  <2>2. position' = p /\ UNCHANGED <<speed, CruPosition, CruVelocity>>  BY <1>8, <2>1, PositionSet
  <2>3. DriveValues'  BY <1>2, <1>5, <2>2 DEF DriveValues
  <2>4. /\ Done(1)' <=> Done(1)
        /\ \A d \in Rear : (Done(d + 4)' <=> Done(d + 4)) /\ (Done(d + 1)' <=> Done(d + 1))
    BY <1>4, <1>12, SMT DEF Rear
  <2>5. ASSUME Drivable(word) PROVE FrontFollows' /\ RearFollows'
    <3>1. FrontFollows /\ RearFollows  BY <1>1, <2>5
    <3>2. position' = Target(word)  BY <2>1, <2>2, <2>5
    <3>3. FrontFollows'  BY <1>2, <2>2, <2>4, <3>1, <3>2 DEF FrontFollows
    <3>4. RearFollows'  BY <1>2, <1>6, <2>2, <2>4, <3>1 DEF RearFollows
    <3> QED  BY <3>3, <3>4
  <2> QED  BY <2>3, <2>5
<1>13. CASE k \in {5, 6}
  <2>1. PICK e \in Rear : e = k - 4  BY <1>13, SMT DEF Rear
  <2>2. PICK x \in Speeds : /\ Head(DCQ) = SetSpeed(e, x)
                            /\ given >= 2 /\ Drivable(word) => x = Told(e)
    BY <1>4, <1>13, <2>1, SMT DEF FrameOf
  <2>3. x * DEC \in DecSpeeds /\ x * DEC \in Wide  BY DecIs
  <2>4. speed' = [speed EXCEPT ![e] = x * DEC] /\ UNCHANGED <<position, CruPosition, CruVelocity>>
    BY <2>2, <2>3, SpeedSet
  <2>5. DriveValues'  BY <1>2, <1>5, <2>3, <2>4 DEF DriveValues
  <2>6. /\ (Done(4)' <=> Done(4)) /\ (Done(1)' <=> Done(1))
        /\ \A d \in Rear : (Done(d + 1)' <=> Done(d + 1))
        /\ \A d \in Rear : d # e => (Done(d + 4)' <=> Done(d + 4))
    BY <1>4, <1>13, <2>1, SMT DEF Rear
  <2>7. ASSUME Drivable(word) PROVE FrontFollows' /\ RearFollows'
    <3>1. FrontFollows /\ RearFollows  BY <1>1, <2>7
    <3>2. FrontFollows'  BY <1>2, <2>4, <2>6, <3>1 DEF FrontFollows
    <3>3. ASSUME NEW d \in Rear
          PROVE  /\ given >= 3 \/ (given = 2 /\ Done(d + 4)') => speed'[d] = Told(d) * DEC
                 /\ given >= 4 \/ (given = 3 /\ Done(d + 1)) => CruVelocity[d] = Told(d) * DEC
      <4>1. /\ given >= 3 \/ (given = 2 /\ Done(d + 4)) => speed[d] = Told(d) * DEC
            /\ given >= 4 \/ (given = 3 /\ Done(d + 1)) => CruVelocity[d] = Told(d) * DEC
        BY <3>1 DEF RearFollows
      <4>2. CASE d = e
        <5>1. speed'[d] = x * DEC  BY <1>5, <2>4, <4>2
        <5>2. given >= 3 \/ given = 2 => given >= 2  BY <1>5, SMT
        <5>3. given >= 3 \/ given = 2 => x = Told(d)  BY <2>2, <2>7, <4>2, <5>2
        <5> QED  BY <4>1, <5>1, <5>3
      <4>3. CASE d # e
        <5>1. speed'[d] = speed[d]  BY <1>5, <2>4, <4>3
        <5> QED  BY <2>6, <4>1, <4>3, <5>1
      <4> QED  BY <4>2, <4>3
    <3>4. RearFollows'  BY <1>2, <1>6, <2>4, <2>6, <3>3 DEF RearFollows
    <3> QED  BY <3>2, <3>4
  <2> QED  BY <2>5, <2>7
<1> QED  BY <1>4, <1>10, <1>11, <1>12, <1>13, SMT

LEMMA DriveTypes == DriveInv => DriveTypeOK
<1> SUFFICES ASSUME DriveInv PROVE DriveTypeOK  OBVIOUS
<1>1. DriveValues /\ DriveQueue  BY DEF DriveInv
<1>2. ASSUME NEW idx \in DOMAIN DCQ PROVE DCQ[idx].ID \in 1 .. 3 /\ DCQ[idx].data \in [1 .. 8 -> Bytes]
  <2>1. DCQ[idx] \in Frames  BY <1>1 DEF DriveQueue
  <2> QED  BY <2>1 DEF Frames
<1>3. ASSUME NEW d \in Rear PROVE Near(speed[d], 0, DEC * 5 * 32768)
  <2>1. PICK x \in DecSpeeds : x = speed[d]  BY <1>1 DEF DriveValues
  <2>2. Near(x, 0, DEC * 5 * 32768)  BY SMT DEF Near, Abs, DecSpeeds, DEC, Fast
  <2> QED  BY <2>1, <2>2
<1> QED  BY <1>1, <1>2, <1>3 DEF DriveTypeOK, DriveValues, Allowed, TwoBytes

LEMMA DriveStays == DriveSpec => []DriveInv
<1>1. DriveInit => DriveInv  BY DriveInitOk
<1>2. DriveInv /\ [DriveNext]_driveVars => DriveInv'
  <2> SUFFICES ASSUME DriveInv, [DriveNext]_driveVars PROVE DriveInv'  OBVIOUS
  <2>1. CASE DriveNext  BY <2>1, FeedbackKeeps, ReplyKeeps, MotionKeeps, ThreadKeeps DEF DriveNext
  <2>2. CASE UNCHANGED driveVars
    BY <2>2 DEF driveVars, DriveInv, DriveValues, DriveQueue, FrontFollows, RearFollows, MotionReported,
                ItsReply, FrameOf, OfCycle, Done, Told
  <2> QED  BY <2>1, <2>2
<1> QED  BY <1>1, <1>2, PTL DEF DriveSpec

(* Frames are of bytes and have a drive's number, the front drive stays in   *)
(* its travel although kinematics.c:76 may take the asin of more than 1, and *)
(* a wheel's speed fits the 4 bytes that driver.c:137-150 sends.             *)
THEOREM DriveKeepsTypes == DriveSpec => []DriveTypeOK
<1> QED  BY DriveStays, DriveTypes, PTL

(* The reply to a command that has settled says what it asked for: what      *)
(* message.c and kinematics.c made of it, driver.c sent and the drives       *)
(* answered, is turned back to it (message.c:221-227), rounding included.    *)
THEOREM ReportsMotion == DriveSpec => []MotionReported
<1>1. DriveInv => MotionReported  BY DEF DriveInv
<1> QED  BY <1>1, DriveStays, PTL
-----------------------------------------------------------------------------
(****************************************************************************)
(* The parts side by side: a step of one leaves the variables of the others *)
(* alone, so a behaviour of all of them is a behaviour of each.             *)
(****************************************************************************)
LEMMA EachPartRuns ==
  PartsSpec => Spec /\ MemSpec /\ TimeoutsSpec /\ WifiSpec /\ BootSpec /\ DriveSpec
<1>1. PartsInit => Init /\ MemInit /\ TimeoutsInit /\ WifiInit /\ BootInit /\ DriveInit  BY DEF PartsInit
<1>2. [PartsNext]_all => [Next]_vars  BY DEF PartsNext, Only, all
<1>3. [PartsNext]_all => [MemNext]_memVars  BY DEF PartsNext, Only, all
<1>4. [PartsNext]_all => [TimeoutsNext]_timeoutVars  BY DEF PartsNext, Only, all
<1>5. [PartsNext]_all => [WifiNext]_wifiVars  BY DEF PartsNext, Only, all
<1>6. [PartsNext]_all => [BootNext]_bootVars  BY DEF PartsNext, Only, all
<1>7. [PartsNext]_all => [DriveNext]_driveVars  BY DEF PartsNext, Only, all
<1> QED
  BY <1>1, <1>2, <1>3, <1>4, <1>5, <1>6, <1>7, PTL
  DEF PartsSpec, Spec, MemSpec, TimeoutsSpec, WifiSpec, BootSpec, DriveSpec

(* No index, count, time, byte or speed of the six parts leaves its range,  *)
(* and no pool of control blocks is overdrawn, for every table, capacity,   *)
(* map, delay and pool that suffices.                                       *)
THEOREM PartsKeepTypes == ASSUME Suffices PROVE PartsSpec => []PartsTypeOK
<1>1. TypeOK /\ MemTypeOK /\ TimeoutsTypeOK /\ WifiTypeOK /\ BootTypeOK /\ DriveTypeOK => PartsTypeOK
  BY DEF PartsTypeOK
<1> QED
  BY <1>1, EachPartRuns, TypeCorrect, AllocatorTypes, TimersKeepTypes, LineKeepsTypes, StartKeepsTypes,
     DriveKeepsTypes, PTL
=============================================================================
