--------------------------- MODULE LogBufferProofs ---------------------------
(***************************************************************************)
(* Every byte of a block goes through the cipher once, in its own unit,    *)
(* and the header never covers more than that: for buffers and cipher      *)
(* units of any size, any number of bytes a call and any crashes.          *)
(***************************************************************************)
EXTENDS LogBuffer, Integers, TLAPS

\* What the header says where a call can be interrupted.
Header ==
  /\ ~magic => logLen = 0
  /\ pc = "idle" => IF length = 0 THEN ~magic ELSE magic /\ logLen = BodyLen
  /\ pc \in {"reset", "deflate"} => magic /\ logLen = 0 /\ BodyLen = 0
  /\ pc = "deflate" => length # 0
  /\ pc = "crypt" => magic /\ length # 0 /\ logLen = BodyLen /\ logLen + added <= Room
  /\ pc = "update" => magic /\ length # 0 /\ logLen + added = BodyLen
  /\ pc \in {"clear", "clearHeader"} /\ length = 0 => ~magic
  /\ pc \in {"clearBody", "cleared"} => ~magic

\* The stream is open while a block is written, and that block has met no
\* crash.
Stages ==
  /\ pc \in {"reset", "deflate", "crypt", "update"} => deflating
  /\ deflating => pc \in {"idle", "reset", "deflate", "crypt", "update"} /\ ~reborn
  /\ pc \notin {"crypt", "update"} => added = 0
  /\ pc = "idle" /\ deflating => length # 0

\* The bytes that wait for a whole unit.
Waiting(len) == IF is_crypt THEN len % BlockLen ELSE 0

Remains ==
  deflating => remain = IF pc = "update" THEN Waiting(logLen + added) ELSE Waiting(logLen)

\* The bytes of a block that is being written.
Written ==
  deflating =>
    IF pc = "update"
    THEN \A i \in 1 .. logLen + added : Decodes(body, i, logLen + added)
    ELSE \A i \in 1 .. logLen : Decodes(body, i, logLen)

Fresh == pc = "crypt" => \A i \in logLen + 1 .. logLen + added : body[i] = Plain(i)

\* The bytes a header covers, whoever wrote it.
Covered ==
  ~tornClear /\ pc \notin {"update", "clearHeader"} =>
    \A i \in 1 .. logLen : (reborn /\ i > WholeUnits(logLen)) \/ Decodes(body, i, logLen)

Inv ==
  TypeOK /\ Header /\ Stages /\ Remains /\ Written /\ Fresh /\ Covered /\ EmittedDecodes
-----------------------------------------------------------------------------
\* Multiples and remainders.
LEMMA Remainder ==
  ASSUME NEW b \in Nat \ {0}, NEW a \in Nat
  PROVE  a % b \in 0 .. b - 1 /\ a % b <= a /\ a - (a % b) \in Nat
OBVIOUS

LEMMA Division ==
  ASSUME NEW b \in Nat \ {0}, NEW a \in Nat
  PROVE  a \div b \in Nat /\ a = (b * (a \div b)) + (a % b)
OBVIOUS

LEMMA OnlyRemainder ==
  ASSUME NEW b \in Nat \ {0}, NEW q \in Nat, NEW r \in 0 .. b - 1
  PROVE  ((b * q) + r) % b = r
OBVIOUS

\* A multiple of b in front changes no remainder.
LEMMA MultipleBefore ==
  ASSUME NEW b \in Nat \ {0}, NEW c \in Nat, NEW x \in Nat, c % b = 0
  PROVE  (c + x) % b = x % b
<1> DEFINE p == c \div b
           q == x \div b
           r == x % b
           s == p + q
<1>1. c = (b * p) + 0 /\ p \in Nat
  BY Division
<1>2. x = (b * q) + r /\ q \in Nat /\ r \in 0 .. b - 1
  BY Division, Remainder
<1> HIDE DEF p, q, r
<1>3. b * p \in Nat /\ b * q \in Nat /\ s \in Nat /\ b * s = (b * p) + (b * q)
  BY <1>1, <1>2
<1> HIDE DEF s
<1>4. c + x = (b * s) + r
  <2> DEFINE u == b * p
             v == b * q
             w == b * s
  <2>1. c = u + 0 /\ x = v + r /\ w = u + v /\ u \in Nat /\ v \in Nat /\ r \in Nat
    BY <1>1, <1>2, <1>3
  <2> HIDE DEF u, v, w
  <2>2. c + x = w + r
    BY <2>1
  <2>3. QED
    BY <2>2 DEF w
<1>5. ((b * s) + r) % b = r
  BY <1>2, <1>3, OnlyRemainder
<1>6. (c + x) % b = r
  BY <1>4, <1>5, Zenon
<1>7. QED
  BY <1>6 DEF r

LEMMA WholeIsMultiple ==
  ASSUME NEW b \in Nat \ {0}, NEW a \in Nat
  PROVE  (a - (a % b)) % b = 0
<1> DEFINE p == a \div b
           r == a % b
<1>1. a = (b * p) + r /\ p \in Nat /\ r \in 0 .. b - 1
  BY Division, Remainder
<1> HIDE DEF p, r
<1>2. b * p \in Nat
  BY <1>1
<1>3. a - r = (b * p) + 0
  <2> DEFINE w == b * p
  <2>1. a = w + r /\ w \in Nat /\ r \in Nat
    BY <1>1, <1>2
  <2> HIDE DEF w
  <2>2. a - r = w + 0
    BY <2>1
  <2>3. QED
    BY <2>2 DEF w
<1>4. ((b * p) + 0) % b = 0
  BY <1>1, OnlyRemainder
<1>5. (a - r) % b = 0
  BY <1>3, <1>4, Zenon
<1>6. QED
  BY <1>5 DEF r

\* Whole units of a block that grows only grow.
LEMMA WholeGrows ==
  ASSUME NEW b \in Nat \ {0}, NEW a \in Nat, NEW n \in Nat
  PROVE  a - (a % b) <= (a + n) - ((a + n) % b)
<1> DEFINE c == a - (a % b)
           x == (a % b) + n
<1>1. c \in Nat /\ x \in Nat /\ c % b = 0 /\ a + n = c + x
  BY Remainder, WholeIsMultiple
<1> HIDE DEF c, x
<1>2. (c + x) % b = x % b
  BY <1>1, MultipleBefore
<1>3. (a + n) % b = x % b
  BY <1>1, <1>2, Zenon
<1>4. x % b <= x /\ x % b \in Nat
  BY <1>1, Remainder
<1>5. c <= (a + n) - (x % b)
  BY <1>1, <1>4
<1>6. QED
  BY <1>3, <1>5 DEF c
-----------------------------------------------------------------------------
LEMMA Sizes ==
  /\ HeaderLen \in Nat /\ HeaderLen > 0 /\ MaxLength \in Nat /\ HeaderLen < MaxLength
  /\ BlockLen \in Nat \ {0} /\ Room \in Nat /\ Room > 0 /\ Room = MaxLength - HeaderLen
  /\ Positions = 1 .. Room
BY SizeAssumption DEF Room, Positions

LEMMA BodyType ==
  ASSUME TypeOK
  PROVE  /\ BodyLen \in 0 .. Room
         /\ length # 0 => length = BodyLen + HeaderLen
         /\ length = 0 => BodyLen = 0
         /\ length \in Nat /\ length <= MaxLength
BY Sizes DEF TypeOK, BodyLen

LEMMA IsBoolean == TypeOK => is_crypt \in BOOLEAN
BY SizeAssumption DEF TypeOK

LEMMA WholeType ==
  ASSUME NEW len \in Nat
  PROVE  WholeUnits(len) \in 0 .. len /\ Waiting(len) \in 0 .. BlockLen - 1
<1>1. len % BlockLen \in 0 .. BlockLen - 1 /\ len % BlockLen <= len /\ len - (len % BlockLen) \in Nat
  BY Sizes, Remainder
<1>2. QED
  BY <1>1, Sizes DEF WholeUnits, Waiting

LEMMA WholeUnitsGrow ==
  ASSUME NEW len \in Nat, NEW n \in Nat
  PROVE  WholeUnits(len) <= WholeUnits(len + n)
<1>1. len - (len % BlockLen) <= (len + n) - ((len + n) % BlockLen)
  BY Sizes, WholeGrows
<1>2. QED
  BY <1>1 DEF WholeUnits

\* A byte in a whole unit decodes alike whatever follows it.
LEMMA DecodesOn ==
  ASSUME NEW len \in Nat, NEW n \in Nat, NEW i \in 1 .. WholeUnits(len), NEW bytes,
         Decodes(bytes, i, len + n)
  PROVE  Decodes(bytes, i, len)
<1>1. /\ WholeUnits(len) \in Nat /\ WholeUnits(len + n) \in Nat
      /\ WholeUnits(len) <= WholeUnits(len + n)
  <2>1. WholeUnits(len) \in 0 .. len
    BY WholeType
  <2>2. len + n \in Nat
    OBVIOUS
  <2>3. WholeUnits(len + n) \in 0 .. len + n
    BY <2>2, WholeType
  <2>4. QED
    BY <2>1, <2>2, <2>3, WholeUnitsGrow
<1>2. i <= WholeUnits(len) /\ i <= WholeUnits(len + n)
  BY <1>1
<1>3. QED
  BY <1>2 DEF Decodes

LEMMA ByteTypes ==
  ASSUME NEW k \in Nat, NEW start \in Nat, NEW byte \in Byte
  PROVE  Zero \in Byte /\ Plain(k) \in Byte /\ Encrypt(byte, start) \in Byte
<1>1. Zero \in Byte /\ Plain(k) \in Byte
  BY DEF Zero, Plain, Byte
<1>2. Append(byte.enc, start) \in Seq(Nat)
  BY DEF Byte
<1>3. QED
  BY <1>1, <1>2 DEF Encrypt, Byte

LEMMA InitInv == Init => Inv
<1> SUFFICES ASSUME Init PROVE Inv
  OBVIOUS
<1>1. Zero \in Byte
  BY ByteTypes DEF Zero, Byte
<1>2. emitted \in [len : 0 .. Room, bytes : Seq(Byte), tail : BOOLEAN, reborn : BOOLEAN]
  BY Sizes DEF Init, Nothing
<1>3. body \in [Positions -> Byte]
  BY <1>1 DEF Init
<1>4. TypeOK
  <2>1. 0 \in 0 .. Room /\ 0 \in 0 .. BlockLen - 1
    BY Sizes
  <2>2. QED
    BY <1>2, <1>3, <2>1 DEF Init, TypeOK
<1>5. Header /\ Stages /\ Remains /\ Written /\ Fresh /\ Covered
  BY DEF Init, Header, Stages, Remains, Written, Fresh, Covered
<1>6. EmittedDecodes
  BY DEF Init, Nothing, EmittedDecodes
<1>7. QED
  BY <1>4, <1>5, <1>6 DEF Inv
-----------------------------------------------------------------------------
\* The steps of Write.
LEMMA ResetMagicKeeps ==
  ASSUME Inv, ResetMagic, UNCHANGED is_crypt
  PROVE  Inv'
<1> USE DEF Inv
<1>1. /\ magic' = TRUE /\ logLen = 0 /\ logLen' = 0 /\ remain' = 0 /\ length = 0
      /\ pc' = "reset" /\ deflating' = TRUE /\ reborn' = FALSE /\ added' = 0
      /\ UNCHANGED <<body, length, added, emitted, pastEnd, crashes, tornClear>>
  BY DEF ResetMagic, Header, Stages, TypeOK
<1>2. TypeOK'
  <2>1. 0 \in 0 .. Room /\ 0 \in 0 .. BlockLen - 1
    BY Sizes
  <2>2. QED
    BY <1>1, <2>1 DEF TypeOK
<1>3. Header' /\ Stages'
  BY <1>1 DEF Header, Stages, BodyLen
<1>4. Remains'
  <2>1. 0 % BlockLen = 0
    BY Sizes, Remainder
  <2>2. QED
    BY <1>1, <2>1 DEF Remains, Waiting
<1>5. Written' /\ Fresh' /\ Covered'
  BY <1>1 DEF Written, Fresh, Covered
<1>6. EmittedDecodes'
  BY <1>1 DEF EmittedDecodes, Decodes, WholeUnits
<1>7. QED
  BY <1>2, <1>3, <1>4, <1>5, <1>6

LEMMA ResetLengthKeeps ==
  ASSUME Inv, ResetLength, UNCHANGED is_crypt
  PROVE  Inv'
<1> USE DEF Inv
<1>1. /\ pc = "reset" /\ pc' = "deflate" /\ logLen = 0 /\ logLen' = 0 /\ length' = HeaderLen
      /\ UNCHANGED <<magic, body, remain, deflating, added, emitted, pastEnd,
                     crashes, reborn, tornClear>>
  BY DEF ResetLength, Header, stream, history
<1>2. HeaderLen # 0 /\ HeaderLen \in HeaderLen .. MaxLength /\ HeaderLen - HeaderLen = 0
  BY Sizes
<1>3. TypeOK'
  BY <1>1, <1>2 DEF TypeOK
<1>4. Header' /\ Stages'
  BY <1>1, <1>2 DEF Header, Stages, BodyLen
<1>5. Remains' /\ Written' /\ Fresh' /\ Covered'
  BY <1>1 DEF Remains, Waiting, Written, Fresh, Covered
<1>6. EmittedDecodes'
  BY <1>1 DEF EmittedDecodes, Decodes, WholeUnits
<1>7. QED
  BY <1>3, <1>4, <1>5, <1>6

LEMMA DeflateKeeps ==
  ASSUME Inv, NEW n \in 1 .. MaxOut, Deflate(n), UNCHANGED is_crypt
  PROVE  Inv'
<1> USE DEF Inv
<1>1. /\ pc' = "crypt" /\ added' = Least(n, Room - BodyLen)
      /\ body' = [i \in Positions |->
                    IF i \in (BodyLen + 1)..(BodyLen + added') THEN Plain(i) ELSE body[i]]
      /\ UNCHANGED <<magic, logLen, length, remain, deflating, emitted, pastEnd,
                     crashes, reborn, tornClear>>
  BY DEF Deflate, history
<1>2. /\ magic /\ length # 0 /\ deflating /\ ~reborn /\ logLen = BodyLen
      /\ pc \in {"idle", "deflate"}
  BY DEF Deflate, Header, Stages
<1>3. /\ BodyLen \in 0 .. Room /\ Room \in Nat /\ logLen \in Nat
  BY <1>2, BodyType, Sizes
<1>4. added' \in 0 .. Room /\ BodyLen + added' <= Room
  <2>1. n \in Nat
    BY SizeAssumption
  <2>2. QED
    BY <1>1, <1>3, <2>1 DEF Least
<1>5. BodyLen' = BodyLen
  BY <1>1 DEF BodyLen
<1>6. body' \in [Positions -> Byte]
  <2>1. ASSUME NEW i \in Positions PROVE body'[i] \in Byte
    <3>1. i \in Nat /\ body[i] \in Byte
      BY Sizes DEF TypeOK
    <3>2. Plain(i) \in Byte
      BY <3>1, ByteTypes DEF Plain, Byte
    <3>3. QED
      BY <1>1, <3>1, <3>2
  <2>2. QED
    BY <1>1, <2>1
<1>7. TypeOK'
  BY <1>1, <1>4, <1>6 DEF TypeOK
<1>8. Header' /\ Stages'
  BY <1>1, <1>2, <1>4, <1>5 DEF Header, Stages
<1>9. Remains'
  BY <1>1, <1>2 DEF Remains, Waiting
<1>10. ASSUME NEW i \in 1 .. logLen PROVE body'[i] = body[i]
  <2>1. i \in Positions /\ i \notin (BodyLen + 1)..(BodyLen + added')
    BY <1>2, <1>3, Sizes
  <2>2. QED
    BY <1>1, <2>1
<1>11. Written' /\ Covered'
  BY <1>1, <1>2, <1>10 DEF Written, Covered, Decodes, WholeUnits
<1>12. Fresh'
  <2>1. logLen = BodyLen
    BY <1>2
  <2>2. logLen + 1 .. logLen + added' = BodyLen + 1 .. BodyLen + added'
    BY <2>1, Zenon
  <2>3. ASSUME NEW i \in logLen + 1 .. logLen + added' PROVE body'[i] = Plain(i)
    <3>1. i \in BodyLen + 1 .. BodyLen + added'
      BY <2>2, Zenon
    <3>2. i \in 1 .. Room
      <4> DEFINE a == added'
      <4>1. a \in 0 .. Room /\ BodyLen + a <= Room /\ i \in BodyLen + 1 .. BodyLen + a
        BY <1>4, <3>1, Zenon
      <4> HIDE DEF a
      <4>2. QED
        BY <1>3, <4>1
    <3>3. QED
      BY <1>1, <3>1, <3>2, Sizes
  <2>4. QED
    BY <1>1, <2>3 DEF Fresh
<1>13. EmittedDecodes'
  BY <1>1 DEF EmittedDecodes, Decodes, WholeUnits
<1>14. QED
  BY <1>7, <1>8, <1>9, <1>11, <1>12, <1>13

\* Where CryptAsyncLog begins and ends.
LEMMA Units ==
  ASSUME Inv, pc = "crypt"
  PROVE  /\ logLen \in Nat /\ added \in Nat /\ logLen + added <= Room
         /\ CryptFrom \in Nat /\ CryptFrom <= logLen
         /\ is_crypt => CryptFrom = WholeUnits(logLen) /\ CryptFrom % BlockLen = 0
         /\ CryptLen \in Nat /\ UnitBytes \in 0 .. CryptLen
         /\ CryptLen % BlockLen \in 0 .. BlockLen - 1
         /\ is_crypt => CryptFrom + UnitBytes = WholeUnits(logLen + added)
         /\ is_crypt => CryptLen % BlockLen = Waiting(logLen + added)
         /\ ~is_crypt => UnitBytes = 0
<1>1. /\ logLen \in Nat /\ added \in Nat /\ logLen + added <= Room /\ logLen = BodyLen
      /\ remain = Waiting(logLen) /\ is_crypt \in BOOLEAN
  BY IsBoolean, Sizes DEF Inv, TypeOK, Header, Stages, Remains
<1>2. /\ logLen % BlockLen \in 0 .. BlockLen - 1 /\ logLen % BlockLen <= logLen
      /\ logLen - (logLen % BlockLen) \in Nat
  BY <1>1, Sizes, Remainder
<1>3. remain \in Nat /\ remain <= logLen
  BY <1>1, <1>2, Sizes DEF Waiting
<1>4. CryptFrom \in Nat /\ CryptFrom <= logLen /\ CryptLen \in Nat
      /\ CryptFrom + CryptLen = logLen + added
  BY <1>1, <1>3 DEF CryptFrom, CryptLen
<1>5. /\ CryptLen % BlockLen \in 0 .. BlockLen - 1
      /\ CryptLen - (CryptLen % BlockLen) \in 0 .. CryptLen
  <2> DEFINE x == CryptLen
  <2>1. x \in Nat
    BY <1>4
  <2> HIDE DEF x
  <2>2. x % BlockLen \in 0 .. BlockLen - 1 /\ x % BlockLen <= x /\ x - (x % BlockLen) \in Nat
    BY <2>1, Sizes, Remainder
  <2>3. x % BlockLen \in Nat
    BY <2>2, Sizes
  <2>4. x - (x % BlockLen) \in 0 .. x
    BY <2>1, <2>2, <2>3
  <2>5. QED
    BY <2>2, <2>4 DEF x
<1>6. UnitBytes \in 0 .. CryptLen
  BY <1>4, <1>5 DEF UnitBytes
<1>7. ASSUME is_crypt
      PROVE  /\ CryptFrom = WholeUnits(logLen) /\ CryptFrom % BlockLen = 0
             /\ CryptFrom + UnitBytes = WholeUnits(logLen + added)
             /\ CryptLen % BlockLen = Waiting(logLen + added)
  <2>1. CryptFrom = logLen - (logLen % BlockLen)
    BY <1>1, <1>7 DEF CryptFrom, Waiting
  <2>2. (logLen - (logLen % BlockLen)) % BlockLen = 0
    BY <1>1, Sizes, WholeIsMultiple
  <2>3. CryptFrom % BlockLen = 0
    BY <2>1, <2>2, Zenon
  <2> DEFINE c == CryptFrom
             x == CryptLen
             m == x % BlockLen
             l == logLen + added
  <2>4. c \in Nat /\ x \in Nat /\ c + x = l /\ c % BlockLen = 0 /\ l \in Nat
    BY <1>1, <1>4, <2>3
  <2>5. m \in Nat
    BY <1>5, Sizes
  <2>6. UnitBytes = x - m
    BY <1>7 DEF UnitBytes
  <2> HIDE DEF c, x, l
  <2>7. (c + x) % BlockLen = m
    BY <2>4, Sizes, MultipleBefore
  <2>8. l % BlockLen = m
    BY <2>4, <2>7, Zenon
  <2> HIDE DEF m
  <2>9. c + (x - m) = l - m
    BY <2>4, <2>5
  <2>10. c + UnitBytes = l - (l % BlockLen)
    BY <2>6, <2>8, <2>9
  <2>11. QED
    BY <1>7, <2>1, <2>3, <2>8, <2>10 DEF c, x, l, m, WholeUnits, Waiting
<1>8. ~is_crypt => UnitBytes = 0
  BY DEF UnitBytes
<1>9. QED
  BY <1>1, <1>4, <1>5, <1>6, <1>7, <1>8

\* A unit begins where it would if all the block had been encrypted at once.
LEMMA UnitStart ==
  ASSUME Inv, pc = "crypt", NEW i \in Nat, i > CryptFrom
  PROVE  /\ i - ((i - CryptFrom - 1) % BlockLen) \in Nat
         /\ is_crypt => i - ((i - CryptFrom - 1) % BlockLen) = i - ((i - 1) % BlockLen)
<1> DEFINE c == CryptFrom
           x == i - CryptFrom - 1
<1>2. c \in Nat /\ x \in Nat /\ c + x = i - 1 /\ x <= i
  BY Units
<1>3. is_crypt => c % BlockLen = 0
  BY Units
<1> HIDE DEF c, x
<1>4. x % BlockLen \in 0 .. BlockLen - 1 /\ x % BlockLen <= x
  BY <1>2, Sizes, Remainder
<1>5. i - (x % BlockLen) \in Nat
  BY <1>2, <1>4, Sizes
<1>6. is_crypt => (c + x) % BlockLen = x % BlockLen
  BY <1>2, <1>3, Sizes, MultipleBefore
<1>7. is_crypt => (i - 1) % BlockLen = x % BlockLen
  BY <1>2, <1>6, Zenon
<1>8. QED
  BY <1>5, <1>7 DEF x

\* What the cipher has written, all of it or the front of it.
LEMMA CryptedIs ==
  ASSUME Inv, pc = "crypt", NEW n \in Nat
  PROVE  /\ Crypted(n) \in [Positions -> Byte]
         /\ \A i \in 1 .. CryptFrom : Crypted(n)[i] = body[i]
         /\ ~is_crypt => \A i \in Positions : Crypted(n)[i] = body[i]
<1>1. CryptFrom \in Nat /\ CryptFrom <= Room /\ UnitBytes \in Nat /\ CryptLen \in Nat
  BY Units, Sizes
<1>2. ASSUME NEW i \in Positions PROVE Crypted(n)[i] \in Byte
  <2>1. i \in Nat /\ body[i] \in Byte
    BY Sizes DEF Inv, TypeOK
  <2>2. CASE i \in (CryptFrom + 1)..(CryptFrom + Least(n, UnitBytes))
    <3>1. i > CryptFrom
      BY <1>1, <2>1, <2>2
    <3>2. i - ((i - CryptFrom - 1) % BlockLen) \in Nat
      BY <2>1, <3>1, UnitStart
    <3>3. Encrypt(body[i], i - ((i - CryptFrom - 1) % BlockLen)) \in Byte
      BY <2>1, <3>2, ByteTypes
    <3>4. QED
      BY <2>2, <3>3 DEF Crypted
  <2>3. CASE i \notin (CryptFrom + 1)..(CryptFrom + Least(n, UnitBytes))
    BY <2>1, <2>3 DEF Crypted
  <2>4. QED
    BY <2>2, <2>3
<1>3. Crypted(n) \in [Positions -> Byte]
  BY <1>2 DEF Crypted
<1>4. ASSUME NEW i \in 1 .. CryptFrom PROVE Crypted(n)[i] = body[i]
  <2>1. i \in Positions /\ i \notin (CryptFrom + 1)..(CryptFrom + Least(n, UnitBytes))
    BY <1>1, Sizes
  <2>2. QED
    BY <2>1 DEF Crypted
<1>5. ASSUME ~is_crypt, NEW i \in Positions PROVE Crypted(n)[i] = body[i]
  <2>1. Least(n, UnitBytes) = 0
    BY <1>5, Units DEF Least
  <2>2. i \notin (CryptFrom + 1)..(CryptFrom + Least(n, UnitBytes))
    BY <1>1, <2>1
  <2>3. QED
    BY <2>2 DEF Crypted
<1>6. QED
  BY <1>3, <1>4, <1>5

LEMMA CryptKeeps ==
  ASSUME Inv, Crypt, UNCHANGED is_crypt
  PROVE  Inv'
<1> USE DEF Inv
<1>1. /\ pc = "crypt" /\ pc' = "update" /\ body' = Crypted(CryptLen)
      /\ remain' = IF is_crypt THEN CryptLen % BlockLen ELSE 0
      /\ length' = length + added
      /\ UNCHANGED <<magic, logLen, deflating, added, emitted, pastEnd,
                     crashes, reborn, tornClear>>
  BY DEF Crypt, history
<1>2. /\ magic /\ length # 0 /\ deflating /\ ~reborn /\ logLen = BodyLen
      /\ is_crypt \in BOOLEAN
  BY <1>1, IsBoolean DEF Header, Stages
<1> DEFINE new == logLen + added
<1>3. /\ logLen \in Nat /\ added \in Nat /\ new \in Nat /\ new <= Room
      /\ CryptFrom \in Nat /\ CryptFrom <= logLen
      /\ CryptLen \in Nat /\ UnitBytes \in 0 .. CryptLen
      /\ CryptLen % BlockLen \in 0 .. BlockLen - 1
      /\ is_crypt => CryptFrom = WholeUnits(logLen)
      /\ is_crypt => CryptFrom + UnitBytes = WholeUnits(new)
      /\ is_crypt => CryptLen % BlockLen = Waiting(new)
  BY <1>1, Units
<1>4. Crypted(CryptLen) \in [Positions -> Byte]
  BY <1>1, <1>3, CryptedIs
<1>5. length' = HeaderLen + new /\ length' \in HeaderLen .. MaxLength /\ length' # 0
  <2>1. length = logLen + HeaderLen
    BY <1>2, BodyType
  <2>2. QED
    BY <1>1, <1>3, <2>1, Sizes
<1>6. TypeOK'
  <2>1. remain' \in 0 .. BlockLen - 1
    BY <1>1, <1>3, Sizes
  <2>2. QED
    BY <1>1, <1>4, <1>5, <2>1 DEF TypeOK
<1>7. BodyLen' = new
  BY <1>3, <1>5, Sizes DEF BodyLen
<1>8. Header' /\ Stages'
  BY <1>1, <1>2, <1>5, <1>7 DEF Header, Stages
<1>9. Remains'
  BY <1>1, <1>2, <1>3 DEF Remains, Waiting
<1>10. ASSUME NEW i \in 1 .. new PROVE Decodes(Crypted(CryptLen), i, new)
  <2>1. i \in Positions /\ i \in Nat
    BY <1>3, Sizes
  <2>2. i > CryptFrom => body[i] = Plain(i)
    <3>1. CASE i <= logLen
      <4>1. Decodes(body, i, logLen)
        BY <1>1, <1>2, <1>3, <3>1 DEF Written
      <4>2. i > CryptFrom => ~(i <= WholeUnits(logLen))
        <5>1. CASE is_crypt
          BY <1>3, <5>1
        <5>2. CASE ~is_crypt
          BY <5>2 DEF WholeUnits
        <5>3. QED
          BY <1>2, <5>1, <5>2
      <4>3. QED
        BY <4>1, <4>2 DEF Decodes
    <3>2. CASE i > logLen
      BY <1>1, <1>3, <3>2 DEF Fresh
    <3>3. QED
      BY <1>3, <3>1, <3>2
  <2>3. CASE ~is_crypt
    <3>1. Crypted(CryptLen)[i] = body[i] /\ ~(i <= WholeUnits(new)) /\ ~(i <= WholeUnits(logLen))
      BY <1>1, <1>3, <2>1, <2>3, CryptedIs DEF WholeUnits
    <3>2. body[i] = Plain(i)
      <4>1. CASE i <= logLen
        <5>1. Decodes(body, i, logLen)
          BY <1>1, <1>2, <1>3, <4>1 DEF Written
        <5>2. QED
          BY <3>1, <5>1 DEF Decodes
      <4>2. CASE i > logLen
        BY <1>1, <1>3, <4>2 DEF Fresh
      <4>3. QED
        BY <1>3, <4>1, <4>2
    <3>3. QED
      BY <3>1, <3>2 DEF Decodes
  <2>4. CASE is_crypt /\ i <= CryptFrom
    <3>1. i <= WholeUnits(logLen)
      BY <1>3, <2>4
    <3>2. WholeUnits(logLen) <= WholeUnits(new) /\ WholeUnits(logLen) \in Nat /\ WholeUnits(new) \in Nat
      <4>1. WholeUnits(logLen) \in 0 .. logLen /\ WholeUnits(new) \in 0 .. new
        BY <1>3, WholeType
      <4>2. QED
        BY <1>3, <4>1, WholeUnitsGrow
    <3>3. i <= WholeUnits(new)
      BY <2>1, <3>1, <3>2
    <3>4. Crypted(CryptLen)[i] = body[i]
      BY <1>1, <1>3, <2>4, CryptedIs
    <3>5. Decodes(body, i, logLen)
      BY <1>1, <1>2, <1>3, <2>4 DEF Written
    <3>6. QED
      BY <3>1, <3>3, <3>4, <3>5 DEF Decodes
  <2>5. CASE is_crypt /\ i > CryptFrom /\ i <= WholeUnits(new)
    <3>1. Least(CryptLen, UnitBytes) = UnitBytes
      BY <1>3 DEF Least
    <3>2. i \in (CryptFrom + 1)..(CryptFrom + UnitBytes)
      BY <1>3, <2>1, <2>5
    <3>3. Crypted(CryptLen)[i] = Encrypt(body[i], i - ((i - CryptFrom - 1) % BlockLen))
      BY <2>1, <3>1, <3>2 DEF Crypted
    <3>4. i - ((i - CryptFrom - 1) % BlockLen) = i - ((i - 1) % BlockLen)
      BY <1>1, <2>1, <2>5, UnitStart
    <3>5. QED
      BY <2>2, <2>5, <3>3, <3>4 DEF Decodes
  <2>6. CASE is_crypt /\ i > CryptFrom /\ ~(i <= WholeUnits(new))
    <3>1. Least(CryptLen, UnitBytes) = UnitBytes
      BY <1>3 DEF Least
    <3>2. i \notin (CryptFrom + 1)..(CryptFrom + UnitBytes)
      BY <1>3, <2>1, <2>6
    <3>3. Crypted(CryptLen)[i] = body[i]
      BY <2>1, <3>1, <3>2 DEF Crypted
    <3>4. QED
      BY <2>2, <2>6, <3>3 DEF Decodes
  <2>7. QED
    BY <1>2, <1>3, <2>1, <2>3, <2>4, <2>5, <2>6
<1>11. Written' /\ Fresh' /\ Covered'
  BY <1>1, <1>10 DEF Written, Fresh, Covered, Decodes, WholeUnits
<1>12. EmittedDecodes'
  BY <1>1 DEF EmittedDecodes, Decodes, WholeUnits
<1>13. QED
  BY <1>6, <1>8, <1>9, <1>11, <1>12

LEMMA UpdateLogLenKeeps ==
  ASSUME Inv, UpdateLogLen, UNCHANGED is_crypt
  PROVE  Inv'
<1> USE DEF Inv
<1>1. /\ pc = "update" /\ pc' = "idle" /\ logLen' = logLen + added /\ added' = 0
      /\ UNCHANGED <<magic, body, length, remain, deflating, emitted, pastEnd,
                     crashes, reborn, tornClear>>
  BY DEF UpdateLogLen, history
<1>2. /\ magic /\ length # 0 /\ deflating /\ ~reborn /\ logLen + added = BodyLen
      /\ logLen \in Nat /\ added \in Nat
  BY <1>1, Sizes DEF Header, Stages, TypeOK
<1>3. logLen' \in 0 .. Room /\ 0 \in 0 .. Room
  BY <1>1, <1>2, BodyType, Sizes
<1>4. TypeOK'
  BY <1>1, <1>3 DEF TypeOK
<1>5. Header' /\ Stages'
  BY <1>1, <1>2 DEF Header, Stages, BodyLen
<1>6. Remains'
  BY <1>1, <1>2 DEF Remains, Waiting
<1>7. Written'
  BY <1>1, <1>2 DEF Written, Decodes, WholeUnits
<1>8. Fresh' /\ Covered'
  BY <1>1, <1>2, <1>7 DEF Fresh, Covered, Written
<1>9. EmittedDecodes'
  BY <1>1 DEF EmittedDecodes, Decodes, WholeUnits
<1>10. QED
  BY <1>4, <1>5, <1>6, <1>7, <1>8, <1>9
-----------------------------------------------------------------------------
\* The steps of Flush.
LEMMA FlushNothingKeeps ==
  ASSUME Inv, FlushNothing, UNCHANGED is_crypt
  PROVE  Inv'
<1> USE DEF Inv
<1>1. /\ pc = "idle" /\ pc' = "clear" /\ emitted' = Nothing /\ deflating' = FALSE
      /\ UNCHANGED <<magic, logLen, body, length, remain, added, pastEnd,
                     crashes, reborn, tornClear>>
  BY DEF FlushNothing, memory
<1>2. TypeOK'
  <2>1. Nothing \in [len : 0 .. Room, bytes : Seq(Byte), tail : BOOLEAN, reborn : BOOLEAN]
    BY Sizes DEF Nothing
  <2>2. QED
    BY <1>1, <2>1 DEF TypeOK
<1>3. Header' /\ Stages' /\ Remains' /\ Written' /\ Fresh'
  BY <1>1 DEF Header, Stages, Remains, Written, Fresh
<1>4. Covered'
  BY <1>1 DEF Covered, Decodes, WholeUnits
<1>5. EmittedDecodes'
  BY <1>1 DEF EmittedDecodes, Nothing
<1>6. QED
  BY <1>2, <1>3, <1>4, <1>5

LEMMA FlushBlockKeeps ==
  ASSUME Inv, FlushBlock, UNCHANGED is_crypt
  PROVE  Inv'
<1> USE DEF Inv
<1>1. /\ pc = "idle" /\ pc' = "clear" /\ deflating' = FALSE /\ length # 0
      /\ pastEnd' = (pastEnd \/ BodyLen = Room)
      /\ length' = Least(length + 1, MaxLength)
      /\ body' = [i \in Positions |-> IF i = BodyLen + 1 THEN Zero ELSE body[i]]
      /\ emitted' = [len |-> logLen, bytes |-> [i \in 1..BodyLen |-> body[i]],
                     tail |-> BodyLen < Room, reborn |-> reborn]
      /\ UNCHANGED <<magic, logLen, remain, added, crashes, reborn, tornClear>>
  BY DEF FlushBlock, HasLog
<1>2. magic /\ logLen = BodyLen /\ BodyLen \in 0 .. Room /\ length \in HeaderLen .. MaxLength
  BY <1>1, BodyType DEF Header, TypeOK
<1>3. ASSUME NEW i \in 1 .. BodyLen PROVE i \in Positions /\ body[i] \in Byte
  BY <1>2, Sizes DEF TypeOK
<1>4. /\ [i \in 1..BodyLen |-> body[i]] \in Seq(Byte)
      /\ Len([i \in 1..BodyLen |-> body[i]]) = BodyLen
  BY <1>2, <1>3, Sizes
<1>5. /\ emitted'.len = logLen /\ emitted'.bytes = [i \in 1..BodyLen |-> body[i]]
      /\ emitted'.reborn = reborn
  BY <1>1
<1>6. TypeOK'
  <2>1. length' \in HeaderLen .. MaxLength
    BY <1>1, <1>2, Sizes DEF Least
  <2>2. body' \in [Positions -> Byte]
    <3>1. Zero \in Byte
      BY DEF Zero, Byte
    <3>2. QED
      BY <1>1, <3>1 DEF TypeOK
  <2>3. emitted' \in [len : 0 .. Room, bytes : Seq(Byte), tail : BOOLEAN, reborn : BOOLEAN]
    <3>1. (BodyLen < Room) \in BOOLEAN /\ reborn \in BOOLEAN /\ logLen \in 0 .. Room
      BY DEF TypeOK
    <3>2. QED
      BY <1>1, <1>4, <3>1
  <2>4. pastEnd' \in BOOLEAN
    BY <1>1 DEF TypeOK
  <2>5. QED
    BY <1>1, <2>1, <2>2, <2>3, <2>4 DEF TypeOK
<1>7. Header' /\ Stages' /\ Remains' /\ Written' /\ Fresh'
  <2>1. length' # 0
    BY <1>1, <1>2, Sizes DEF Least
  <2>2. QED
    BY <1>1, <1>2, <2>1 DEF Header, Stages, Remains, Written, Fresh
<1>8. ASSUME NEW i \in 1 .. logLen
      PROVE  body'[i] = body[i] /\ emitted'.bytes[i] = body[i]
  <2>1. i \in Positions /\ i \in 1 .. BodyLen /\ i # BodyLen + 1
    BY <1>2, <1>3
  <2>2. QED
    BY <1>1, <1>5, <2>1
<1>9. Covered'
  BY <1>1, <1>8 DEF Covered, Decodes, WholeUnits
<1>10. EmittedDecodes'
  <2>1. Len(emitted'.bytes) = emitted'.len
    BY <1>2, <1>4, <1>5
  <2>2. ASSUME ~tornClear, NEW i \in 1 .. logLen
        PROVE  (reborn /\ i > WholeUnits(logLen)) \/ Decodes(emitted'.bytes, i, logLen)
    BY <1>1, <1>8, <2>2 DEF Covered, Decodes
  <2>3. QED
    BY <1>1, <1>5, <2>1, <2>2 DEF EmittedDecodes, Decodes, WholeUnits
<1>11. QED
  BY <1>6, <1>7, <1>9, <1>10

LEMMA ClearKeeps ==
  ASSUME Inv, Clear, UNCHANGED is_crypt
  PROVE  Inv'
<1> USE DEF Inv
<1>1. UNCHANGED <<remain, deflating, added, emitted, pastEnd, crashes, reborn,
                  tornClear, length>>
  BY DEF Clear, stream, history
<1>2. EmittedDecodes'
  BY <1>1 DEF EmittedDecodes, Decodes, WholeUnits
<1>3. ASSUME NEW from \in {"clear", "clearBody", "clearHeader"},
             NEW next \in {"clearBody", "cleared"}, ClearHeader(from, next),
             from = "clear" \/ from = "clearHeader"
      PROVE  TypeOK' /\ Header' /\ Stages' /\ Remains' /\ Written' /\ Fresh' /\ Covered'
  <2>1. /\ pc = from /\ pc' = next /\ body' = body
        /\ magic' = (magic /\ length = 0) /\ logLen' = IF length = 0 THEN logLen ELSE 0
    BY <1>3 DEF ClearHeader
  <2>2. ~magic' /\ logLen' = 0
    BY <1>3, <2>1 DEF Header
  <2>3. TypeOK'
    <3>1. 0 \in 0 .. Room
      BY Sizes
    <3>2. QED
      BY <1>1, <2>1, <2>2, <3>1 DEF TypeOK
  <2>4. ~deflating
    BY <1>3, <2>1 DEF Stages
  <2>5. QED
    BY <1>1, <1>3, <2>1, <2>2, <2>3, <2>4
    DEF Header, Stages, Remains, Written, Fresh, Covered
<1>4. ASSUME NEW from \in {"clear", "clearBody"}, NEW next \in {"clearHeader", "cleared"},
             ClearBody(from, next),
             from = "clear" => next = "clearHeader", from = "clearBody" => next = "cleared"
      PROVE  TypeOK' /\ Header' /\ Stages' /\ Remains' /\ Written' /\ Fresh' /\ Covered'
  <2>1. /\ pc = from /\ pc' = next /\ magic' = magic /\ logLen' = logLen
        /\ body' = [i \in Positions |-> IF i <= BodyLen THEN Zero ELSE body[i]]
    BY <1>4 DEF ClearBody
  <2>2. TypeOK'
    <3>1. Zero \in Byte
      BY DEF Zero, Byte
    <3>2. body' \in [Positions -> Byte]
      BY <2>1, <3>1 DEF TypeOK
    <3>3. QED
      BY <1>1, <2>1, <3>2 DEF TypeOK
  <2>3. ~deflating
    BY <1>4, <2>1 DEF Stages
  <2>4. pc' = "cleared" => logLen' = 0
    BY <1>4, <2>1 DEF Header
  <2>5. Header'
    BY <1>1, <1>4, <2>1 DEF Header
  <2>6. QED
    BY <1>1, <1>4, <2>1, <2>2, <2>3, <2>4, <2>5
    DEF Stages, Remains, Written, Fresh, Covered
<1>5. QED
  BY <1>2, <1>3, <1>4 DEF Clear

LEMMA ClearDoneKeeps ==
  ASSUME Inv, ClearDone, UNCHANGED is_crypt
  PROVE  Inv'
<1> USE DEF Inv
<1>1. /\ pc = "cleared" /\ pc' = "idle" /\ length' = 0 /\ remain' = 0
      /\ UNCHANGED <<magic, logLen, body, deflating, added, emitted, pastEnd,
                     crashes, reborn, tornClear>>
  BY DEF ClearDone, memory, history
<1>2. ~magic /\ logLen = 0 /\ ~deflating
  BY <1>1 DEF Header, Stages
<1>3. TypeOK'
  <2>1. 0 \in 0 .. BlockLen - 1
    BY Sizes
  <2>2. QED
    BY <1>1, <2>1 DEF TypeOK
<1>4. Header' /\ Stages' /\ Remains' /\ Written' /\ Fresh' /\ Covered'
  BY <1>1, <1>2 DEF Header, Stages, Remains, Written, Fresh, Covered
<1>5. EmittedDecodes'
  BY <1>1 DEF EmittedDecodes, Decodes, WholeUnits
<1>6. QED
  BY <1>3, <1>4, <1>5
-----------------------------------------------------------------------------
\* The process dies and another recovers.
LEMMA CrashKeeps ==
  ASSUME Inv, Crash, UNCHANGED is_crypt
  PROVE  Inv'
<1> USE DEF Inv
<1>1. /\ pc' = "down" /\ length' = 0 /\ remain' = 0 /\ deflating' = FALSE /\ added' = 0
      /\ reborn' = TRUE /\ crashes' = crashes + 1
      /\ tornClear' = (tornClear \/ pc \in {"clearHeader", "clearBody"})
      /\ UNCHANGED <<magic, logLen, emitted, pastEnd>>
  BY DEF Crash
<1>2. logLen \in Nat /\ logLen <= Room
  BY Sizes DEF TypeOK
<1>3. /\ body' \in [Positions -> Byte]
      /\ \A i \in 1 .. WholeUnits(logLen) : body'[i] = body[i]
  <2>1. CASE body' = body
    BY <2>1 DEF TypeOK
  <2>2. CASE pc = "crypt" /\ \E n \in 1 .. UnitBytes : body' = Crypted(n)
    <3>1. PICK n \in 1 .. UnitBytes : body' = Crypted(n)
      BY <2>2
    <3>2. n \in Nat /\ n # 0 /\ UnitBytes \in Nat /\ UnitBytes # 0
      BY <2>2, Units
    <3>3. is_crypt
      BY <2>2, <3>2, Units
    <3>4. CryptFrom = WholeUnits(logLen)
      BY <2>2, <3>3, Units
    <3>5. QED
      BY <2>2, <3>1, <3>2, <3>4, CryptedIs
  <2>3. QED
    BY <2>1, <2>2 DEF Crash
<1>4. TypeOK'
  <2>1. 0 \in 0 .. BlockLen - 1 /\ 0 \in 0 .. Room
    BY Sizes
  <2>2. tornClear' \in BOOLEAN
    BY <1>1, Zenon DEF TypeOK
  <2>3. crashes' \in Nat
    BY <1>1 DEF TypeOK
  <2>4. QED
    BY <1>1, <1>3, <2>1, <2>2, <2>3 DEF TypeOK
<1>5. Header' /\ Stages' /\ Remains' /\ Written' /\ Fresh'
  BY <1>1 DEF Header, Stages, Remains, Written, Fresh
<1>6. Covered'
  <2>1. SUFFICES ASSUME ~tornClear', NEW i \in 1 .. logLen, ~(i > WholeUnits(logLen))
                 PROVE  Decodes(body', i, logLen)
    BY <1>1 DEF Covered, Decodes, WholeUnits
  <2>2. ~tornClear /\ pc # "clearHeader"
    BY <1>1, <2>1
  <2>3. WholeUnits(logLen) \in 0 .. logLen /\ i \in 1 .. WholeUnits(logLen)
    BY <1>2, <2>1, WholeType
  <2>4. CASE pc = "update"
    <3>1. added \in Nat /\ deflating
      BY <2>4, Sizes DEF TypeOK, Stages
    <3>2. i \in 1 .. logLen + added
      BY <1>2, <3>1
    <3>3. Decodes(body, i, logLen + added)
      BY <2>4, <3>1, <3>2 DEF Written
    <3>4. Decodes(body, i, logLen)
      BY <1>2, <2>3, <3>1, <3>3, DecodesOn
    <3>5. QED
      BY <1>3, <2>3, <3>4 DEF Decodes
  <2>5. CASE pc # "update"
    <3>1. Decodes(body, i, logLen)
      BY <2>1, <2>2, <2>5 DEF Covered
    <3>2. QED
      BY <1>3, <2>3, <3>1 DEF Decodes
  <2>6. QED
    BY <2>4, <2>5
<1>7. EmittedDecodes'
  BY <1>1 DEF EmittedDecodes, Decodes, WholeUnits
<1>8. QED
  BY <1>4, <1>5, <1>6, <1>7

LEMMA FixKeeps ==
  ASSUME Inv, Fix, UNCHANGED is_crypt
  PROVE  Inv'
<1> USE DEF Inv
<1>1. /\ pc = "down" /\ pc' = "idle"
      /\ length' = IF magic THEN Least(logLen + HeaderLen, MaxLength) ELSE 0
      /\ UNCHANGED <<magic, logLen, body, remain, deflating, added, emitted,
                     pastEnd, crashes, reborn, tornClear>>
  BY DEF Fix, memory, stream, history
<1>2. logLen \in 0 .. Room /\ ~deflating /\ (~magic => logLen = 0)
  BY <1>1 DEF TypeOK, Stages, Header
<1>3. /\ magic => length' = logLen + HeaderLen /\ length' \in HeaderLen .. MaxLength /\ length' # 0
      /\ ~magic => length' = 0
  BY <1>1, <1>2, Sizes DEF Least
<1>4. TypeOK'
  BY <1>1, <1>3 DEF TypeOK
<1>5. Header'
  <2>1. magic => BodyLen' = logLen
    BY <1>2, <1>3, Sizes DEF BodyLen
  <2>2. QED
    BY <1>1, <1>2, <1>3, <2>1 DEF Header
<1>6. Stages' /\ Remains' /\ Written' /\ Fresh'
  BY <1>1, <1>2 DEF Stages, Remains, Written, Fresh
<1>7. Covered' /\ EmittedDecodes'
  BY <1>1 DEF Covered, EmittedDecodes, Decodes, WholeUnits
<1>8. QED
  BY <1>4, <1>5, <1>6, <1>7
-----------------------------------------------------------------------------
LEMMA Inductive == Inv /\ [Next]_vars => Inv'
<1> SUFFICES ASSUME Inv, [Next]_vars PROVE Inv'
  OBVIOUS
<1>1. CASE Write /\ UNCHANGED is_crypt
  BY <1>1, ResetMagicKeeps, ResetLengthKeeps, DeflateKeeps, CryptKeeps, UpdateLogLenKeeps
  DEF Write
<1>2. CASE Flush /\ UNCHANGED is_crypt
  BY <1>2, FlushNothingKeeps, FlushBlockKeeps, ClearKeeps, ClearDoneKeeps DEF Flush
<1>3. CASE (Crash \/ Fix) /\ UNCHANGED is_crypt
  BY <1>3, CrashKeeps, FixKeeps
<1>4. CASE UNCHANGED vars
  BY <1>4
  DEF Inv, TypeOK, Header, Stages, Remains, Waiting, Written, Fresh, Covered,
      EmittedDecodes, Decodes, WholeUnits, BodyLen, vars, memory, stream, history
<1>5. QED
  BY <1>1, <1>2, <1>3, <1>4 DEF Next

\* The invariant of the buffer holds in every state.
THEOREM InvHolds == Spec => []Inv
<1>1. Init => Inv
  BY InitInv
<1>2. Inv /\ [Next]_vars => Inv'
  BY Inductive
<1>3. QED
  BY <1>1, <1>2, PTL DEF Spec

\* Every variable of the buffer has its type: the header's length never leaves
\* the buffer, even when the process dies over a block it has recovered.
THEOREM TypeCorrect == Spec => []TypeOK
<1>1. Inv => TypeOK
  BY DEF Inv
<1>2. QED
  BY <1>1, InvHolds, PTL

\* Between calls of Write, what is in the buffer can be decoded.
THEOREM WritableDecodes == Spec => []WritableBlockDecodes
<1>1. Inv => WritableBlockDecodes
  <2> SUFFICES ASSUME Inv, pc = "idle", deflating PROVE WritableBlockDecodes
    BY DEF WritableBlockDecodes
  <2>1. magic /\ logLen = BodyLen
    BY DEF Inv, Header, Stages
  <2>2. \A i \in 1 .. BodyLen : Decodes(body, i, logLen)
    BY <2>1 DEF Inv, Written
  <2>3. QED
    BY <2>1, <2>2 DEF WritableBlockDecodes
<1>2. QED
  BY <1>1, InvHolds, PTL

\* What Flush hands out can be decoded, but for the last bytes of a block
\* whose process died.
THEOREM HandedOutDecodes == Spec => []EmittedDecodes
<1>1. Inv => EmittedDecodes
  BY DEF Inv
<1>2. QED
  BY <1>1, InvHolds, PTL
=============================================================================
