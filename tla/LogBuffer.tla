----------------------------- MODULE LogBuffer -----------------------------
(***************************************************************************)
(* The bytes behind the appender's buffer: LogBuffer (log_buffer.cc) and   *)
(* the header and cipher work it has LogCrypt do (crypt/log_crypt.cc), on  *)
(* memory that outlives the process.                                       *)
(*                                                                         *)
(* A block is a header (magic, length, and fields no property tells apart),*)
(* the bytes the compressor produced, encrypted BlockLen at a time, and a  *)
(* tailer byte.  The header's HeaderLen bytes are kept in its fields;      *)
(* positions count the bytes behind it from 1.  A byte is its place k in   *)
(* the compressed stream of its block together with what has been done to  *)
(* it since: the start of every cipher unit it went through.               *)
(*                                                                         *)
(* Write and Flush run under sg_mutex_buffer_async, so there is one call   *)
(* at a time, but the process can die between any two writes to memory.    *)
(***************************************************************************)
EXTENDS Naturals, Sequences

CONSTANTS HeaderLen,    \* bytes of the header (73 in the code)
          MaxLength,    \* bytes of the buffer (150 * 1024)
          BlockLen,     \* bytes of a cipher unit (TEA_BLOCK_LEN, 8)
          Crypts,       \* whether the LogCrypt has a public key: what there may be
          MaxOut,       \* bound: bytes the compressor produces in one call
          MaxCrashes    \* bound: crashes of the process

ASSUME SizeAssumption ==
  /\ HeaderLen \in Nat \ {0}
  /\ MaxLength \in Nat /\ HeaderLen < MaxLength
  /\ BlockLen \in Nat \ {0}
  /\ Crypts \subseteq BOOLEAN /\ Crypts # {}
  /\ MaxOut \in Nat \ {0}
  /\ MaxCrashes \in Nat

Room == MaxLength - HeaderLen
Positions == 1..Room

VARIABLES
  is_crypt,       \* the LogCrypt has a public key
  magic,          \* the header's first byte is a start magic
  logLen,         \* the header's length field
  body,           \* the bytes behind the header
  length,         \* buff_.Length()
  remain,         \* remain_nocrypt_len_
  deflating,      \* cstream_ is initialized
  pc,             \* where the call in progress is
  added,          \* bytes deflate has put behind the block in this Write
  emitted,        \* what the last Flush handed out
  pastEnd,        \* history: a tailer went behind the last byte of the buffer
  crashes,        \* counter of the bound
  reborn,         \* history: the block comes from a process that died
  tornClear       \* history: a process died in the memset of __Clear

memory == <<magic, logLen, body>>
stream == <<remain, deflating, added>>
history == <<emitted, pastEnd, crashes, reborn, tornClear>>
vars == <<is_crypt, memory, stream, history, length, pc>>

\* A zero byte, byte k of the stream as the compressor wrote it, and a byte
\* after one more pass of the cipher, in the unit that begins at start.
Zero == [k |-> 0, enc |-> << >>]
Plain(k) == [k |-> k, enc |-> << >>]
Encrypt(byte, start) == [byte EXCEPT !.enc = Append(@, start)]

Least(a, b) == IF a <= b THEN a ELSE b

\* The bytes of the block behind the header.
BodyLen == IF length = 0 THEN 0 ELSE length - HeaderLen
Nothing == [len |-> 0, bytes |-> << >>, tail |-> FALSE, reborn |-> FALSE]

Init ==
  /\ is_crypt \in Crypts
  /\ magic = FALSE /\ logLen = 0
  /\ body = [i \in Positions |-> Zero]
  /\ length = 0 /\ remain = 0 /\ deflating = FALSE
  /\ pc = "idle" /\ added = 0
  /\ emitted = Nothing
  /\ pastEnd = FALSE /\ crashes = 0 /\ reborn = FALSE /\ tornClear = FALSE
-----------------------------------------------------------------------------
(* Write.  It fails, and changes nothing, when the stream of a block that   *)
(* is begun is not open, or when deflate has no room at all.                *)

\* __Reset opens the stream; SetHeaderInfo writes the header from its first
\* field on.
ResetMagic ==
  /\ pc = "idle"
  /\ length = 0
  /\ magic' = TRUE
  /\ remain' = 0
  /\ deflating' = TRUE
  /\ reborn' = FALSE
  /\ pc' = "reset"
  /\ UNCHANGED <<logLen, body, length, added, emitted, pastEnd, crashes,
                 tornClear>>

ResetLength ==
  /\ pc = "reset"
  /\ logLen' = 0
  /\ length' = HeaderLen
  /\ pc' = "deflate"
  /\ UNCHANGED <<magic, body, stream, history>>

\* Mutants of Deflate: it ignores avail_out; the header covers the bytes
\* before they are encrypted.
DeflateUnbounded(n) ==
  /\ pc = "deflate" \/ (pc = "idle" /\ deflating)
  /\ added' = n
  /\ body' = [i \in Positions |->
                IF i \in (BodyLen + 1)..(BodyLen + n) THEN Plain(i) ELSE body[i]]
  /\ pc' = "crypt"
  /\ UNCHANGED <<magic, logLen, length, remain, deflating, history>>

DeflateCovered(n) ==
  /\ pc = "deflate" \/ (pc = "idle" /\ deflating /\ BodyLen < Room)
  /\ added' = Least(n, Room - BodyLen)
  /\ body' = [i \in Positions |->
                IF i \in (BodyLen + 1)..(BodyLen + added') THEN Plain(i) ELSE body[i]]
  /\ logLen' = BodyLen + added'
  /\ pc' = "crypt"
  /\ UNCHANGED <<magic, length, remain, deflating, history>>

\* deflate produces n bytes, of which the buffer takes what it has room for.
Deflate(n) ==
  /\ \/ pc = "deflate"
     \/ pc = "idle" /\ length # 0 /\ deflating /\ BodyLen < Room
  /\ added' = Least(n, Room - BodyLen)
  /\ body' = [i \in Positions |->
                IF i \in (BodyLen + 1)..(BodyLen + added') THEN Plain(i) ELSE body[i]]
  /\ pc' = "crypt"
  /\ UNCHANGED <<magic, logLen, length, remain, deflating, history>>

\* Mutant of CryptFrom: the bytes that wait for a whole unit are left out.
CryptFromEnd == BodyLen

\* CryptAsyncLog starts at the bytes the last call could not make a unit of.
CryptFrom == BodyLen - remain
CryptLen == added + remain
UnitBytes == IF is_crypt THEN CryptLen - (CryptLen % BlockLen) ELSE 0

\* The memory when the first n bytes of its result are copied back.
Crypted(n) ==
  [i \in Positions |->
     IF i \in (CryptFrom + 1)..(CryptFrom + Least(n, UnitBytes))
     THEN Encrypt(body[i], i - ((i - CryptFrom - 1) % BlockLen))
     ELSE body[i]]

Crypt ==
  /\ pc = "crypt"
  /\ body' = Crypted(CryptLen)
  /\ remain' = IF is_crypt THEN CryptLen % BlockLen ELSE 0
  /\ length' = length + added
  /\ pc' = "update"
  /\ UNCHANGED <<magic, logLen, deflating, added, history>>

\* Only now does the header cover the new bytes.
UpdateLogLen ==
  /\ pc = "update"
  /\ logLen' = logLen + added
  /\ added' = 0
  /\ pc' = "idle"
  /\ UNCHANGED <<magic, body, length, remain, deflating, history>>

Write == ResetMagic \/ ResetLength \/ Crypt \/ UpdateLogLen \/ \E n \in 1..MaxOut : Deflate(n)
-----------------------------------------------------------------------------
(* Flush.                                                                   *)

HasLog == length # 0 /\ magic /\ logLen # 0

\* GetLogLen finds no length: the memory is cleared, nothing is handed out.
FlushNothing ==
  /\ pc = "idle"
  /\ ~HasLog
  /\ emitted' = Nothing
  /\ deflating' = FALSE
  /\ pc' = "clear"
  /\ UNCHANGED <<memory, length, remain, added, pastEnd, crashes, reborn,
                 tornClear>>

\* The tailer goes behind the block, Length is capped at MaxLength, and that
\* many bytes are handed out.
FlushBlock ==
  /\ pc = "idle"
  /\ HasLog
  /\ deflating' = FALSE
  /\ pastEnd' = (pastEnd \/ BodyLen = Room)
  /\ length' = Least(length + 1, MaxLength)
  /\ body' = [i \in Positions |-> IF i = BodyLen + 1 THEN Zero ELSE body[i]]
  /\ emitted' = [len |-> logLen, bytes |-> [i \in 1..BodyLen |-> body[i]],
                 tail |-> BodyLen < Room, reborn |-> reborn]
  /\ pc' = "clear"
  /\ UNCHANGED <<magic, logLen, remain, added, crashes, reborn, tornClear>>

\* __Clear: a memset over Length bytes, in the order the library likes.
ClearHeader(from, next) ==
  /\ pc = from
  /\ magic' = (magic /\ length = 0)
  /\ logLen' = IF length = 0 THEN logLen ELSE 0
  /\ pc' = next
  /\ UNCHANGED body

ClearBody(from, next) ==
  /\ pc = from
  /\ body' = [i \in Positions |-> IF i <= BodyLen THEN Zero ELSE body[i]]
  /\ pc' = next
  /\ UNCHANGED <<magic, logLen>>

Clear ==
  /\ \/ ClearHeader("clear", "clearBody")
     \/ ClearBody("clear", "clearHeader")
     \/ ClearHeader("clearHeader", "cleared")
     \/ ClearBody("clearBody", "cleared")
  /\ UNCHANGED <<stream, history, length>>

ClearDone ==
  /\ pc = "cleared"
  /\ length' = 0
  /\ remain' = 0
  /\ pc' = "idle"
  /\ UNCHANGED <<memory, deflating, added, history>>

Flush == FlushNothing \/ FlushBlock \/ Clear \/ ClearDone
-----------------------------------------------------------------------------
\* The process dies; while CryptAsyncLog's result is copied back, any part
\* of it may be in the memory already.
Crash ==
  /\ crashes < MaxCrashes
  /\ pc # "down"
  /\ \/ UNCHANGED body
     \/ pc = "crypt" /\ \E n \in 1..UnitBytes : body' = Crypted(n)
  /\ crashes' = crashes + 1
  /\ tornClear' = (tornClear \/ pc \in {"clearHeader", "clearBody"})
  /\ reborn' = TRUE
  /\ length' = 0 /\ remain' = 0 /\ deflating' = FALSE /\ added' = 0
  /\ pc' = "down"
  /\ UNCHANGED <<magic, logLen, emitted, pastEnd>>

\* The constructor of the next process: __Fix believes the header.
Fix ==
  /\ pc = "down"
  /\ length' = IF magic THEN Least(logLen + HeaderLen, MaxLength) ELSE 0
  /\ pc' = "idle"
  /\ UNCHANGED <<memory, stream, history>>

Next == (Write \/ Flush \/ Crash \/ Fix) /\ UNCHANGED is_crypt

Spec == Init /\ [][Next]_vars
-----------------------------------------------------------------------------
(* What is checked.                                                         *)

Byte == [k : Nat, enc : Seq(Nat)]

TypeOK ==
  /\ is_crypt \in Crypts
  /\ magic \in BOOLEAN
  /\ logLen \in 0..Room
  /\ body \in [Positions -> Byte]
  /\ length \in {0} \union HeaderLen..MaxLength
  /\ remain \in 0..(BlockLen - 1)
  /\ deflating \in BOOLEAN
  /\ added \in 0..Room
  /\ pc \in {"idle", "reset", "deflate", "crypt", "update", "clear",
             "clearHeader", "clearBody", "cleared", "down"}
  /\ emitted \in [len : 0..Room, bytes : Seq(Byte), tail : BOOLEAN, reborn : BOOLEAN]
  /\ pastEnd \in BOOLEAN /\ reborn \in BOOLEAN /\ tornClear \in BOOLEAN
  /\ crashes \in Nat

\* A decoder undoes one pass of the cipher on each whole unit of the first
\* len bytes and takes the rest as they are.
WholeUnits(len) == IF is_crypt THEN len - (len % BlockLen) ELSE 0
Decodes(bytes, i, len) ==
  bytes[i] = IF i <= WholeUnits(len)
             THEN Encrypt(Plain(i), i - ((i - 1) % BlockLen)) ELSE Plain(i)

\* Between calls a block that is being written decodes as it stands: every
\* byte is there, went through the cipher once and in its own unit, and the
\* header covers exactly the bytes before Length.
WritableBlockDecodes ==
  (pc = "idle" /\ deflating) =>
    /\ magic /\ logLen = BodyLen
    /\ \A i \in 1..BodyLen : Decodes(body, i, logLen)

\* A block handed out has the length its header says; if no crash went
\* through it all of it decodes, and if one did all but the tail that had
\* not made a cipher unit: encrypting in place behind the header's back
\* never spoils a byte the header already covered as part of a unit.
EmittedDecodes ==
  ~tornClear =>
    /\ Len(emitted.bytes) = emitted.len
    /\ \A i \in 1..emitted.len :
         \/ emitted.reborn /\ i > WholeUnits(emitted.len)
         \/ Decodes(emitted.bytes, i, emitted.len)

\* ptrbuffer.cc:107, ASSERT(_nLenght <= MaxLength()): when Flush sets the
\* length for the tailer.
TailerFits == ~pastEnd
=============================================================================
