------------------------------ MODULE ChunkLoop -----------------------------
(***************************************************************************)
(* The loop of handle_chunk(), byte by byte: the size of a chunk is what   *)
(* strtol() makes of a line, put in a size_t, to which 2 is added for the  *)
(* CR LF after the data.  HttpParser has the loop around it and the other  *)
(* framings, and takes a size that is a number of the data.                *)
(***************************************************************************)
EXTENDS StdString, Integers

CONSTANTS
  Bodies,      \* what clients send after the empty line, see ChunkedBody
  LongMax,     \* LONG_MAX
  DigitValue   \* the hexadecimal digits in use, and their values

ASSUME LongMaxAssumption == LongMax \in Nat \ {0}

ASSUME DigitValueAssumption ==
  DigitValue \in [DOMAIN DigitValue -> 0 .. 15] /\ "end" \notin DOMAIN DigitValue

\* buffer.find( "\r\n", 0 ), as an index from 1; 0 is npos.
FindCrLf(b) ==
  LET at == {i \in 1 .. Len(b) - 1 : b[i] = CR /\ b[i + 1] = LF}
  IN IF at = {} THEN 0 ELSE Min(at)

\* strtol( , NULL, 16 ): blanks, a sign, 0x, and as many digits as there are; a
\* value that is too large becomes the largest one, or the smallest.
IsDigit(c) == c \in DOMAIN DigitValue

Magnitude(digits) ==
  LET value[i \in 0 .. Len(digits)] ==
        IF i = 0 THEN 0
        ELSE Min({16 * value[i - 1] + DigitValue[digits[i]], LongMax + 1})
  IN value[Len(digits)]

Strtol(line) ==
  LET at(k) == IF k <= Len(line) THEN line[k] ELSE "end"
      sign == Min({k \in 1 .. Len(line) + 1 : ~IsBlank(at(k))})
      number == IF at(sign) \in {"-", "+"} THEN sign + 1 ELSE sign
      prefixed == /\ at(number) = "0" /\ at(number + 1) \in {"x", "X"}
                  /\ IsDigit(at(number + 2))
      first == IF prefixed THEN number + 2 ELSE number
      end == Min({k \in first .. Len(line) + 1 : ~IsDigit(at(k))})
      n == Magnitude(SubSeq(line, first, end - 1))
  IN IF at(sign) = "-" THEN -n ELSE Min({n, LongMax})

\* What clients send.  Chunks may frame data: before tells how much of the data
\* comes before the chunk that begins at a byte.
ChunkedBody(bytes, before, data) == [bytes |-> bytes, before |-> before, data |-> data]
Framed(b) == DOMAIN b.before # {}

FramedAt(b, p) ==
  LET end == FindCrLf(From(b.bytes, p))
      n == Strtol(SubSeq(b.bytes, p, p + end - 2))
      next == p + end + n + 3
  IN /\ p \in 1 .. Len(b.bytes)
     /\ end # 0
     /\ n \in Nat
     /\ next <= Len(b.bytes) + 1
     /\ b.before[p] + n <= Len(b.data)
     /\ \A i \in 1 .. n : b.bytes[p + end + i] = b.data[b.before[p] + i]
     /\ IF n = 0 THEN b.before[p] = Len(b.data)
        ELSE next \in DOMAIN b.before /\ b.before[next] = b.before[p] + n

ASSUME BodiesAssumption ==
  \A b \in Bodies :
    /\ b.bytes \in Seq({b.bytes[i] : i \in 1 .. Len(b.bytes)})
    /\ b.data \in Seq({b.data[i] : i \in 1 .. Len(b.data)})
    /\ Framed(b) => 1 \in DOMAIN b.before /\ b.before[1] = 0
    /\ \A p \in DOMAIN b.before : b.before[p] \in Nat /\ FramedAt(b, p)

VARIABLES
  chunks,       \* what the client sends
  buffered,     \* _buffer_recv
  chunkBody,    \* _response.body
  chunkLength,  \* chunk_length
  chunkStage,   \* "loop"; "success", "failure": what handle_chunk() returned
  origin,       \* history: the bytes of what was sent that were made data
  wrapped       \* history: strtol() has returned -1 or -2

chunkVars == <<chunks, buffered, chunkBody, chunkLength, chunkStage, origin, wrapped>>

ChunksInit ==
  /\ chunks \in Bodies
  /\ buffered = chunks.bytes
  /\ chunkBody = <<>>
  /\ chunkLength = 0
  /\ chunkStage = "loop"
  /\ origin = <<>>
  /\ wrapped = FALSE

\* A size_t has a bit more than the positive half of a long.
ToSize(n) == n % (2 * (LongMax + 1))

\* Mutation of the erasure after a chunk: the CR LF stays.
AfterDataOnly(rest, n) == Erase(rest, n)
AfterData(rest, n) == Erase(rest, ToSize(n + 2))

\* An empty buffer ends the loop, as a size of zero does.
BufferEmpty ==
  /\ chunkStage = "loop"
  /\ buffered = <<>>
  /\ chunkStage' = "success"
  /\ UNCHANGED <<chunks, buffered, chunkBody, chunkLength, origin, wrapped>>

\* Mutation: the loop goes on.
NoSizeAgain ==
  /\ chunkStage = "loop"
  /\ buffered # <<>>
  /\ FindCrLf(buffered) = 0
  /\ UNCHANGED chunkVars
NoSize ==
  /\ chunkStage = "loop"
  /\ buffered # <<>>
  /\ FindCrLf(buffered) = 0
  /\ chunkStage' = "failure"
  /\ UNCHANGED <<chunks, buffered, chunkBody, chunkLength, origin, wrapped>>

TakeChunk ==
  \E line \in {Upto(buffered, FindCrLf(buffered) - 1)},
     rest \in {Erase(buffered, FindCrLf(buffered) + 1)} :
  \E size \in {Strtol(line)} :
    LET data == Substr(rest, ToSize(size))
        consumed == Len(chunks.bytes) - Len(rest)
    IN
    /\ chunkStage = "loop"
    /\ FindCrLf(buffered) # 0
    /\ chunkLength' = ToSize(size)
    /\ chunkBody' = chunkBody \o data
    /\ buffered' = AfterData(rest, ToSize(size))
    /\ chunkStage' = IF ToSize(size) = 0 THEN "success" ELSE chunkStage
    /\ origin' = origin \o [i \in 1 .. Len(data) |-> consumed + i]
    /\ wrapped' = (wrapped \/ size \in {-1, -2})
    /\ UNCHANGED chunks

ChunksNext == BufferEmpty \/ NoSize \/ TakeChunk

ChunksSpec == ChunksInit /\ [][ChunksNext]_chunkVars

\* Nothing can happen between two turns of the loop.
ChunksFairSpec == ChunksSpec /\ WF_chunkVars(ChunksNext)

-----------------------------------------------------------------------------
(* Properties *)

Consumed == Len(chunks.bytes) - Len(buffered)

\* Every variable has its type; the buffer is always an end of what was sent,
\* and the data are bytes of it.
ChunksTypeOK ==
  /\ buffered = Erase(chunks.bytes, Consumed)
  /\ Len(origin) = Len(chunkBody)
  /\ \A i \in 1 .. Len(chunkBody) :
       origin[i] \in 1 .. Len(chunks.bytes) /\ chunkBody[i] = chunks.bytes[origin[i]]
  /\ chunkLength \in 0 .. 2 * LongMax + 1
  /\ wrapped \in BOOLEAN
  /\ chunkStage \in {"loop", "success", "failure"}

\* The loop ends for every body, the sizes that wrap included: a size of -2
\* erases none of the data, and -1 one byte (HTTP_parse.cpp:361-365).
LoopEnds == <>(chunkStage # "loop")

\* What was made data is what the loop has left behind, in its order and each
\* byte once, whatever lines it takes for sizes, negative ones and such that
\* fit no long included; unless one is -1 or -2, when all that has arrived
\* becomes data and most of it stays in the buffer (HTTP_parse.cpp:362-365).
NothingTwice ==
  ~wrapped =>
    /\ \A i \in 1 .. Len(origin) : origin[i] <= Consumed
    /\ \A i, j \in 1 .. Len(origin) : i < j => origin[i] < origin[j]

\* Chunks that frame some data give that data, whatever follows them.
FramedData ==
  Framed(chunks) /\ chunkStage # "loop" =>
    chunkStage = "success" /\ chunkBody = chunks.data

\* HTTP_parse.cpp:348-372: chunks that frame some data give that data; of any
\* body no byte becomes data twice, unless a size is -1 or -2.
ChunksAsSent == NothingTwice /\ FramedData
=============================================================================
