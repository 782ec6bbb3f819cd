------------------------- MODULE FdcanusbFrameStream -------------------------
(***************************************************************************)
(* mjlib/multiplex/fdcanusb_frame_stream.cc: frames as lines of text to    *)
(* and from an adapter, which answers each "can send" with a line of its   *)
(* own.  A line is a sequence of words that ends with a newline; the       *)
(* stream may hand it over in pieces.                                      *)
(*                                                                         *)
(* External: the adapter and the bus behind it.                            *)
(***************************************************************************)
EXTENDS CanFrameStream

CONSTANT MaxLineLength   \* kMaxLineLength, in words

VARIABLES
  streambuf,   \* streambuf_
  oks,         \* outstanding_oks_
  unanswered   \* lines the adapter has not answered

canVars == <<sent, line, outstanding, reads, current, timer, posted, told, writes>>
vars == <<canVars, streambuf, oks, unanswered>>

Newline == [t |-> "newline"]
Word(text) == [t |-> "word", v |-> text]
Number(n) == [t |-> "number", v |-> n]
Hex(digits) == [t |-> "hex", v |-> digits]

Init == StreamInit /\ streambuf = <<>> /\ oks = 0 /\ unanswered = <<>>

-----------------------------------------------------------------------------
HexByte(byte) == <<byte \div 16, byte % 16>>

ParseHexByte(digits, i) == digits[2 * i - 1] * 16 + digits[2 * i]

EncodeFdcanusb(frame, command) ==
  <<command, Number(CanId(frame)),
    Hex(FlattenSeq([i \in DOMAIN CanData(frame) |-> HexByte(CanData(frame)[i])])),
    Newline>>

\* The frame in a line, as a sequence of at most one: none without data.
ParseRcv(words) ==
  IF Len(words) < 3 \/ words[3].v = <<>> THEN <<>>
  ELSE <<FrameOf(words[2].v, [i \in 1..(Len(words[3].v) \div 2) |->
                                ParseHexByte(words[3].v, i)])>>

\* p: streambuf_, outstanding_oks_ and the frame that satisfied the read.
ParseLine(p, words) ==
  IF words = <<Word("OK")>> THEN [p EXCEPT !.oks = IF @ > 0 THEN @ - 1 ELSE 0]
  ELSE IF words # <<>> /\ words[1] = Word("rcv") THEN [p EXCEPT !.frame = ParseRcv(words)]
  ELSE p

Newlines(bytes) == {i \in DOMAIN bytes : bytes[i] = Newline}

\* One line; without one, a buffer that is too long is emptied.
ParseFrame(p) ==
  IF Newlines(p.buffer) = {}
  THEN IF Len(p.buffer) > MaxLineLength THEN [p EXCEPT !.buffer = <<>>] ELSE p
  ELSE LET n == Min(Newlines(p.buffer))
           parsed == ParseLine(p, SubSeq(p.buffer, 1, n - 1))
       IN [parsed EXCEPT !.buffer = SubSeq(p.buffer, n + 1, Len(p.buffer))]

\* The loop of HandleRead: until the read is satisfied or no line is left.
ParseAll(p) ==
  FoldLeft(LAMBDA q, i : IF q.frame = <<>> THEN ParseFrame(q) ELSE q,
           p, [i \in 1..Cardinality(Newlines(p.buffer)) + 1 |-> i])

Parser(buffer) == [buffer |-> buffer, oks |-> oks, frame |-> <<>>]

\* EmitFrame if there is a frame for read r, whose timer is then canceled,
\* and if not the read of the stream.
Finish(r, p, wait) ==
  /\ streambuf' = p.buffer /\ oks' = p.oks
  /\ current' = IF p.frame = <<>> THEN r ELSE 0
  /\ outstanding' = (p.frame = <<>>)
  /\ timer' = IF p.frame = <<>> THEN wait ELSE 0
  /\ posted' = IF p.frame = <<>> THEN posted
               ELSE Append(posted, Callback(r, Received(p.frame[1])))

-----------------------------------------------------------------------------
AsyncRead ==
  /\ current = 0
  /\ reads < MaxReads
  /\ reads' = reads + 1
  /\ IF outstanding
     THEN /\ current' = reads'
          /\ SetTimer(reads')
          /\ UNCHANGED <<streambuf, oks, outstanding, posted>>
     ELSE Finish(reads', ParseFrame(Parser(streambuf)),
                 IF reads' \in Untimed THEN 0 ELSE reads')
  /\ UNCHANGED <<sent, line, told, writes, unanswered>>

\* All lines while the read waits; MaybeStartRead looks once more.
HandleRead ==
  /\ outstanding
  /\ \E n \in 1..Len(line) :
       LET buffer == streambuf \o SubSeq(line, 1, n)
           all == ParseAll(Parser(buffer)) IN
         /\ line' = SubSeq(line, n + 1, Len(line))
         /\ IF current # 0
            THEN Finish(current, IF all.frame = <<>> THEN ParseFrame(all) ELSE all, timer)
            ELSE /\ streambuf' = buffer
                 /\ outstanding' = FALSE
                 /\ UNCHANGED <<oks, current, timer, posted>>
  /\ UNCHANGED <<sent, reads, told, writes, unanswered>>

\* It aborts whichever read is current now, and gives up waiting for OKs.
HandleTimer ==
  /\ posted # <<>> /\ Head(posted) = TimerCall
  /\ posted' = Tail(posted)
  /\ oks' = 0 /\ current' = 0
  /\ IF current # 0 THEN Tell(current, NoFrame) ELSE UNCHANGED told
  /\ UNCHANGED <<sent, line, outstanding, reads, timer, writes, streambuf, unanswered>>

\* AsyncWrite and AsyncWriteMultiple: the frames written are the peer's own.
AsyncWrite(n) ==
  /\ writes < MaxWrites
  /\ writes' = writes + 1
  /\ oks' = oks + n
  /\ unanswered' = unanswered \o
       [i \in 1..n |-> EncodeFdcanusb(Messages[i], Word("can send"))]
  /\ UNCHANGED <<sent, line, outstanding, reads, current, timer, posted, told, streambuf>>

-----------------------------------------------------------------------------
\* The adapter answers: OK, or an error of which the stream knows nothing.
AdapterAnswers ==
  /\ unanswered # <<>>
  /\ unanswered' = Tail(unanswered)
  /\ \E answer \in {<<Word("OK")>>, [i \in 1..(MaxLineLength + 1) |-> Word("ERR")]} :
       line' = line \o Append(answer, Newline)
  /\ UNCHANGED <<sent, outstanding, reads, current, timer, posted, told,
                 writes, streambuf, oks>>

PeerSends ==
  /\ sent < Len(Messages)
  /\ sent' = sent + 1
  /\ line' = line \o EncodeFdcanusb(Messages[sent'], Word("rcv"))
  /\ UNCHANGED <<outstanding, reads, current, timer, posted, told, writes,
                 streambuf, oks, unanswered>>

Next ==
  \/ AsyncRead
  \/ HandleRead
  \/ HandleTimer
  \/ \E n \in Batches : AsyncWrite(n)
  \/ AdapterAnswers
  \/ PeerSends
  \/ (TimerExpires \/ RunCallback) /\ UNCHANGED <<streambuf, oks, unanswered>>

Spec == Init /\ [][Next]_vars

-----------------------------------------------------------------------------
=============================================================================
