----------------------------- MODULE SseStream -----------------------------
(***************************************************************************)
(* The event stream of the adapter as the client reads it: chunks of text, *)
(* cut anywhere, appended to a buffer whose complete blocks are parsed     *)
(* (sseParser.ts; streamRunEvents and streamLogs of studioClient.ts).      *)
(*                                                                         *)
(* Simplifications: the text is one of symbols: a line end, the names of   *)
(* the two fields that count, the colon of a comment and a text; the       *)
(* spaces trimmed around them and the decoding of UTF-8 are left out.      *)
(***************************************************************************)
EXTENDS Naturals, Sequences, SequencesExt

CONSTANT MaxText    \* bound on the length of the stream

ASSUME MaxTextAssumption == MaxText \in Nat

Newline == "newline"
Symbols == {Newline, "event:", "data:", ":", "text"}

VARIABLES
  received,    \* history: the text received so far
  buffer,      \* what is kept of it
  parsed       \* the events handed on

streamVars == <<received, buffer, parsed>>

StreamInit == received = <<>> /\ buffer = <<>> /\ parsed = <<>>

-----------------------------------------------------------------------------
\* Blocks are what stands between two blank lines; what follows the last is
\* the remainder.
EndsBlock(split, symbol) ==
  symbol = Newline /\ split.remainder # <<>> /\ Last(split.remainder) = Newline

Splits(split, symbol) ==
  IF EndsBlock(split, symbol)
  THEN [blocks |-> Append(split.blocks, Front(split.remainder)), remainder |-> <<>>]
  ELSE [split EXCEPT !.remainder = Append(@, symbol)]

splitSSEBlocks[text \in Seq(Symbols)] ==
  IF text = <<>> THEN [blocks |-> <<>>, remainder |-> <<>>]
  ELSE Splits(splitSSEBlocks[Front(text)], Last(text))

Lines(block) ==
  FoldLeft(LAMBDA lines, symbol :
             IF symbol = Newline THEN Append(lines, <<>>)
             ELSE [lines EXCEPT ![Len(lines)] = Append(@, symbol)],
           <<<<>>>>, block)

Malformed == [event |-> <<>>, data |-> <<>>]
Fields(lines, name) == SelectSeq(lines, LAMBDA line : line # <<>> /\ line[1] = name)

\* The last type and all the data of a block; without both there is no event.
parseSSEEvent(block) ==
  LET events == Fields(Lines(block), "event:")
      data   == Fields(Lines(block), "data:")
  IN  IF events = <<>> \/ data = <<>> \/ Tail(Last(events)) = <<>> THEN Malformed
      ELSE [event |-> Tail(Last(events)),
            data  |-> [n \in DOMAIN data |-> Tail(data[n])]]

\* The loop over the blocks pushes the events that parse.
Pushes(events, block) ==
  IF parseSSEEvent(block) = Malformed THEN events ELSE Append(events, parseSSEEvent(block))

EventsOf[blocks \in Seq(Seq(Symbols))] ==
  IF blocks = <<>> THEN <<>> ELSE Pushes(EventsOf[Front(blocks)], Last(blocks))

parseSSEStream(text) ==
  [events    |-> EventsOf[splitSSEBlocks[text].blocks],
   remainder |-> splitSSEBlocks[text].remainder]

\* mutant: a chunk is parsed without what was left of the one before
ChunkAlone(chunk) == parseSSEStream(chunk)

Decoded(chunk) == parseSSEStream(buffer \o chunk)

\* The next chunk is read.
ReadChunk(chunk) ==
  /\ Len(received) + Len(chunk) <= MaxText
  /\ received' = received \o chunk
  /\ parsed' = parsed \o Decoded(chunk).events
  /\ buffer' = Decoded(chunk).remainder

StreamNext == \E chunk \in SeqOf(Symbols, 3) \ {<<>>} : ReadChunk(chunk)

StreamSpec == StreamInit /\ [][StreamNext]_streamVars

-----------------------------------------------------------------------------
\* However the stream is cut into chunks, the events handed on are those of
\* the whole text: none is lost, read twice or made of two where a chunk ends
\* inside a line or between the two ends of a blank one.
ChunksDoNotMatter ==
  /\ parsed = parseSSEStream(received).events
  /\ buffer = parseSSEStream(received).remainder
=============================================================================
