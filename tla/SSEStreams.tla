------------------------------ MODULE SSEStreams ------------------------------
(* The bytes of a server-sent event stream as they pass through the gateway:  *)
(* the wrapper that adds a missing [DONE] marker to a Responses stream        *)
(* (responses_done_wrapper.go) and, around it, the stream that shows every    *)
(* event to the observers (observed_sse_stream.go).  The network cuts the     *)
(* stream into chunks wherever it likes; the client may leave at any time.    *)
(*                                                                            *)
(* A byte is LF, CR or x; C stands for a data line with a completed payload   *)
(* and D1, D2 for the two halves of the line "data: [DONE]".                  *)
EXTENDS Integers, Sequences, SequencesExt, FiniteSets

CONSTANTS MaxPending,   \* maxPendingEventBytes
          Streams       \* the streams an upstream may send

Bytes == {"LF", "CR", "x", "C", "D1", "D2"}

ASSUME StreamsAssumption == MaxPending \in Nat /\ Streams \subseteq Seq(Bytes)

VARIABLES stream,       \* what the upstream sends
          pos,          \* bytes of it read so far
          marker,       \* bytes appended after the upstream's
          wrap,         \* state of the responsesDoneWrapper
          obs,          \* state of the ObservedSSEStream
          mode          \* "reading", "eof", "closed"

sseVars == <<stream, pos, marker, wrap, obs, mode>>

LFLF == <<"LF", "LF">>
CRLFCRLF == <<"CR", "LF", "CR", "LF">>
DoneLine == <<"D1", "D2">>
DoneMarker == DoneLine \o LFLF
\* Mutant of BoundaryTail: one byte less of the prefix is kept.
BoundaryTailShort == 2
BoundaryTail == 3

Drop(s, n) == SubSeq(s, n + 1, Len(s))
Take(s, n) == SubSeq(s, 1, n)

-----------------------------------------------------------------------------
(* Event boundaries.                                                         *)

\* All boundaries of d, as pairs of the offset and the length of the separator.
Boundaries(d) ==
    {b \in (0 .. Len(d)) \X {LFLF, CRLFCRLF} :
        b[1] + Len(b[2]) <= Len(d) /\ SubSeq(d, b[1] + 1, b[1] + Len(b[2])) = b[2]}

\* The earliest boundary as <<offset, length>>, or <<>>.
Earliest(bs) ==
    IF bs = {} THEN <<>>
    ELSE LET b == CHOOSE b \in bs : \A c \in bs : b[1] <= c[1] IN <<b[1], Len(b[2])>>

NextEventBoundary(d) == Earliest(Boundaries(d))

\* The earliest boundary of prefix and data joined that is not within the
\* prefix; no more than the last three bytes of the prefix are looked at.
NextJoinedEventBoundary(prefix, data) ==
    Earliest({b \in Boundaries(prefix \o data) :
                /\ b[1] >= Len(prefix) - BoundaryTail
                /\ b[1] + Len(b[2]) > Len(prefix)})

\* Where data continues after a boundary of the joined bytes.
DataOffsetAfterBoundary(prefixLen, b) ==
    IF b[1] >= prefixLen THEN b[1] - prefixLen + b[2]
    ELSE IF prefixLen - b[1] >= b[2] THEN 0
    ELSE b[2] - (prefixLen - b[1])

JoinedSuffix(prefix, data) ==
    LET joined == prefix \o data
    IN IF Len(joined) <= BoundaryTail THEN joined ELSE Drop(joined, Len(joined) - BoundaryTail)

-----------------------------------------------------------------------------
(* Observers.                                                                *)

ObserverInit == [pending |-> <<>>, discarding |-> FALSE, tail |-> <<>>, seen |-> <<>>]

\* An empty event has no data line and reaches nobody.
ProcessEvent(o, event) == IF event = <<>> THEN o ELSE [o EXCEPT !.seen = Append(@, event)]

StartDiscarding(o, prefix, data) ==
    [o EXCEPT !.pending = <<>>, !.discarding = TRUE, !.tail = JoinedSuffix(prefix, data)]

SavePending(o, data) ==
    IF Len(data) > MaxPending THEN StartDiscarding(o, <<>>, data) ELSE [o EXCEPT !.pending = data]

\* One round of the loop over a chunk: the observer and the data that is left.
Round(o, data) ==
    IF data = <<>> THEN [obs |-> o, data |-> data]
    ELSE IF o.discarding
    THEN LET b == NextJoinedEventBoundary(o.tail, data) IN
         IF b = <<>> THEN [obs |-> [o EXCEPT !.tail = JoinedSuffix(o.tail, data)], data |-> <<>>]
         ELSE [obs  |-> [o EXCEPT !.discarding = FALSE, !.tail = <<>>],
               data |-> Drop(data, DataOffsetAfterBoundary(Len(o.tail), b))]
    ELSE LET b == NextEventBoundary(data) IN
         IF b = <<>> THEN [obs |-> SavePending(o, data), data |-> <<>>]
         ELSE [obs  |-> IF b[1] > MaxPending THEN o ELSE ProcessEvent(o, Take(data, b[1])),
               data |-> Drop(data, b[1] + b[2])]

\* Every round takes a byte at least.
ProcessData(o, data) ==
    LET after[n \in 0 .. Len(data)] ==
            IF n = 0 THEN [obs |-> o, data |-> data]
            ELSE Round(after[n - 1].obs, after[n - 1].data)
    IN after[Len(data)].obs

ProcessChunk(o, data) ==
    IF o.pending = <<>> THEN ProcessData(o, data)
    ELSE LET b == NextJoinedEventBoundary(o.pending, data)
             joined == o.pending \o data
         IN IF b = <<>>
            THEN IF Len(joined) > MaxPending THEN StartDiscarding(o, o.pending, data)
                 ELSE [o EXCEPT !.pending = joined]
            ELSE LET p == [o EXCEPT !.pending = <<>>]
                 IN ProcessData(IF b[1] > MaxPending THEN p ELSE ProcessEvent(p, Take(joined, b[1])),
                                Drop(data, DataOffsetAfterBoundary(Len(o.pending), b)))

-----------------------------------------------------------------------------
(* The wrapper that completes a missing marker.                              *)

WrapperInit == [line |-> <<>>, sawDone |-> FALSE, candidate |-> FALSE, ready |-> FALSE,
                boundary |-> TRUE, lineAtBoundary |-> TRUE]

TrimCR(line) == IF line # <<>> /\ Last(line) = "CR" THEN Front(line) ELSE line

IsCompletedDataLine(line) == TrimCR(line) # <<>> /\ Head(line) = "C"
IsDoneLinePrefix(line) == \E n \in 0 .. Len(DoneLine) : line = Take(DoneLine, n)

\* Mutant of ProcessLine: the marker may follow other lines of its event.
ProcessLineAnywhere(w) ==
    LET line == TrimCR(w.line)
        done == line = DoneLine
    IN IF line = <<>>
       THEN [w EXCEPT !.ready = @ \/ w.candidate, !.candidate = FALSE, !.boundary = TRUE]
       ELSE [w EXCEPT !.ready = @ /\ done, !.sawDone = @ \/ done,
                      !.candidate = @ \/ IsCompletedDataLine(line), !.boundary = FALSE]

ProcessLine(w) ==
    LET line == TrimCR(w.line)
        done == w.lineAtBoundary /\ line = DoneLine
    IN IF line = <<>>
       THEN [w EXCEPT !.ready = @ \/ w.candidate, !.candidate = FALSE, !.boundary = TRUE]
       ELSE [w EXCEPT !.ready = @ /\ done, !.sawDone = @ \/ done,
                      !.candidate = @ \/ IsCompletedDataLine(line), !.boundary = FALSE]

TrackByte(w, b) ==
    IF b # "LF" THEN [w EXCEPT !.line = Append(@, b)]
    ELSE LET v == ProcessLine(w) IN [v EXCEPT !.line = <<>>, !.lineAtBoundary = v.boundary]

TrackStream(w, data) == FoldLeft(TrackByte, w, data)

SynthesizeDoneSuffix(w) ==
    IF w.sawDone THEN <<>>
    ELSE IF w.candidate /\ w.line = <<>> THEN <<"LF">> \o DoneMarker
    ELSE IF IsCompletedDataLine(w.line) THEN LFLF \o DoneMarker
    ELSE IF ~w.ready \/ ~IsDoneLinePrefix(w.line) THEN <<>>
    ELSE IF w.line = <<>> /\ ~w.boundary THEN <<>>
    ELSE IF w.line # <<>> /\ ~w.lineAtBoundary THEN <<>>
    ELSE Drop(DoneLine, Len(w.line)) \o LFLF

-----------------------------------------------------------------------------
SSEInit ==
    /\ stream \in Streams /\ pos = 0 /\ marker = <<>> /\ mode = "reading"
    /\ wrap = WrapperInit /\ obs = ObserverInit

\* A chunk of any length.
Read ==
    /\ mode = "reading"
    /\ \E n \in 1 .. Len(stream) - pos :
          LET chunk == SubSeq(stream, pos + 1, pos + n)
          IN /\ pos' = pos + n
             /\ wrap' = TrackStream(wrap, chunk)
             /\ obs' = ProcessChunk(obs, chunk)
    /\ UNCHANGED <<stream, marker, mode>>

\* At the end of the upstream the missing bytes of the marker follow.
ReadMarker ==
    /\ mode = "reading" /\ pos = Len(stream)
    /\ mode' = "eof" /\ marker' = SynthesizeDoneSuffix(wrap)
    /\ obs' = ProcessChunk(obs, marker')
    /\ UNCHANGED <<stream, pos, wrap>>

\* What is still pending counts as an event; it holds no boundary.
CloseStream ==
    /\ mode # "closed" /\ mode' = "closed"
    /\ obs' = ProcessEvent([obs EXCEPT !.pending = <<>>], obs.pending)
    /\ UNCHANGED <<stream, pos, marker, wrap>>

SSENext == Read \/ ReadMarker \/ CloseStream

SSESpec == SSEInit /\ [][SSENext]_sseVars

-----------------------------------------------------------------------------
(* References: the same bytes seen at once.                                  *)

Delivered == Take(stream, pos) \o marker

\* The events of a stream; the last one may be cut off.
SplitEvents[d \in Seq(Bytes)] ==
    LET b == NextEventBoundary(d)
    IN IF b = <<>> THEN <<d>> ELSE <<Take(d, b[1])>> \o SplitEvents[Drop(d, b[1] + b[2])]

\* What is seen of the events, in order and each once: every event that fits
\* maxPendingEventBytes together with a separator that is still incomplete, and
\* none that is longer than maxPendingEventBytes.
ShowsEvents(seen, events) ==
    \E at \in [DOMAIN seen -> DOMAIN events] :
        /\ \A i, j \in DOMAIN seen : i < j => at[i] < at[j]
        /\ \A i \in DOMAIN seen : /\ seen[i] = events[at[i]]
                                  /\ seen[i] # <<>> /\ Len(seen[i]) <= MaxPending
        /\ \A k \in DOMAIN events :
              events[k] # <<>> /\ Len(events[k]) <= MaxPending - BoundaryTail =>
                 \E i \in DOMAIN seen : at[i] = k

\* Whatever the chunks, the observers see the events of the delivered bytes, and
\* what follows a discarded event is seen again (processChunk,
\* nextJoinedEventBoundary, startDiscarding).
ChunkingIsInvisible == mode = "closed" => ShowsEvents(obs.seen, SplitEvents[Delivered])

\* Lines of a stream for its reader; the last one may be cut off.
Lines(d) ==
    LET ends == <<0>> \o SetToSortSeq({i \in DOMAIN d : d[i] = "LF"}, <) \o <<Len(d) + 1>>
    IN [i \in 1 .. Len(ends) - 1 |-> TrimCR(SubSeq(d, ends[i] + 1, ends[i + 1] - 1))]

\* The lines of the last event.
LastEvent(lines) ==
    LET full == {i \in DOMAIN lines : lines[i] # <<>>}
    IN IF full = {} THEN <<>>
       ELSE Drop(Take(lines, Max(full)),
                 Max({0} \cup {i \in 1 .. Max(full) : lines[i] = <<>>}))

IsCompleted(event) == \E i \in DOMAIN event : event[i] # <<>> /\ event[i][1] = "C"
IsDone(event) == event = <<DoneLine>>

\* The bytes after the last line end.
OpenLine == Drop(stream, SelectLastInSubSeq(stream, 1, Len(stream), LAMBDA b : b = "LF"))
Closed == Take(stream, Len(stream) - Len(OpenLine))

\* The stream ends with its completed event, whole or cut within or after its
\* data line, or within the marker that follows it.
EndsCompleted ==
    \/ IsCompleted(LastEvent(Lines(stream))) /\ (OpenLine = <<>> \/ Head(OpenLine) = "C")
    \/ /\ OpenLine # <<>> /\ IsPrefix(OpenLine, DoneLine)
       /\ IsCompleted(LastEvent(Lines(Closed)))
       /\ \E e \in {LFLF, CRLFCRLF} : IsSuffix(e, Closed)

\* The upstream sent the marker itself.
Marked == LET lines == Lines(Closed) IN
          \E i \in DOMAIN lines : lines[i] = DoneLine /\ (i = 1 \/ lines[i - 1] = <<>>)

\* A marker that is added belongs there: the stream reached a completed event and
\* has no marker of its own, and with the bytes added it ends with one [DONE]
\* event, whether the upstream sent a part of the marker or nothing.  And it is
\* added to every stream that ends with its completed event, whole or cut within
\* or after its data line, or within the marker (trackStream, processLine,
\* synthesizeDoneSuffix).  Of a stream that goes on after its completed event, or
\* is cut between CR and LF, nothing is asked here: see CompletedStreamsEndDone.
DoneMarkerOnce ==
    mode = "eof" =>
        /\ EndsCompleted /\ ~Marked => marker # <<>>
        /\ marker # <<>> =>
              /\ IsCompleted(Lines(stream)) /\ ~Marked
              /\ IsDone(LastEvent(Lines(Delivered)))
              /\ IsSuffix(DoneMarker, Delivered)
              /\ Cardinality({i \in DOMAIN Delivered : Delivered[i] = "D1"})
                   = Cardinality({i \in DOMAIN Closed : Closed[i] = "D1"}) + 1

\* What the comment of EnsureResponsesDone says (responses_done_wrapper.go:19-21):
\* every stream that reached a completed event and ended without its marker ends
\* with one.  Only streams that end with a whole line are meant here.  It does not
\* hold: any line after the completed event, a comment say, takes the readiness
\* back (processLine, :129-131).
CompletedStreamsEndDone ==
    mode = "eof" /\ OpenLine = <<>> /\ IsCompleted(Lines(stream)) /\ ~Marked =>
        IsDone(LastEvent(Lines(Delivered)))
=============================================================================
