--------------------------------- MODULE FrameParser ---------------------------------
(***************************************************************************)
(* RinnaiFrameParser (protocol.py): the rolling parser that turns the bytes *)
(* of the TCP stream, in whatever chunks they arrive, into frames, recovers *)
(* from malformed and from truncated candidates, and bounds what it keeps.  *)
(*                                                                         *)
(* The bytes of the connection are fixed in advance (wire), and everything  *)
(* is a position in them: the buffer is wire[head + 1 .. fed].  feed() does *)
(* not suspend; the steps of its loop are actions of their own, one for     *)
(* each iteration, and nothing else happens while it is extracting.         *)
(*                                                                         *)
(* A byte is one of the kinds the parser tells apart: "N", "0" (a decimal   *)
(* digit), brackets and braces, the quote, the backslash, "?" (not UTF-8)   *)
(* and "x" (any other).  Of JSON only the empty array and the array of one  *)
(* object with one key are valid; an "x" stands for the colon and a value.  *)
(***************************************************************************)
EXTENDS Integers, Sequences

CONSTANTS Streams,    \* what a connection may carry: [bytes, frames], frames the genuine ones
          Digits,     \* SEQUENCE_DIGITS
          MaxBuffer,  \* _max_buffer_bytes
          ChunkSizes  \* how many bytes one read may return

HeaderLen == 1 + Digits

Kinds == {"N", "0", "[", "]", "{", "}", "\"", "\\", "?", "x"}
Interval == [from : Nat, to : Nat]

ASSUME StreamsGiven ==
    \A s \in Streams : s.bytes \in Seq(Kinds) /\ s.frames \in Seq(Interval)
ASSUME SizesGiven == /\ Digits \in Nat \ {0}
                     /\ MaxBuffer \in Nat /\ MaxBuffer >= HeaderLen + 2
                     /\ ChunkSizes \subseteq Nat \ {0}

VARIABLES wire,        \* the bytes of the connection
          sent,        \* the genuine frames among them, each [from, to]
          fed,         \* bytes given to feed() so far
          head,        \* bytes no longer in the buffer, or before pos in the loop
          extracting,  \* feed() is in its loop
          frames,      \* frames returned, each [from, to]: wire[from + 1 .. to]
          invalid,     \* _invalid_candidates
          discarded    \* _discarded_bytes

vars == <<wire, sent, fed, head, extracting, frames, invalid, discarded>>

Quote == "\""
Backslash == "\\"
Opener(close) == IF close = "]" THEN "[" ELSE "{"

Least(S) == CHOOSE m \in S : \A k \in S : m <= k

---------------------------------------------------------------------------------------
(* Candidates: bytes[i] = "N", evaluated on the bytes received so far. *)

\* Where the scan of an array is after a byte: the open brackets, in a string or
\* not, just after a backslash or not, and whether the array is still open.
ScanStep(s, byte) ==
    CASE s.at # "open" -> s
      [] s.inString /\ s.escaped -> [s EXCEPT !.escaped = FALSE]
      [] s.inString /\ ~s.escaped -> [s EXCEPT !.escaped = (byte = Backslash),
                                               !.inString = (byte # Quote)]
      [] OTHER ->
            CASE byte = Quote -> [s EXCEPT !.inString = TRUE]
              [] byte \in {"[", "{"} -> [s EXCEPT !.stack = <<byte>> \o @]
              [] byte \in {"]", "}"} ->
                    IF s.stack = << >> \/ Head(s.stack) # Opener(byte)
                    THEN [s EXCEPT !.at = "mismatch"]
                    ELSE [s EXCEPT !.stack = Tail(@),
                                   !.at = IF Len(s.stack) = 1 THEN "closed" ELSE "open"]
              [] OTHER -> s

ScanStart == [stack |-> << >>, inString |-> FALSE, escaped |-> FALSE, at |-> "open"]

\* The scan that starts at bytes[first], after each byte.
Scan(bytes, first) ==
    LET after[j \in (first - 1) .. Len(bytes)] ==
            IF j = first - 1 THEN ScanStart ELSE ScanStep(after[j - 1], bytes[j])
    IN  after

\* _decode_frame: valid UTF-8, valid JSON, a list of objects with one key.
Decodes(bytes, first, last) ==
    LET text == first + 3 .. last - 4   \* in [{"text"x}]
        escaped(j) == Scan(bytes, first)[j - 1].escaped
    IN  \/ last = first + 1
        \/ /\ last >= first + 6
           /\ bytes[first + 1] = "{" /\ bytes[first + 2] = Quote
           /\ bytes[last - 3] = Quote /\ bytes[last - 2] = "x" /\ bytes[last - 1] = "}"
           /\ ~escaped(last - 3)
           /\ \A j \in text : /\ bytes[j] # "?"
                              /\ bytes[j] = Quote => escaped(j)
                              /\ escaped(j) => bytes[j] \in {Quote, Backslash}

Incomplete == [is |-> "incomplete", end |-> 0]
Invalid == [is |-> "invalid", end |-> 0]

\* _scan_array_end and _decode_frame for the candidate at i.
TryArray(bytes, i) ==
    LET first == i + HeaderLen
        scan == Scan(bytes, first)
        over == {j \in first .. Len(bytes) : scan[j].at # "open"}
        last == Least(over)
    IN  IF over = {} THEN Incomplete
        ELSE IF scan[last].at = "closed" /\ Decodes(bytes, first, last)
             THEN [is |-> "frame", end |-> last]
             ELSE Invalid

\* _try_candidate.
TryCandidate(bytes, i) ==
    LET header == {j \in i + 1 .. i + Digits : j <= Len(bytes)}
    IN  IF \E j \in header : bytes[j] # "0" THEN Invalid
        ELSE IF i + HeaderLen > Len(bytes) THEN Incomplete
        ELSE IF bytes[i + HeaderLen] # "[" THEN Invalid
        ELSE TryArray(bytes, i)

Received == SubSeq(wire, 1, fed)

PrefixesAfter(p) == {i \in p + 1 .. fed : wire[i] = "N"}

\* Slip: an incomplete candidate is never abandoned.
NoResyncSlip(i) == {}

\* The frames _find_resync_frame may find behind the candidate at i.
LaterFrames(i) == {k \in PrefixesAfter(i) : TryCandidate(Received, k).is = "frame"}

---------------------------------------------------------------------------------------
(* feed() *)

Init == /\ \E s \in Streams : wire = s.bytes /\ sent = s.frames
        /\ fed = 0 /\ head = 0
        /\ extracting = FALSE
        /\ frames = << >>
        /\ invalid = 0 /\ discarded = 0

\* feed(): the next chunk is appended, and the loop of _extract_frames begins.
Feed(n) == /\ ~extracting /\ fed + n <= Len(wire)
           /\ fed' = fed + n
           /\ extracting' = TRUE
           /\ UNCHANGED <<wire, sent, head, frames, invalid, discarded>>

\* The candidate of this iteration; the bytes before it are discarded with it.
Candidate == Least(PrefixesAfter(head))

\* No prefix: everything is garbage.
DiscardGarbage == /\ extracting /\ PrefixesAfter(head) = {}
                  /\ discarded' = discarded + (fed - head)
                  /\ head' = fed
                  /\ extracting' = FALSE
                  /\ UNCHANGED <<wire, sent, fed, frames, invalid>>

CandidateIs(kind) == /\ extracting /\ PrefixesAfter(head) # {}
                     /\ TryCandidate(Received, Candidate).is = kind

\* The frame whose prefix is at i is returned, and the bytes before it are discarded.
Return(i) == /\ frames' = Append(frames, [from |-> i - 1, to |-> TryCandidate(Received, i).end])
             /\ head' = TryCandidate(Received, i).end
             /\ discarded' = discarded + (i - 1 - head)

AcceptFrame == /\ CandidateIs("frame")
               /\ Return(Candidate)
               /\ UNCHANGED <<wire, sent, fed, extracting, invalid>>

\* Slip: the rejected prefix is kept.
SamePrefixSlip == /\ CandidateIs("invalid")
                  /\ invalid' = invalid + 1
                  /\ discarded' = discarded + (Candidate - 1 - head)
                  /\ head' = Candidate - 1
                  /\ UNCHANGED <<wire, sent, fed, extracting, frames>>

\* _reject_candidate: exactly the prefix is discarded.
RejectCandidate == /\ CandidateIs("invalid")
                   /\ invalid' = invalid + 1
                   /\ discarded' = discarded + (Candidate - head)
                   /\ head' = Candidate
                   /\ UNCHANGED <<wire, sent, fed, extracting, frames>>

\* An incomplete candidate is abandoned for a later frame.
Resynchronise == /\ CandidateIs("incomplete") /\ LaterFrames(Candidate) # {}
                 /\ Return(Least(LaterFrames(Candidate)))
                 /\ invalid' = invalid + 1
                 /\ UNCHANGED <<wire, sent, fed, extracting>>

\* An incomplete candidate is retained, up to the cap: the oldest bytes beyond it go.
Retain == /\ CandidateIs("incomplete") /\ LaterFrames(Candidate) = {}
          /\ head' = IF fed - (Candidate - 1) > MaxBuffer
                     THEN fed - MaxBuffer
                     ELSE Candidate - 1
          /\ discarded' = discarded + (head' - head)
          /\ extracting' = FALSE
          /\ UNCHANGED <<wire, sent, fed, frames, invalid>>

Extract == DiscardGarbage \/ AcceptFrame \/ RejectCandidate \/ Resynchronise \/ Retain

\* The peer has sent everything and the loop is over.
Silent == ~extracting /\ fed = Len(wire) /\ UNCHANGED vars

Next == \/ \E n \in ChunkSizes : Feed(n)
        \/ Extract
        \/ Silent

Spec == Init /\ [][Next]_vars

---------------------------------------------------------------------------------------
(* Properties *)

\* Every variable has its type, the buffer a beginning and an end.
TypeOK == /\ wire \in Seq(Kinds) /\ sent \in Seq(Interval)
          /\ fed \in 0 .. Len(wire)
          /\ head \in 0 .. fed
          /\ extracting \in BOOLEAN
          /\ frames \in Seq(Interval)
          /\ invalid \in Nat /\ discarded \in Nat

\* What feed() keeps for the next chunk never exceeds the cap.
BufferBounded == ~extracting => fed - head <= MaxBuffer

\* No byte is returned twice, and the frames keep the order of the stream.
FramesInOrder ==
    /\ \A i \in DOMAIN frames : frames[i].from < frames[i].to /\ frames[i].to <= head
    /\ \A i, j \in DOMAIN frames : i < j => frames[i].to <= frames[j].from

\* Whatever the chunks, the frames returned are exactly the genuine frames that have
\* arrived completely, in the order of the stream: none is lost to the garbage and
\* the truncated candidates around it, or to the cap, and none is made up.
Arrived(f) == f.to <= fed
ExactlyTheSent ==
    ~extracting => /\ \A k \in DOMAIN sent : Arrived(sent[k]) <=> k \in DOMAIN frames
                   /\ \A k \in DOMAIN frames : k \in DOMAIN sent /\ frames[k] = sent[k]

\* What is asked of a stream: its frames fit into the buffer and follow each other,
\* and they are all that decodes in the stream as a whole, whatever lies between.
\* (Not so where the text of a frame looks like a frame.)
Frame(bytes, i) == [from |-> i - 1, to |-> TryCandidate(bytes, i).end]
Decodable(bytes) ==
    {i \in DOMAIN bytes : bytes[i] = "N" /\ TryCandidate(bytes, i).is = "frame"}
Framed(s) ==
    /\ {s.frames[k] : k \in DOMAIN s.frames} = {Frame(s.bytes, i) : i \in Decodable(s.bytes)}
    /\ \A k \in DOMAIN s.frames : s.frames[k].to - s.frames[k].from <= MaxBuffer
    /\ \A j, k \in DOMAIN s.frames : j < k => s.frames[j].to <= s.frames[k].from

\* The frames returned are the first of the genuine ones, all of them have arrived,
\* and none of the others has, or has lost a byte. (The invariant the theorem on
\* ExactlyTheSent rests on.)
ExactInv ==
    /\ \A k \in DOMAIN frames : k \in DOMAIN sent /\ frames[k] = sent[k] /\ Arrived(sent[k])
    /\ \A k \in DOMAIN sent \ DOMAIN frames :
            head <= sent[k].from /\ (~extracting => ~Arrived(sent[k]))

\* Every iteration of the loop but the last consumes bytes, so that feed() returns:
\* the parser does not look at a rejected or abandoned candidate again.
LoopAdvances == [][extracting /\ extracting' => head' > head]_vars
=======================================================================================
