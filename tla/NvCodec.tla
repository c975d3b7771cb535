------------------------------- MODULE NvCodec -------------------------------
(***************************************************************************)
(* Unmarshal (nvlist/decode.go) of what Marshal (nvlist/encoder.go) wrote, *)
(* into map[string]interface{}, as TestMarshal does it.  The encoder is    *)
(* NvEncoder; when it has returned data, the reader below follows that     *)
(* data by the positions, sizes and counts found in it.  NvDecoder has the *)
(* decoder on arbitrary data.                                              *)
(***************************************************************************)
EXTENDS NvEncoder

VARIABLES
  cur,      \* nvlistReader.currentByte
  nesting,  \* calls of readPairs: lists still to come in the array
  got,      \* history: the pairs and ends met, and what became of them
  verdict   \* of Unmarshal: "none", "ok", "error"

readVars == <<cur, nesting, got, verdict>>

CodecInit == Init /\ cur = HeaderLen /\ nesting = <<0>> /\ got = <<>> /\ verdict = "none"

Reading == pc = "done" /\ outcome = "ok" /\ verdict = "none"

\* The next four bytes are zero.
AtEnd == \E z \in zeros : z.pos <= cur /\ cur + TrailerLen <= z.pos + z.size
AtPair(p) == p.pos = cur /\ ~AtEnd

\* Possible slip: the value is looked for right behind the name.
ReadAtUnaligned(p) == PairHeaderLen + p.name_sz
ReadAt(p) == AlignTo(PairHeaderLen + p.name_sz, 8)

\* Bytes that reading the value takes, by type.
ReadLen(p) ==
  LET n == p.item.elem
  IN  CASE p.item.type \in {"boolean", "nvlist", "nvlistArray", "double"} -> 0
        [] p.item.type \in {"int", "byte"} -> p.width
        [] p.item.type \in {"intArray", "byteArray"} -> n * p.width
        [] p.item.type = "booleanArray" -> 4 * n
        [] p.item.type = "string" -> Written(p.item.str)
        [] p.item.type = "stringArray" -> 8 * n + n * Written(p.item.str)

\* A string needs a null byte in its pair or right behind it.
Terminated(p) ==
  \/ p.item.str.nul = 0 \/ p.at + p.used < p.size
  \/ \E z \in zeros : z.pos = p.pos + p.size

\* The size check counts the four bytes of the size field twice.
Accepts(p) ==
  /\ p.size + cur + TrailerLen <= len
  /\ PairHeaderLen + p.name_sz <= p.size
  /\ p.item.elem <= MaxElems
  /\ ReadAt(p) + ReadLen(p) <= p.size
  /\ Terminated(p)

\* A float64 is passed over.  A name or string with a null byte inside comes
\* back as another one, and a value that lies elsewhere as another value.
SkippedItem == Item(NoStr, "skipped", 0, NoStr)
Another(s) == IF s.nul = 0 THEN s ELSE [len |-> s.nul - 1, nul |-> 0]
Decoded(p) ==
  IF p.item.type = "double" THEN SkippedItem
  ELSE [p.item EXCEPT !.name = Another(@), !.str = Another(@),
                      !.elem = IF ReadAt(p) = p.at THEN @ ELSE -1]

ReadPair ==
  /\ Reading
  /\ \E i \in DOMAIN pairs :
       LET p == pairs[i]
       IN  /\ AtPair(p)
           /\ IF Accepts(p)
              THEN /\ got' = Append(got, Decoded(p))
                   /\ nesting' = IF p.item.type \in {"nvlist", "nvlistArray"} /\ p.item.elem > 0
                                 THEN Append(nesting, p.item.elem - 1) ELSE nesting
                   /\ cur' = cur + p.size
                   /\ UNCHANGED verdict
              ELSE verdict' = "error" /\ UNCHANGED <<cur, nesting, got>>
  /\ UNCHANGED vars

\* Possible slip: after an array's first list its frame is left.
ClosedEarly(s) == SubSeq(s, 1, Len(s) - 1)
Closed(s) ==
  IF s[Len(s)] > 0 THEN [s EXCEPT ![Len(s)] = @ - 1] ELSE SubSeq(s, 1, Len(s) - 1)

ReadEnd ==
  /\ Reading /\ AtEnd
  /\ cur' = cur + TrailerLen
  /\ got' = Append(got, EndItem)
  /\ nesting' = Closed(nesting)
  /\ verdict' = IF nesting' = <<>> THEN "ok" ELSE "none"
  /\ UNCHANGED vars

\* The data has ended, or what lies here was never meant as a pair.
ReadFails ==
  /\ Reading /\ ~AtEnd /\ \A i \in DOMAIN pairs : ~AtPair(pairs[i])
  /\ verdict' = "error"
  /\ UNCHANGED <<vars, cur, nesting, got>>

CodecNext == (Next /\ UNCHANGED readVars) \/ ReadPair \/ ReadEnd \/ ReadFails

CodecSpec == CodecInit /\ [][CodecNext]_<<vars, readVars>>

-----------------------------------------------------------------------------
\* What Marshal encodes as it is and Unmarshal takes: no error was dropped, no
\* nil pointer left without end marker, no null byte cuts a name or string
\* short, and no array has more elements than Unmarshal allows (Marshal allows
\* many more).
Faithful ==
  /\ refused = "no"
  /\ \A i \in DOMAIN given :
       /\ given[i].type # "nil" /\ given[i].name.nul = 0 /\ given[i].str.nul = 0
       /\ given[i].elem <= MaxElems

AsRead(item) == IF item.type = "double" THEN SkippedItem ELSE item

(* What Marshal wrote, Unmarshal reads: the same names and values in the   *)
(* same lists, to the last byte; but it skips float64.  All positions,     *)
(* sizes, counts and end markers of the encoder are those the decoder goes *)
(* by.                                                                     *)
RoundTrip ==
  Faithful =>
    /\ verdict # "error"
    /\ verdict = "ok" => cur = len /\ got = [i \in DOMAIN given |-> AsRead(given[i])]
=============================================================================
