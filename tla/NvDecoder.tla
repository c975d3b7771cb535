------------------------------ MODULE NvDecoder ------------------------------
(***************************************************************************)
(* Unmarshal of nvlist/decode.go: how the cursors of nvlistReader and      *)
(* nvPairReader move over the data, when decoding stops with an error, and *)
(* when it would panic.  The bytes are abstracted away: whatever is read   *)
(* from them (a size, a count, a type) is any value of its set, so one     *)
(* behaviour stands for all inputs that lead to the same decisions.  The   *)
(* recursion of readPairs is an explicit stack of frames.                  *)
(*                                                                         *)
(* A target is what reflection finds in the destination:                   *)
(*   "any"      map[string]interface{}, or an empty interface              *)
(*   "lists"    map whose values are structs or maps                       *)
(*   "scalars"  map with other values                                      *)
(*   "nilMap"   map that was never made                                    *)
(*   "struct"   struct                                                     *)
(*   "invalid"  anything else                                              *)
(***************************************************************************)
EXTENDS NvFormat, Sequences

CONSTANTS
  BufLen,      \* len(data)
  Sizes,       \* what a pair's Size field may hold (int32)
  NameSizes,   \* ... its Name_sz field (int16)
  Elems,       \* ... its Value_elem field (int32)
  Targets      \* destinations passed to Unmarshal

Kinds == {"any", "lists", "scalars", "nilMap", "struct", "invalid"}

ASSUME DecoderAssumption ==
  /\ BufLen \in Nat
  /\ Sizes \subseteq Int /\ NameSizes \subseteq Int /\ Elems \subseteq Int
  /\ Targets \subseteq Kinds

Types == {"unknown", "boolean", "int", "byte", "string", "booleanValue",
          "intArray", "byteArray", "stringArray", "booleanArray",
          "nvlist", "nvlistArray", "ignored"}   \* hrtime, double, undefined ones

VARIABLES
  cur,         \* nvlistReader.currentByte
  encoding,    \* nvlistReader.encoding
  pair,        \* nvPairReader: startByte, sizeBytes, currentByte
  elem, type,  \* Value_elem and Type of the pair
  strings,     \* strings of the pair still to be read
  stack,       \* calls of readPairs: target, lists still to come after this
               \* one in an nvlist array, whether it is in such an array
  pc,          \* "header", "list", "pair", "value", "strings", "done"
  outcome,     \* "none", "ok", "error", "panic"
  touched,     \* history: end of the bytes read through the pair's reader
  nesting      \* history: lists the data opened, with lists still to come

pairVars == <<pair, elem, type, strings, touched>>
vars == <<cur, encoding, pairVars, stack, pc, outcome, nesting>>

Frame == [target : Kinds, left : 0..MaxElems, array : BOOLEAN]

TypeOK ==
  /\ cur \in 0..BufLen
  /\ encoding \in {"native", "xdr"}
  /\ pair \in [start : 0..BufLen, size : 0..BufLen, cur : Nat]
  /\ elem \in 0..MaxElems /\ type \in Types
  /\ strings \in 0..MaxElems
  /\ stack \in Seq(Frame)
  /\ pc \in {"header", "list", "pair", "value", "strings", "done"}
  /\ outcome \in {"none", "ok", "error", "panic"}
  /\ touched \in Nat
  /\ nesting \in Seq(0..MaxElems)

Init ==
  /\ cur = 0 /\ encoding = "native"
  /\ pair = [start |-> 0, size |-> 0, cur |-> 0]
  /\ elem = 0 /\ type = "unknown" /\ strings = 0
  /\ \E t \in Targets : stack = <<[target |-> t, left |-> 0, array |-> FALSE]>>
  /\ pc = "header" /\ outcome = "none"
  /\ touched = 0 /\ nesting = <<0>>

Target == stack[Len(stack)].target
Pop(s) == SubSeq(s, 1, Len(s) - 1)

End(o) ==
  /\ pc' = "done"
  /\ outcome' = o

\* Decoding goes on with the next pair, or ends, as reflection allows.
Proceed(outcomes) ==
  \/ "ok" \in outcomes /\ pc' = "list" /\ UNCHANGED outcome
  \/ "panic" \in outcomes /\ End("panic")

\* Bytes up to end are read, then A happens; past the data Go panics.
Reading(end, A) ==
  /\ touched' = end
  /\ IF end > BufLen THEN End("panic") ELSE A

-----------------------------------------------------------------------------
(* readNvHeader, and the check of the target at the start of readPairs. *)

HeaderFails ==    \* too short, or unknown encoding or endianness
  /\ pc = "header"
  /\ End("error")
  /\ UNCHANGED <<cur, encoding, pairVars, stack, nesting>>

Header ==
  /\ pc = "header" /\ HeaderLen <= BufLen
  /\ cur' = HeaderLen
  /\ encoding' \in {"native", "xdr"}
  /\ IF Target = "invalid" THEN End("error") ELSE pc' = "list" /\ UNCHANGED outcome
  /\ UNCHANGED <<pairVars, stack, nesting>>

-----------------------------------------------------------------------------
(* One round of the loop in readPairs up to the end of the name. *)

SizeMissing ==    \* io.EOF, after what was left
  /\ pc = "list" /\ cur + 4 > BufLen
  /\ cur' = BufLen
  /\ End("error")
  /\ UNCHANGED <<encoding, pairVars, stack, nesting>>

\* Possible slip: the size is compared with the bytes that were left before it.
SizeInvalidLoose(size) == size < 0 \/ size - 4 > BufLen
SizeInvalid(size) == size < 0 \/ size + cur + 4 > BufLen

SizeRefused(size) ==
  /\ pc = "list" /\ cur + 4 <= BufLen
  /\ SizeInvalid(size)
  /\ cur' = cur + 4
  /\ End("error")
  /\ UNCHANGED <<encoding, pairVars, stack, nesting>>

\* Possible slip: the list's reader stays where the pair starts.
NextPairStays(size) == cur
\* Possible slip: only the size field is skipped.
NextPairTooEarly(size) == cur + 4
NextPair(size) == cur + size + (IF encoding = "xdr" THEN 4 ELSE 0)

PairStarts(size) ==
  /\ pc = "list" /\ cur + 4 <= BufLen
  /\ size # 0 /\ ~SizeInvalid(size)
  /\ pair' = [start |-> cur, size |-> size, cur |-> cur + 4]
  /\ cur' = NextPair(size)
  /\ touched' = 0
  /\ pc' = "pair"
  /\ UNCHANGED <<encoding, elem, type, strings, stack, outcome, nesting>>

\* Storing the finished list in the map of the frame below.
Stores(target, array) ==
  CASE target = "any" -> {"ok"}
    [] target = "lists" -> IF array THEN {"panic"} ELSE {"ok"}
    [] target = "scalars" -> {"ok", "panic"}
    [] target = "nilMap" -> {"panic"}
    [] OTHER -> {"ok"}

\* The list a zero size ends: the next one of the array, or the frame below.
Closed(s) ==
  IF s[Len(s)] > 0 THEN [s EXCEPT ![Len(s)] = @ - 1] ELSE Pop(s)

ListEnds ==
  LET top == stack[Len(stack)]
  IN  /\ pc = "list" /\ cur + 4 <= BufLen
      /\ 0 \in Sizes
      /\ cur' = cur + 4
      /\ nesting' = Closed(nesting)
      /\ IF top.left > 0
         THEN /\ stack' = [stack EXCEPT ![Len(stack)].left = @ - 1]
              /\ UNCHANGED <<pc, outcome>>
         ELSE /\ stack' = Pop(stack)
              /\ IF Len(stack) = 1
                 THEN End("ok")
                 ELSE Proceed(Stores(stack[Len(stack) - 1].target, top.array))
      /\ UNCHANGED <<encoding, pairVars>>

PairEnd == pair.start + pair.size

\* The four header fields and the name are read through the pair's reader.
NameFits(n) == n > 0 /\ PairHeaderLen + n <= pair.size

Align(n) == AlignTo(n, IF encoding = "native" THEN 8 ELSE 4)

PairRefused(n, e) ==    \* data too short for header or name, or bad counts
  /\ pc = "pair"
  /\ ~(NameFits(n) /\ e \in 0..MaxElems)
  /\ End("error")
  /\ UNCHANGED <<cur, encoding, pairVars, stack, nesting>>

PairNamed(n, e) ==
  /\ pc = "pair"
  /\ NameFits(n) /\ e \in 0..MaxElems
  /\ elem' = e
  /\ type' \in Types
  /\ pair' = [pair EXCEPT !.cur = pair.start + Align(PairHeaderLen + n)]
  /\ Reading(pair.start + PairHeaderLen + n, pc' = "value" /\ UNCHANGED outcome)
  /\ UNCHANGED <<cur, encoding, strings, stack, nesting>>

-----------------------------------------------------------------------------
(* The value, by type. *)

\* setPrimitive: assigning a value of another type panics in reflect.
Sets(target) ==
  CASE target = "any" -> {"ok"}
    [] target \in {"scalars", "struct"} -> {"ok", "panic"}
    [] OTHER -> {"panic"}

ValueIgnored ==
  /\ pc = "value" /\ type = "ignored"
  /\ pc' = "list"
  /\ UNCHANGED <<cur, encoding, pairVars, stack, outcome, nesting>>

\* Lengths of the values that are read as a whole.
FixedLens ==
  CASE type = "boolean" -> {0}
    [] type = "int" -> Widths
    [] type = "booleanValue" -> {4}
    [] type = "intArray" -> {w * elem : w \in Widths}
    [] type = "byteArray" -> {elem}
    [] type = "booleanArray" -> {4 * elem}
    [] OTHER -> {}

\* Possible slip: the place is compared with the end, not the place after it.
FixedFitsLoose(n) == pair.cur <= PairEnd
\* binary.Read of nothing succeeds anywhere, readN(0) only within the pair.
FixedFits(n) == pair.cur + n <= PairEnd \/ (n = 0 /\ type # "byteArray")

ValueFixed ==
  /\ pc = "value"
  /\ \E n \in FixedLens :
       /\ FixedFits(n)
       /\ IF n = 0
          THEN Proceed(Sets(Target)) /\ UNCHANGED touched
          ELSE Reading(pair.cur + n, Proceed(Sets(Target)))
       /\ pair' = [pair EXCEPT !.cur = @ + n]
  /\ UNCHANGED <<cur, encoding, elem, type, strings, stack, nesting>>

ValueFails ==     \* unknown type, too short, or a boolean neither 0 nor 1
  /\ pc = "value"
  /\ \/ type \in {"unknown", "booleanValue"}
     \/ type = "booleanArray" /\ elem > 0
     \/ \E n \in FixedLens : ~FixedFits(n)
     \/ type = "byte" /\ pair.cur > PairEnd
  /\ End("error")
  /\ UNCHANGED <<cur, encoding, pairVars, stack, nesting>>

ValueByte ==      \* ReadByte; the bound is <=
  /\ pc = "value" /\ type = "byte" /\ pair.cur <= PairEnd
  /\ Reading(pair.cur + 1, Proceed(Sets(Target)))
  /\ pair' = [pair EXCEPT !.cur = @ + 1]
  /\ UNCHANGED <<cur, encoding, elem, type, strings, stack, nesting>>

StringsStart ==   \* an array starts with 8-byte pointers
  /\ pc = "value" /\ type \in {"string", "stringArray"}
  /\ strings' = IF type = "string" THEN 1 ELSE elem
  /\ pair' = [pair EXCEPT !.cur = @ + (IF type = "string" THEN 0 ELSE 8 * elem)]
  /\ pc' = "strings"
  /\ UNCHANGED <<cur, encoding, elem, type, stack, outcome, touched, nesting>>

StringRead ==     \* ReadBytes(0): the terminator is at j; the bound is <=
  /\ pc = "strings" /\ strings > 0
  /\ \E j \in pair.cur..PairEnd :
       /\ Reading(j + 1, UNCHANGED <<pc, outcome>>)
       /\ pair' = [pair EXCEPT !.cur = j + 1]
  /\ strings' = strings - 1
  /\ UNCHANGED <<cur, encoding, elem, type, stack, nesting>>

StringMissing ==
  /\ pc = "strings" /\ strings > 0
  /\ IF pair.cur <= PairEnd
     THEN Reading(PairEnd + 1, End("error"))
     ELSE End("error") /\ UNCHANGED touched
  /\ UNCHANGED <<cur, encoding, pair, elem, type, strings, stack, nesting>>

StringsDone ==
  /\ pc = "strings" /\ strings = 0
  /\ Proceed(Sets(Target))
  /\ UNCHANGED <<cur, encoding, pairVars, stack, nesting>>

-----------------------------------------------------------------------------
(* Nested lists: they follow the pair, and the list's own reader reads them. *)

Children(target) ==
  CASE target = "any" -> {"any"}
    [] target \in {"lists", "nilMap"} -> {"any", "lists", "scalars", "struct"}
    [] target = "struct" -> Kinds
    [] OTHER -> {}

Push(target, left, array) ==
  stack' = Append(stack, [target |-> target, left |-> left, array |-> array])

OpenList ==
  /\ pc = "value" /\ type = "nvlist"
  /\ \E k \in Children(Target) :
       /\ Push(k, 0, FALSE)
       /\ IF k = "invalid" THEN End("error") ELSE pc' = "list" /\ UNCHANGED outcome
  /\ nesting' = Append(nesting, 0)
  /\ UNCHANGED <<cur, encoding, pairVars>>

OpenUnknown ==    \* the struct has no such field: nothing is done
  /\ pc = "value" /\ type = "nvlist" /\ Target = "struct"
  /\ pc' = "list"
  /\ nesting' = Append(nesting, 0)
  /\ UNCHANGED <<cur, encoding, pairVars, stack, outcome>>

OpenHybrid ==     \* "Cannot currently handle complex hybrid types"
  /\ pc = "value" /\ type = "nvlist" /\ Target \in {"scalars", "nilMap"}
  /\ End("panic")
  /\ UNCHANGED <<cur, encoding, pairVars, stack, nesting>>

\* Possible slip: the list being read is counted as still to come.
LeftInArrayOff(e) == e
LeftInArray(e) == e - 1

OpenArray ==
  /\ pc = "value" /\ type = "nvlistArray" /\ Target # "struct"
  /\ IF elem = 0
     THEN Proceed(Stores(Target, TRUE)) /\ UNCHANGED <<stack, nesting>>
     ELSE /\ Push("any", LeftInArray(elem), TRUE)
          /\ nesting' = Append(nesting, elem - 1)
          /\ pc' = "list" /\ UNCHANGED outcome
  /\ UNCHANGED <<cur, encoding, pairVars>>

ArrayIntoStruct ==
  /\ pc = "value" /\ type = "nvlistArray" /\ Target = "struct"
  /\ End("panic")
  /\ UNCHANGED <<cur, encoding, pairVars, stack, nesting>>

-----------------------------------------------------------------------------
Next ==
  \/ HeaderFails \/ Header \/ SizeMissing \/ ListEnds
  \/ \E size \in Sizes : SizeRefused(size) \/ PairStarts(size)
  \/ \E n \in NameSizes, e \in Elems : PairRefused(n, e) \/ PairNamed(n, e)
  \/ ValueIgnored \/ ValueFixed \/ ValueFails \/ ValueByte
  \/ StringsStart \/ StringRead \/ StringMissing \/ StringsDone
  \/ OpenList \/ OpenUnknown \/ OpenHybrid \/ OpenArray \/ ArrayIntoStruct

Spec == Init /\ [][Next]_vars

\* Unmarshal is a sequential function: it runs on.
FairSpec == Spec /\ WF_vars(Next)

-----------------------------------------------------------------------------
(* No data whatever makes Unmarshal panic when it decodes into             *)
(* map[string]interface{}: every index is within the data, although the    *)
(* readers of a byte and of a string may read one byte past their pair     *)
(* (decode.go:85 and 95): the size check counts the size field twice and   *)
(* so keeps four bytes behind every pair.                                  *)
NoPanic == Targets = {"any"} => outcome # "panic"

(* The recursion of readPairs is bounded by the length of the data: every  *)
(* nested call has consumed a pair of at least 17 bytes.                   *)
DepthBounded == HeaderLen + 17 * (Len(stack) - 1) <= cur \/ pc \in {"header", "done"}

(* readPairs closes the lists the data closes: after every pair its frames *)
(* are the lists the data has opened, and no pair is taken for one of an   *)
(* outer or inner list.                                                    *)
NestingKept ==
  pc = "list" => nesting = [i \in 1..Len(stack) |-> stack[i].left]

(* Reading a pair stays within the pair but for one byte, the one behind   *)
(* it, which the bounds of ReadByte and ReadBytes (decode.go:85 and 95)    *)
(* let through.                                                            *)
PairConfined == touched <= PairEnd + 1

(* Unmarshal returns (or panics) on all data.                              *)
Terminates == <>(pc = "done")
=============================================================================
