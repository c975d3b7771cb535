--------------------------- MODULE NvDecoderProofs ---------------------------
(***************************************************************************)
(* Proofs about NvDecoder, for data of every length and every content.     *)
(***************************************************************************)
EXTENDS NvDecoder, SequenceTheorems, TLAPS

InPair == pc \in {"pair", "value", "strings"}

(* The readers: a pair being read ends at least four bytes before the data *)
(* does, which is what makes the inclusive bounds of ReadByte and          *)
(* ReadBytes harmless.                                                     *)
ReaderInv ==
  /\ cur \in Nat /\ cur <= BufLen
  /\ pair \in [start : Nat, size : Nat, cur : Nat]
  /\ elem \in 0..MaxElems
  /\ InPair => PairEnd + 4 <= BufLen

(* The stack: a frame per list, each of which cost a pair of 17 bytes.     *)
StackInv ==
  /\ stack \in Seq(Frame)
  /\ pc \in {"header", "list", "done"} \/ InPair
  /\ pc # "done" => Len(stack) > 0
  /\ pc = "header" => Len(stack) = 1
  /\ pc = "list" => HeaderLen + 17 * (Len(stack) - 1) <= cur
  /\ InPair => HeaderLen + 17 * (Len(stack) - 1) <= pair.start /\ PairEnd <= cur
  /\ pc \in {"value", "strings"} => pair.size >= 17

(* Decoding into map[string]interface{} only ever meets such maps, which   *)
(* take everything.                                                        *)
AnyInv ==
  Targets = {"any"} =>
    /\ \A i \in 1..Len(stack) : stack[i].target = "any"
    /\ outcome # "panic"

IInv == ReaderInv /\ StackInv /\ AnyInv

-----------------------------------------------------------------------------
LEMMA MaxElemsNat == MaxElems \in Nat
BY DEF MaxElems

LEMMA AlignGrows ==
  ASSUME NEW n \in Nat
  PROVE  Align(n) \in Nat /\ Align(n) >= n
BY DEF Align, AlignTo

LEMMA FixedLensNat ==
  ASSUME elem \in 0..MaxElems
  PROVE  FixedLens \subseteq Nat
<1>0. elem \in Nat
  BY MaxElemsNat
<1>1. 1 * elem \in Nat /\ 2 * elem \in Nat /\ 4 * elem \in Nat /\ 8 * elem \in Nat
  BY <1>0
<1>2. ASSUME NEW w \in Widths PROVE w * elem \in Nat
  BY <1>1 DEF Widths
<1>3. CASE type = "intArray"
  <2>1. FixedLens = {w * elem : w \in Widths}
    BY <1>3 DEF FixedLens
  <2> QED BY <1>2, <2>1
<1>4. CASE type = "int"
  BY <1>4 DEF FixedLens, Widths
<1>5. CASE type \in {"boolean", "booleanValue", "byteArray", "booleanArray"}
  BY <1>0, <1>1, <1>5 DEF FixedLens
<1>6. CASE type \notin {"intArray", "int", "boolean", "booleanValue", "byteArray", "booleanArray"}
  <2>1. FixedLens = {}
    BY <1>6 DEF FixedLens
  <2> QED BY <2>1
<1> QED BY <1>3, <1>4, <1>5, <1>6

LEMMA InitIInv == Init => IInv
<1> SUFFICES ASSUME Init PROVE IInv
  OBVIOUS
<1>1. PICK t \in Targets : stack = <<[target |-> t, left |-> 0, array |-> FALSE]>>
  BY DEF Init
<1>2. t \in Kinds /\ 0 \in 0..MaxElems
  BY DecoderAssumption, MaxElemsNat
<1>3. stack \in Seq(Frame) /\ Len(stack) = 1 /\ stack[1].target = t /\ stack[1].left = 0
  BY <1>1, <1>2 DEF Frame
<1>5. ReaderInv
  BY <1>2, DecoderAssumption DEF Init, ReaderInv, InPair
<1>6. StackInv
  BY <1>3 DEF Init, StackInv, InPair
<1>7. AnyInv
  BY <1>3 DEF Init, AnyInv
<1> QED BY <1>5, <1>6, <1>7 DEF IInv

-----------------------------------------------------------------------------
(* The readers' invariant is kept by every step.                           *)
LEMMA ReaderStep == IInv /\ [Next]_vars => ReaderInv'
<1> SUFFICES ASSUME IInv, [Next]_vars PROVE ReaderInv'
  OBVIOUS
<1> USE DecoderAssumption DEF ReaderInv, InPair, PairEnd
<1>i. ReaderInv
  BY DEF IInv
<1>1. CASE HeaderFails \/ ValueFails \/ StringMissing \/ OpenHybrid \/ ArrayIntoStruct
  BY <1>i, <1>1 DEF HeaderFails, ValueFails, StringMissing, OpenHybrid, ArrayIntoStruct,
     End, Reading, pairVars
<1>2. CASE Header
  BY <1>i, <1>2 DEF Header, End, HeaderLen, pairVars
<1>3. CASE SizeMissing
  BY <1>i, <1>3 DEF SizeMissing, End, pairVars
<1>4. CASE ListEnds
  BY <1>i, <1>4 DEF ListEnds, Proceed, End, pairVars
<1>5. ASSUME NEW size \in Sizes, SizeRefused(size) PROVE ReaderInv'
  BY <1>i, <1>5 DEF SizeRefused, End, pairVars
<1>6. ASSUME NEW size \in Sizes, PairStarts(size) PROVE ReaderInv'
  <2>1. size \in Nat /\ size + cur + 4 <= BufLen
    BY <1>i, <1>6 DEF PairStarts, SizeInvalid
  <2>2. cur' \in Nat /\ cur' <= BufLen
    BY <1>i, <1>6, <2>1 DEF PairStarts, NextPair
  <2> QED BY <1>i, <1>6, <2>1, <2>2 DEF PairStarts
<1>7. ASSUME NEW n \in NameSizes, NEW e \in Elems, PairRefused(n, e) PROVE ReaderInv'
  BY <1>i, <1>7 DEF PairRefused, End, pairVars
<1>8. ASSUME NEW n \in NameSizes, NEW e \in Elems, PairNamed(n, e) PROVE ReaderInv'
  <2>1. Align(PairHeaderLen + n) \in Nat
    BY <1>8, AlignGrows DEF PairNamed, NameFits, PairHeaderLen
  <2> QED BY <1>i, <1>8, <2>1 DEF PairNamed, Reading, End
<1>9. CASE ValueIgnored \/ StringsDone \/ OpenList \/ OpenUnknown \/ OpenArray
  BY <1>i, <1>9 DEF ValueIgnored, StringsDone, OpenList, OpenUnknown, OpenArray, Proceed,
     End, pairVars
<1>10. CASE ValueFixed
  <2>1. PICK n \in FixedLens : pair' = [pair EXCEPT !.cur = @ + n]
    BY <1>10 DEF ValueFixed
  <2>2. n \in Nat
    BY <1>i, <2>1, FixedLensNat
  <2> QED BY <1>i, <1>10, <2>1, <2>2 DEF ValueFixed
<1>11. CASE ValueByte
  BY <1>i, <1>11 DEF ValueByte
<1>12. CASE StringsStart
  <2>1. pair.cur + (IF type = "string" THEN 0 ELSE 8 * elem) \in Nat
    <3>1. elem \in Nat
      BY <1>i, MaxElemsNat
    <3>2. 8 * elem \in Nat /\ pair.cur \in Nat
      BY <1>i, <3>1
    <3> QED BY <3>2
  <2> QED BY <1>i, <1>12, <2>1 DEF StringsStart
<1>13. CASE StringRead
  BY <1>i, <1>13 DEF StringRead
<1>14. CASE UNCHANGED vars
  BY <1>i, <1>14 DEF vars, pairVars
<1> QED
  BY <1>1, <1>2, <1>3, <1>4, <1>5, <1>6, <1>7, <1>8, <1>9, <1>10, <1>11, <1>12, <1>13,
     <1>14 DEF Next

-----------------------------------------------------------------------------
(* What the stack looks like after a push and a pop.                       *)
LEMMA Pushed ==
  ASSUME stack \in Seq(Frame), NEW f \in Frame, stack' = Append(stack, f)
  PROVE  /\ stack' \in Seq(Frame)
         /\ Len(stack') = Len(stack) + 1
         /\ \A i \in 1..Len(stack) : stack'[i] = stack[i]
         /\ stack'[Len(stack) + 1] = f
BY AppendProperties

LEMMA Popped ==
  ASSUME NEW S, NEW s \in Seq(S), Len(s) > 0
  PROVE  /\ Pop(s) \in Seq(S)
         /\ Len(Pop(s)) = Len(s) - 1
         /\ \A i \in 1..(Len(s) - 1) : Pop(s)[i] = s[i]
<1>1. Len(s) \in Nat /\ \A i \in 1..Len(s) : s[i] \in S
  BY ElementOfSeq, LenProperties
<1> DEFINE n == Len(s) - 1
<1>2. n \in Nat /\ \A i \in 1..n : s[i] \in S
  BY <1>1
<1>3. /\ SubSeq(s, 1, n) \in Seq(S)
      /\ Len(SubSeq(s, 1, n)) = n
      /\ \A i \in 1..n : SubSeq(s, 1, n)[i] = s[i]
  <2> HIDE DEF n
  <2> QED BY <1>2, SubSeqProperties
<1> QED BY <1>3 DEF Pop

(* The next list of an array: only the count in the top frame changes.     *)
LEMMA NextInArray ==
  ASSUME stack \in Seq(Frame), Len(stack) > 0, stack[Len(stack)].left > 0,
         stack' = [stack EXCEPT ![Len(stack)].left = @ - 1]
  PROVE  /\ stack' \in Seq(Frame)
         /\ Len(stack') = Len(stack)
         /\ \A i \in 1..Len(stack) : stack'[i].target = stack[i].target
         /\ \A i \in 1..(Len(stack) - 1) : stack'[i] = stack[i]
         /\ stack'[Len(stack)].left = stack[Len(stack)].left - 1
<1> DEFINE n == Len(stack)
           g == [stack[n] EXCEPT !.left = @ - 1]
<1>1. n \in 1..Len(stack)
  BY LenProperties
<1>2. stack[n] \in Frame
  BY <1>1, ElementOfSeq
<1>3. g \in Frame /\ g.target = stack[n].target /\ g.left = stack[n].left - 1
  BY <1>2, MaxElemsNat DEF Frame
<1>4. stack' = [stack EXCEPT ![n] = g]
  OBVIOUS
<1> HIDE DEF n, g
<1>5. stack' \in Seq(Frame) /\ Len(stack') = Len(stack)
  BY <1>1, <1>3, <1>4, ExceptSeq
<1>6. \A i \in 1..Len(stack) : stack'[i] = IF i = n THEN g ELSE stack[i]
  BY <1>1, <1>3, <1>4, ExceptSeq
<1> QED BY <1>1, <1>3, <1>5, <1>6 DEF n

LEMMA PairNamedSize ==
  ASSUME NEW n \in NameSizes, NEW e \in Elems, PairNamed(n, e), ReaderInv
  PROVE  pair.size >= 17
BY DecoderAssumption DEF PairNamed, NameFits, PairHeaderLen, ReaderInv

(* Every step keeps the stack's invariant.                                 *)
LEMMA StackStep == IInv /\ [Next]_vars => StackInv'
<1> SUFFICES ASSUME IInv, [Next]_vars PROVE StackInv'
  OBVIOUS
<1> USE DecoderAssumption DEF StackInv, InPair, PairEnd
<1>i. ReaderInv /\ StackInv
  BY DEF IInv
<1>l. Len(stack) \in Nat
  BY <1>i, LenProperties
<1>1. CASE HeaderFails \/ ValueFails \/ OpenHybrid \/ ArrayIntoStruct
  BY <1>i, <1>1 DEF HeaderFails, ValueFails, OpenHybrid, ArrayIntoStruct, End, pairVars
<1>2. CASE Header
  <2>1. Len(stack) = 1 /\ stack' = stack /\ cur' = HeaderLen /\ pc' \in {"list", "done"}
    BY <1>i, <1>2 DEF Header, End
  <2>2. HeaderLen + 17 * (Len(stack') - 1) <= cur'
    <3>1. Len(stack') = 1 /\ cur' = 12 /\ HeaderLen = 12
      BY <2>1 DEF HeaderLen
    <3>2. 12 + 17 * (1 - 1) <= 12
      OBVIOUS
    <3> QED BY <3>1, <3>2
  <2> QED BY <1>i, <2>1, <2>2
<1>3. CASE SizeMissing
  BY <1>i, <1>3 DEF SizeMissing, End, pairVars
<1>4. CASE ListEnds
  <2>1. CASE stack[Len(stack)].left > 0
    <3>1. stack' \in Seq(Frame) /\ Len(stack') = Len(stack)
      BY <1>i, <1>4, <2>1, NextInArray DEF ListEnds
    <3> QED BY <1>i, <1>l, <1>4, <2>1, <3>1 DEF ListEnds, ReaderInv, HeaderLen
  <2>2. CASE ~(stack[Len(stack)].left > 0)
    <3>1. stack' = Pop(stack)
      BY <1>4, <2>2 DEF ListEnds
    <3>2. stack' \in Seq(Frame) /\ Len(stack') = Len(stack) - 1
      BY <1>i, <1>4, <3>1, Popped DEF ListEnds
    <3>3. cur' = cur + 4 /\ HeaderLen + 17 * (Len(stack) - 1) <= cur
      BY <1>i, <1>4 DEF ListEnds
    <3>4. pc' = "done" \/ (pc' = "list" /\ Len(stack) # 1)
      BY <1>4, <2>2 DEF ListEnds, Proceed, End
    <3> QED BY <1>i, <1>l, <1>4, <3>2, <3>3, <3>4 DEF ListEnds, ReaderInv, HeaderLen
  <2> QED BY <2>1, <2>2
<1>5. ASSUME NEW size \in Sizes, SizeRefused(size) PROVE StackInv'
  BY <1>i, <1>5 DEF SizeRefused, End, pairVars
<1>6. ASSUME NEW size \in Sizes, PairStarts(size) PROVE StackInv'
  <2>1. size \in Nat /\ cur' >= cur + size
    BY <1>i, <1>6 DEF PairStarts, SizeInvalid, NextPair, ReaderInv
  <2> QED BY <1>i, <1>6, <2>1 DEF PairStarts, ReaderInv
<1>7. ASSUME NEW n \in NameSizes, NEW e \in Elems, PairRefused(n, e) PROVE StackInv'
  BY <1>i, <1>7 DEF PairRefused, End, pairVars
<1>8. ASSUME NEW n \in NameSizes, NEW e \in Elems, PairNamed(n, e) PROVE StackInv'
  <2>1. pair.size >= 17
    BY <1>i, <1>8, PairNamedSize
  <2>2. pair'.start = pair.start /\ pair'.size = pair.size
    BY <1>i, <1>8 DEF PairNamed, ReaderInv
  <2> QED BY <1>i, <1>8, <2>1, <2>2 DEF PairNamed, Reading, End
<1>n. pc = "value" \/ pc = "strings" => HeaderLen + 17 * Len(stack) <= cur
  BY <1>i, <1>l DEF ReaderInv, HeaderLen
<1>s. ASSUME stack' = stack, cur' = cur, pc' \in {"list", "done"},
             pc = "value" \/ pc = "strings"
      PROVE  StackInv'
  <2>1. HeaderLen + 17 * (Len(stack) - 1) <= cur
    BY <1>i, <1>l, <1>n, <1>s DEF ReaderInv, HeaderLen
  <2>2. stack \in Seq(Frame) /\ Len(stack) > 0
    BY <1>i, <1>s
  <2> QED BY <1>s, <2>1, <2>2
<1>9. CASE ValueIgnored \/ StringsDone \/ OpenUnknown
  <2>1. stack' = stack /\ cur' = cur /\ pc' \in {"list", "done"}
    BY <1>9 DEF ValueIgnored, StringsDone, OpenUnknown, Proceed, End
  <2>2. pc = "value" \/ pc = "strings"
    BY <1>9 DEF ValueIgnored, StringsDone, OpenUnknown
  <2> QED BY <1>s, <2>1, <2>2
<1>10. CASE ValueFixed \/ ValueByte
  <2>1. stack' = stack /\ cur' = cur /\ pc' \in {"list", "done"}
    BY <1>10 DEF ValueFixed, ValueByte, Reading, Proceed, End
  <2>2. pc = "value"
    BY <1>10 DEF ValueFixed, ValueByte
  <2> QED BY <1>s, <2>1, <2>2
<1>11. CASE StringsStart \/ StringRead \/ StringMissing
  <2>1. /\ stack' = stack /\ cur' = cur /\ pc' \in {"strings", "done"}
        /\ pc \in {"value", "strings"}
    BY <1>11 DEF StringsStart, StringRead, StringMissing, Reading, End
  <2>2. pair'.start = pair.start /\ pair'.size = pair.size
    BY <1>i, <1>11 DEF StringsStart, StringRead, StringMissing, ReaderInv
  <2> QED BY <1>i, <2>1, <2>2
<1>12. CASE OpenList
  <2>1. PICK k \in Kinds : Push(k, 0, FALSE)
    BY <1>12 DEF OpenList, Children, Kinds
  <2>2. stack' \in Seq(Frame) /\ Len(stack') = Len(stack) + 1
    BY <1>i, <2>1, MaxElemsNat, Pushed DEF Push, Frame
  <2>3. cur' = cur /\ pc' \in {"list", "done"} /\ pc = "value"
    BY <1>12 DEF OpenList, End
  <2> QED BY <1>i, <1>l, <1>n, <2>2, <2>3 DEF ReaderInv, HeaderLen
<1>13. CASE OpenArray
  <2>1. cur' = cur /\ pc' \in {"list", "done"} /\ pc = "value"
    BY <1>13 DEF OpenArray, Proceed, End
  <2>2. CASE elem = 0
    BY <1>s, <1>13, <2>1, <2>2 DEF OpenArray
  <2>3. CASE elem # 0
    <3>1. elem - 1 \in 0..MaxElems /\ "any" \in Kinds
      BY <1>i, <2>3, MaxElemsNat DEF ReaderInv, Kinds
    <3>2. stack' \in Seq(Frame) /\ Len(stack') = Len(stack) + 1
      BY <1>i, <1>13, <2>3, <3>1, Pushed DEF OpenArray, LeftInArray, Push, Frame
    <3> QED BY <1>i, <1>l, <1>n, <2>1, <3>2 DEF ReaderInv, HeaderLen
  <2> QED BY <2>2, <2>3
<1>14. CASE UNCHANGED vars
  BY <1>i, <1>14 DEF vars, pairVars
<1> QED
  BY <1>1, <1>2, <1>3, <1>4, <1>5, <1>6, <1>7, <1>8, <1>9, <1>10, <1>11, <1>12, <1>13,
     <1>14 DEF Next

-----------------------------------------------------------------------------
(* Closing a list in the history nesting, element by element.              *)
LEMMA ClosedElements ==
  ASSUME NEW s \in Seq(0..MaxElems), Len(s) > 0
  PROVE  /\ Closed(s) \in Seq(0..MaxElems)
         /\ s[Len(s)] > 0 =>
              /\ Len(Closed(s)) = Len(s)
              /\ \A i \in 1..Len(s) : Closed(s)[i] = IF i = Len(s) THEN s[i] - 1 ELSE s[i]
         /\ ~(s[Len(s)] > 0) => Closed(s) = Pop(s)
<1> DEFINE n == Len(s)
<1>0. n \in 1..Len(s)
  BY LenProperties
<1>1. n \in 1..Len(s) /\ s[n] \in 0..MaxElems
  BY <1>0, ElementOfSeq
<1>2. CASE s[n] > 0
  <2>1. s[n] - 1 \in 0..MaxElems
    BY <1>1, <1>2, MaxElemsNat
  <2>2. Closed(s) = [s EXCEPT ![n] = s[n] - 1]
    BY <1>2 DEF Closed
  <2> HIDE DEF n
  <2>3. /\ Closed(s) \in Seq(0..MaxElems)
        /\ Len(Closed(s)) = Len(s)
        /\ \A i \in 1..Len(s) : Closed(s)[i] = IF i = n THEN s[n] - 1 ELSE s[i]
    BY <1>1, <2>1, <2>2, ExceptSeq
  <2> QED BY <1>2, <2>3 DEF n
<1>3. CASE ~(s[n] > 0)
  <2>1. Closed(s) = Pop(s)
    BY <1>3 DEF Closed
  <2> QED BY <1>3, <2>1, Popped
<1> QED BY <1>2, <1>3

(* Decoding into map[string]interface{}: every step keeps AnyInv.          *)
LEMMA AnyStep == IInv /\ [Next]_vars => AnyInv'
<1> DEFINE Goal == (\A i \in 1..Len(stack') : stack'[i].target = "any") /\ outcome' # "panic"
<1> SUFFICES ASSUME IInv, [Next]_vars, Targets = {"any"} PROVE Goal
  BY DEF AnyInv
<1>i. ReaderInv /\ StackInv
  BY DEF IInv
<1>a. (\A i \in 1..Len(stack) : stack[i].target = "any") /\ outcome # "panic"
  BY DEF IInv, AnyInv
<1>l. Len(stack) \in Nat /\ stack \in Seq(Frame) /\ (pc # "done" => Len(stack) > 0)
  BY <1>i, LenProperties DEF StackInv
<1>t. pc # "done" => Target = "any"
  BY <1>a, <1>l DEF Target
<1>e. pc \in {"pair", "value", "strings"} => pair.start + pair.size + 4 <= BufLen
  BY <1>i DEF ReaderInv, InPair, PairEnd
<1>0. ASSUME stack' = stack, outcome' # "panic", pc # "done"
      PROVE  Goal
  BY <1>0, <1>a
<1>1. CASE HeaderFails \/ ValueFails \/ SizeMissing \/ Header \/ ValueIgnored
  <2>1. stack' = stack /\ outcome' # "panic" /\ pc # "done"
    BY <1>1, <1>a DEF HeaderFails, ValueFails, SizeMissing, Header, ValueIgnored, End
  <2> QED BY <1>0, <2>1
<1>2. CASE OpenHybrid \/ ArrayIntoStruct \/ OpenUnknown
  BY <1>2, <1>t DEF OpenHybrid, ArrayIntoStruct, OpenUnknown
<1>3. ASSUME NEW size \in Sizes, SizeRefused(size) \/ PairStarts(size) PROVE Goal
  <2>1. stack' = stack /\ outcome' # "panic" /\ pc # "done"
    BY <1>3, <1>a DEF SizeRefused, PairStarts, End
  <2> QED BY <1>0, <2>1
<1>4. ASSUME NEW n \in NameSizes, NEW e \in Elems, PairRefused(n, e) PROVE Goal
  <2>1. stack' = stack /\ outcome' # "panic" /\ pc # "done"
    BY <1>4, <1>a DEF PairRefused, End
  <2> QED BY <1>0, <2>1
<1>5. ASSUME NEW n \in NameSizes, NEW e \in Elems, PairNamed(n, e) PROVE Goal
  <2>1. ~(pair.start + PairHeaderLen + n > BufLen)
    BY <1>5, <1>e, <1>i, DecoderAssumption DEF PairNamed, NameFits, PairHeaderLen, ReaderInv
  <2>2. stack' = stack /\ outcome' # "panic" /\ pc # "done"
    BY <1>5, <1>a, <2>1 DEF PairNamed, Reading
  <2> QED BY <1>0, <2>2
<1>p. ASSUME Proceed(Sets(Target)) \/ Proceed(Stores("any", TRUE)) \/ Proceed(Stores("any", FALSE)),
             pc # "done"
      PROVE  outcome' # "panic"
  BY <1>p, <1>t, <1>a DEF Proceed, Sets, Stores
<1>6. CASE ValueFixed
  <2>1. PICK n \in FixedLens :
          /\ FixedFits(n)
          /\ IF n = 0
             THEN Proceed(Sets(Target)) /\ UNCHANGED touched
             ELSE Reading(pair.cur + n, Proceed(Sets(Target)))
    BY <1>6 DEF ValueFixed
  <2>2. n \in Nat /\ pc = "value"
    BY <1>6, <1>i, FixedLensNat DEF ReaderInv, ValueFixed
  <2>3. n = 0 \/ ~(pair.cur + n > BufLen)
    BY <1>e, <1>i, <2>1, <2>2, DecoderAssumption DEF FixedFits, PairEnd, ReaderInv
  <2>4. outcome' # "panic"
    BY <1>p, <2>1, <2>2, <2>3 DEF Reading
  <2> QED BY <1>0, <1>6, <2>2, <2>4 DEF ValueFixed
<1>7. CASE ValueByte
  <2>1. ~(pair.cur + 1 > BufLen)
    BY <1>7, <1>e, <1>i, DecoderAssumption DEF ValueByte, PairEnd, ReaderInv
  <2>2. outcome' # "panic"
    BY <1>7, <1>p, <2>1 DEF ValueByte, Reading
  <2> QED BY <1>0, <1>7, <2>2 DEF ValueByte
<1>8. CASE StringsStart
  <2>1. stack' = stack /\ outcome' # "panic" /\ pc # "done"
    BY <1>8, <1>a DEF StringsStart
  <2> QED BY <1>0, <2>1
<1>9. CASE StringRead
  <2>1. PICK j \in pair.cur..PairEnd : Reading(j + 1, UNCHANGED <<pc, outcome>>)
    BY <1>9 DEF StringRead
  <2>2. ~(j + 1 > BufLen)
    BY <1>9, <1>e, <1>i, DecoderAssumption DEF StringRead, PairEnd, ReaderInv
  <2>3. outcome' # "panic"
    BY <1>a, <2>1, <2>2 DEF Reading
  <2> QED BY <1>0, <1>9, <2>3 DEF StringRead
<1>10. CASE StringMissing
  <2>1. ~(PairEnd + 1 > BufLen)
    BY <1>10, <1>e, <1>i, DecoderAssumption DEF StringMissing, PairEnd, ReaderInv
  <2>2. outcome' # "panic"
    BY <1>10, <2>1 DEF StringMissing, Reading, End
  <2> QED BY <1>0, <1>10, <2>2 DEF StringMissing
<1>11. CASE StringsDone
  <2>1. outcome' # "panic"
    BY <1>11, <1>p DEF StringsDone
  <2> QED BY <1>0, <1>11, <2>1 DEF StringsDone
<1>12. CASE ListEnds
  <2> DEFINE n == Len(stack)
  <2>0. pc = "list" /\ n > 0 /\ n \in Nat /\ (n # 1 => n - 1 \in 1..n)
    <3>1. pc = "list" /\ n > 0 /\ n \in Nat
      BY <1>12, <1>l DEF ListEnds
    <3> HIDE DEF n
    <3> QED BY <3>1
  <2>1. CASE stack[n].left > 0
    <3>1. Len(stack') = n /\ \A i \in 1..n : stack'[i].target = stack[i].target
      BY <1>12, <1>l, <2>0, <2>1, NextInArray DEF ListEnds
    <3>2. outcome' # "panic"
      BY <1>12, <1>a, <2>1 DEF ListEnds
    <3> QED BY <1>a, <3>1, <3>2
  <2>2. CASE ~(stack[n].left > 0)
    <3>1. Len(stack') = n - 1 /\ \A i \in 1..(n - 1) : stack'[i] = stack[i]
      BY <1>12, <1>l, <2>0, <2>2, Popped DEF ListEnds
    <3>2. outcome' # "panic"
      <4>1. CASE n = 1
        BY <1>12, <2>2, <4>1 DEF ListEnds, End
      <4>2. CASE n # 1
        <5>1. stack[n - 1].target = "any"
          BY <1>a, <2>0, <4>2
        <5>2. Stores(stack[n - 1].target, stack[n].array) = {"ok"}
          BY <5>1 DEF Stores
        <5> QED BY <1>12, <1>a, <2>2, <4>2, <5>2 DEF ListEnds, Proceed
      <4> QED BY <4>1, <4>2
    <3> QED BY <1>a, <1>l, <2>0, <3>1, <3>2
  <2> QED BY <2>1, <2>2
<1>13. CASE OpenList
  <2>1. /\ stack' = Append(stack, [target |-> "any", left |-> 0, array |-> FALSE])
        /\ outcome' # "panic"
    BY <1>13, <1>t, <1>a DEF OpenList, Children, Push, End
  <2>2. [target |-> "any", left |-> 0, array |-> FALSE] \in Frame
    BY MaxElemsNat DEF Frame, Kinds
  <2>3. /\ Len(stack') = Len(stack) + 1
        /\ \A i \in 1..Len(stack) : stack'[i] = stack[i]
        /\ stack'[Len(stack) + 1].target = "any"
    BY <1>l, <2>1, <2>2, Pushed
  <2> QED BY <1>a, <1>l, <2>1, <2>3
<1>14. CASE OpenArray
  <2>0. pc = "value" /\ Target = "any"
    BY <1>14, <1>t DEF OpenArray
  <2>1. CASE elem = 0
    <3>1. stack' = stack /\ Proceed(Stores("any", TRUE))
      BY <1>14, <2>0, <2>1 DEF OpenArray
    <3> QED BY <1>0, <1>p, <2>0, <3>1
  <2>2. CASE elem # 0
    <3>1. /\ stack' = Append(stack, [target |-> "any", left |-> elem - 1, array |-> TRUE])
          /\ outcome' # "panic"
      BY <1>14, <1>a, <2>2 DEF OpenArray, Push, LeftInArray
    <3>2. [target |-> "any", left |-> elem - 1, array |-> TRUE] \in Frame
      BY <1>i, <2>2, MaxElemsNat DEF ReaderInv, Frame, Kinds
    <3>3. /\ Len(stack') = Len(stack) + 1
          /\ \A i \in 1..Len(stack) : stack'[i] = stack[i]
          /\ stack'[Len(stack) + 1].target = "any"
      BY <1>l, <3>1, <3>2, Pushed
    <3> QED BY <1>a, <1>l, <3>1, <3>3
  <2> QED BY <2>1, <2>2
<1>15. CASE UNCHANGED vars
  BY <1>15, <1>a DEF vars
<1> QED
  BY <1>1, <1>2, <1>3, <1>4, <1>5, <1>6, <1>7, <1>8, <1>9, <1>10, <1>11, <1>12, <1>13,
     <1>14, <1>15 DEF Next

-----------------------------------------------------------------------------
LEMMA DecoderIInv == Spec => []IInv
<1>1. IInv /\ [Next]_vars => IInv'
  BY ReaderStep, StackStep, AnyStep DEF IInv
<1> QED BY <1>1, InitIInv, PTL DEF Spec

(* Unmarshal into map[string]interface{} panics on no data of any length.  *)
THEOREM DecoderNoPanic == Spec => []NoPanic
<1>1. IInv => NoPanic
  BY DEF IInv, AnyInv, NoPanic
<1> QED BY <1>1, DecoderIInv, PTL

(* The calls of readPairs are at most one for every 17 bytes of data.      *)
THEOREM DecoderDepthBounded == Spec => []DepthBounded
<1>1. ASSUME IInv PROVE DepthBounded
  <2>1. Len(stack) \in Nat
    BY <1>1, LenProperties DEF IInv, StackInv
  <2>2. CASE pc = "list"
    BY <1>1, <2>2 DEF IInv, StackInv, DepthBounded
  <2>3. CASE InPair
    BY <1>1, <2>1, <2>3 DEF IInv, StackInv, ReaderInv, InPair, PairEnd, DepthBounded, HeaderLen
  <2>4. pc \in {"header", "done", "list"} \/ InPair
    BY <1>1 DEF IInv, StackInv, InPair
  <2> QED BY <2>2, <2>3, <2>4 DEF DepthBounded
<1> QED BY <1>1, DecoderIInv, PTL

-----------------------------------------------------------------------------
(* What is read of a pair. *)
ConfinedInv == touched \in Nat /\ touched <= PairEnd + 1

LEMMA ConfinedStep == IInv /\ ConfinedInv /\ [Next]_vars => ConfinedInv'
<1> SUFFICES ASSUME IInv, ConfinedInv, [Next]_vars PROVE ConfinedInv'
  OBVIOUS
<1>i. ReaderInv
  BY DEF IInv
<1> USE DecoderAssumption DEF ConfinedInv, PairEnd, ReaderInv
<1>1. CASE HeaderFails \/ ValueFails \/ OpenHybrid \/ ArrayIntoStruct \/ Header \/ SizeMissing
             \/ ListEnds \/ ValueIgnored \/ StringsDone \/ OpenList \/ OpenUnknown \/ OpenArray
  BY <1>1 DEF HeaderFails, ValueFails, OpenHybrid, ArrayIntoStruct, Header, SizeMissing,
     ListEnds, ValueIgnored, StringsDone, OpenList, OpenUnknown, OpenArray, pairVars
<1>2. ASSUME NEW size \in Sizes, SizeRefused(size) PROVE ConfinedInv'
  BY <1>2 DEF SizeRefused, pairVars
<1>3. ASSUME NEW size \in Sizes, PairStarts(size) PROVE ConfinedInv'
  BY <1>i, <1>3 DEF PairStarts, SizeInvalid
<1>4. ASSUME NEW n \in NameSizes, NEW e \in Elems, PairRefused(n, e) PROVE ConfinedInv'
  BY <1>4 DEF PairRefused, pairVars
<1>5. ASSUME NEW n \in NameSizes, NEW e \in Elems, PairNamed(n, e) PROVE ConfinedInv'
  BY <1>i, <1>5 DEF PairNamed, NameFits, PairHeaderLen, Reading
<1>6. CASE ValueFixed
  <2>1. PICK n \in FixedLens : /\ FixedFits(n) /\ pair' = [pair EXCEPT !.cur = @ + n]
                              /\ touched' = IF n = 0 THEN touched ELSE pair.cur + n
    BY <1>6 DEF ValueFixed, Reading
  <2>2. n \in Nat
    BY <1>i, <2>1, FixedLensNat
  <2> QED BY <1>i, <2>1, <2>2 DEF FixedFits
<1>7. CASE ValueByte
  BY <1>i, <1>7 DEF ValueByte, Reading
<1>8. CASE StringsStart
  BY <1>i, <1>8 DEF StringsStart
<1>9. CASE StringRead
  <2>1. PICK j \in pair.cur..PairEnd : touched' = j + 1 /\ pair' = [pair EXCEPT !.cur = j + 1]
    BY <1>9 DEF StringRead, Reading
  <2> QED BY <1>i, <2>1
<1>10. CASE StringMissing
  BY <1>i, <1>10 DEF StringMissing, Reading
<1>11. CASE UNCHANGED vars
  BY <1>11 DEF vars, pairVars
<1> QED
  BY <1>1, <1>2, <1>3, <1>4, <1>5, <1>6, <1>7, <1>8, <1>9, <1>10, <1>11 DEF Next

(* Whatever the data, the readers of a pair take at most one byte behind   *)
(* it: the inclusive bounds of ReadByte and ReadBytes cost no more.        *)
THEOREM DecoderPairConfined == Spec => []PairConfined
<1>1. Init => ConfinedInv
  BY DEF Init, ConfinedInv, PairEnd
<1>2. ConfinedInv => PairConfined
  BY DEF ConfinedInv, PairConfined
<1> QED BY <1>1, <1>2, ConfinedStep, DecoderIInv, PTL DEF Spec

-----------------------------------------------------------------------------
(* Types. *)

(* Only maps of interface{} are read from arrays, and they hold nothing    *)
(* but such maps: below any other target no list is in an array.           *)
FlatInv ==
  \A i \in 1..Len(stack) : stack[i].target # "any" => \A j \in 1..i : stack[j].left = 0

(* Lists a struct has no field for are on top of the stack's own, which    *)
(* then are not in arrays: from the top, the lists the data has opened and *)
(* the frames have as many lists still to come.                            *)
Skipped == Len(nesting) - Len(stack)

AlignedInv ==
  /\ nesting \in Seq(0..MaxElems)
  /\ pc # "done" =>
       /\ Skipped \in Nat
       /\ \A i \in 1..Len(stack) : nesting[i + Skipped] = stack[i].left

ValuesInv ==
  /\ encoding \in {"native", "xdr"} /\ type \in Types
  /\ pair.start <= BufLen /\ pair.size <= BufLen
  /\ strings \in 0..MaxElems
  /\ outcome \in {"none", "ok", "error", "panic"}

TypeInv == FlatInv /\ AlignedInv /\ ValuesInv

(* The steps that leave the lists alone. *)
LEMMA ListsKept ==
  ASSUME TypeInv, UNCHANGED <<stack, nesting>>, pc # "done"
  PROVE  FlatInv' /\ AlignedInv' /\ Skipped' = Skipped
BY DEF TypeInv, FlatInv, AlignedInv, Skipped

(* The steps that change them.  First the end of a list. *)
LEMMA ListsClosed ==
  ASSUME IInv, TypeInv, ListEnds
  PROVE  FlatInv' /\ AlignedInv' /\ Skipped' = Skipped
<1> DEFINE n == Len(stack)
           d == Skipped
           m == Len(nesting)
<1>1. /\ pc = "list" /\ stack \in Seq(Frame) /\ nesting \in Seq(0..MaxElems)
      /\ nesting' = Closed(nesting)
      /\ n \in Nat /\ n > 0 /\ m \in Nat /\ d \in Nat /\ m = n + d
      /\ \A i \in 1..n : nesting[i + d] = stack[i].left
  <2>1. pc = "list" /\ stack \in Seq(Frame) /\ nesting \in Seq(0..MaxElems)
        /\ nesting' = Closed(nesting) /\ n > 0 /\ d \in Nat
        /\ \A i \in 1..n : nesting[i + d] = stack[i].left
    BY DEF ListEnds, IInv, StackInv, TypeInv, AlignedInv
  <2>2. n \in Nat /\ m \in Nat
    BY <2>1, LenProperties
  <2> QED BY <2>1, <2>2 DEF Skipped
<1>2. m > 0 /\ n \in 1..n /\ nesting[m] = stack[n].left
  <2>1. m > 0 /\ n \in 1..n
    BY <1>1
  <2> QED BY <1>1, <2>1
<1>f. \A i \in 1..n : stack[i].target # "any" => \A j \in 1..i : stack[j].left = 0
  BY DEF TypeInv, FlatInv
<1>3. CASE stack[n].left > 0
  <2>1. /\ Len(stack') = n
        /\ \A i \in 1..n : stack'[i].target = stack[i].target
        /\ \A i \in 1..(n - 1) : stack'[i] = stack[i]
        /\ stack'[n].left = stack[n].left - 1
    BY <1>1, <1>3, NextInArray DEF ListEnds
  <2>2. /\ nesting' \in Seq(0..MaxElems) /\ Len(nesting') = m
        /\ \A i \in 1..m : nesting'[i] = IF i = m THEN nesting[i] - 1 ELSE nesting[i]
    BY <1>1, <1>2, <1>3, ClosedElements
  <2>3. Skipped' = d
    BY <2>1, <2>2 DEF Skipped
  <2> HIDE DEF n, m, d
  <2>4. ASSUME NEW i \in 1..n PROVE nesting'[i + d] = stack'[i].left
    <3>1. i + d \in 1..m /\ (i + d = m <=> i = n) /\ (i # n => i \in 1..(n - 1))
      BY <1>1
    <3> QED BY <1>1, <2>1, <2>2, <3>1, SMTT(30)
  <2>5. FlatInv'
    <3> SUFFICES ASSUME NEW i \in 1..n, stack'[i].target # "any", NEW j \in 1..i
                 PROVE  stack'[j].left = 0
      BY <2>1 DEF FlatInv
    <3>1. stack[i].target # "any"
      BY <2>1
    <3>2. i # n
      BY <1>1, <1>3, <1>f, <3>1
    <3>3. j \in 1..(n - 1)
      BY <1>1, <3>2
    <3> QED BY <1>f, <2>1, <3>1, <3>3
  <2> QED BY <2>1, <2>2, <2>3, <2>4, <2>5, <1>1 DEF AlignedInv, d
<1>4. CASE ~(stack[n].left > 0)
  <2>1. stack' = Pop(stack) /\ nesting' = Pop(nesting)
    BY <1>1, <1>2, <1>4, ClosedElements DEF ListEnds
  <2>2. Len(stack') = n - 1 /\ \A i \in 1..(n - 1) : stack'[i] = stack[i]
    BY <1>1, <2>1, Popped
  <2>3. /\ nesting' \in Seq(0..MaxElems) /\ Len(nesting') = m - 1
        /\ \A i \in 1..(m - 1) : nesting'[i] = nesting[i]
    BY <1>1, <1>2, <2>1, Popped, ZenonT(30)
  <2>4. Skipped' = d
    BY <1>1, <2>2, <2>3 DEF Skipped
  <2> HIDE DEF n, m, d
  <2>5. ASSUME NEW i \in 1..(n - 1) PROVE nesting'[i + d] = stack'[i].left
    <3>1. i \in 1..n /\ i + d \in 1..(m - 1)
      BY <1>1
    <3> QED BY <1>1, <2>2, <2>3, <3>1
  <2>6. FlatInv'
    <3> SUFFICES ASSUME NEW i \in 1..(n - 1), stack'[i].target # "any", NEW j \in 1..i
                 PROVE  stack'[j].left = 0
      BY <2>2 DEF FlatInv
    <3>1. i \in 1..n /\ j \in 1..(n - 1)
      BY <1>1
    <3> QED BY <1>f, <2>2, <3>1
  <2> QED BY <2>2, <2>3, <2>4, <2>5, <2>6, <1>1 DEF AlignedInv, d
<1> QED BY <1>3, <1>4

(* A new list, with a frame of its own. *)
LEMMA ListsPushed ==
  ASSUME IInv, TypeInv, pc = "value",
         NEW t \in Kinds, NEW l \in 0..MaxElems, NEW a \in BOOLEAN,
         stack' = Append(stack, [target |-> t, left |-> l, array |-> a]),
         nesting' = Append(nesting, l),
         t = "any" \/ (l = 0 /\ Target # "any")
  PROVE  FlatInv' /\ AlignedInv' /\ Skipped' = Skipped
<1> DEFINE n == Len(stack)
           d == Skipped
           m == Len(nesting)
           f == [target |-> t, left |-> l, array |-> a]
<1>1. /\ stack \in Seq(Frame) /\ nesting \in Seq(0..MaxElems)
      /\ n \in Nat /\ n > 0 /\ m \in Nat /\ d \in Nat /\ m = n + d
      /\ \A i \in 1..n : nesting[i + d] = stack[i].left
  <2>1. stack \in Seq(Frame) /\ nesting \in Seq(0..MaxElems) /\ n > 0 /\ d \in Nat
        /\ \A i \in 1..n : nesting[i + d] = stack[i].left
    BY DEF IInv, StackInv, TypeInv, AlignedInv
  <2>2. n \in Nat /\ m \in Nat
    BY <2>1, LenProperties
  <2> QED BY <2>1, <2>2 DEF Skipped
<1>f. \A i \in 1..n : stack[i].target # "any" => \A j \in 1..i : stack[j].left = 0
  BY DEF TypeInv, FlatInv
<1>2. f \in Frame /\ f.target = t /\ f.left = l
  BY DEF Frame
<1>3. /\ Len(stack') = n + 1 /\ \A i \in 1..n : stack'[i] = stack[i]
      /\ stack'[n + 1].target = t /\ stack'[n + 1].left = l
  <2> HIDE DEF f
  <2>1. stack' = Append(stack, f)
    BY DEF f
  <2> QED BY <1>1, <1>2, <2>1, Pushed
<1>4. /\ nesting' \in Seq(0..MaxElems) /\ Len(nesting') = m + 1
      /\ \A i \in 1..m : nesting'[i] = nesting[i]
      /\ nesting'[m + 1] = l
  BY <1>1, AppendProperties
<1>5. Skipped' = d
  BY <1>1, <1>3, <1>4 DEF Skipped
<1>t. Target = stack[n].target
  BY DEF Target
<1> HIDE DEF n, m, d, f
<1>6. ASSUME NEW i \in 1..(n + 1) PROVE nesting'[i + d] = stack'[i].left
  <2>1. CASE i = n + 1
    <3>1. i + d = m + 1
      BY <1>1, <2>1
    <3> QED BY <1>3, <1>4, <2>1, <3>1
  <2>2. CASE i # n + 1
    <3>1. i \in 1..n /\ i + d \in 1..m
      BY <1>1, <2>2
    <3> QED BY <1>1, <1>3, <1>4, <3>1
  <2> QED BY <2>1, <2>2
<1>7. FlatInv'
  <2> SUFFICES ASSUME NEW i \in 1..(n + 1), stack'[i].target # "any", NEW j \in 1..i
               PROVE  stack'[j].left = 0
    BY <1>3 DEF FlatInv
  <2>1. CASE i = n + 1
    <3>1. l = 0 /\ \A k \in 1..n : stack[k].left = 0
      BY <1>1, <1>3, <1>f, <1>t, <2>1
    <3>2. j \in 1..n \/ j = n + 1
      BY <1>1, <2>1
    <3> QED BY <1>3, <3>1, <3>2
  <2>2. CASE i # n + 1
    <3>1. i \in 1..n /\ j \in 1..n
      BY <1>1, <2>2
    <3> QED BY <1>3, <1>f, <3>1
  <2> QED BY <2>1, <2>2
<1> QED BY <1>1, <1>3, <1>4, <1>5, <1>6, <1>7 DEF AlignedInv, d

(* A list the struct has no field for. *)
LEMMA ListsSkipped ==
  ASSUME IInv, TypeInv, OpenUnknown
  PROVE  FlatInv' /\ AlignedInv'
<1> DEFINE n == Len(stack)
           d == Skipped
           m == Len(nesting)
<1>1. /\ nesting \in Seq(0..MaxElems) /\ nesting' = Append(nesting, 0) /\ stack' = stack
      /\ n \in Nat /\ n > 0 /\ m \in Nat /\ d \in Nat /\ m = n + d
      /\ \A i \in 1..n : nesting[i + d] = stack[i].left
  <2>1. stack \in Seq(Frame) /\ nesting \in Seq(0..MaxElems) /\ n > 0 /\ d \in Nat
        /\ nesting' = Append(nesting, 0) /\ stack' = stack
        /\ \A i \in 1..n : nesting[i + d] = stack[i].left
    BY DEF OpenUnknown, IInv, StackInv, TypeInv, AlignedInv
  <2>2. n \in Nat /\ m \in Nat
    BY <2>1, LenProperties
  <2> QED BY <2>1, <2>2 DEF Skipped
<1>2. \A j \in 1..n : stack[j].left = 0
  <2>1. n \in 1..n /\ stack[n].target = "struct"
    BY <1>1 DEF OpenUnknown, Target
  <2> QED BY <2>1 DEF TypeInv, FlatInv
<1>3. /\ nesting' \in Seq(0..MaxElems) /\ Len(nesting') = m + 1
      /\ \A i \in 1..m : nesting'[i] = nesting[i]
      /\ nesting'[m + 1] = 0
  <2>1. 0 \in 0..MaxElems
    BY MaxElemsNat
  <2> QED BY <1>1, <2>1, AppendProperties
<1>4. Skipped' = d + 1
  BY <1>1, <1>3 DEF Skipped
<1>s. FlatInv'
  BY <1>1 DEF TypeInv, FlatInv
<1>l. Len(stack') = n
  BY <1>1
<1> HIDE DEF n, m, d
<1>5. ASSUME NEW i \in 1..n PROVE nesting'[i + (d + 1)] = 0
  <2>1. CASE i = n
    <3>1. i + (d + 1) = m + 1
      BY <1>1, <2>1
    <3> QED BY <1>3, <3>1
  <2>2. CASE i # n
    <3>1. i + 1 \in 1..n /\ i + (d + 1) = (i + 1) + d /\ (i + 1) + d \in 1..m
      BY <1>1, <2>2
    <3> QED BY <1>1, <1>2, <1>3, <3>1
  <2> QED BY <2>1, <2>2
<1>6. d + 1 \in Nat
  BY <1>1
<1> QED BY <1>1, <1>2, <1>3, <1>4, <1>5, <1>6, <1>s, <1>l DEF AlignedInv

LEMMA ListsStep ==
  ASSUME IInv, TypeInv, [Next]_vars
  PROVE  FlatInv' /\ AlignedInv' /\ (Skipped' = Skipped \/ OpenUnknown)
<1>1. CASE HeaderFails \/ ValueFails \/ OpenHybrid \/ ArrayIntoStruct \/ Header \/ SizeMissing
             \/ ValueIgnored \/ ValueFixed \/ ValueByte \/ StringsStart \/ StringRead
             \/ StringMissing \/ StringsDone
  <2>1. UNCHANGED <<stack, nesting>> /\ pc # "done"
    BY <1>1 DEF HeaderFails, ValueFails, OpenHybrid, ArrayIntoStruct, Header, SizeMissing,
       ValueIgnored, ValueFixed, ValueByte, StringsStart, StringRead, StringMissing, StringsDone
  <2> QED BY <2>1, ListsKept
<1>2. ASSUME NEW size \in Sizes, SizeRefused(size) \/ PairStarts(size)
      PROVE  FlatInv' /\ AlignedInv' /\ Skipped' = Skipped
  <2>1. UNCHANGED <<stack, nesting>> /\ pc # "done"
    BY <1>2 DEF SizeRefused, PairStarts
  <2> QED BY <2>1, ListsKept
<1>3. ASSUME NEW n \in NameSizes, NEW e \in Elems, PairRefused(n, e) \/ PairNamed(n, e)
      PROVE  FlatInv' /\ AlignedInv' /\ Skipped' = Skipped
  <2>1. UNCHANGED <<stack, nesting>> /\ pc # "done"
    BY <1>3 DEF PairRefused, PairNamed
  <2> QED BY <2>1, ListsKept
<1>4. CASE ListEnds
  BY <1>4, ListsClosed
<1>5. CASE OpenList
  <2>1. PICK k \in Children(Target) : Push(k, 0, FALSE)
    BY <1>5 DEF OpenList
  <2>2. k \in Kinds /\ (k = "any" \/ Target # "any")
    BY <2>1 DEF Children, Kinds
  <2>3. pc = "value" /\ nesting' = Append(nesting, 0) /\ 0 \in 0..MaxElems
    BY <1>5, MaxElemsNat DEF OpenList
  <2> QED BY <2>1, <2>2, <2>3, ListsPushed DEF Push
<1>6. CASE OpenUnknown
  BY <1>6, ListsSkipped
<1>7. CASE OpenArray
  <2>1. CASE elem = 0
    BY <1>7, <2>1, ListsKept DEF OpenArray
  <2>2. CASE elem # 0
    <3>1. elem - 1 \in 0..MaxElems /\ "any" \in Kinds
      BY <2>2, MaxElemsNat DEF IInv, ReaderInv, Kinds
    <3>2. /\ pc = "value" /\ nesting' = Append(nesting, elem - 1)
          /\ stack' = Append(stack, [target |-> "any", left |-> elem - 1, array |-> TRUE])
      BY <1>7, <2>2 DEF OpenArray, Push, LeftInArray
    <3> QED BY <3>1, <3>2, ListsPushed
  <2> QED BY <2>1, <2>2
<1>8. CASE UNCHANGED vars
  BY <1>8 DEF vars, TypeInv, FlatInv, AlignedInv, Skipped
<1> QED BY <1>1, <1>2, <1>3, <1>4, <1>5, <1>6, <1>7, <1>8 DEF Next

LEMMA ValuesStep == IInv /\ TypeInv /\ [Next]_vars => ValuesInv'
<1> SUFFICES ASSUME ReaderInv, ValuesInv, [Next]_vars PROVE ValuesInv'
  BY DEF IInv, TypeInv
<1>i. /\ cur \in Nat /\ cur <= BufLen /\ BufLen \in Nat /\ elem \in 0..MaxElems
      /\ pair \in [start : Nat, size : Nat, cur : Nat]
  BY DecoderAssumption DEF ReaderInv
<1>1. CASE HeaderFails \/ ValueFails \/ OpenHybrid \/ ArrayIntoStruct \/ Header \/ SizeMissing
             \/ ListEnds \/ ValueIgnored \/ StringsDone \/ OpenList \/ OpenUnknown \/ OpenArray
  BY <1>1 DEF HeaderFails, ValueFails, OpenHybrid, ArrayIntoStruct, Header, SizeMissing,
     ListEnds, ValueIgnored, StringsDone, OpenList, OpenUnknown, OpenArray, Proceed, End,
     pairVars, ValuesInv
<1>2. ASSUME NEW size \in Sizes, SizeRefused(size) PROVE ValuesInv'
  BY <1>2 DEF SizeRefused, End, pairVars, ValuesInv
<1>3. ASSUME NEW size \in Sizes, PairStarts(size) PROVE ValuesInv'
  <2>1. cur <= BufLen /\ size <= BufLen
    BY <1>i, <1>3, DecoderAssumption DEF PairStarts, SizeInvalid
  <2> QED BY <1>3, <2>1 DEF PairStarts, ValuesInv
<1>4. ASSUME NEW n \in NameSizes, NEW e \in Elems, PairRefused(n, e) PROVE ValuesInv'
  BY <1>4 DEF PairRefused, End, pairVars, ValuesInv
<1>5. ASSUME NEW n \in NameSizes, NEW e \in Elems, PairNamed(n, e) PROVE ValuesInv'
  BY <1>i, <1>5 DEF PairNamed, Reading, End, ValuesInv
<1>6. CASE ValueFixed
  <2>1. PICK n \in FixedLens : pair' = [pair EXCEPT !.cur = @ + n]
    BY <1>6 DEF ValueFixed
  <2>2. pair'.start = pair.start /\ pair'.size = pair.size
    BY <1>i, <2>1
  <2>3. outcome' \in {outcome, "panic"} /\ UNCHANGED <<encoding, type, strings>>
    BY <1>6 DEF ValueFixed, Reading, Proceed, End
  <2> QED BY <2>2, <2>3 DEF ValuesInv
<1>7. CASE ValueByte
  BY <1>i, <1>7 DEF ValueByte, Reading, Proceed, End, ValuesInv
<1>8. CASE StringsStart
  <2>1. 1 \in 0..MaxElems
    BY DEF MaxElems
  <2>2. strings' \in 0..MaxElems
    BY <1>i, <1>8, <2>1 DEF StringsStart
  <2> QED BY <1>i, <1>8, <2>2 DEF StringsStart, ValuesInv
<1>9. CASE StringRead
  <2>1. PICK j \in pair.cur..PairEnd : pair' = [pair EXCEPT !.cur = j + 1]
    BY <1>9 DEF StringRead
  <2>2. pair'.start = pair.start /\ pair'.size = pair.size
    BY <1>i, <2>1
  <2>3. outcome' \in {outcome, "panic"} /\ UNCHANGED <<encoding, type>>
    BY <1>9 DEF StringRead, Reading, End
  <2>4. strings' \in 0..MaxElems
    BY <1>9, MaxElemsNat DEF StringRead, ValuesInv
  <2> QED BY <2>2, <2>3, <2>4 DEF ValuesInv
<1>10. CASE StringMissing
  BY <1>10 DEF StringMissing, Reading, End, ValuesInv
<1>11. CASE UNCHANGED vars
  BY <1>11 DEF vars, pairVars, ValuesInv
<1> QED
  BY <1>1, <1>2, <1>3, <1>4, <1>5, <1>6, <1>7, <1>8, <1>9, <1>10, <1>11 DEF Next

LEMMA InitTypeInv == Init => TypeInv /\ ConfinedInv /\ Skipped = 0
<1> SUFFICES ASSUME Init PROVE TypeInv /\ ConfinedInv /\ Skipped = 0
  OBVIOUS
<1>1. PICK t \in Targets : stack = <<[target |-> t, left |-> 0, array |-> FALSE]>>
  BY DEF Init
<1>2. Len(stack) = 1 /\ stack[1].left = 0 /\ 0 \in 0..MaxElems
  BY <1>1, MaxElemsNat
<1>3. nesting \in Seq(0..MaxElems) /\ Len(nesting) = 1 /\ nesting[1] = 0
  BY <1>2 DEF Init
<1>4. FlatInv
  BY <1>2 DEF FlatInv
<1>5. Skipped = 0 /\ \A i \in 1..1 : i = 1 /\ i + 0 = 1
  BY <1>2, <1>3 DEF Skipped
<1>6. AlignedInv
  BY <1>2, <1>3, <1>5 DEF AlignedInv
<1>7. ValuesInv
  BY <1>2, DecoderAssumption DEF Init, ValuesInv, Types
<1>8. ConfinedInv
  BY DEF Init, ConfinedInv, PairEnd
<1> QED BY <1>4, <1>5, <1>6, <1>7, <1>8 DEF TypeInv

LEMMA DecoderTypeInv == Spec => []TypeInv
<1>1. IInv /\ TypeInv /\ [Next]_vars => TypeInv'
  BY ListsStep, ValuesStep DEF TypeInv
<1> QED BY <1>1, InitTypeInv, DecoderIInv, PTL DEF Spec

(* For every destination and all data, the cursors of both readers stay    *)
(* within the data (the pair's after a value may be behind it), the counts *)
(* within what readPairs accepts, and a list is never closed that was not  *)
(* opened.                                                                 *)
THEOREM DecoderTypeCorrect == Spec => []TypeOK
<1>1. Init => ConfinedInv
  BY InitTypeInv
<1>2. ASSUME IInv, TypeInv, ConfinedInv PROVE TypeOK
  <2>1. cur \in 0..BufLen /\ elem \in 0..MaxElems
    BY <1>2, DecoderAssumption DEF IInv, ReaderInv
  <2>2. pair \in [start : 0..BufLen, size : 0..BufLen, cur : Nat]
    <3>1. pair.start \in 0..BufLen /\ pair.size \in 0..BufLen /\ pair.cur \in Nat
      BY <1>2, DecoderAssumption DEF IInv, ReaderInv, TypeInv, ValuesInv
    <3>2. pair = [start |-> pair.start, size |-> pair.size, cur |-> pair.cur]
      BY <1>2 DEF IInv, ReaderInv
    <3> QED BY <3>1, <3>2
  <2>3. pc \in {"header", "list", "pair", "value", "strings", "done"} /\ stack \in Seq(Frame)
    BY <1>2 DEF IInv, StackInv, InPair
  <2> QED BY <1>2, <2>1, <2>2, <2>3 DEF TypeOK, TypeInv, AlignedInv, ValuesInv, ConfinedInv
<1> QED BY <1>1, <1>2, ConfinedStep, DecoderIInv, DecoderTypeInv, PTL DEF Spec

-----------------------------------------------------------------------------
(* Nesting. *)

LEMMA NothingSkipped == ASSUME IInv, TypeInv, Skipped = 0 PROVE NestingKept
<1> SUFFICES ASSUME pc = "list"
             PROVE  nesting = [i \in 1..Len(stack) |-> stack[i].left]
  BY DEF NestingKept
<1>1. Len(stack) \in Nat /\ Len(nesting) \in Nat /\ nesting \in Seq(0..MaxElems)
  BY LenProperties DEF IInv, StackInv, TypeInv, AlignedInv
<1>2. Len(nesting) = Len(stack)
  BY <1>1 DEF Skipped
<1>3. \A i \in 1..Len(stack) : i + 0 = i
  BY <1>1
<1>4. \A i \in 1..Len(stack) : nesting[i] = stack[i].left
  BY <1>3 DEF TypeInv, AlignedInv
<1> QED BY <1>1, <1>2, <1>4

(* Only a nested list for which a struct has no field makes readPairs lose *)
(* track (its default branch does not consume it): as long as there is     *)
(* none, every pair is read in the list the data put it in, whatever the   *)
(* destination and the data.                                               *)
THEOREM DecoderNestingKnown == Init /\ [][Next /\ ~OpenUnknown]_vars => []NestingKept
<1>1. [Next /\ ~OpenUnknown]_vars => [Next]_vars
  OBVIOUS
<1>2. ASSUME IInv, TypeInv, Skipped = 0, [Next /\ ~OpenUnknown]_vars PROVE (Skipped = 0)'
  <2>1. CASE Next /\ ~OpenUnknown
    BY <1>2, <2>1, ListsStep
  <2>2. CASE UNCHANGED vars
    BY <1>2, <2>2 DEF vars, Skipped
  <2> QED BY <1>2, <2>1, <2>2
<1>3. IInv /\ TypeInv /\ Skipped = 0 => NestingKept
  BY NothingSkipped
<1> QED BY <1>1, <1>2, <1>3, InitTypeInv, DecoderIInv, DecoderTypeInv, PTL DEF Spec

(* When Unmarshal decodes into map[string]interface{}, every pair it reads *)
(* belongs to the list the data put it in.                                 *)
THEOREM DecoderNestingKept == ASSUME Targets = {"any"} PROVE Spec => []NestingKept
<1>1. ASSUME IInv PROVE ~OpenUnknown
  <2>1. pc = "value" => Target = "any"
    BY <1>1, LenProperties DEF IInv, StackInv, AnyInv, Target
  <2> QED BY <2>1 DEF OpenUnknown
<1>2. IInv /\ [Next]_vars => [Next /\ ~OpenUnknown]_vars
  BY <1>1
<1> QED BY <1>2, DecoderIInv, DecoderNestingKnown, PTL DEF Spec
-----------------------------------------------------------------------------
(* No index out of range. *)

ReadsInData == touched <= BufLen

(* Bytes are read from the data only, whatever it says of its own sizes    *)
(* and whatever the destination: a panic of Unmarshal is never an index    *)
(* out of range, always a destination that does not fit.                   *)
THEOREM DecoderReadsInData == Spec => []ReadsInData
<1> USE DecoderAssumption
<1>1. Init => ReadsInData
  BY DEF Init, ReadsInData
<1>2. ASSUME IInv, [Next]_vars
      PROVE  touched' \in {touched, 0} \/ (InPair /\ PairEnd' = PairEnd)
  <2>i. pair \in [start : Nat, size : Nat, cur : Nat]
    BY <1>2 DEF IInv, ReaderInv
  <2>1. CASE HeaderFails \/ ValueFails \/ OpenHybrid \/ ArrayIntoStruct \/ Header \/ SizeMissing
               \/ ListEnds \/ ValueIgnored \/ StringsDone \/ OpenList \/ OpenUnknown
               \/ OpenArray \/ StringsStart
    BY <2>1 DEF HeaderFails, ValueFails, OpenHybrid, ArrayIntoStruct, Header, SizeMissing,
       ListEnds, ValueIgnored, StringsDone, OpenList, OpenUnknown, OpenArray, StringsStart, pairVars
  <2>2. ASSUME NEW size \in Sizes, SizeRefused(size) \/ PairStarts(size)
        PROVE  touched' \in {touched, 0}
    BY <2>2 DEF SizeRefused, PairStarts, pairVars
  <2>3. ASSUME NEW n \in NameSizes, NEW e \in Elems, PairRefused(n, e) \/ PairNamed(n, e)
        PROVE  touched' = touched \/ (InPair /\ PairEnd' = PairEnd)
    BY <2>i, <2>3 DEF PairRefused, PairNamed, pairVars, InPair, PairEnd
  <2>4. CASE ValueFixed
    <3>1. PICK n \in FixedLens : pair' = [pair EXCEPT !.cur = @ + n]
      BY <2>4 DEF ValueFixed
    <3> QED BY <2>i, <2>4, <3>1 DEF ValueFixed, InPair, PairEnd
  <2>5. CASE StringRead
    <3>1. PICK j \in pair.cur..PairEnd : pair' = [pair EXCEPT !.cur = j + 1]
      BY <2>5 DEF StringRead
    <3> QED BY <2>i, <2>5, <3>1 DEF StringRead, InPair, PairEnd
  <2>6. CASE ValueByte \/ StringMissing
    BY <2>i, <2>6 DEF ValueByte, StringMissing, InPair, PairEnd
  <2>7. CASE UNCHANGED vars
    BY <2>7 DEF vars, pairVars
  <2> QED BY <1>2, <2>1, <2>2, <2>3, <2>4, <2>5, <2>6, <2>7 DEF Next
<1>3. ASSUME IInv, ConfinedInv, ReadsInData, [Next]_vars PROVE ReadsInData'
  <2>1. ConfinedInv'
    BY <1>3, ConfinedStep
  <2>2. CASE InPair /\ PairEnd' = PairEnd
    <3>1. PairEnd \in Nat /\ PairEnd + 4 <= BufLen
      BY <1>3, <2>2 DEF IInv, ReaderInv, PairEnd
    <3> QED BY <2>1, <2>2, <3>1 DEF ConfinedInv, ReadsInData
  <2> QED BY <1>2, <1>3, <2>2 DEF ReadsInData
<1>4. Init => ConfinedInv
  BY InitTypeInv
<1> QED BY <1>1, <1>3, <1>4, ConfinedStep, DecoderIInv, PTL DEF Spec

-----------------------------------------------------------------------------
(* Termination. *)

(* What Unmarshal has left to do: the data behind the list's cursor, then  *)
(* what is left of the pair.                                               *)
Rank ==
  CASE pc = "pair" -> MaxElems + 4
    [] pc = "value" -> MaxElems + 3
    [] pc = "strings" -> strings + 2
    [] pc = "done" -> 0
    [] OTHER -> 1

Work == (BufLen - cur) * (MaxElems + 5) + Rank

WorkDecreases == Work \in Nat /\ Work' \in Nat /\ Work' < Work

LEMMA LexicographicOrder ==
  ASSUME NEW a \in Nat, NEW b \in Nat, NEW k \in Nat, NEW q \in Nat, NEW r \in Nat, b < a, q < k
  PROVE  b * k + q < a * k + r
OBVIOUS

LEMMA WorkOrder ==
  ASSUME NEW end \in Nat, NEW c \in Nat, NEW d \in Nat, c <= end, d <= end,
         NEW m \in Nat, NEW q \in Nat, NEW r \in Nat, q <= m + 4, r <= m + 4,
         d > c \/ (d = c /\ q < r)
  PROVE  /\ (end - c) * (m + 5) + r \in Nat
         /\ (end - d) * (m + 5) + q \in Nat
         /\ (end - d) * (m + 5) + q < (end - c) * (m + 5) + r
<1>1. end - c \in Nat /\ end - d \in Nat /\ m + 5 \in Nat /\ q < m + 5
  OBVIOUS
<1>2. (end - c) * (m + 5) \in Nat /\ (end - d) * (m + 5) \in Nat
  BY <1>1
<1>3. CASE d > c
  BY <1>1, <1>2, <1>3, LexicographicOrder
<1>4. CASE d = c /\ q < r
  BY <1>2, <1>4
<1> QED BY <1>2, <1>3, <1>4

(* How a step may go on: behind the cursor, or in the same pair.           *)
LEMMA StepMoves ==
  ASSUME IInv, TypeInv, pc = "header" => cur = 0, Next
  PROVE  /\ pc # "done" /\ pc' # "header"
         /\ \/ cur' > cur
            \/ cur' = cur /\ Rank' < Rank
<1> USE DecoderAssumption
<1>i. cur \in Nat /\ BufLen \in Nat /\ strings \in Nat /\ elem \in Nat /\ elem <= 65535
  <2>1. cur \in Nat /\ BufLen \in Nat /\ strings \in Nat /\ elem \in Nat /\ elem <= MaxElems
    BY MaxElemsNat DEF IInv, ReaderInv, TypeInv, ValuesInv
  <2> QED BY <2>1 DEF MaxElems
<1>r. /\ pc = "header" \/ pc = "list" => Rank = 1
      /\ pc = "pair" => Rank = 65539
      /\ pc = "value" => Rank = 65538
      /\ pc = "strings" => Rank = strings + 2
  BY DEF Rank, MaxElems
<1>s. /\ pc' = "list" => Rank' = 1
      /\ pc' = "value" => Rank' = 65538
      /\ pc' = "strings" => Rank' = strings' + 2
      /\ pc' = "done" => Rank' = 0
  BY DEF Rank, MaxElems
<1> HIDE DEF Rank
<1>1. CASE HeaderFails \/ ValueFails \/ OpenHybrid \/ ArrayIntoStruct \/ StringMissing
  <2>1. pc \in {"header", "value", "strings"} /\ pc' = "done" /\ cur' = cur
    BY <1>1 DEF HeaderFails, ValueFails, OpenHybrid, ArrayIntoStruct, StringMissing, End, Reading
  <2> QED BY <1>i, <1>r, <1>s, <2>1
<1>2. CASE Header
  BY <1>2 DEF Header, HeaderLen, End
<1>3. CASE SizeMissing
  <2>1. pc = "list" /\ pc' = "done" /\ cur' = BufLen /\ cur <= BufLen
    BY <1>3 DEF SizeMissing, End, IInv, ReaderInv
  <2> QED BY <1>i, <1>r, <1>s, <2>1
<1>4. CASE ListEnds
  <2>1. pc = "list" /\ cur' = cur + 4 /\ pc' \in {"list", "done"}
    BY <1>4 DEF ListEnds, Proceed, End
  <2> QED BY <1>i, <2>1
<1>5. ASSUME NEW size \in Sizes, SizeRefused(size) \/ PairStarts(size)
      PROVE  pc = "list" /\ cur' > cur /\ pc' \in {"done", "pair"}
  <2>1. CASE SizeRefused(size)
    BY <1>i, <2>1 DEF SizeRefused, End
  <2>2. CASE PairStarts(size)
    <3>1. size \in Nat \ {0}
      BY <1>i, <2>2 DEF PairStarts, SizeInvalid
    <3> QED BY <1>i, <2>2, <3>1 DEF PairStarts, NextPair
  <2> QED BY <1>5, <2>1, <2>2
<1>6. ASSUME NEW n \in NameSizes, NEW e \in Elems, PairRefused(n, e) \/ PairNamed(n, e)
      PROVE  pc = "pair" /\ cur' = cur /\ pc' \in {"done", "value"}
  BY <1>6 DEF PairRefused, PairNamed, Reading, End
<1>7. CASE ValueIgnored \/ ValueFixed \/ ValueByte \/ OpenList \/ OpenUnknown \/ OpenArray
  <2>1. pc = "value" /\ cur' = cur /\ pc' \in {"list", "done"}
    BY <1>7 DEF ValueIgnored, ValueFixed, ValueByte, OpenList, OpenUnknown, OpenArray, Proceed,
       Reading, End
  <2> QED BY <1>i, <1>r, <1>s, <2>1
<1>8. CASE StringsStart
  <2>1. pc = "value" /\ pc' = "strings" /\ cur' = cur /\ (strings' = 1 \/ strings' = elem)
    BY <1>8 DEF StringsStart
  <2>2. Rank' = 1 + 2 \/ Rank' = elem + 2
    BY <1>s, <2>1
  <2> QED BY <1>i, <1>r, <2>1, <2>2
<1>9. CASE StringRead
  <2>1. pc = "strings" /\ pc' \in {"strings", "done"} /\ cur' = cur /\ strings' = strings - 1
    BY <1>9 DEF StringRead, Reading, End
  <2> QED BY <1>i, <1>r, <1>s, <2>1
<1>10. CASE StringsDone
  <2>1. pc = "strings" /\ pc' \in {"list", "done"} /\ cur' = cur
    BY <1>10 DEF StringsDone, Proceed, End
  <2> QED BY <1>i, <1>r, <1>s, <2>1
<1>11. ASSUME pc = "pair", cur' = cur, pc' \in {"done", "value"} PROVE Rank' < Rank
  BY <1>11, <1>r, <1>s
<1> QED BY <1>1, <1>2, <1>3, <1>4, <1>5, <1>6, <1>7, <1>8, <1>9, <1>10, <1>11 DEF Next

(* Every step of Unmarshal uses up some of a finite amount of work, sizes  *)
(* that move a list's cursor by less than a pair's header included: it     *)
(* takes no more steps than Work says for the data it is given, which is   *)
(* why it returns.                                                         *)
THEOREM DecoderStepsBounded == Spec => [][WorkDecreases]_vars
<1>1. Init => (pc = "header" => cur = 0)
  BY DEF Init
<1>2. ASSUME IInv, TypeInv, pc = "header" => cur = 0, [Next]_vars
      PROVE  (pc = "header" => cur = 0)'
  BY <1>2, StepMoves DEF vars
<1>3. ASSUME IInv, TypeInv, IInv', TypeInv', pc = "header" => cur = 0, Next
      PROVE  WorkDecreases
  <2>1. cur \in Nat /\ cur <= BufLen /\ strings \in 0..MaxElems /\ BufLen \in Nat
    BY <1>3, DecoderAssumption DEF IInv, ReaderInv, TypeInv, ValuesInv
  <2>2. cur' \in Nat /\ cur' <= BufLen /\ strings' \in 0..MaxElems
    BY <1>3 DEF IInv, ReaderInv, TypeInv, ValuesInv
  <2>3. Rank \in Nat /\ Rank <= MaxElems + 4 /\ Rank' \in Nat /\ Rank' <= MaxElems + 4
    BY <2>1, <2>2, MaxElemsNat DEF Rank
  <2>4. cur' > cur \/ (cur' = cur /\ Rank' < Rank)
    BY <1>3, StepMoves
  <2> QED BY <2>1, <2>2, <2>3, <2>4, MaxElemsNat, WorkOrder DEF Work, WorkDecreases
<1> QED BY <1>1, <1>2, <1>3, DecoderIInv, DecoderTypeInv, PTL DEF Spec
=============================================================================
