---------------------------- MODULE NvCodecProofs ----------------------------
(***************************************************************************)
(* Proofs about NvEncoder and NvCodec, for any names and fields (those of  *)
(* EncoderAssumption), number of pairs and depth of nesting.               *)
(***************************************************************************)
EXTENDS NvCodec, SequenceTheorems, TLAPS

(* The calls of writeNvPairs in progress; the outermost one is left last.  *)
StackInv ==
  /\ stack \in Seq([array : BOOLEAN, left : Nat])
  /\ Len(stack) >= 1 /\ stack[1].left = 0

(* An error that no caller drops is on its way out, or has come out.       *)
ErrorInv ==
  /\ refused = "yes" => \/ pc = "fail" /\ ~Nested
                        \/ pc = "done" /\ outcome = "error"
  /\ outcome # "none" => pc = "done"
  /\ outcome = "ok" => refused # "yes"

(* A pair as endNvPair leaves it. *)
PairOf(p, name, f) ==
  [pos |-> p, size |-> SizeOf(name, f), at |-> ValueAt(name), used |-> ValueLen(f),
   name_sz |-> name.len + 1, width |-> f.width, item |-> ItemOf(name, f)]

Writable == {f \in Fields : ~FieldRefused(f) /\ f.kind # "interface"}
PairSet == {PairOf(p, name, f) : p \in Nat, name \in Names, f \in Writable}

(* Pair i ends at an end marker or the remains of an abandoned pair, at    *)
(* the next pair, or, the last one, at the end of the data.                *)
TileInv ==
  /\ len \in Nat /\ pairs \in Seq(PairSet)
  /\ \A i \in 1..Len(pairs) :
       LET end == pairs[i].pos + pairs[i].size
       IN  \/ \E z \in zeros : z.pos = end
           \/ IF i = Len(pairs) THEN len = end ELSE pairs[i + 1].pos = end

IInv == StackInv /\ ErrorInv /\ TileInv

-----------------------------------------------------------------------------
(* Alignment (common.go). *)
LEMMA AlignToProperties ==
  ASSUME NEW n \in Nat
  PROVE  /\ AlignTo(n, 8) \in Nat /\ AlignTo(n, 8) >= n /\ AlignTo(n, 8) % 8 = 0
         /\ AlignTo(n, 8) < n + 8
BY DEF AlignTo

LEMMA WrittenType ==
  ASSUME NEW s \in Strings
  PROVE  Written(s) \in Nat
BY DEF Strings, Written

LEMMA FieldType ==
  ASSUME NEW f \in Fields
  PROVE  /\ f.kind \in Kinds /\ f.array \in BOOLEAN /\ f.n \in Nat /\ f.width \in Nat
         /\ f.str \in Strings /\ (~f.array => f.n = 1)
<1>1. f \in [kind : Kinds, array : BOOLEAN, n : Nat, width : Widths,
             str : Strings, tag : {"", "omitempty", "ro"}, zero : BOOLEAN]
  BY EncoderAssumption
<1>2. IF f.array THEN f.str.nul = 0 ELSE f.n = 1
  BY EncoderAssumption
<1>3. /\ f.kind \in Kinds /\ f.array \in BOOLEAN /\ f.n \in Nat /\ f.width \in Widths
      /\ f.str \in Strings
  BY <1>1
<1> QED BY <1>2, <1>3 DEF Widths

LEMMA NatProduct ==
  ASSUME NEW a \in Nat, NEW b \in Nat
  PROVE  a * b \in Nat
OBVIOUS

LEMMA ValueLenType ==
  ASSUME NEW f \in Fields
  PROVE  ValueLen(f) \in Nat
<1> DEFINE w == Written(f.str)
<1>1. /\ f.kind \in Kinds /\ f.array \in BOOLEAN /\ f.n \in Nat /\ f.width \in Nat
      /\ w \in Nat
  BY FieldType, WrittenType
<1> HIDE DEF w
<1>2. f.n * w \in Nat /\ f.n * f.width \in Nat /\ f.n * 24 \in Nat /\ f.n * 32 \in Nat
  BY <1>1, NatProduct
<1>3. CASE f.kind = "string"
  BY <1>1, <1>2, <1>3 DEF ValueLen, w
<1>4. CASE f.kind = "bool"
  BY <1>1, <1>4 DEF ValueLen
<1>5. CASE f.kind = "map"
  BY <1>1, <1>2, <1>5 DEF ValueLen, NvlistLen
<1>6. CASE f.kind \notin {"string", "bool", "map"}
  BY <1>1, <1>2, <1>6 DEF ValueLen
<1> QED BY <1>3, <1>4, <1>5, <1>6

(* Header, name and value fit into the size of the pair, which is aligned  *)
(* (encoder.go: startNvPair, endNvPair).                                   *)
LEMMA PairLayout ==
  ASSUME NEW name \in Names, NEW f \in Fields
  PROVE  /\ ValueAt(name) \in Nat /\ SizeOf(name, f) \in Nat /\ ValueLen(f) \in Nat
         /\ PairHeaderLen + Written(name) <= ValueAt(name)
         /\ ValueAt(name) + ValueLen(f) <= SizeOf(name, f)
         /\ SizeOf(name, f) % 8 = 0
<1>1. Written(name) \in Nat
  BY WrittenType, EncoderAssumption
<1>2. ValueAt(name) \in Nat /\ PairHeaderLen + Written(name) <= ValueAt(name)
  BY <1>1, AlignToProperties DEF ValueAt, PairHeaderLen
<1>3. ValueLen(f) \in Nat
  BY ValueLenType
<1>4. ValueAt(name) + ValueLen(f) \in Nat
  BY <1>2, <1>3
<1>5. /\ SizeOf(name, f) \in Nat /\ ValueAt(name) + ValueLen(f) <= SizeOf(name, f)
      /\ SizeOf(name, f) % 8 = 0
  BY <1>4, AlignToProperties DEF SizeOf
<1> QED BY <1>2, <1>3, <1>5

-----------------------------------------------------------------------------
LEMMA EncoderInitIInv == Init => IInv
<1> SUFFICES ASSUME Init PROVE IInv
  OBVIOUS
<1>1. StackInv
  <2> DEFINE F == [array : BOOLEAN, left : Nat]
             fr == [array |-> FALSE, left |-> 0]
  <2>1. fr \in F
    OBVIOUS
  <2> HIDE DEF F, fr
  <2>2. <<fr>> \in Seq(F) /\ Len(<<fr>>) = 1
    BY <2>1
  <2> QED BY <2>2 DEF Init, StackInv, F, fr
<1>2. ErrorInv
  BY DEF Init, ErrorInv
<1>3. TileInv
  BY DEF Init, TileInv, HeaderLen
<1> QED BY <1>1, <1>2, <1>3 DEF IInv

(* Leaving a call of writeNvPairs keeps the calls around it.               *)
LEMMA PopKeeps ==
  ASSUME StackInv, Len(stack) # 1
  PROVE  /\ Pop \in Seq([array : BOOLEAN, left : Nat])
         /\ Len(stack) \in Nat /\ Len(stack) >= 2 /\ Len(Pop) = Len(stack) - 1
         /\ \A i \in 1..(Len(stack) - 1) : Pop[i] = stack[i]
<1> DEFINE F == [array : BOOLEAN, left : Nat]
<1>0. stack \in Seq(F) /\ Len(stack) >= 1 /\ Len(stack) # 1
  BY DEF StackInv
<1> HIDE DEF F
<1>1. stack \in Seq(F) /\ Len(stack) \in Nat /\ Len(stack) >= 2
  <2>1. Len(stack) \in Nat
    BY <1>0, LenProperties
  <2>2. \A k \in Nat : k >= 1 /\ k # 1 => k >= 2
    OBVIOUS
  <2>3. Len(stack) >= 2
    BY <1>0, <2>1, <2>2, Zenon
  <2> QED BY <1>0, <2>1, <2>3
<1>2. \A i \in 1..(Len(stack) - 1) : stack[i] \in F
  BY <1>1, ElementOfSeq
<1>3. /\ SubSeq(stack, 1, Len(stack) - 1) \in Seq(F)
      /\ Len(SubSeq(stack, 1, Len(stack) - 1)) = Len(stack) - 1
      /\ \A i \in 1..(Len(stack) - 1) : SubSeq(stack, 1, Len(stack) - 1)[i] = stack[i]
  BY <1>1, <1>2, SubSeqProperties
<1> QED BY <1>1, <1>3 DEF Pop, F

LEMMA StackStep == IInv /\ [Next]_vars => StackInv'
<1> SUFFICES ASSUME StackInv, [Next]_vars PROVE StackInv'
  BY DEF IInv
<1> DEFINE F == [array : BOOLEAN, left : Nat]
<1>s. stack \in Seq(F) /\ Len(stack) \in Nat /\ Len(stack) >= 1 /\ stack[Len(stack)] \in F
  <2>1. stack \in Seq(F) /\ Len(stack) >= 1
    BY DEF StackInv
  <2> HIDE DEF F
  <2> QED BY <2>1, LenProperties, ElementOfSeq
<1>u. ASSUME UNCHANGED stack PROVE StackInv'
  BY <1>u DEF StackInv
<1>1. CASE Enter \/ EnterNil \/ RefusedAtEntry \/ ListEnds
  BY <1>1, <1>u DEF Enter, EnterNil, RefusedAtEntry, ListEnds
<1>2. CASE ReturnNil
  <2>1. CASE Len(stack) = 1
    BY <1>2, <1>u, <2>1 DEF ReturnNil
  <2>2. CASE Len(stack) # 1 /\ Top.left > 0
    <3>1. stack' = [stack EXCEPT ![Len(stack)].left = @ - 1]
      BY <1>2, <2>2 DEF ReturnNil
    <3>2. stack[Len(stack)] \in F /\ stack[Len(stack)].left > 0
      BY <1>s, <2>2 DEF Top
    <3> DEFINE e == [stack[Len(stack)] EXCEPT !.left = @ - 1]
    <3>3. e \in F
      BY <3>2
    <3>4. stack' = [stack EXCEPT ![Len(stack)] = e]
      BY <3>1
    <3> HIDE DEF e, F
    <3>5. /\ stack' \in Seq(F) /\ Len(stack') = Len(stack)
          /\ \A j \in 1..Len(stack) :
               stack'[j] = IF j = Len(stack) THEN e ELSE stack[j]
      BY <1>s, <3>3, <3>4, ExceptSeq
    <3>6. stack'[1] = stack[1]
      <4>1. \A k \in Nat : k >= 1 => 1 \in 1..k
        OBVIOUS
      <4> QED BY <1>s, <2>2, <3>5, <4>1
    <3> QED BY <1>s, <3>5, <3>6 DEF StackInv, F
  <2>3. CASE Len(stack) # 1 /\ ~(Top.left > 0)
    BY <1>2, <2>3, PopKeeps, SMTT(30) DEF ReturnNil, StackInv
  <2> QED BY <2>1, <2>2, <2>3
<1>3. CASE ReturnError
  <2>1. CASE Len(stack) = 1
    BY <1>3, <1>u, <2>1 DEF ReturnError
  <2>2. CASE Len(stack) # 1
    BY <1>3, <2>2, PopKeeps DEF ReturnError, StackInv
  <2> QED BY <2>1, <2>2
<1>4. ASSUME NEW name \in Names, RefusedName(name) PROVE StackInv'
  BY <1>4, <1>u DEF RefusedName
<1>5. ASSUME NEW name \in Names, NEW f \in Fields, RefusedValue(name, f) \/ Panics(name, f)
      PROVE  StackInv'
  BY <1>5, <1>u DEF RefusedValue, Panics
<1>6. ASSUME NEW name \in Names, NEW f \in Fields, WritePair(name, f) PROVE StackInv'
  <2>1. CASE f.kind = "map" /\ f.n > 0
    <3> DEFINE e == [array |-> f.array, left |-> f.n - 1]
    <3>1. e \in F
      BY <2>1, FieldType
    <3>2. stack' = Append(stack, e)
      BY <1>6, <2>1 DEF WritePair, Calls
    <3> HIDE DEF e, F
    <3>3. /\ stack' \in Seq(F) /\ Len(stack') = Len(stack) + 1
          /\ \A j \in 1..Len(stack) : stack'[j] = stack[j]
      BY <1>s, <3>1, <3>2, AppendProperties
    <3>4. Len(stack) + 1 >= 1 /\ 1 \in 1..Len(stack)
      BY <1>s
    <3> QED BY <3>3, <3>4 DEF StackInv, F
  <2>2. CASE ~(f.kind = "map" /\ f.n > 0)
    BY <1>6, <1>u, <2>2 DEF WritePair, Calls
  <2> QED BY <2>1, <2>2
<1>7. CASE UNCHANGED vars
  BY <1>7, <1>u DEF vars
<1> QED BY <1>1, <1>2, <1>3, <1>4, <1>5, <1>6, <1>7 DEF Next

LEMMA ErrorStep == IInv /\ [Next]_vars => ErrorInv'
<1> SUFFICES ASSUME StackInv, ErrorInv, [Next]_vars PROVE ErrorInv'
  BY DEF IInv
<1> USE DEF ErrorInv
<1>r. ASSUME Refuse, pc \in {"enter", "pairs"}, UNCHANGED <<stack, outcome>> PROVE ErrorInv'
  <2>1. Nested' <=> Nested
    BY <1>r DEF Nested
  <2> QED BY <1>r, <2>1 DEF Refuse
<1>1. CASE Enter \/ EnterNil \/ ListEnds
  BY <1>1 DEF Enter, EnterNil, ListEnds
<1>2. CASE RefusedAtEntry
  BY <1>2, <1>r DEF RefusedAtEntry
<1>3. CASE ReturnNil
  BY <1>3 DEF ReturnNil, End
<1>4. CASE ReturnError
  <2>1. CASE Len(stack) = 1
    BY <1>4, <2>1 DEF ReturnError, End
  <2>2. CASE Len(stack) # 1
    <3>1. Len(stack) \in Nat /\ Len(stack) >= 2
      BY <2>2, PopKeeps
    <3>2. /\ stack' = Pop /\ pc' = CallerReturns(Top.array) /\ UNCHANGED <<outcome, refused>>
          /\ outcome = "none"
      BY <1>4, <2>2 DEF ReturnError
    <3>3. CASE Nested
      BY <1>4, <3>2, <3>3
    <3>4. CASE ~Nested
      <4>1. Top.array
        BY <3>1, <3>4 DEF Nested, Top
      <4>2. ~Nested'
        <5> SUFFICES ASSUME NEW i \in 2..Len(stack') PROVE stack'[i].array
          BY DEF Nested
        <5>1. i \in 2..Len(stack) /\ stack'[i] = stack[i]
          BY <2>2, <3>1, <3>2, PopKeeps
        <5> QED BY <3>4, <5>1 DEF Nested
      <4> QED BY <3>2, <4>1, <4>2 DEF CallerReturns
    <3> QED BY <3>3, <3>4
  <2> QED BY <2>1, <2>2
<1>5. ASSUME NEW name \in Names, RefusedName(name) PROVE ErrorInv'
  BY <1>5, <1>r DEF RefusedName
<1>6. ASSUME NEW name \in Names, NEW f \in Fields, RefusedValue(name, f) PROVE ErrorInv'
  BY <1>6, <1>r DEF RefusedValue
<1>7. ASSUME NEW name \in Names, NEW f \in Fields, Panics(name, f) PROVE ErrorInv'
  BY <1>7 DEF Panics, End
<1>8. ASSUME NEW name \in Names, NEW f \in Fields, WritePair(name, f) PROVE ErrorInv'
  BY <1>8 DEF WritePair, Calls
<1>9. CASE UNCHANGED vars
  BY <1>9 DEF vars, Nested
<1> QED BY <1>1, <1>2, <1>3, <1>4, <1>5, <1>6, <1>7, <1>8, <1>9 DEF Next

(* A new end marker or abandoned header lies where the data ended.         *)
LEMMA ZeroKeepsTiles ==
  ASSUME TileInv, UNCHANGED pairs, NEW n \in Nat, NEW k \in Nat, len' = len + k,
         zeros' = zeros \cup {[pos |-> len, size |-> n]}
  PROVE  TileInv'
<1>1. len' \in Nat /\ pairs' \in Seq(PairSet)
  BY DEF TileInv
<1>2. ASSUME NEW i \in 1..Len(pairs)
      PROVE  LET end == pairs[i].pos + pairs[i].size
             IN  \/ \E z \in zeros' : z.pos = end
                 \/ IF i = Len(pairs) THEN len' = end ELSE pairs[i + 1].pos = end
  <2> DEFINE end == pairs[i].pos + pairs[i].size
             new == [pos |-> len, size |-> n]
  <2>1. new \in zeros' /\ new.pos = len
    OBVIOUS
  <2>2. zeros \subseteq zeros'
    OBVIOUS
  <2>3. \/ \E z \in zeros : z.pos = end
        \/ IF i = Len(pairs) THEN len = end ELSE pairs[i + 1].pos = end
    BY DEF TileInv
  <2> HIDE DEF end, new
  <2>4. \/ \E z \in zeros' : z.pos = end
        \/ IF i = Len(pairs) THEN len' = end ELSE pairs[i + 1].pos = end
    BY <2>1, <2>2, <2>3
  <2> QED BY <2>4 DEF end
<1> QED BY <1>1, <1>2 DEF TileInv

LEMMA TileStep == IInv /\ [Next]_vars => TileInv'
<1> SUFFICES ASSUME TileInv, [Next]_vars PROVE TileInv'
  BY DEF IInv
<1>u. ASSUME UNCHANGED <<len, pairs, zeros>> PROVE TileInv'
  BY <1>u DEF TileInv
<1>1. CASE Enter \/ EnterNil \/ RefusedAtEntry \/ ReturnNil \/ ReturnError
  BY <1>1, <1>u DEF Enter, EnterNil, RefusedAtEntry, ReturnNil, ReturnError
<1>2. CASE ListEnds
  <2>1. Trailer \in Nat
    BY DEF Trailer, TrailerLen
  <2> QED BY <1>2, <2>1, ZeroKeepsTiles DEF ListEnds
<1>3. ASSUME NEW name \in Names, RefusedName(name) PROVE TileInv'
  BY <1>3, <1>u DEF RefusedName
<1>4. ASSUME NEW name \in Names, NEW f \in Fields, RefusedValue(name, f) PROVE TileInv'
  <2>1. ValueAt(name) \in Nat /\ PairHeaderLen \in Nat
    BY PairLayout DEF PairHeaderLen
  <2> QED BY <1>4, <2>1, ZeroKeepsTiles DEF RefusedValue
<1>5. ASSUME NEW name \in Names, NEW f \in Fields, Panics(name, f) PROVE TileInv'
  BY <1>5, <1>u DEF Panics
<1>6. ASSUME NEW name \in Names, NEW f \in Fields, WritePair(name, f) PROVE TileInv'
  <2> DEFINE new == PairOf(len, name, f)
             n == Len(pairs)
  <2>0. len \in Nat /\ SizeOf(name, f) \in Nat /\ pairs \in Seq(PairSet)
    BY PairLayout DEF TileInv
  <2>1. /\ pairs' = Append(pairs, new) /\ len' = len + SizeOf(name, f) /\ zeros' = zeros
        /\ new.pos = len /\ new.size = SizeOf(name, f)
    BY <1>6 DEF WritePair, PairOf
  <2>2. new \in PairSet
    <3>1. f \in Writable
      BY <1>6 DEF WritePair, Writable
    <3> QED BY <2>0, <3>1 DEF PairSet
  <2> HIDE DEF new
  <2>3. n \in Nat /\ len' \in Nat
    BY <2>0, <2>1, LenProperties
  <2>4. /\ pairs' \in Seq(PairSet) /\ Len(pairs') = n + 1 /\ pairs'[n + 1] = new
        /\ \A i \in 1..n : pairs'[i] = pairs[i]
    BY <2>0, <2>1, <2>2, AppendProperties
  <2>5. ASSUME NEW i \in 1..(n + 1)
        PROVE  LET end == pairs'[i].pos + pairs'[i].size
               IN  \/ \E z \in zeros' : z.pos = end
                   \/ IF i = n + 1 THEN len' = end ELSE pairs'[i + 1].pos = end
    <3>1. CASE i = n + 1
      BY <2>1, <2>4, <3>1
    <3>2. CASE i = n /\ i # n + 1
      <4>1. i \in 1..n /\ pairs'[i] = pairs[i] /\ pairs'[i + 1].pos = len
        BY <2>1, <2>3, <2>4, <3>2
      <4>2. \/ \E z \in zeros : z.pos = pairs[i].pos + pairs[i].size
            \/ len = pairs[i].pos + pairs[i].size
        BY <3>2, <4>1 DEF TileInv
      <4> QED BY <2>1, <3>2, <4>1, <4>2
    <3>3. CASE i # n /\ i # n + 1
      <4>1. i \in 1..n /\ i + 1 \in 1..n
        BY <2>3, <3>3
      <4>2. \/ \E z \in zeros : z.pos = pairs[i].pos + pairs[i].size
            \/ pairs[i + 1].pos = pairs[i].pos + pairs[i].size
        BY <3>3, <4>1 DEF TileInv
      <4> QED BY <2>1, <2>4, <3>3, <4>1, <4>2
    <3> QED BY <3>1, <3>2, <3>3
  <2> QED BY <2>3, <2>4, <2>5 DEF TileInv
<1>7. CASE UNCHANGED vars
  BY <1>7, <1>u DEF vars
<1> QED BY <1>1, <1>2, <1>3, <1>4, <1>5, <1>6, <1>7 DEF Next

(* Marshal alone, and Marshal followed by Unmarshal.                       *)
LEMMA EncoderIInv == Spec => []IInv
<1>1. IInv /\ [Next]_vars => IInv'
  BY StackStep, ErrorStep, TileStep DEF IInv
<1> QED BY <1>1, EncoderInitIInv, PTL DEF Spec

LEMMA CodecImpliesEncoder == CodecSpec => Spec
<1>1. CodecInit => Init
  BY DEF CodecInit
<1>2. [CodecNext]_<<vars, readVars>> => [Next]_vars
  BY DEF CodecNext, ReadPair, ReadEnd, ReadFails
<1> QED BY <1>1, <1>2, PTL DEF CodecSpec, Spec

(* The other variables of the encoder. *)
MarksInv ==
  /\ zeros \subseteq [pos : Nat, size : Nat]
  /\ pc \in {"enter", "pairs", "return", "fail", "done"}
  /\ outcome \in {"none", "ok", "error", "panic"}
  /\ refused \in {"no", "yes", "nested"}

LEMMA MarksStep == IInv /\ MarksInv /\ [Next]_vars => MarksInv'
<1> SUFFICES ASSUME IInv, MarksInv, [Next]_vars PROVE MarksInv'
  OBVIOUS
<1>0. len \in Nat
  BY DEF IInv, TileInv
<1>1. CASE Enter \/ EnterNil
  BY <1>1 DEF Enter, EnterNil, MarksInv
<1>2. CASE RefusedAtEntry \/ \E name \in Names : RefusedName(name)
  BY <1>2 DEF RefusedAtEntry, RefusedName, Refuse, MarksInv
<1>3. CASE ListEnds
  BY <1>0, <1>3 DEF ListEnds, Trailer, TrailerLen, MarksInv
<1>4. CASE ReturnNil
  BY <1>4 DEF ReturnNil, End, MarksInv
<1>5. CASE ReturnError
  BY <1>5 DEF ReturnError, End, CallerReturns, MarksInv
<1>6. ASSUME NEW name \in Names, NEW f \in Fields, WritePair(name, f) PROVE MarksInv'
  BY <1>6 DEF WritePair, Calls, MarksInv
<1>7. ASSUME NEW name \in Names, NEW f \in Fields, RefusedValue(name, f) PROVE MarksInv'
  BY <1>0, <1>7 DEF RefusedValue, Refuse, PairHeaderLen, MarksInv
<1>8. ASSUME NEW name \in Names, NEW f \in Fields, Panics(name, f) PROVE MarksInv'
  BY <1>8 DEF Panics, End, MarksInv
<1>9. CASE UNCHANGED vars
  BY <1>9 DEF vars, MarksInv
<1> QED BY <1>1, <1>2, <1>3, <1>4, <1>5, <1>6, <1>7, <1>8, <1>9 DEF Next

(* Positions and sizes are natural numbers, and each frame of the stack is *)
(* a call of writeNvPairs with the array elements still to come.           *)
THEOREM EncoderTypeCorrect == Spec => []TypeOK
<1>1. Init => MarksInv
  BY DEF Init, MarksInv
<1>2. ASSUME IInv, MarksInv PROVE TypeOK
  <2>1. len \in Nat /\ pairs \in Seq(PairSet) /\ stack \in Seq([array : BOOLEAN, left : Nat])
    BY <1>2 DEF IInv, TileInv, StackInv
  <2>2. ASSUME NEW i \in DOMAIN pairs PROVE pairs[i].pos \in Nat /\ pairs[i].size \in Nat
    <3>1. pairs[i] \in PairSet
      BY <2>1
    <3>2. PICK p \in Nat, name \in Names, f \in Writable : pairs[i] = PairOf(p, name, f)
      BY <3>1 DEF PairSet
    <3>3. SizeOf(name, f) \in Nat
      BY PairLayout DEF Writable
    <3> QED BY <3>2, <3>3 DEF PairOf
  <2> QED BY <1>2, <2>1, <2>2 DEF TypeOK, MarksInv
<1> QED BY <1>1, <1>2, EncoderIInv, MarksStep, PTL DEF Spec

(* What could not be encoded in the value or in an element of its arrays   *)
(* makes Marshal fail.                                                     *)
THEOREM EncoderErrorsSurface == Spec => []ErrorsSurface
<1>1. IInv => ErrorsSurface
  BY DEF IInv, ErrorInv, ErrorsSurface
<1> QED BY <1>1, EncoderIInv, PTL

(* The sizes endNvPair stores cover the pairs and lead from one to the     *)
(* next.                                                                   *)
THEOREM EncoderPairsTile == Spec => []PairsTile
<1>1. ASSUME IInv PROVE PairsTile
  <2>0. len \in Nat /\ pairs \in Seq(PairSet) /\ Len(pairs) \in Nat /\ DOMAIN pairs = 1..Len(pairs)
    BY <1>1, LenProperties DEF IInv, TileInv
  <2> SUFFICES ASSUME NEW i \in 1..Len(pairs)
               PROVE  LET p == pairs[i]
                          end == p.pos + p.size
                      IN  /\ PairHeaderLen + Written(p.item.name) <= p.at
                          /\ p.at + p.used <= p.size /\ p.size % 8 = 0
                          /\ \/ end = len
                             \/ \E z \in zeros : z.pos = end
                             \/ i < Len(pairs) /\ pairs[i + 1].pos = end
    BY <2>0 DEF PairsTile
  <2>1. pairs[i] \in PairSet
    BY <2>0, ElementOfSeq
  <2>2. PICK p \in Nat, name \in Names, f \in Fields : pairs[i] = PairOf(p, name, f)
    BY <2>1 DEF PairSet, Writable
  <2>3. /\ pairs[i].at = ValueAt(name) /\ pairs[i].used = ValueLen(f)
        /\ pairs[i].size = SizeOf(name, f) /\ pairs[i].item.name = name
    BY <2>2 DEF PairOf, ItemOf, Item
  <2>4. /\ PairHeaderLen + Written(pairs[i].item.name) <= pairs[i].at
        /\ pairs[i].at + pairs[i].used <= pairs[i].size /\ pairs[i].size % 8 = 0
    BY <2>3, PairLayout
  <2>5. LET end == pairs[i].pos + pairs[i].size
        IN  \/ \E z \in zeros : z.pos = end
            \/ IF i = Len(pairs) THEN len = end ELSE pairs[i + 1].pos = end
    BY <1>1, SMTT(30) DEF IInv, TileInv
  <2>6. i # Len(pairs) => i < Len(pairs)
    <3>1. \A k \in Nat : \A j \in 1..k : j # k => j < k
      OBVIOUS
    <3> QED BY <2>0, <3>1, Zenon
  <2> QED BY <2>4, <2>5, <2>6
<1> QED BY <1>1, EncoderIInv, PTL

-----------------------------------------------------------------------------
(* Marshal followed by Unmarshal.  The items of given, in their order, tile *)
(* the data: item i lies from pos[i] to pos[i + 1], and nest[i] are the     *)
(* lists that a reader has open in front of it.                            *)
ItemSet ==
  {EndItem, NilItem, SkippedItem} \cup {ItemOf(name, f) : name \in Names, f \in Writable}

Plain == refused = "no" /\ \A i \in 1..Len(given) : given[i].type # "nil"

Layout(pos) ==
  /\ pos \in [1..(Len(given) + 1) -> Nat]
  /\ pos[1] = HeaderLen /\ pos[Len(given) + 1] = len
  /\ \A i, j \in 1..(Len(given) + 1) : i < j => pos[i] + TrailerLen <= pos[j]
  /\ \A i \in 1..Len(given) :
       IF given[i].type = "end"
       THEN /\ [pos |-> pos[i], size |-> TrailerLen] \in zeros
            /\ pos[i + 1] = pos[i] + TrailerLen
       ELSE \E j \in 1..Len(pairs) : pairs[j].pos = pos[i]
  /\ \A j \in 1..Len(pairs) : \E i \in 1..Len(given) :
       pairs[j].pos = pos[i] /\ pairs[j].item = given[i] /\ pos[i + 1] = pos[i] + pairs[j].size
  /\ \A z \in zeros :
       z.size = TrailerLen /\ \E i \in 1..Len(given) : z.pos = pos[i] /\ given[i].type = "end"

(* The lists open behind an item, and those that writeNvPairs has open.    *)
After(open, item) ==
  IF item.type = "end" THEN Closed(open)
  ELSE IF item.type \in {"nvlist", "nvlistArray"} /\ item.elem > 0
  THEN Append(open, item.elem - 1) ELSE open

Lefts == [i \in 1..Len(stack) |-> stack[i].left]

Nest(nest) ==
  /\ nest \in [1..(Len(given) + 1) -> Seq(Nat)]
  /\ nest[1] = <<0>>
  /\ \A i \in 1..Len(given) : nest[i] # <<>> /\ nest[i + 1] = After(nest[i], given[i])
  /\ LET open == nest[Len(given) + 1]
     IN  /\ pc \in {"enter", "pairs"} => open = Lefts
         /\ pc = "return" => open = Closed(Lefts)
         /\ pc = "done" /\ outcome = "ok" => open = <<>>

GivenInv == given \in Seq(ItemSet)
LayoutInv == Plain => \E pos : Layout(pos)
NestInv == Plain => pc # "fail" /\ \E nest : Nest(nest)

(* Unmarshal has met the first items of given, each as it was meant.       *)
ReadUpTo(pos, nest) ==
  /\ got \in Seq(ItemSet) /\ Len(got) <= Len(given)
  /\ cur = pos[Len(got) + 1] /\ nesting = nest[Len(got) + 1]
  /\ \A i \in 1..Len(got) : got[i] = AsRead(given[i])
  /\ verdict = IF Len(got) = Len(given) THEN "ok" ELSE "none"

ReadInv ==
  IF pc = "done" /\ outcome = "ok"
  THEN Faithful => \E pos, nest : Layout(pos) /\ Nest(nest) /\ ReadUpTo(pos, nest)
  ELSE cur = HeaderLen /\ nesting = <<0>> /\ got = <<>> /\ verdict = "none"

CodecInv == IInv /\ GivenInv /\ LayoutInv /\ NestInv /\ ReadInv

-----------------------------------------------------------------------------
(* The type of a pair by the kind of its value (nvtypeFromKind,            *)
(* nvtypeFromArrayKind, and the case of a bool in writeNvPairs).           *)
LEMMA TypeOfKind ==
  ASSUME NEW f \in Writable
  PROVE  /\ f.kind \in {"int", "uint8", "float64", "bool", "string", "map"}
         /\ f.kind = "int" => TypeOf(f) = IF f.array THEN "intArray" ELSE "int"
         /\ f.kind = "uint8" => TypeOf(f) = IF f.array THEN "byteArray" ELSE "byte"
         /\ f.kind = "float64" => ~f.array /\ TypeOf(f) = "double"
         /\ f.kind = "bool" => TypeOf(f) = IF f.array THEN "booleanArray" ELSE "boolean"
         /\ f.kind = "string" => TypeOf(f) = IF f.array THEN "stringArray" ELSE "string"
         /\ f.kind = "map" => TypeOf(f) = IF f.array THEN "nvlistArray" ELSE "nvlist"
<1>1. f \in Fields /\ ~FieldRefused(f) /\ f.kind # "interface"
  BY DEF Writable
<1>2. f.kind \in Kinds /\ f.array \in BOOLEAN
  BY <1>1, FieldType
<1>3. f.kind \in {"int", "uint8", "float64", "bool", "string", "map"}
  BY <1>1, <1>2 DEF FieldRefused, Kinds
<1>4. f.kind = "float64" => ~f.array
  BY <1>1 DEF FieldRefused
<1> QED BY <1>2, <1>3, <1>4 DEF TypeOf, nvtypeFromKind, nvtypeFromArrayKind

(* Reading the value of a pair takes no more bytes than were written.      *)
LEMMA ReadLenBound ==
  ASSUME NEW name \in Names, NEW f \in Writable, NEW x \in Nat
  PROVE  ReadLen(PairOf(x, name, f)) \in Nat /\ ReadLen(PairOf(x, name, f)) <= ValueLen(f)
<1> DEFINE p == PairOf(x, name, f)
           w == Written(f.str)
<1>0. f \in Fields
  BY DEF Writable
<1>1. /\ f.array \in BOOLEAN /\ f.n \in Nat /\ f.width \in Nat /\ (~f.array => f.n = 1)
      /\ w \in Nat /\ ValueLen(f) \in Nat
  BY <1>0, FieldType, WrittenType, ValueLenType
<1>2. /\ p.item.type = TypeOf(f) /\ p.item.elem = ElemsOf(f) /\ p.width = f.width
      /\ f.kind = "string" => Written(p.item.str) = w
  BY DEF PairOf, ItemOf, Item
<1>3. f.n * w \in Nat /\ f.n * f.width \in Nat
  BY <1>1, NatProduct
<1> HIDE DEF p, w
<1>4. CASE f.kind \in {"int", "uint8"}
  <2>1. ElemsOf(f) = f.n /\ ValueLen(f) = f.n * f.width
    BY <1>4 DEF ElemsOf, ValueLen
  <2>2. CASE f.array
    <3>1. ReadLen(p) = f.n * f.width
      BY <1>2, <1>4, <2>1, <2>2, TypeOfKind DEF ReadLen
    <3> QED BY <1>3, <2>1, <3>1 DEF p
  <2>3. CASE ~f.array
    <3>1. ReadLen(p) = f.width
      BY <1>2, <1>4, <2>1, <2>3, TypeOfKind DEF ReadLen
    <3>2. f.n * f.width = f.width
      BY <1>1, <2>3
    <3> QED BY <1>1, <2>1, <3>1, <3>2 DEF p
  <2> QED BY <1>1, <2>2, <2>3
<1>5. CASE f.kind \in {"float64", "map"}
  <2>1. ReadLen(p) = 0
    BY <1>1, <1>2, <1>5, TypeOfKind DEF ReadLen
  <2> QED BY <1>1, <2>1 DEF p
<1>6. CASE f.kind = "bool"
  <2>1. ReadLen(p) = IF f.array THEN 4 * f.n ELSE 0
    BY <1>1, <1>2, <1>6, TypeOfKind DEF ReadLen, ElemsOf
  <2>2. ValueLen(f) = IF f.array THEN 4 * f.n ELSE 0
    BY <1>6 DEF ValueLen
  <2> QED BY <1>1, <2>1, <2>2 DEF p
<1>7. CASE f.kind = "string"
  <2>1. ElemsOf(f) = f.n /\ ValueLen(f) = (IF f.array THEN 8 * f.n ELSE 0) + f.n * w
    BY <1>7 DEF ElemsOf, ValueLen, w
  <2>2. CASE f.array
    <3>1. ReadLen(p) = 8 * f.n + f.n * w
      BY <1>2, <1>7, <2>1, <2>2, TypeOfKind DEF ReadLen
    <3> QED BY <1>1, <1>3, <2>1, <2>2, <3>1 DEF p
  <2>3. CASE ~f.array
    <3>1. ReadLen(p) = w
      BY <1>2, <1>7, <2>1, <2>3, TypeOfKind DEF ReadLen
    <3>2. f.n * w = w
      BY <1>1, <2>3
    <3> QED BY <1>1, <2>1, <2>3, <3>1, <3>2 DEF p
  <2> QED BY <1>1, <2>2, <2>3
<1> QED BY <1>4, <1>5, <1>6, <1>7, TypeOfKind DEF p

(* What is in a pair, whatever its name and value.                         *)
LEMMA PairFacts ==
  ASSUME NEW p \in PairSet
  PROVE  /\ p.item \in ItemSet /\ p.item.type \notin {"end", "nil", "skipped"}
         /\ p.pos \in Nat /\ p.size \in Nat /\ p.size >= TrailerLen
<1>1. PICK x \in Nat, name \in Names, f \in Writable : p = PairOf(x, name, f)
  BY DEF PairSet
<1>2. p.item = ItemOf(name, f) /\ p.item.type = TypeOf(f) /\ p.pos = x /\ p.size = SizeOf(name, f)
  BY <1>1 DEF PairOf, ItemOf, Item
<1>3. p.item \in ItemSet
  BY <1>2 DEF ItemSet
<1>4. f \in Fields /\ f.array \in BOOLEAN
  BY FieldType DEF Writable
<1>5. TypeOf(f) \notin {"end", "nil", "skipped"}
  BY <1>4, TypeOfKind
<1>6. Written(name) \in Nat
  BY WrittenType, EncoderAssumption
<1>7. SizeOf(name, f) \in Nat /\ SizeOf(name, f) >= 4
  <2>1. /\ ValueAt(name) \in Nat /\ SizeOf(name, f) \in Nat /\ ValueLen(f) \in Nat
        /\ 16 + Written(name) <= ValueAt(name) /\ ValueAt(name) + ValueLen(f) <= SizeOf(name, f)
    BY <1>4, PairLayout DEF PairHeaderLen
  <2> QED BY <1>6, <2>1
<1> QED BY <1>2, <1>3, <1>5, <1>7 DEF TrailerLen

(* A pair without null bytes inside its name and string is read as it was  *)
(* meant: the reader looks for the value where the writer put it.          *)
LEMMA PairRead ==
  ASSUME NEW p \in PairSet, p.item.name.nul = 0, p.item.str.nul = 0
  PROVE  /\ PairHeaderLen + p.name_sz <= p.size
         /\ ReadAt(p) + ReadLen(p) <= p.size
         /\ Terminated(p) /\ Decoded(p) = AsRead(p.item)
<1>1. PICK x \in Nat, name \in Names, f \in Writable : p = PairOf(x, name, f)
  BY DEF PairSet
<1>2. /\ p.item = ItemOf(name, f) /\ p.item.name = name
      /\ p.size = SizeOf(name, f) /\ p.name_sz = name.len + 1 /\ p.at = ValueAt(name)
  BY <1>1 DEF PairOf, ItemOf, Item
<1>3. f \in Fields
  BY DEF Writable
<1>4. name \in Strings /\ Written(name) = p.name_sz /\ Written(name) \in Nat
  BY <1>2, WrittenType, EncoderAssumption DEF Written
<1>5. /\ ValueAt(name) \in Nat /\ SizeOf(name, f) \in Nat /\ ValueLen(f) \in Nat
      /\ PairHeaderLen + Written(name) <= ValueAt(name)
      /\ ValueAt(name) + ValueLen(f) <= SizeOf(name, f)
  BY <1>3, PairLayout
<1>6. ReadAt(p) = p.at
  BY <1>2, <1>4 DEF ReadAt, ValueAt
<1>7. ReadLen(p) \in Nat /\ ReadLen(p) <= ValueLen(f)
  BY <1>1, ReadLenBound
<1>8. PairHeaderLen + p.name_sz <= p.size
  BY <1>2, <1>4, <1>5 DEF PairHeaderLen
<1>9. ReadAt(p) + ReadLen(p) <= p.size
  BY <1>2, <1>5, <1>6, <1>7
<1>10. Terminated(p)
  BY DEF Terminated
<1>11. Decoded(p) = AsRead(p.item)
  <2>1. Another(p.item.name) = p.item.name /\ Another(p.item.str) = p.item.str
    BY DEF Another
  <2>2. p.item = [p.item EXCEPT !.name = Another(@), !.str = Another(@),
                                !.elem = IF ReadAt(p) = p.at THEN @ ELSE -1]
    <3>1. p.item = [name |-> p.item.name, type |-> p.item.type, elem |-> p.item.elem,
                    str |-> p.item.str]
      BY <1>2 DEF ItemOf, Item
    <3> QED BY <1>6, <2>1, <3>1, Zenon
  <2> QED BY <2>2 DEF Decoded, AsRead
<1> QED BY <1>8, <1>9, <1>10, <1>11

-----------------------------------------------------------------------------
(* The encoder only ever adds to given, and what it refused stays refused. *)
LEMMA GivenStep ==
  ASSUME IInv, GivenInv, [Next]_vars
  PROVE  /\ GivenInv'
         /\ \/ given' = given
            \/ \E x \in ItemSet : given' = Append(given, x)
         /\ refused' = "no" => refused = "no"
<1>a. ASSUME NEW x \in ItemSet, given' = Append(given, x) PROVE GivenInv'
  BY <1>a, AppendProperties DEF GivenInv
<1>u. ASSUME UNCHANGED given PROVE GivenInv'
  BY <1>u DEF GivenInv
<1>i. EndItem \in ItemSet /\ NilItem \in ItemSet
  BY DEF ItemSet
<1>1. CASE Enter \/ ReturnNil \/ ReturnError
  BY <1>1, <1>u DEF Enter, ReturnNil, ReturnError
<1>2. CASE EnterNil
  BY <1>2, <1>a, <1>i DEF EnterNil
<1>3. CASE ListEnds
  BY <1>3, <1>a, <1>i DEF ListEnds
<1>4. CASE RefusedAtEntry
  BY <1>4, <1>u DEF RefusedAtEntry, Refuse
<1>5. ASSUME NEW name \in Names, RefusedName(name)
      PROVE  GivenInv' /\ given' = given /\ (refused' = "no" => refused = "no")
  BY <1>5, <1>u DEF RefusedName, Refuse
<1>6. ASSUME NEW name \in Names, NEW f \in Fields, RefusedValue(name, f) \/ Panics(name, f)
      PROVE  GivenInv' /\ given' = given /\ (refused' = "no" => refused = "no")
  BY <1>6, <1>u DEF RefusedValue, Panics, Refuse
<1>7. ASSUME NEW name \in Names, NEW f \in Fields, WritePair(name, f)
      PROVE  /\ GivenInv' /\ refused' = refused
             /\ \E x \in ItemSet : given' = Append(given, x)
  <2>1. ItemOf(name, f) \in ItemSet
    BY <1>7 DEF WritePair, Writable, ItemSet
  <2>2. given' = Append(given, ItemOf(name, f)) /\ refused' = refused
    BY <1>7 DEF WritePair
  <2> QED BY <1>a, <2>1, <2>2
<1>8. CASE UNCHANGED vars
  BY <1>8, <1>u DEF vars
<1> QED BY <1>1, <1>2, <1>3, <1>4, <1>5, <1>6, <1>7, <1>8 DEF Next

(* So a value met without refusal or nil pointer was so all along.         *)
LEMMA PlainBefore ==
  ASSUME IInv, GivenInv, [Next]_vars, Plain'
  PROVE  Plain
<1>1. refused = "no"
  BY GivenStep DEF Plain
<1>2. CASE given' = given
  BY <1>1, <1>2 DEF Plain
<1>3. ASSUME NEW x \in ItemSet, given' = Append(given, x) PROVE Plain
  <2>1. /\ Len(given) \in Nat /\ Len(given') = Len(given) + 1
        /\ \A i \in 1..Len(given) : given'[i] = given[i]
    BY <1>3, AppendProperties, LenProperties DEF GivenInv
  <2>2. \A i \in 1..Len(given) : i \in 1..Len(given')
    BY <2>1
  <2> QED BY <1>1, <2>1, <2>2 DEF Plain
<1> QED BY <1>2, <1>3, GivenStep

-----------------------------------------------------------------------------
(* One more item behind the data: the places of the earlier ones stay.     *)
LEMMA PosGrows ==
  ASSUME GivenInv, NEW x \in ItemSet, given' = Append(given, x), len \in Nat,
         NEW k \in Nat, k >= TrailerLen, len' = len + k, NEW pos, Layout(pos)
  PROVE  /\ Len(given) \in Nat /\ Len(given') = Len(given) + 1
         /\ \A i \in 1..Len(given) : given'[i] = given[i]
         /\ given'[Len(given) + 1] = x
         /\ \E q \in [1..(Len(given) + 2) -> Nat] :
              /\ \A i \in 1..(Len(given) + 1) : q[i] = pos[i]
              /\ q[Len(given) + 2] = len'
              /\ \A i, j \in 1..(Len(given) + 2) : i < j => q[i] + TrailerLen <= q[j]
<1>1. /\ Len(given) \in Nat /\ Len(given') = Len(given) + 1
      /\ \A i \in 1..Len(given) : given'[i] = given[i]
      /\ given'[Len(given) + 1] = x
  BY AppendProperties, LenProperties DEF GivenInv
<1> DEFINE n == Len(given)
           q == [i \in 1..(n + 2) |-> IF i = n + 2 THEN len' ELSE pos[i]]
<1>2. n \in Nat /\ len' \in Nat /\ k >= 4
  BY <1>1 DEF TrailerLen
<1>3. /\ pos \in [1..(n + 1) -> Nat] /\ pos[n + 1] = len
      /\ \A i, j \in 1..(n + 1) : i < j => pos[i] + 4 <= pos[j]
  BY DEF Layout, TrailerLen
<1> HIDE DEF n
<1>4. q \in [1..(n + 2) -> Nat]
  BY <1>2, <1>3
<1>5. (\A i \in 1..(n + 1) : q[i] = pos[i]) /\ q[n + 2] = len'
  BY <1>2
<1>6. ASSUME NEW i \in 1..(n + 2), NEW j \in 1..(n + 2), i < j PROVE q[i] + 4 <= q[j]
  <2>1. i \in 1..(n + 1) /\ q[i] = pos[i] /\ pos[i] \in Nat
    BY <1>2, <1>3, <1>5, <1>6
  <2>2. CASE j = n + 2
    <3>1. pos[i] <= len
      <4>1. i = n + 1 \/ i < n + 1
        BY <1>2, <2>1
      <4>2. n + 1 \in 1..(n + 1)
        BY <1>2
      <4>3. CASE i = n + 1
        BY <1>3, <4>3
      <4>4. CASE i < n + 1
        BY <1>3, <2>1, <4>2, <4>4
      <4> QED BY <4>1, <4>3, <4>4
    <3>2. q[j] = len'
      BY <1>5, <2>2
    <3> HIDE DEF q
    <3> QED BY <1>2, <2>1, <3>1, <3>2
  <2>3. CASE j # n + 2
    <3>1. j \in 1..(n + 1)
      BY <1>2, <2>3
    <3> QED BY <1>3, <1>5, <1>6, <2>1, <3>1, SMTT(30)
  <2> QED BY <2>2, <2>3
<1> HIDE DEF q
<1> QED BY <1>1, <1>4, <1>5, <1>6 DEF n, TrailerLen

LEMMA LayoutStep ==
  ASSUME IInv, GivenInv, LayoutInv, [Next]_vars
  PROVE  LayoutInv'
<1> SUFFICES ASSUME Plain' PROVE \E q : Layout(q)'
  BY DEF LayoutInv
<1>0. PICK pos : Layout(pos)
  BY PlainBefore DEF LayoutInv
<1>t. len \in Nat /\ pairs \in Seq(PairSet) /\ Len(pairs) \in Nat
  BY LenProperties DEF IInv, TileInv
<1>u. ASSUME UNCHANGED <<len, pairs, zeros, given>> PROVE \E q : Layout(q)'
  BY <1>0, <1>u, Zenon DEF Layout
<1>r. ASSUME Refuse PROVE FALSE
  BY <1>r DEF Refuse, Plain
<1>1. CASE Enter \/ ReturnNil \/ ReturnError
  BY <1>1, <1>u DEF Enter, ReturnNil, ReturnError
<1>2. CASE EnterNil
  <2>1. given' = Append(given, NilItem)
    BY <1>2 DEF EnterNil
  <2>2. Len(given) \in Nat /\ Len(given') = Len(given) + 1 /\ given'[Len(given) + 1] = NilItem
    <3>1. NilItem \in ItemSet
      BY DEF ItemSet
    <3> HIDE DEF NilItem
    <3> QED BY <2>1, <3>1, AppendProperties, LenProperties DEF GivenInv
  <2>3. Len(given) + 1 \in 1..Len(given') /\ NilItem.type = "nil"
    BY <2>2 DEF NilItem, Item
  <2> QED BY <2>2, <2>3 DEF Plain
<1>3. CASE ListEnds
  <2> DEFINE n == Len(given)
             z == [pos |-> len, size |-> TrailerLen]
  <2>1. /\ given' = Append(given, EndItem) /\ len' = len + TrailerLen
        /\ zeros' = zeros \cup {z} /\ pairs' = pairs
    BY <1>3 DEF ListEnds, Trailer
  <2>2. EndItem \in ItemSet /\ EndItem.type = "end" /\ TrailerLen \in Nat /\ TrailerLen >= TrailerLen
    BY DEF ItemSet, EndItem, Item, TrailerLen
  <2>3. /\ n \in Nat /\ Len(given') = n + 1 /\ given'[n + 1] = EndItem
        /\ \A i \in 1..n : given'[i] = given[i]
    BY <1>0, <1>t, <2>1, <2>2, PosGrows
  <2>4. PICK q \in [1..(n + 2) -> Nat] :
          /\ \A i \in 1..(n + 1) : q[i] = pos[i]
          /\ q[n + 2] = len'
          /\ \A i, j \in 1..(n + 2) : i < j => q[i] + TrailerLen <= q[j]
    BY <1>0, <1>t, <2>1, <2>2, PosGrows
  <2>5. z \in zeros' /\ z.pos = len /\ z.size = TrailerLen /\ zeros \subseteq zeros'
    BY <2>1
  <2>6. /\ pos[1] = HeaderLen /\ pos[n + 1] = len
        /\ \A i \in 1..n :
             IF given[i].type = "end"
             THEN /\ [pos |-> pos[i], size |-> TrailerLen] \in zeros
                  /\ pos[i + 1] = pos[i] + TrailerLen
             ELSE \E j \in 1..Len(pairs) : pairs[j].pos = pos[i]
        /\ \A j \in 1..Len(pairs) : \E i \in 1..n :
             pairs[j].pos = pos[i] /\ pairs[j].item = given[i] /\ pos[i + 1] = pos[i] + pairs[j].size
        /\ \A y \in zeros :
             y.size = TrailerLen /\ \E i \in 1..n : y.pos = pos[i] /\ given[i].type = "end"
    BY <1>0 DEF Layout
  <2> HIDE DEF n
  <2>n. /\ n + 1 + 1 = n + 2 /\ 1 \in 1..(n + 1) /\ n + 1 \in 1..(n + 1)
        /\ \A i \in 1..n : i \in 1..(n + 1) /\ i + 1 \in 1..(n + 1)
        /\ \A i \in 1..(n + 1) : i = n + 1 \/ i \in 1..n
    BY <2>3
  <2>7. ASSUME NEW i \in 1..(n + 1)
        PROVE  IF given'[i].type = "end"
               THEN /\ [pos |-> q[i], size |-> TrailerLen] \in zeros'
                    /\ q[i + 1] = q[i] + TrailerLen
               ELSE \E j \in 1..Len(pairs') : pairs'[j].pos = q[i]
    <3>1. CASE i = n + 1
      BY <2>1, <2>2, <2>3, <2>4, <2>5, <2>6, <2>n, <3>1
    <3>2. CASE i \in 1..n
      <4>1. q[i] = pos[i] /\ q[i + 1] = pos[i + 1] /\ given'[i] = given[i]
        BY <2>3, <2>4, <2>n, <3>2
      <4> QED BY <2>1, <2>5, <2>6, <3>2, <4>1
    <3> QED BY <2>n, <3>1, <3>2
  <2>8. ASSUME NEW j \in 1..Len(pairs)
        PROVE  \E i \in 1..(n + 1) :
                 pairs[j].pos = q[i] /\ pairs[j].item = given'[i] /\ q[i + 1] = q[i] + pairs[j].size
    <3>1. PICK i \in 1..n : /\ pairs[j].pos = pos[i] /\ pairs[j].item = given[i]
                            /\ pos[i + 1] = pos[i] + pairs[j].size
      BY <2>6
    <3>2. q[i] = pos[i] /\ q[i + 1] = pos[i + 1] /\ given'[i] = given[i] /\ i \in 1..(n + 1)
      BY <2>3, <2>4, <2>n
    <3> QED BY <3>1, <3>2
  <2>9. ASSUME NEW y \in zeros'
        PROVE  y.size = TrailerLen /\ \E i \in 1..(n + 1) : y.pos = q[i] /\ given'[i].type = "end"
    <3>1. CASE y = z
      BY <2>2, <2>3, <2>4, <2>5, <2>6, <2>n, <3>1
    <3>2. CASE y \in zeros
      <4>1. PICK i \in 1..n : y.pos = pos[i] /\ given[i].type = "end"
        BY <2>6, <3>2
      <4>2. q[i] = pos[i] /\ given'[i] = given[i] /\ i \in 1..(n + 1)
        BY <2>3, <2>4, <2>n
      <4> QED BY <2>6, <3>2, <4>1, <4>2
    <3> QED BY <2>1, <3>1, <3>2, Zenon
  <2>10. q[1] = HeaderLen
    BY <2>4, <2>6, <2>n
  <2>11. /\ q \in [1..(Len(given') + 1) -> Nat] /\ q[Len(given') + 1] = len'
         /\ \A i, j \in 1..(Len(given') + 1) : i < j => q[i] + TrailerLen <= q[j]
    BY <2>3, <2>4, <2>n
  <2>12. Layout(q)'
    <3>1. \A j \in 1..Len(pairs') : \E i \in 1..(n + 1) :
            /\ pairs'[j].pos = q[i] /\ pairs'[j].item = given'[i]
            /\ q[i + 1] = q[i] + pairs'[j].size
      BY <2>1, <2>8, Zenon
    <3> QED BY <2>3, <2>7, <2>9, <2>10, <2>11, <3>1 DEF Layout
  <2> QED BY <2>12
<1>4. ASSUME NEW name \in Names, NEW f \in Fields, WritePair(name, f) PROVE \E q : Layout(q)'
  <2> DEFINE n == Len(given)
             m == Len(pairs)
             x == ItemOf(name, f)
             new == PairOf(len, name, f)
  <2>1. /\ given' = Append(given, x) /\ len' = len + SizeOf(name, f)
        /\ zeros' = zeros /\ pairs' = Append(pairs, new)
        /\ new.pos = len /\ new.size = SizeOf(name, f) /\ new.item = x
    BY <1>4 DEF WritePair, PairOf
  <2>2. new \in PairSet
    BY <1>4, <1>t DEF WritePair, PairSet, Writable
  <2>3. x \in ItemSet /\ x.type # "end" /\ SizeOf(name, f) \in Nat /\ SizeOf(name, f) >= TrailerLen
    BY <2>1, <2>2, PairFacts
  <2> HIDE DEF x, new
  <2>4. /\ n \in Nat /\ Len(given') = n + 1 /\ given'[n + 1] = x
        /\ \A i \in 1..n : given'[i] = given[i]
    BY <1>0, <1>t, <2>1, <2>3, PosGrows
  <2>5. PICK q \in [1..(n + 2) -> Nat] :
          /\ \A i \in 1..(n + 1) : q[i] = pos[i]
          /\ q[n + 2] = len'
          /\ \A i, j \in 1..(n + 2) : i < j => q[i] + TrailerLen <= q[j]
    BY <1>0, <1>t, <2>1, <2>3, PosGrows, SMTT(30)
  <2>6. /\ m \in Nat /\ Len(pairs') = m + 1 /\ pairs'[m + 1] = new
        /\ \A j \in 1..m : pairs'[j] = pairs[j]
    BY <1>t, <2>1, <2>2, AppendProperties
  <2>7. /\ pos[1] = HeaderLen /\ pos[n + 1] = len
        /\ \A i \in 1..n :
             IF given[i].type = "end"
             THEN /\ [pos |-> pos[i], size |-> TrailerLen] \in zeros
                  /\ pos[i + 1] = pos[i] + TrailerLen
             ELSE \E j \in 1..m : pairs[j].pos = pos[i]
        /\ \A j \in 1..m : \E i \in 1..n :
             pairs[j].pos = pos[i] /\ pairs[j].item = given[i] /\ pos[i + 1] = pos[i] + pairs[j].size
        /\ \A y \in zeros :
             y.size = TrailerLen /\ \E i \in 1..n : y.pos = pos[i] /\ given[i].type = "end"
    BY <1>0 DEF Layout
  <2> HIDE DEF n, m
  <2>n. /\ n + 1 + 1 = n + 2 /\ 1 \in 1..(n + 1) /\ n + 1 \in 1..(n + 1)
        /\ \A i \in 1..n : i \in 1..(n + 1) /\ i + 1 \in 1..(n + 1)
        /\ \A i \in 1..(n + 1) : i = n + 1 \/ i \in 1..n
    BY <2>4
  <2>m. /\ m + 1 \in 1..(m + 1) /\ \A j \in 1..m : j \in 1..(m + 1)
        /\ \A j \in 1..(m + 1) : j = m + 1 \/ j \in 1..m
    BY <2>6
  <2>8. ASSUME NEW i \in 1..(n + 1)
        PROVE  IF given'[i].type = "end"
               THEN /\ [pos |-> q[i], size |-> TrailerLen] \in zeros'
                    /\ q[i + 1] = q[i] + TrailerLen
               ELSE \E j \in 1..(m + 1) : pairs'[j].pos = q[i]
    <3>1. CASE i = n + 1
      BY <2>1, <2>3, <2>4, <2>5, <2>6, <2>7, <2>n, <2>m, <3>1, SMTT(30)
    <3>2. CASE i \in 1..n
      <4>1. q[i] = pos[i] /\ q[i + 1] = pos[i + 1] /\ given'[i] = given[i]
        BY <2>4, <2>5, <2>n, <3>2
      <4>2. CASE given[i].type = "end"
        BY <2>1, <2>7, <3>2, <4>1, <4>2
      <4>3. CASE given[i].type # "end"
        <5>1. PICK j \in 1..m : pairs[j].pos = pos[i]
          BY <2>7, <3>2, <4>3, Zenon
        <5>2. j \in 1..(m + 1) /\ pairs'[j] = pairs[j]
          BY <2>6, <2>m
        <5> QED BY <4>1, <4>3, <5>1, <5>2
      <4> QED BY <4>2, <4>3
    <3> QED BY <2>n, <3>1, <3>2
  <2>9. ASSUME NEW j \in 1..(m + 1)
        PROVE  \E i \in 1..(n + 1) : /\ pairs'[j].pos = q[i] /\ pairs'[j].item = given'[i]
                                     /\ q[i + 1] = q[i] + pairs'[j].size
    <3>1. CASE j = m + 1
      <4>1. q[n + 1] = len /\ q[n + 1 + 1] = len + SizeOf(name, f) /\ given'[n + 1] = x
        BY <2>1, <2>4, <2>5, <2>7, <2>n
      <4> QED BY <2>1, <2>6, <2>n, <3>1, <4>1, Zenon
    <3>2. CASE j \in 1..m
      <4>1. PICK i \in 1..n : /\ pairs[j].pos = pos[i] /\ pairs[j].item = given[i]
                              /\ pos[i + 1] = pos[i] + pairs[j].size
        BY <2>7, <3>2
      <4>2. q[i] = pos[i] /\ q[i + 1] = pos[i + 1] /\ given'[i] = given[i] /\ i \in 1..(n + 1)
        BY <2>4, <2>5, <2>n
      <4> QED BY <2>6, <3>2, <4>1, <4>2
    <3> QED BY <2>m, <3>1, <3>2
  <2>10. ASSUME NEW y \in zeros'
         PROVE  y.size = TrailerLen /\ \E i \in 1..(n + 1) : y.pos = q[i] /\ given'[i].type = "end"
    <3>1. PICK i \in 1..n : y.pos = pos[i] /\ given[i].type = "end"
      BY <2>1, <2>7
    <3>2. q[i] = pos[i] /\ given'[i] = given[i] /\ i \in 1..(n + 1)
      BY <2>4, <2>5, <2>n
    <3> QED BY <2>1, <2>7, <3>1, <3>2, Zenon
  <2>11. q[1] = HeaderLen
    BY <2>5, <2>7, <2>n
  <2>12. /\ q \in [1..(Len(given') + 1) -> Nat] /\ q[Len(given') + 1] = len'
         /\ \A i, j \in 1..(Len(given') + 1) : i < j => q[i] + TrailerLen <= q[j]
    BY <2>4, <2>5, <2>n
  <2>13. Layout(q)'
    BY <2>4, <2>6, <2>8, <2>9, <2>10, <2>11, <2>12, SMTT(30) DEF Layout
  <2> QED BY <2>13
<1>5. CASE RefusedAtEntry
  BY <1>5, <1>r DEF RefusedAtEntry
<1>6. ASSUME NEW name \in Names, RefusedName(name) PROVE FALSE
  BY <1>6, <1>r DEF RefusedName
<1>7. ASSUME NEW name \in Names, NEW f \in Fields, RefusedValue(name, f) PROVE FALSE
  BY <1>7, <1>r DEF RefusedValue
<1>8. ASSUME NEW name \in Names, NEW f \in Fields, Panics(name, f) PROVE \E q : Layout(q)'
  BY <1>8, <1>u DEF Panics
<1>9. CASE UNCHANGED vars
  BY <1>9, <1>u DEF vars
<1> QED BY <1>1, <1>2, <1>3, <1>4, <1>5, <1>6, <1>7, <1>8, <1>9 DEF Next

-----------------------------------------------------------------------------
LEMMA LeftsType ==
  ASSUME StackInv
  PROVE  /\ Lefts \in Seq(Nat) /\ Len(stack) \in Nat /\ Len(stack) >= 1
         /\ Len(Lefts) = Len(stack) /\ Lefts # <<>>
         /\ \A i \in 1..Len(stack) : Lefts[i] = stack[i].left /\ stack[i].left \in Nat
<1> DEFINE F == [array : BOOLEAN, left : Nat]
<1>0. stack \in Seq(F) /\ Len(stack) >= 1
  BY DEF StackInv
<1>1. Len(stack) \in Nat /\ \A i \in 1..Len(stack) : stack[i] \in F
  <2> HIDE DEF F
  <2> QED BY <1>0, LenProperties, ElementOfSeq
<1>2. \A i \in 1..Len(stack) : stack[i].left \in Nat
  BY <1>1
<1> HIDE DEF F
<1>3. Lefts \in [1..Len(stack) -> Nat]
  BY <1>2 DEF Lefts
<1>4. Lefts \in Seq(Nat) /\ Len(Lefts) = Len(stack)
  BY <1>1, <1>3
<1>5. Lefts # <<>>
  BY <1>0, <1>1, <1>4, EmptySeq
<1> QED BY <1>0, <1>1, <1>2, <1>4, <1>5 DEF Lefts

LEMMA ClosedType ==
  ASSUME NEW s \in Seq(Nat), s # <<>>
  PROVE  Closed(s) \in Seq(Nat)
<1>1. Len(s) \in Nat /\ Len(s) >= 1 /\ Len(s) \in 1..Len(s)
  <2>1. Len(s) \in Nat \ {0}
    BY EmptySeq
  <2> QED BY <2>1
<1>2. s[Len(s)] \in Nat
  BY <1>1, ElementOfSeq
<1>3. CASE s[Len(s)] > 0
  <2>1. s[Len(s)] - 1 \in Nat
    BY <1>2, <1>3
  <2>2. [s EXCEPT ![Len(s)] = s[Len(s)] - 1] \in Seq(Nat)
    BY <1>1, <2>1, ExceptSeq
  <2> QED BY <1>3, <2>2 DEF Closed
<1>4. CASE ~(s[Len(s)] > 0)
  <2>1. \A i \in 1..(Len(s) - 1) : s[i] \in Nat
    BY <1>1, ElementOfSeq
  <2>2. SubSeq(s, 1, Len(s) - 1) \in Seq(Nat)
    BY <1>1, <2>1, SubSeqProperties
  <2> QED BY <1>4, <2>2 DEF Closed
<1> QED BY <1>3, <1>4

(* The caller that writeNvPairs returns to has the lists open that the end *)
(* marker left open.                                                       *)
LEMMA ReturnCloses ==
  ASSUME StackInv, ReturnNil
  PROVE  /\ Len(stack) = 1 => Closed(Lefts) = <<>>
         /\ Len(stack) # 1 => Lefts' = Closed(Lefts)
<1> DEFINE n == Len(stack)
<1>1. /\ Lefts \in Seq(Nat) /\ n \in Nat /\ n >= 1 /\ Len(Lefts) = n
      /\ \A i \in 1..n : Lefts[i] = stack[i].left /\ stack[i].left \in Nat
  BY LeftsType
<1>2. CASE n = 1
  <2>1. Lefts[1] = 0
    BY <1>1, <1>2 DEF StackInv
  <2>2. Closed(Lefts) = SubSeq(Lefts, 1, 0)
    BY <1>1, <1>2, <2>1 DEF Closed
  <2> QED BY <1>2, <2>2, SubSeqEmpty
<1>3. CASE n # 1 /\ Top.left > 0
  <2>1. stack' = [stack EXCEPT ![n].left = @ - 1]
    BY <1>3 DEF ReturnNil
  <2>2. n \in 1..n /\ Lefts[n] = Top.left
    BY <1>1 DEF Top
  <2> DEFINE F == [array : BOOLEAN, left : Nat]
             e == [stack[n] EXCEPT !.left = @ - 1]
  <2>3. stack \in Seq(F) /\ stack[n] \in F
    <3>1. stack \in Seq(F)
      BY DEF StackInv
    <3> HIDE DEF F
    <3> QED BY <2>2, <3>1, ElementOfSeq
  <2>4. e \in F /\ e.left = Lefts[n] - 1
    BY <1>3, <2>2, <2>3 DEF Top
  <2>5. stack' = [stack EXCEPT ![n] = e]
    BY <2>1
  <2> HIDE DEF e, F
  <2>6. Len(stack') = n /\ \A i \in 1..n : stack'[i] = IF i = n THEN e ELSE stack[i]
    BY <2>2, <2>3, <2>4, <2>5, ExceptSeq, SMTT(30)
  <2>7. Lefts' = [i \in 1..n |-> IF i = n THEN Lefts[n] - 1 ELSE Lefts[i]]
    BY <1>1, <2>4, <2>6, Zenon DEF Lefts
  <2>8. Closed(Lefts) = [Lefts EXCEPT ![n] = Lefts[n] - 1]
    BY <1>1, <1>3, <2>2 DEF Closed
  <2>9. DOMAIN Lefts = 1..n
    BY DEF Lefts
  <2>10. [Lefts EXCEPT ![n] = Lefts[n] - 1] = [i \in 1..n |-> IF i = n THEN Lefts[n] - 1 ELSE Lefts[i]]
    BY <2>9, Zenon
  <2> QED BY <1>3, <2>7, <2>8, <2>10
<1>4. CASE n # 1 /\ ~(Top.left > 0)
  <2>1. stack' = Pop
    BY <1>4 DEF ReturnNil
  <2>2. n >= 2 /\ Len(stack') = n - 1 /\ \A i \in 1..(n - 1) : stack'[i] = stack[i]
    BY <1>4, <2>1, PopKeeps
  <2>3. n \in 1..n /\ Lefts[n] = Top.left
    BY <1>1 DEF Top
  <2>4. Closed(Lefts) = SubSeq(Lefts, 1, n - 1)
    BY <1>1, <1>4, <2>3 DEF Closed
  <2>5. \A i \in 1..(n - 1) : i \in 1..n /\ Lefts[i] \in Nat
    BY <1>1
  <2>6. /\ SubSeq(Lefts, 1, n - 1) \in Seq(Nat) /\ Len(SubSeq(Lefts, 1, n - 1)) = n - 1
        /\ \A i \in 1..(n - 1) : SubSeq(Lefts, 1, n - 1)[i] = Lefts[i]
    <3> HIDE DEF n
    <3>1. n - 1 \in Int /\ 1 <= n - 1 /\ n - 1 - 1 + 1 = n - 1
      BY <1>1, <2>2
    <3>2. /\ SubSeq(Lefts, 1, n - 1) \in Seq(Nat) /\ Len(SubSeq(Lefts, 1, n - 1)) = n - 1
          /\ \A i \in 1..(n - 1) : SubSeq(Lefts, 1, n - 1)[i] = Lefts[1 + i - 1]
      BY <2>5, <3>1, SubSeqProperties
    <3>3. \A i \in 1..(n - 1) : 1 + i - 1 = i
      BY <1>1
    <3> QED BY <3>2, <3>3
  <2>7. Lefts' = [i \in 1..(n - 1) |-> Lefts[i]]
    BY <1>1, <2>2, <2>5 DEF Lefts
  <2>8. SubSeq(Lefts, 1, n - 1) = [i \in 1..(n - 1) |-> Lefts[i]]
    <3> HIDE DEF n
    <3>1. SubSeq(Lefts, 1, n - 1) \in [1..(n - 1) -> Nat]
      BY <2>6, LenProperties, Zenon
    <3> QED BY <2>6, <3>1
  <2> QED BY <1>4, <2>4, <2>7, <2>8
<1> QED BY <1>2, <1>3, <1>4

(* One more item: the lists open in front of the earlier ones stay.        *)
LEMMA NestGrows ==
  ASSUME GivenInv, NEW x \in ItemSet, given' = Append(given, x), NEW nest, Nest(nest),
         nest[Len(given) + 1] # <<>>, NEW open \in Seq(Nat),
         open = After(nest[Len(given) + 1], x),
         pc' \in {"enter", "pairs"} => open = Lefts',
         pc' = "return" => open = Closed(Lefts)',
         pc' # "done"
  PROVE  \E q : Nest(q)'
<1> DEFINE n == Len(given)
<1>1. /\ n \in Nat /\ Len(given') = n + 1 /\ given'[n + 1] = x
      /\ \A i \in 1..n : given'[i] = given[i]
  BY AppendProperties, LenProperties DEF GivenInv
<1>2. /\ nest \in [1..(n + 1) -> Seq(Nat)] /\ nest[1] = <<0>>
      /\ \A i \in 1..n : nest[i] # <<>> /\ nest[i + 1] = After(nest[i], given[i])
  BY DEF Nest
<1>3. nest[n + 1] # <<>> /\ open = After(nest[n + 1], x)
  OBVIOUS
<1> HIDE DEF n
<1>n. /\ n + 1 + 1 = n + 2 /\ 1 \in 1..(n + 1) /\ n + 1 \in 1..(n + 1)
      /\ \A i \in 1..n : i \in 1..(n + 1) /\ i + 1 \in 1..(n + 1)
      /\ \A i \in 1..(n + 1) : i = n + 1 \/ i \in 1..n
  BY <1>1
<1>q. PICK q : q = [i \in 1..(n + 2) |-> IF i = n + 2 THEN open ELSE nest[i]]
  BY Zenon
<1>4. /\ q \in [1..(n + 2) -> Seq(Nat)] /\ q[n + 2] = open
      /\ \A i \in 1..(n + 1) : q[i] = nest[i]
  <2>1. /\ n + 2 \in 1..(n + 2) /\ \A i \in 1..(n + 1) : i \in 1..(n + 2) /\ i # n + 2
        /\ \A i \in 1..(n + 2) : i = n + 2 \/ i \in 1..(n + 1)
    BY <1>1
  <2> QED BY <1>2, <1>q, <2>1
<1>5. q[1] = <<0>>
  BY <1>2, <1>4, <1>n
<1>6. ASSUME NEW i \in 1..(n + 1) PROVE q[i] # <<>> /\ q[i + 1] = After(q[i], given'[i])
  <2>1. CASE i = n + 1
    BY <1>1, <1>3, <1>4, <1>n, <2>1, SMTT(30)
  <2>2. CASE i \in 1..n
    <3>1. q[i] = nest[i] /\ q[i + 1] = nest[i + 1] /\ given'[i] = given[i]
      BY <1>1, <1>4, <1>n, <2>2, SMTT(30)
    <3> QED BY <1>2, <2>2, <3>1
  <2> QED BY <1>n, <2>1, <2>2, Zenon
<1>7. q \in [1..(Len(given') + 1) -> Seq(Nat)] /\ q[Len(given') + 1] = open
  BY <1>1, <1>4, <1>n
<1>8. ASSUME NEW i \in 1..Len(given') PROVE q[i] # <<>> /\ q[i + 1] = (After(q[i], given[i]))'
  <2>1. (After(q[i], given[i]))' = After(q[i], given'[i])
    BY DEF After, Closed
  <2> QED BY <1>1, <1>6, <2>1
<1>9. Nest(q)'
  BY <1>5, <1>7, <1>8 DEF Nest
<1> QED BY <1>9

LEMMA NestStep ==
  ASSUME IInv, GivenInv, NestInv, [Next]_vars
  PROVE  NestInv'
<1> SUFFICES ASSUME Plain' PROVE pc' # "fail" /\ \E q : Nest(q)'
  BY DEF NestInv
<1>0. PICK nest : Nest(nest)
  BY PlainBefore DEF NestInv
<1>f. pc # "fail"
  BY PlainBefore DEF NestInv
<1>s. StackInv
  BY DEF IInv
<1>l. Lefts \in Seq(Nat) /\ Lefts # <<>>
  BY <1>s, LeftsType
<1>o. /\ pc \in {"enter", "pairs"} => nest[Len(given) + 1] = Lefts
      /\ pc = "return" => nest[Len(given) + 1] = Closed(Lefts)
  BY <1>0 DEF Nest
<1>r. ASSUME Refuse PROVE FALSE
  BY <1>r DEF Refuse, Plain
<1>u. ASSUME UNCHANGED given,
             pc' \in {"enter", "pairs"} => nest[Len(given) + 1] = Lefts',
             pc' = "return" => nest[Len(given) + 1] = Closed(Lefts)',
             pc' = "done" /\ outcome' = "ok" => nest[Len(given) + 1] = <<>>
      PROVE  \E q : Nest(q)'
  <2>1. \A i \in 1..Len(given) : (After(nest[i], given[i]))' = After(nest[i], given[i])
    BY <1>u DEF After, Closed
  <2>2. Nest(nest)'
    BY <1>0, <1>u, <2>1 DEF Nest
  <2> QED BY <2>2
<1>k. UNCHANGED stack => Lefts' = Lefts /\ Closed(Lefts)' = Closed(Lefts)
  BY DEF Lefts, Closed
<1>1. CASE Enter
  BY <1>1, <1>k, <1>o, <1>u DEF Enter
<1>2. CASE EnterNil
  <2>1. given' = Append(given, NilItem)
    BY <1>2 DEF EnterNil
  <2>2. Len(given) \in Nat /\ Len(given') = Len(given) + 1 /\ given'[Len(given) + 1] = NilItem
    <3>1. NilItem \in ItemSet
      BY DEF ItemSet
    <3> HIDE DEF NilItem
    <3> QED BY <2>1, <3>1, AppendProperties, LenProperties DEF GivenInv
  <2>3. Len(given) + 1 \in 1..Len(given') /\ NilItem.type = "nil"
    BY <2>2 DEF NilItem, Item
  <2> QED BY <2>2, <2>3 DEF Plain
<1>3. CASE ListEnds
  <2>1. given' = Append(given, EndItem) /\ pc = "pairs" /\ pc' = "return" /\ UNCHANGED stack
    BY <1>3 DEF ListEnds
  <2>2. EndItem \in ItemSet
    BY DEF ItemSet
  <2>3. Closed(Lefts) \in Seq(Nat) /\ Closed(Lefts) = After(Lefts, EndItem)
    BY <1>l, ClosedType DEF After, EndItem, Item
  <2>4. nest[Len(given) + 1] = Lefts
    BY <1>o, <2>1
  <2>5. \E q : Nest(q)'
    <3> DEFINE open == Closed(Lefts)
    <3>1. /\ open \in Seq(Nat) /\ open = After(nest[Len(given) + 1], EndItem)
          /\ nest[Len(given) + 1] # <<>> /\ open = Closed(Lefts)'
          /\ pc' \notin {"enter", "pairs", "done"}
      BY <1>k, <1>l, <2>1, <2>3, <2>4
    <3> HIDE DEF open, EndItem
    <3> QED BY <1>0, <2>1, <2>2, <3>1, NestGrows, Zenon
  <2> QED BY <2>1, <2>5
<1>4. CASE ReturnNil
  <2>1. nest[Len(given) + 1] = Closed(Lefts) /\ UNCHANGED given
    BY <1>4, <1>o DEF ReturnNil
  <2>2. CASE Len(stack) = 1
    <3>1. pc' = "done" /\ Closed(Lefts) = <<>>
      BY <1>4, <1>s, <2>2, ReturnCloses DEF ReturnNil, End
    <3> QED BY <1>u, <2>1, <3>1
  <2>3. CASE Len(stack) # 1
    <3>1. pc' \in {"enter", "pairs"} /\ Lefts' = Closed(Lefts)
      BY <1>4, <1>s, <2>3, ReturnCloses DEF ReturnNil
    <3> QED BY <1>u, <2>1, <3>1
  <2> QED BY <2>2, <2>3
<1>5. CASE ReturnError
  BY <1>5, <1>f DEF ReturnError
<1>6. ASSUME NEW name \in Names, NEW f \in Fields, WritePair(name, f)
      PROVE  pc' # "fail" /\ \E q : Nest(q)'
  <2> DEFINE x == ItemOf(name, f)
  <2>1. f \in Writable /\ f.array \in BOOLEAN /\ f.n \in Nat /\ (~f.array => f.n = 1)
    BY <1>6, FieldType DEF WritePair, Writable
  <2>2. x \in ItemSet /\ given' = Append(given, x) /\ pc = "pairs"
    BY <1>6, <2>1 DEF WritePair, ItemSet
  <2>3. x.type = TypeOf(f) /\ x.elem = ElemsOf(f)
    BY DEF ItemOf, Item
  <2>4. x.type \in {"nvlist", "nvlistArray"} <=> f.kind = "map"
    BY <2>1, <2>3, TypeOfKind
  <2>5. x.type # "end"
    BY <2>1, <2>3, TypeOfKind
  <2>6. f.kind = "map" => x.elem = f.n
    BY <2>3 DEF ElemsOf
  <2> HIDE DEF x
  <2>7. nest[Len(given) + 1] = Lefts
    BY <1>o, <2>2
  <2>8. CASE f.kind = "map" /\ f.n > 0
    <3> DEFINE open == Append(Lefts, f.n - 1)
               e == [array |-> f.array, left |-> f.n - 1]
               k == Len(stack)
    <3>1. pc' = "enter" /\ stack' = Append(stack, e)
      BY <1>6, <2>8 DEF WritePair, Calls
    <3>2. open = After(Lefts, x)
      BY <2>4, <2>5, <2>6, <2>8 DEF After
    <3>3. f.n - 1 \in Nat /\ e.left = f.n - 1
      BY <2>1, <2>8
    <3>4. /\ k \in Nat /\ k >= 1 /\ Len(Lefts) = k
          /\ \A i \in 1..k : Lefts[i] = stack[i].left
      BY <1>s, LeftsType
    <3>5. /\ open \in Seq(Nat) /\ Len(open) = k + 1 /\ open[k + 1] = f.n - 1
          /\ \A i \in 1..k : open[i] = Lefts[i]
      BY <1>l, <3>3, <3>4, AppendProperties
    <3>6. Len(stack') = k + 1 /\ stack'[k + 1] = e /\ \A i \in 1..k : stack'[i] = stack[i]
      <4> DEFINE F == [array : BOOLEAN, left : Nat]
      <4>1. stack \in Seq(F) /\ e \in F
        BY <1>s, <2>1, <3>3 DEF StackInv
      <4> HIDE DEF F, e
      <4> QED BY <3>1, <4>1, AppendProperties
    <3> HIDE DEF open, e, k
    <3>7. open = [i \in 1..(k + 1) |-> IF i = k + 1 THEN f.n - 1 ELSE Lefts[i]]
      <4>1. open \in [1..(k + 1) -> Nat]
        BY <3>5, LenProperties
      <4>2. \A i \in 1..(k + 1) : i = k + 1 \/ i \in 1..k
        BY <3>4
      <4> QED BY <3>5, <4>1, <4>2
    <3>8. Lefts' = [i \in 1..(k + 1) |-> IF i = k + 1 THEN f.n - 1 ELSE Lefts[i]]
      <4>1. Lefts' = [i \in 1..(k + 1) |-> stack'[i].left]
        BY <3>6 DEF Lefts
      <4>2. \A i \in 1..(k + 1) : stack'[i].left = IF i = k + 1 THEN f.n - 1 ELSE Lefts[i]
        <5>1. \A i \in 1..(k + 1) : i = k + 1 \/ i \in 1..k
          BY <3>4
        <5> QED BY <3>3, <3>4, <3>6, <5>1
      <4> QED BY <4>1, <4>2
    <3>9. open = Lefts' /\ pc' \notin {"return", "done"}
      BY <3>1, <3>7, <3>8
    <3>10. \E q : Nest(q)'
      BY <1>0, <1>l, <2>2, <2>7, <3>2, <3>5, <3>9, NestGrows, Zenon
    <3> QED BY <3>1, <3>10
  <2>9. CASE ~(f.kind = "map" /\ f.n > 0)
    <3>1. UNCHANGED <<stack, pc>>
      BY <1>6, <2>9 DEF WritePair, Calls
    <3>2. Lefts = After(Lefts, x)
      BY <2>4, <2>5, <2>6, <2>9 DEF After
    <3> DEFINE open == Lefts
    <3>3. /\ open \in Seq(Nat) /\ open = After(nest[Len(given) + 1], x)
          /\ nest[Len(given) + 1] # <<>> /\ open = Lefts' /\ pc' = "pairs"
      BY <1>k, <1>l, <2>2, <2>7, <3>1, <3>2
    <3> HIDE DEF open
    <3>4. \E q : Nest(q)'
      BY <1>0, <2>2, <3>3, NestGrows, Zenon
    <3> QED BY <3>3, <3>4
  <2> QED BY <2>8, <2>9
<1>7. CASE RefusedAtEntry
  BY <1>7, <1>r DEF RefusedAtEntry
<1>8. ASSUME NEW name \in Names, RefusedName(name) PROVE FALSE
  BY <1>8, <1>r DEF RefusedName
<1>9. ASSUME NEW name \in Names, NEW f \in Fields, RefusedValue(name, f) PROVE FALSE
  BY <1>9, <1>r DEF RefusedValue
<1>10. ASSUME NEW name \in Names, NEW f \in Fields, Panics(name, f)
       PROVE  pc' # "fail" /\ \E q : Nest(q)'
  BY <1>10, <1>u, SMTT(30) DEF Panics, End
<1>11. CASE UNCHANGED vars
  <2>1. /\ pc' = pc /\ outcome' = outcome /\ UNCHANGED <<given, stack>>
        /\ (pc = "done" /\ outcome = "ok" => nest[Len(given) + 1] = <<>>)
    BY <1>0, <1>11 DEF vars, Nest
  <2> QED BY <1>f, <1>k, <1>o, <1>u, <2>1
<1> QED BY <1>1, <1>2, <1>3, <1>4, <1>5, <1>6, <1>7, <1>8, <1>9, <1>10, <1>11 DEF Next

-----------------------------------------------------------------------------
(* Unmarshal starts when Marshal has returned.                             *)
LEMMA MarshalReturned ==
  ASSUME pc = "done", [Next]_vars
  PROVE  UNCHANGED vars
BY DEF Next, Enter, EnterNil, RefusedAtEntry, ListEnds, ReturnNil, ReturnError, RefusedName,
       WritePair, RefusedValue, Panics

LEMMA Frozen ==
  ASSUME UNCHANGED vars, NEW pos, NEW nest
  PROVE  /\ Layout(pos)' <=> Layout(pos)
         /\ Nest(nest)' <=> Nest(nest)
         /\ Faithful' <=> Faithful
<1>1. Layout(pos)' <=> Layout(pos)
  BY DEF vars, Layout
<1>2. Nest(nest)' <=> Nest(nest)
  BY DEF vars, Nest, After, Closed, Lefts
<1>3. Faithful' <=> Faithful
  BY DEF vars, Faithful
<1> QED BY <1>1, <1>2, <1>3

(* What Unmarshal finds where it is: the end marker or the pair that is    *)
(* the next item of given, and a pair it can read.                         *)
LEMMA NextItem ==
  ASSUME IInv, GivenInv, Faithful, pc = "done", outcome = "ok", verdict = "none",
         NEW pos, NEW nest, Layout(pos), Nest(nest), ReadUpTo(pos, nest)
  PROVE  LET k == Len(got) + 1
         IN  /\ Len(got) \in Nat /\ k \in 1..Len(given)
             /\ given[k].type = "end" => AtEnd /\ pos[k + 1] = cur + TrailerLen
             /\ given[k].type # "end" =>
                  /\ ~AtEnd /\ \E j \in DOMAIN pairs : pairs[j].pos = cur
                  /\ \A j \in DOMAIN pairs : pairs[j].pos = cur =>
                       /\ Accepts(pairs[j]) /\ pos[k + 1] = cur + pairs[j].size
                       /\ pairs[j].item = given[k] /\ Decoded(pairs[j]) = AsRead(given[k])
<1> DEFINE n == Len(given)
           k == Len(got) + 1
<1>1. Len(got) \in Nat /\ n \in Nat /\ DOMAIN given = 1..n
  BY LenProperties DEF ReadUpTo, GivenInv
<1>2. Len(got) <= n /\ Len(got) # n /\ cur = pos[k]
  BY DEF ReadUpTo
<1>3. k \in 1..n /\ k \in 1..(n + 1) /\ k + 1 \in 1..(n + 1)
  BY <1>1, <1>2
<1>4. /\ pairs \in Seq(PairSet) /\ Len(pairs) \in Nat /\ DOMAIN pairs = 1..Len(pairs)
      /\ len \in Nat
  BY LenProperties DEF IInv, TileInv
<1>5. /\ pos \in [1..(n + 1) -> Nat] /\ pos[n + 1] = len
      /\ \A i, j \in 1..(n + 1) : i < j => pos[i] + TrailerLen <= pos[j]
      /\ \A i \in 1..n :
           IF given[i].type = "end"
           THEN /\ [pos |-> pos[i], size |-> TrailerLen] \in zeros
                /\ pos[i + 1] = pos[i] + TrailerLen
           ELSE \E j \in 1..Len(pairs) : pairs[j].pos = pos[i]
      /\ \A j \in 1..Len(pairs) : \E i \in 1..n :
           pairs[j].pos = pos[i] /\ pairs[j].item = given[i] /\ pos[i + 1] = pos[i] + pairs[j].size
      /\ \A z \in zeros :
           z.size = TrailerLen /\ \E i \in 1..n : z.pos = pos[i] /\ given[i].type = "end"
  BY DEF Layout
<1>6. /\ nest[n + 1] = <<>>
      /\ \A i \in 1..n : nest[i] # <<>> /\ nest[i + 1] = After(nest[i], given[i])
      /\ nest \in [1..(n + 1) -> Seq(Nat)]
  BY DEF Nest
<1>7. /\ given[k].name.nul = 0 /\ given[k].str.nul = 0 /\ given[k].elem <= MaxElems
  BY <1>1, <1>3 DEF Faithful
<1> HIDE DEF n, k
<1>8. ASSUME NEW i \in 1..(n + 1), NEW j \in 1..(n + 1), pos[i] = pos[j] PROVE i = j
  <2>1. pos[i] \in Nat /\ pos[j] \in Nat
    BY <1>5
  <2>2. i < j \/ j < i \/ i = j
    BY <1>1
  <2>3. ~(i < j)
    <3>1. i < j => pos[i] + 4 <= pos[j]
      BY <1>5 DEF TrailerLen
    <3> QED BY <1>8, <2>1, <3>1
  <2>4. ~(j < i)
    <3>1. j < i => pos[j] + 4 <= pos[i]
      BY <1>5 DEF TrailerLen
    <3> QED BY <1>8, <2>1, <3>1
  <2> QED BY <2>2, <2>3, <2>4
<1>9. cur \in Nat
  BY <1>2, <1>3, <1>5
<1>10. ASSUME given[k].type = "end" PROVE AtEnd /\ pos[k + 1] = cur + TrailerLen
  <2> DEFINE z == [pos |-> cur, size |-> TrailerLen]
  <2>1. z \in zeros /\ pos[k + 1] = cur + TrailerLen
    BY <1>2, <1>3, <1>5, <1>10
  <2>2. z.pos <= cur /\ cur + TrailerLen <= z.pos + z.size
    BY <1>9 DEF TrailerLen
  <2> HIDE DEF z
  <2> QED BY <2>1, <2>2 DEF AtEnd
<1>11. ASSUME given[k].type # "end" PROVE ~AtEnd
  <2> SUFFICES ASSUME NEW z \in zeros, z.pos <= cur, cur + TrailerLen <= z.pos + z.size
               PROVE  FALSE
    BY DEF AtEnd
  <2>1. PICK i \in 1..n : z.pos = pos[i] /\ given[i].type = "end"
    BY <1>5
  <2>2. i \in 1..(n + 1) /\ pos[i] \in Nat
    BY <1>1, <1>5
  <2>3. z.size = 4
    BY <1>5 DEF TrailerLen
  <2>4. pos[i] = cur
    BY <1>9, <2>1, <2>2, <2>3, SMTT(30) DEF TrailerLen
  <2> QED BY <1>2, <1>3, <1>8, <1>11, <2>1, <2>2, <2>4
<1>12. ASSUME given[k].type # "end" PROVE \E j \in DOMAIN pairs : pairs[j].pos = cur
  BY <1>2, <1>3, <1>4, <1>5, <1>12, ZenonT(30)
<1>13. ASSUME given[k].type # "end", NEW j \in DOMAIN pairs, pairs[j].pos = cur
       PROVE  /\ Accepts(pairs[j]) /\ pos[k + 1] = cur + pairs[j].size
              /\ pairs[j].item = given[k] /\ Decoded(pairs[j]) = AsRead(given[k])
  <2> DEFINE p == pairs[j]
  <2>1. j \in 1..Len(pairs) /\ p \in PairSet
    BY <1>4, ElementOfSeq
  <2>2. PICK i \in 1..n : p.pos = pos[i] /\ p.item = given[i] /\ pos[i + 1] = pos[i] + p.size
    BY <1>5, <2>1
  <2>3. i = k
    <3>1. i \in 1..(n + 1) /\ pos[i] = pos[k]
      BY <1>1, <1>2, <1>13, <2>2
    <3> QED BY <1>3, <1>8, <3>1, SMTT(30)
  <2>4. p.item = given[k] /\ pos[k + 1] = cur + p.size
    BY <1>2, <2>2, <2>3
  <2>5. p.size \in Nat
    BY <2>1, PairFacts, SMTT(30)
  <2> HIDE DEF p
  <2>6. /\ PairHeaderLen + p.name_sz <= p.size /\ ReadAt(p) + ReadLen(p) <= p.size
        /\ Terminated(p) /\ Decoded(p) = AsRead(given[k])
    BY <1>7, <2>1, <2>4, PairRead, SMTT(30) DEF p
  <2>7. k # n
    <3> SUFFICES ASSUME k = n PROVE FALSE
      OBVIOUS
    <3>1. nest[k] # <<>> /\ After(nest[k], given[k]) = <<>> /\ nest[k] \in Seq(Nat)
      BY <1>3, <1>6
    <3>2. PICK e : After(nest[k], given[k]) = nest[k] \/ After(nest[k], given[k]) = Append(nest[k], e)
      BY <1>13, Zenon DEF After
    <3>3. Append(nest[k], e) # <<>>
      <4>1. Len(Append(nest[k], e)) = Len(nest[k]) + 1 /\ Len(nest[k]) \in Nat
        BY <3>1, LenProperties
      <4>2. Len(<<>>) = 0
        OBVIOUS
      <4> QED BY <4>1, <4>2
    <3> QED BY <3>1, <3>2, <3>3
  <2>8. p.size + cur + TrailerLen <= len
    <3>1. k + 1 \in 1..(n + 1) /\ n + 1 \in 1..(n + 1) /\ k + 1 < n + 1
      BY <1>1, <1>3, <2>7
    <3>2. pos[k + 1] + TrailerLen <= len
      BY <1>5, <3>1
    <3> QED BY <1>9, <2>4, <2>5, <3>2 DEF TrailerLen
  <2>9. Accepts(p)
    BY <1>7, <2>4, <2>6, <2>8 DEF Accepts
  <2> QED BY <2>4, <2>6, <2>9 DEF p
<1> QED BY <1>1, <1>3, <1>10, <1>11, <1>12, <1>13 DEF n, k

(* One more item met.                                                      *)
LEMMA ReadOn ==
  ASSUME GivenInv, UNCHANGED vars, Faithful, pc = "done", outcome = "ok",
         NEW pos, NEW nest, Layout(pos), Nest(nest), ReadUpTo(pos, nest),
         Len(got) + 1 \in 1..Len(given),
         got' = Append(got, AsRead(given[Len(got) + 1])),
         cur' = pos[Len(got) + 2], nesting' = After(nesting, given[Len(got) + 1]),
         verdict' = IF nesting' = <<>> THEN "ok" ELSE "none"
  PROVE  ReadUpTo(pos, nest)'
<1> DEFINE n == Len(given)
           k == Len(got) + 1
           x == AsRead(given[k])
<1>1. Len(got) \in Nat /\ n \in Nat /\ k \in 1..n /\ given' = given
  BY LenProperties DEF ReadUpTo, GivenInv, vars
<1>2. x \in ItemSet
  <2>1. given[k] \in ItemSet
    BY <1>1, ElementOfSeq DEF GivenInv
  <2>2. SkippedItem \in ItemSet
    BY DEF ItemSet
  <2> QED BY <2>1, <2>2 DEF AsRead
<1> HIDE DEF x
<1>3. /\ got' \in Seq(ItemSet) /\ Len(got') = k /\ got'[k] = x
      /\ \A i \in 1..Len(got) : got'[i] = got[i]
  BY <1>2, AppendProperties DEF ReadUpTo, x
<1>4. /\ nesting = nest[k] /\ \A i \in 1..Len(got) : got[i] = AsRead(given[i])
  BY DEF ReadUpTo
<1>5. /\ nest[n + 1] = <<>>
      /\ \A i \in 1..n : nest[i] # <<>> /\ nest[i + 1] = After(nest[i], given[i])
  BY DEF Nest
<1>6. Len(got) + 2 = k + 1
  BY <1>1
<1>7. cur' = pos[k + 1] /\ nesting' = nest[k + 1]
  BY <1>1, <1>4, <1>5, <1>6
<1>8. ASSUME NEW i \in 1..k PROVE got'[i] = AsRead(given[i])
  <2>1. i = k \/ i \in 1..Len(got)
    BY <1>1
  <2> QED BY <1>3, <1>4, <2>1 DEF x
<1>9. verdict' = IF k = n THEN "ok" ELSE "none"
  <2>1. CASE k = n
    BY <1>5, <1>7, <2>1
  <2>2. CASE k # n
    <3>1. k + 1 \in 1..n
      BY <1>1, <2>2
    <3> QED BY <1>5, <1>7, <2>2, <3>1
  <2> QED BY <2>1, <2>2
<1>10. k <= n
  BY <1>1
<1>11. \A i \in 1..Len(got') : got'[i] = (AsRead(given[i]))'
  <2>1. \A i \in 1..k : (AsRead(given[i]))' = AsRead(given[i])
    BY <1>1 DEF AsRead, SkippedItem
  <2> QED BY <1>3, <1>8, <2>1
<1> HIDE DEF k
<1>12. Len(given') = n
  BY <1>1
<1> HIDE DEF n
<1> QED BY <1>3, <1>7, <1>9, <1>10, <1>11, <1>12 DEF ReadUpTo

LEMMA ReadStep ==
  ASSUME CodecInv, GivenInv', LayoutInv', NestInv', [CodecNext]_<<vars, readVars>>
  PROVE  ReadInv'
<1>0. IInv /\ GivenInv /\ ReadInv
  BY DEF CodecInv
<1>1. ASSUME [Next]_vars, UNCHANGED readVars PROVE ReadInv'
  <2>r. cur' = cur /\ nesting' = nesting /\ got' = got /\ verdict' = verdict
    BY <1>1 DEF readVars
  <2>1. CASE pc = "done" /\ outcome = "ok"
    <3>1. UNCHANGED vars
      BY <1>1, <2>1, MarshalReturned
    <3>2. pc' = "done" /\ outcome' = "ok" /\ given' = given
      BY <2>1, <3>1 DEF vars
    <3> SUFFICES ASSUME Faithful'
                 PROVE  \E pos, nest : Layout(pos)' /\ Nest(nest)' /\ ReadUpTo(pos, nest)'
      BY <3>2 DEF ReadInv
    <3>3. Faithful
      BY <3>1, Frozen
    <3>4. PICK pos, nest : Layout(pos) /\ Nest(nest) /\ ReadUpTo(pos, nest)
      BY <1>0, <2>1, <3>3 DEF ReadInv
    <3>5. Layout(pos)' /\ Nest(nest)'
      BY <3>1, <3>4, Frozen
    <3>6. ReadUpTo(pos, nest)'
      BY <2>r, <3>2, <3>4 DEF ReadUpTo, AsRead, SkippedItem
    <3> QED BY <3>5, <3>6
  <2>2. CASE ~(pc = "done" /\ outcome = "ok")
    <3>1. cur' = HeaderLen /\ nesting' = <<0>> /\ got' = <<>> /\ verdict' = "none"
      BY <1>0, <2>2, <2>r DEF ReadInv
    <3>2. CASE ~(pc' = "done" /\ outcome' = "ok")
      BY <3>1, <3>2 DEF ReadInv
    <3>3. CASE pc' = "done" /\ outcome' = "ok"
      <4> SUFFICES ASSUME Faithful'
                   PROVE  \E pos, nest : Layout(pos)' /\ Nest(nest)' /\ ReadUpTo(pos, nest)'
        BY <3>3 DEF ReadInv
      <4>1. Len(given') \in Nat /\ DOMAIN given' = 1..Len(given')
        BY LenProperties DEF GivenInv
      <4>2. Plain'
        BY <4>1 DEF Faithful, Plain
      <4>3. PICK pos : Layout(pos)'
        BY <4>2 DEF LayoutInv
      <4>4. PICK nest : Nest(nest)'
        BY <4>2 DEF NestInv
      <4>5. /\ nest[1] = <<0>> /\ nest[Len(given') + 1] = <<>> /\ pos[1] = HeaderLen
        BY <3>3, <4>3, <4>4 DEF Nest, Layout
      <4>6. Len(given') # 0
        BY <4>5
      <4>7. got' \in Seq(ItemSet) /\ Len(got') = 0 /\ Len(got') + 1 = 1
        BY <3>1, EmptySeq
      <4>8. ReadUpTo(pos, nest)'
        BY <3>1, <4>1, <4>5, <4>6, <4>7 DEF ReadUpTo
      <4> QED BY <4>3, <4>4, <4>8
    <3> QED BY <3>2, <3>3
  <2> QED BY <2>1, <2>2
<1>2. ASSUME ReadPair \/ ReadEnd \/ ReadFails PROVE ReadInv'
  <2>1. UNCHANGED vars /\ pc = "done" /\ outcome = "ok" /\ verdict = "none"
    BY <1>2 DEF ReadPair, ReadEnd, ReadFails, Reading
  <2>2. pc' = "done" /\ outcome' = "ok"
    BY <2>1 DEF vars
  <2> SUFFICES ASSUME Faithful'
               PROVE  \E pos, nest : Layout(pos)' /\ Nest(nest)' /\ ReadUpTo(pos, nest)'
    BY <2>2 DEF ReadInv
  <2>3. Faithful
    BY <2>1, Frozen
  <2>4. PICK pos, nest : Layout(pos) /\ Nest(nest) /\ ReadUpTo(pos, nest)
    BY <1>0, <2>1, <2>3 DEF ReadInv
  <2>5. Layout(pos)' /\ Nest(nest)'
    BY <2>1, <2>4, Frozen, SMTT(30)
  <2> DEFINE k == Len(got) + 1
  <2>6. /\ Len(got) \in Nat /\ k \in 1..Len(given)
        /\ given[k].type = "end" => AtEnd /\ pos[k + 1] = cur + TrailerLen
        /\ given[k].type # "end" =>
             /\ ~AtEnd /\ \E j \in DOMAIN pairs : pairs[j].pos = cur
             /\ \A j \in DOMAIN pairs : pairs[j].pos = cur =>
                  /\ Accepts(pairs[j]) /\ pos[k + 1] = cur + pairs[j].size
                  /\ pairs[j].item = given[k] /\ Decoded(pairs[j]) = AsRead(given[k])
    BY <1>0, <2>1, <2>3, <2>4, NextItem, SMTT(30)
  <2>7. k + 1 = Len(got) + 2
    BY <2>6, SMTT(30)
  <2>8. ASSUME got' = Append(got, AsRead(given[k])), cur' = pos[k + 1],
               nesting' = After(nesting, given[k]),
               verdict' = IF nesting' = <<>> THEN "ok" ELSE "none"
        PROVE  ReadUpTo(pos, nest)'
    BY <1>0, <2>1, <2>3, <2>4, <2>6, <2>7, <2>8, ReadOn, Zenon
  <2>9. nesting \in Seq(Nat) /\ nesting # <<>>
    <3>1. nesting = nest[k]
      BY <2>4 DEF ReadUpTo
    <3>2. /\ nest \in [1..(Len(given) + 1) -> Seq(Nat)]
          /\ \A i \in 1..Len(given) : nest[i] # <<>>
      BY <2>4 DEF Nest
    <3>3. k \in 1..Len(given) /\ k \in 1..(Len(given) + 1)
      <4>1. Len(given) \in Nat
        BY <1>0, LenProperties DEF GivenInv
      <4> QED BY <2>6, <4>1
    <3> HIDE DEF k
    <3> QED BY <3>1, <3>2, <3>3
  <2> HIDE DEF k
  <2>10. CASE ReadPair
    <3>1. PICK j \in DOMAIN pairs :
            /\ AtPair(pairs[j])
            /\ IF Accepts(pairs[j])
               THEN /\ got' = Append(got, Decoded(pairs[j]))
                    /\ nesting' = IF /\ pairs[j].item.type \in {"nvlist", "nvlistArray"}
                                     /\ pairs[j].item.elem > 0
                                  THEN Append(nesting, pairs[j].item.elem - 1) ELSE nesting
                    /\ cur' = cur + pairs[j].size
                    /\ UNCHANGED verdict
               ELSE verdict' = "error" /\ UNCHANGED <<cur, nesting, got>>
      BY <2>10 DEF ReadPair
    <3>2. given[k].type # "end" /\ pairs[j].pos = cur
      BY <2>6, <3>1 DEF AtPair
    <3>3. /\ Accepts(pairs[j]) /\ pos[k + 1] = cur + pairs[j].size
          /\ pairs[j].item = given[k] /\ Decoded(pairs[j]) = AsRead(given[k])
      BY <2>6, <3>2
    <3>4. nesting' = After(nesting, given[k])
      BY <3>1, <3>2, <3>3 DEF After
    <3>5. nesting' # <<>>
      <4>1. PICK e : nesting' = nesting \/ nesting' = Append(nesting, e)
        BY <3>1, <3>3
      <4>2. Append(nesting, e) # <<>>
        <5>1. Len(Append(nesting, e)) = Len(nesting) + 1 /\ Len(nesting) \in Nat
          BY <2>9, LenProperties
        <5>2. Len(<<>>) = 0
          OBVIOUS
        <5> QED BY <5>1, <5>2, SMTT(30)
      <4> QED BY <2>9, <4>1, <4>2
    <3>6. got' = Append(got, AsRead(given[k])) /\ cur' = pos[k + 1] /\ verdict' = "none"
      BY <2>1, <3>1, <3>3
    <3> QED BY <2>5, <2>8, <3>4, <3>5, <3>6
  <2>11. CASE ReadEnd
    <3>1. given[k].type = "end"
      BY <2>6, <2>11 DEF ReadEnd
    <3>2. given[k] = EndItem
      <4>1. given[k] \in ItemSet
        BY <1>0, <2>6, ElementOfSeq DEF GivenInv
      <4>2. ASSUME NEW name \in Names, NEW f \in Writable PROVE ItemOf(name, f).type # "end"
        <5>1. ItemOf(name, f).type = TypeOf(f) /\ f.array \in BOOLEAN
          BY FieldType DEF ItemOf, Item, Writable
        <5> QED BY <5>1, TypeOfKind
      <4>3. NilItem.type # "end" /\ SkippedItem.type # "end"
        BY DEF NilItem, SkippedItem, Item
      <4> QED BY <3>1, <4>1, <4>2, <4>3 DEF ItemSet
    <3>3. AsRead(EndItem) = EndItem
      BY DEF AsRead, EndItem, Item
    <3>4. /\ got' = Append(got, AsRead(given[k])) /\ cur' = pos[k + 1]
          /\ nesting' = After(nesting, given[k])
          /\ verdict' = IF nesting' = <<>> THEN "ok" ELSE "none"
      BY <2>6, <2>11, <3>1, <3>2, <3>3 DEF ReadEnd, After
    <3> QED BY <2>5, <2>8, <3>4
  <2>12. CASE ReadFails
    <3>1. given[k].type # "end"
      BY <2>6, <2>12, SMTT(30) DEF ReadFails
    <3>2. PICK j \in DOMAIN pairs : pairs[j].pos = cur
      BY <2>6, <3>1
    <3> QED BY <2>12, <3>2, SMTT(30) DEF ReadFails, AtPair
  <2> QED BY <1>2, <2>10, <2>11, <2>12
<1>3. CASE UNCHANGED <<vars, readVars>>
  BY <1>1, <1>3
<1>4. CASE Next /\ UNCHANGED readVars
  BY <1>1, <1>4
<1> QED BY <1>2, <1>3, <1>4 DEF CodecNext

LEMMA CodecInvHolds == CodecSpec => []CodecInv
<1>1. CodecInit => CodecInv
  <2> SUFFICES ASSUME CodecInit PROVE CodecInv
    OBVIOUS
  <2>1. Init /\ cur = HeaderLen /\ nesting = <<0>> /\ got = <<>> /\ verdict = "none"
    BY DEF CodecInit
  <2>2. /\ len = HeaderLen /\ pairs = <<>> /\ zeros = {} /\ given = <<>>
        /\ stack = <<[array |-> FALSE, left |-> 0]>> /\ pc = "enter"
    BY <2>1 DEF Init
  <2>3. GivenInv
    BY <2>2, EmptySeq DEF GivenInv
  <2>4. Len(given) = 0 /\ Len(pairs) = 0
    BY <2>2
  <2>5. LayoutInv
    <3> DEFINE q == [i \in 1..1 |-> 12]
    <3>1. Layout(q)
      BY <2>2, <2>4 DEF Layout, HeaderLen
    <3> HIDE DEF q
    <3> QED BY <3>1 DEF LayoutInv
  <2>6. NestInv
    <3> DEFINE q == [i \in 1..1 |-> <<0>>]
    <3>1. Lefts = <<0>>
      <4>1. Len(stack) = 1 /\ stack[1].left = 0
        BY <2>2
      <4>2. Lefts = [i \in 1..1 |-> 0]
        BY <4>1 DEF Lefts
      <4> QED BY <4>2
    <3>2. q \in [1..1 -> Seq(Nat)] /\ q[1] = <<0>>
      BY 0 \in Nat
    <3> HIDE DEF q
    <3>3. Nest(q)
      BY <2>2, <2>4, <3>1, <3>2 DEF Nest
    <3> QED BY <2>2, <3>3 DEF NestInv
  <2>7. ReadInv
    BY <2>1, <2>2 DEF ReadInv
  <2> QED BY <2>1, <2>3, <2>5, <2>6, <2>7, EncoderInitIInv DEF CodecInv
<1>2. CodecInv /\ [CodecNext]_<<vars, readVars>> => CodecInv'
  <2> SUFFICES ASSUME CodecInv, [CodecNext]_<<vars, readVars>> PROVE CodecInv'
    OBVIOUS
  <2>1. [Next]_vars
    BY DEF CodecNext, ReadPair, ReadEnd, ReadFails
  <2>2. IInv'
    BY <2>1, StackStep, ErrorStep, TileStep DEF CodecInv, IInv
  <2>3. GivenInv' /\ LayoutInv' /\ NestInv'
    BY <2>1, GivenStep, LayoutStep, NestStep DEF CodecInv
  <2> QED BY <2>2, <2>3, ReadStep DEF CodecInv
<1> QED BY <1>1, <1>2, PTL DEF CodecSpec

(* Unmarshal reads what Marshal wrote, to the last byte, for every value   *)
(* that Faithful lets through, however deep and however long.              *)
THEOREM CodecRoundTrip == CodecSpec => []RoundTrip
<1>1. ASSUME CodecInv PROVE RoundTrip
  <2> SUFFICES ASSUME Faithful
               PROVE  /\ verdict # "error"
                      /\ verdict = "ok" =>
                           cur = len /\ got = [i \in DOMAIN given |-> AsRead(given[i])]
    BY DEF RoundTrip
  <2>1. CASE ~(pc = "done" /\ outcome = "ok")
    BY <1>1, <2>1 DEF CodecInv, ReadInv
  <2>2. CASE pc = "done" /\ outcome = "ok"
    <3>1. PICK pos, nest : Layout(pos) /\ Nest(nest) /\ ReadUpTo(pos, nest)
      BY <1>1, <2>2 DEF CodecInv, ReadInv
    <3>2. verdict = IF Len(got) = Len(given) THEN "ok" ELSE "none"
      BY <3>1 DEF ReadUpTo
    <3>3. ASSUME verdict = "ok"
          PROVE  cur = len /\ got = [i \in DOMAIN given |-> AsRead(given[i])]
      <4>1. Len(got) = Len(given)
        BY <3>2, <3>3
      <4>2. cur = len
        BY <3>1, <4>1 DEF ReadUpTo, Layout
      <4>3. DOMAIN given = 1..Len(given)
        BY <1>1, LenProperties DEF CodecInv, GivenInv
      <4>4. got \in [1..Len(given) -> ItemSet] /\ \A i \in 1..Len(given) : got[i] = AsRead(given[i])
        BY <3>1, <4>1, LenProperties DEF ReadUpTo
      <4>5. got = [i \in 1..Len(given) |-> got[i]]
        BY <4>4
      <4> QED BY <4>2, <4>3, <4>4, <4>5
    <3> QED BY <3>2, <3>3
  <2> QED BY <2>1, <2>2
<1> QED BY <1>1, CodecInvHolds, PTL
=============================================================================
