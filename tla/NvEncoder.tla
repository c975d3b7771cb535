------------------------------ MODULE NvEncoder ------------------------------
(***************************************************************************)
(* Marshal of nvlist/encoder.go: writeNvPairs walks a Go value and appends *)
(* pairs and end markers to the data.  The value is met piece by piece (a  *)
(* behaviour chooses the next field or element), the recursion is a stack  *)
(* of calls, and of the bytes only positions, lengths and the zeroed       *)
(* regions are kept: a reader takes four zero bytes for the end of a list. *)
(*                                                                         *)
(* A string is [len, nul]: nul is the place of its first null byte or 0    *)
(* (strings of arrays have none).                                          *)
(* A field is [kind, array, n, width, str, tag, zero]: its kind or that of *)
(* its elements, their number n (1 when no array; strings of an array are  *)
(* alike), an integer's width, the tag's option, and isEmptyValue.         *)
(***************************************************************************)
EXTENDS NvFormat, Sequences

CONSTANTS
  Names,         \* names of fields and keys
  Fields,        \* values of fields and map entries
  MaxPairs, MaxDepth

Strings == [len : Nat, nul : Nat]
Kinds == {"int", "uint8", "float64", "bool", "string", "map", "interface", "other"}

ASSUME EncoderAssumption ==
  /\ Names \subseteq Strings
  /\ Fields \subseteq [kind : Kinds, array : BOOLEAN, n : Nat, width : Widths,
                       str : Strings, tag : {"", "omitempty", "ro"}, zero : BOOLEAN]
  /\ \A s \in Names \cup {f.str : f \in Fields} : s.nul <= s.len
  /\ \A f \in Fields : IF f.array THEN f.str.nul = 0 ELSE f.n = 1
  /\ MaxPairs \in Nat /\ MaxDepth \in Nat \ {0}

VARIABLES
  len,       \* len(w.nvlist)
  pairs,     \* the pairs, as endNvPair completed them
  zeros,     \* four or more zero bytes: end markers and abandoned headers
  stack,     \* calls of writeNvPairs: is the list in an array, lists to come
  pc,        \* "enter", "pairs", "return", "fail", "done"
  outcome,   \* "none", "ok", "error", "panic"
  given,     \* history: the value as far as it was met, as pairs and ends
  refused    \* history: could something not be encoded, and was it "nested"

vars == <<len, pairs, zeros, stack, pc, outcome, given, refused>>

nvtypeFromKind ==
  [int |-> "int", uint8 |-> "byte", float64 |-> "double", bool |-> "booleanValue",
   string |-> "string", map |-> "nvlist"]

nvtypeFromArrayKind ==
  [int |-> "intArray", uint8 |-> "byteArray", bool |-> "booleanArray",
   string |-> "stringArray", map |-> "nvlistArray"]

TypeOf(f) ==    \* a bool alone does not use the table
  IF f.array THEN nvtypeFromArrayKind[f.kind]
  ELSE IF f.kind = "bool" THEN "boolean" ELSE nvtypeFromKind[f.kind]

ElemsOf(f) == IF f.kind = "bool" /\ ~f.array THEN 0 ELSE f.n

Item(name, type, elem, str) == [name |-> name, type |-> type, elem |-> elem, str |-> str]
NoStr == [len |-> 0, nul |-> 0]
EndItem == Item(NoStr, "end", 0, NoStr)
NilItem == Item(NoStr, "nil", 0, NoStr)

ItemOf(name, f) ==
  Item(name, TypeOf(f), ElemsOf(f), IF f.kind = "string" THEN f.str ELSE NoStr)

TypeOK ==
  /\ len \in Nat
  /\ \A i \in DOMAIN pairs : pairs[i].pos \in Nat /\ pairs[i].size \in Nat
  /\ zeros \subseteq [pos : Nat, size : Nat]
  /\ stack \in Seq([array : BOOLEAN, left : Nat])
  /\ pc \in {"enter", "pairs", "return", "fail", "done"}
  /\ outcome \in {"none", "ok", "error", "panic"}
  /\ refused \in {"no", "yes", "nested"}

Init ==    \* after writeNvHeader
  /\ len = HeaderLen
  /\ pairs = <<>> /\ zeros = {} /\ given = <<>>
  /\ stack = <<[array |-> FALSE, left |-> 0]>>
  /\ pc = "enter" /\ outcome = "none" /\ refused = "no"

Top == stack[Len(stack)]
Pop == SubSeq(stack, 1, Len(stack) - 1)
End(o) == pc' = "done" /\ outcome' = o

-----------------------------------------------------------------------------
\* writeString: up to a null byte, which is an error nobody looks at.
Written(s) == IF s.nul = 0 THEN s.len + 1 ELSE s.nul - 1

NvlistLen == 24      \* writeNvlistHeader

\* Possible slip: the pointers in front of an array's strings are left out.
ValueLenNoPointers(f) ==
  CASE f.kind = "string" -> f.n * Written(f.str)
    [] f.kind = "bool" -> IF f.array THEN 4 * f.n ELSE 0
    [] f.kind = "map" -> f.n * NvlistLen
    [] OTHER -> f.n * f.width
ValueLen(f) ==
  CASE f.kind = "string" -> (IF f.array THEN 8 * f.n ELSE 0) + f.n * Written(f.str)
    [] f.kind = "bool" -> IF f.array THEN 4 * f.n ELSE 0
    [] f.kind = "map" -> f.n * (NvlistLen + IF f.array THEN 8 ELSE 0)
    [] OTHER -> f.n * f.width

\* Which struct fields become pairs; a false bool never does.
Emitted(f) ==
  /\ f.tag # "ro"
  /\ f.zero => f.tag # "omitempty" /\ (f.kind = "bool" => f.array)

NameRefused(name) == name.len + 1 >= 32767             \* math.MaxInt16
FieldRefused(f) ==
  \/ f.kind = "other" \/ (f.kind = "float64" /\ f.array)
  \/ f.array /\ f.n >= 2147483647                      \* math.MaxInt32

\* Where the value of a pair starts, and the pair's Size.
ValueAt(name) == AlignTo(PairHeaderLen + Written(name), 8)

\* Possible slip: endNvPair does not align.
SizeOfUnaligned(name, f) == ValueAt(name) + ValueLen(f)
SizeOf(name, f) == AlignTo(ValueAt(name) + ValueLen(f), 8)

\* endNvPair keeps the Size in an int32: pairs of 2 GiB are not modelled.
ASSUME SizeAssumption ==
  \A name \in Names, f \in Fields : ~FieldRefused(f) => SizeOf(name, f) <= 2147483647

\* A call of writeNvPairs for f itself, or for its elements one after another.
Calls(f) ==
  IF f.kind = "map" /\ f.n > 0
  THEN /\ Len(stack) < MaxDepth
       /\ stack' = Append(stack, [array |-> f.array, left |-> f.n - 1])
       /\ pc' = "enter"
  ELSE UNCHANGED <<stack, pc>>

WritePair(name, f) ==
  /\ pc = "pairs" /\ Len(pairs) < MaxPairs
  /\ Emitted(f)
  /\ ~NameRefused(name) /\ ~FieldRefused(f) /\ f.kind # "interface"
  /\ pairs' = Append(pairs, [pos |-> len, size |-> SizeOf(name, f), at |-> ValueAt(name),
                             used |-> ValueLen(f), name_sz |-> name.len + 1,
                             width |-> f.width, item |-> ItemOf(name, f)])
  /\ len' = len + SizeOf(name, f)
  /\ given' = Append(given, ItemOf(name, f))
  /\ Calls(f)
  /\ UNCHANGED <<zeros, outcome, refused>>

\* unpackType asks an interface type for its element type.
Panics(name, f) ==
  /\ pc = "pairs" /\ f.kind = "interface" /\ f.array
  /\ Emitted(f) /\ ~NameRefused(name) /\ ~FieldRefused(f)
  /\ End("panic")
  /\ UNCHANGED <<len, pairs, zeros, stack, given, refused>>

\* Some caller of this call, one for a list that is no array's, drops its error.
Nested == \E i \in 2..Len(stack) : ~stack[i].array
Refuse ==
  /\ refused' = IF Nested /\ refused # "yes" THEN "nested" ELSE "yes"
  /\ pc' = "fail"

RefusedAtEntry ==      \* a key that is no string, or no map or struct at all
  /\ pc = "enter" /\ Refuse
  /\ UNCHANGED <<len, pairs, zeros, stack, outcome, given>>

RefusedName(name) ==
  /\ pc = "pairs" /\ NameRefused(name) /\ Refuse
  /\ UNCHANGED <<len, pairs, zeros, stack, outcome, given>>

RefusedValue(name, f) ==   \* the zeroed header and the name stay
  /\ pc = "pairs" /\ Emitted(f) /\ ~NameRefused(name) /\ FieldRefused(f) /\ Refuse
  /\ zeros' = zeros \cup {[pos |-> len, size |-> PairHeaderLen]}
  /\ len' = len + ValueAt(name)
  /\ UNCHANGED <<pairs, stack, outcome, given>>

-----------------------------------------------------------------------------
Enter ==
  /\ pc = "enter" /\ pc' = "pairs"
  /\ UNCHANGED <<len, pairs, zeros, stack, outcome, given, refused>>

\* A nil pointer stands for an empty list, but no end marker is written.
EnterNil ==
  /\ pc = "enter" /\ (Len(stack) = 1 \/ Top.array)
  /\ given' = Append(given, NilItem)
  /\ pc' = "return"
  /\ UNCHANGED <<len, pairs, zeros, stack, outcome, refused>>

\* Possible slip: only the outermost list gets its end marker.
TrailerOuter == IF Len(stack) = 1 THEN TrailerLen ELSE 0
Trailer == TrailerLen

ListEnds ==
  /\ pc = "pairs"
  /\ zeros' = zeros \cup {[pos |-> len, size |-> Trailer]}
  /\ len' = len + Trailer
  /\ given' = Append(given, EndItem)
  /\ pc' = "return"
  /\ UNCHANGED <<pairs, stack, outcome, refused>>

\* The caller goes on with the array's next element or with its next name.
ReturnNil ==
  /\ pc = "return"
  /\ IF Len(stack) = 1 THEN End("ok") /\ UNCHANGED stack
     ELSE IF Top.left > 0
     THEN /\ stack' = [stack EXCEPT ![Len(stack)].left = @ - 1]
          /\ pc' = "enter" /\ UNCHANGED outcome
     ELSE stack' = Pop /\ pc' = "pairs" /\ UNCHANGED outcome
  /\ UNCHANGED <<len, pairs, zeros, given, refused>>

\* Possible slip: the error of an array element is dropped too.
CallerReturnsNil(array) == "return"
\* The caller of an array element returns the error, any other returns nil.
CallerReturns(array) == IF array THEN "fail" ELSE "return"

ReturnError ==
  /\ pc = "fail"
  /\ IF Len(stack) = 1 THEN End("error") /\ UNCHANGED stack
     ELSE stack' = Pop /\ pc' = CallerReturns(Top.array) /\ UNCHANGED outcome
  /\ UNCHANGED <<len, pairs, zeros, given, refused>>

Next ==
  \/ Enter \/ EnterNil \/ RefusedAtEntry \/ ListEnds \/ ReturnNil \/ ReturnError
  \/ \E name \in Names :
       \/ RefusedName(name)
       \/ \E f \in Fields :
            WritePair(name, f) \/ RefusedValue(name, f) \/ Panics(name, f)

Spec == Init /\ [][Next]_vars

-----------------------------------------------------------------------------
(* Marshal fails when the value, an element of an array in it, or an       *)
(* element of such an element could not be encoded, however deep.  In a    *)
(* list that is a value of its own the error is lost: writeNvPairs returns *)
(* nil for it (encoder.go:256).                                            *)
ErrorsSurface == outcome = "ok" => refused # "yes"

(* The pairs lie one behind the other: each one's Size covers its header,  *)
(* name and value, is a multiple of 8, and ends where the next pair, the   *)
(* end marker or the end of the data is.                                   *)
PairsTile ==
  \A i \in DOMAIN pairs :
    LET p == pairs[i]
        end == p.pos + p.size
    IN  /\ PairHeaderLen + Written(p.item.name) <= p.at
        /\ p.at + p.used <= p.size /\ p.size % 8 = 0
        /\ \/ end = len
           \/ \E z \in zeros : z.pos = end
           \/ i < Len(pairs) /\ pairs[i + 1].pos = end
=============================================================================
