-------------------------- MODULE DatasetListProofs --------------------------
(***************************************************************************)
(* Proofs about DatasetList, for any set of datasets, any order of the     *)
(* directory, and any number of errors, retries, creations and             *)
(* destructions during the listing.                                        *)
(***************************************************************************)
EXTENDS DatasetList, SequenceTheorems, TLAPS

(* What was listed ascends up to the caller's cursor; whatever stayed and  *)
(* lies up to the cursor was listed; and the kernel starts from the        *)
(* cursor, however often NvlistIoctl has repeated the system call.         *)
CursorInv ==
  /\ \A i, j \in 1..Len(listed) : i < j => Pos[listed[i]] < Pos[listed[j]]
  /\ \A i \in 1..Len(listed) : Pos[listed[i]] <= cursor
  /\ \A d \in steady : Pos[d] <= cursor => \E i \in 1..Len(listed) : listed[i] = d
  /\ pc = "kernel" => cookie = cursor
  /\ pc = "done" => \A d \in steady : Pos[d] <= cursor

IInv == TypeOK /\ CursorInv

-----------------------------------------------------------------------------
(* Lengths of the reply buffer (ioctl.go:53-56). *)
LEMMA DstGrows ==
  ASSUME NEW d \in DstSizes, ~Exhausted(d)
  PROVE  Grow(d) \in DstSizes
BY DEF DstSizes, Exhausted, Grow, DstLimit

LEMMA ListInitIInv == Init => IInv
<1> SUFFICES ASSUME Init PROVE IInv
  OBVIOUS
<1>1. dst \in DstSizes
  BY DEF Init, DstSizes, InitialDst
<1>2. TypeOK
  BY <1>1, ListAssumption DEF Init, TypeOK
<1>3. \A d \in Datasets : Pos[d] \in Nat \ {0}
  BY ListAssumption
<1>4. CursorInv
  BY <1>2, <1>3 DEF Init, CursorInv, TypeOK
<1> QED BY <1>2, <1>4 DEF IInv

(* Every step keeps the types. *)
LEMMA ListTypeStep == TypeOK /\ [Next]_vars => TypeOK'
<1> SUFFICES ASSUME TypeOK, [Next]_vars PROVE TypeOK'
  OBVIOUS
<1> USE ListAssumption DEF TypeOK
<1>1. ASSUME NEW d \in Datasets, Create(d) PROVE TypeOK'
  BY <1>1 DEF Create
<1>2. ASSUME NEW d \in Datasets, Destroy(d) PROVE TypeOK'
  BY <1>2 DEF Destroy
<1>3. CASE Call
  <2>1. InitialDst \in DstSizes
    BY DEF DstSizes, InitialDst
  <2> QED BY <1>3, <2>1 DEF Call
<1>4. ASSUME NEW d \in Datasets, Answer(d) PROVE TypeOK'
  <2>1. listed' \in Seq(Datasets)
    BY <1>4, AppendProperties DEF Answer
  <2> QED BY <1>4, <2>1 DEF Answer, CursorAfter
<1>5. ASSUME NEW d \in Datasets, NoMem(d) PROVE TypeOK'
  BY <1>5 DEF NoMem
<1>6. CASE Retry
  BY <1>6, DstGrows DEF Retry, FreshCookie
<1>7. CASE AtEnd
  BY <1>7 DEF AtEnd
<1>8. CASE Fails
  BY <1>8 DEF Fails
<1>9. CASE UNCHANGED vars
  BY <1>9 DEF vars
<1> QED BY <1>1, <1>2, <1>3, <1>4, <1>5, <1>6, <1>7, <1>8, <1>9 DEF Next, Lists

(* Answering with the next entry (wrappers.go:163-183) moves the cursor to *)
(* a place above all listed ones and passes nothing that stayed.           *)
LEMMA AnswerStep ==
  ASSUME IInv, NEW d \in Datasets, Answer(d)
  PROVE  CursorInv'
<1> USE DEF IInv, TypeOK, CursorInv
<1> DEFINE n == Len(listed)
<1>0. /\ n \in Nat /\ \A i \in 1..n : listed[i] \in Datasets
      /\ \A e \in Datasets : Pos[e] \in Nat
      /\ cursor \in Nat
  BY LenProperties, ElementOfSeq, ListAssumption
<1>1. /\ Len(listed') = n + 1 /\ listed'[n + 1] = d
      /\ \A i \in 1..n : listed'[i] = listed[i]
  BY AppendProperties DEF Answer
<1>2. /\ cursor' = Pos[d] /\ cookie = cursor /\ cursor < Pos[d]
      /\ pc' = "caller" /\ steady' = steady
  BY <1>0 DEF Answer, CursorAfter, IsNext
<1>3. \A i, j \in 1..(n + 1) : i < j => Pos[listed'[i]] < Pos[listed'[j]]
  <2> SUFFICES ASSUME NEW i \in 1..(n + 1), NEW j \in 1..(n + 1), i < j
               PROVE  Pos[listed'[i]] < Pos[listed'[j]]
    OBVIOUS
  <2>1. i \in 1..n
    BY <1>0
  <2>2. CASE j \in 1..n
    BY <1>1, <2>1, <2>2
  <2>3. CASE j = n + 1
    BY <1>0, <1>1, <1>2, <2>1, <2>3
  <2> QED BY <1>0, <2>2, <2>3
<1>4. \A i \in 1..(n + 1) : Pos[listed'[i]] <= cursor'
  <2> SUFFICES ASSUME NEW i \in 1..(n + 1) PROVE Pos[listed'[i]] <= Pos[d]
    BY <1>2
  <2>1. CASE i \in 1..n
    BY <1>0, <1>1, <1>2, <2>1
  <2>2. CASE i = n + 1
    BY <1>0, <1>1, <2>2
  <2> QED BY <1>0, <2>1, <2>2
<1>5. ASSUME NEW e \in steady, Pos[e] <= Pos[d]
      PROVE  \E i \in 1..(n + 1) : listed'[i] = e
  <2>0. e \in Datasets /\ e \in live
    OBVIOUS
  <2>1. CASE Pos[e] <= cursor
    <3>1. PICK i \in 1..n : listed[i] = e
      BY <2>1
    <3> QED BY <1>0, <1>1, <3>1
  <2>2. CASE Pos[e] > cursor
    <3>1. Pos[d] <= Pos[e]
      BY <1>2, <2>0, <2>2 DEF Answer, IsNext
    <3>2. Pos[d] = Pos[e]
      BY <1>0, <1>5, <2>0, <3>1
    <3>3. e = d
      BY <2>0, <3>2, ListAssumption
    <3> QED BY <1>0, <1>1, <3>3
  <2> QED BY <1>0, <2>0, <2>1, <2>2
<1> QED BY <1>1, <1>2, <1>3, <1>4, <1>5

LEMMA CursorStep == IInv /\ [Next]_vars => CursorInv'
<1> SUFFICES ASSUME IInv, [Next]_vars PROVE CursorInv'
  OBVIOUS
<1> USE DEF IInv, CursorInv
<1>1. ASSUME NEW d \in Datasets, Create(d) PROVE CursorInv'
  BY <1>1 DEF Create
<1>2. ASSUME NEW d \in Datasets, Destroy(d) PROVE CursorInv'
  BY <1>2 DEF Destroy
<1>3. CASE Call
  BY <1>3 DEF Call
<1>4. ASSUME NEW d \in Datasets, Answer(d) PROVE CursorInv'
  BY <1>4, AnswerStep
<1>5. ASSUME NEW d \in Datasets, NoMem(d) PROVE CursorInv'
  BY <1>5 DEF NoMem
<1>6. CASE Retry
  BY <1>6 DEF Retry, FreshCookie
<1>7. CASE AtEnd
  BY <1>7 DEF AtEnd, TypeOK
<1>8. CASE Fails
  BY <1>8 DEF Fails
<1>9. CASE UNCHANGED vars
  BY <1>9 DEF vars
<1> QED BY <1>1, <1>2, <1>3, <1>4, <1>5, <1>6, <1>7, <1>8, <1>9 DEF Next, Lists

LEMMA ListIInv == Spec => []IInv
<1>1. IInv /\ [Next]_vars => IInv'
  BY ListTypeStep, CursorStep DEF IInv
<1> QED BY <1>1, ListInitIInv, PTL DEF Spec

-----------------------------------------------------------------------------
(* The variables of a listing keep their types: the caller's cursor and    *)
(* the handler's cookie are places, the reply buffer has one of the five   *)
(* lengths NvlistIoctl allocates, and every name returned is a dataset's.  *)
THEOREM ListTypeCorrect == Spec => []TypeOK
<1>1. IInv => TypeOK
  BY DEF IInv
<1> QED BY <1>1, ListIInv, PTL

(* A listing with DatasetListNext or SnapshotListNext that ends with ESRCH *)
(* has every dataset that existed all the time.                            *)
THEOREM ListNothingMissed == Spec => []NothingMissed
<1>1. ASSUME IInv PROVE NothingMissed
  <2> SUFFICES ASSUME pc = "done", NEW d \in steady PROVE d \in Listed
    BY DEF NothingMissed
  <2>1. PICK i \in 1..Len(listed) : listed[i] = d
    BY <1>1 DEF IInv, CursorInv
  <2>2. i \in DOMAIN listed
    BY <1>1, LenProperties DEF IInv, TypeOK
  <2> QED BY <2>1, <2>2 DEF Listed
<1> QED BY <1>1, ListIInv, PTL

(* No dataset is returned twice in one listing, also not one that was      *)
(* destroyed and created anew.                                             *)
THEOREM ListListedOnce == Spec => []ListedOnce
<1>1. ASSUME IInv PROVE ListedOnce
  <2> SUFFICES ASSUME NEW i \in DOMAIN listed, NEW j \in DOMAIN listed,
                      listed[i] = listed[j]
               PROVE  i = j
    BY DEF ListedOnce
  <2>1. /\ Len(listed) \in Nat /\ i \in 1..Len(listed) /\ j \in 1..Len(listed)
        /\ Pos[listed[i]] \in Nat /\ Pos[listed[j]] \in Nat
    BY <1>1, LenProperties, ElementOfSeq, ListAssumption DEF IInv, TypeOK
  <2>2. ~(i < j)
    BY <1>1, <2>1 DEF IInv, CursorInv
  <2>3. ~(j < i)
    BY <1>1, <2>1 DEF IInv, CursorInv
  <2> QED BY <2>1, <2>2, <2>3
<1> QED BY <1>1, ListIInv, PTL

-----------------------------------------------------------------------------
(* How long a listing can take, when no place in the directory is above b  *)
(* (a cookie is a uint64): the errors and places still ahead, and the way  *)
(* to the end of this call.                                                *)
BoundInv(b) ==
  /\ cursor <= b /\ errors <= MaxErrors + 1
  /\ pc # "gaveUp" => errors <= MaxErrors

LengthsLeft(d) ==
  IF d = 8192 THEN 4 ELSE IF d = 65536 THEN 3 ELSE IF d = 524288 THEN 2
  ELSE IF d = 4194304 THEN 1 ELSE 0

ToCallEnd ==
  IF pc = "caller" THEN 11
  ELSE IF pc = "kernel" THEN 2 * LengthsLeft(dst) + 2
  ELSE IF pc = "nomem" THEN 2 * LengthsLeft(dst) + 1 ELSE 0

Ahead(b) == (MaxErrors + 1 - errors) + (b - cursor)
StepsLeft(b) == 12 * Ahead(b) + ToCallEnd

\* Steps of the listing leave fewer to come; those of others change nothing.
ListingAdvances(b) ==
  /\ StepsLeft(b) \in Nat /\ StepsLeft(b)' \in Nat
  /\ Lists => StepsLeft(b)' < StepsLeft(b)
  /\ ~Lists => StepsLeft(b)' = StepsLeft(b)

LEMMA GrowTakesOne ==
  ASSUME NEW d \in DstSizes
  PROVE  /\ LengthsLeft(d) \in 0..4
         /\ ~Exhausted(d) => LengthsLeft(Grow(d)) + 1 = LengthsLeft(d)
BY DEF DstSizes, LengthsLeft, Exhausted, Grow, DstLimit

LEMMA AheadOrder ==
  ASSUME NEW m \in Nat, NEW b \in Nat, NEW e \in Nat, NEW c \in Nat, e <= m + 1, c <= b
  PROVE  (m + 1 - e) + (b - c) \in Nat
OBVIOUS

LEMMA AheadDecreases ==
  ASSUME NEW m \in Nat, NEW b \in Nat, NEW e \in Nat, NEW c \in Nat, NEW f \in Nat, c < f
  PROVE  (m + 1 - e) + (b - f) < (m + 1 - e) + (b - c)
OBVIOUS

LEMMA CallOrder ==
  ASSUME NEW a \in Nat, NEW b \in Nat, NEW i \in 0..11, NEW j \in 0..11,
         b < a \/ (a = b /\ j < i)
  PROVE  12 * b + j < 12 * a + i
OBVIOUS

LEMMA CallEndType == dst \in DstSizes => ToCallEnd \in 0..11
<1> SUFFICES ASSUME dst \in DstSizes PROVE ToCallEnd \in 0..11
  OBVIOUS
<1>1. LengthsLeft(dst) \in 0..4
  BY GrowTakesOne
<1> QED BY <1>1 DEF ToCallEnd

LEMMA BoundStep ==
  ASSUME NEW b \in Nat, \A d \in Datasets : Pos[d] <= b, IInv, BoundInv(b), [Next]_vars
  PROVE  BoundInv(b)'
<1>0. errors \in Nat /\ MaxErrors \in Nat /\ cursor \in Nat
  BY ListAssumption DEF IInv, TypeOK
<1>1. ASSUME NEW d \in Datasets, Create(d) \/ Destroy(d) \/ NoMem(d) PROVE BoundInv(b)'
  BY <1>1 DEF Create, Destroy, NoMem, BoundInv
<1>2. ASSUME NEW d \in Datasets, Answer(d) PROVE BoundInv(b)'
  BY <1>2 DEF Answer, CursorAfter, BoundInv
<1>3. CASE Call \/ Retry \/ AtEnd
  BY <1>3 DEF Call, Retry, AtEnd, BoundInv
<1>4. CASE Fails
  BY <1>0, <1>4 DEF Fails, BoundInv
<1>5. CASE UNCHANGED vars
  BY <1>5 DEF vars, BoundInv
<1> QED BY <1>1, <1>2, <1>3, <1>4, <1>5 DEF Next, Lists

(* Every step of a listing (DatasetListNext's and NvlistIoctl's) moves     *)
(* ahead: the cursor never comes back to a place, retries and errors run   *)
(* out.                                                                    *)
LEMMA ListsStep ==
  ASSUME NEW b \in Nat, IInv, IInv', BoundInv(b), BoundInv(b)', Lists
  PROVE  Ahead(b)' < Ahead(b) \/ (Ahead(b)' = Ahead(b) /\ ToCallEnd' < ToCallEnd)
<1>0. /\ errors \in Nat /\ MaxErrors \in Nat /\ cursor \in Nat /\ dst \in DstSizes
      /\ errors' \in Nat /\ cursor' \in Nat /\ dst' \in DstSizes
  BY ListAssumption DEF IInv, TypeOK
<1>1. LengthsLeft(dst) \in 0..4
  BY <1>0, GrowTakesOne
<1>2. CASE Call
  <2>1. ToCallEnd = 11 /\ ToCallEnd' = 10
    BY <1>2 DEF Call, InitialDst, ToCallEnd, LengthsLeft
  <2> QED BY <1>2, <2>1 DEF Call, Ahead
<1>3. CASE Retry
  <2>1. LengthsLeft(dst') + 1 = LengthsLeft(dst) /\ LengthsLeft(dst') \in 0..4
    BY <1>0, <1>3, GrowTakesOne DEF Retry
  <2>2. /\ ToCallEnd = 2 * LengthsLeft(dst) + 1
        /\ ToCallEnd' = 2 * LengthsLeft(dst') + 2
    BY <1>3 DEF Retry, ToCallEnd
  <2>3. ToCallEnd' < ToCallEnd
    BY <1>1, <2>1, <2>2
  <2> QED BY <1>3, <2>3 DEF Retry, Ahead
<1>4. CASE AtEnd
  <2>1. ToCallEnd' = 0 /\ ToCallEnd = 2 * LengthsLeft(dst) + 2
    BY <1>4 DEF AtEnd, ToCallEnd
  <2>2. ToCallEnd' < ToCallEnd
    BY <1>1, <2>1
  <2> QED BY <1>4, <2>2 DEF AtEnd, Ahead
<1>5. CASE Fails
  BY <1>0, <1>5 DEF Fails, Ahead
<1>6. ASSUME NEW d \in Datasets, Answer(d) PROVE Ahead(b)' < Ahead(b)
  <2>1. cursor < cursor' /\ errors' = errors
    BY <1>0, <1>6, ListAssumption DEF Answer, CursorAfter, IsNext, IInv, CursorInv
  <2>2. (MaxErrors + 1 - errors) + (b - cursor') < (MaxErrors + 1 - errors) + (b - cursor)
    BY <1>0, <2>1, AheadDecreases
  <2> QED BY <2>1, <2>2 DEF Ahead
<1>7. ASSUME NEW d \in Datasets, NoMem(d) PROVE Ahead(b)' = Ahead(b) /\ ToCallEnd' < ToCallEnd
  <2>1. /\ ToCallEnd = 2 * LengthsLeft(dst) + 2
        /\ ToCallEnd' = 2 * LengthsLeft(dst) + 1
    BY <1>7 DEF NoMem, ToCallEnd
  <2>2. ToCallEnd' < ToCallEnd
    BY <1>1, <2>1
  <2> QED BY <1>7, <2>2 DEF NoMem, Ahead
<1> QED BY <1>2, <1>3, <1>4, <1>5, <1>6, <1>7 DEF Lists

(* A listing takes at most 12 * (MaxErrors + 1 + b) + 11 steps, b the      *)
(* largest place in the directory, whatever others create and destroy      *)
(* while it runs: each step of it leaves fewer to come, and no step of     *)
(* theirs adds one.                                                        *)
THEOREM ListStepsBounded ==
  ASSUME NEW b \in Nat, \A d \in Datasets : Pos[d] <= b
  PROVE  Spec => [][ListingAdvances(b)]_vars
<1>1. Init => BoundInv(b)
  BY ListAssumption DEF Init, BoundInv
<1>2. IInv /\ BoundInv(b) /\ [Next]_vars => BoundInv(b)'
  BY BoundStep
<1>3. ASSUME IInv, IInv', BoundInv(b), BoundInv(b)', Next PROVE ListingAdvances(b)
  <2> DEFINE x == Ahead(b)
             y == Ahead(b)'
             i == ToCallEnd
             j == ToCallEnd'
  <2>1. x \in Nat /\ i \in 0..11
    BY <1>3, AheadOrder, CallEndType, ListAssumption DEF IInv, TypeOK, BoundInv, Ahead
  <2>2. y \in Nat
    BY <1>3, AheadOrder, ListAssumption DEF IInv, TypeOK, BoundInv, Ahead
  <2>3. j \in 0..11
    <3>1. dst' \in DstSizes
      BY <1>3 DEF IInv, TypeOK
    <3>2. (dst \in DstSizes => ToCallEnd \in 0..11)'
      BY CallEndType, PTL
    <3> QED BY <3>1, <3>2
  <2>4. Lists => y < x \/ (y = x /\ j < i)
    BY <1>3, ListsStep
  <2>5. ~Lists => y = x /\ j = i
    BY <1>3 DEF Next, Create, Destroy, Ahead, ToCallEnd
  <2> HIDE DEF x, y, i, j
  <2>6. 12 * x + i \in Nat /\ 12 * y + j \in Nat
    BY <2>1, <2>2, <2>3
  <2>7. Lists => 12 * y + j < 12 * x + i
    BY <2>1, <2>2, <2>3, <2>4, CallOrder
  <2>8. ~Lists => 12 * y + j = 12 * x + i
    BY <2>5
  <2> QED BY <2>6, <2>7, <2>8 DEF ListingAdvances, StepsLeft, x, y, i, j
<1>4. IInv /\ IInv' /\ BoundInv(b) /\ BoundInv(b)' /\ [Next]_vars => [ListingAdvances(b)]_vars
  BY <1>3
<1> QED BY <1>1, <1>2, <1>4, ListIInv, PTL DEF Spec
=============================================================================
