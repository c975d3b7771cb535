----------------------------- MODULE DatasetList -----------------------------
(***************************************************************************)
(* Listing with DatasetListNext or SnapshotListNext (ioctl/wrappers.go):   *)
(* the caller hands each call the cursor the last one returned, until      *)
(* ESRCH, while others create and destroy datasets.  NvlistIoctl's retry   *)
(* is part of a call: a handler may have advanced the cookie of its        *)
(* private Cmd and still answer ENOMEM.  The kernel keeps the entries of a *)
(* directory in the order of a number that depends on the name alone       *)
(* (Pos); the cookie is the number of the entry last returned.             *)
(***************************************************************************)
EXTENDS Naturals, Sequences, DstBuffer

CONSTANTS
  Datasets,    \* names that may exist under the listed one
  Pos,         \* their places in the directory
  MaxErrors    \* errors the caller puts up with

ASSUME ListAssumption ==
  /\ Pos \in [Datasets -> Nat \ {0}]
  /\ \A d, e \in Datasets : Pos[d] = Pos[e] => d = e
  /\ MaxErrors \in Nat

VARIABLES
  live,     \* datasets that exist
  cursor,   \* the caller's
  cookie,   \* privateCmd.Cookie
  dst,      \* len(dst) of NvlistIoctl
  pc,       \* "caller", "kernel", "nomem", "done", "gaveUp"
  errors,   \* met by the caller so far
  listed,   \* names returned, in order
  steady    \* history: datasets that existed since the listing began

vars == <<live, cursor, cookie, dst, pc, errors, listed, steady>>

Listed == {listed[i] : i \in DOMAIN listed}

TypeOK ==
  /\ live \subseteq Datasets /\ steady \subseteq live
  /\ cursor \in Nat /\ cookie \in Nat
  /\ dst \in DstSizes
  /\ pc \in {"caller", "kernel", "nomem", "done", "gaveUp"}
  /\ errors \in Nat
  /\ listed \in Seq(Datasets)

Init ==
  /\ live \in SUBSET Datasets /\ steady = live
  /\ cursor = 0 /\ cookie = 0 /\ dst = InitialDst
  /\ pc = "caller" /\ errors = 0 /\ listed = <<>>

Create(d) ==
  /\ d \notin live
  /\ live' = live \cup {d}
  /\ UNCHANGED <<cursor, cookie, dst, pc, errors, listed, steady>>

Destroy(d) ==
  /\ d \in live
  /\ live' = live \ {d} /\ steady' = steady \ {d}
  /\ UNCHANGED <<cursor, cookie, dst, pc, errors, listed>>

-----------------------------------------------------------------------------
Call ==                      \* cmd := &Cmd{Cookie: cursor}
  /\ pc = "caller"
  /\ cookie' = cursor /\ dst' = InitialDst
  /\ pc' = "kernel"
  /\ UNCHANGED <<live, cursor, errors, listed, steady>>

\* What the handler returns for the cookie.
IsNext(d) ==
  d \in live /\ Pos[d] > cookie /\ \A e \in live : Pos[e] > cookie => Pos[d] <= Pos[e]

\* Possible slip: NvlistIoctl does not copy the private Cmd back.
CursorKept(d) == cursor
\* *cmd = privateCmd
CursorAfter(d) == Pos[d]

Answer(d) ==                 \* name and cmd.Cookie are returned
  /\ pc = "kernel" /\ IsNext(d)
  /\ cookie' = Pos[d] /\ cursor' = CursorAfter(d)
  /\ listed' = Append(listed, d)
  /\ pc' = "caller"
  /\ UNCHANGED <<live, dst, errors, steady>>

NoMem(d) ==                  \* the cookie has moved, but the props do not fit
  /\ pc = "kernel" /\ IsNext(d)
  /\ cookie' = Pos[d]
  /\ pc' = "nomem"
  /\ UNCHANGED <<live, cursor, dst, errors, listed, steady>>

\* Possible slip: the handler's copy of the Cmd is used again.
CookieKept == cookie
\* privateCmd := *cmd
FreshCookie == cursor

Retry ==
  /\ pc = "nomem" /\ ~Exhausted(dst)
  /\ dst' = Grow(dst)
  /\ cookie' = FreshCookie
  /\ pc' = "kernel"
  /\ UNCHANGED <<live, cursor, errors, listed, steady>>

AtEnd ==                     \* ESRCH
  /\ pc = "kernel" /\ \A d \in live : Pos[d] <= cookie
  /\ pc' = "done"
  /\ UNCHANGED <<live, cursor, cookie, dst, errors, listed, steady>>

\* Any other error: the cursor returned is 0, and a caller who goes on uses
\* the one it has; or it gives up.
Fails ==
  /\ pc = "kernel" \/ (pc = "nomem" /\ Exhausted(dst))
  /\ IF errors < MaxErrors THEN pc' = "caller" ELSE pc' = "gaveUp"
  /\ errors' = errors + 1
  /\ UNCHANGED <<live, cursor, cookie, dst, listed, steady>>

Lists == Call \/ Retry \/ AtEnd \/ Fails \/ \E d \in Datasets : Answer(d) \/ NoMem(d)

Next == Lists \/ \E d \in Datasets : Create(d) \/ Destroy(d)

Spec == Init /\ [][Next]_vars

\* The caller calls on, the kernel answers; others may change things or not.
FairSpec == Spec /\ WF_vars(Lists)

-----------------------------------------------------------------------------
(* A complete listing has every dataset that was there all the time,       *)
(* whatever was created, destroyed, retried or failed in between: no retry *)
(* of NvlistIoctl makes DatasetListNext skip an entry.                     *)
NothingMissed == pc = "done" => steady \subseteq Listed

(* No dataset is listed twice, although it may be destroyed and created    *)
(* anew during the listing.                                                *)
ListedOnce == \A i, j \in DOMAIN listed : listed[i] = listed[j] => i = j

(* A listing ends, even when datasets keep coming and going.               *)
ListingEnds == <>(pc \in {"done", "gaveUp"})
=============================================================================
