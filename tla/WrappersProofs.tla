--------------------------- MODULE WrappersProofs ---------------------------
(***************************************************************************)
(* Proofs about ioctl/wrappers.go for any names, any properties, any calls *)
(* of the wrappers and any number of repeated system calls.                *)
(***************************************************************************)
EXTENDS Wrappers, TLAPS

(* The open handle is the node's, once Init has returned nil. *)
FileInv ==
  /\ node \in {"absent", "device", "regular"} /\ handle \in {"nil", "device", "regular"}
  /\ inited \in BOOLEAN
  /\ inited => handle = node /\ node # "absent" /\ pc \in {"idle", "ioctl", "returned"}

StateInv ==
  /\ kernel \in Kernel /\ before \in Kernel /\ call \in Calls
  /\ pc \in {"idle", "open", "mknod", "reopen", "ioctl", "returned"}
  /\ pc \in {"open", "mknod", "reopen"} => call.fn = "Init" /\ kernel = before
  /\ pc = "ioctl" => call.fn # "Init" /\ cmd = Request
  /\ tries \in 0..MaxTries /\ (pc = "ioctl" => tries < MaxTries)
  /\ fault \in {"none", "failed", "acted"}

(* What a call has done that has not returned nil: nothing, all of it, or, *)
(* for SetProp, a part of it.  This is what a repeated system call starts  *)
(* from.                                                                   *)
Between ==
  \/ kernel = before
  \/ fault = "acted" /\ kernel = Wanted
  \/ /\ fault = "acted" /\ call.fn = "SetProp"
     /\ \E S \in SUBSET call.props : kernel = Set(before, S, Source(call.n))

ShapeInv == DOMAIN cmd = DOMAIN Cmd(None) /\ DOMAIN result = {"err", "string"}

IInv ==
  /\ FileInv /\ StateInv /\ ShapeInv /\ (pc = "ioctl" => Between)
  /\ NilMeansDone /\ ErrorsConfined /\ Served /\ PromoteReports

-----------------------------------------------------------------------------
Fns ==
  {"Init", "PoolCreate", "PoolDestroy", "PoolConfigs", "PoolGetProps", "PoolStats", "PoolExport",
   "PoolImport", "PauseScan", "StartStopScan", "RegenerateGUID", "Create", "Clone", "Snapshot",
   "Bookmark", "Destroy", "DestroySnapshots", "Rename", "Promote", "Rollback", "SetProp",
   "InheritProp", "SendSpace", "GetSpaceWritten", "ObjsetZPLProps", "ObjsetStats"}

LEMMA CallType ==
  ASSUME call \in Calls
  PROVE  /\ call.fn \in Fns
         /\ call.fn \in {"Create", "Clone"} => call.name \in Names
         /\ call.snaps \subseteq Snapshots /\ call.props \subseteq Props
         /\ call.n \in Nat /\ call.flag \in BOOLEAN
BY WrappersAssumption DEF Fns

LEMMA EmptyType == Empty("active") \in Kernel /\ Empty("absent") \in Kernel
BY DEF Empty, Kernel

(* Properties set twice, to the same source. *)
LEMMA SetType ==
  ASSUME NEW k \in Kernel, NEW S, NEW v \in {"inherited", "local", "received"}
  PROVE  Set(k, S, v) \in Kernel
BY DEF Set, Kernel

LEMMA SetNone ==
  ASSUME NEW k \in Kernel, NEW v PROVE Set(k, {}, v) = k
BY DEF Set, Kernel

LEMMA SetSet ==
  ASSUME NEW k \in Kernel, NEW S, NEW T, NEW v
  PROVE  Set(Set(k, S, v), T, v) = Set(k, S \cup T, v)
<1> DEFINE a == [p \in Props |-> IF p \in S THEN v ELSE k.prop[p]]
           b == [p \in Props |-> IF p \in T THEN v ELSE a[p]]
<1>1. Set(k, S, v) = [k EXCEPT !.prop = a] /\ Set(k, S, v).prop = a
  BY DEF Set, Kernel
<1>2. Set(Set(k, S, v), T, v) = [k EXCEPT !.prop = b]
  BY <1>1 DEF Set, Kernel
<1>3. b = [p \in Props |-> IF p \in S \cup T THEN v ELSE k.prop[p]]
  OBVIOUS
<1> QED BY <1>2, <1>3 DEF Set

(* What a run of the handler for this call does, with answer h: all of it  *)
(* when it has no error, nothing when the wrapper has one, and no error    *)
(* when the pool allowed the call.                                         *)
Final(h) == ErrorOf(h.err, CopyBack(h))
Allowed == kernel = before /\ Possible /\ ~NotAsOffered

Whole(h) ==
  /\ h.store \in Kernel
  /\ h.err = "nil" => h.store = Wanted
  /\ Final(h) # "nil" => h.store = kernel
  /\ Final(h) = "nil" => h.err = "nil"
  /\ Allowed => Final(h) = "nil"
  /\ call.fn = "Promote" => IF Final(h) = "EEXIST" THEN h.string \in kernel.held ELSE h.string = None

(* What the lemmas about the wrappers start from. *)
Ready == StateInv /\ ShapeInv /\ pc = "ioctl" /\ ~Refused /\ Between

LEMMA CopiedBack ==
  ASSUME Ready, NEW h
  PROVE  CopyBack(h).cookie = h.cookie /\ CopyBack(h).string = h.string
BY DEF Ready, ShapeInv, CopyBack, Cmd

(* Most wrappers: a handler that does k2 if p, and a wrapper that returns  *)
(* its error.                                                              *)
LEMMA PlainWhole ==
  ASSUME Ready, NEW m, NEW p \in BOOLEAN, NEW k2, NEW e, e # "nil",
         call.fn \notin {"PoolImport", "PoolStats", "Promote"},
         p => k2 \in Kernel /\ k2 = Wanted,
         Allowed => p
  PROVE  Whole(Does(m, p, k2, e))
<1> DEFINE h == Does(m, p, k2, e)
<1>1. /\ h.store = (IF p THEN k2 ELSE kernel) /\ h.err = (IF p THEN "nil" ELSE e)
      /\ Final(h) = h.err
  BY DEF Does, ErrorOf, Final
<1> HIDE DEF h
<1>2. Whole(h)
  BY <1>1 DEF h, Whole, Ready, StateInv
<1> QED BY <1>2 DEF h

(* The wrappers of a pool's life. *)
LEMMA PoolWhole ==
  ASSUME Ready, call.fn \in {"PoolCreate", "PoolDestroy", "PoolExport"}
  PROVE  Whole(Handle(Request))
<1>0. kernel \in Kernel /\ before \in Kernel /\ call.flag \in BOOLEAN
  BY CallType DEF Ready, StateInv
<1>1. CASE call.fn = "PoolCreate"
  <2> DEFINE p == kernel.pool = "absent"
             k2 == Empty("active")
  <2>1. Request.ioctl = "POOL_CREATE"
    BY <1>1 DEF Request, PoolIoctls, PropsIoctls, Cmd
  <2>2. Handle(Request) = Does(Request, p, k2, "EEXIST")
    BY <2>1 DEF Handle, PoolHandler
  <2>3. k2 \in Kernel /\ k2 = Wanted
    BY <1>1, EmptyType DEF Wanted
  <2>4. (Allowed => p) /\ p \in BOOLEAN
    BY <1>1 DEF Allowed, Possible
  <2> HIDE DEF p, k2
  <2> QED BY <1>1, <2>2, <2>3, <2>4, PlainWhole
<1>2. CASE call.fn = "PoolDestroy"
  <2> DEFINE p == kernel.pool = "active"
             k2 == Empty("absent")
  <2>1. Request.ioctl = "POOL_DESTROY"
    BY <1>2 DEF Request, PoolIoctls, PropsIoctls, Cmd
  <2>2. Handle(Request) = Does(Request, p, k2, "ENOENT")
    BY <2>1 DEF Handle, PoolHandler
  <2>3. k2 \in Kernel /\ k2 = Wanted
    BY <1>2, EmptyType DEF Wanted
  <2>4. (Allowed => p) /\ p \in BOOLEAN
    BY <1>2 DEF Allowed, Possible
  <2> HIDE DEF p, k2
  <2> QED BY <1>2, <2>2, <2>3, <2>4, PlainWhole
<1>3. CASE call.fn = "PoolExport"
  <2> DEFINE p == kernel.pool = "active" /\ (kernel.held = {} \/ Request.cookie = 1)
             k2 == [kernel EXCEPT !.pool = "exported"]
  <2>0. Request = PoolExport
    BY <1>3 DEF Request, PoolIoctls, PropsIoctls
  <2>1. Request.ioctl = "POOL_EXPORT" /\ Request.cookie = Bit(call.flag)
    BY <2>0 DEF PoolExport, Cmd
  <2>2. Handle(Request) = Does(Request, p, k2, "EBUSY")
    BY <2>1 DEF Handle, PoolHandler
  <2>3. Wanted = [before EXCEPT !.pool = "exported"]
    BY <1>3 DEF Wanted
  <2>4. p => kernel = before
    BY <1>0, <1>3, <2>3 DEF Ready, Between, Kernel
  <2>5. p => k2 \in Kernel /\ k2 = Wanted
    BY <1>0, <2>3, <2>4 DEF Kernel
  <2>6. (Allowed => p) /\ p \in BOOLEAN
    BY <1>0, <1>3, <2>1 DEF Allowed, Possible, Bit
  <2> HIDE DEF p, k2
  <2> QED BY <1>3, <2>2, <2>5, <2>6, PlainWhole
<1> QED BY <1>1, <1>2, <1>3

(* The wrappers that look at the cookie. *)
LEMMA CookieWhole ==
  ASSUME Ready, call.fn \in {"PoolImport", "PoolStats"}
  PROVE  Whole(Handle(Request))
<1> DEFINE h == Handle(Request)
<1>0. kernel \in Kernel /\ before \in Kernel
  BY DEF Ready, StateInv
<1>1. CASE call.fn = "PoolImport"
  <2> DEFINE k2 == [kernel EXCEPT !.pool = "active"]
             p == kernel.pool = "exported"
  <2>0. Request = PoolImport
    BY <1>1 DEF Request, PoolIoctls, PropsIoctls
  <2>1. Request.ioctl = "POOL_IMPORT"
    BY <2>0 DEF PoolImport, Cmd
  <2>2. h = [Does(Request, p, k2, "EIO") EXCEPT !.cookie = Bit(~p)]
    BY <2>1 DEF Handle, PoolHandler
  <2>3. /\ h.store = (IF p THEN k2 ELSE kernel) /\ h.err = (IF p THEN "nil" ELSE "EIO")
        /\ h.cookie = IF p THEN 0 ELSE 1
    BY <2>2 DEF Does, Bit
  <2>w. Wanted = [before EXCEPT !.pool = "active"]
    BY <1>1 DEF Wanted
  <2>b. p => kernel = before
    BY <1>0, <1>1, <2>w DEF Ready, Between, Kernel
  <2>5. p => k2 \in Kernel /\ k2 = Wanted
    BY <1>0, <2>w, <2>b DEF Kernel
  <2>6. Allowed => p
    BY <1>1 DEF Allowed, Possible
  <2> HIDE DEF p, k2, h
  <2>4. Final(h) = IF p THEN "nil" ELSE "cookie"
    BY <1>1, <2>3, CopiedBack DEF ErrorOf, Final
  <2>8. Whole(h)
    BY <1>0, <1>1, <2>3, <2>4, <2>5, <2>6 DEF Whole
  <2> QED BY <2>8 DEF h
<1>2. CASE call.fn = "PoolStats"
  <2>0. Request = PoolStats
    BY <1>2 DEF Request, PoolIoctls, PropsIoctls
  <2>1. Request.ioctl = "POOL_STATS"
    BY <2>0 DEF PoolStats, Cmd
  <2>2. h = [Does(Request, TRUE, kernel, "") EXCEPT !.cookie = Bit(~(kernel.pool = "active"))]
    BY <2>1 DEF Handle, PoolHandler
  <2>3. /\ h.store = kernel /\ h.err = "nil"
        /\ h.cookie = IF kernel.pool = "active" THEN 0 ELSE 1
    BY <2>2 DEF Does, Bit
  <2>5. kernel = Wanted
    BY <1>2 DEF Wanted, Ready, Between
  <2>6. Allowed => kernel.pool = "active"
    BY <1>2 DEF Allowed, Possible
  <2> HIDE DEF h
  <2>4. Final(h) = IF kernel.pool = "active" THEN "nil" ELSE "cookie"
    BY <1>2, <2>3, CopiedBack DEF ErrorOf, Final
  <2>8. Whole(h)
    BY <1>0, <1>2, <2>3, <2>4, <2>5, <2>6 DEF Whole
  <2> QED BY <2>8 DEF h
<1> QED BY <1>1, <1>2

(* The scan. *)
LEMMA ScanWhole ==
  ASSUME Ready, call.fn \in {"PauseScan", "StartStopScan"}
  PROVE  Whole(Handle(Request))
<1>0. kernel \in Kernel /\ before \in Kernel /\ call.n \in Nat
  BY CallType DEF Ready, StateInv
<1>1. CASE call.fn = "PauseScan"
  <2> DEFINE p == kernel.pool = "active" /\ kernel.scan = "scrub"
             k2 == [kernel EXCEPT !.scan = "paused"]
  <2>0. Request = PauseScan
    BY <1>1 DEF Request, PoolIoctls, PropsIoctls
  <2>1. Request.ioctl = "POOL_SCAN" /\ Request.flags = 1
    BY <2>0 DEF PauseScan, Cmd
  <2>2. Handle(Request) = Does(Request, p, k2, "ENOENT")
    BY <2>1 DEF Handle, PoolHandler
  <2>3. Wanted = [before EXCEPT !.scan = "paused"]
    BY <1>1 DEF Wanted
  <2>4. p => kernel = before
    BY <1>0, <1>1, <2>3 DEF Ready, Between, Kernel
  <2>5. p => k2 \in Kernel /\ k2 = Wanted
    BY <1>0, <2>3, <2>4 DEF Kernel
  <2>6. (Allowed => p) /\ p \in BOOLEAN
    BY <1>1 DEF Allowed, Possible
  <2> HIDE DEF p, k2
  <2> QED BY <1>1, <2>2, <2>5, <2>6, PlainWhole
<1>2. CASE call.fn = "StartStopScan"
  <2> DEFINE to == IF call.n = 0 THEN "none" ELSE "scrub"
             e == IF call.n = 0 THEN "ENOENT" ELSE "EBUSY"
             p == kernel.pool = "active" /\ kernel.scan # to
             k2 == [kernel EXCEPT !.scan = to]
  <2>0. Request = StartStopScan
    BY <1>2 DEF Request, PoolIoctls, PropsIoctls
  <2>1. Request.ioctl = "POOL_SCAN" /\ Request.flags = 0 /\ Request.cookie = call.n
    BY <2>0 DEF StartStopScan, Cmd
  <2>2. Handle(Request) = Does(Request, p, k2, e)
    <3>1. CASE call.n = 0
      BY <2>1, <3>1 DEF Handle, PoolHandler, ScanTypeNone
    <3>2. CASE call.n > 0
      BY <1>0, <2>1, <3>2 DEF Handle, PoolHandler, ScanTypeNone
    <3> QED BY <1>0, <3>1, <3>2
  <2>3. Wanted = [before EXCEPT !.scan = to]
    BY <1>2 DEF Wanted, ScanTypeNone
  <2>4. p => kernel = before
    BY <1>0, <1>2, <2>3 DEF Ready, Between, Kernel
  <2>5. p => k2 \in Kernel /\ k2 = Wanted
    BY <1>0, <2>3, <2>4 DEF Kernel
  <2>6. (Allowed => p) /\ p \in BOOLEAN /\ e # "nil"
    BY <1>2 DEF Allowed, Possible, ScanTypeNone
  <2> HIDE DEF p, k2, e
  <2> QED BY <1>2, <2>2, <2>5, <2>6, PlainWhole
<1> QED BY <1>1, <1>2

(* The wrappers that make datasets, and DestroySnapshots. *)
LEMMA MakingWhole ==
  ASSUME Ready, call.fn \in {"Create", "Clone", "Snapshot", "DestroySnapshots"}
  PROVE  Whole(Handle(Request))
<1>0. /\ kernel \in Kernel /\ kernel.live \subseteq Names /\ before \in Kernel
      /\ call.fn \in {"Create", "Clone"} => call.name \in Names
      /\ call.snaps \subseteq Names
  BY CallType DEF Ready, StateInv, Kernel, Names
<1>1. CASE call.fn = "Create"
  <2> DEFINE p == kernel.pool = "active" /\ ~Live(kernel, call.name)
             k2 == Add({call.name})
  <2>0. Request = Create
    BY <1>1 DEF Request, PoolIoctls, PropsIoctls
  <2>1. Request.ioctl = "CREATE" /\ Request.name = call.name
    BY <2>0 DEF Create, Cmd
  <2>2. Handle(Request) = Does(Request, p, k2, "EEXIST")
    BY <2>1 DEF Handle, Handler
  <2>3. Wanted = [before EXCEPT !.live = @ \cup {call.name}]
    BY <1>1 DEF Wanted
  <2>4. p => kernel = before
    BY <1>0, <1>1, <2>3 DEF Ready, Between, Kernel, Live
  <2>5. p => k2 \in Kernel /\ k2 = Wanted
    BY <1>0, <1>1, <2>3, <2>4 DEF Kernel, Add
  <2>6. (Allowed => p) /\ p \in BOOLEAN
    BY <1>1 DEF Allowed, Possible, Live
  <2> HIDE DEF p, k2
  <2> QED BY <1>1, <2>2, <2>5, <2>6, PlainWhole
<1>2. CASE call.fn = "Clone"
  <2> DEFINE p == Live(kernel, call.to) /\ ~Live(kernel, call.name)
             k2 == Add({call.name})
  <2>0. Request = Clone
    BY <1>2 DEF Request, PoolIoctls, PropsIoctls
  <2>1. Request.ioctl = "CLONE" /\ Request.name = call.name /\ Request.origin = call.to
    BY <2>0 DEF Clone, Cmd
  <2>2. Handle(Request) = Does(Request, p, k2, "EINVAL")
    BY <2>1 DEF Handle, Handler
  <2>3. Wanted = [before EXCEPT !.live = @ \cup {call.name}]
    BY <1>2 DEF Wanted
  <2>4. p => kernel = before
    BY <1>0, <1>2, <2>3 DEF Ready, Between, Kernel, Live
  <2>5. p => k2 \in Kernel /\ k2 = Wanted
    BY <1>0, <1>2, <2>3, <2>4 DEF Kernel, Add
  <2>6. (Allowed => p) /\ p \in BOOLEAN
    BY <1>2 DEF Allowed, Possible, Live
  <2> HIDE DEF p, k2
  <2> QED BY <1>2, <2>2, <2>5, <2>6, PlainWhole
<1>3. CASE call.fn = "Snapshot"
  <2> DEFINE p == kernel.pool = "active" /\ call.snaps \cap kernel.live = {}
             k2 == Add(call.snaps)
  <2>0. Request = Snapshot
    BY <1>3 DEF Request, PoolIoctls, PropsIoctls
  <2>1. Request.ioctl = "SNAPSHOT" /\ Request.snaps = call.snaps
    BY <2>0 DEF Snapshot, Cmd
  <2>2. Handle(Request) = Does(Request, p, k2, "EEXIST")
    BY <2>1 DEF Handle, Handler
  <2>3. Wanted = [before EXCEPT !.live = @ \cup call.snaps]
    BY <1>3 DEF Wanted
  <2>4. kernel = before \/ kernel = Wanted
    BY <1>3 DEF Ready, Between
  <2>5. k2 \in Kernel /\ k2 = Wanted
    BY <1>0, <2>3, <2>4 DEF Kernel, Add
  <2>6. (Allowed => p) /\ p \in BOOLEAN
    BY <1>3 DEF Allowed, Possible
  <2> HIDE DEF p, k2
  <2> QED BY <1>3, <2>2, <2>5, <2>6, PlainWhole
<1>4. CASE call.fn = "DestroySnapshots"     \* a CLONE without an origin: always refused
  <2> DEFINE p == Live(kernel, None) /\ ~Live(kernel, call.name)
             k2 == Add({call.name})
  <2>0. Request = DestroySnapshots
    BY <1>4 DEF Request, PoolIoctls, PropsIoctls
  <2>1. Request.ioctl = "CLONE" /\ Request.name = call.name /\ Request.origin = None
    BY <2>0 DEF DestroySnapshots, Cmd
  <2>2. Handle(Request) = Does(Request, p, k2, "EINVAL")
    BY <2>1 DEF Handle, Handler
  <2>3. ~p /\ p \in BOOLEAN
    BY <1>0, WrappersAssumption DEF Live
  <2>4. ~Allowed
    BY <1>4 DEF Allowed, NotAsOffered
  <2> HIDE DEF p, k2
  <2> QED BY <1>4, <2>2, <2>3, <2>4, PlainWhole
<1> QED BY <1>1, <1>2, <1>3, <1>4

(* Destroy and Rename.  A repeated Rename finds its new name in the way.   *)
LEMMA NamesWhole ==
  ASSUME Ready, call.fn \in {"Destroy", "Rename"}
  PROVE  Whole(Handle(Request))
<1>0. /\ kernel \in Kernel /\ kernel.live \subseteq Names /\ before \in Kernel
  BY DEF Ready, StateInv, Kernel
<1>1. CASE call.fn = "Destroy"
  <2> DEFINE p == Live(kernel, call.name) /\ call.name \notin kernel.held
             k2 == [kernel EXCEPT !.live = @ \ {call.name}]
  <2>0. Request = Destroy
    BY <1>1 DEF Request, PoolIoctls, PropsIoctls
  <2>1. Request.ioctl = "DESTROY" /\ Request.name = call.name
    BY <2>0 DEF Destroy, Cmd
  <2>2. Handle(Request) = Does(Request, p, k2, "EBUSY")
    BY <2>1 DEF Handle, Handler
  <2>3. Wanted = [before EXCEPT !.live = @ \ {call.name}]
    BY <1>1 DEF Wanted
  <2>4. p => kernel = before
    BY <1>0, <1>1, <2>3 DEF Ready, Between, Kernel, Live
  <2>5. p => k2 \in Kernel /\ k2 = Wanted
    BY <1>0, <2>3, <2>4 DEF Kernel
  <2>6. (Allowed => p) /\ p \in BOOLEAN
    BY <1>1 DEF Allowed, Possible, NotAsOffered
  <2> HIDE DEF p, k2
  <2> QED BY <1>1, <2>2, <2>5, <2>6, PlainWhole
<1>2. CASE call.fn = "Rename"
  <2> DEFINE new == Buffer(call.to)
             p == Live(kernel, call.name) /\ new \in Names \ kernel.live
             k2 == [kernel EXCEPT !.live = (@ \ {call.name}) \cup {new}]
  <2>0. Request = Rename
    BY <1>2 DEF Request, PoolIoctls, PropsIoctls
  <2>1. Request.ioctl = "RENAME" /\ Request.name = call.name /\ Request.value = new
    BY <2>0 DEF Rename, Cmd
  <2>2. Handle(Request) = Does(Request, p, k2, "EEXIST")
    BY <2>1 DEF Handle, Handler
  <2>3. Wanted = [before EXCEPT !.live = (@ \ {call.name}) \cup {new}]
    BY <1>2 DEF Wanted
  <2> HIDE DEF new
  <2>4. p => kernel = before
    BY <1>0, <1>2, <2>3 DEF Ready, Between, Kernel
  <2>5. p => k2 \in Kernel /\ k2 = Wanted
    BY <1>0, <2>3, <2>4 DEF Kernel
  <2>6. call.to \in Names => new = call.to
    BY WrappersAssumption DEF Buffer, new
  <2>7. (Allowed => p) /\ p \in BOOLEAN
    BY <1>2, <2>6 DEF Allowed, Possible
  <2> HIDE DEF p, k2
  <2> QED BY <1>2, <2>2, <2>5, <2>7, PlainWhole
<1> QED BY <1>1, <1>2

(* The properties.  SetProp may find a part of them set already. *)
LEMMA SetPropBetween ==
  ASSUME Ready, call.fn = "SetProp"
  PROVE  \E S \in SUBSET call.props : kernel = Set(before, S, Source(call.n))
<1>1. before \in Kernel /\ Wanted = Set(before, call.props, Source(call.n))
  BY DEF Ready, StateInv, Wanted
<1>2. {} \in SUBSET call.props /\ call.props \in SUBSET call.props
  OBVIOUS
<1> QED BY <1>1, <1>2, SetNone DEF Ready, Between

LEMMA SetPropHandle ==
  ASSUME call.fn = "SetProp"
  PROVE  /\ Request.ioctl = "SET_PROP" /\ Request.props = call.props /\ Request.cookie = call.n
         /\ Handle(Request) =
              Does(Request, Live(kernel, call.name) /\ call.n \in {PropSource.local, PropSource.received},
                   Set(kernel, call.props, Source(call.n)), "EINVAL")
<1>0. Request = SetProp
  BY DEF Request, PoolIoctls, PropsIoctls
<1>1. /\ Request.ioctl = "SET_PROP" /\ Request.name = call.name /\ Request.cookie = call.n
      /\ Request.props = call.props
  BY <1>0 DEF SetProp, Cmd
<1> QED BY <1>1 DEF Handle, Handler

LEMMA PropWhole ==
  ASSUME Ready, call.fn \in {"SetProp", "InheritProp"}
  PROVE  Whole(Handle(Request))
<1>0. kernel \in Kernel /\ before \in Kernel /\ call.flag \in BOOLEAN
  BY CallType DEF Ready, StateInv
<1>1. CASE call.fn = "SetProp"
  <2> DEFINE p == Live(kernel, call.name) /\ call.n \in {PropSource.local, PropSource.received}
             v == Source(call.n)
             k2 == Set(kernel, call.props, v)
  <2>1. Handle(Request) = Does(Request, p, k2, "EINVAL")
    BY <1>1, SetPropHandle
  <2>2. PICK S \in SUBSET call.props : kernel = Set(before, S, v)
    BY <1>1, SetPropBetween
  <2>3. v \in {"inherited", "local", "received"}
    BY DEF Source
  <2> HIDE DEF v
  <2>4. Wanted = Set(before, call.props, v)
    BY <1>1 DEF Wanted, v
  <2>5. S \cup call.props = call.props
    OBVIOUS
  <2>6. k2 = Wanted
    BY <1>0, <2>2, <2>4, <2>5, SetSet
  <2>7. k2 \in Kernel
    BY <1>0, <2>3, SetType
  <2>8. (Allowed => p) /\ p \in BOOLEAN
    BY <1>1 DEF Allowed, Possible
  <2> HIDE DEF p, k2
  <2> QED BY <1>1, <2>1, <2>6, <2>7, <2>8, PlainWhole
<1>2. CASE call.fn = "InheritProp"
  <2> DEFINE v == IF call.flag THEN "received" ELSE "inherited"
             new == Buffer(call.to)
             p == Live(kernel, call.name) /\ new \in Props
             k2 == Set(kernel, {new}, v)
  <2>0. Request = InheritProp
    BY <1>2 DEF Request, PoolIoctls, PropsIoctls
  <2>1. /\ Request.ioctl = "INHERIT_PROP" /\ Request.name = call.name
        /\ Request.cookie = Bit(call.flag) /\ Request.value = new
    BY <2>0 DEF InheritProp, Cmd
  <2>2. Handle(Request) = Does(Request, p, k2, "EINVAL")
    BY <1>0, <2>1 DEF Handle, Handler, Bit
  <2>3. v \in {"inherited", "local", "received"}
    OBVIOUS
  <2>4. Wanted = Set(before, {call.to}, v)
    BY <1>2 DEF Wanted
  <2>5. new = call.to
    BY <1>2 DEF Ready, Refused, Buffer
  <2>6. kernel = before \/ kernel = Wanted
    BY <1>2 DEF Ready, Between
  <2> HIDE DEF v, new
  <2>7. k2 = Wanted
    BY <1>0, <2>4, <2>5, <2>6, SetSet
  <2>8. k2 \in Kernel
    BY <1>0, <2>3, SetType
  <2>9. (Allowed => p) /\ p \in BOOLEAN
    BY <1>2, <2>5 DEF Allowed, Possible
  <2> HIDE DEF p, k2
  <2> QED BY <1>2, <2>2, <2>7, <2>8, <2>9, PlainWhole
<1> QED BY <1>1, <1>2

(* The wrappers that leave the modelled state alone. *)
LEMMA ReadingWhole ==
  ASSUME Ready,
         call.fn \in {"PoolConfigs", "PoolGetProps", "RegenerateGUID", "Bookmark", "Promote",
                     "Rollback", "SendSpace", "GetSpaceWritten", "ObjsetZPLProps", "ObjsetStats"}
  PROVE  Whole(Handle(Request))
<1> DEFINE h == Handle(Request)
<1>0. kernel \in Kernel /\ kernel = before /\ kernel = Wanted
  BY DEF Ready, StateInv, Between, Wanted
<1>1. CASE call.fn = "Promote"
  <2> DEFINE live == Live(kernel, call.name)
             s == CHOOSE x \in kernel.held : TRUE
  <2>0. Request = Promote
    BY <1>1 DEF Request, PoolIoctls, PropsIoctls
  <2>1. Request.ioctl = "PROMOTE" /\ Request.name = call.name
    BY <2>0 DEF Promote, Cmd
  <2>2. h = IF live /\ kernel.held # {}
            THEN [Does(Request, FALSE, kernel, "EEXIST") EXCEPT !.string = s]
            ELSE Does(Request, live, kernel, "ENOENT")
    BY <2>1 DEF Handle, Handler
  <2>3. kernel.held # {} => s \in kernel.held
    OBVIOUS
  <2>4. Allowed => live /\ kernel.held = {}
    BY <1>1 DEF Allowed, Possible
  <2> HIDE DEF s, live
  <2>5. /\ h.store = kernel
        /\ h.err = (IF ~live THEN "ENOENT" ELSE IF kernel.held # {} THEN "EEXIST" ELSE "nil")
        /\ h.string = IF live /\ kernel.held # {} THEN s ELSE None
    BY <2>2 DEF Does
  <2> HIDE DEF h
  <2>6. Final(h) = h.err
    BY <1>1 DEF Final, ErrorOf
  <2>7. Whole(h)
    BY <1>0, <1>1, <2>3, <2>4, <2>5, <2>6 DEF Whole
  <2> QED BY <2>7 DEF h
<1>2. CASE call.fn = "Rollback"
  <2> DEFINE p == Live(kernel, call.name) /\ Live(kernel, call.to)
  <2>0. Request = Rollback
    BY <1>2 DEF Request, PoolIoctls, PropsIoctls
  <2>1. Request.ioctl = "ROLLBACK" /\ Request.name = call.name /\ Request.target = call.to
    BY <2>0 DEF Rollback, Cmd
  <2>2. h = Does(Request, p, kernel, "ENOENT")
    BY <2>1 DEF Handle, Handler
  <2>3. (Allowed => p) /\ p \in BOOLEAN
    BY <1>2 DEF Allowed, Possible
  <2> HIDE DEF p
  <2> QED BY <1>0, <1>2, <2>2, <2>3, PlainWhole
<1>3. CASE call.fn = "GetSpaceWritten"
  <2> DEFINE p == Live(kernel, call.name) /\ Live(kernel, Buffer(call.to))
  <2>0. Request = GetSpaceWritten
    BY <1>3 DEF Request, PoolIoctls, PropsIoctls
  <2>1. /\ Request.ioctl = "SPACE_WRITTEN" /\ Request.name = call.name
        /\ Request.value = Buffer(call.to)
    BY <2>0 DEF GetSpaceWritten, Cmd
  <2>2. h = Does(Request, p, kernel, "ENOENT")
    BY <2>1 DEF Handle, Handler
  <2>3. Live(kernel, call.to) => Buffer(call.to) = call.to
    BY <1>0, WrappersAssumption DEF Live, Kernel, Buffer
  <2>4. (Allowed => p) /\ p \in BOOLEAN
    BY <1>3, <2>3 DEF Allowed, Possible
  <2> HIDE DEF p
  <2> QED BY <1>0, <1>3, <2>2, <2>4, PlainWhole
<1>4. CASE call.fn = "Bookmark"
  <2> DEFINE p == kernel.pool = "active" /\ call.snaps \subseteq kernel.live
  <2>0. Request = Bookmark
    BY <1>4 DEF Request, PoolIoctls, PropsIoctls
  <2>1. Request.ioctl = "BOOKMARK" /\ Request.snaps = call.snaps
    BY <2>0 DEF Bookmark, Cmd
  <2>2. h = Does(Request, p, kernel, "ENOENT")
    BY <2>1 DEF Handle, Handler
  <2>3. (Allowed => p) /\ p \in BOOLEAN
    BY <1>4 DEF Allowed, Possible
  <2> HIDE DEF p
  <2> QED BY <1>0, <1>4, <2>2, <2>3, PlainWhole
<1>5. CASE call.fn \in {"PoolGetProps", "RegenerateGUID"}
  <2> DEFINE p == kernel.pool = "active"
  <2>1. Request.ioctl \in {"POOL_GET_PROPS", "POOL_REGUID"}
    BY <1>5 DEF Request, PoolIoctls, PropsIoctls, RegenerateGUID, Cmd
  <2>2. h = Does(Request, p, kernel, "ENOENT")
    BY <2>1 DEF Handle, PoolHandler
  <2>3. (Allowed => p) /\ p \in BOOLEAN
    BY <1>5 DEF Allowed, Possible
  <2> HIDE DEF p
  <2> QED BY <1>0, <1>5, <2>2, <2>3, PlainWhole
<1>6. CASE call.fn = "PoolConfigs"
  <2>1. Request.ioctl = "POOL_CONFIGS"
    BY <1>6 DEF Request, PoolIoctls, PropsIoctls, Cmd
  <2>2. h = Does(Request, TRUE, kernel, "")
    BY <2>1 DEF Handle, PoolHandler
  <2> QED BY <1>0, <1>6, <2>2, PlainWhole
<1>7. CASE call.fn \in {"SendSpace", "ObjsetZPLProps", "ObjsetStats"}
  <2> DEFINE p == Live(kernel, call.name)
  <2>1. /\ Request.ioctl \in {"SEND_SPACE", "OBJSET_ZPLPROPS", "OBJSET_STATS"}
        /\ Request.name = call.name
    BY <1>7 DEF Request, PoolIoctls, PropsIoctls, SendSpace, Cmd
  <2>2. h = Does(Request, p, kernel, "ENOENT")
    BY <2>1 DEF Handle, Handler
  <2>3. (Allowed => p) /\ p \in BOOLEAN
    BY <1>7 DEF Allowed, Possible, Live
  <2> HIDE DEF p
  <2> QED BY <1>0, <1>7, <2>2, <2>3, PlainWhole
<1> QED BY <1>1, <1>2, <1>3, <1>4, <1>5, <1>6, <1>7

(* Every wrapper. *)
LEMMA AnswerWhole ==
  ASSUME Ready PROVE cmd = Request /\ Whole(Handle(cmd))
<1>1. cmd = Request /\ call.fn \in Fns \ {"Init"}
  BY CallType DEF Ready, StateInv
<1>2. Whole(Handle(Request))
  BY <1>1, PoolWhole, CookieWhole, ScanWhole, MakingWhole, NamesWhole, PropWhole, ReadingWhole DEF Fns
<1> QED BY <1>1, <1>2

(* What a handler that fails leaves behind is nothing, all that was asked  *)
(* for, or some of the properties.                                         *)
Partly(k) ==
  \/ k = kernel \/ k = Wanted
  \/ call.fn = "SetProp" /\ \E S \in SUBSET call.props : k = Set(before, S, Source(call.n))

LEMMA LeftoversPartly ==
  ASSUME Ready, NEW k2 \in Leftovers(cmd) \cup {Handle(cmd).store}
  PROVE  k2 \in Kernel /\ Partly(k2)
<1> DEFINE h == Handle(cmd)
<1>0. kernel \in Kernel /\ before \in Kernel /\ cmd = Request /\ Whole(h)
  BY AnswerWhole DEF Ready, StateInv
<1>1. h.store \in Kernel /\ (h.store = kernel \/ h.store = Wanted)
  BY <1>0 DEF Whole
<1>2. CASE k2 \in {kernel, h.store}
  BY <1>0, <1>1, <1>2 DEF Partly
<1>3. CASE k2 \notin {kernel, h.store}
  <2> HIDE DEF h
  <2>1. /\ cmd.ioctl = "SET_PROP"
        /\ \E S \in SUBSET cmd.props : k2 = Set(kernel, S, Source(cmd.cookie))
    BY <1>3 DEF Leftovers, h
  <2>2. call.fn = "SetProp"
    <3>1. Request.ioctl = "SET_PROP" /\ call.fn \in Fns
      BY <1>0, <2>1, CallType DEF Ready, StateInv
    <3> QED BY <3>1 DEF Fns, Request, PoolIoctls, PropsIoctls, PoolStats, Promote, Create, Bookmark,
                        SendSpace, RegenerateGUID, PoolExport, PoolImport, PauseScan, StartStopScan,
                        Clone, Snapshot, DestroySnapshots, Rollback, InheritProp, GetSpaceWritten,
                        Rename, Destroy, Cmd, None
  <2>3. cmd.props = call.props /\ cmd.cookie = call.n
    BY <1>0, <2>2, SetPropHandle
  <2> DEFINE v == Source(call.n)
  <2>4. PICK S \in SUBSET call.props : k2 = Set(kernel, S, v)
    BY <2>1, <2>3
  <2>5. PICK T \in SUBSET call.props : kernel = Set(before, T, v)
    BY <2>2, SetPropBetween
  <2>6. v \in {"inherited", "local", "received"}
    BY DEF Source
  <2> HIDE DEF v
  <2>7. k2 = Set(before, T \cup S, v) /\ T \cup S \in SUBSET call.props
    BY <1>0, <2>4, <2>5, SetSet
  <2>8. k2 \in Kernel
    BY <1>0, <2>4, <2>6, SetType
  <2> QED BY <2>2, <2>7, <2>8 DEF Partly, v
<1> QED BY <1>2, <1>3

-----------------------------------------------------------------------------
LEMMA SameCall ==
  ASSUME UNCHANGED <<call, before>>
  PROVE  /\ Wanted' = Wanted /\ Request' = Request
         /\ Refused' = Refused /\ NotAsOffered' = NotAsOffered
         /\ \A S : Set(before, S, Source(call.n))' = Set(before, S, Source(call.n))
<1>1. Wanted' = Wanted
  BY DEF Wanted, Set, Source, Empty, Buffer
<1>2. Request' = Request
  BY DEF Request, PoolIoctls, PropsIoctls, PoolStats, Promote, Create, Bookmark, SendSpace,
         RegenerateGUID, PoolExport, PoolImport, PauseScan, StartStopScan, Clone, Snapshot,
         DestroySnapshots, Rollback, SetProp, InheritProp, GetSpaceWritten, Rename, Destroy, Cmd,
         Buffer, Bit
<1>3. Refused' = Refused /\ NotAsOffered' = NotAsOffered
  BY DEF Refused, NotAsOffered
<1>4. \A S : Set(before, S, Source(call.n))' = Set(before, S, Source(call.n))
  BY DEF Set, Source
<1> QED BY <1>1, <1>2, <1>3, <1>4

LEMMA SamePossible ==
  ASSUME UNCHANGED <<call, before, node, inited>>
  PROVE  Possible' = Possible
BY DEF Possible, Live

(* The Cmd of a wrapper has its own shape, and no string but the kernel's. *)
LEMMA RequestShape ==
  ASSUME call \in Calls
  PROVE  DOMAIN Request = DOMAIN Cmd(None) /\ (call.fn = "Promote" => Request.string = None)
BY CallType
   DEF Fns, Request, PoolIoctls, PropsIoctls, PoolStats, Promote, Create, Bookmark, SendSpace,
       RegenerateGUID, PoolExport, PoolImport, PauseScan, StartStopScan, Clone, Snapshot,
       DestroySnapshots, Rollback, SetProp, InheritProp, GetSpaceWritten, Rename, Destroy, Cmd

LEMMA WrappersInitIInv == Init => IInv
<1> SUFFICES ASSUME Init PROVE IInv
  OBVIOUS
<1>1. /\ call \in Calls /\ cmd = Request /\ pc = "idle" /\ tries = 0 /\ MaxTries \in Nat \ {0}
      /\ kernel \in Kernel /\ before = kernel
  BY EmptyType, WrappersAssumption DEF Init
<1>2. ShapeInv
  BY <1>1, RequestShape DEF Init, ShapeInv
<1>3. FileInv
  BY <1>1 DEF Init, FileInv
<1>4. StateInv
  BY <1>1 DEF Init, StateInv
<1> QED BY <1>1, <1>2, <1>3, <1>4
        DEF IInv, NilMeansDone, ErrorsConfined, Served, Undisturbed, PromoteReports

(* A call that goes on, or ends with an error that is not the handler's.   *)
LEMMA ErrorStep ==
  ASSUME IInv, pc = "ioctl", UNCHANGED <<file, call, before, cmd>>,
         kernel' \in Kernel, Between', ShapeInv',
         fault' \in {"none", "failed", "acted"}, tries' \in 0..MaxTries,
         Refused \/ handle # "device" \/ fault' # "none",
         \/ pc' = "ioctl" /\ tries' < MaxTries
         \/ pc' = "returned" /\ result'.err \notin {"nil", "EEXIST"} /\ result'.string = StringOf(cmd)
  PROVE  IInv'
<1>0. /\ call.fn # "Init" /\ call \in Calls /\ cmd = Request /\ before \in Kernel
      /\ Refused' = Refused /\ Request' = Request
  BY SameCall DEF IInv, StateInv
<1>1. FileInv'
  BY DEF IInv, FileInv, file
<1>2. StateInv'
  BY <1>0 DEF StateInv
<1>3. pc' = "returned" /\ call'.fn = "Promote" => result'.string = None
  BY <1>0, RequestShape DEF StringOf
<1>4. Served'
  <2>1. inited => handle = node
    BY DEF IInv, FileInv
  <2>2. Possible' => inited /\ node = "device"
    BY <1>0 DEF Possible, file
  <2> QED BY <1>0, <2>1, <2>2 DEF Served, Undisturbed
<1>5. ErrorsConfined'
  BY DEF ErrorsConfined, Between
<1> QED BY <1>1, <1>2, <1>3, <1>4, <1>5 DEF IInv, NilMeansDone, PromoteReports

(* A system call that acts and fails keeps the call between nothing and all. *)
LEMMA PartlyBetween ==
  ASSUME Ready, UNCHANGED <<call, before>>, Partly(kernel'),
         fault' = IF kernel' # kernel \/ fault = "acted" THEN "acted" ELSE "failed"
  PROVE  Between'
<1>1. Wanted' = Wanted
      /\ \A S : Set(before, S, Source(call.n))' = Set(before, S, Source(call.n))
  BY SameCall
<1>2. CASE kernel' = kernel
  <2>1. kernel = before \/ fault' = "acted"
    BY <1>2 DEF Ready, Between
  <2> QED BY <1>1, <1>2, <2>1 DEF Ready, Between
<1>3. CASE kernel' # kernel
  BY <1>1, <1>3 DEF Partly, Between
<1> QED BY <1>2, <1>3

LEMMA CallStep == ASSUME IInv, NEW c \in Calls, Call(c) PROVE IInv'
<1>1. /\ kernel' = kernel /\ before' = kernel /\ call' = c /\ cmd' = Request'
      /\ pc' = (IF c.fn = "Init" THEN "open" ELSE "ioctl") /\ tries' = 0 /\ fault' = "none"
      /\ UNCHANGED <<node, handle>> /\ inited' = (inited /\ c.fn # "Init")
      /\ DOMAIN result' = {"err", "string"}
      /\ pc \in {"idle", "returned"}
  BY DEF Call
<1>2. call' \in Calls /\ kernel \in Kernel /\ MaxTries \in Nat \ {0}
  BY <1>1, WrappersAssumption DEF IInv, StateInv
<1>3. FileInv'
  BY <1>1 DEF IInv, FileInv
<1>4. StateInv'
  BY <1>1, <1>2 DEF StateInv
<1>5. (call \in Calls => DOMAIN Request = DOMAIN Cmd(None))'
  BY RequestShape, PTL
<1>6. ShapeInv'
  BY <1>1, <1>2, <1>5 DEF ShapeInv
<1>7. Between'
  BY <1>1 DEF Between
<1> QED BY <1>1, <1>3, <1>4, <1>6, <1>7
        DEF IInv, NilMeansDone, ErrorsConfined, Served, Undisturbed, PromoteReports

(* Init of the package: its three system calls leave the pool alone.       *)
LEMMA InitStep ==
  ASSUME IInv, NEW ok \in BOOLEAN, FirstOpen(ok) \/ Mknod(ok) \/ SecondOpen(ok) PROVE IInv'
<1>1. /\ UNCHANGED <<kernel, call, before, cmd, tries>> /\ pc \in {"open", "mknod", "reopen"}
      /\ fault' \in {fault, "failed"} /\ (fault' = "none" => ok)
      /\ DOMAIN result' = {"err", "string"}
  BY DEF FirstOpen, Mknod, SecondOpen, Fails, IInv, ShapeInv
<1>2. /\ call.fn = "Init" /\ kernel = before /\ ~inited
      /\ pc' \in {"mknod", "reopen", "returned"}
  BY <1>1 DEF FirstOpen, Mknod, SecondOpen, IInv, StateInv, FileInv
<1>3. /\ node' \in {"absent", "device", "regular"} /\ handle' \in {"nil", "device", "regular"}
      /\ pc' # "returned" => inited' = inited
      /\ pc' = "returned" => /\ node' = node /\ handle' = (IF ok /\ node # "absent" THEN node ELSE "nil")
                             /\ inited' = (handle' # "nil")
                             /\ result'.err = IF handle' = "nil" THEN "open" ELSE "nil"
  BY <1>1 DEF FirstOpen, Mknod, SecondOpen, Opens, FileType, Mode, IInv, FileInv, ShapeInv
<1>4. FileInv'
  BY <1>2, <1>3 DEF IInv, FileInv
<1>5. StateInv'
  BY <1>1, <1>2 DEF IInv, StateInv
<1>6. ShapeInv'
  BY <1>1 DEF IInv, ShapeInv, Cmd
<1>7. kernel' = Wanted'
  BY <1>1, <1>2 DEF Wanted
<1>8. Served'
  BY <1>1, <1>2, <1>3 DEF Served, Undisturbed, Possible
<1> QED BY <1>1, <1>2, <1>4, <1>5, <1>6, <1>7, <1>8
        DEF IInv, NilMeansDone, ErrorsConfined, PromoteReports

(* The system call answers. *)
LEMMA AnswersStep == ASSUME IInv, Answers PROVE IInv'
<1> DEFINE h == Handle(cmd)
           m == CopyBack(h)
<1>1. /\ pc = "ioctl" /\ ~Refused /\ handle = "device"
      /\ UNCHANGED <<node, handle, inited, call, before, tries, fault>> /\ kernel' = h.store
      /\ pc' = "returned" /\ cmd' = m
      /\ result' = [err |-> Final(h), string |-> StringOf(m)]
  BY DEF Answers, InKernel, Return, Final, file
<1>2. Ready
  BY <1>1 DEF Ready, IInv
<1>3. Whole(h)
  BY <1>2, AnswerWhole
<1> HIDE DEF h
<1>4. m.string = h.string /\ DOMAIN m = DOMAIN cmd
  BY <1>2, CopiedBack DEF CopyBack
<1> HIDE DEF m
<1>5. result'.err = Final(h) /\ result'.string = StringOf(m) /\ DOMAIN result' = {"err", "string"}
  BY <1>1
<1>6. FileInv' /\ ShapeInv'
  BY <1>1, <1>4, <1>5 DEF IInv, FileInv, ShapeInv, Cmd
<1>7. StateInv'
  BY <1>1, <1>3 DEF IInv, StateInv, Whole
<1>8. NilMeansDone'
  BY <1>1, <1>3, <1>5, SameCall DEF NilMeansDone, Whole
<1>9. ErrorsConfined'
  <2>1. SUFFICES ASSUME Final(h) # "nil"
                 PROVE  Between'
    BY <1>5 DEF ErrorsConfined, Between
  <2>2. kernel' = kernel
    BY <1>1, <1>3, <2>1 DEF Whole
  <2> QED BY <1>1, <1>2, <2>2, SameCall DEF Ready, Between
<1>10. Served'
  <2>1. SUFFICES ASSUME Undisturbed', Possible, ~NotAsOffered
                 PROVE  Final(h) = "nil"
    BY <1>1, <1>5, SamePossible, SameCall DEF Served
  <2>2. kernel = before
    BY <1>1, <1>2, <2>1 DEF Undisturbed, Ready, Between
  <2> QED BY <1>3, <2>1, <2>2 DEF Whole, Allowed
<1>11. PromoteReports'
  <2>1. SUFFICES ASSUME call.fn = "Promote"
                 PROVE  IF Final(h) = "EEXIST" THEN h.string \in kernel'.held ELSE h.string = None
    BY <1>1, <1>4, <1>5 DEF PromoteReports, StringOf
  <2> QED BY <1>1, <1>3, <2>1 DEF Whole
<1> QED BY <1>1, <1>6, <1>7, <1>8, <1>9, <1>10, <1>11 DEF IInv

LEMMA WrappersStep == IInv /\ [Next]_vars => IInv'
<1> SUFFICES ASSUME IInv, [Next]_vars PROVE IInv'
  OBVIOUS
<1>k. kernel \in Kernel /\ before \in Kernel /\ MaxTries \in Nat \ {0}
  BY WrappersAssumption DEF IInv, StateInv
<1>e. \A e : e \notin {"nil", "EEXIST"} => ErrorOf(e, cmd) \notin {"nil", "EEXIST"}
  BY DEF ErrorOf
<1>1. ASSUME NEW c \in Calls, Call(c) PROVE IInv'
  BY <1>1, CallStep
<1>2. ASSUME NEW ok \in BOOLEAN, FirstOpen(ok) \/ Mknod(ok) \/ SecondOpen(ok) PROVE IInv'
  BY <1>2, InitStep
<1>3. CASE Refuses \/ NoDevice
  <2>1. PICK e \in {"panic", "refused", "EBADF", "ENOTTY"} :
          /\ pc = "ioctl" /\ UNCHANGED <<file, kernel, call, tries, fault, before, cmd>>
          /\ pc' = "returned"
          /\ result' = [err |-> ErrorOf(e, cmd), string |-> StringOf(cmd)]
          /\ Refused \/ handle # "device"
    BY <1>3 DEF Refuses, NoDevice, Return
  <2>2. /\ result'.err \notin {"nil", "EEXIST"} /\ result'.string = StringOf(cmd)
        /\ DOMAIN result' = {"err", "string"}
    BY <1>e, <2>1
  <2>3. ShapeInv'
    BY <2>1, <2>2 DEF IInv, ShapeInv, Cmd
  <2>4. Between'
    BY <2>1, SameCall DEF IInv, Between
  <2>5. fault' \in {"none", "failed", "acted"} /\ tries' \in 0..MaxTries
    BY <2>1 DEF IInv, StateInv
  <2> QED BY <1>k, <2>1, <2>2, <2>3, <2>4, <2>5, ErrorStep
<1>4. CASE Answers
  BY <1>4, AnswersStep
<1>5. CASE KernelFails \/ NoMem
  <2>1. /\ pc = "ioctl" /\ ~Refused
        /\ UNCHANGED <<file, call, before, cmd>>
        /\ kernel' \in Leftovers(cmd) \cup {Handle(cmd).store}
        /\ fault' = IF kernel' # kernel \/ fault = "acted" THEN "acted" ELSE "failed"
    BY <1>5 DEF KernelFails, NoMem, InKernel, Fault, Return
  <2>2. Ready
    BY <2>1 DEF Ready, IInv
  <2>3. kernel' \in Kernel /\ Between'
    BY <2>1, <2>2, LeftoversPartly, PartlyBetween
  <2>4. /\ \/ pc' = "ioctl" /\ tries' < MaxTries /\ result' = result
           \/ /\ pc' = "returned"
              /\ \E e \in {"EIO", "tooBig"} : result' = [err |-> ErrorOf(e, cmd), string |-> StringOf(cmd)]
        /\ tries' \in 0..MaxTries
    <3>1. tries \in Nat /\ tries < MaxTries /\ tries' \in {tries, tries + 1}
      BY <1>5, <1>k, <2>1 DEF IInv, StateInv, KernelFails, NoMem
    <3>2. pc' = "ioctl" => tries' = tries + 1 /\ ~GivesUp
      BY <1>5, <2>1 DEF KernelFails, NoMem, Return
    <3>3. pc' = "ioctl" => tries' < MaxTries
      BY <1>k, <3>1, <3>2 DEF GivesUp
    <3>4. tries' \in 0..MaxTries
      BY <1>k, <3>1
    <3> QED BY <1>5, <2>1, <3>3, <3>4 DEF KernelFails, NoMem, Return
  <2>5. ShapeInv'
    BY <2>1, <2>4 DEF IInv, ShapeInv, Cmd
  <2>6. \/ pc' = "ioctl" /\ tries' < MaxTries
        \/ pc' = "returned" /\ result'.err \notin {"nil", "EEXIST"} /\ result'.string = StringOf(cmd)
    BY <1>e, <2>4
  <2> QED BY <2>1, <2>3, <2>4, <2>5, <2>6, ErrorStep
<1>6. ASSUME NEW s \in Snapshots, Use(s) PROVE IInv'
  <2>1. /\ UNCHANGED <<file, call, cmd, tries, fault, before, result>> /\ pc' = "idle"
        /\ kernel' = [kernel EXCEPT !.held = IF s \in @ THEN @ \ {s} ELSE @ \cup {s}]
    BY <1>6 DEF Use
  <2>2. kernel' \in Kernel
    BY <1>k, <2>1 DEF Kernel
  <2>3. FileInv' /\ StateInv' /\ ShapeInv'
    BY <2>1, <2>2 DEF IInv, FileInv, StateInv, ShapeInv, file, Cmd
  <2> QED BY <2>1, <2>3
          DEF IInv, NilMeansDone, ErrorsConfined, Served, Undisturbed, PromoteReports
<1>7. CASE NodeAppears
  <2>1. /\ UNCHANGED <<handle, inited, kernel, call, cmd, tries, fault, before, result>>
        /\ node = "absent" /\ node' = "device" /\ pc' = IF pc = "returned" THEN "idle" ELSE pc
    BY <1>7 DEF NodeAppears
  <2>2. FileInv' /\ ShapeInv'
    BY <2>1 DEF IInv, FileInv, ShapeInv, Cmd
  <2>3. StateInv'
    BY <2>1, SameCall DEF IInv, StateInv
  <2>4. pc' = "ioctl" => Between'
    BY <2>1, SameCall DEF IInv, Between
  <2> QED BY <2>1, <2>2, <2>3, <2>4
          DEF IInv, NilMeansDone, ErrorsConfined, Served, Undisturbed, PromoteReports
<1>8. CASE UNCHANGED vars
  <2>1. UNCHANGED <<node, handle, inited, kernel, call, cmd, pc, tries, fault, before, result>>
    BY <1>8 DEF vars, file
  <2>2. FileInv' /\ ShapeInv'
    BY <2>1 DEF IInv, FileInv, ShapeInv, Cmd
  <2>3. StateInv'
    BY <2>1, SameCall DEF IInv, StateInv
  <2>4. Between' = Between
    BY <2>1, SameCall DEF Between
  <2>5. NilMeansDone' /\ ErrorsConfined' /\ Served' /\ PromoteReports'
    BY <2>1, SameCall, SamePossible
       DEF IInv, NilMeansDone, ErrorsConfined, Served, Undisturbed, PromoteReports
  <2> QED BY <2>1, <2>2, <2>3, <2>4, <2>5 DEF IInv
<1> QED BY <1>1, <1>2, <1>3, <1>4, <1>5, <1>6, <1>7, <1>8 DEF Next

LEMMA WrappersIInv == Spec => []IInv
BY WrappersInitIInv, WrappersStep, PTL DEF Spec

(* The variables keep their types: NvlistIoctl makes no more system calls  *)
(* than its buffer has lengths, and zfsHandle is nil or an open file.      *)
THEOREM WrappersTypeCorrect == Spec => []TypeOK
<1>1. IInv => TypeOK
  BY DEF IInv, FileInv, StateInv, ShapeInv, TypeOK
<1> QED BY <1>1, WrappersIInv, PTL

(* A wrapper that returns nil has done what its comment says and nothing   *)
(* else, however often NvlistIoctl had to repeat its system call.          *)
THEOREM WrappersNilMeansDone == Spec => []NilMeansDone
<1>1. IInv => NilMeansDone
  BY DEF IInv
<1> QED BY <1>1, WrappersIInv, PTL

(* A wrapper that returns an error has changed nothing, or a system call   *)
(* of it acted and failed and all of it is done; only SetProp ends with a  *)
(* part of its properties set.                                             *)
THEOREM WrappersErrorsConfined == Spec => []ErrorsConfined
<1>1. IInv => ErrorsConfined
  BY DEF IInv
<1> QED BY <1>1, WrappersIInv, PTL

(* After an Init that returned nil on the device, a call that the pool     *)
(* allows and the kernel does not fail for reasons of its own gets no      *)
(* error, for every wrapper but DestroySnapshots and a deferred Destroy.   *)
THEOREM WrappersServed == Spec => []Served
<1>1. IInv => Served
  BY DEF IInv
<1> QED BY <1>1, WrappersIInv, PTL

(* Promote returns the name of a held snapshot along with EEXIST, copied   *)
(* back before the error is returned, and none with any other result.      *)
THEOREM WrappersPromoteReports == Spec => []PromoteReports
<1>1. IInv => PromoteReports
  BY DEF IInv
<1> QED BY <1>1, WrappersIInv, PTL

-----------------------------------------------------------------------------
(* NvlistIoctl repeats its system call after every ENOMEM (ioctl.go:57),   *)
(* also when the handler had acted already.  The kernel's state changes at *)
(* most once in a call all the same: what a handler was asked to make is   *)
(* in its way, what it was asked to remove is gone.  Only the properties   *)
(* of a SetProp can be set one after the other.                            *)
ActsOnce == pc = "ioctl" /\ kernel' # kernel => kernel = before \/ call.fn = "SetProp"

(* The kernel acts at most once in a call of a wrapper other than SetProp, *)
(* however often NvlistIoctl repeats the system call.                      *)
THEOREM WrappersActOnce == Spec => [][ActsOnce]_vars
<1>1. IInv /\ [Next]_vars => [ActsOnce]_vars
  <2> SUFFICES ASSUME IInv, Next, pc = "ioctl", kernel # before, call.fn # "SetProp"
               PROVE  kernel' = kernel
    BY DEF ActsOnce
  <2>1. kernel = Wanted
    BY DEF IInv, Between
  <2>2. CASE InKernel /\ kernel' \in Leftovers(cmd) \cup {Handle(cmd).store}
    <3>1. Ready
      BY <2>2 DEF Ready, IInv, InKernel
    <3> QED BY <2>1, <2>2, <3>1, LeftoversPartly DEF Partly
  <2>3. CASE Answers \/ KernelFails \/ NoMem
    BY <2>2, <2>3 DEF Answers, KernelFails, NoMem
  <2> QED BY <2>3 DEF Next, Call, FirstOpen, Mknod, SecondOpen, Refuses, NoDevice, Use, NodeAppears
<1> QED BY <1>1, WrappersIInv, PTL DEF Spec
=============================================================================
