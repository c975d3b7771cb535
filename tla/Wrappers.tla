------------------------------ MODULE Wrappers ------------------------------
(***************************************************************************)
(* Init and the wrappers of ioctl/wrappers.go around NvlistIoctl: how the  *)
(* device is opened, what each wrapper puts into its Cmd and request,      *)
(* which ioctl it issues, and what it makes of the answer.  NvlistIoctl is *)
(* taken as IoctlCall promises it, except that its repeated system calls   *)
(* are visible: the handler runs once for every ENOMEM and once more, each *)
(* time on a copy of the wrapper's Cmd.  Replies can be decoded.           *)
(*                                                                         *)
(* The kernel is external: one pool with filesystems, snapshots (some of   *)
(* them held), a scan and properties, changed by the handlers and by       *)
(* nobody else during a call.  A handler goes by the fields of the Cmd and *)
(* the request alone, and takes them for what the code means by them.      *)
(* Bookmarks, the pool's GUID, which dataset a property belongs to and     *)
(* what a reply says about an object are not part of that state.           *)
(***************************************************************************)
EXTENDS Naturals

CONSTANTS
  Filesystems, Snapshots,   \* names
  Props,                    \* names of properties
  Cut,                      \* strings stringToDelimitedBuf refuses -> what it leaves in the buffer
  Calls,                    \* Init, wrappers and the arguments they are called with
  MaxTries                  \* system calls of one NvlistIoctl

None == ""
Names == Filesystems \cup Snapshots
PropSource == [local |-> 8, received |-> 32]
ScanTypeNone == 0           \* then scrub and resilver

\* name and to are the names a wrapper gets, snaps its list of names (twice:
\* it has one name twice), props its properties, n and flag its other arguments.
ASSUME WrappersAssumption ==
  /\ Filesystems \cap Snapshots = {} /\ None \notin Names
  /\ DOMAIN Cut \cap (Names \cup Props) = {} /\ \A n \in DOMAIN Cut : Cut[n] \in Names \cup {None}
  /\ \A c \in Calls : /\ DOMAIN c = {"fn", "name", "to", "snaps", "twice", "props", "n", "flag"}
                      /\ c.fn \in
                           {"Init", "PoolCreate", "PoolDestroy", "PoolConfigs", "PoolGetProps",
                            "PoolStats", "PoolExport", "PoolImport", "PauseScan", "StartStopScan",
                            "RegenerateGUID", "Create", "Clone", "Snapshot", "Bookmark", "Destroy",
                            "DestroySnapshots", "Rename", "Promote", "Rollback", "SetProp",
                            "InheritProp", "SendSpace", "GetSpaceWritten", "ObjsetZPLProps",
                            "ObjsetStats"}
                      /\ c.fn \in {"Create", "Clone"} => c.name \in Names
                      /\ c.snaps \subseteq Snapshots /\ c.props \subseteq Props
                      /\ c.n \in Nat /\ {c.flag, c.twice} \subseteq BOOLEAN
  /\ MaxTries \in Nat \ {0}

VARIABLES
  node,     \* the file at nodePath
  handle,   \* zfsHandle: the kind of file it is open on, or "nil"
  kernel,   \* the kernel's state
  call,     \* the function called and its arguments
  cmd,      \* the wrapper's Cmd, with ioctl and request
  pc,       \* "idle", "open", "mknod", "reopen", "ioctl", "returned"
  tries,    \* system calls of this call that ended in ENOMEM
  fault,    \* history: in this call, has the system "failed" for reasons of its
            \* own, and has the kernel "acted" before it did
  inited,   \* history: the last Init returned nil
  before,   \* history: the kernel's state when the call began
  result    \* of the call: the error and the other value

file == <<node, handle, inited>>
vars == <<file, kernel, call, cmd, pc, tries, fault, before, result>>

Kernel ==
  [pool : {"absent", "active", "exported"}, scan : {"none", "scrub", "paused"},
   live : SUBSET Names, held : SUBSET Snapshots,
   prop : [Props -> {"inherited", "local", "received"}]]

Empty(pool) ==
  [pool |-> pool, scan |-> "none", live |-> {}, held |-> {}, prop |-> [p \in Props |-> "inherited"]]

-----------------------------------------------------------------------------
(* Before the system call: ioctl, Cmd and request of each wrapper. *)

Buffer(n) == IF n \in DOMAIN Cut THEN Cut[n] ELSE n
Bit(flag) == IF flag THEN 1 ELSE 0

Cmd(ioctl) ==
  [ioctl |-> ioctl, name |-> call.name, value |-> None, string |-> None, cookie |-> 0, guid |-> 0,
   flags |-> 0, defer |-> FALSE, origin |-> None, snaps |-> {}, target |-> None, props |-> {}]

PoolExport == [Cmd("POOL_EXPORT") EXCEPT !.cookie = Bit(call.flag), !.guid = call.n]

\* Possible slip: PauseScan leaves Flags alone, and so stops the scan.
PauseScanNoFlags == Cmd("POOL_SCAN")
PauseScan == [Cmd("POOL_SCAN") EXCEPT !.flags = 1]
StartStopScan == [Cmd("POOL_SCAN") EXCEPT !.cookie = call.n]
PoolImport == [Cmd("POOL_IMPORT") EXCEPT !.guid = call.n]      \* config["pool_guid"]
Clone == [Cmd("CLONE") EXCEPT !.origin = call.to]
Snapshot == [Cmd("SNAPSHOT") EXCEPT !.snaps = call.snaps]
DestroySnapshots == [Cmd("CLONE") EXCEPT !.snaps = call.snaps, !.defer = call.flag]
Bookmark == [Cmd("BOOKMARK") EXCEPT !.name = None, !.snaps = call.snaps]
Rollback == [Cmd("ROLLBACK") EXCEPT !.target = call.to]
SetProp == [Cmd("SET_PROP") EXCEPT !.cookie = call.n, !.props = call.props]
InheritProp == [Cmd("INHERIT_PROP") EXCEPT !.cookie = Bit(call.flag), !.value = Buffer(call.to)]
GetSpaceWritten == [Cmd("SPACE_WRITTEN") EXCEPT !.value = Buffer(call.to)]
Rename == [Cmd("RENAME") EXCEPT !.value = Buffer(call.to), !.cookie = Bit(call.flag)]
Destroy == Cmd("DESTROY")                                      \* without deferred

\* The wrappers that only name their object.
PoolStats == Cmd("POOL_STATS")
Promote == Cmd("PROMOTE")
Create == Cmd("CREATE")
SendSpace == Cmd("SEND_SPACE")
RegenerateGUID == Cmd("POOL_REGUID")
PoolIoctls ==
  [PoolCreate |-> "POOL_CREATE", PoolDestroy |-> "POOL_DESTROY", PoolConfigs |-> "POOL_CONFIGS"]
PropsIoctls ==
  [PoolGetProps |-> "POOL_GET_PROPS", ObjsetZPLProps |-> "OBJSET_ZPLPROPS",
   ObjsetStats |-> "OBJSET_STATS"]

Request ==
  CASE call.fn \in DOMAIN PoolIoctls -> Cmd(PoolIoctls[call.fn])
    [] call.fn \in DOMAIN PropsIoctls -> Cmd(PropsIoctls[call.fn])
    [] call.fn = "PoolStats" -> PoolStats
    [] call.fn = "Promote" -> Promote
    [] call.fn = "Create" -> Create
    [] call.fn = "Bookmark" -> Bookmark
    [] call.fn = "SendSpace" -> SendSpace
    [] call.fn = "RegenerateGUID" -> RegenerateGUID
    [] call.fn = "PoolExport" -> PoolExport
    [] call.fn = "PoolImport" -> PoolImport
    [] call.fn = "PauseScan" -> PauseScan
    [] call.fn = "StartStopScan" -> StartStopScan
    [] call.fn = "Clone" -> Clone
    [] call.fn = "Snapshot" -> Snapshot
    [] call.fn = "DestroySnapshots" -> DestroySnapshots
    [] call.fn = "Rollback" -> Rollback
    [] call.fn = "SetProp" -> SetProp
    [] call.fn = "InheritProp" -> InheritProp
    [] call.fn = "GetSpaceWritten" -> GetSpaceWritten
    [] call.fn = "Rename" -> Rename
    [] call.fn = "Destroy" -> Destroy
    [] call.fn = "Init" -> Cmd(None)                           \* issues no ioctl

-----------------------------------------------------------------------------
(* The kernel's handlers. *)

Live(k, n) == k.pool = "active" /\ n \in k.live

\* The new state if p holds, otherwise the error.
Does(m, p, k2, e) ==
  [store |-> IF p THEN k2 ELSE kernel, err |-> IF p THEN "nil" ELSE e,
   cookie |-> m.cookie, string |-> None]

Add(S) == [kernel EXCEPT !.live = @ \cup S]
Set(k, S, v) == [k EXCEPT !.prop = [p \in Props |-> IF p \in S THEN v ELSE k.prop[p]]]
Source(n) == IF n = PropSource.received THEN "received" ELSE "local"

PoolHandler(m) ==
  LET k == kernel
      active == k.pool = "active"
  IN  CASE m.ioctl = "POOL_CREATE" -> Does(m, k.pool = "absent", Empty("active"), "EEXIST")
        [] m.ioctl = "POOL_DESTROY" -> Does(m, active, Empty("absent"), "ENOENT")
        [] m.ioctl = "POOL_EXPORT" ->       \* in use: only by force
             Does(m, active /\ (k.held = {} \/ m.cookie = 1), [k EXCEPT !.pool = "exported"], "EBUSY")
        [] m.ioctl = "POOL_IMPORT" ->       \* the reason goes into the cookie
             LET ok == k.pool = "exported"
             IN  [Does(m, ok, [k EXCEPT !.pool = "active"], "EIO") EXCEPT !.cookie = Bit(~ok)]
        [] m.ioctl = "POOL_STATS" -> [Does(m, TRUE, k, "") EXCEPT !.cookie = Bit(~active)]
        [] m.ioctl \in {"POOL_GET_PROPS", "POOL_REGUID"} -> Does(m, active, k, "ENOENT")
        [] m.ioctl = "POOL_CONFIGS" -> Does(m, TRUE, k, "")
        [] m.ioctl = "POOL_SCAN" ->
             CASE m.flags = 1 ->
                    Does(m, active /\ k.scan = "scrub", [k EXCEPT !.scan = "paused"], "ENOENT")
               [] m.flags = 0 /\ m.cookie = ScanTypeNone ->
                    Does(m, active /\ k.scan # "none", [k EXCEPT !.scan = "none"], "ENOENT")
               [] m.flags = 0 /\ m.cookie > 0 ->
                    Does(m, active /\ k.scan # "scrub", [k EXCEPT !.scan = "scrub"], "EBUSY")

Handler(m) ==
  LET k == kernel
      live(n) == Live(k, n)
  IN  CASE m.ioctl = "CREATE" ->
             Does(m, k.pool = "active" /\ ~live(m.name), Add({m.name}), "EEXIST")
        [] m.ioctl = "CLONE" ->
             Does(m, live(m.origin) /\ ~live(m.name), Add({m.name}), "EINVAL")
        [] m.ioctl = "SNAPSHOT" ->
             Does(m, k.pool = "active" /\ m.snaps \cap k.live = {}, Add(m.snaps), "EEXIST")
        [] m.ioctl = "BOOKMARK" ->
             Does(m, k.pool = "active" /\ m.snaps \subseteq k.live, k, "ENOENT")
        [] m.ioctl = "RENAME" ->
             Does(m, live(m.name) /\ m.value \in Names \ k.live,
                  [k EXCEPT !.live = (@ \ {m.name}) \cup {m.value}], "EEXIST")
        [] m.ioctl = "DESTROY" ->
             Does(m, live(m.name) /\ m.name \notin k.held, [k EXCEPT !.live = @ \ {m.name}], "EBUSY")
        [] m.ioctl = "PROMOTE" ->           \* a snapshot in the way is named
             IF live(m.name) /\ k.held # {}
             THEN [Does(m, FALSE, k, "EEXIST") EXCEPT !.string = CHOOSE s \in k.held : TRUE]
             ELSE Does(m, live(m.name), k, "ENOENT")
        [] m.ioctl = "ROLLBACK" -> Does(m, live(m.name) /\ live(m.target), k, "ENOENT")
        [] m.ioctl = "SPACE_WRITTEN" -> Does(m, live(m.name) /\ live(m.value), k, "ENOENT")
        [] m.ioctl = "SET_PROP" ->
             Does(m, live(m.name) /\ m.cookie \in {PropSource.local, PropSource.received},
                  Set(k, m.props, Source(m.cookie)), "EINVAL")
        [] m.ioctl = "INHERIT_PROP" ->
             Does(m, live(m.name) /\ m.value \in Props,
                  Set(k, {m.value}, IF m.cookie = 1 THEN "received" ELSE "inherited"), "EINVAL")
        [] OTHER -> Does(m, live(m.name), k, "ENOENT")

Handle(m) ==
  IF m.ioctl \in {"POOL_CREATE", "POOL_DESTROY", "POOL_EXPORT", "POOL_IMPORT", "POOL_STATS",
                  "POOL_SCAN", "POOL_GET_PROPS", "POOL_REGUID", "POOL_CONFIGS"}
  THEN PoolHandler(m) ELSE Handler(m)

\* What a handler that fails can leave behind: some of the properties set, or
\* a clone without all of its properties.
Leftovers(m) ==
  {kernel} \cup
  (IF Handle(m).err # "nil" THEN {}
   ELSE CASE m.ioctl = "SET_PROP" -> {Set(kernel, S, Source(m.cookie)) : S \in SUBSET m.props}
          [] m.ioctl = "CLONE" -> {Handle(m).store}
          [] OTHER -> {})

\* Others hold a snapshot or let go of it.
Use(s) ==
  /\ pc \in {"idle", "returned"} /\ Live(kernel, s)
  /\ kernel' = [kernel EXCEPT !.held = IF s \in @ THEN @ \ {s} ELSE @ \cup {s}]
  /\ pc' = "idle"
  /\ UNCHANGED <<file, call, cmd, tries, fault, before, result>>

\* The loaded kernel module makes the device node.
NodeAppears ==
  /\ node = "absent"
  /\ node' = "device"
  /\ pc' = IF pc = "returned" THEN "idle" ELSE pc
  /\ UNCHANGED <<handle, inited, kernel, call, cmd, tries, fault, before, result>>

-----------------------------------------------------------------------------
(* Init of the package. *)

Call(c) ==
  /\ pc \in {"idle", "returned"}
  /\ call' = c /\ cmd' = Request' /\ before' = kernel
  /\ pc' = IF c.fn = "Init" THEN "open" ELSE "ioctl"
  /\ tries' = 0 /\ fault' = "none"
  /\ inited' = (inited /\ c.fn # "Init")
  /\ result' = [err |-> "nil", string |-> None]
  /\ UNCHANGED <<node, handle, kernel>>

\* os.Open, which can also fail for other reasons than a node that is absent.
Opens(ok) == handle' = IF ok /\ node # "absent" THEN node ELSE "nil"
Fails(ok) == fault' = IF ok THEN fault ELSE "failed"

FirstOpen(ok) ==
  /\ pc = "open"
  /\ Opens(ok) /\ Fails(ok)
  /\ pc' = IF ok /\ node = "absent" THEN "mknod" ELSE "reopen"
  /\ UNCHANGED <<node, inited, kernel, call, cmd, tries, before, result>>

\* The file type is the part of the mode above the 12 permission bits: 2 makes
\* a character device, 0 a regular file.
Mode == 666
FileType(mode) == IF mode \div 4096 = 2 THEN "device" ELSE "regular"

Mknod(ok) ==                                                   \* its error is ignored
  /\ pc = "mknod"
  /\ node' = IF ok /\ node = "absent" THEN FileType(Mode) ELSE node
  /\ Fails(ok)
  /\ pc' = "reopen"
  /\ UNCHANGED <<handle, inited, kernel, call, cmd, tries, before, result>>

\* Possible slip: zfsHandle is assigned by the first open only.
SecondOpenLocal(ok) ==
  LET opened == ok /\ node # "absent"
  IN  /\ pc = "reopen"
      /\ Fails(ok)
      /\ inited' = opened
      /\ pc' = "returned" /\ result' = [result EXCEPT !.err = IF opened THEN "nil" ELSE "open"]
      /\ UNCHANGED <<node, handle, kernel, call, cmd, tries, before>>
SecondOpen(ok) ==
  /\ pc = "reopen"
  /\ Opens(ok) /\ Fails(ok)
  /\ inited' = (handle' # "nil")
  /\ pc' = "returned" /\ result' = [result EXCEPT !.err = IF handle' = "nil" THEN "open" ELSE "nil"]
  /\ UNCHANGED <<node, kernel, call, cmd, tries, before>>

-----------------------------------------------------------------------------
(* The loop of NvlistIoctl, and the wrapper after it. *)

\* PoolImport looks at the cookie first, PoolStats after the error.
ErrorOf(e, m) ==
  IF m.cookie # 0 /\ (call.fn = "PoolImport" \/ (call.fn = "PoolStats" /\ e = "nil"))
  THEN "cookie" ELSE e

\* Promote reads Cmd.String in any case.
StringOf(m) == IF call.fn = "Promote" THEN m.string ELSE None

\* Possible slip: NvlistIoctl returns the errno before it copies the Cmd back.
CopyBackLate(h) ==
  IF h.err = "nil" THEN [cmd EXCEPT !.cookie = h.cookie, !.string = h.string] ELSE cmd
CopyBack(h) == [cmd EXCEPT !.cookie = h.cookie, !.string = h.string]

\* Possible slip: any cookie is taken for an error.
ReturnCookie(e, m) ==
  /\ pc' = "returned" /\ cmd' = m
  /\ result' = [err |-> IF m.cookie # 0 THEN "cookie" ELSE e, string |-> StringOf(m)]
Return(e, m) ==
  /\ pc' = "returned" /\ cmd' = m
  /\ result' = [err |-> ErrorOf(e, m), string |-> StringOf(m)]

\* A duplicate snapshot name; in InheritProp a string that does not fit, while
\* GetSpaceWritten and Rename do not look at stringToDelimitedBuf's error; and
\* in PoolImport a config without a pool_guid (0), on which it panics.
Refused ==
  \/ call.fn \in {"Snapshot", "DestroySnapshots"} /\ call.twice
  \/ call.fn = "InheritProp" /\ call.to \in DOMAIN Cut
  \/ call.fn = "PoolImport" /\ call.n = 0

Refuses ==
  /\ pc = "ioctl" /\ Refused
  /\ Return(IF call.fn = "PoolImport" THEN "panic" ELSE "refused", cmd)
  /\ UNCHANGED <<file, kernel, call, tries, fault, before>>

\* Without a handle or on a file that is no device, the system call fails.
NoDevice ==
  /\ pc = "ioctl" /\ ~Refused /\ handle # "device"
  /\ Return(IF handle = "nil" THEN "EBADF" ELSE "ENOTTY", cmd)
  /\ UNCHANGED <<file, kernel, call, tries, fault, before>>

InKernel == pc = "ioctl" /\ ~Refused /\ handle = "device"

Answers ==
  LET h == Handle(cmd)
  IN  /\ InKernel
      /\ kernel' = h.store
      /\ Return(h.err, CopyBack(h))
      /\ UNCHANGED <<file, call, tries, fault, before>>

Fault(k2) == fault' = IF k2 # kernel \/ fault = "acted" THEN "acted" ELSE "failed"

KernelFails ==
  /\ InKernel
  /\ \E k2 \in Leftovers(cmd) : kernel' = k2 /\ Fault(k2)
  /\ Return("EIO", cmd)
  /\ UNCHANGED <<file, call, tries, before>>

\* Possible slip: the bound on the buffer is checked one system call too late.
GivesUpLate == tries >= MaxTries
GivesUp == tries + 1 >= MaxTries

\* ENOMEM, before, during or after the handler's work: NvlistIoctl drops the
\* copy of the Cmd, repeats the system call, and gives up in the end.
NoMem ==
  /\ InKernel
  /\ \E k2 \in Leftovers(cmd) \cup {Handle(cmd).store} : kernel' = k2 /\ Fault(k2)
  /\ IF GivesUp THEN Return("tooBig", cmd) ELSE UNCHANGED <<pc, cmd, result>>
  /\ tries' = tries + 1
  /\ UNCHANGED <<file, call, before>>

Init ==
  /\ node \in {"absent", "device"} /\ handle = "nil" /\ inited = FALSE
  /\ kernel = Empty("active") /\ before = kernel
  /\ call \in Calls /\ cmd = Request /\ pc = "idle" /\ tries = 0
  /\ fault = "none"
  /\ result = [err |-> "nil", string |-> None]

Next ==
  \/ \E c \in Calls : Call(c)
  \/ \E ok \in BOOLEAN : FirstOpen(ok) \/ Mknod(ok) \/ SecondOpen(ok)
  \/ Refuses \/ NoDevice \/ Answers \/ KernelFails \/ NoMem
  \/ \E s \in Snapshots : Use(s)
  \/ NodeAppears

Spec == Init /\ [][Next]_vars

TypeOK ==
  /\ node \in {"absent", "device", "regular"} /\ handle \in {"nil", "device", "regular"}
  /\ inited \in BOOLEAN
  /\ kernel \in Kernel /\ before \in Kernel
  /\ call \in Calls
  /\ pc \in {"idle", "open", "mknod", "reopen", "ioctl", "returned"}
  /\ tries \in 0..MaxTries
  /\ fault \in {"none", "failed", "acted"}
  /\ DOMAIN cmd = DOMAIN Cmd(None) /\ DOMAIN result = {"err", "string"}

-----------------------------------------------------------------------------
\* What the comments of the wrappers promise, on a pool that was as before:
\* the kernel's state after the call.  Promote, Rollback, Bookmark and
\* RegenerateGUID change only what is not modelled; and Rename gets as much of
\* the new name as stringToDelimitedBuf has copied.
Wanted ==
  LET b == before
      f == call.fn
  IN  CASE f = "PoolCreate" -> Empty("active")
        [] f = "PoolDestroy" -> Empty("absent")
        [] f = "PoolExport" -> [b EXCEPT !.pool = "exported"]
        [] f = "PoolImport" -> [b EXCEPT !.pool = "active"]
        [] f = "PauseScan" -> [b EXCEPT !.scan = "paused"]
        [] f = "StartStopScan" -> [b EXCEPT !.scan = IF call.n = ScanTypeNone THEN "none" ELSE "scrub"]
        [] f \in {"Create", "Clone"} -> [b EXCEPT !.live = @ \cup {call.name}]
        [] f = "Snapshot" -> [b EXCEPT !.live = @ \cup call.snaps]
        [] f = "Destroy" -> [b EXCEPT !.live = @ \ {call.name}]
        [] f = "DestroySnapshots" -> [b EXCEPT !.live = @ \ call.snaps]
        [] f = "Rename" -> [b EXCEPT !.live = (@ \ {call.name}) \cup {Buffer(call.to)}]
        [] f = "SetProp" -> Set(b, call.props, Source(call.n))
        [] f = "InheritProp" -> Set(b, {call.to}, IF call.flag THEN "received" ELSE "inherited")
        [] OTHER -> b

\* The pool, as it was, allows what the comment of the wrapper offers; Init has
\* returned nil, and not on a file that its own Mknod made.
Possible ==
  LET b == before
      f == call.fn
      active == b.pool = "active"
  IN  /\ f = "Init" \/ inited
      /\ node = "device"
      /\ CASE f \in {"Init", "PoolConfigs"} -> TRUE
           [] f = "PoolCreate" -> b.pool = "absent"
           [] f = "PoolImport" -> b.pool = "exported"
           [] f \in {"PoolDestroy", "PoolGetProps", "PoolStats", "RegenerateGUID"} -> active
           [] f = "PoolExport" -> active /\ (b.held = {} \/ call.flag)
           [] f = "PauseScan" -> active /\ b.scan = "scrub"
           [] f = "StartStopScan" -> active /\ b.scan # (IF call.n = ScanTypeNone THEN "none" ELSE "scrub")
           [] f = "Create" -> active /\ call.name \notin b.live
           [] f = "Clone" -> Live(b, call.to) /\ call.name \notin b.live
           [] f = "Snapshot" -> active /\ call.snaps \cap b.live = {}
           [] f = "Bookmark" -> active /\ call.snaps \subseteq b.live
           [] f = "Destroy" -> Live(b, call.name) /\ (call.name \notin b.held \/ call.flag)
           [] f = "DestroySnapshots" ->
                active /\ call.snaps \subseteq b.live /\ (call.snaps \cap b.held = {} \/ call.flag)
           [] f = "Rename" -> Live(b, call.name) /\ call.to \in Names \ b.live
           [] f = "Promote" -> Live(b, call.name) /\ b.held = {}
           [] f \in {"Rollback", "GetSpaceWritten"} -> Live(b, call.name) /\ Live(b, call.to)
           [] f = "SetProp" -> Live(b, call.name) /\ call.n \in {PropSource.local, PropSource.received}
           [] f = "InheritProp" -> Live(b, call.name) /\ call.to \in Props
           [] f \in {"SendSpace", "ObjsetZPLProps", "ObjsetStats"} -> Live(b, call.name)

\* DestroySnapshots issues CLONE, and Destroy drops its argument deferred.
NotAsOffered ==
  \/ call.fn = "DestroySnapshots"
  \/ call.fn = "Destroy" /\ call.name \in before.held

Undisturbed == pc = "returned" /\ ~Refused /\ fault = "none"

(* A wrapper that returns no error has done what its comment says and      *)
(* nothing else, however often NvlistIoctl had to repeat the system call   *)
(* and whatever an earlier run of the handler had done before its ENOMEM.  *)
NilMeansDone == pc = "returned" /\ result.err = "nil" => kernel = Wanted

(* A wrapper that returns an error has changed nothing, unless a system    *)
(* call of it acted and failed: then it has done all that was asked for.   *)
(* Only SetProp can end half way, with errList not looked at (line 364);   *)
(* each property is then as it was or as asked for.                        *)
ErrorsConfined ==
  pc = "returned" /\ result.err # "nil" =>
    \/ kernel = before
    \/ fault = "acted" /\ kernel = Wanted
    \/ /\ fault = "acted" /\ call.fn = "SetProp"
       /\ \E S \in SUBSET call.props : kernel = Set(before, S, Source(call.n))

(* What the pool allows is not refused: once Init has returned nil on the  *)
(* device, each wrapper's ioctl, Cmd and request make the handler do it,   *)
(* flags and options included.  DestroySnapshots, and Destroy of a held    *)
(* snapshot with deferred, are the exceptions.                             *)
Served == Undisturbed /\ Possible /\ ~NotAsOffered => result.err = "nil"

(* DestroySnapshots removes multiple snapshots in the same pool.           *)
SnapshotsDestroyed ==
  Undisturbed /\ Possible /\ call.fn = "DestroySnapshots" => result.err = "nil" /\ kernel = Wanted

(* Promote names a conflicting snapshot if and only if it returns EEXIST,  *)
(* although it reads it from the Cmd of a call that failed, which earlier  *)
(* runs of the handler have written to as well.                            *)
PromoteReports ==
  pc = "returned" /\ call.fn = "Promote" =>
    IF result.err = "EEXIST" THEN result.string \in kernel.held ELSE result.string = None
=============================================================================
