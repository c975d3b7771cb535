----------------------------- MODULE MCWrappers -----------------------------
(* Small instances of Wrappers: two filesystems, one snapshot. *)
EXTENDS Wrappers, TLC

\* Too long a name leaves the buffer empty, one with a null byte up to there.
CutNames == "long" :> None @@ "g0x" :> "g"

CallOf(fns, names, tos, sets, ns, flags) ==
  [fn : fns, name : names, to : tos, snaps : sets, twice : {FALSE}, props : {{}}, n : ns, flag : flags]
OnPool(fns) == CallOf(fns, {"pool"}, {None}, {{}}, {0}, {FALSE})
OnNames(fns, names) == CallOf(fns, names, {None}, {{}}, {0}, {FALSE})

Creations ==
  OnNames({"Create"}, Filesystems) \cup CallOf({"Snapshot"}, {"pool"}, {None}, {Snapshots}, {0}, {FALSE})

\* Init and every wrapper.
AllCalls ==
  OnNames({"Init"}, {None}) \cup Creations
  \cup {[c EXCEPT !.twice = TRUE] : c \in {d \in Creations : d.fn = "Snapshot"}}
  \cup OnPool({"PoolCreate", "PoolDestroy", "PoolStats", "PauseScan", "PoolConfigs",
               "PoolGetProps", "RegenerateGUID"})
  \cup CallOf({"PoolExport"}, {"pool"}, {None}, {{}}, {0, 1}, BOOLEAN)
  \cup CallOf({"PoolImport"}, {"pool"}, {None}, {{}}, {0, 7}, {FALSE})
  \cup CallOf({"StartStopScan"}, {"pool"}, {None}, {{}}, {ScanTypeNone, 1}, {FALSE})
  \cup OnNames({"Promote", "ObjsetZPLProps"}, Filesystems)
  \cup OnNames({"ObjsetStats"}, {"f", "s"}) \cup OnNames({"SendSpace"}, Snapshots)
  \cup CallOf({"Destroy"}, Names, {None}, {{}}, {0}, BOOLEAN)
  \cup CallOf({"DestroySnapshots"}, {"pool"}, {None}, {Snapshots}, {0}, BOOLEAN)
  \cup CallOf({"Clone", "Rollback", "GetSpaceWritten"}, Filesystems, Snapshots, {{}}, {0}, {FALSE})
  \cup CallOf({"Rename"}, Filesystems, Filesystems \cup {"long", "g0x"}, {{}}, {0}, {TRUE})
  \cup CallOf({"Bookmark"}, {None}, {None}, {Snapshots}, {0}, {FALSE})
  \cup {[c EXCEPT !.props = Props] :
          c \in CallOf({"SetProp"}, {"f"}, {None}, {{}}, {PropSource.local, PropSource.received}, {FALSE})}
  \cup CallOf({"InheritProp"}, {"f"}, {"p", "g0x"}, {{}}, {0}, BOOLEAN)

\* What it takes to ask DestroySnapshots for a snapshot that is there.
SomeCalls == {c \in AllCalls : c.fn \in {"Init", "Snapshot", "DestroySnapshots"}}
=============================================================================
