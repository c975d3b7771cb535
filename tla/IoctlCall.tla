------------------------------ MODULE IoctlCall ------------------------------
(***************************************************************************)
(* What a caller of NvlistIoctl (ioctl/ioctl.go) may rely on: the call     *)
(* acts on the caller's Cmd as one execution of the kernel's handler, or,  *)
(* when it is given up, not at all.  The handler's effect on Cmd is shown  *)
(* on the cookie, which it advances by one.                                *)
(***************************************************************************)
EXTENDS Naturals

CONSTANT Cookies      \* cookies a call may start from

VARIABLES
  busy,               \* a call is in progress
  cookie,             \* Cookie of the caller's Cmd
  result              \* of the last call, "none" during a call

vars == <<busy, cookie, result>>

Init ==
  /\ busy = FALSE
  /\ cookie \in Cookies
  /\ result = "none"

Call ==
  /\ ~busy
  /\ busy' = TRUE
  /\ cookie' \in Cookies
  /\ result' = "none"

Answer ==
  /\ busy
  /\ busy' = FALSE
  /\ cookie' = cookie + 1
  /\ result' \in {"nil", "errno", "unmarshal"}

Refuse ==
  /\ busy
  /\ busy' = FALSE
  /\ UNCHANGED cookie
  /\ result' \in {"marshal", "tooBig"}

Next == Call \/ Answer \/ Refuse

Spec == Init /\ [][Next]_vars
=============================================================================
