---------------------------- MODULE MCNvlistIoctl ----------------------------
(* Small instances of NvlistIoctl.  Letters are 1 and 2, Cmd.Name has four *)
(* bytes; replies fit the first, the second, only the last buffer, or none.*)
EXTENDS NvlistIoctl

\* Legal names, the longest of them filling the buffer up to its NUL; one with a
\* NUL inside, and one that is a byte too long.
SomeNames == {<<>>, <<1>>, <<1, 2>>, <<2, 1, 2>>, <<1, 0, 2>>, <<1, 2, 1, 2>>}
ListedName == <<1, 2, 1>>
ReplySizes == {0, 8193, 4194305, 33554433}
=============================================================================
