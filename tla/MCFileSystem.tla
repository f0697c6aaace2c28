---------------------------- MODULE MCFileSystem ----------------------------
(* Model checking of FileSystem: the names a and b in two levels of          *)
(* directories, from the root or the current directory.                      *)
EXTENDS FileSystem

To(abs, elems) == [abs |-> abs, elems |-> elems]
FewPaths == {To(FALSE, <<"a">>), To(TRUE, <<"a", "b">>)}
SomeCalls == [p \in Procs |-> IF p = InitProc THEN {"mkdir", "create", "read", "fork"}
                              ELSE {"unlink", "link", "chdir", "dup", "close", "exit"}]
=============================================================================
