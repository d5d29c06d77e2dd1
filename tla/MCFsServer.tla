----------------------------- MODULE MCFsServer -----------------------------
(* Two clients and two files for checking FsServer with TLC: a has an       *)
(* indirect block, b fits into one block; there is no x.                    *)
EXTENDS FsServer
CONSTANTS c1, c2

Entry(name, size, fill) ==
  [dir |-> 0, name |-> name, type |-> FTYPE_REG, size |-> size, fill |-> fill]

TwoFiles   == << Entry("a", 3, 21), Entry("b", 1, 22) >>
TwoClients == {c1, c2}
SomePaths  == {<<"a">>, <<"b">>, <<"x">>}
ReadWrite  == {O_RDWR}
SomeSizes  == {2}
None       == {}
=============================================================================
