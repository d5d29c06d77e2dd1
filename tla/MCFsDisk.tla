------------------------------ MODULE MCFsDisk ------------------------------
(* An image for checking FsDisk with TLC: a directory d with a file a that  *)
(* has an indirect block, and a file b that fits into one block.            *)
EXTENDS FsTree

Entry(dir, name, type, size, fill) ==
  [dir |-> dir, name |-> name, type |-> type, size |-> size, fill |-> fill]

SmallImage == << Entry(0, "d", FTYPE_DIR, 0, 0),
                 Entry(1, "a", FTYPE_REG, 3, 21),
                 Entry(0, "b", FTYPE_REG, 1, 22) >>

Long        == {"long"}
SomePaths   == {<<"d">>, <<"d", "a">>, <<"b">>, <<"x", "a">>, <<"b", "a">>, <<"long">>}
Removables  == {<<"d", "a">>, <<"b">>}
Creatables  == {<<"d", "c">>, <<"c">>, <<"b">>}
NoPaths     == {}
SomeSizes   == {0, 2, 3}
=============================================================================
