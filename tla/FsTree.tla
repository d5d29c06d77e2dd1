------------------------------- MODULE FsTree -------------------------------
(***************************************************************************)
(* What the file system of FsDisk looks like while all is well: the        *)
(* inductive invariant of its proofs.                                      *)
(*                                                                         *)
(* The invariant names the owner of every block: a File, and which of its  *)
(* pointers leads to the block.  What a reader finds is a function v from  *)
(* blocks to contents; Tree says that the directories and files in it are  *)
(* a tree, in which every owned block hangs at its owner's pointer.        *)
(***************************************************************************)
EXTENDS FsDisk

----------------------------------------------------------------------------
(* The shape of the state *)

IsFs(s) ==
  /\ s = [cache |-> s.cache, mapped |-> s.mapped, dirty |-> s.dirty, disk |-> s.disk,
          panic |-> s.panic]
  /\ DOMAIN s.cache = Blocks /\ DOMAIN s.disk = Blocks

Direct   == 0..(NDIRECT - 1)
Indirect == NDIRECT..(NINDIRECT - 1)
Index    == -1..(NINDIRECT - 1)      \* -1 stands for f_indirect
Words    == 0..(BY2BLK - 1)

IsFile(f) ==
  /\ f = [f_name |-> f.f_name, f_size |-> f.f_size, f_type |-> f.f_type,
          f_direct |-> f.f_direct, f_indirect |-> f.f_indirect, f_dir |-> f.f_dir]
  /\ f.f_size \in Nat /\ f.f_direct \in [Direct -> Blocks] /\ f.f_indirect \in Blocks

----------------------------------------------------------------------------
(* The owners.  D is the set of the directories. *)

Slots   == Blocks \X (0..FILE2BLK)
Owners  == Slots \X Index
NoOwner == <<NULL, -1>>

IsDirBlk(own, D, b) == own[b][1] \in D /\ own[b][2] >= 0
IsInd(own, b)       == own[b] # NoOwner /\ own[b][2] = -1
HasFiles(own, D, b) == b = SUPER \/ IsDirBlk(own, D, b)
SlotsOf(b)          == IF b = SUPER THEN {0} ELSE 1..FILE2BLK
Files(own, D)       == {p \in Slots : HasFiles(own, D, p[1]) /\ p[2] \in SlotsOf(p[1])}

OwnOk(own, D) ==
  /\ own \in [Blocks -> Owners]
  /\ Root \in D /\ D \subseteq Files(own, D)
  /\ \A b \in Blocks : own[b] # NoOwner => b >= 3 /\ own[b][1] \in Files(own, D)

----------------------------------------------------------------------------
(* The tree in v *)

FileV(v, p) == AsFiles(v[p[1]])[p[2]]
PtrV(v, p, n) ==
  IF n = -1 THEN FileV(v, p).f_indirect
  ELSE IF n < NDIRECT THEN FileV(v, p).f_direct[n]
  ELSE IF FileV(v, p).f_indirect = 0 THEN 0
  ELSE v[FileV(v, p).f_indirect][n]

FileShape(D, p, f) ==
  /\ IsFile(f)
  /\ f.f_type = FTYPE_DIR <=> p \in D
  /\ f.f_dir = NULL \/ (f.f_dir \in D /\ p # Root)
  /\ p = Root => f.f_name # "OOPS!"

Shape(v, own, D) ==
  /\ \A b \in Blocks : HasFiles(own, D, b) => DOMAIN AsFiles(v[b]) = SlotsOf(b)
  /\ \A p \in Files(own, D) : FileShape(D, p, FileV(v, p))
  /\ \A b \in Blocks : IsInd(own, b) =>
       DOMAIN v[b] = Words /\ \A n \in Indirect : v[b][n] \in Blocks

(* What a pointer leads to is owned by this pointer, and the other way round. *)
Links(v, own, D) ==
  \A p \in Files(own, D), n \in Index : PtrV(v, p, n) # 0 => own[PtrV(v, p, n)] = <<p, n>>
Linked(v, own, b) == PtrV(v, own[b][1], own[b][2]) = b
Exact(v, own)     == \A b \in Blocks : own[b] # NoOwner => Linked(v, own, b)

(* The size of a file covers its blocks. *)
Covered(D, p, n, size) == n * BY2BLK <= size /\ (p \in D => n * BY2BLK < size)
InSize(v, own, D, b)   == Covered(D, own[b][1], own[b][2], FileV(v, own[b][1]).f_size)
Sized(v, own, D) ==
  \A b \in Blocks : own[b] # NoOwner /\ own[b][2] >= 0 => InSize(v, own, D, b)

Tree(v, own, D) ==
  OwnOk(own, D) /\ Shape(v, own, D) /\ Links(v, own, D) /\ Exact(v, own) /\ Sized(v, own, D)

----------------------------------------------------------------------------
(* The server's memory *)

Seen(s) == [b \in Blocks |-> At(s, b)]

Base(s) ==
  /\ IsFs(s) /\ s.panic = "no"
  /\ s.mapped \subseteq Blocks /\ {SUPER, BITMAP} \subseteq s.mapped /\ s.dirty \subseteq s.mapped
  /\ s.disk[BITMAP] \subseteq Blocks

FreeOk(free, own) == free \subseteq 3..(NBLOCK - 1) /\ \A b \in free : own[b] = NoOwner

(* No block is lost. *)
Full(free, own) == \A b \in 3..(NBLOCK - 1) : b \notin free => own[b] # NoOwner

----------------------------------------------------------------------------
(* What a boot would find on the disk, as long as nothing was freed.  Every  *)
(* block is right by itself, whether the tree on the disk leads to it or not *)
(* yet, and it still leads to all the directories.                           *)

FileOk(own, D, p, f) ==
  /\ FileShape(D, p, f)
  /\ \A i \in Direct : f.f_direct[i] # 0 => own[f.f_direct[i]] = <<p, i>>
  /\ f.f_indirect # 0 => own[f.f_indirect] = <<p, -1>>

FilesOk(own, D, b, c) ==
  DOMAIN AsFiles(c) = SlotsOf(b) /\ \A j \in SlotsOf(b) : FileOk(own, D, <<b, j>>, AsFiles(c)[j])

IndOk(own, p, c) ==
  DOMAIN c = Words /\ \A n \in Indirect : c[n] \in Blocks /\ (c[n] # 0 => own[c[n]] = <<p, n>>)

BlockOk(own, D, b, c) ==
  /\ HasFiles(own, D, b) => FilesOk(own, D, b, c)
  /\ IsInd(own, b) => IndOk(own, own[b][1], c)

Struct(v, own, D) == \A b \in Blocks : BlockOk(own, D, b, v[b])

DiskOk(disk, free, dirty, own, D) ==
  /\ disk[BITMAP] \subseteq free
  /\ \A b \in free : disk[b] = Zero
  /\ Struct(disk, own, D)
  /\ \A b \in Blocks : own[b] # NoOwner /\ own[b][2] >= 0 /\ Linked(disk, own, b)
                         => InSize(disk, own, D, b)
  /\ \A p \in D \ {Root} : Linked(disk, own, p[1])
  /\ \A b \in dirty : own[b] # NoOwner /\ own[b][2] >= 0

----------------------------------------------------------------------------
(* The invariant *)

(* sh: blocks were freed.  fu: no block is lost. *)
Good(s, own, D, sh, fu) ==
  /\ Base(s)
  /\ FreeOk(s.cache[BITMAP], own)
  /\ Tree(Seen(s), own, D)
  /\ sh \/ DiskOk(s.disk, s.cache[BITMAP], s.dirty, own, D)
  /\ fu => Full(s.cache[BITMAP], own)

(* A File that a caller may use. *)
Usable(s, own, D, p) ==
  /\ p \in Files(own, D) /\ p[1] \in s.mapped
  /\ File(s, p).f_dir # NULL => File(s, p).f_dir[1] \in s.mapped

(* Between two boots *)
OffOk(disk, own, D, fu) ==
  /\ DOMAIN disk = Blocks
  /\ Tree(disk, own, D)
  /\ FreeOk(disk[BITMAP], own)
  /\ \A b \in disk[BITMAP] : disk[b] = Zero
  /\ fu => Full(disk[BITMAP], own)

(* How deep the directories are. *)
DepthOk(own, D, dep) ==
  /\ dep \in [D -> 0..Len(Image)]
  /\ dep[Root] = 0
  /\ \A p \in D \ {Root} : dep[p] = dep[own[p[1]][1]] + 1

----------------------------------------------------------------------------
(* The image of fsformat *)

OwnersOf(s) ==
  [b \in Blocks |-> IF b # 0 /\ \E x \in Sites(s) : Ref(s, x) = b
                    THEN CHOOSE x \in Sites(s) : Ref(s, x) = b ELSE NoOwner]
DirsOf(s) == {p \in FilePtrs(s) : FileAt(s, p).f_type = FTYPE_DIR}

(* Image fits on the disk, and what fsformat makes of it is a tree. *)
ASSUME ImageAssumption ==
  LET own == OwnersOf(Booted(Formatted))
      D   == DirsOf(Booted(Formatted))
  IN  /\ OffOk(Formatted, own, D, TRUE)
      /\ \E dep \in [D -> 0..Len(Image)] : DepthOk(own, D, dep)
=============================================================================
