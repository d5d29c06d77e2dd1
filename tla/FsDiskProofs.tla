---------------------------- MODULE FsDiskProofs ----------------------------
(***************************************************************************)
(* Proofs about FsDisk: as long as the machine does not stop where the     *)
(* code is not built for it, no block gets two owners, none that is used   *)
(* is free, none is lost, and the server never panics.                     *)
(***************************************************************************)
EXTENDS FsTree, CommonLemmas

----------------------------------------------------------------------------
(* Facts about constants and contents *)

(* The sizes are such that the blocks 0 to 3 exist and an indirect block has *)
(* more words than a File has pointers (FsAssumption).                       *)
LEMMA Consts ==
  /\ NBLOCK \in Nat /\ BY2BLK \in Nat /\ NDIRECT \in Nat /\ FILE2BLK \in Nat
  /\ NBLOCK > 4 /\ NDIRECT > 0 /\ NDIRECT < BY2BLK /\ BY2BLK > 1 /\ FILE2BLK > 0
  /\ {0, SUPER, BITMAP, 3} \subseteq Blocks /\ SUPER = 1 /\ BITMAP = 2
BY FsAssumption DEF NINDIRECT, Blocks, SUPER, BITMAP

(* A block that holds Files is not mistaken for a page of zeroes (AsFiles). *)
LEMMA FilesAreFiles ==
  ASSUME NEW b, NEW c, DOMAIN c = SlotsOf(b)
  PROVE  AsFiles(c) = c
<1>1. DOMAIN Zero = 0..(BY2BLK - 1)
  BY DEF Zero
<1>2. 0 \in 0..(BY2BLK - 1) /\ 1 \in 0..(BY2BLK - 1)
  BY Consts
<1>3. 0 \notin 1..FILE2BLK /\ 1 \notin {0}
  OBVIOUS
<1>4. c # Zero
  BY <1>1, <1>2, <1>3 DEF SlotsOf
<1> QED
  BY <1>4 DEF AsFiles

(* A page of zeroes is a directory block without files. *)
LEMMA ZeroFiles ==
  ASSUME NEW b, b # SUPER
  PROVE  /\ DOMAIN AsFiles(Zero) = SlotsOf(b)
         /\ \A j \in SlotsOf(b) : AsFiles(Zero)[j] = NoFile
BY DEF AsFiles, ZeroDir, SlotsOf

(* An unused File has no blocks. *)
LEMMA NoFileIsFile ==
  /\ IsFile(NoFile) /\ NoFile.f_type # FTYPE_DIR /\ NoFile.f_dir = NULL /\ NoFile.f_indirect = 0
  /\ \A i \in Direct : NoFile.f_direct[i] = 0
  /\ NoFile.f_name = "" /\ NoFile.f_size = 0
BY Consts DEF NoFile, IsFile, Direct, FTYPE_REG, FTYPE_DIR

(* A File lies in the super block or in a block of a directory, which are    *)
(* neither block 0 nor the bitmap.                                           *)
LEMMA FileSlots ==
  ASSUME NEW own, NEW D, OwnOk(own, D), NEW p \in Files(own, D)
  PROVE  /\ p \in Slots /\ p = <<p[1], p[2]>> /\ p[1] \in Blocks /\ p[2] \in SlotsOf(p[1])
         /\ HasFiles(own, D, p[1]) /\ p[1] # 0 /\ p[1] # BITMAP /\ p # NULL /\ p[2] \in 0..FILE2BLK
         /\ ~IsInd(own, p[1])
<1>1. p \in Slots /\ HasFiles(own, D, p[1]) /\ p[2] \in SlotsOf(p[1])
  BY DEF Files
<1>2. p = <<p[1], p[2]>> /\ p[1] \in Blocks /\ p[2] \in 0..FILE2BLK
  BY <1>1 DEF Slots
<1>3. NULL \notin Files(own, D)
  BY Consts DEF Files, NULL, SlotsOf
<1>4. own[p[1]] = NoOwner => p[1] = SUPER
  BY <1>1, <1>3 DEF HasFiles, IsDirBlk, NoOwner, OwnOk
<1>5. own[p[1]] # NoOwner => p[1] >= 3
  BY <1>2 DEF OwnOk
<1>6. p[1] # 0 /\ p[1] # BITMAP
  BY <1>4, <1>5, Consts
<1>7. own[SUPER] = NoOwner
  BY Consts DEF OwnOk
<1>8. ~IsInd(own, p[1])
  BY <1>1, <1>7 DEF IsInd, HasFiles, IsDirBlk
<1> QED
  BY <1>1, <1>2, <1>3, <1>6, <1>8

(* Which blocks are not of a directory. *)
LEMMA Unowned ==
  ASSUME NEW own, NEW D, OwnOk(own, D)
  PROVE  /\ Root \in Files(own, D) /\ NULL \notin D
         /\ \A b \in Blocks : own[b] = NoOwner /\ b # SUPER => ~HasFiles(own, D, b) /\ ~IsInd(own, b)
         /\ \A b \in Blocks : b < 3 => own[b] = NoOwner
<1>1. NULL \notin Files(own, D)
  BY Consts DEF Files, NULL, SlotsOf
<1>2. NULL \notin D /\ Root \in Files(own, D)
  BY <1>1 DEF OwnOk
<1>3. \A b \in Blocks : own[b] = NoOwner /\ b # SUPER => ~HasFiles(own, D, b) /\ ~IsInd(own, b)
  BY <1>2 DEF HasFiles, IsDirBlk, IsInd, NoOwner
<1>4. \A b \in Blocks : b < 3 => own[b] = NoOwner
  BY Consts DEF OwnOk, Blocks
<1> QED
  BY <1>2, <1>3, <1>4
----------------------------------------------------------------------------
(* Changes of a tree *)

(* A pointer is 0 or the number of a block. *)
LEMMA PtrIsBlock ==
  ASSUME NEW v, NEW own, NEW D, OwnOk(own, D), Shape(v, own, D), Links(v, own, D),
         NEW p \in Files(own, D), NEW n \in Index
  PROVE  PtrV(v, p, n) \in Blocks
<1> DEFINE x == FileV(v, p).f_indirect
<1>1. IsFile(FileV(v, p))
  BY DEF Shape, FileShape
<1>2. n # -1 /\ n < NDIRECT => n \in Direct
  BY Consts DEF Index, Direct, NINDIRECT
<1>3. n # -1 /\ n < NDIRECT => FileV(v, p).f_direct[n] \in Blocks
  BY <1>1, <1>2 DEF IsFile
<1>4. x \in Blocks
  BY <1>1 DEF IsFile
<1>5. CASE n # -1 /\ ~(n < NDIRECT) /\ x # 0
  <2>1. -1 \in Index /\ n \in Indirect
    BY <1>5, Consts DEF Index, Indirect, NINDIRECT
  <2>2. PtrV(v, p, -1) = x
    BY DEF PtrV
  <2>3. own[x] = <<p, -1>>
    BY <1>5, <2>1, <2>2 DEF Links
  <2>4. p # NULL
    BY FileSlots
  <2>5. IsInd(own, x)
    BY <2>3, <2>4 DEF IsInd, NoOwner
  <2>6. v[x][n] \in Blocks
    BY <1>4, <2>1, <2>5 DEF Shape
  <2> QED
    BY <1>5, <2>6 DEF PtrV
<1> QED
  BY <1>3, <1>4, <1>5, Consts DEF PtrV

(* An indirect block holds no Files. *)
LEMMA IndNoFiles ==
  ASSUME NEW own, NEW D, OwnOk(own, D), NEW b \in Blocks, IsInd(own, b)
  PROVE  ~HasFiles(own, D, b)
<1>1. own[SUPER] = NoOwner
  BY Consts, Unowned
<1>2. b # SUPER /\ own[b][2] = -1
  BY <1>1 DEF IsInd
<1> QED
  BY <1>2 DEF HasFiles, IsDirBlk

(* Pointer n of a File: f_direct[n] *)
LEMMA PtrDirect ==
  ASSUME NEW v, NEW p, NEW n \in Direct
  PROVE  PtrV(v, p, n) = FileV(v, p).f_direct[n]
BY Consts DEF PtrV, Direct

(* ... or a word of the indirect block. *)
LEMMA PtrIndirect ==
  ASSUME NEW v, NEW p, NEW n \in Indirect
  PROVE  PtrV(v, p, n) = IF FileV(v, p).f_indirect = 0 THEN 0 ELSE v[FileV(v, p).f_indirect][n]
BY Consts DEF PtrV, Indirect

(* There are these kinds, and f_indirect itself. *)
LEMMA IndexKinds ==
  ASSUME NEW n \in Index
  PROVE  \/ n = -1 /\ n \notin Direct /\ n \notin Indirect
         \/ n \in Direct /\ n \notin Indirect /\ n # -1 /\ n < NDIRECT /\ n >= 0
         \/ n \in Indirect /\ n \notin Direct /\ n # -1 /\ ~(n < NDIRECT) /\ n >= 0
BY Consts DEF Index, Direct, Indirect, NINDIRECT

(* The block f_indirect is owned as such. *)
LEMMA IndirectBlock ==
  ASSUME NEW v, NEW own, NEW D, OwnOk(own, D), Shape(v, own, D), Links(v, own, D),
         NEW p \in Files(own, D), FileV(v, p).f_indirect # 0
  PROVE  /\ FileV(v, p).f_indirect \in Blocks /\ IsInd(own, FileV(v, p).f_indirect)
         /\ own[FileV(v, p).f_indirect] = <<p, -1>>
<1> DEFINE x == FileV(v, p).f_indirect
<1>1. x \in Blocks
  BY DEF Shape, FileShape, IsFile
<1>2. -1 \in Index /\ PtrV(v, p, -1) = x
  BY Consts DEF Index, PtrV, NINDIRECT
<1>3. own[x] = <<p, -1>> /\ p # NULL
  BY <1>2, FileSlots DEF Links
<1>4. IsInd(own, x)
  BY <1>3 DEF IsInd, NoOwner
<1> QED
  BY <1>1, <1>3, <1>4

(* The owners when pointer n of p, which led to a, leads to r. *)
NewOwn(own, p, n, a, r) ==
  [b \in Blocks |-> IF b = r /\ r # 0 THEN <<p, n>>
                    ELSE IF b = a /\ a # 0 THEN NoOwner ELSE own[b]]

(* One pointer changes, from 0 to a block without an owner or to 0. *)
LEMMA PointerChanges ==
  ASSUME NEW v, NEW own, NEW D, Tree(v, own, D),
         NEW p \in Files(own, D), NEW n \in Index, NEW a, a = PtrV(v, p, n),
         NEW r \in Blocks, a = 0 \/ r = 0,
         r # 0 => r >= 3 /\ own[r] = NoOwner,
         a # 0 => p \notin D,
         NEW own2,
         own2 = NewOwn(own, p, n, a, r),
         NEW v2,
         \A q \in Files(own, D), m \in Index :
           PtrV(v2, q, m) = IF q = p /\ m = n THEN r ELSE PtrV(v, q, m),
         \A q \in Files(own, D) : FileV(v2, q).f_size = FileV(v, q).f_size,
         Shape(v2, own2, D),
         r # 0 /\ n >= 0 => Covered(D, p, n, FileV(v, p).f_size),
         r # 0 /\ IsDirBlk(own2, D, r) => v2[r] = Zero
  PROVE  Tree(v2, own2, D)
<1>0. OwnOk(own, D) /\ Shape(v, own, D) /\ Links(v, own, D) /\ Exact(v, own) /\ Sized(v, own, D)
  BY DEF Tree
<1>1. a \in Blocks /\ (a # 0 => own[a] = <<p, n>>)
  BY <1>0, PtrIsBlock DEF Links
<1>2. /\ \A b \in Blocks : own2[b] = IF b = r /\ r # 0 THEN <<p, n>>
                                      ELSE IF b = a /\ a # 0 THEN NoOwner ELSE own[b]
  BY DEF NewOwn
<1>3. p \in Slots /\ p # NULL /\ <<p, n>> # NoOwner /\ NULL \in Slots
  <2>1. p \in Slots /\ p # NULL
    BY <1>0, FileSlots
  <2>2. NULL \in Slots
    BY Consts DEF NULL, Slots
  <2> QED
    BY <2>1, <2>2 DEF NoOwner
<1>4. own2 \in [Blocks -> Owners]
  <2>1. <<p, n>> \in Owners /\ NoOwner \in Owners
    BY <1>3, Consts DEF Owners, NoOwner, Index, NINDIRECT
  <2>2. own \in [Blocks -> Owners]
    BY <1>0 DEF OwnOk
  <2> QED
    BY <2>1, <2>2 DEF NewOwn
<1>5. \A b \in Blocks : HasFiles(own, D, b) => HasFiles(own2, D, b)
  <2> SUFFICES ASSUME NEW b \in Blocks, b # SUPER, IsDirBlk(own, D, b)
               PROVE  own2[b] = own[b]
    BY DEF HasFiles, IsDirBlk
  <2>1. own[b][1] \in D
    BY DEF IsDirBlk
  <2>2. r # 0 => b # r
    BY <1>0, <2>1, Unowned DEF NoOwner
  <2>3. a # 0 => b # a
    BY <1>1, <2>1
  <2> QED
    BY <1>2, <2>2, <2>3
<1>6. Files(own, D) \subseteq Files(own2, D)
  BY <1>5 DEF Files, Slots
<1>7. ASSUME NEW q \in Files(own2, D), q \notin Files(own, D)
      PROVE  r # 0 /\ q[1] = r /\ IsDirBlk(own2, D, r) /\ q[2] \in SlotsOf(r) /\ r # SUPER
  <2>1. q \in Slots /\ q[1] \in Blocks /\ HasFiles(own2, D, q[1]) /\ q[2] \in SlotsOf(q[1])
    BY DEF Files, Slots
  <2>2. ~HasFiles(own, D, q[1])
    BY <1>7, <2>1 DEF Files
  <2>3. own2[q[1]] # own[q[1]] /\ q[1] # SUPER /\ own2[q[1]][1] \in D
    BY <2>1, <2>2 DEF HasFiles, IsDirBlk
  <2>4. NULL \notin D
    BY <1>0, Unowned
  <2>5. own2[q[1]] # NoOwner
    BY <2>3, <2>4 DEF NoOwner
  <2> QED
    BY <1>2, <2>1, <2>3, <2>5 DEF HasFiles
<1>8. OwnOk(own2, D)
  <2>1. Root \in D /\ D \subseteq Files(own2, D)
    BY <1>0, <1>6 DEF OwnOk
  <2>2. ASSUME NEW b \in Blocks, own2[b] # NoOwner
        PROVE  b >= 3 /\ own2[b][1] \in Files(own2, D)
    BY <1>0, <1>2, <1>6, <2>2 DEF OwnOk
  <2> QED
    BY <1>4, <2>1, <2>2 DEF OwnOk
<1>9. Links(v2, own2, D)
  <2> SUFFICES ASSUME NEW q \in Files(own2, D), NEW m \in Index, PtrV(v2, q, m) # 0
               PROVE  own2[PtrV(v2, q, m)] = <<q, m>>
    BY DEF Links
  <2>1. CASE q \in Files(own, D)
    <3> DEFINE x == PtrV(v, q, m)
    <3>1. CASE q = p /\ m = n
      BY <1>2, <2>1, <3>1
    <3>2. CASE ~(q = p /\ m = n)
      <4>1. PtrV(v2, q, m) = x /\ x # 0
        BY <2>1, <3>2
      <4>2. x \in Blocks /\ own[x] = <<q, m>>
        BY <1>0, <2>1, <4>1, PtrIsBlock DEF Links
      <4>3. q # NULL
        BY <1>0, <2>1, FileSlots
      <4> HIDE DEF x
      <4>4. x # a \/ a = 0
        BY <1>1, <3>2, <4>2
      <4>5. x # r \/ r = 0
        BY <4>2, <4>3 DEF NoOwner
      <4> QED
        BY <1>2, <4>1, <4>2, <4>4, <4>5
    <3> QED
      BY <3>1, <3>2
  <2>2. CASE q \notin Files(own, D)
    <3>1. q[1] = r /\ v2[r] = Zero /\ q[2] \in SlotsOf(r) /\ r # SUPER
      BY <1>7, <2>2
    <3>2. FileV(v2, q) = NoFile
      BY <3>1, ZeroFiles DEF FileV
    <3>3. m \in -1..(BY2BLK - 1)
      BY DEF Index, NINDIRECT
    <3>4. PtrV(v2, q, m) = 0
      <4>1. m # -1 /\ m < NDIRECT => m \in Direct
        BY <3>3, Consts DEF Direct
      <4> QED
        BY <3>2, <4>1, NoFileIsFile DEF PtrV
    <3> QED
      BY <3>4
  <2> QED
    BY <2>1, <2>2
<1>10. ASSUME NEW b \in Blocks, own2[b] # NoOwner
       PROVE  /\ own2[b] = <<own2[b][1], own2[b][2]>> /\ own2[b][1] \in Files(own, D)
              /\ own2[b][2] \in Index
              /\ (b = r /\ r # 0) \/ (own2[b] = own[b] /\ own[b] # NoOwner /\ b >= 3 /\ (a # 0 => b # a))
  <2>1. (b = r /\ r # 0) \/ (own2[b] = own[b] /\ own[b] # NoOwner /\ (a # 0 => b # a))
    BY <1>2, <1>10
  <2>2. own2[b] \in Owners
    BY <1>4
  <2>3. own2[b] = <<own2[b][1], own2[b][2]>> /\ own2[b][2] \in Index
    BY <2>2 DEF Owners
  <2>4. own2[b][1] \in Files(own, D) /\ (own[b] # NoOwner => b >= 3)
    BY <1>0, <1>2, <2>1 DEF OwnOk
  <2> QED
    BY <2>1, <2>3, <2>4
<1>11. Exact(v2, own2)
  <2> SUFFICES ASSUME NEW b \in Blocks, own2[b] # NoOwner
               PROVE  PtrV(v2, own2[b][1], own2[b][2]) = b
    BY DEF Exact, Linked
  <2>1. CASE b = r /\ r # 0
    BY <1>2, <2>1
  <2>2. CASE ~(b = r /\ r # 0)
    <3>1. own2[b] = own[b] /\ own[b] # NoOwner /\ b >= 3 /\ (a # 0 => b # a)
      BY <1>10, <2>2
    <3>2. PtrV(v, own[b][1], own[b][2]) = b
      BY <1>0, <3>1 DEF Exact, Linked
    <3>3. ~(own[b][1] = p /\ own[b][2] = n)
      BY <3>1, <3>2
    <3> QED
      BY <1>10, <3>1, <3>2, <3>3
  <2> QED
    BY <2>1, <2>2
<1>12. Sized(v2, own2, D)
  <2> SUFFICES ASSUME NEW b \in Blocks, own2[b] # NoOwner, own2[b][2] >= 0
               PROVE  Covered(D, own2[b][1], own2[b][2], FileV(v2, own2[b][1]).f_size)
    BY DEF Sized, InSize
  <2>1. FileV(v2, own2[b][1]).f_size = FileV(v, own2[b][1]).f_size
    BY <1>10
  <2>2. CASE b = r /\ r # 0
    BY <1>2, <2>1, <2>2
  <2>3. CASE ~(b = r /\ r # 0)
    BY <1>0, <1>10, <2>1, <2>3 DEF Sized, InSize
  <2> QED
    BY <2>2, <2>3
<1> QED
  BY <1>8, <1>9, <1>11, <1>12 DEF Tree

(* A change of the File p, with a change of the block r. *)
FilePut(v, v2, p, f, r) ==
  /\ v2[p[1]] = [AsFiles(v[p[1]]) EXCEPT ![p[2]] = f]
  /\ \A b \in Blocks : b # p[1] /\ b # r => v2[b] = v[b]

(* It leaves the other Files alone, if r holds no Files. *)
LEMMA OthersStay ==
  ASSUME NEW v, NEW own, NEW D, OwnOk(own, D), Shape(v, own, D), NEW p \in Files(own, D),
         NEW r, ~HasFiles(own, D, r), NEW f, NEW v2, FilePut(v, v2, p, f, r)
  PROVE  /\ DOMAIN AsFiles(v2[p[1]]) = SlotsOf(p[1])
         /\ FileV(v2, p) = f
         /\ \A q \in Files(own, D) : q # p => FileV(v2, q) = FileV(v, q)
<1>1. p[1] \in Blocks /\ p[2] \in SlotsOf(p[1]) /\ HasFiles(own, D, p[1]) /\ p = <<p[1], p[2]>>
  BY FileSlots
<1>2. DOMAIN AsFiles(v[p[1]]) = SlotsOf(p[1])
  BY <1>1 DEF Shape
<1>3. DOMAIN v2[p[1]] = SlotsOf(p[1])
  BY <1>2 DEF FilePut
<1>4. AsFiles(v2[p[1]]) = v2[p[1]]
  BY <1>3, FilesAreFiles
<1>5. FileV(v2, p) = f
  BY <1>1, <1>2, <1>4 DEF FilePut, FileV
<1>6. ASSUME NEW q \in Files(own, D), q # p
      PROVE  FileV(v2, q) = FileV(v, q)
  <2>1. q[1] \in Blocks /\ q[2] \in SlotsOf(q[1]) /\ HasFiles(own, D, q[1]) /\ q = <<q[1], q[2]>>
    BY FileSlots
  <2>2. CASE q[1] = p[1]
    <3>1. q[2] # p[2]
      BY <1>1, <1>6, <2>1, <2>2
    <3> QED
      BY <1>2, <1>4, <2>1, <2>2, <3>1 DEF FilePut, FileV
  <2>3. CASE q[1] # p[1]
    BY <2>1, <2>3 DEF FilePut, FileV
  <2> QED
    BY <2>2, <2>3
<1> QED
  BY <1>3, <1>4, <1>5, <1>6

(* The shape of a tree stays when blocks lose their owner, the blocks with   *)
(* an owner keep their shape, and one more block, a page of zeroes, gets an  *)
(* owner.                                                                    *)
LEMMA ShapeStays ==
  ASSUME NEW v, NEW own, NEW D, OwnOk(own, D), Shape(v, own, D),
         NEW r \in Blocks, ~HasFiles(own, D, r),
         NEW own2, \A b \in Blocks : b # r => own2[b] = own[b] \/ own2[b] = NoOwner,
         NEW v2,
         HasFiles(own2, D, r) \/ IsInd(own2, r) => v2[r] = Zero,
         \A b \in Blocks : HasFiles(own, D, b) => DOMAIN AsFiles(v2[b]) = SlotsOf(b),
         \A p \in Files(own, D) : FileShape(D, p, FileV(v2, p)),
         \A b \in Blocks : b # r /\ IsInd(own2, b) =>
           DOMAIN v2[b] = Words /\ \A n \in Indirect : v2[b][n] \in Blocks
  PROVE  Shape(v2, own2, D)
<1>1. NULL \notin D /\ r # SUPER
  BY Unowned DEF HasFiles
<1>2. \A b \in Blocks : b # r /\ HasFiles(own2, D, b) => HasFiles(own, D, b)
  BY <1>1 DEF HasFiles, IsDirBlk, NoOwner
<1>3. \A b \in Blocks : HasFiles(own2, D, b) => DOMAIN AsFiles(v2[b]) = SlotsOf(b)
  <2> SUFFICES ASSUME NEW b \in Blocks, HasFiles(own2, D, b) PROVE DOMAIN AsFiles(v2[b]) = SlotsOf(b)
    OBVIOUS
  <2>1. CASE b = r
    BY <1>1, <2>1, ZeroFiles
  <2>2. CASE b # r
    BY <1>2, <2>2
  <2> QED
    BY <2>1, <2>2
<1>4. \A p \in Files(own2, D) : FileShape(D, p, FileV(v2, p))
  <2> SUFFICES ASSUME NEW p \in Files(own2, D), p \notin Files(own, D)
               PROVE  FileShape(D, p, FileV(v2, p))
    OBVIOUS
  <2>1. p \in Slots /\ p[1] \in Blocks /\ HasFiles(own2, D, p[1]) /\ p[2] \in SlotsOf(p[1])
    BY DEF Files, Slots
  <2>2. ~HasFiles(own, D, p[1])
    BY <2>1 DEF Files
  <2>3. p[1] = r /\ v2[r] = Zero
    BY <1>2, <2>1, <2>2
  <2>4. FileV(v2, p) = NoFile
    BY <1>1, <2>1, <2>3, ZeroFiles DEF FileV
  <2>5. p \notin D /\ p # Root
    BY <1>1, <2>3 DEF OwnOk, Root
  <2> QED
    BY <2>4, <2>5, NoFileIsFile DEF FileShape
<1>5. DOMAIN Zero = Words /\ \A n \in Indirect : Zero[n] \in Blocks
  BY Consts DEF Zero, Words, Indirect, NINDIRECT
<1>6. \A b \in Blocks : IsInd(own2, b) =>
        DOMAIN v2[b] = Words /\ \A n \in Indirect : v2[b][n] \in Blocks
  BY <1>5
<1> QED
  BY <1>3, <1>4, <1>6 DEF Shape

(* NewOwn gives no other block than r an owner. *)
LEMMA NewOwnOthers ==
  ASSUME NEW own, NEW p, NEW n, NEW a, NEW r
  PROVE  /\ \A b \in Blocks : b # r => NewOwn(own, p, n, a, r)[b] = own[b]
                                       \/ NewOwn(own, p, n, a, r)[b] = NoOwner
         /\ r \in Blocks /\ r = 0 /\ own[0] = NoOwner => NewOwn(own, p, n, a, r)[r] = NoOwner
BY DEF NewOwn

(* What is asked of a change of pointer n of p to r. *)
MayPoint(v, own, D, p, n, r) ==
  /\ Tree(v, own, D)
  /\ p \in Files(own, D) /\ n \in Index /\ r \in Blocks
  /\ PtrV(v, p, n) = 0 \/ (r = 0 /\ p \notin D)
  /\ r # 0 => r >= 3 /\ own[r] = NoOwner
  /\ r # 0 /\ n >= 0 => Covered(D, p, n, FileV(v, p).f_size)

(* The block that gets an owner holds no Files and is no indirect block yet. *)
LEMMA Pointed ==
  ASSUME NEW v, NEW own, NEW D, NEW p, NEW n, NEW r, MayPoint(v, own, D, p, n, r)
  PROVE  ~HasFiles(own, D, r) /\ ~IsInd(own, r) /\ r # SUPER
<1>1. OwnOk(own, D) /\ r \in Blocks /\ (r # 0 => r >= 3 /\ own[r] = NoOwner)
  BY DEF MayPoint, Tree
<1>2. own[r] = NoOwner /\ r # SUPER
  BY <1>1, Consts, Unowned DEF Blocks
<1> QED
  BY <1>1, <1>2, Unowned

(* The tree when f_direct[n] changes (SetPtr). *)
LEMMA DirectChanges ==
  ASSUME NEW v, NEW own, NEW D, NEW p, NEW n \in Direct, NEW r, MayPoint(v, own, D, p, n, r),
         NEW v2, FilePut(v, v2, p, [FileV(v, p) EXCEPT !.f_direct[n] = r], r),
         r # 0 /\ p \in D => v2[r] = Zero
  PROVE  Tree(v2, NewOwn(own, p, n, PtrV(v, p, n), r), D)
<1> DEFINE F    == FileV(v, p)
           f    == [F EXCEPT !.f_direct[n] = r]
           a    == PtrV(v, p, n)
           own2 == NewOwn(own, p, n, a, r)
<1>0. OwnOk(own, D) /\ Shape(v, own, D) /\ Links(v, own, D) /\ Exact(v, own) /\ p \in Files(own, D)
      /\ r \in Blocks /\ n \in Index /\ Tree(v, own, D)
  BY DEF Tree, MayPoint
<1>1. ~HasFiles(own, D, r) /\ ~IsInd(own, r) /\ r # SUPER
  BY Pointed
<1>2. FileShape(D, p, F) /\ IsFile(F)
  BY <1>0 DEF Shape, FileShape
<1>3. /\ IsFile(f) /\ f.f_size = F.f_size /\ f.f_type = F.f_type /\ f.f_dir = F.f_dir
      /\ f.f_name = F.f_name /\ f.f_indirect = F.f_indirect /\ f.f_direct[n] = r
      /\ \A i \in Direct : i # n => f.f_direct[i] = F.f_direct[i]
  <2> HIDE DEF F
  <2> QED
    BY <1>0, <1>2 DEF IsFile
<1>4. FileShape(D, p, f)
  <2> HIDE DEF F, f
  <2> QED
    BY <1>2, <1>3 DEF FileShape
<1>5. /\ DOMAIN AsFiles(v2[p[1]]) = SlotsOf(p[1])
      /\ FileV(v2, p) = f
      /\ \A q \in Files(own, D) : q # p => FileV(v2, q) = FileV(v, q)
  BY <1>0, <1>1, OthersStay
<1> HIDE DEF f, F
<1>6. \A b \in Blocks : b # p[1] /\ b # r => v2[b] = v[b]
  BY DEF FilePut
<1>7. ~IsInd(own, p[1])
  BY <1>0, FileSlots
<1>8. \A b \in Blocks : b # r => own2[b] = own[b] \/ own2[b] = NoOwner
  BY NewOwnOthers
<1>9. r # 0 => own2[r] = <<p, n>>
  BY <1>0 DEF NewOwn
<1>10. own[0] = NoOwner /\ (r = 0 => own2[r] = NoOwner)
  BY <1>0, Unowned, NewOwnOthers, Consts
<1>11. HasFiles(own2, D, r) \/ IsInd(own2, r) => v2[r] = Zero
  <2>1. r = 0 => ~HasFiles(own2, D, r) /\ ~IsInd(own2, r)
    BY <1>0, <1>1, <1>10, Unowned DEF HasFiles, IsDirBlk, IsInd, NoOwner
  <2>2. r # 0 => ~IsInd(own2, r) /\ (HasFiles(own2, D, r) => p \in D)
    BY <1>1, <1>9, Consts DEF HasFiles, IsDirBlk, IsInd, Direct
  <2> QED
    BY <2>1, <2>2
<1>12. Shape(v2, own2, D)
  <2>1. \A b \in Blocks : HasFiles(own, D, b) => DOMAIN AsFiles(v2[b]) = SlotsOf(b)
    BY <1>0, <1>1, <1>5, <1>6 DEF Shape
  <2>2. \A q \in Files(own, D) : FileShape(D, q, FileV(v2, q))
    BY <1>0, <1>4, <1>5 DEF Shape
  <2>3. \A b \in Blocks : b # r /\ IsInd(own2, b) => IsInd(own, b)
    BY <1>8 DEF IsInd
  <2>4. \A b \in Blocks : b # r /\ IsInd(own2, b) =>
           DOMAIN v2[b] = Words /\ \A m \in Indirect : v2[b][m] \in Blocks
    BY <1>0, <1>6, <1>7, <2>3 DEF Shape
  <2> HIDE DEF own2
  <2> QED
    BY <1>0, <1>1, <1>8, <1>11, <2>1, <2>2, <2>4, ShapeStays
<1>13. ASSUME NEW q \in Files(own, D), NEW m \in Index
       PROVE  PtrV(v2, q, m) = IF q = p /\ m = n THEN r ELSE PtrV(v, q, m)
  <2>0. m \in -1..(BY2BLK - 1) /\ n \in 0..(NDIRECT - 1) /\ (m # -1 /\ m < NDIRECT => m \in Direct)
    BY Consts DEF Index, NINDIRECT, Direct
  <2>1. FileV(v2, q).f_indirect = FileV(v, q).f_indirect
    BY <1>3, <1>5 DEF F
  <2>2. m \in Direct => FileV(v2, q).f_direct[m] = IF q = p /\ m = n THEN r ELSE FileV(v, q).f_direct[m]
    BY <1>3, <1>5 DEF F
  <2>3. FileV(v, q).f_indirect # 0 => v2[FileV(v, q).f_indirect] = v[FileV(v, q).f_indirect]
    <3> SUFFICES ASSUME FileV(v, q).f_indirect # 0
                 PROVE  v2[FileV(v, q).f_indirect] = v[FileV(v, q).f_indirect]
      OBVIOUS
    <3> DEFINE x == FileV(v, q).f_indirect
    <3>1. x \in Blocks /\ IsInd(own, x)
      BY <1>0, IndirectBlock
    <3> HIDE DEF x
    <3>2. x # p[1] /\ x # r
      BY <1>1, <1>7, <3>1
    <3> QED
      BY <1>6, <3>1, <3>2 DEF x
  <2>4. CASE m = -1
    BY <2>0, <2>1, <2>4 DEF PtrV
  <2>5. CASE m \in Direct
    BY <2>0, <2>2, <2>5, PtrDirect
  <2>6. CASE m \in Indirect /\ m # n
    BY <2>1, <2>3, <2>6, PtrIndirect
  <2> QED
    BY <2>4, <2>5, <2>6, IndexKinds
<1>14. \A q \in Files(own, D) : FileV(v2, q).f_size = FileV(v, q).f_size
  BY <1>3, <1>5 DEF F
<1>15. a = 0 \/ (r = 0 /\ p \notin D)
  BY DEF MayPoint
<1>16. r # 0 => r >= 3 /\ own[r] = NoOwner /\ (n >= 0 => Covered(D, p, n, FileV(v, p).f_size))
  BY DEF MayPoint
<1>17. r # 0 /\ IsDirBlk(own2, D, r) => v2[r] = Zero
  BY <1>11 DEF HasFiles
<1> HIDE DEF a
<1> QED
  BY <1>0, <1>12, <1>13, <1>14, <1>15, <1>16, <1>17, PointerChanges DEF a

(* The tree when f_indirect changes, while no pointer of the indirect block  *)
(* is used (file_block_walk, file_truncate).                                 *)
LEMMA IndirectChanges ==
  ASSUME NEW v, NEW own, NEW D, NEW p, NEW r, MayPoint(v, own, D, p, -1, r),
         \A m \in Indirect : PtrV(v, p, m) = 0,
         NEW v2, FilePut(v, v2, p, [FileV(v, p) EXCEPT !.f_indirect = r], r),
         r # 0 => v2[r] = Zero
  PROVE  Tree(v2, NewOwn(own, p, -1, PtrV(v, p, -1), r), D)
<1> DEFINE F    == FileV(v, p)
           f    == [F EXCEPT !.f_indirect = r]
           a    == PtrV(v, p, -1)
           own2 == NewOwn(own, p, -1, a, r)
<1>0. OwnOk(own, D) /\ Shape(v, own, D) /\ Links(v, own, D) /\ Exact(v, own) /\ p \in Files(own, D)
      /\ r \in Blocks /\ -1 \in Index /\ Tree(v, own, D)
  BY DEF Tree, MayPoint
<1>1. ~HasFiles(own, D, r) /\ ~IsInd(own, r) /\ r # SUPER
  BY Pointed
<1>2. FileShape(D, p, F) /\ IsFile(F)
  BY <1>0 DEF Shape, FileShape
<1>3. /\ IsFile(f) /\ f.f_size = F.f_size /\ f.f_type = F.f_type /\ f.f_dir = F.f_dir
      /\ f.f_name = F.f_name /\ f.f_indirect = r /\ f.f_direct = F.f_direct
  <2> HIDE DEF F
  <2> QED
    BY <1>0, <1>2 DEF IsFile
<1>4. FileShape(D, p, f)
  <2> HIDE DEF F, f
  <2> QED
    BY <1>2, <1>3 DEF FileShape
<1>5. /\ DOMAIN AsFiles(v2[p[1]]) = SlotsOf(p[1])
      /\ FileV(v2, p) = f
      /\ \A q \in Files(own, D) : q # p => FileV(v2, q) = FileV(v, q)
  BY <1>0, <1>1, OthersStay
<1> HIDE DEF f, F
<1>6. \A b \in Blocks : b # p[1] /\ b # r => v2[b] = v[b]
  BY DEF FilePut
<1>7. ~IsInd(own, p[1])
  BY <1>0, FileSlots
<1>8. \A b \in Blocks : b # r => own2[b] = own[b] \/ own2[b] = NoOwner
  BY NewOwnOthers
<1>9. r # 0 => own2[r] = <<p, -1>>
  BY <1>0 DEF NewOwn
<1>10. own[0] = NoOwner /\ (r = 0 => own2[r] = NoOwner)
  BY <1>0, Unowned, NewOwnOthers, Consts
<1>11. HasFiles(own2, D, r) \/ IsInd(own2, r) => v2[r] = Zero
  <2>1. r = 0 => ~HasFiles(own2, D, r) /\ ~IsInd(own2, r)
    BY <1>0, <1>1, <1>10, Unowned DEF HasFiles, IsDirBlk, IsInd, NoOwner
  <2> QED
    BY <2>1
<1>12. Shape(v2, own2, D)
  <2>1. \A b \in Blocks : HasFiles(own, D, b) => DOMAIN AsFiles(v2[b]) = SlotsOf(b)
    BY <1>0, <1>1, <1>5, <1>6 DEF Shape
  <2>2. \A q \in Files(own, D) : FileShape(D, q, FileV(v2, q))
    BY <1>0, <1>4, <1>5 DEF Shape
  <2>3. \A b \in Blocks : b # r /\ IsInd(own2, b) => IsInd(own, b)
    BY <1>8 DEF IsInd
  <2>4. \A b \in Blocks : b # r /\ IsInd(own2, b) =>
           DOMAIN v2[b] = Words /\ \A m \in Indirect : v2[b][m] \in Blocks
    BY <1>0, <1>6, <1>7, <2>3 DEF Shape
  <2> HIDE DEF own2
  <2> QED
    BY <1>0, <1>1, <1>8, <1>11, <2>1, <2>2, <2>4, ShapeStays
<1>13. ASSUME NEW q \in Files(own, D), NEW m \in Index
       PROVE  PtrV(v2, q, m) = IF q = p /\ m = -1 THEN r ELSE PtrV(v, q, m)
  <2>1. CASE m = -1
    BY <1>3, <1>5, <2>1 DEF PtrV
  <2>2. CASE m \in Direct
    <3>1. FileV(v2, q).f_direct = FileV(v, q).f_direct
      BY <1>3, <1>5 DEF F
    <3>2. m # -1
      BY <2>2, Consts DEF Direct
    <3> QED
      BY <2>2, <3>1, <3>2, PtrDirect
  <2>3. CASE m \in Indirect /\ q = p
    <3>1. PtrV(v, q, m) = 0 /\ m # -1
      BY <2>3, Consts DEF Indirect
    <3>2. r # 0 => v2[r][m] = 0
      BY <2>3, Consts DEF Zero, Indirect, NINDIRECT
    <3> QED
      BY <1>3, <1>5, <2>3, <3>1, <3>2, PtrIndirect
  <2>4. CASE m \in Indirect /\ q # p
    <3> DEFINE x == FileV(v, q).f_indirect
    <3>1. FileV(v2, q).f_indirect = x
      BY <1>5, <2>4
    <3>2. x # 0 => x \in Blocks /\ IsInd(own, x)
      BY <1>0, IndirectBlock
    <3> HIDE DEF x
    <3>3. x # 0 => v2[x] = v[x]
      BY <1>1, <1>6, <1>7, <3>2
    <3> QED
      BY <2>4, <3>1, <3>3, PtrIndirect DEF x
  <2> QED
    BY <2>1, <2>2, <2>3, <2>4, IndexKinds
<1>14. \A q \in Files(own, D) : FileV(v2, q).f_size = FileV(v, q).f_size
  BY <1>3, <1>5 DEF F
<1>15. a = 0 \/ (r = 0 /\ p \notin D)
  BY DEF MayPoint
<1>16. r # 0 => r >= 3 /\ own[r] = NoOwner
  BY DEF MayPoint
<1>17. r # 0 /\ IsDirBlk(own2, D, r) => v2[r] = Zero
  OBVIOUS
<1>18. ~(-1 >= 0)
  OBVIOUS
<1> HIDE DEF a
<1> QED
  BY <1>0, <1>12, <1>13, <1>14, <1>15, <1>16, <1>17, <1>18, PointerChanges DEF a

(* The tree when a pointer in the indirect block changes (SetPtr). *)
LEMMA EntryChanges ==
  ASSUME NEW v, NEW own, NEW D, NEW p, NEW n \in Indirect, NEW r, MayPoint(v, own, D, p, n, r),
         FileV(v, p).f_indirect # 0,
         NEW v2, v2[FileV(v, p).f_indirect] = [v[FileV(v, p).f_indirect] EXCEPT ![n] = r],
         \A b \in Blocks : b # FileV(v, p).f_indirect /\ b # r => v2[b] = v[b],
         r # 0 /\ p \in D => v2[r] = Zero
  PROVE  Tree(v2, NewOwn(own, p, n, PtrV(v, p, n), r), D)
<1> DEFINE y    == FileV(v, p).f_indirect
           a    == PtrV(v, p, n)
           own2 == NewOwn(own, p, n, a, r)
<1>0. OwnOk(own, D) /\ Shape(v, own, D) /\ Links(v, own, D) /\ Exact(v, own) /\ p \in Files(own, D)
      /\ r \in Blocks /\ n \in Index /\ Tree(v, own, D)
  BY DEF Tree, MayPoint
<1>1. ~HasFiles(own, D, r) /\ ~IsInd(own, r) /\ r # SUPER
  BY Pointed
<1>2. y \in Blocks /\ IsInd(own, y) /\ own[y] = <<p, -1>>
  BY <1>0, IndirectBlock
<1>3. ASSUME NEW q \in Files(own, D) PROVE FileV(v2, q) = FileV(v, q)
  <2>1. q[1] \in Blocks /\ HasFiles(own, D, q[1]) /\ ~IsInd(own, q[1])
    BY <1>0, FileSlots
  <2>2. q[1] # y /\ q[1] # r
    BY <1>1, <1>2, <2>1
  <2> QED
    BY <2>1, <2>2 DEF FileV
<1>4. \A b \in Blocks : b # y /\ b # r => v2[b] = v[b]
  OBVIOUS
<1>5. DOMAIN v[y] = Words /\ \A m \in Indirect : v[y][m] \in Blocks
  BY <1>0, <1>2 DEF Shape
<1>6. n \in Words /\ \A m \in Indirect : m \in Words
  BY Consts DEF Indirect, Words, NINDIRECT
<1>7. v2[y] = [v[y] EXCEPT ![n] = r]
  OBVIOUS
<1> HIDE DEF y
<1>8. DOMAIN v2[y] = Words /\ \A m \in Indirect : v2[y][m] = IF m = n THEN r ELSE v[y][m]
  BY <1>5, <1>6, <1>7
<1>9. \A b \in Blocks : b # r => own2[b] = own[b] \/ own2[b] = NoOwner
  BY NewOwnOthers
<1>10. r # 0 => own2[r] = <<p, n>>
  BY <1>0 DEF NewOwn
<1>11. own[0] = NoOwner /\ (r = 0 => own2[r] = NoOwner)
  BY <1>0, Unowned, NewOwnOthers, Consts
<1>12. HasFiles(own2, D, r) \/ IsInd(own2, r) => v2[r] = Zero
  <2>1. r = 0 => ~HasFiles(own2, D, r) /\ ~IsInd(own2, r)
    BY <1>0, <1>1, <1>11, Unowned DEF HasFiles, IsDirBlk, IsInd, NoOwner
  <2>2. n # -1
    BY Consts DEF Indirect
  <2>3. r # 0 => ~IsInd(own2, r) /\ (HasFiles(own2, D, r) => p \in D)
    BY <1>1, <1>10, <2>2 DEF HasFiles, IsDirBlk, IsInd
  <2> QED
    BY <2>1, <2>3
<1>13. Shape(v2, own2, D)
  <2>1. \A b \in Blocks : HasFiles(own, D, b) => DOMAIN AsFiles(v2[b]) = SlotsOf(b)
    <3>1. ~HasFiles(own, D, y)
      BY <1>0, <1>2, IndNoFiles
    <3> QED
      BY <1>0, <1>1, <1>4, <3>1 DEF Shape
  <2>2. \A q \in Files(own, D) : FileShape(D, q, FileV(v2, q))
    BY <1>0, <1>3 DEF Shape
  <2>3. \A b \in Blocks : b # r /\ IsInd(own2, b) => IsInd(own, b)
    BY <1>9 DEF IsInd
  <2>4. \A b \in Blocks : b # r /\ IsInd(own2, b) =>
           DOMAIN v2[b] = Words /\ \A m \in Indirect : v2[b][m] \in Blocks
    BY <1>0, <1>4, <1>5, <1>8, <2>3 DEF Shape
  <2> HIDE DEF own2
  <2> QED
    BY <1>0, <1>1, <1>9, <1>12, <2>1, <2>2, <2>4, ShapeStays
<1>14. ASSUME NEW q \in Files(own, D), NEW m \in Index
       PROVE  PtrV(v2, q, m) = IF q = p /\ m = n THEN r ELSE PtrV(v, q, m)
  <2>0. FileV(v2, q) = FileV(v, q)
    BY <1>3
  <2>1. CASE m = -1
    <3>1. n # -1
      BY Consts DEF Indirect
    <3> QED
      BY <2>0, <2>1, <3>1 DEF PtrV
  <2>2. CASE m \in Direct
    <3>1. m # n
      BY <2>2, Consts DEF Direct, Indirect
    <3> QED
      BY <2>0, <2>2, <3>1, PtrDirect
  <2>3. CASE m \in Indirect
    <3> DEFINE x == FileV(v, q).f_indirect
    <3>1. x # 0 => x \in Blocks /\ IsInd(own, x) /\ own[x] = <<q, -1>>
      BY <1>0, IndirectBlock
    <3>2. q = p => x = y
      BY DEF y
    <3> HIDE DEF x
    <3>3. x # 0 => x # r /\ (x = y => q = p)
      BY <1>1, <1>2, <3>1
    <3>4. x # 0 => v2[x][m] = IF q = p /\ m = n THEN r ELSE v[x][m]
      BY <1>4, <1>8, <2>3, <3>1, <3>2, <3>3
    <3>5. y # 0
      BY DEF y
    <3>6. PtrV(v2, q, m) = IF x = 0 THEN 0 ELSE v2[x][m]
      BY <2>0, <2>3, PtrIndirect DEF x
    <3>7. PtrV(v, q, m) = IF x = 0 THEN 0 ELSE v[x][m]
      BY <2>3, PtrIndirect DEF x
    <3> QED
      BY <3>2, <3>4, <3>5, <3>6, <3>7
  <2> QED
    BY <2>1, <2>2, <2>3, IndexKinds
<1>15. \A q \in Files(own, D) : FileV(v2, q).f_size = FileV(v, q).f_size
  BY <1>3
<1>16. a = 0 \/ (r = 0 /\ p \notin D)
  BY DEF MayPoint
<1>17. r # 0 => r >= 3 /\ own[r] = NoOwner /\ (n >= 0 => Covered(D, p, n, FileV(v, p).f_size))
  BY DEF MayPoint
<1>18. r # 0 /\ IsDirBlk(own2, D, r) => v2[r] = Zero
  BY <1>12 DEF HasFiles
<1> HIDE DEF a
<1> QED
  BY <1>0, <1>13, <1>14, <1>15, <1>16, <1>17, <1>18, PointerChanges DEF a

(* The tree when a File changes and its pointers do not. *)
LEMMA FileChanges ==
  ASSUME NEW v, NEW own, NEW D, Tree(v, own, D), NEW p \in Files(own, D),
         NEW f, FileShape(D, p, f),
         f.f_direct = FileV(v, p).f_direct, f.f_indirect = FileV(v, p).f_indirect,
         \A b \in Blocks : own[b] # NoOwner /\ own[b][2] >= 0 /\ own[b][1] = p
           => Covered(D, p, own[b][2], f.f_size),
         NEW v2, FilePut(v, v2, p, f, 0)
  PROVE  Tree(v2, own, D)
<1>0. OwnOk(own, D) /\ Shape(v, own, D) /\ Links(v, own, D) /\ Exact(v, own) /\ Sized(v, own, D)
  BY DEF Tree
<1>1. 0 \in Blocks /\ own[0] = NoOwner /\ ~HasFiles(own, D, 0) /\ ~IsInd(own, 0)
  BY <1>0, Consts, Unowned
<1>2. /\ DOMAIN AsFiles(v2[p[1]]) = SlotsOf(p[1])
      /\ FileV(v2, p) = f
      /\ \A q \in Files(own, D) : q # p => FileV(v2, q) = FileV(v, q)
  BY <1>0, <1>1, OthersStay
<1>3. \A b \in Blocks : b # p[1] /\ b # 0 => v2[b] = v[b]
  BY DEF FilePut
<1>4. ~IsInd(own, p[1])
  BY <1>0, FileSlots
<1>5. Shape(v2, own, D)
  <2>1. \A b \in Blocks : HasFiles(own, D, b) => DOMAIN AsFiles(v2[b]) = SlotsOf(b)
    BY <1>0, <1>1, <1>2, <1>3 DEF Shape
  <2>2. \A q \in Files(own, D) : FileShape(D, q, FileV(v2, q))
    BY <1>0, <1>2 DEF Shape
  <2>3. \A b \in Blocks : IsInd(own, b) =>
           DOMAIN v2[b] = Words /\ \A m \in Indirect : v2[b][m] \in Blocks
    BY <1>0, <1>1, <1>3, <1>4 DEF Shape
  <2> QED
    BY <2>1, <2>2, <2>3 DEF Shape
<1>6. ASSUME NEW q \in Files(own, D), NEW m \in Index
      PROVE  PtrV(v2, q, m) = PtrV(v, q, m)
  <2>0. FileV(v2, q).f_direct = FileV(v, q).f_direct /\ FileV(v2, q).f_indirect = FileV(v, q).f_indirect
    BY <1>2
  <2>1. CASE m = -1
    BY <2>0, <2>1 DEF PtrV
  <2>2. CASE m \in Direct
    BY <2>0, <2>2, PtrDirect
  <2>3. CASE m \in Indirect
    <3> DEFINE x == FileV(v, q).f_indirect
    <3>1. x # 0 => x \in Blocks /\ IsInd(own, x)
      BY <1>0, IndirectBlock
    <3> HIDE DEF x
    <3>2. x # 0 => v2[x] = v[x]
      BY <1>1, <1>3, <1>4, <3>1
    <3> QED
      BY <2>0, <2>3, <3>2, PtrIndirect DEF x
  <2> QED
    BY <2>1, <2>2, <2>3, IndexKinds
<1>7. Links(v2, own, D)
  BY <1>0, <1>6 DEF Links
<1>8. ASSUME NEW b \in Blocks, own[b] # NoOwner
      PROVE  own[b][1] \in Files(own, D) /\ own[b][2] \in Index
  <2>1. own[b] \in Owners /\ own[b][1] \in Files(own, D)
    BY <1>0, <1>8 DEF OwnOk
  <2> QED
    BY <2>1 DEF Owners
<1>9. Exact(v2, own)
  BY <1>0, <1>6, <1>8 DEF Exact, Linked
<1>10. Sized(v2, own, D)
  <2> SUFFICES ASSUME NEW b \in Blocks, own[b] # NoOwner, own[b][2] >= 0
               PROVE  Covered(D, own[b][1], own[b][2], FileV(v2, own[b][1]).f_size)
    BY DEF Sized, InSize
  <2>1. CASE own[b][1] = p
    BY <1>2, <2>1
  <2>2. CASE own[b][1] # p
    <3>1. Covered(D, own[b][1], own[b][2], FileV(v, own[b][1]).f_size)
      BY <1>0 DEF Sized, InSize
    <3> QED
      BY <1>2, <1>8, <2>2, <3>1
  <2> QED
    BY <2>1, <2>2
<1> QED
  BY <1>0, <1>5, <1>7, <1>9, <1>10 DEF Tree

(* The tree when blocks of data, and blocks without an owner, change. *)
LEMMA DataChanges ==
  ASSUME NEW v, NEW own, NEW D, Tree(v, own, D), NEW v2,
         \A b \in Blocks : HasFiles(own, D, b) \/ IsInd(own, b) => v2[b] = v[b]
  PROVE  Tree(v2, own, D)
<1>0. OwnOk(own, D) /\ Shape(v, own, D) /\ Links(v, own, D) /\ Exact(v, own) /\ Sized(v, own, D)
  BY DEF Tree
<1>1. ASSUME NEW q \in Files(own, D) PROVE FileV(v2, q) = FileV(v, q)
  <2>1. q[1] \in Blocks /\ HasFiles(own, D, q[1])
    BY <1>0, FileSlots
  <2> QED
    BY <2>1 DEF FileV
<1>2. Shape(v2, own, D)
  BY <1>0, <1>1 DEF Shape
<1>3. ASSUME NEW q \in Files(own, D), NEW m \in Index
      PROVE  PtrV(v2, q, m) = PtrV(v, q, m)
  <2>0. FileV(v2, q) = FileV(v, q)
    BY <1>1
  <2>1. FileV(v, q).f_indirect # 0 => v2[FileV(v, q).f_indirect] = v[FileV(v, q).f_indirect]
    BY <1>0, IndirectBlock
  <2> QED
    BY <2>0, <2>1 DEF PtrV
<1>4. Links(v2, own, D)
  BY <1>0, <1>3 DEF Links
<1>5. ASSUME NEW b \in Blocks, own[b] # NoOwner
      PROVE  own[b][1] \in Files(own, D) /\ own[b][2] \in Index
  <2>1. own[b] \in Owners /\ own[b][1] \in Files(own, D)
    BY <1>0, <1>5 DEF OwnOk
  <2> QED
    BY <2>1 DEF Owners
<1>6. Exact(v2, own)
  BY <1>0, <1>3, <1>5 DEF Exact, Linked
<1>7. Sized(v2, own, D)
  BY <1>0, <1>1, <1>5 DEF Sized, InSize
<1> QED
  BY <1>0, <1>2, <1>4, <1>6, <1>7 DEF Tree

(* An owner is a File, and one of its pointers. *)
LEMMA OwnerIs ==
  ASSUME NEW own, NEW D, OwnOk(own, D), NEW b \in Blocks, own[b] # NoOwner
  PROVE  /\ own[b][1] \in Files(own, D) /\ own[b][2] \in Index /\ own[b] = <<own[b][1], own[b][2]>>
         /\ b >= 3 /\ b # 0 /\ b # SUPER /\ b # BITMAP
<1>1. own[b] \in Owners /\ own[b][1] \in Files(own, D) /\ b >= 3
  BY DEF OwnOk
<1> QED
  BY <1>1, Consts DEF Owners

(* In a tree every block is right by itself. *)
LEMMA TreeBlocks ==
  ASSUME NEW v, NEW own, NEW D, Tree(v, own, D)
  PROVE  Struct(v, own, D)
<1>0. OwnOk(own, D) /\ Shape(v, own, D) /\ Links(v, own, D) /\ Exact(v, own) /\ Sized(v, own, D)
  BY DEF Tree
<1> SUFFICES ASSUME NEW b \in Blocks PROVE BlockOk(own, D, b, v[b])
  BY DEF Struct
<1>1. ASSUME HasFiles(own, D, b) PROVE FilesOk(own, D, b, v[b])
  <2>1. DOMAIN AsFiles(v[b]) = SlotsOf(b)
    BY <1>0, <1>1 DEF Shape
  <2> SUFFICES ASSUME NEW j \in SlotsOf(b) PROVE FileOk(own, D, <<b, j>>, AsFiles(v[b])[j])
    BY <2>1 DEF FilesOk
  <2> DEFINE p == <<b, j>>
             f == AsFiles(v[b])[j]
  <2>2. j \in 0..FILE2BLK
    BY Consts DEF SlotsOf
  <2>3. p \in Files(own, D) /\ FileV(v, p) = f
    BY <1>1, <2>2 DEF Files, Slots, FileV
  <2>4. FileShape(D, p, f)
    BY <1>0, <2>3 DEF Shape
  <2> HIDE DEF p, f
  <2>5. \A i \in Direct : f.f_direct[i] # 0 => own[f.f_direct[i]] = <<p, i>>
    <3> SUFFICES ASSUME NEW i \in Direct, f.f_direct[i] # 0 PROVE own[f.f_direct[i]] = <<p, i>>
      OBVIOUS
    <3>1. i \in Index /\ PtrV(v, p, i) = f.f_direct[i]
      BY <2>3, PtrDirect, Consts DEF Direct, Index, NINDIRECT
    <3> QED
      BY <1>0, <2>3, <3>1 DEF Links
  <2>6. f.f_indirect # 0 => own[f.f_indirect] = <<p, -1>>
    BY <1>0, <2>3, IndirectBlock
  <2>7. FileOk(own, D, p, f)
    BY <2>4, <2>5, <2>6 DEF FileOk
  <2> QED
    BY <2>7 DEF p, f
<1>2. ASSUME IsInd(own, b) PROVE IndOk(own, own[b][1], v[b])
  <2> DEFINE p == own[b][1]
  <2>1. own[b] # NoOwner /\ own[b][2] = -1
    BY <1>2 DEF IsInd
  <2>2. p \in Files(own, D)
    BY <1>0, <2>1, OwnerIs
  <2>3. FileV(v, p).f_indirect = b /\ b # 0
    BY <1>0, <2>1, OwnerIs DEF Exact, Linked, PtrV
  <2>4. DOMAIN v[b] = Words /\ \A n \in Indirect : v[b][n] \in Blocks
    BY <1>0, <1>2 DEF Shape
  <2>5. ASSUME NEW n \in Indirect, v[b][n] # 0 PROVE own[v[b][n]] = <<p, n>>
    <3>1. n \in Index /\ PtrV(v, p, n) = v[b][n]
      BY <2>3, PtrIndirect, Consts DEF Indirect, Index
    <3> QED
      BY <1>0, <2>2, <2>5, <3>1 DEF Links
  <2> QED
    BY <2>4, <2>5 DEF IndOk
<1> QED
  BY <1>1, <1>2 DEF BlockOk

(* Where every block is right by itself, a pointer leads to what it owns. *)
LEMMA StructLinks ==
  ASSUME NEW v, NEW own, NEW D, OwnOk(own, D), Struct(v, own, D)
  PROVE  Shape(v, own, D) /\ Links(v, own, D)
<1>1. ASSUME NEW p \in Files(own, D) PROVE FileOk(own, D, p, FileV(v, p))
  <2>1. p[1] \in Blocks /\ p[2] \in SlotsOf(p[1]) /\ HasFiles(own, D, p[1]) /\ p = <<p[1], p[2]>>
    BY FileSlots
  <2>2. FilesOk(own, D, p[1], v[p[1]])
    BY <2>1 DEF Struct, BlockOk
  <2>3. FileOk(own, D, <<p[1], p[2]>>, FileV(v, p))
    BY <2>1, <2>2 DEF FilesOk, FileV
  <2> QED
    BY <2>1, <2>3
<1>2. ASSUME NEW b \in Blocks, IsInd(own, b) PROVE IndOk(own, own[b][1], v[b])
  BY <1>2 DEF Struct, BlockOk
<1>3. Shape(v, own, D)
  <2>1. \A b \in Blocks : HasFiles(own, D, b) => DOMAIN AsFiles(v[b]) = SlotsOf(b)
    BY DEF Struct, BlockOk, FilesOk
  <2>2. \A p \in Files(own, D) : FileShape(D, p, FileV(v, p))
    BY <1>1 DEF FileOk
  <2>3. \A b \in Blocks : IsInd(own, b) =>
          DOMAIN v[b] = Words /\ \A n \in Indirect : v[b][n] \in Blocks
    BY <1>2 DEF IndOk
  <2> QED
    BY <2>1, <2>2, <2>3 DEF Shape
<1>4. Links(v, own, D)
  <2> SUFFICES ASSUME NEW p \in Files(own, D), NEW n \in Index, PtrV(v, p, n) # 0
               PROVE  own[PtrV(v, p, n)] = <<p, n>>
    BY DEF Links
  <2>1. FileOk(own, D, p, FileV(v, p))
    BY <1>1
  <2>2. CASE n = -1
    BY <2>1, <2>2 DEF PtrV, FileOk
  <2>3. CASE n \in Direct
    BY <2>1, <2>3, PtrDirect DEF FileOk
  <2>4. CASE n \in Indirect
    <3> DEFINE x == FileV(v, p).f_indirect
    <3>1. x # 0 /\ PtrV(v, p, n) = v[x][n]
      BY <2>4, PtrIndirect
    <3>2. x \in Blocks /\ own[x] = <<p, -1>> /\ p # NULL
      BY <2>1, <3>1, FileSlots DEF FileOk, FileShape, IsFile
    <3> HIDE DEF x
    <3>3. IsInd(own, x) /\ own[x][1] = p
      BY <3>2 DEF IsInd, NoOwner
    <3>4. IndOk(own, p, v[x])
      BY <1>2, <3>2, <3>3
    <3> QED
      BY <2>4, <3>1, <3>4 DEF IndOk
  <2> QED
    BY <2>2, <2>3, <2>4, IndexKinds
<1> QED
  BY <1>3, <1>4
----------------------------------------------------------------------------
(* Steps that change nothing of what a reader finds *)

Quiet(s, t, own, D, sh, fu) ==
  Good(t, own, D, sh, fu) /\ Seen(t) = Seen(s) /\ s.mapped \subseteq t.mapped

(* A page that is there is what a reader finds. *)
LEMMA SeenMapped ==
  ASSUME NEW s, NEW b \in Blocks
  PROVE  /\ b \in s.mapped => Seen(s)[b] = s.cache[b]
         /\ b \notin s.mapped => Seen(s)[b] = s.disk[b]
BY DEF Seen, At

(* The Files in the cache are those a reader finds (File). *)
LEMMA FileSeen ==
  ASSUME NEW s, NEW p, p[1] \in s.mapped, p[1] \in Blocks
  PROVE  File(s, p) = FileV(Seen(s), p)
BY SeenMapped DEF File, FileV

(* The invariant depends only on what a reader finds, on the bitmap in the   *)
(* cache, and on the disk.                                                   *)
LEMMA GoodSame ==
  ASSUME NEW s, NEW t, NEW own, NEW D, NEW sh, NEW fu, Good(s, own, D, sh, fu),
         Base(t), Seen(t) = Seen(s), t.cache[BITMAP] = s.cache[BITMAP],
         sh \/ DiskOk(t.disk, t.cache[BITMAP], t.dirty, own, D)
  PROVE  Good(t, own, D, sh, fu)
BY DEF Good

(* A block without a page is read (ide_read). *)
LEMMA ReadQuiet ==
  ASSUME NEW s, NEW own, NEW D, NEW sh, NEW fu, Good(s, own, D, sh, fu),
         NEW b \in Blocks, b \notin s.mapped
  PROVE  /\ Quiet(s, ide_read(s, b), own, D, sh, fu) /\ b \in ide_read(s, b).mapped
         /\ ide_read(s, b).dirty = s.dirty
<1> DEFINE t == ide_read(s, b)
<1>1. Base(s) /\ IsFs(s)
  BY DEF Good, Base
<1>2. /\ IsFs(t) /\ t.mapped = s.mapped \cup {b} /\ t.dirty = s.dirty /\ t.disk = s.disk
      /\ t.panic = s.panic /\ t.cache[b] = s.disk[b]
      /\ \A x \in Blocks : x # b => t.cache[x] = s.cache[x]
  <2> DEFINE u == [s EXCEPT !.cache[b] = s.disk[b]]
  <2>1. t = [u EXCEPT !.mapped = s.mapped \cup {b}]
    BY <1>1 DEF ide_read, IsFs
  <2>2. /\ IsFs(u) /\ u.mapped = s.mapped /\ u.dirty = s.dirty /\ u.disk = s.disk
        /\ u.panic = s.panic /\ u.cache = [s.cache EXCEPT ![b] = s.disk[b]]
    BY <1>1 DEF IsFs
  <2> HIDE DEF t, u
  <2>3. /\ IsFs(t) /\ t.mapped = s.mapped \cup {b} /\ t.dirty = u.dirty /\ t.disk = u.disk
        /\ t.panic = u.panic /\ t.cache = u.cache
    BY <2>1, <2>2 DEF IsFs
  <2> QED
    BY <1>1, <2>2, <2>3 DEF IsFs
<1> HIDE DEF t
<1>3. Base(t)
  BY <1>1, <1>2 DEF Base
<1>4. \A x \in Blocks : At(t, x) = At(s, x)
  BY <1>2 DEF At
<1>5. Seen(t) = Seen(s)
  BY <1>4 DEF Seen
<1>6. t.cache[BITMAP] = s.cache[BITMAP]
  BY <1>1, <1>2, Consts DEF Base
<1>7. Good(t, own, D, sh, fu)
  <2>1. sh \/ DiskOk(t.disk, t.cache[BITMAP], t.dirty, own, D)
    BY <1>2, <1>6 DEF Good
  <2> QED
    BY <1>3, <1>5, <1>6, <2>1, GoodSame
<1> QED
  BY <1>2, <1>5, <1>7 DEF Quiet, t

(* A block of a file that has a page is marked (dirty_block). *)
LEMMA DirtyQuiet ==
  ASSUME NEW s, NEW own, NEW D, NEW sh, NEW fu, Good(s, own, D, sh, fu),
         NEW b \in s.mapped, own[b] # NoOwner, own[b][2] >= 0
  PROVE  Quiet(s, [s EXCEPT !.dirty = @ \cup {b}], own, D, sh, fu)
<1> DEFINE t == [s EXCEPT !.dirty = @ \cup {b}]
<1>1. Base(s) /\ IsFs(s)
  BY DEF Good, Base
<1>2. /\ IsFs(t) /\ t.mapped = s.mapped /\ t.dirty = s.dirty \cup {b} /\ t.disk = s.disk
      /\ t.panic = s.panic /\ t.cache = s.cache
  BY <1>1 DEF IsFs
<1> HIDE DEF t
<1>3. Base(t)
  BY <1>1, <1>2 DEF Base
<1>4. Seen(t) = Seen(s)
  BY <1>2 DEF Seen, At
<1>5. sh \/ DiskOk(t.disk, t.cache[BITMAP], t.dirty, own, D)
  <2>1. sh \/ DiskOk(s.disk, s.cache[BITMAP], s.dirty, own, D)
    BY DEF Good
  <2> QED
    BY <1>2, <2>1 DEF DiskOk
<1>6. Good(t, own, D, sh, fu)
  BY <1>2, <1>3, <1>4, <1>5, GoodSame
<1> QED
  BY <1>2, <1>4, <1>6 DEF Quiet, t

(* The disk when a block of a file is written: the tree on the disk still    *)
(* leads to all directories, and no size is smaller than its file.           *)
LEMMA DiskWrite ==
  ASSUME NEW disk, NEW free, NEW dirty, NEW own, NEW D, DiskOk(disk, free, dirty, own, D),
         FreeOk(free, own), DOMAIN disk = Blocks,
         NEW v, Tree(v, own, D), NEW b \in Blocks, own[b] # NoOwner, own[b][2] >= 0
  PROVE  DiskOk([disk EXCEPT ![b] = v[b]], free, dirty, own, D)
<1> DEFINE disk2 == [disk EXCEPT ![b] = v[b]]
<1>0. OwnOk(own, D) /\ Exact(v, own) /\ Sized(v, own, D) /\ Shape(v, own, D) /\ Links(v, own, D)
  BY DEF Tree
<1>1. disk2[b] = v[b] /\ \A x \in Blocks : x # b => disk2[x] = disk[x]
  OBVIOUS
<1> HIDE DEF disk2
<1>2. b # 0 /\ b # SUPER /\ b # BITMAP /\ ~IsInd(own, b) /\ b \notin free
  <2>1. b # 0 /\ b # SUPER /\ b # BITMAP
    BY <1>0, OwnerIs
  <2>2. ~IsInd(own, b)
    BY <1>0, OwnerIs DEF IsInd, Index
  <2>3. b \notin free
    BY DEF FreeOk
  <2> QED
    BY <2>1, <2>2, <2>3
<1>3. disk2[BITMAP] \subseteq free /\ \A x \in free : disk2[x] = Zero
  <2>1. \A x \in free : x \in Blocks
    BY Consts DEF FreeOk, Blocks
  <2> QED
    BY <1>1, <1>2, <2>1, Consts DEF DiskOk
<1>4. Struct(disk2, own, D)
  BY <1>1, TreeBlocks DEF DiskOk, Struct
<1>5. Shape(disk, own, D) /\ Links(disk, own, D)
  BY <1>0, StructLinks DEF DiskOk
<1>6. ASSUME NEW q \in Files(own, D)
      PROVE  /\ q[1] = b => FileV(disk2, q) = FileV(v, q)
             /\ q[1] # b => FileV(disk2, q) = FileV(disk, q)
  <2>1. q[1] \in Blocks
    BY <1>0, FileSlots
  <2> QED
    BY <1>1, <2>1 DEF FileV
<1>7. ASSUME NEW q \in Files(own, D), NEW m \in Index, q[1] # b
      PROVE  PtrV(disk2, q, m) = PtrV(disk, q, m)
  <2>1. FileV(disk2, q) = FileV(disk, q)
    BY <1>6, <1>7
  <2>2. FileV(disk, q).f_indirect # 0 => disk2[FileV(disk, q).f_indirect] = disk[FileV(disk, q).f_indirect]
    <3>1. FileV(disk, q).f_indirect # 0 =>
            FileV(disk, q).f_indirect \in Blocks /\ IsInd(own, FileV(disk, q).f_indirect)
      BY <1>0, <1>5, IndirectBlock
    <3> QED
      BY <1>1, <1>2, <3>1
  <2> QED
    BY <2>1, <2>2 DEF PtrV
<1>8. ASSUME NEW x \in Blocks, own[x] # NoOwner, own[x][2] >= 0, Linked(disk2, own, x)
      PROVE  InSize(disk2, own, D, x)
  <2> DEFINE q == own[x][1]
  <2>1. q \in Files(own, D) /\ own[x][2] \in Index
    BY <1>0, <1>8, OwnerIs
  <2>2. CASE q[1] = b
    <3>1. FileV(disk2, q) = FileV(v, q)
      BY <1>6, <2>1, <2>2
    <3>2. InSize(v, own, D, x)
      BY <1>0, <1>8 DEF Sized
    <3> QED
      BY <3>1, <3>2 DEF InSize
  <2>3. CASE q[1] # b
    <3>1. FileV(disk2, q) = FileV(disk, q)
      BY <1>6, <2>1, <2>3
    <3>2. Linked(disk, own, x)
      BY <1>7, <1>8, <2>1, <2>3 DEF Linked
    <3>3. InSize(disk, own, D, x)
      BY <1>8, <3>2 DEF DiskOk
    <3> QED
      BY <3>1, <3>3 DEF InSize
  <2> QED
    BY <2>2, <2>3
<1>9. ASSUME NEW p \in D \ {Root} PROVE Linked(disk2, own, p[1])
  <2> DEFINE x == p[1]
             q == own[x][1]
             m == own[x][2]
  <2>1. p \in Files(own, D)
    BY <1>0 DEF OwnOk
  <2>2. x \in Blocks /\ HasFiles(own, D, x) /\ p = <<x, p[2]>> /\ p[2] \in SlotsOf(x)
    BY <1>0, <2>1, FileSlots
  <2>3. x # SUPER
    BY <2>2 DEF Root, SlotsOf
  <2>4. own[x] # NoOwner /\ m >= 0 /\ q \in D
    <3>1. q \in D /\ m >= 0
      BY <2>2, <2>3 DEF HasFiles, IsDirBlk
    <3> QED
      BY <1>0, <3>1, Unowned DEF NoOwner
  <2>5. q \in Files(own, D) /\ m \in Index /\ x # 0
    BY <1>0, <2>2, <2>4, OwnerIs
  <2>6. PtrV(disk, q, m) = x
    BY DEF DiskOk, Linked
  <2>7. PtrV(v, q, m) = x
    BY <1>0, <2>2, <2>4 DEF Exact, Linked
  <2> HIDE DEF x, q, m
  <2>8. CASE q[1] # b
    BY <1>7, <2>5, <2>6, <2>8 DEF Linked, x, q, m
  <2>9. CASE q[1] = b
    <3>1. FileV(disk2, q) = FileV(v, q)
      BY <1>6, <2>5, <2>9
    <3>2. CASE m \in Direct
      BY <2>7, <3>1, <3>2, PtrDirect DEF Linked, x, q, m
    <3>3. CASE m \in Indirect
      <4> DEFINE y == FileV(disk, q).f_indirect
      <4>1. y # 0 /\ disk[y][m] = x
        BY <2>5, <2>6, <3>3, PtrIndirect
      <4>2. y \in Blocks /\ IsInd(own, y) /\ own[y] = <<q, -1>>
        BY <1>0, <1>5, <2>5, <4>1, IndirectBlock
      <4> HIDE DEF y
      <4>3. FileV(v, q).f_indirect = y
        <5>1. PtrV(v, q, -1) = y
          BY <1>0, <4>2 DEF Exact, Linked, IsInd
        <5> QED
          BY <5>1 DEF PtrV
      <4>4. disk2[y] = disk[y]
        BY <1>1, <1>2, <4>2
      <4>5. PtrV(disk2, q, m) = x
        BY <3>1, <3>3, <4>1, <4>3, <4>4, PtrIndirect
      <4> QED
        BY <4>5 DEF Linked, x, q, m
    <3>4. m # -1
      BY <2>4
    <3> QED
      BY <2>5, <3>2, <3>3, <3>4, IndexKinds
  <2> QED
    BY <2>8, <2>9
<1>10. \A x \in dirty : own[x] # NoOwner /\ own[x][2] >= 0
  BY DEF DiskOk
<1>11. DiskOk(disk2, free, dirty, own, D)
  BY <1>3, <1>4, <1>8, <1>9, <1>10 DEF DiskOk
<1> QED
  BY <1>11 DEF disk2

(* A block with a page is written: one of a file, unless the machine must    *)
(* not stop any more (write_block).                                          *)
LEMMA WriteQuiet ==
  ASSUME NEW s, NEW own, NEW D, NEW sh, NEW fu, Good(s, own, D, sh, fu),
         NEW b \in s.mapped, sh \/ (own[b] # NoOwner /\ own[b][2] >= 0)
  PROVE  Quiet(s, write_block(s, b), own, D, sh, fu) /\ write_block(s, b).dirty = s.dirty
         /\ write_block(s, b).mapped = s.mapped
<1> DEFINE t == write_block(s, b)
<1>1. Base(s) /\ IsFs(s) /\ b \in Blocks
  BY DEF Good, Base
<1>2. /\ IsFs(t) /\ t.mapped = s.mapped /\ t.dirty = s.dirty /\ t.cache = s.cache
      /\ t.panic = s.panic /\ t.disk = [s.disk EXCEPT ![b] = s.cache[b]]
  BY <1>1 DEF write_block, ide_write, IsFs
<1> HIDE DEF t
<1>3. t.disk[BITMAP] \subseteq Blocks
  <2>1. s.cache[BITMAP] \subseteq Blocks
    BY Consts DEF Good, FreeOk, Blocks
  <2> QED
    BY <1>1, <1>2, <2>1, Consts DEF Base, IsFs
<1>4. Base(t)
  BY <1>1, <1>2, <1>3 DEF Base
<1>5. \A x \in Blocks : At(t, x) = At(s, x)
  <2>1. \A x \in Blocks : x # b => t.disk[x] = s.disk[x]
    BY <1>1, <1>2 DEF IsFs
  <2> QED
    BY <1>2, <2>1 DEF At
<1>6. Seen(t) = Seen(s)
  BY <1>5 DEF Seen
<1>7. sh \/ DiskOk(t.disk, t.cache[BITMAP], t.dirty, own, D)
  <2>1. CASE ~sh
    <3>1. DiskOk(s.disk, s.cache[BITMAP], s.dirty, own, D) /\ FreeOk(s.cache[BITMAP], own)
          /\ Tree(Seen(s), own, D) /\ DOMAIN s.disk = Blocks
      BY <1>1, <2>1 DEF Good, IsFs
    <3>2. Seen(s)[b] = s.cache[b]
      BY <1>1, SeenMapped
    <3>3. DiskOk([s.disk EXCEPT ![b] = Seen(s)[b]], s.cache[BITMAP], s.dirty, own, D)
      BY <1>1, <2>1, <3>1, DiskWrite
    <3> QED
      BY <1>2, <3>2, <3>3
  <2> QED
    BY <2>1
<1>8. Good(t, own, D, sh, fu)
  BY <1>2, <1>4, <1>6, <1>7, GoodSame
<1> QED
  BY <1>2, <1>6, <1>8 DEF Quiet, t

(* Quiet steps follow each other. *)
LEMMA QuietTrans ==
  ASSUME NEW s, NEW t, NEW u, NEW own, NEW D, NEW sh, NEW fu,
         Quiet(s, t, own, D, sh, fu), Quiet(t, u, own, D, sh, fu)
  PROVE  Quiet(s, u, own, D, sh, fu)
BY DEF Quiet
----------------------------------------------------------------------------
(* How far a step may go: it keeps the pages, the blocks of directories, and *)
(* in the Files it can only set f_dir to a directory that has its page.      *)

Grows(s, own, t, own2, D) ==
  /\ s.mapped \subseteq t.mapped
  /\ \A b \in Blocks : own[b] # NoOwner /\ own[b][1] \in D => own2[b] = own[b]
  /\ \A p \in Files(own, D) : p[1] \in s.mapped =>
       File(t, p).f_dir = File(s, p).f_dir \/ File(t, p).f_dir[1] \in t.mapped

(* No File is lost. *)
LEMMA GrowsFiles ==
  ASSUME NEW s, NEW own, NEW t, NEW own2, NEW D, OwnOk(own, D), Grows(s, own, t, own2, D)
  PROVE  Files(own, D) \subseteq Files(own2, D)
<1> SUFFICES ASSUME NEW p \in Files(own, D) PROVE p \in Files(own2, D)
  OBVIOUS
<1>1. p \in Slots /\ p[1] \in Blocks /\ HasFiles(own, D, p[1]) /\ p[2] \in SlotsOf(p[1])
  BY FileSlots
<1>2. NULL \notin D
  BY Unowned
<1>3. HasFiles(own2, D, p[1])
  BY <1>1, <1>2 DEF HasFiles, IsDirBlk, Grows, NoOwner
<1> QED
  BY <1>1, <1>3 DEF Files

(* Such steps follow each other. *)
LEMMA GrowsTrans ==
  ASSUME NEW s, NEW own, NEW t, NEW own2, NEW u, NEW own3, NEW D, OwnOk(own, D),
         Grows(s, own, t, own2, D), Grows(t, own2, u, own3, D)
  PROVE  Grows(s, own, u, own3, D)
<1>1. Files(own, D) \subseteq Files(own2, D)
  BY GrowsFiles
<1> QED
  BY <1>1 DEF Grows

(* A File that a caller may use stays one. *)
LEMMA GrowsUsable ==
  ASSUME NEW s, NEW own, NEW t, NEW own2, NEW D, OwnOk(own, D), Grows(s, own, t, own2, D),
         NEW p, Usable(s, own, D, p)
  PROVE  Usable(t, own2, D, p)
BY GrowsFiles DEF Grows, Usable

(* The directories stay where they are. *)
LEMMA GrowsDepth ==
  ASSUME NEW s, NEW own, NEW t, NEW own2, NEW D, OwnOk(own, D), Grows(s, own, t, own2, D),
         NEW dep, DepthOk(own, D, dep)
  PROVE  DepthOk(own2, D, dep)
<1>1. ASSUME NEW p \in D \ {Root} PROVE own2[p[1]] = own[p[1]]
  <2>1. p \in Files(own, D)
    BY DEF OwnOk
  <2>2. p[1] \in Blocks /\ HasFiles(own, D, p[1]) /\ p = <<p[1], p[2]>> /\ p[2] \in SlotsOf(p[1])
    BY <2>1, FileSlots
  <2>3. p[1] # SUPER
    BY <2>2 DEF Root, SlotsOf
  <2>4. own[p[1]] # NoOwner /\ own[p[1]][1] \in D
    BY <2>2, <2>3, Unowned DEF HasFiles, IsDirBlk, NoOwner
  <2> QED
    BY <2>2, <2>4 DEF Grows
<1> QED
  BY <1>1 DEF DepthOk

(* Quiet steps are such steps. *)
LEMMA QuietGrows ==
  ASSUME NEW s, NEW t, NEW own, NEW D, NEW sh, NEW fu, OwnOk(own, D), s.mapped \subseteq Blocks,
         Quiet(s, t, own, D, sh, fu)
  PROVE  Grows(s, own, t, own, D)
<1>1. ASSUME NEW p \in Files(own, D), p[1] \in s.mapped PROVE File(t, p) = File(s, p)
  <2>1. File(s, p) = FileV(Seen(s), p) /\ File(t, p) = FileV(Seen(t), p)
    BY <1>1, FileSeen DEF Quiet
  <2> QED
    BY <2>1 DEF Quiet
<1> QED
  BY <1>1 DEF Grows, Quiet

(* A step that leaves everything as it is. *)
LEMMA GrowsRefl ==
  ASSUME NEW s, NEW own, NEW D
  PROVE  Grows(s, own, s, own, D)
BY DEF Grows

----------------------------------------------------------------------------
(* Changes of Files in the cache *)

(* SetFile changes one page. *)
LEMMA SetFileIs ==
  ASSUME NEW s, IsFs(s), NEW p, p[1] \in Blocks, NEW f
  PROVE  LET t == SetFile(s, p, f)
         IN  /\ IsFs(t)
             /\ t.cache[p[1]] = [AsFiles(s.cache[p[1]]) EXCEPT ![p[2]] = f]
             /\ \A x \in Blocks : x # p[1] => t.cache[x] = s.cache[x]
             /\ t.mapped = s.mapped /\ t.dirty = s.dirty /\ t.disk = s.disk /\ t.panic = s.panic
BY DEF IsFs, SetFile

(* What a reader then finds. *)
LEMMA SetFileSeen ==
  ASSUME NEW s, Base(s), NEW p, p[1] \in s.mapped, p[1] # BITMAP, NEW f, NEW r
  PROVE  LET t == SetFile(s, p, f)
         IN  /\ Base(t) /\ FilePut(Seen(s), Seen(t), p, f, r) /\ t.cache[BITMAP] = s.cache[BITMAP]
             /\ t.mapped = s.mapped /\ t.dirty = s.dirty /\ t.disk = s.disk
             /\ \A x \in Blocks : x # p[1] => Seen(t)[x] = Seen(s)[x]
<1> DEFINE t == SetFile(s, p, f)
<1>1. IsFs(s) /\ p[1] \in Blocks
  BY DEF Base
<1>2. /\ IsFs(t)
      /\ t.cache[p[1]] = [AsFiles(s.cache[p[1]]) EXCEPT ![p[2]] = f]
      /\ \A x \in Blocks : x # p[1] => t.cache[x] = s.cache[x]
      /\ t.mapped = s.mapped /\ t.dirty = s.dirty /\ t.disk = s.disk /\ t.panic = s.panic
  BY <1>1, SetFileIs
<1> HIDE DEF t
<1>3. Base(t) /\ t.cache[BITMAP] = s.cache[BITMAP]
  BY <1>2, Consts DEF Base
<1>4. \A x \in Blocks : x # p[1] => At(t, x) = At(s, x)
  BY <1>2 DEF At
<1>5. \A x \in Blocks : x # p[1] => Seen(t)[x] = Seen(s)[x]
  BY <1>4 DEF Seen
<1>6. Seen(t)[p[1]] = t.cache[p[1]] /\ Seen(s)[p[1]] = s.cache[p[1]]
  BY <1>1, <1>2, SeenMapped
<1>7. FilePut(Seen(s), Seen(t), p, f, r)
  BY <1>2, <1>5, <1>6 DEF FilePut
<1> QED
  BY <1>2, <1>3, <1>5, <1>7 DEF t

(* A File changes and its pointers do not: name, size and directory. *)
LEMMA FileGood ==
  ASSUME NEW s, NEW own, NEW D, NEW sh, NEW fu, Good(s, own, D, sh, fu),
         NEW p \in Files(own, D), p[1] \in s.mapped,
         NEW f, FileShape(D, p, f),
         f.f_direct = File(s, p).f_direct, f.f_indirect = File(s, p).f_indirect,
         \A b \in Blocks : own[b] # NoOwner /\ own[b][2] >= 0 /\ own[b][1] = p
           => Covered(D, p, own[b][2], f.f_size)
  PROVE  LET t == SetFile(s, p, f)
         IN  /\ Good(t, own, D, sh, fu) /\ t.mapped = s.mapped
             /\ File(t, p) = f
             /\ FileV(Seen(t), p) = f
             /\ \A q \in Files(own, D) : q # p => FileV(Seen(t), q) = FileV(Seen(s), q)
             /\ f.f_dir = File(s, p).f_dir \/ f.f_dir[1] \in s.mapped => Grows(s, own, t, own, D)
<1> DEFINE t == SetFile(s, p, f)
<1>1. Base(s) /\ Tree(Seen(s), own, D) /\ OwnOk(own, D) /\ Shape(Seen(s), own, D)
  BY DEF Good, Tree
<1>2. p[1] # BITMAP /\ p[1] \in Blocks
  BY <1>1, FileSlots
<1>3. /\ Base(t) /\ FilePut(Seen(s), Seen(t), p, f, 0) /\ t.cache[BITMAP] = s.cache[BITMAP]
      /\ t.mapped = s.mapped /\ t.dirty = s.dirty /\ t.disk = s.disk
  BY <1>1, <1>2, SetFileSeen
<1> HIDE DEF t
<1>4. File(s, p) = FileV(Seen(s), p)
  BY <1>2, FileSeen
<1>5. Tree(Seen(t), own, D)
  BY <1>1, <1>3, <1>4, FileChanges
<1>6. Good(t, own, D, sh, fu)
  BY <1>3, <1>5 DEF Good
<1>7. ~HasFiles(own, D, 0)
  BY <1>1, Consts, Unowned
<1>8. FileV(Seen(t), p) = f /\ \A q \in Files(own, D) : q # p => FileV(Seen(t), q) = FileV(Seen(s), q)
  BY <1>1, <1>3, <1>7, OthersStay
<1>9. ASSUME NEW q \in Files(own, D), q[1] \in s.mapped
      PROVE  File(t, q) = FileV(Seen(t), q) /\ File(s, q) = FileV(Seen(s), q)
  BY <1>1, <1>3, <1>9, FileSeen DEF Base
<1>10. f.f_dir = File(s, p).f_dir \/ f.f_dir[1] \in s.mapped => Grows(s, own, t, own, D)
  BY <1>3, <1>8, <1>9 DEF Grows
<1> QED
  BY <1>3, <1>6, <1>8, <1>9, <1>10 DEF t
----------------------------------------------------------------------------
(* A block gets an owner *)

(* The tree grows, and sizes and directories of the Files are as they were. *)
Widens(s, own, t, own2, D) ==
  /\ s.mapped \subseteq t.mapped
  /\ \A b \in Blocks : own[b] # NoOwner => own2[b] = own[b]
  /\ \A p \in Files(own, D) : /\ FileV(Seen(t), p).f_size = FileV(Seen(s), p).f_size
                              /\ FileV(Seen(t), p).f_dir = FileV(Seen(s), p).f_dir

(* This is one way to grow. *)
LEMMA WidensGrows ==
  ASSUME NEW s, NEW own, NEW t, NEW own2, NEW D, OwnOk(own, D), s.mapped \subseteq Blocks,
         Widens(s, own, t, own2, D)
  PROVE  Grows(s, own, t, own2, D)
<1>1. ASSUME NEW p \in Files(own, D), p[1] \in s.mapped PROVE File(t, p).f_dir = File(s, p).f_dir
  <2>1. File(s, p) = FileV(Seen(s), p) /\ File(t, p) = FileV(Seen(t), p)
    BY <1>1, FileSeen DEF Widens
  <2> QED
    BY <2>1 DEF Widens
<1> QED
  BY <1>1 DEF Grows, Widens

(* Such steps follow each other. *)
LEMMA WidensTrans ==
  ASSUME NEW s, NEW own, NEW t, NEW own2, NEW u, NEW own3, NEW D, OwnOk(own, D),
         s.mapped \subseteq Blocks, Widens(s, own, t, own2, D), Widens(t, own2, u, own3, D)
  PROVE  Widens(s, own, u, own3, D)
<1>1. Files(own, D) \subseteq Files(own2, D)
  BY GrowsFiles, WidensGrows
<1> QED
  BY <1>1 DEF Widens

(* Quiet steps are such steps. *)
LEMMA QuietWidens ==
  ASSUME NEW s, NEW t, NEW own, NEW D, NEW sh, NEW fu, Quiet(s, t, own, D, sh, fu)
  PROVE  Widens(s, own, t, own, D)
BY DEF Quiet, Widens

(* The state after alloc_block: block r is taken and belongs to nothing yet. *)
Took(s, own, D, sh, fu, r) ==
  /\ Good(s, own, D, sh, FALSE)
  /\ r \in s.mapped /\ r \in 3..(NBLOCK - 1) /\ own[r] = NoOwner /\ r \notin s.cache[BITMAP]
  /\ sh \/ s.disk[r] = Zero
  /\ fu => Full(s.cache[BITMAP] \cup {r}, own)

(* NewOwn when a block gets its owner. *)
LEMMA NewOwnLink ==
  ASSUME NEW own, NEW p, NEW n, NEW r \in 3..(NBLOCK - 1)
  PROVE  /\ NewOwn(own, p, n, 0, r)[r] = <<p, n>>
         /\ \A b \in Blocks : b # r => NewOwn(own, p, n, 0, r)[b] = own[b]
BY Consts DEF NewOwn, Blocks

(* The disk does not lead to the new block yet, which is zero there. *)
LEMMA DiskLink ==
  ASSUME NEW disk, NEW free, NEW dirty, NEW own, NEW D, DiskOk(disk, free, dirty, own, D),
         OwnOk(own, D), NEW p \in Files(own, D), NEW n \in Index,
         NEW r \in 3..(NBLOCK - 1), own[r] = NoOwner, disk[r] = Zero, dirty \subseteq Blocks
  PROVE  DiskOk(disk, free, dirty, NewOwn(own, p, n, 0, r), D)
<1> DEFINE own2 == NewOwn(own, p, n, 0, r)
<1>1. own2[r] = <<p, n>> /\ \A b \in Blocks : b # r => own2[b] = own[b]
  BY NewOwnLink
<1> HIDE DEF own2
<1>2. r \in Blocks /\ r # SUPER /\ r # 0 /\ r # BITMAP
  BY Consts DEF Blocks
<1>3. ~HasFiles(own, D, r) /\ ~IsInd(own, r) /\ NULL \notin D
  BY <1>2, Unowned
<1>4. Struct(disk, own, D) /\ Shape(disk, own, D) /\ Links(disk, own, D)
  BY StructLinks DEF DiskOk
<1>5. \A x \in Blocks : \A q, m : q # NULL /\ own[x] = <<q, m>> => own2[x] = <<q, m>>
  BY <1>1 DEF NoOwner
<1>6. ASSUME NEW q, q # NULL, NEW f, FileOk(own, D, q, f) PROVE FileOk(own2, D, q, f)
  <2>1. f.f_direct \in [Direct -> Blocks] /\ f.f_indirect \in Blocks
    BY <1>6 DEF FileOk, FileShape, IsFile
  <2>2. ASSUME NEW i \in Direct, f.f_direct[i] # 0 PROVE own2[f.f_direct[i]] = <<q, i>>
    <3>1. f.f_direct[i] \in Blocks
      BY <2>1
    <3>2. own[f.f_direct[i]] = <<q, i>>
      BY <1>6, <2>2 DEF FileOk
    <3> QED
      BY <1>5, <1>6, <3>1, <3>2
  <2>3. f.f_indirect # 0 => own2[f.f_indirect] = <<q, -1>>
    BY <1>5, <1>6, <2>1 DEF FileOk
  <2> QED
    BY <1>6, <2>2, <2>3 DEF FileOk
<1>7. ASSUME NEW b \in Blocks, b # r PROVE BlockOk(own2, D, b, disk[b])
  <2>1. BlockOk(own, D, b, disk[b]) /\ own2[b] = own[b]
    BY <1>1, <1>4, <1>7 DEF Struct
  <2>2. ASSUME HasFiles(own2, D, b) PROVE FilesOk(own2, D, b, disk[b])
    <3>1. HasFiles(own, D, b)
      BY <2>1, <2>2 DEF HasFiles, IsDirBlk
    <3>2. b # 0
      BY <3>1, Consts, Unowned
    <3>3. FilesOk(own, D, b, disk[b])
      BY <2>1, <3>1 DEF BlockOk
    <3>4. \A j : <<b, j>> # NULL
      BY <3>2 DEF NULL
    <3> QED
      BY <1>6, <3>3, <3>4 DEF FilesOk
  <2>3. ASSUME IsInd(own2, b) PROVE IndOk(own2, own2[b][1], disk[b])
    <3>1. IsInd(own, b)
      BY <2>1, <2>3 DEF IsInd
    <3>2. IndOk(own, own[b][1], disk[b])
      BY <2>1, <3>1 DEF BlockOk
    <3>3. own[b][1] \in Files(own, D)
      BY <3>1, OwnerIs DEF IsInd
    <3>4. own[b][1] # NULL
      BY <3>3, FileSlots
    <3> QED
      BY <1>5, <2>1, <3>2, <3>4 DEF IndOk
  <2> QED
    BY <2>2, <2>3 DEF BlockOk
<1>8. BlockOk(own2, D, r, disk[r])
  <2>1. ASSUME NEW j \in SlotsOf(r) PROVE FileOk(own2, D, <<r, j>>, NoFile)
    <3>1. <<r, j>> \notin D /\ <<r, j>> # Root
      BY <1>2, <1>3 DEF OwnOk, Files, Root
    <3> QED
      BY <3>1, NoFileIsFile DEF FileOk, FileShape
  <2>2. FilesOk(own2, D, r, Zero)
    BY <1>2, <2>1, ZeroFiles DEF FilesOk
  <2>3. IndOk(own2, own2[r][1], Zero)
    BY Consts DEF IndOk, Zero, Words, Indirect, NINDIRECT
  <2> QED
    BY <2>2, <2>3 DEF BlockOk
<1>9. Struct(disk, own2, D)
  BY <1>7, <1>8 DEF Struct
<1>10. ASSUME NEW b \in Blocks, own2[b] # NoOwner, own2[b][2] >= 0, Linked(disk, own2, b)
       PROVE  InSize(disk, own2, D, b)
  <2>1. CASE b = r
    <3>1. PtrV(disk, p, n) = r
      BY <1>1, <1>10, <2>1 DEF Linked
    <3>2. own[r] = <<p, n>>
      BY <1>2, <1>4, <3>1 DEF Links
    <3>3. p # NULL
      BY FileSlots
    <3> QED
      BY <3>2, <3>3 DEF NoOwner
  <2>2. CASE b # r
    BY <1>1, <1>10, <2>2 DEF DiskOk, Linked, InSize
  <2> QED
    BY <2>1, <2>2
<1>11. ASSUME NEW q \in D \ {Root} PROVE Linked(disk, own2, q[1])
  <2>1. q \in Files(own, D)
    BY DEF OwnOk
  <2>2. q[1] # r /\ q[1] \in Blocks
    BY <1>3, <2>1, FileSlots
  <2> QED
    BY <1>1, <2>2 DEF DiskOk, Linked
<1>12. ASSUME NEW b \in dirty PROVE own2[b] # NoOwner /\ own2[b][2] >= 0
  <2>1. own[b] # NoOwner /\ own[b][2] >= 0
    BY DEF DiskOk
  <2>2. own2[b] = own[b]
    BY <1>1, <2>1
  <2> QED
    BY <2>1, <2>2
<1>13. DiskOk(disk, free, dirty, own2, D)
  BY <1>9, <1>10, <1>11, <1>12 DEF DiskOk
<1> QED
  BY <1>13 DEF own2

(* The invariant when the new block is in the tree. *)
LEMMA LinkGood ==
  ASSUME NEW s, NEW own, NEW D, NEW sh, NEW fu, NEW r, Took(s, own, D, sh, fu, r),
         NEW p \in Files(own, D), NEW n \in Index,
         NEW u, Base(u), Tree(Seen(u), NewOwn(own, p, n, 0, r), D),
         u.cache[BITMAP] = s.cache[BITMAP], u.disk = s.disk, u.dirty = s.dirty
  PROVE  Good(u, NewOwn(own, p, n, 0, r), D, sh, fu)
<1> DEFINE own2 == NewOwn(own, p, n, 0, r)
           free == s.cache[BITMAP]
<1>1. Good(s, own, D, sh, FALSE) /\ r \in 3..(NBLOCK - 1) /\ own[r] = NoOwner /\ r \notin free
      /\ (sh \/ s.disk[r] = Zero) /\ (fu => Full(free \cup {r}, own))
  BY DEF Took
<1>2. OwnOk(own, D) /\ FreeOk(free, own) /\ s.dirty \subseteq Blocks
  BY <1>1 DEF Good, Tree, Base
<1>3. own2[r] = <<p, n>> /\ \A b \in Blocks : b # r => own2[b] = own[b]
  BY <1>1, NewOwnLink
<1>4. p # NULL /\ <<p, n>> # NoOwner
  BY <1>2, FileSlots DEF NoOwner
<1>5. sh \/ DiskOk(s.disk, free, s.dirty, own2, D)
  BY <1>1, <1>2, DiskLink DEF Good
<1> HIDE DEF own2, free
<1>6. \A b \in 3..(NBLOCK - 1) : b \in Blocks
  BY DEF Blocks
<1>7. FreeOk(free, own2)
  BY <1>1, <1>2, <1>3, <1>6 DEF FreeOk
<1>8. fu => Full(free, own2)
  BY <1>1, <1>3, <1>4, <1>6 DEF Full
<1> QED
  BY <1>5, <1>7, <1>8 DEF Good, own2, free

(* What is asked of the File that gets block r. *)
LEMMA TookPoints ==
  ASSUME NEW s, NEW own, NEW D, NEW sh, NEW fu, NEW r, Took(s, own, D, sh, fu, r),
         NEW p \in Files(own, D), p[1] \in s.mapped, NEW n \in Index, PtrV(Seen(s), p, n) = 0,
         n >= 0 => Covered(D, p, n, File(s, p).f_size)
  PROVE  /\ MayPoint(Seen(s), own, D, p, n, r) /\ Base(s) /\ OwnOk(own, D)
         /\ File(s, p) = FileV(Seen(s), p) /\ p[1] \in Blocks /\ p[1] # BITMAP /\ r # p[1] /\ r # 0
         /\ r \in Blocks /\ r \in s.mapped /\ r # BITMAP /\ ~HasFiles(own, D, r) /\ ~IsInd(own, r)
         /\ Shape(Seen(s), own, D) /\ Links(Seen(s), own, D) /\ r \in 3..(NBLOCK - 1)
<1>1. /\ Base(s) /\ Tree(Seen(s), own, D) /\ OwnOk(own, D) /\ Shape(Seen(s), own, D)
      /\ Links(Seen(s), own, D)
  BY DEF Took, Good, Tree
<1>2. r \in 3..(NBLOCK - 1) /\ r \in s.mapped /\ own[r] = NoOwner
  BY DEF Took
<1>3. r \in Blocks /\ r >= 3 /\ r # 0 /\ r # SUPER /\ r # BITMAP
  BY <1>2, Consts DEF Blocks
<1>4. ~HasFiles(own, D, r) /\ ~IsInd(own, r)
  BY <1>1, <1>2, <1>3, Unowned
<1>5. p[1] \in Blocks /\ p[1] # BITMAP /\ HasFiles(own, D, p[1])
  BY <1>1, FileSlots
<1>6. File(s, p) = FileV(Seen(s), p)
  BY <1>5, FileSeen
<1>7. MayPoint(Seen(s), own, D, p, n, r)
  BY <1>1, <1>2, <1>3, <1>6 DEF MayPoint
<1> QED
  BY <1>1, <1>2, <1>3, <1>4, <1>5, <1>6, <1>7

(* The File gets the block (SetPtr, file_block_walk): the pointer is in the  *)
(* File itself.                                                              *)
LEMMA LinkFile ==
  ASSUME NEW s, NEW own, NEW D, NEW sh, NEW fu, NEW r, Took(s, own, D, sh, fu, r),
         NEW p \in Files(own, D), p[1] \in s.mapped, NEW n \in Direct \cup {-1},
         n # -1 => File(s, p).f_direct[n] = 0 /\ Covered(D, p, n, File(s, p).f_size),
         n = -1 => File(s, p).f_indirect = 0,
         p \in D \/ n = -1 => s.cache[r] = Zero,
         NEW f, n # -1 => f = [File(s, p) EXCEPT !.f_direct[n] = r],
         n = -1 => f = [File(s, p) EXCEPT !.f_indirect = r]
  PROVE  LET u    == SetFile(s, p, f)
             own2 == NewOwn(own, p, n, 0, r)
         IN  Good(u, own2, D, sh, fu) /\ Widens(s, own, u, own2, D) /\ u.mapped = s.mapped
             /\ own2[r] = <<p, n>> /\ File(u, p) = f /\ u.panic = s.panic
<1> DEFINE u    == SetFile(s, p, f)
           own2 == NewOwn(own, p, n, 0, r)
           v    == Seen(s)
<1>1. n \in Index /\ (n # -1 => n \in Direct /\ n >= 0)
  BY Consts DEF Direct, Index, NINDIRECT
<1>2. /\ Base(s) /\ OwnOk(own, D) /\ Shape(v, own, D)
      /\ File(s, p) = FileV(v, p) /\ p[1] \in Blocks /\ p[1] # BITMAP
  <2>1. Base(s) /\ OwnOk(own, D) /\ Shape(v, own, D)
    BY DEF Took, Good, Tree
  <2>2. p[1] \in Blocks /\ p[1] # BITMAP
    BY <2>1, FileSlots
  <2> QED
    BY <2>1, <2>2, FileSeen
<1>3. PtrV(v, p, n) = 0
  <2>1. CASE n = -1
    BY <1>2, <2>1 DEF PtrV
  <2>2. CASE n # -1
    BY <1>1, <1>2, <2>2, PtrDirect
  <2> QED
    BY <2>1, <2>2
<1>4. n >= 0 => Covered(D, p, n, File(s, p).f_size)
  BY <1>1
<1>5. /\ MayPoint(v, own, D, p, n, r) /\ r # p[1] /\ r # 0 /\ r \in Blocks /\ r \in s.mapped
      /\ ~HasFiles(own, D, r) /\ r \in 3..(NBLOCK - 1)
  BY <1>1, <1>3, <1>4, TookPoints
<1>6. /\ Base(u) /\ FilePut(v, Seen(u), p, f, r) /\ u.cache[BITMAP] = s.cache[BITMAP]
      /\ u.mapped = s.mapped /\ u.dirty = s.dirty /\ u.disk = s.disk
      /\ \A x \in Blocks : x # p[1] => Seen(u)[x] = v[x]
  BY <1>2, SetFileSeen
<1>7. Seen(u)[r] = s.cache[r]
  BY <1>5, <1>6, SeenMapped
<1>8. FileV(Seen(u), p) = f /\ \A q \in Files(own, D) : q # p => FileV(Seen(u), q) = FileV(v, q)
  BY <1>2, <1>5, <1>6, OthersStay
<1> HIDE DEF u
<1>9. Tree(Seen(u), own2, D)
  <2>1. CASE n = -1
    <3>1. \A m \in Indirect : PtrV(v, p, m) = 0
      BY <1>2, <2>1, PtrIndirect
    <3>2. Tree(Seen(u), NewOwn(own, p, -1, PtrV(v, p, -1), r), D)
      BY <1>2, <1>5, <1>6, <1>7, <2>1, <3>1, IndirectChanges
    <3> QED
      BY <1>3, <2>1, <3>2
  <2>2. CASE n # -1
    <3>1. Tree(Seen(u), NewOwn(own, p, n, PtrV(v, p, n), r), D)
      BY <1>1, <1>2, <1>5, <1>6, <1>7, <2>2, DirectChanges
    <3> QED
      BY <1>3, <3>1
  <2> QED
    BY <2>1, <2>2
<1>10. Good(u, own2, D, sh, fu)
  BY <1>1, <1>6, <1>9, LinkGood
<1>11. IsFile(FileV(v, p))
  BY <1>2 DEF Shape, FileShape
<1>12. f.f_size = FileV(v, p).f_size /\ f.f_dir = FileV(v, p).f_dir
  BY <1>2, <1>11 DEF IsFile
<1>13. own2[r] = <<p, n>> /\ \A b \in Blocks : b # r => own2[b] = own[b]
  BY <1>5, NewOwnLink
<1>14. own[r] = NoOwner
  BY DEF Took
<1>15. Widens(s, own, u, own2, D)
  BY <1>6, <1>8, <1>12, <1>13, <1>14 DEF Widens
<1>16. File(u, p) = f
  BY <1>2, <1>6, <1>8, FileSeen
<1>17. u.panic = s.panic
  BY <1>2, <1>6 DEF Base
<1> QED
  BY <1>6, <1>10, <1>13, <1>15, <1>16, <1>17 DEF u

(* The pointer is in the indirect block (SetPtr). *)
LEMMA LinkEntry ==
  ASSUME NEW s, NEW own, NEW D, NEW sh, NEW fu, NEW r, Took(s, own, D, sh, fu, r),
         NEW p \in Files(own, D), p[1] \in s.mapped, NEW n \in Indirect,
         File(s, p).f_indirect # 0, File(s, p).f_indirect \in s.mapped,
         s.cache[File(s, p).f_indirect][n] = 0,
         Covered(D, p, n, File(s, p).f_size),
         p \in D => s.cache[r] = Zero
  PROVE  LET u    == [s EXCEPT !.cache[File(s, p).f_indirect][n] = r]
             own2 == NewOwn(own, p, n, 0, r)
         IN  Good(u, own2, D, sh, fu) /\ Widens(s, own, u, own2, D) /\ u.mapped = s.mapped
             /\ own2[r] = <<p, n>> /\ u.panic = s.panic
<1> DEFINE y    == File(s, p).f_indirect
           u    == [s EXCEPT !.cache[y][n] = r]
           own2 == NewOwn(own, p, n, 0, r)
           v    == Seen(s)
<1>1. n \in Index
  BY Consts DEF Indirect, Index
<1>2. /\ Base(s) /\ OwnOk(own, D) /\ Shape(v, own, D) /\ Links(v, own, D)
      /\ File(s, p) = FileV(v, p) /\ p[1] \in Blocks /\ IsFs(s)
  <2>1. Base(s) /\ OwnOk(own, D) /\ Shape(v, own, D) /\ Links(v, own, D) /\ IsFs(s)
    BY DEF Took, Good, Tree, Base
  <2>2. p[1] \in Blocks
    BY <2>1, FileSlots
  <2> QED
    BY <2>1, <2>2, FileSeen
<1>3. y \in Blocks /\ IsInd(own, y) /\ y # 0
  BY <1>2, IndirectBlock
<1>4. v[y] = s.cache[y]
  BY <1>3, SeenMapped
<1>5. PtrV(v, p, n) = 0
  BY <1>2, <1>4, PtrIndirect
<1>6. /\ MayPoint(v, own, D, p, n, r) /\ r # 0 /\ r \in Blocks /\ r \in s.mapped
      /\ ~HasFiles(own, D, r) /\ ~IsInd(own, r) /\ r \in 3..(NBLOCK - 1)
  BY <1>1, <1>5, TookPoints
<1>7. y # BITMAP /\ ~HasFiles(own, D, y)
  BY <1>2, <1>3, OwnerIs, IndNoFiles DEF IsInd
<1>8. y \in s.mapped
  OBVIOUS
<1> HIDE DEF y
<1>9. /\ IsFs(u) /\ u.mapped = s.mapped /\ u.dirty = s.dirty /\ u.disk = s.disk /\ u.panic = s.panic
      /\ u.cache[y] = [s.cache[y] EXCEPT ![n] = r]
      /\ \A x \in Blocks : x # y => u.cache[x] = s.cache[x]
  BY <1>2, <1>3 DEF IsFs
<1> HIDE DEF u
<1>10. Base(u) /\ u.cache[BITMAP] = s.cache[BITMAP]
  BY <1>2, <1>7, <1>9, Consts DEF Base
<1>11. \A x \in Blocks : x # y => Seen(u)[x] = v[x]
  <2>1. \A x \in Blocks : x # y => At(u, x) = At(s, x)
    BY <1>9 DEF At
  <2> QED
    BY <2>1 DEF Seen
<1>12. Seen(u)[y] = [v[y] EXCEPT ![n] = r] /\ Seen(u)[r] = s.cache[r]
  <2>1. Seen(u)[y] = u.cache[y] /\ Seen(u)[r] = u.cache[r]
    BY <1>3, <1>6, <1>8, <1>9, SeenMapped
  <2> QED
    BY <1>3, <1>4, <1>6, <1>9, <2>1
<1>13. Tree(Seen(u), own2, D)
  <2>1. FileV(v, p).f_indirect = y
    BY <1>2 DEF y
  <2>2. Tree(Seen(u), NewOwn(own, p, n, PtrV(v, p, n), r), D)
    BY <1>3, <1>6, <1>11, <1>12, <2>1, EntryChanges
  <2> QED
    BY <1>5, <2>2
<1>14. Good(u, own2, D, sh, fu)
  BY <1>1, <1>9, <1>10, <1>13, LinkGood
<1>15. ASSUME NEW q \in Files(own, D) PROVE FileV(Seen(u), q) = FileV(v, q)
  <2>1. q[1] \in Blocks /\ q[1] # y
    BY <1>2, <1>7, FileSlots
  <2> QED
    BY <1>11, <2>1 DEF FileV
<1>16. own2[r] = <<p, n>> /\ \A b \in Blocks : b # r => own2[b] = own[b]
  BY <1>6, NewOwnLink
<1>17. own[r] = NoOwner
  BY DEF Took
<1>18. Widens(s, own, u, own2, D)
  BY <1>9, <1>15, <1>16, <1>17 DEF Widens
<1> QED
  BY <1>9, <1>14, <1>16, <1>18 DEF u, y

----------------------------------------------------------------------------
(* alloc_block *)

(* The disk, when blocks that are neither indirect nor hold Files change. *)
LEMMA DiskSame ==
  ASSUME NEW disk, NEW free, NEW dirty, NEW own, NEW D, DiskOk(disk, free, dirty, own, D),
         OwnOk(own, D), NEW disk2, NEW free2,
         \A b \in Blocks : HasFiles(own, D, b) \/ IsInd(own, b) => disk2[b] = disk[b],
         disk2[BITMAP] \subseteq free2, \A b \in free2 : disk2[b] = Zero
  PROVE  DiskOk(disk2, free2, dirty, own, D)
<1>1. Struct(disk, own, D) /\ Shape(disk, own, D) /\ Links(disk, own, D)
  BY StructLinks DEF DiskOk
<1>2. Struct(disk2, own, D)
  BY <1>1 DEF Struct, BlockOk
<1>3. ASSUME NEW q \in Files(own, D), NEW m \in Index
      PROVE  FileV(disk2, q) = FileV(disk, q) /\ PtrV(disk2, q, m) = PtrV(disk, q, m)
  <2>1. q[1] \in Blocks /\ HasFiles(own, D, q[1])
    BY FileSlots
  <2>2. FileV(disk2, q) = FileV(disk, q)
    BY <2>1 DEF FileV
  <2>3. FileV(disk, q).f_indirect # 0 => disk2[FileV(disk, q).f_indirect] = disk[FileV(disk, q).f_indirect]
    BY <1>1, IndirectBlock
  <2> QED
    BY <2>2, <2>3 DEF PtrV
<1>4. ASSUME NEW b \in Blocks, own[b] # NoOwner
      PROVE  /\ Linked(disk2, own, b) <=> Linked(disk, own, b)
             /\ InSize(disk2, own, D, b) <=> InSize(disk, own, D, b)
  <2>1. own[b][1] \in Files(own, D) /\ own[b][2] \in Index
    BY <1>4, OwnerIs
  <2>2. /\ FileV(disk2, own[b][1]) = FileV(disk, own[b][1])
        /\ PtrV(disk2, own[b][1], own[b][2]) = PtrV(disk, own[b][1], own[b][2])
    BY <1>3, <2>1
  <2> QED
    BY <2>2 DEF Linked, InSize
<1>5. ASSUME NEW p \in D \ {Root} PROVE Linked(disk2, own, p[1])
  <2>1. p \in Files(own, D)
    BY DEF OwnOk
  <2>2. p[1] \in Blocks /\ HasFiles(own, D, p[1]) /\ p = <<p[1], p[2]>> /\ p[2] \in SlotsOf(p[1])
    BY <2>1, FileSlots
  <2>3. p[1] # SUPER
    BY <2>2 DEF Root, SlotsOf
  <2>4. own[p[1]] # NoOwner
    BY <2>2, <2>3, Unowned DEF HasFiles, IsDirBlk, NoOwner
  <2> QED
    BY <1>4, <2>2, <2>4 DEF DiskOk
<1> QED
  BY <1>2, <1>4, <1>5 DEF DiskOk

(* The bit of block r is cleared, in the cache and on the disk. *)
TakeBit(s, r) == write_block([s EXCEPT !.cache[BITMAP] = @ \ {r}], BITMAP)

(* Nothing else changes. *)
LEMMA TakeBitIs ==
  ASSUME NEW s, Base(s), NEW r
  PROVE  LET t == TakeBit(s, r)
         IN  /\ IsFs(t) /\ t.mapped = s.mapped /\ t.dirty = s.dirty /\ t.panic = s.panic
             /\ t.cache[BITMAP] = s.cache[BITMAP] \ {r} /\ t.disk[BITMAP] = s.cache[BITMAP] \ {r}
             /\ \A b \in Blocks : b # BITMAP => t.cache[b] = s.cache[b] /\ t.disk[b] = s.disk[b]
<1> DEFINE t == TakeBit(s, r)
           u == [s EXCEPT !.cache[BITMAP] = @ \ {r}]
<1>1. IsFs(s) /\ BITMAP \in Blocks /\ BITMAP \in s.mapped
  BY Consts DEF Base
<1>2. /\ IsFs(u) /\ u.mapped = s.mapped /\ u.dirty = s.dirty /\ u.disk = s.disk
      /\ u.panic = s.panic /\ u.cache[BITMAP] = s.cache[BITMAP] \ {r}
      /\ \A b \in Blocks : b # BITMAP => u.cache[b] = s.cache[b]
  BY <1>1 DEF IsFs
<1>3. t = [u EXCEPT !.disk[BITMAP] = u.cache[BITMAP]]
  BY <1>1, <1>2 DEF TakeBit, write_block, ide_write
<1> HIDE DEF t, u
<1>4. /\ IsFs(t) /\ t.mapped = u.mapped /\ t.dirty = u.dirty /\ t.cache = u.cache
      /\ t.panic = u.panic /\ t.disk[BITMAP] = u.cache[BITMAP]
      /\ \A b \in Blocks : b # BITMAP => t.disk[b] = u.disk[b]
  BY <1>1, <1>2, <1>3 DEF IsFs
<1> QED
  BY <1>2, <1>4 DEF t

(* Block r is taken: the bitmap on the disk never calls a used block free. *)
LEMMA TakeBitGood ==
  ASSUME NEW s, NEW own, NEW D, NEW sh, NEW fu, Good(s, own, D, sh, fu), NEW r \in s.cache[BITMAP],
         NEW u, Base(u), u.disk = TakeBit(s, r).disk, u.dirty = s.dirty,
         \A b \in Blocks : b # BITMAP /\ b # r => Seen(u)[b] = Seen(s)[b],
         u.cache[BITMAP] = s.cache[BITMAP] \ {r} \/ u.cache[BITMAP] = s.cache[BITMAP]
  PROVE  /\ Good(u, own, D, sh, fu /\ u.cache[BITMAP] = s.cache[BITMAP])
         /\ sh \/ u.disk[r] = Zero
<1>1. Base(s) /\ FreeOk(s.cache[BITMAP], own) /\ Tree(Seen(s), own, D) /\ OwnOk(own, D)
  BY DEF Good, Tree
<1>2. r \in 3..(NBLOCK - 1) /\ own[r] = NoOwner
  BY <1>1 DEF FreeOk
<1>3. r \in Blocks /\ r # SUPER /\ r # BITMAP
  BY <1>2, Consts DEF Blocks
<1>4. /\ ~HasFiles(own, D, r) /\ ~IsInd(own, r)
      /\ ~HasFiles(own, D, BITMAP) /\ ~IsInd(own, BITMAP)
  BY <1>1, <1>2, <1>3, Consts, Unowned
<1>5. Tree(Seen(u), own, D)
  BY <1>1, <1>4, DataChanges
<1>6. /\ u.disk[BITMAP] = s.cache[BITMAP] \ {r}
      /\ \A b \in Blocks : b # BITMAP => u.disk[b] = s.disk[b]
  BY <1>1, TakeBitIs
<1>7. FreeOk(u.cache[BITMAP], own)
  BY <1>1 DEF FreeOk
<1>8. u.cache[BITMAP] \subseteq s.cache[BITMAP] /\ u.disk[BITMAP] \subseteq u.cache[BITMAP]
  BY <1>6
<1>9. \A b \in s.cache[BITMAP] : b \in Blocks /\ b # BITMAP
  BY <1>1, Consts DEF FreeOk, Blocks
<1>10. sh \/ DiskOk(u.disk, u.cache[BITMAP], u.dirty, own, D)
  <2>1. CASE ~sh
    <3>1. DiskOk(s.disk, s.cache[BITMAP], s.dirty, own, D)
      BY <2>1 DEF Good
    <3>2. \A b \in u.cache[BITMAP] : u.disk[b] = Zero
      BY <1>6, <1>8, <1>9, <3>1 DEF DiskOk
    <3>3. \A b \in Blocks : HasFiles(own, D, b) \/ IsInd(own, b) => u.disk[b] = s.disk[b]
      BY <1>4, <1>6
    <3>4. DiskOk(u.disk, u.cache[BITMAP], s.dirty, own, D)
      BY <1>1, <1>8, <3>1, <3>2, <3>3, DiskSame
    <3> QED
      BY <3>4
  <2> QED
    BY <2>1
<1>11. sh \/ u.disk[r] = Zero
  BY <1>3, <1>6 DEF Good, DiskOk
<1>12. fu /\ u.cache[BITMAP] = s.cache[BITMAP] => Full(u.cache[BITMAP], own)
  BY DEF Good
<1> QED
  BY <1>5, <1>7, <1>10, <1>11, <1>12 DEF Good

(* What a failed or a successful alloc_block leaves: a is its result. *)
Allocs(s, a, own, D, sh, fu) ==
  \/ a.r \in {E_NO_MEM, E_NO_DISK} /\ Quiet(s, a.fs, own, D, sh, fu)
  \/ Took(a.fs, own, D, sh, fu, a.r) /\ Widens(s, own, a.fs, own, D)
     /\ \A b \in Blocks : b # BITMAP /\ b # a.r => Seen(a.fs)[b] = Seen(s)[b]

(* A File is as it was when only the bitmap and a block without an owner     *)
(* have changed.                                                             *)
LEMMA FilesStay ==
  ASSUME NEW v, NEW v2, NEW own, NEW D, OwnOk(own, D), NEW r \in Blocks, own[r] = NoOwner, r # SUPER,
         \A b \in Blocks : b # BITMAP /\ b # r => v2[b] = v[b]
  PROVE  \A p \in Files(own, D) : FileV(v2, p) = FileV(v, p)
<1> SUFFICES ASSUME NEW p \in Files(own, D) PROVE FileV(v2, p) = FileV(v, p)
  OBVIOUS
<1>1. p[1] \in Blocks /\ p[1] # BITMAP /\ HasFiles(own, D, p[1])
  BY FileSlots
<1>2. p[1] # r
  BY <1>1, Unowned
<1> QED
  BY <1>1, <1>2 DEF FileV

(* The page of the block that is taken: a page that was there keeps its      *)
(* content, and a new page is zero (map_block).                              *)
LEMMA MapBlockIs ==
  ASSUME NEW t, Base(t), NEW r \in Blocks, NEW mem
  PROVE  LET m == map_block(t, r, mem)
         IN  \/ m.r = E_NO_MEM /\ m.fs = t
             \/ /\ m.r = 0 /\ Base(m.fs) /\ m.fs.mapped = t.mapped \cup {r}
                /\ m.fs.dirty = t.dirty /\ m.fs.disk = t.disk
                /\ \A b \in Blocks : b # r => m.fs.cache[b] = t.cache[b]
                /\ \A b \in Blocks : b # r => Seen(m.fs)[b] = Seen(t)[b]
                /\ m.fs.cache[BITMAP] = t.cache[BITMAP]
<1> DEFINE u == [[t EXCEPT !.mapped = @ \cup {r}] EXCEPT !.cache[r] = Zero]
<1>1. IsFs(t) /\ BITMAP \in t.mapped /\ BITMAP \in Blocks
  BY Consts DEF Base
<1>2. CASE r \in t.mapped
  <2>1. map_block(t, r, mem) = On(t, 0) /\ t.mapped \cup {r} = t.mapped
    BY <1>2 DEF map_block
  <2> QED
    BY <2>1 DEF On
<1>3. CASE r \notin t.mapped /\ mem
  <2>1. map_block(t, r, mem) = On(u, 0)
    BY <1>1, <1>3 DEF map_block, IsFs
  <2>2. /\ IsFs(u) /\ u.mapped = t.mapped \cup {r} /\ u.dirty = t.dirty /\ u.disk = t.disk
        /\ u.panic = t.panic /\ \A b \in Blocks : b # r => u.cache[b] = t.cache[b]
    <3> DEFINE w == [t EXCEPT !.mapped = @ \cup {r}]
    <3>1. /\ IsFs(w) /\ w.mapped = t.mapped \cup {r} /\ w.dirty = t.dirty /\ w.disk = t.disk
          /\ w.panic = t.panic /\ w.cache = t.cache /\ u = [w EXCEPT !.cache[r] = Zero]
      BY <1>1 DEF IsFs
    <3> HIDE DEF u, w
    <3> QED
      BY <1>1, <3>1 DEF IsFs
  <2> HIDE DEF u
  <2>3. Base(u)
    BY <1>1, <2>2 DEF Base
  <2>4. \A b \in Blocks : b # r => At(u, b) = At(t, b)
    BY <2>2 DEF At
  <2>5. \A b \in Blocks : b # r => Seen(u)[b] = Seen(t)[b]
    BY <2>4 DEF Seen
  <2>6. u.cache[BITMAP] = t.cache[BITMAP]
    BY <1>1, <1>3, <2>2
  <2> QED
    BY <2>1, <2>2, <2>3, <2>5, <2>6 DEF On
<1>4. CASE r \notin t.mapped /\ ~mem
  BY <1>4 DEF map_block, On
<1> QED
  BY <1>2, <1>3, <1>4

(* alloc_block takes a free block, or leaves everything as it was. *)
LEMMA AllocTakes ==
  ASSUME NEW s, NEW own, NEW D, NEW sh, NEW fu, Good(s, own, D, sh, fu), NEW mem
  PROVE  Allocs(s, alloc_block(s, mem), own, D, sh, fu)
<1> DEFINE C    == s.cache[BITMAP]
           free == {b \in 3..(NBLOCK - 1) : b \in C}
           r    == Min(free)
           t    == TakeBit(s, r)
           m    == map_block(t, r, mem)
           z    == free_block(m.fs, r)
           v    == Seen(s)
<1>1. Base(s) /\ FreeOk(C, own) /\ OwnOk(own, D) /\ (fu => Full(C, own)) /\ IsFs(s)
  BY DEF Good, Tree, Base
<1>2. free = C
  BY <1>1 DEF FreeOk
<1>3. CASE free = {}
  <2>1. alloc_block_num(s) = On(s, E_NO_DISK)
    BY <1>3 DEF alloc_block_num
  <2>2. alloc_block(s, mem) = On(s, E_NO_DISK)
    BY <2>1 DEF alloc_block, Try, Given, On, E_NO_DISK
  <2> QED
    BY <2>2 DEF Allocs, On, Quiet
<1>4. CASE free # {}
  <2>1. r \in C /\ r \in 3..(NBLOCK - 1) /\ own[r] = NoOwner
    <3>1. free \subseteq Nat
      OBVIOUS
    <3>2. \E x \in free : \A y \in free : x <= y
      BY <1>4, <3>1, SmallestNat
    <3>3. r \in free
      BY <3>2 DEF Min
    <3> QED
      BY <1>1, <3>3 DEF FreeOk
  <2>2. r >= 0 /\ ~(r < 0) /\ r \in Blocks /\ r # 0 /\ r # SUPER /\ r # BITMAP /\ r < NBLOCK
    BY <2>1, Consts DEF Blocks
  <2>3. alloc_block_num(s) = On(t, r)
    BY <1>4 DEF alloc_block_num, TakeBit
  <2>4. alloc_block(s, mem) = IF m.r < 0 THEN On(z, m.r) ELSE On(m.fs, r)
    <3> HIDE DEF t, r
    <3> QED
      BY <2>2, <2>3 DEF alloc_block, Try, Given, On
  <2> HIDE DEF free, r
  <2>5. /\ IsFs(t) /\ t.mapped = s.mapped /\ t.dirty = s.dirty /\ t.panic = s.panic
        /\ t.cache[BITMAP] = C \ {r} /\ t.disk[BITMAP] = C \ {r}
        /\ \A b \in Blocks : b # BITMAP => t.cache[b] = s.cache[b] /\ t.disk[b] = s.disk[b]
    BY <1>1, TakeBitIs
  <2>6. C \subseteq Blocks
    BY <1>1, Consts DEF FreeOk, Blocks
  <2>7. Base(t)
    BY <1>1, <2>5, <2>6 DEF Base
  <2>8. \A b \in Blocks : b # BITMAP => Seen(t)[b] = v[b]
    BY <2>5 DEF Seen, At
  <2> HIDE DEF v, C
  <2>9. CASE m.r = E_NO_MEM /\ m.fs = t
    <3> HIDE DEF t, m
    <3>0. z = [t EXCEPT !.cache[BITMAP] = @ \cup {r}]
      BY <2>1, <2>2, <2>9, Consts DEF free_block
    <3> HIDE DEF z
    <3>1. alloc_block(s, mem) = On(z, E_NO_MEM)
      BY <2>4, <2>9 DEF E_NO_MEM
    <3>2. /\ IsFs(z) /\ z.mapped = s.mapped /\ z.dirty = s.dirty /\ z.panic = s.panic
          /\ z.disk = t.disk /\ z.cache[BITMAP] = C
          /\ \A b \in Blocks : b # BITMAP => z.cache[b] = s.cache[b]
      BY <2>1, <2>5, <3>0, Consts DEF IsFs
    <3>3. Base(z)
      BY <2>7, <2>5, <3>2 DEF Base
    <3>4. \A b \in Blocks : At(z, b) = At(s, b)
      <4>1. \A b \in Blocks : b # BITMAP => At(z, b) = At(s, b)
        BY <2>5, <3>2 DEF At
      <4>2. At(z, BITMAP) = At(s, BITMAP)
        BY <1>1, <3>2 DEF At, Base, C
      <4> QED
        BY <4>1, <4>2
    <3>5. Seen(z) = v
      BY <3>4 DEF Seen, v
    <3>6. Good(z, own, D, sh, fu)
      <4>1. Good(z, own, D, sh, fu /\ z.cache[BITMAP] = s.cache[BITMAP])
        BY <2>1, <3>2, <3>3, <3>5, TakeBitGood DEF C, t, v
      <4> QED
        BY <3>2, <4>1 DEF Good, C
    <3>7. Quiet(s, z, own, D, sh, fu)
      BY <3>2, <3>5, <3>6 DEF Quiet, v
    <3> QED
      BY <3>1, <3>7 DEF Allocs, On
  <2>10. CASE /\ m.r = 0 /\ Base(m.fs) /\ m.fs.mapped = t.mapped \cup {r}
              /\ m.fs.dirty = t.dirty /\ m.fs.disk = t.disk
              /\ \A b \in Blocks : b # r => m.fs.cache[b] = t.cache[b]
              /\ \A b \in Blocks : b # r => Seen(m.fs)[b] = Seen(t)[b]
              /\ m.fs.cache[BITMAP] = t.cache[BITMAP]
    <3> DEFINE u == m.fs
    <3>1. alloc_block(s, mem) = On(u, r)
      BY <2>2, <2>4, <2>10
    <3>2. /\ Base(u) /\ u.mapped = s.mapped \cup {r} /\ u.dirty = s.dirty /\ u.disk = t.disk
          /\ u.cache[BITMAP] = C \ {r}
          /\ \A b \in Blocks : b # r => Seen(u)[b] = Seen(t)[b]
      BY <2>5, <2>10
    <3> HIDE DEF u, m
    <3>3. \A b \in Blocks : b # BITMAP /\ b # r => Seen(u)[b] = v[b]
      BY <2>8, <3>2
    <3>4. Good(u, own, D, sh, FALSE) /\ (sh \/ u.disk[r] = Zero)
      <4>1. /\ Good(u, own, D, sh, fu /\ u.cache[BITMAP] = s.cache[BITMAP])
            /\ sh \/ u.disk[r] = Zero
        BY <2>1, <3>2, <3>3, TakeBitGood DEF C, t, v
      <4> QED
        BY <4>1 DEF Good
    <3>5. fu => Full((C \ {r}) \cup {r}, own)
      BY <1>1 DEF Full
    <3>6. Took(u, own, D, sh, fu, r)
      BY <2>1, <3>2, <3>4, <3>5 DEF Took
    <3>7. \A p \in Files(own, D) : FileV(Seen(u), p) = FileV(v, p)
      <4>1. OwnOk(own, D) /\ r \in Blocks /\ own[r] = NoOwner /\ r # SUPER
        BY <1>1, <2>1, <2>2
      <4> QED
        BY <3>3, <4>1, FilesStay
    <3>8. Widens(s, own, u, own, D)
      BY <3>2, <3>7 DEF Widens, v
    <3> QED
      BY <3>1, <3>3, <3>6, <3>8 DEF Allocs, On, v
  <2> QED
    BY <2>2, <2>7, <2>9, <2>10, MapBlockIs
<1> QED
  BY <1>3, <1>4

(* The blocks of files, and the Files, are as they were before alloc_block.  *)
LEMMA TookSees ==
  ASSUME NEW s, NEW own, NEW D, NEW sh, NEW fu, Good(s, own, D, sh, fu), NEW a,
         Took(a.fs, own, D, sh, fu, a.r), Widens(s, own, a.fs, own, D),
         \A b \in Blocks : b # BITMAP /\ b # a.r => Seen(a.fs)[b] = Seen(s)[b]
  PROVE  /\ \A q \in Files(own, D) : q[1] \in s.mapped => File(a.fs, q) = File(s, q)
         /\ \A b \in s.mapped : own[b] # NoOwner => a.fs.cache[b] = s.cache[b]
         /\ s.mapped \subseteq a.fs.mapped
<1>1. Base(s) /\ OwnOk(own, D)
  BY DEF Good, Tree
<1>2. a.r \in 3..(NBLOCK - 1) /\ own[a.r] = NoOwner /\ s.mapped \subseteq a.fs.mapped
  BY DEF Took, Widens
<1>3. a.r \in Blocks /\ a.r # SUPER
  BY <1>2, Consts DEF Blocks
<1>4. \A q \in Files(own, D) : FileV(Seen(a.fs), q) = FileV(Seen(s), q)
  BY <1>1, <1>2, <1>3, FilesStay
<1>5. ASSUME NEW q \in Files(own, D), q[1] \in s.mapped PROVE File(a.fs, q) = File(s, q)
  <2>1. q[1] \in Blocks /\ q[1] \in a.fs.mapped
    BY <1>1, <1>2, <1>5, FileSlots
  <2> QED
    BY <1>4, <1>5, <2>1, FileSeen
<1>6. ASSUME NEW b \in s.mapped, own[b] # NoOwner PROVE a.fs.cache[b] = s.cache[b]
  <2>1. b \in Blocks /\ b \in a.fs.mapped
    BY <1>1, <1>2 DEF Base
  <2>2. b # BITMAP /\ b # a.r
    BY <1>1, <1>2, <1>6, <2>1, OwnerIs
  <2> QED
    BY <2>1, <2>2, SeenMapped
<1> QED
  BY <1>2, <1>5, <1>6

(* The models stop in a step: a walk does not go on (E_PANIC). *)
Stops(r, s) == r < 0 /\ r # E_NOT_FOUND /\ s.panic = OldPage

(* The models stop where old content would be taken for block numbers. *)
LEMMA MetaTakes ==
  ASSUME NEW s, NEW own, NEW D, NEW sh, NEW fu, Good(s, own, D, sh, fu), NEW mem, ~DirtyReuse
  PROVE  LET a == alloc_meta(s, mem)
         IN  \/ Stops(a.r, a.fs)
             \/ Allocs(s, a, own, D, sh, fu) /\ (a.r < 0 \/ a.fs.cache[a.r] = Zero)
<1> DEFINE a == alloc_block(s, mem)
<1>1. Allocs(s, a, own, D, sh, fu)
  BY AllocTakes
<1> HIDE DEF a
<1>2. alloc_meta(s, mem) = IF a.r < 0 THEN a
                           ELSE IF a.fs.cache[a.r] = Zero THEN a
                           ELSE On(panic(a.fs, OldPage), E_PANIC)
  BY DEF alloc_meta, Try, a
<1>3. CASE a.r < 0
  BY <1>1, <1>2, <1>3
<1>4. CASE ~(a.r < 0) /\ a.fs.cache[a.r] = Zero
  BY <1>1, <1>2, <1>4
<1>5. CASE ~(a.r < 0) /\ a.fs.cache[a.r] # Zero
  <2>1. Took(a.fs, own, D, sh, fu, a.r)
    BY <1>1, <1>5 DEF Allocs, E_NO_MEM, E_NO_DISK
  <2>2. IsFs(a.fs) /\ a.fs.panic = "no"
    BY <2>1 DEF Took, Good, Base
  <2>3. alloc_meta(s, mem) = On(panic(a.fs, OldPage), E_PANIC)
    BY <1>2, <1>5
  <2>4. panic(a.fs, OldPage) = [a.fs EXCEPT !.panic = OldPage]
    BY <2>2 DEF panic, OldPage
  <2>5. panic(a.fs, OldPage).panic = OldPage
    BY <2>2, <2>4 DEF IsFs
  <2>6. alloc_meta(s, mem).fs = panic(a.fs, OldPage) /\ alloc_meta(s, mem).r = -99
    BY <2>3 DEF On, E_PANIC
  <2>7. alloc_meta(s, mem).r < 0 /\ alloc_meta(s, mem).r # E_NOT_FOUND
    BY <2>6 DEF E_NOT_FOUND
  <2> QED
    BY <2>5, <2>6, <2>7 DEF Stops
<1> QED
  BY <1>3, <1>4, <1>5

(* A block that is not free is read without a panic (read_block). *)
LEMMA ReadBlock ==
  ASSUME NEW s, NEW own, NEW D, NEW sh, NEW fu, Good(s, own, D, sh, fu),
         NEW b \in Blocks, own[b] # NoOwner
  PROVE  LET g == read_block(s, b)
         IN  /\ g.r = 0 /\ Quiet(s, g.fs, own, D, sh, fu) /\ b \in g.fs.mapped
             /\ g.fs.dirty = s.dirty
<1>1. ~block_is_free(s, b) /\ ~(b >= NBLOCK)
  BY Consts DEF Good, FreeOk, block_is_free, Blocks
<1>2. read_block(s, b) = On(IF b \in s.mapped THEN s ELSE ide_read(s, b), 0)
  BY <1>1 DEF read_block
<1>3. CASE b \in s.mapped
  BY <1>2, <1>3 DEF On, Quiet
<1>4. CASE b \notin s.mapped
  <2>1. read_block(s, b) = On(ide_read(s, b), 0)
    BY <1>2, <1>4
  <2> QED
    BY <1>4, <2>1, ReadQuiet DEF On
<1> QED
  BY <1>3, <1>4

----------------------------------------------------------------------------
(* file_block_walk, file_map_block, file_get_block *)

(* Pointer n of p can be read and set in the cache. *)
Reach(s, p, n) ==
  /\ n \in Nat /\ n < NINDIRECT
  /\ n < NDIRECT \/ (File(s, p).f_indirect # 0 /\ File(s, p).f_indirect \in s.mapped)

(* It is then the pointer that a reader finds (Ptr). *)
LEMMA PtrReach ==
  ASSUME NEW s, NEW own, NEW D, Base(s), Tree(Seen(s), own, D),
         NEW p \in Files(own, D), p[1] \in s.mapped, NEW n, Reach(s, p, n)
  PROVE  /\ Ptr(s, p, n) = PtrV(Seen(s), p, n) /\ Ptr(s, p, n) \in Blocks /\ n \in Index /\ n >= 0
         /\ (n \in Direct /\ n < NDIRECT) \/ (n \in Indirect /\ ~(n < NDIRECT))
         /\ File(s, p) = FileV(Seen(s), p) /\ p[1] \in Blocks
<1>1. Base(s) /\ OwnOk(own, D) /\ Shape(Seen(s), own, D) /\ Links(Seen(s), own, D)
  BY DEF Tree
<1>2. File(s, p) = FileV(Seen(s), p) /\ p[1] \in Blocks
  BY <1>1, FileSlots, FileSeen
<1>3. n \in Index /\ n >= 0 /\ ((n \in Direct /\ n < NDIRECT) \/ (n \in Indirect /\ ~(n < NDIRECT)))
  BY Consts DEF Reach, Index, Direct, Indirect, NINDIRECT
<1>4. PtrV(Seen(s), p, n) \in Blocks
  BY <1>1, <1>3, PtrIsBlock
<1>5. CASE n \in Direct /\ n < NDIRECT
  BY <1>2, <1>3, <1>4, <1>5, PtrDirect DEF Ptr
<1>6. CASE n \in Indirect /\ ~(n < NDIRECT)
  <2> DEFINE y == File(s, p).f_indirect
  <2>1. y # 0 /\ y \in s.mapped
    BY <1>6 DEF Reach
  <2>2. y \in Blocks
    BY <1>1, <2>1 DEF Base
  <2>3. Seen(s)[y] = s.cache[y]
    BY <2>1, <2>2, SeenMapped
  <2> QED
    BY <1>2, <1>3, <1>4, <1>6, <2>1, <2>3, PtrIndirect DEF Ptr
<1> QED
  BY <1>3, <1>5, <1>6

(* What the walk without allocation returns: the pages and what a reader     *)
(* finds stay, and the pointer can be used if there is one.                  *)
WalkFound(s, own, w, p, n, D, sh, fu) ==
  /\ Quiet(s, w.fs, own, D, sh, fu) /\ w.fs.dirty = s.dirty
  /\ \/ w.r = E_INVAL /\ n >= NINDIRECT
     \/ w.r = E_NOT_FOUND /\ n \in Indirect /\ File(s, p).f_indirect = 0
     \/ w.r = 0 /\ Reach(w.fs, p, n)

(* The indirect block is read if there is one. *)
LEMMA WalkFinds ==
  ASSUME NEW s, NEW own, NEW D, NEW sh, NEW fu, Good(s, own, D, sh, fu),
         NEW p \in Files(own, D), p[1] \in s.mapped, NEW n \in Nat, NEW alloc, NEW mem,
         n < NDIRECT \/ n >= NINDIRECT \/ File(s, p).f_indirect # 0 \/ ~alloc
  PROVE  WalkFound(s, own, file_block_walk(s, p, n, alloc, mem), p, n, D, sh, fu)
<1> DEFINE y == File(s, p).f_indirect
           w == file_block_walk(s, p, n, alloc, mem)
<1> USE DEF WalkFound
<1>1. Base(s) /\ OwnOk(own, D) /\ Shape(Seen(s), own, D) /\ Links(Seen(s), own, D)
  BY DEF Good, Tree
<1>2. File(s, p) = FileV(Seen(s), p) /\ p[1] \in Blocks /\ Quiet(s, s, own, D, sh, fu)
  BY <1>1, FileSlots, FileSeen DEF Quiet
<1>3. CASE n < NDIRECT
  <2>1. w = On(s, 0)
    BY <1>3 DEF file_block_walk
  <2>2. Reach(s, p, n)
    BY <1>3, Consts DEF Reach, NINDIRECT
  <2> QED
    BY <1>2, <2>1, <2>2 DEF On
<1>4. CASE n >= NINDIRECT /\ ~(n < NDIRECT)
  <2>1. w = On(s, E_INVAL)
    BY <1>4 DEF file_block_walk
  <2> QED
    BY <1>2, <1>4, <2>1 DEF On
<1>5. CASE ~(n < NDIRECT) /\ ~(n >= NINDIRECT) /\ y # 0
  <2>1. w = read_block(s, y)
    BY <1>5 DEF file_block_walk
  <2>2. y \in Blocks /\ own[y] # NoOwner
    BY <1>1, <1>2, <1>5, IndirectBlock DEF IsInd
  <2> HIDE DEF y, w
  <2>3. w.r = 0 /\ Quiet(s, w.fs, own, D, sh, fu) /\ y \in w.fs.mapped /\ w.fs.dirty = s.dirty
    BY <2>1, <2>2, ReadBlock
  <2>4. File(w.fs, p) = File(s, p)
    BY <1>2, <2>3, FileSeen DEF Quiet
  <2>5. n < NINDIRECT
    BY <1>5, Consts DEF NINDIRECT
  <2>6. Reach(w.fs, p, n)
    BY <1>5, <2>3, <2>4, <2>5 DEF Reach, y
  <2> QED
    BY <2>3, <2>6 DEF w
<1>6. CASE ~(n < NDIRECT) /\ ~(n >= NINDIRECT) /\ y = 0
  <2>1. w = On(s, E_NOT_FOUND)
    BY <1>6 DEF file_block_walk
  <2>2. n \in Indirect
    BY <1>6, Consts DEF Indirect, NINDIRECT
  <2> QED
    BY <1>2, <1>6, <2>1, <2>2 DEF On
<1> QED
  BY <1>3, <1>4, <1>5, <1>6

(* The state after a request that may give blocks to files: u. *)
Moves(s, own, u, D, sh, fu) ==
  \E own2 : Good(u, own2, D, sh, fu) /\ Widens(s, own, u, own2, D)

(* What the walk with allocation returns. *)
WalkMade(s, own, w, p, n, D, sh, fu) ==
  \/ Stops(w.r, w.fs)
  \/ w.r < 0 /\ Quiet(s, w.fs, own, D, sh, fu)
  \/ w.r = 0 /\ Reach(w.fs, p, n) /\ Moves(s, own, w.fs, D, sh, fu)
     /\ File(w.fs, p).f_size = File(s, p).f_size

(* It is made if there is none. *)
LEMMA WalkMakes ==
  ASSUME NEW s, NEW own, NEW D, NEW sh, NEW fu, Good(s, own, D, sh, fu), ~DirtyReuse,
         NEW p \in Files(own, D), p[1] \in s.mapped, NEW n \in Nat, NEW mem
  PROVE  WalkMade(s, own, file_block_walk(s, p, n, TRUE, mem), p, n, D, sh, fu)
<1> USE DEF WalkMade
<1> DEFINE w == file_block_walk(s, p, n, TRUE, mem)
           a == alloc_meta(s, mem)
           f == [File(a.fs, p) EXCEPT !.f_indirect = a.r]
           u == SetFile(a.fs, p, f)
           own2 == NewOwn(own, p, -1, 0, a.r)
<1>1. Base(s) /\ OwnOk(own, D) /\ p[1] \in Blocks /\ File(s, p) = FileV(Seen(s), p)
  BY FileSlots, FileSeen DEF Good, Tree
<1>2. CASE n < NDIRECT \/ n >= NINDIRECT \/ File(s, p).f_indirect # 0
  <2>0. WalkFound(s, own, w, p, n, D, sh, fu)
    BY <1>2, WalkFinds
  <2>1. /\ Quiet(s, w.fs, own, D, sh, fu)
        /\ w.r \in {E_INVAL, E_NOT_FOUND} \/ (w.r = 0 /\ Reach(w.fs, p, n))
    <3> HIDE DEF w
    <3> QED
      BY <2>0 DEF WalkFound
  <2>2. Moves(s, own, w.fs, D, sh, fu) /\ s.mapped \subseteq w.fs.mapped
    BY <2>1, QuietWidens DEF Moves, Quiet
  <2>3. File(w.fs, p) = File(s, p)
    BY <1>1, <2>1, <2>2, FileSeen DEF Quiet
  <2> HIDE DEF w
  <2>4. w.r \in {E_INVAL, E_NOT_FOUND} => w.r < 0
    BY DEF E_INVAL, E_NOT_FOUND
  <2>5. w.r < 0 \/ (w.r = 0 /\ Reach(w.fs, p, n))
    BY <2>1, <2>4
  <2>6. File(w.fs, p).f_size = File(s, p).f_size
    BY <2>3
  <2> QED
    BY <2>1, <2>2, <2>5, <2>6 DEF w
<1>3. CASE ~(n < NDIRECT) /\ ~(n >= NINDIRECT) /\ File(s, p).f_indirect = 0
  <2>1. w = IF a.r < 0 THEN a ELSE read_block(u, a.r)
    BY <1>3 DEF file_block_walk, Try
  <2>2. \/ Stops(a.r, a.fs)
        \/ Allocs(s, a, own, D, sh, fu) /\ (a.r < 0 \/ a.fs.cache[a.r] = Zero)
    BY MetaTakes
  <2> HIDE DEF w, a
  <2>3. CASE Stops(a.r, a.fs)
    BY <2>1, <2>3 DEF w, Stops
  <2>4. CASE a.r \in {E_NO_MEM, E_NO_DISK} /\ Quiet(s, a.fs, own, D, sh, fu)
    <3>1. a.r < 0
      BY <2>4 DEF E_NO_MEM, E_NO_DISK
    <3> QED
      BY <2>1, <2>4, <3>1 DEF w
  <2>5. CASE /\ Took(a.fs, own, D, sh, fu, a.r) /\ Widens(s, own, a.fs, own, D)
             /\ \A b \in Blocks : b # BITMAP /\ b # a.r => Seen(a.fs)[b] = Seen(s)[b]
             /\ a.r < 0 \/ a.fs.cache[a.r] = Zero
    <3>1. File(a.fs, p) = File(s, p) /\ s.mapped \subseteq a.fs.mapped
      BY <2>5, TookSees
    <3>2. a.r \in 3..(NBLOCK - 1) /\ a.r \in a.fs.mapped
      BY <2>5 DEF Took
    <3>3. a.r \in Blocks /\ ~(a.r < 0) /\ a.r # 0
      BY <3>2, Consts DEF Blocks
    <3>4. /\ Good(u, own2, D, sh, fu) /\ Widens(a.fs, own, u, own2, D) /\ u.mapped = a.fs.mapped
          /\ own2[a.r] = <<p, -1>> /\ File(u, p) = f
      <4>1. /\ p[1] \in a.fs.mapped /\ File(a.fs, p).f_indirect = 0 /\ -1 \in Direct \cup {-1}
            /\ a.fs.cache[a.r] = Zero
        BY <1>3, <2>5, <3>1, <3>3
      <4> QED
        BY <2>5, <4>1, LinkFile
    <3>5. IsFile(File(s, p))
      BY <1>1 DEF Good, Tree, Shape, FileShape
    <3>6. f.f_indirect = a.r /\ f.f_size = File(s, p).f_size
      BY <3>1, <3>5 DEF IsFile
    <3>7. p # NULL
      BY <1>1, FileSlots
    <3>8. own2[a.r] # NoOwner
      BY <3>4, <3>7 DEF NoOwner
    <3>9. w = read_block(u, a.r)
      BY <2>1, <3>3
    <3> HIDE DEF u, f, own2
    <3>10. /\ w.r = 0 /\ Quiet(u, w.fs, own2, D, sh, fu) /\ a.r \in w.fs.mapped
      BY <3>3, <3>4, <3>8, <3>9, ReadBlock
    <3>11. File(w.fs, p) = f
      <4>1. p[1] \in u.mapped /\ p[1] \in w.fs.mapped
        BY <3>1, <3>4, <3>10 DEF Quiet
      <4> QED
        BY <1>1, <3>4, <3>10, <4>1, FileSeen DEF Quiet
    <3>12. n < NINDIRECT
      BY <1>3, Consts DEF NINDIRECT
    <3>13. Reach(w.fs, p, n)
      BY <3>3, <3>6, <3>10, <3>11, <3>12 DEF Reach
    <3>14. Widens(s, own, w.fs, own2, D)
      <4>1. s.mapped \subseteq Blocks /\ a.fs.mapped \subseteq Blocks
        BY <1>1, <2>5 DEF Base, Took, Good
      <4>2. Widens(a.fs, own, w.fs, own2, D)
        <5>1. Widens(u, own2, w.fs, own2, D)
          BY <3>10, QuietWidens
        <5> QED
          BY <1>1, <3>4, <4>1, <5>1, WidensTrans
      <4> QED
        BY <1>1, <2>5, <4>1, <4>2, WidensTrans
    <3>15. Moves(s, own, w.fs, D, sh, fu)
      BY <3>10, <3>14 DEF Moves, Quiet
    <3> QED
      BY <3>6, <3>10, <3>11, <3>13, <3>15 DEF w
  <2> QED
    BY <2>2, <2>3, <2>4, <2>5 DEF Allocs
<1> QED
  BY <1>2, <1>3

(* What file_map_block without allocation returns. *)
MapFound(s, own, m, p, n, D, sh, fu) ==
  /\ Quiet(s, m.fs, own, D, sh, fu) /\ m.fs.dirty = s.dirty
  /\ m.r \in Int /\ (m.r < 0 \/ (m.r \in Blocks /\ m.r # 0 /\ own[m.r] = <<p, n>>))

(* Block n of p, if there is one. *)
LEMMA MapFinds ==
  ASSUME NEW s, NEW own, NEW D, NEW sh, NEW fu, Good(s, own, D, sh, fu),
         NEW p \in Files(own, D), p[1] \in s.mapped, NEW n \in Nat, NEW mem
  PROVE  MapFound(s, own, file_map_block(s, p, n, FALSE, mem), p, n, D, sh, fu)
<1> USE DEF MapFound
<1> DEFINE w == file_block_walk(s, p, n, FALSE, mem)
           m == file_map_block(s, p, n, FALSE, mem)
           x == Ptr(w.fs, p, n)
<1>0. WalkFound(s, own, w, p, n, D, sh, fu)
  BY WalkFinds
<1> HIDE DEF w
<1>1. /\ Quiet(s, w.fs, own, D, sh, fu) /\ w.fs.dirty = s.dirty
      /\ w.r \in {E_INVAL, E_NOT_FOUND} \/ (w.r = 0 /\ Reach(w.fs, p, n))
  BY <1>0 DEF WalkFound
<1>2. m = IF w.r < 0 THEN w ELSE IF x # 0 THEN On(w.fs, x) ELSE On(w.fs, E_NOT_FOUND)
  BY DEF file_map_block, Try, w
<1> HIDE DEF m, w, x
<1>3. CASE w.r \in {E_INVAL, E_NOT_FOUND}
  <2>1. w.r < 0 /\ w.r \in Int
    BY <1>3 DEF E_INVAL, E_NOT_FOUND
  <2> QED
    BY <1>1, <1>2, <2>1 DEF m
<1>4. CASE w.r = 0 /\ Reach(w.fs, p, n)
  <2>1. x = PtrV(Seen(w.fs), p, n) /\ x \in Blocks /\ n \in Index
    BY <1>1, <1>4, PtrReach DEF Quiet, Good, x
  <2>2. x # 0 => own[x] = <<p, n>>
    BY <1>1, <2>1 DEF Quiet, Good, Tree, Links
  <2>3. CASE x # 0
    <3>1. m = On(w.fs, x)
      BY <1>2, <1>4, <2>3
    <3>2. m.r = x /\ m.fs = w.fs
      BY <3>1 DEF On
    <3>3. x \in Int
      BY <2>1 DEF Blocks
    <3> QED
      BY <1>1, <2>1, <2>2, <2>3, <3>2, <3>3 DEF m
  <2>4. CASE x = 0
    <3>1. m = On(w.fs, E_NOT_FOUND)
      BY <1>2, <1>4, <2>4
    <3>2. m.r < 0 /\ m.r \in Int /\ m.fs = w.fs
      BY <3>1 DEF On, E_NOT_FOUND
    <3> QED
      BY <1>1, <3>2 DEF m
  <2> QED
    BY <2>3, <2>4
<1> QED
  BY <1>1, <1>3, <1>4

(* SetPtr on an empty pointer *)
LEMMA SetPtrLinks ==
  ASSUME NEW s, NEW own, NEW D, NEW sh, NEW fu, NEW r, Took(s, own, D, sh, fu, r),
         NEW p \in Files(own, D), p[1] \in s.mapped, NEW n, Reach(s, p, n), Ptr(s, p, n) = 0,
         Covered(D, p, n, File(s, p).f_size), p \in D => s.cache[r] = Zero
  PROVE  LET u    == SetPtr(s, p, n, r)
             own2 == NewOwn(own, p, n, 0, r)
         IN  Good(u, own2, D, sh, fu) /\ Widens(s, own, u, own2, D) /\ own2[r] = <<p, n>>
<1>0. Base(s) /\ Tree(Seen(s), own, D)
  BY DEF Took, Good
<1>1. /\ (n \in Direct /\ n < NDIRECT) \/ (n \in Indirect /\ ~(n < NDIRECT))
      /\ n >= 0 /\ n # -1
  BY <1>0, PtrReach
<1>2. CASE n \in Direct /\ n < NDIRECT
  <2>1. SetPtr(s, p, n, r) = SetFile(s, p, [File(s, p) EXCEPT !.f_direct[n] = r])
    BY <1>2 DEF SetPtr
  <2>2. n \in Direct \cup {-1} /\ File(s, p).f_direct[n] = 0
    BY <1>2 DEF Ptr
  <2> QED
    BY <1>1, <2>1, <2>2, LinkFile
<1>3. CASE n \in Indirect /\ ~(n < NDIRECT)
  <2>1. SetPtr(s, p, n, r) = [s EXCEPT !.cache[File(s, p).f_indirect][n] = r]
    BY <1>3 DEF SetPtr
  <2>2. File(s, p).f_indirect # 0 /\ File(s, p).f_indirect \in s.mapped
        /\ s.cache[File(s, p).f_indirect][n] = 0
    BY <1>3 DEF Ptr, Reach
  <2> QED
    BY <1>3, <2>1, <2>2, LinkEntry
<1> QED
  BY <1>1, <1>2, <1>3

(* What file_map_block with allocation returns. *)
MapMade(s, own, m, p, n, D, sh, fu) ==
  \/ Stops(m.r, m.fs)
  \/ m.r < 0 /\ Moves(s, own, m.fs, D, sh, fu)
  \/ \E own2 : /\ Good(m.fs, own2, D, sh, fu) /\ Widens(s, own, m.fs, own2, D)
               /\ m.r \in Blocks /\ own2[m.r] = <<p, n>>

(* ... which is allocated if there is none. *)
LEMMA MapMakes ==
  ASSUME NEW s, NEW own, NEW D, NEW sh, NEW fu, Good(s, own, D, sh, fu), ~DirtyReuse,
         NEW p \in Files(own, D), p[1] \in s.mapped, NEW n \in Nat, NEW mem,
         Covered(D, p, n, File(s, p).f_size)
  PROVE  MapMade(s, own, file_map_block(s, p, n, TRUE, mem), p, n, D, sh, fu)
<1> USE DEF MapMade
<1> DEFINE w == file_block_walk(s, p, n, TRUE, mem)
           m == file_map_block(s, p, n, TRUE, mem)
           x == Ptr(w.fs, p, n)
           a == IF File(s, p).f_type = FTYPE_DIR THEN alloc_meta(w.fs, mem) ELSE alloc_block(w.fs, mem)
           u == SetPtr(a.fs, p, n, a.r)
<1>0. Base(s) /\ OwnOk(own, D) /\ p[1] \in Blocks /\ File(s, p) = FileV(Seen(s), p)
      /\ Shape(Seen(s), own, D)
  BY FileSlots, FileSeen DEF Good, Tree
<1>1. WalkMade(s, own, w, p, n, D, sh, fu)
  BY WalkMakes
<1>2. m = IF w.r < 0 THEN w ELSE IF x # 0 THEN On(w.fs, x)
          ELSE IF a.r < 0 THEN a ELSE On(u, a.r)
  BY DEF file_map_block, Try
<1>3. File(s, p).f_type = FTYPE_DIR <=> p \in D
  BY <1>0 DEF Shape, FileShape
<1> HIDE DEF m, w, x
<1>4. CASE Stops(w.r, w.fs)
  BY <1>2, <1>4 DEF m, Stops
<1>5. CASE w.r < 0 /\ Quiet(s, w.fs, own, D, sh, fu)
  <2>1. Moves(s, own, w.fs, D, sh, fu)
    BY <1>5, QuietWidens DEF Moves, Quiet
  <2> QED
    BY <1>2, <1>5, <2>1 DEF m
<1>6. CASE w.r = 0 /\ Reach(w.fs, p, n) /\ Moves(s, own, w.fs, D, sh, fu)
           /\ File(w.fs, p).f_size = File(s, p).f_size
  <2>1. PICK own1 : Good(w.fs, own1, D, sh, fu) /\ Widens(s, own, w.fs, own1, D)
    BY <1>6 DEF Moves
  <2>2. s.mapped \subseteq Blocks /\ w.fs.mapped \subseteq Blocks /\ OwnOk(own1, D)
    BY <1>0, <2>1 DEF Base, Good, Tree
  <2>3. p \in Files(own1, D) /\ p[1] \in w.fs.mapped
    <3>1. Files(own, D) \subseteq Files(own1, D)
      BY <1>0, <2>1, <2>2, WidensGrows, GrowsFiles
    <3> QED
      BY <2>1, <3>1 DEF Widens
  <2>4. x = PtrV(Seen(w.fs), p, n) /\ x \in Blocks /\ n \in Index
    BY <1>6, <2>1, <2>3, PtrReach DEF x, Good
  <2>5. CASE x # 0
    <3>1. own1[x] = <<p, n>>
      BY <2>1, <2>3, <2>4, <2>5 DEF Good, Tree, Links
    <3>2. m = On(w.fs, x)
      BY <1>2, <1>6, <2>5
    <3>3. m.r = x /\ m.fs = w.fs
      BY <3>2 DEF On
    <3> QED
      BY <2>1, <2>4, <3>1, <3>3 DEF m
  <2>6. CASE x = 0
    <3>1. m = IF a.r < 0 THEN a ELSE On(u, a.r)
      BY <1>2, <1>6, <2>6
    <3>2. \/ Stops(a.r, a.fs)
          \/ Allocs(w.fs, a, own1, D, sh, fu) /\ (a.r < 0 \/ p \notin D \/ a.fs.cache[a.r] = Zero)
      BY <1>3, <2>1, AllocTakes, MetaTakes
    <3> HIDE DEF a
    <3>3. CASE Stops(a.r, a.fs)
      BY <3>1, <3>3 DEF m, Stops
    <3>4. CASE a.r \in {E_NO_MEM, E_NO_DISK} /\ Quiet(w.fs, a.fs, own1, D, sh, fu)
      <4>1. a.r < 0
        BY <3>4 DEF E_NO_MEM, E_NO_DISK
      <4>2. Widens(s, own, a.fs, own1, D)
        BY <1>0, <2>1, <2>2, <3>4, QuietWidens, WidensTrans
      <4>3. Moves(s, own, a.fs, D, sh, fu)
        BY <3>4, <4>2 DEF Moves, Quiet
      <4> QED
        BY <3>1, <4>1, <4>3 DEF m
    <3>5. CASE /\ Took(a.fs, own1, D, sh, fu, a.r) /\ Widens(w.fs, own1, a.fs, own1, D)
               /\ \A b \in Blocks : b # BITMAP /\ b # a.r => Seen(a.fs)[b] = Seen(w.fs)[b]
               /\ a.r < 0 \/ p \notin D \/ a.fs.cache[a.r] = Zero
      <4>1. /\ \A q \in Files(own1, D) : q[1] \in w.fs.mapped => File(a.fs, q) = File(w.fs, q)
            /\ \A b \in w.fs.mapped : own1[b] # NoOwner => a.fs.cache[b] = w.fs.cache[b]
            /\ w.fs.mapped \subseteq a.fs.mapped
        BY <2>1, <3>5, TookSees
      <4>2. a.r \in 3..(NBLOCK - 1) /\ a.r \in a.fs.mapped
        BY <3>5 DEF Took
      <4>3. a.r \in Blocks /\ ~(a.r < 0) /\ a.r # 0
        BY <4>2, Consts DEF Blocks
      <4>4. File(a.fs, p) = File(w.fs, p) /\ p[1] \in a.fs.mapped
        BY <2>3, <4>1
      <4>5. Reach(a.fs, p, n)
        BY <1>6, <4>1, <4>4 DEF Reach
      <4>6. Ptr(a.fs, p, n) = 0
        <5>1. Good(a.fs, own1, D, sh, FALSE)
          BY <3>5 DEF Took
        <5>2. CASE n < NDIRECT
          BY <2>6, <4>4, <5>2 DEF Ptr, x
        <5>3. CASE ~(n < NDIRECT)
          <6> DEFINE y == File(w.fs, p).f_indirect
          <6>1. y # 0 /\ y \in w.fs.mapped
            BY <1>6, <5>3 DEF Reach
          <6>2. own1[y] # NoOwner
            <7>1. File(w.fs, p) = FileV(Seen(w.fs), p)
              BY <2>1, <2>3, <1>6, PtrReach DEF Good
            <7> QED
              BY <2>1, <2>3, <6>1, <7>1, IndirectBlock DEF Good, Tree, IsInd
          <6>3. a.fs.cache[y] = w.fs.cache[y]
            BY <4>1, <6>1, <6>2
          <6> QED
            BY <2>6, <4>4, <5>3, <6>3 DEF Ptr, x
        <5> QED
          BY <5>2, <5>3
      <4>7. Covered(D, p, n, File(a.fs, p).f_size)
        BY <1>6, <4>4
      <4> DEFINE own2 == NewOwn(own1, p, n, 0, a.r)
      <4>8. Good(u, own2, D, sh, fu) /\ Widens(a.fs, own1, u, own2, D) /\ own2[a.r] = <<p, n>>
        <5>1. p \in D => a.fs.cache[a.r] = Zero
          BY <3>5, <4>3
        <5> QED
          BY <2>3, <3>5, <4>4, <4>5, <4>6, <4>7, <5>1, SetPtrLinks
      <4> HIDE DEF own2, u
      <4>9. Widens(s, own, u, own2, D)
        <5>1. a.fs.mapped \subseteq Blocks
          BY <3>5 DEF Took, Good, Base
        <5>2. Widens(w.fs, own1, u, own2, D)
          BY <2>2, <3>5, <4>8, WidensTrans
        <5> QED
          BY <1>0, <2>1, <2>2, <5>2, WidensTrans
      <4>10. m = On(u, a.r)
        BY <3>1, <4>3
      <4>11. m.r = a.r /\ m.fs = u
        BY <4>10 DEF On
      <4> QED
        BY <4>3, <4>8, <4>9, <4>11 DEF m
    <3> QED
      BY <3>2, <3>3, <3>4, <3>5 DEF Allocs
  <2> QED
    BY <2>5, <2>6
<1> QED
  BY <1>1, <1>4, <1>5, <1>6 DEF WalkMade, m

(* What file_get_block returns. *)
GetMade(s, own, g, p, n, D, sh, fu) ==
  \/ Stops(g.r, g.fs)
  \/ g.r < 0 /\ Moves(s, own, g.fs, D, sh, fu)
  \/ \E own2 : /\ Good(g.fs, own2, D, sh, fu) /\ Widens(s, own, g.fs, own2, D)
               /\ g.r \in Blocks /\ own2[g.r] = <<p, n>> /\ g.r \in g.fs.mapped

(* ... and gets a page. *)
LEMMA GetMakes ==
  ASSUME NEW s, NEW own, NEW D, NEW sh, NEW fu, Good(s, own, D, sh, fu), ~DirtyReuse,
         NEW p \in Files(own, D), p[1] \in s.mapped, NEW n \in Nat, NEW mem,
         Covered(D, p, n, File(s, p).f_size)
  PROVE  GetMade(s, own, file_get_block(s, p, n, mem), p, n, D, sh, fu)
<1> USE DEF GetMade
<1> DEFINE m == file_map_block(s, p, n, TRUE, mem)
           g == file_get_block(s, p, n, mem)
           e == read_block(m.fs, m.r)
<1>1. MapMade(s, own, m, p, n, D, sh, fu)
  BY MapMakes
<1>2. g = IF m.r < 0 THEN m ELSE IF e.r < 0 THEN e ELSE On(e.fs, m.r)
  BY DEF file_get_block, Try
<1> HIDE DEF m, g, e
<1>3. CASE Stops(m.r, m.fs)
  BY <1>2, <1>3 DEF g, Stops
<1>4. CASE m.r < 0 /\ Moves(s, own, m.fs, D, sh, fu)
  BY <1>2, <1>4 DEF g
<1>5. ASSUME NEW own2, Good(m.fs, own2, D, sh, fu), Widens(s, own, m.fs, own2, D),
             m.r \in Blocks, own2[m.r] = <<p, n>>
      PROVE  /\ Good(g.fs, own2, D, sh, fu) /\ Widens(s, own, g.fs, own2, D)
             /\ g.r \in Blocks /\ own2[g.r] = <<p, n>> /\ g.r \in g.fs.mapped
  <2>1. OwnOk(own, D) /\ s.mapped \subseteq Blocks
    BY DEF Good, Tree, Base
  <2>2. own2[m.r] # NoOwner
    <3>1. p # NULL
      BY <2>1, FileSlots
    <3> QED
      BY <1>5, <3>1 DEF NoOwner
  <2>3. e.r = 0 /\ Quiet(m.fs, e.fs, own2, D, sh, fu) /\ m.r \in e.fs.mapped
    BY <1>5, <2>2, ReadBlock DEF e
  <2>4. ~(m.r < 0)
    BY <1>5, Consts DEF Blocks
  <2>5. g = On(e.fs, m.r)
    BY <1>2, <2>3, <2>4
  <2>6. g.fs = e.fs /\ g.r = m.r
    BY <2>5 DEF On
  <2>7. Widens(s, own, e.fs, own2, D)
    BY <1>5, <2>1, <2>3, QuietWidens, WidensTrans
  <2> QED
    BY <1>5, <2>3, <2>6, <2>7 DEF Quiet
<1> QED
  BY <1>1, <1>3, <1>4, <1>5 DEF MapMade, g

----------------------------------------------------------------------------
(* Dirty blocks and their way to the disk *)

(* file_dirty *)
LEMMA DirtyFile ==
  ASSUME NEW s, NEW own, NEW D, NEW sh, NEW fu, Good(s, own, D, sh, fu),
         NEW p \in Files(own, D), p[1] \in s.mapped, NEW n \in Nat
  PROVE  Quiet(s, file_dirty(s, p, n * BY2BLK).fs, own, D, sh, fu)
<1> DEFINE m == file_map_block(s, p, n, FALSE, TRUE)
           d == dirty_block(m.fs, m.r)
<1>1. (n * BY2BLK) \div BY2BLK = n
  <2>1. (n * BY2BLK + 0) \div BY2BLK = n
    BY Consts, DivUnique
  <2>2. n * BY2BLK \in Nat
    BY Consts
  <2> QED
    BY <2>1, <2>2
<1>2. file_dirty(s, p, n * BY2BLK) = IF m.r < 0 THEN m ELSE d
  BY <1>1 DEF file_dirty, Try
<1>3. MapFound(s, own, m, p, n, D, sh, fu)
  BY MapFinds
<1> HIDE DEF m
<1>4. CASE m.r < 0
  BY <1>2, <1>3, <1>4 DEF MapFound
<1>5. CASE ~(m.r < 0) /\ m.r \notin m.fs.mapped
  <2>1. d = On(m.fs, E_NOT_FOUND)
    BY <1>5 DEF dirty_block
  <2>2. d.fs = m.fs
    BY <2>1 DEF On
  <2> QED
    BY <1>2, <1>3, <1>5, <2>2 DEF MapFound
<1>6. CASE ~(m.r < 0) /\ m.r \in m.fs.mapped
  <2> DEFINE u == [m.fs EXCEPT !.dirty = @ \cup {m.r}]
  <2>1. d = On(u, 0)
    BY <1>6 DEF dirty_block
  <2>2. d.fs = u
    BY <2>1 DEF On
  <2>3. own[m.r] # NoOwner /\ own[m.r][2] >= 0
    <3>1. own[m.r] = <<p, n>> /\ p # NULL
      BY <1>3, <1>6, FileSlots DEF MapFound, Good, Tree
    <3> QED
      BY <3>1 DEF NoOwner
  <2>4. Quiet(m.fs, u, own, D, sh, fu)
    BY <1>3, <1>6, <2>3, DirtyQuiet DEF MapFound, Quiet
  <2> QED
    BY <1>2, <1>3, <1>6, <2>2, <2>4, QuietTrans DEF MapFound
<1> QED
  BY <1>4, <1>5, <1>6

(* One block of file_flush *)
LEMMA FlushesBlock ==
  ASSUME NEW s, NEW own, NEW D, NEW sh, NEW fu, Good(s, own, D, sh, fu),
         NEW p \in Files(own, D), p[1] \in s.mapped, NEW n \in Nat
  PROVE  Quiet(s, FlushBlock(s, p, n), own, D, sh, fu)
<1> DEFINE m == file_map_block(s, p, n, FALSE, TRUE)
<1>1. FlushBlock(s, p, n) = IF m.r >= 0 /\ block_is_dirty(m.fs, m.r) THEN write_block(m.fs, m.r)
                            ELSE m.fs
  BY DEF FlushBlock, Given
<1>2. MapFound(s, own, m, p, n, D, sh, fu)
  BY MapFinds
<1> HIDE DEF m
<1>3. CASE m.r >= 0 /\ block_is_dirty(m.fs, m.r)
  <2>1. own[m.r] # NoOwner /\ own[m.r][2] >= 0
    <3>0. ~(m.r < 0)
      BY <1>2, <1>3 DEF MapFound
    <3>1. own[m.r] = <<p, n>> /\ p # NULL
      BY <1>2, <3>0, FileSlots DEF MapFound, Good, Tree
    <3> QED
      BY <3>1 DEF NoOwner
  <2>2. Good(m.fs, own, D, sh, fu) /\ m.r \in m.fs.mapped
    BY <1>2, <1>3 DEF MapFound, Quiet, block_is_dirty
  <2>3. Quiet(m.fs, write_block(m.fs, m.r), own, D, sh, fu)
    BY <2>1, <2>2, WriteQuiet
  <2> QED
    BY <1>1, <1>2, <1>3, <2>3, QuietTrans DEF MapFound
<1>4. CASE ~(m.r >= 0 /\ block_is_dirty(m.fs, m.r))
  BY <1>1, <1>2, <1>4 DEF MapFound
<1> QED
  BY <1>3, <1>4

(* The loop of file_flush: g[k] is the state after k blocks. *)
LEMMA FlushRuns ==
  ASSUME NEW s, NEW p, NEW n \in Nat
  PROVE  \E g : /\ FlushBlocks(s, p, n) = g[n] /\ g[0] = s
                /\ \A k \in 1..n : g[k] = FlushBlock(g[k - 1], p, k - 1)
<1> DEFINE first      == s
           Op(a, i)   == FlushBlock(a, p, i)
           Runs(m, g) == g = [k \in 0..m |-> IF k = 0 THEN first ELSE Op(g[k - 1], 0 + k - 1)]
           F          == CHOOSE g : Runs(n - 0, g)
<1>1. FlushBlocks(s, p, n) = IF 0 < n THEN F[n - 0] ELSE first
  BY DEF FlushBlocks, Loop
<1>2. \A m \in 0..n : \E g : Runs(m, g)
  <2> DEFINE P == {m \in 0..n : \E g : Runs(m, g)}
  <2>1. 0 \in P
    <3> DEFINE g == [k \in 0..0 |-> first]
    <3>1. g = [k \in 0..0 |-> IF k = 0 THEN first ELSE Op(g[k - 1], 0 + k - 1)]
      OBVIOUS
    <3>2. Runs(0, g) /\ 0 \in 0..n
      BY <3>1
    <3> HIDE DEF Runs, g
    <3> QED
      BY <3>2
  <2>2. ASSUME NEW m \in 1..n, m - 1 \in P PROVE m \in P
    <3> HIDE DEF Op, first
    <3>1. PICK g : Runs(m - 1, g)
      BY <2>2
    <3> DEFINE h == [k \in 0..m |-> IF k = 0 THEN first ELSE Op(g[k - 1], 0 + k - 1)]
    <3>2. DOMAIN g = 0..(m - 1) /\ g[0] = first
          /\ \A k \in 1..(m - 1) : g[k] = Op(g[k - 1], 0 + k - 1)
      BY <3>1
    <3>3. ASSUME NEW k \in 1..m PROVE h[k - 1] = g[k - 1]
      <4>1. CASE k = 1
        BY <3>2, <4>1
      <4>2. CASE k # 1
        <5>1. k - 1 \in 1..(m - 1) /\ k - 1 \in 0..m /\ k - 1 # 0
          BY <4>2
        <5> QED
          BY <3>2, <5>1
      <4> QED
        BY <4>1, <4>2
    <3>4. h = [k \in 0..m |-> IF k = 0 THEN first ELSE Op(h[k - 1], 0 + k - 1)]
      <4>1. ASSUME NEW k \in 0..m
            PROVE  (IF k = 0 THEN first ELSE Op(g[k - 1], 0 + k - 1))
                     = IF k = 0 THEN first ELSE Op(h[k - 1], 0 + k - 1)
        <5>1. k # 0 => k \in 1..m
          OBVIOUS
        <5>2. k # 0 => g[k - 1] = h[k - 1]
          BY <3>3, <5>1
        <5> HIDE DEF h
        <5> QED
          BY <5>2
      <4> QED
        BY <4>1, Zenon
    <3>5. Runs(m, h)
      BY <3>4
    <3> HIDE DEF Runs, h
    <3> QED
      BY <3>5
  <2> HIDE DEF P
  <2>3. \A m \in 0..n : m \in P
    BY <2>1, <2>2, Induct
  <2> QED
    BY <2>3 DEF P
<1>3. n - 0 = n
  OBVIOUS
<1>4. Runs(n, F)
  <2> HIDE DEF Runs
  <2>1. n \in 0..n
    OBVIOUS
  <2>2. \E g : Runs(n - 0, g)
    BY <1>2, <1>3, <2>1
  <2>3. Runs(n - 0, F)
    BY <2>2, Zenon
  <2> QED
    BY <1>3, <2>3
<1> HIDE DEF F, Op, first
<1>5. F[0] = first /\ \A k \in 1..n : F[k] = Op(F[k - 1], 0 + k - 1)
  BY <1>4
<1>6. FlushBlocks(s, p, n) = F[n]
  BY <1>1, <1>3, <1>5
<1>7. \A k \in 1..n : 0 + k - 1 = k - 1
  OBVIOUS
<1>8. \A k \in 1..n : F[k] = Op(F[k - 1], k - 1)
  BY <1>5, <1>7
<1> QED
  BY <1>5, <1>6, <1>8 DEF Op, first

(* file_flush changes nothing of what a reader finds. *)
LEMMA FlushesBlocks ==
  ASSUME NEW s, NEW own, NEW D, NEW sh, NEW fu, Good(s, own, D, sh, fu),
         NEW p \in Files(own, D), p[1] \in s.mapped, NEW n \in Nat
  PROVE  Quiet(s, FlushBlocks(s, p, n), own, D, sh, fu)
<1>1. PICK g : /\ FlushBlocks(s, p, n) = g[n] /\ g[0] = s
               /\ \A k \in 1..n : g[k] = FlushBlock(g[k - 1], p, k - 1)
  BY FlushRuns
<1> DEFINE P == {k \in 0..n : Quiet(s, g[k], own, D, sh, fu)}
<1>2. 0 \in P
  BY <1>1 DEF Quiet
<1>3. ASSUME NEW k \in 1..n, k - 1 \in P PROVE k \in P
  <2>1. Quiet(s, g[k - 1], own, D, sh, fu)
    BY <1>3
  <2>2. Good(g[k - 1], own, D, sh, fu) /\ p[1] \in g[k - 1].mapped /\ k - 1 \in Nat
    BY <2>1 DEF Quiet
  <2>3. Quiet(g[k - 1], g[k], own, D, sh, fu)
    BY <1>1, <2>2, FlushesBlock
  <2> QED
    BY <2>1, <2>3, QuietTrans
<1> HIDE DEF P
<1>4. n \in P
  BY <1>2, <1>3, Induct
<1> QED
  BY <1>1, <1>4 DEF P

(* The size of a File is a number. *)
LEMMA FileHas ==
  ASSUME NEW s, NEW own, NEW D, Base(s), Tree(Seen(s), own, D),
         NEW p \in Files(own, D), p[1] \in s.mapped
  PROVE  /\ FileShape(D, p, File(s, p)) /\ File(s, p) = FileV(Seen(s), p) /\ OwnOk(own, D)
         /\ File(s, p).f_size \in Nat /\ File(s, p).f_size \div BY2BLK \in Nat
         /\ s.mapped \subseteq Blocks /\ p[1] \in Blocks
<1>1. OwnOk(own, D) /\ Shape(Seen(s), own, D) /\ s.mapped \subseteq Blocks
  BY DEF Tree, Base
<1>2. p[1] \in Blocks /\ File(s, p) = FileV(Seen(s), p)
  BY <1>1, FileSlots, FileSeen
<1>3. FileShape(D, p, File(s, p)) /\ File(s, p).f_size \in Nat
  BY <1>1, <1>2 DEF Shape, FileShape, IsFile
<1> QED
  BY <1>1, <1>2, <1>3, Consts, DivMod

(* All of it *)
LEMMA FlushesFile ==
  ASSUME NEW s, NEW own, NEW D, NEW sh, NEW fu, Good(s, own, D, sh, fu),
         NEW p \in Files(own, D), p[1] \in s.mapped
  PROVE  Quiet(s, file_flush(s, p), own, D, sh, fu)
<1> DEFINE n == File(s, p).f_size \div BY2BLK + 1
<1>1. n \in Nat
  <2>1. File(s, p).f_size \div BY2BLK \in Nat
    BY FileHas DEF Good
  <2> QED
    BY <2>1
<1>2. file_flush(s, p) = FlushBlocks(s, p, n)
  BY DEF file_flush
<1> HIDE DEF n
<1> QED
  BY <1>1, <1>2, FlushesBlocks

(* The directory of a File is flushed too (FlushDir). *)
LEMMA FlushesDir ==
  ASSUME NEW s, NEW own, NEW D, NEW sh, NEW fu, Good(s, own, D, sh, fu), NEW p, Usable(s, own, D, p)
  PROVE  Quiet(s, FlushDir(s, p), own, D, sh, fu)
<1> DEFINE d == File(s, p).f_dir
<1>1. p \in Files(own, D) /\ p[1] \in s.mapped
  BY DEF Usable
<1>2. FileShape(D, p, File(s, p)) /\ OwnOk(own, D)
  BY <1>1, FileHas DEF Good
<1>3. CASE d = NULL
  BY <1>3 DEF FlushDir, Quiet
<1>4. CASE d # NULL
  <2>1. d \in Files(own, D) /\ d[1] \in s.mapped
    BY <1>2, <1>4 DEF FileShape, OwnOk, Usable
  <2>2. FlushDir(s, p) = file_flush(s, d)
    BY <1>4 DEF FlushDir
  <2> HIDE DEF d
  <2> QED
    BY <2>1, <2>2, FlushesFile
<1> QED
  BY <1>3, <1>4

(* A File that may be used is the same after a step that changes nothing. *)
LEMMA QuietUsable ==
  ASSUME NEW s, NEW t, NEW own, NEW D, NEW sh, NEW fu, Good(s, own, D, sh, fu),
         Quiet(s, t, own, D, sh, fu), NEW p, Usable(s, own, D, p)
  PROVE  Usable(t, own, D, p) /\ File(t, p) = File(s, p)
<1>1. p \in Files(own, D) /\ p[1] \in s.mapped /\ p[1] \in t.mapped
  BY DEF Usable, Quiet
<1>2. File(s, p) = FileV(Seen(s), p) /\ File(t, p) = FileV(Seen(t), p)
  <2>1. p[1] \in Blocks
    BY <1>1 DEF Good, Base
  <2> QED
    BY <1>1, <2>1, FileSeen
<1>3. File(t, p) = File(s, p)
  BY <1>2 DEF Quiet
<1> QED
  BY <1>1, <1>3 DEF Usable, Quiet

(* file_close *)
LEMMA ClosesFile ==
  ASSUME NEW s, NEW own, NEW D, NEW sh, NEW fu, Good(s, own, D, sh, fu), NEW p, Usable(s, own, D, p)
  PROVE  Quiet(s, file_close(s, p), own, D, sh, fu)
<1> DEFINE t == file_flush(s, p)
<1>1. Quiet(s, t, own, D, sh, fu)
  BY FlushesFile DEF Usable
<1>2. file_close(s, p) = FlushDir(t, p)
  BY DEF file_close
<1> HIDE DEF t
<1>3. Usable(t, own, D, p) /\ Good(t, own, D, sh, fu)
  BY <1>1, QuietUsable DEF Quiet
<1>4. Quiet(t, FlushDir(t, p), own, D, sh, fu)
  BY <1>3, FlushesDir
<1> QED
  BY <1>1, <1>2, <1>4, QuietTrans

(* The dirty requests of a close: g[k] is the state after k of them. *)
LEMMA DirtyRuns ==
  ASSUME NEW s, NEW p, NEW n \in Nat
  PROVE  \E g : /\ DirtyBlocks(s, p, n) = g[n] /\ g[0] = s
                /\ \A k \in 1..n : g[k] = file_dirty(g[k - 1], p, (k - 1) * BY2BLK).fs
<1> DEFINE first      == s
           Op(a, i)   == file_dirty(a, p, (i) * BY2BLK).fs
           Runs(m, g) == g = [k \in 0..m |-> IF k = 0 THEN first ELSE Op(g[k - 1], 0 + k - 1)]
           F          == CHOOSE g : Runs(n - 0, g)
<1>1. DirtyBlocks(s, p, n) = IF 0 < n THEN F[n - 0] ELSE first
  BY DEF DirtyBlocks, Loop
<1>2. \A m \in 0..n : \E g : Runs(m, g)
  <2> DEFINE P == {m \in 0..n : \E g : Runs(m, g)}
  <2>1. 0 \in P
    <3> DEFINE g == [k \in 0..0 |-> first]
    <3>1. g = [k \in 0..0 |-> IF k = 0 THEN first ELSE Op(g[k - 1], 0 + k - 1)]
      OBVIOUS
    <3>2. Runs(0, g) /\ 0 \in 0..n
      BY <3>1
    <3> HIDE DEF Runs, g
    <3> QED
      BY <3>2
  <2>2. ASSUME NEW m \in 1..n, m - 1 \in P PROVE m \in P
    <3> HIDE DEF Op, first
    <3>1. PICK g : Runs(m - 1, g)
      BY <2>2
    <3> DEFINE h == [k \in 0..m |-> IF k = 0 THEN first ELSE Op(g[k - 1], 0 + k - 1)]
    <3>2. DOMAIN g = 0..(m - 1) /\ g[0] = first
          /\ \A k \in 1..(m - 1) : g[k] = Op(g[k - 1], 0 + k - 1)
      BY <3>1
    <3>3. ASSUME NEW k \in 1..m PROVE h[k - 1] = g[k - 1]
      <4>1. CASE k = 1
        BY <3>2, <4>1
      <4>2. CASE k # 1
        <5>1. k - 1 \in 1..(m - 1) /\ k - 1 \in 0..m /\ k - 1 # 0
          BY <4>2
        <5> QED
          BY <3>2, <5>1
      <4> QED
        BY <4>1, <4>2
    <3>4. h = [k \in 0..m |-> IF k = 0 THEN first ELSE Op(h[k - 1], 0 + k - 1)]
      <4>1. ASSUME NEW k \in 0..m
            PROVE  (IF k = 0 THEN first ELSE Op(g[k - 1], 0 + k - 1))
                     = IF k = 0 THEN first ELSE Op(h[k - 1], 0 + k - 1)
        <5>1. k # 0 => k \in 1..m
          OBVIOUS
        <5>2. k # 0 => g[k - 1] = h[k - 1]
          BY <3>3, <5>1
        <5> HIDE DEF h
        <5> QED
          BY <5>2
      <4> QED
        BY <4>1, Zenon
    <3>5. Runs(m, h)
      BY <3>4
    <3> HIDE DEF Runs, h
    <3> QED
      BY <3>5
  <2> HIDE DEF P
  <2>3. \A m \in 0..n : m \in P
    BY <2>1, <2>2, Induct
  <2> QED
    BY <2>3 DEF P
<1>3. n - 0 = n
  OBVIOUS
<1>4. Runs(n, F)
  <2> HIDE DEF Runs
  <2>1. n \in 0..n
    OBVIOUS
  <2>2. \E g : Runs(n - 0, g)
    BY <1>2, <1>3, <2>1
  <2>3. Runs(n - 0, F)
    BY <2>2, Zenon
  <2> QED
    BY <1>3, <2>3
<1> HIDE DEF F, Op, first
<1>5. F[0] = first /\ \A k \in 1..n : F[k] = Op(F[k - 1], 0 + k - 1)
  BY <1>4
<1>6. DirtyBlocks(s, p, n) = F[n]
  BY <1>1, <1>3, <1>5
<1>7. \A k \in 1..n : 0 + k - 1 = k - 1
  OBVIOUS
<1>8. \A k \in 1..n : F[k] = Op(F[k - 1], k - 1)
  BY <1>5, <1>7
<1> QED
  BY <1>5, <1>6, <1>8 DEF Op, first

(* They change nothing of what a reader finds. *)
LEMMA DirtiesBlocks ==
  ASSUME NEW s, NEW own, NEW D, NEW sh, NEW fu, Good(s, own, D, sh, fu),
         NEW p \in Files(own, D), p[1] \in s.mapped, NEW n \in Nat
  PROVE  Quiet(s, DirtyBlocks(s, p, n), own, D, sh, fu)
<1>1. PICK g : /\ DirtyBlocks(s, p, n) = g[n] /\ g[0] = s
               /\ \A k \in 1..n : g[k] = file_dirty(g[k - 1], p, (k - 1) * BY2BLK).fs
  BY DirtyRuns
<1> DEFINE P == {k \in 0..n : Quiet(s, g[k], own, D, sh, fu)}
<1>2. 0 \in P
  BY <1>1 DEF Quiet
<1>3. ASSUME NEW k \in 1..n, k - 1 \in P PROVE k \in P
  <2>1. Quiet(s, g[k - 1], own, D, sh, fu)
    BY <1>3
  <2>2. Good(g[k - 1], own, D, sh, fu) /\ p[1] \in g[k - 1].mapped /\ k - 1 \in Nat
    BY <2>1 DEF Quiet
  <2>3. Quiet(g[k - 1], g[k], own, D, sh, fu)
    BY <1>1, <2>2, DirtyFile
  <2> QED
    BY <2>1, <2>3, QuietTrans
<1> HIDE DEF P
<1>4. n \in P
  BY <1>2, <1>3, Induct
<1> QED
  BY <1>1, <1>4 DEF P

(* One block of fs_sync: only blocks of files are dirty. *)
LEMMA SyncsBlock ==
  ASSUME NEW s, NEW own, NEW D, NEW sh, NEW fu, Good(s, own, D, sh, fu), NEW b
  PROVE  Quiet(s, SyncBlock(s, b), own, D, sh, fu)
<1>1. CASE block_is_dirty(s, b)
  <2>1. b \in s.mapped /\ b \in s.dirty
    BY <1>1 DEF block_is_dirty
  <2>2. sh \/ (own[b] # NoOwner /\ own[b][2] >= 0)
    BY <2>1 DEF Good, DiskOk
  <2>3. SyncBlock(s, b) = write_block(s, b)
    BY <1>1 DEF SyncBlock
  <2> QED
    BY <2>1, <2>2, <2>3, WriteQuiet
<1>2. CASE ~block_is_dirty(s, b)
  BY <1>2 DEF SyncBlock, Quiet
<1> QED
  BY <1>1, <1>2

(* The loop of fs_sync: g[k] is the state after k blocks. *)
LEMMA SyncRuns ==
  ASSUME NEW s, NEW n \in Nat
  PROVE  \E g : /\ SyncBlocks(s, n) = g[n] /\ g[0] = s
                /\ \A k \in 1..n : g[k] = SyncBlock(g[k - 1], k - 1)
<1> DEFINE first      == s
           Op(a, i)   == SyncBlock(a, i)
           Runs(m, g) == g = [k \in 0..m |-> IF k = 0 THEN first ELSE Op(g[k - 1], 0 + k - 1)]
           F          == CHOOSE g : Runs(n - 0, g)
<1>1. SyncBlocks(s, n) = IF 0 < n THEN F[n - 0] ELSE first
  BY DEF SyncBlocks, Loop
<1>2. \A m \in 0..n : \E g : Runs(m, g)
  <2> DEFINE P == {m \in 0..n : \E g : Runs(m, g)}
  <2>1. 0 \in P
    <3> DEFINE g == [k \in 0..0 |-> first]
    <3>1. g = [k \in 0..0 |-> IF k = 0 THEN first ELSE Op(g[k - 1], 0 + k - 1)]
      OBVIOUS
    <3>2. Runs(0, g) /\ 0 \in 0..n
      BY <3>1
    <3> HIDE DEF Runs, g
    <3> QED
      BY <3>2
  <2>2. ASSUME NEW m \in 1..n, m - 1 \in P PROVE m \in P
    <3> HIDE DEF Op, first
    <3>1. PICK g : Runs(m - 1, g)
      BY <2>2
    <3> DEFINE h == [k \in 0..m |-> IF k = 0 THEN first ELSE Op(g[k - 1], 0 + k - 1)]
    <3>2. DOMAIN g = 0..(m - 1) /\ g[0] = first
          /\ \A k \in 1..(m - 1) : g[k] = Op(g[k - 1], 0 + k - 1)
      BY <3>1
    <3>3. ASSUME NEW k \in 1..m PROVE h[k - 1] = g[k - 1]
      <4>1. CASE k = 1
        BY <3>2, <4>1
      <4>2. CASE k # 1
        <5>1. k - 1 \in 1..(m - 1) /\ k - 1 \in 0..m /\ k - 1 # 0
          BY <4>2
        <5> QED
          BY <3>2, <5>1
      <4> QED
        BY <4>1, <4>2
    <3>4. h = [k \in 0..m |-> IF k = 0 THEN first ELSE Op(h[k - 1], 0 + k - 1)]
      <4>1. ASSUME NEW k \in 0..m
            PROVE  (IF k = 0 THEN first ELSE Op(g[k - 1], 0 + k - 1))
                     = IF k = 0 THEN first ELSE Op(h[k - 1], 0 + k - 1)
        <5>1. k # 0 => k \in 1..m
          OBVIOUS
        <5>2. k # 0 => g[k - 1] = h[k - 1]
          BY <3>3, <5>1
        <5> HIDE DEF h
        <5> QED
          BY <5>2
      <4> QED
        BY <4>1, Zenon
    <3>5. Runs(m, h)
      BY <3>4
    <3> HIDE DEF Runs, h
    <3> QED
      BY <3>5
  <2> HIDE DEF P
  <2>3. \A m \in 0..n : m \in P
    BY <2>1, <2>2, Induct
  <2> QED
    BY <2>3 DEF P
<1>3. n - 0 = n
  OBVIOUS
<1>4. Runs(n, F)
  <2> HIDE DEF Runs
  <2>1. n \in 0..n
    OBVIOUS
  <2>2. \E g : Runs(n - 0, g)
    BY <1>2, <1>3, <2>1
  <2>3. Runs(n - 0, F)
    BY <2>2, Zenon
  <2> QED
    BY <1>3, <2>3
<1> HIDE DEF F, Op, first
<1>5. F[0] = first /\ \A k \in 1..n : F[k] = Op(F[k - 1], 0 + k - 1)
  BY <1>4
<1>6. SyncBlocks(s, n) = F[n]
  BY <1>1, <1>3, <1>5
<1>7. \A k \in 1..n : 0 + k - 1 = k - 1
  OBVIOUS
<1>8. \A k \in 1..n : F[k] = Op(F[k - 1], k - 1)
  BY <1>5, <1>7
<1> QED
  BY <1>5, <1>6, <1>8 DEF Op, first

(* fs_sync changes nothing of what a reader finds. *)
LEMMA SyncsBlocks ==
  ASSUME NEW s, NEW own, NEW D, NEW sh, NEW fu, Good(s, own, D, sh, fu), NEW n \in Nat
  PROVE  Quiet(s, SyncBlocks(s, n), own, D, sh, fu)
<1>1. PICK g : /\ SyncBlocks(s, n) = g[n] /\ g[0] = s
               /\ \A k \in 1..n : g[k] = SyncBlock(g[k - 1], k - 1)
  BY SyncRuns
<1> DEFINE P == {k \in 0..n : Quiet(s, g[k], own, D, sh, fu)}
<1>2. 0 \in P
  BY <1>1 DEF Quiet
<1>3. ASSUME NEW k \in 1..n, k - 1 \in P PROVE k \in P
  <2>1. Quiet(s, g[k - 1], own, D, sh, fu)
    BY <1>3
  <2>2. Good(g[k - 1], own, D, sh, fu)
    BY <2>1 DEF Quiet
  <2>3. Quiet(g[k - 1], g[k], own, D, sh, fu)
    BY <1>1, <2>2, SyncsBlock
  <2> QED
    BY <2>1, <2>3, QuietTrans
<1> HIDE DEF P
<1>4. n \in P
  BY <1>2, <1>3, Induct
<1> QED
  BY <1>1, <1>4 DEF P

----------------------------------------------------------------------------
(* Blocks are given back. *)

(* Blocks are freed, and the machine must not stop any more. *)
Freeing(sh) == sh = TRUE

(* The owners that are left when the pointers of p with numbers in N are     *)
(* cleared                                                                   *)
Without(own, p, N) ==
  [b \in Blocks |-> IF own[b][1] = p /\ own[b][2] \in N THEN NoOwner ELSE own[b]]

Drops(s, own, u, own2, D, p, N) ==
  /\ s.mapped \subseteq u.mapped
  /\ own2 = Without(own, p, N)
  /\ \A q \in Files(own, D) : q # p => FileV(Seen(u), q) = FileV(Seen(s), q)
  /\ FileV(Seen(u), p).f_size = FileV(Seen(s), p).f_size
  /\ FileV(Seen(u), p).f_dir = FileV(Seen(s), p).f_dir

(* The files are the same, as those of a directory keep their blocks. *)
LEMMA DropsFiles ==
  ASSUME NEW own, NEW D, OwnOk(own, D), NEW p \in Files(own, D), p \notin D, NEW N, NEW own2,
         own2 = Without(own, p, N)
  PROVE  /\ Files(own2, D) = Files(own, D)
         /\ \A b \in Blocks : own2[b] = own[b] \/ (own2[b] = NoOwner /\ own[b][1] = p)
<1> USE DEF Without
<1>1. NULL \notin D
  BY Unowned
<1>2. \A b \in Blocks : HasFiles(own2, D, b) <=> HasFiles(own, D, b)
  BY <1>1 DEF HasFiles, IsDirBlk, NoOwner
<1>3. \A q \in Slots : q[1] \in Blocks
  BY DEF Slots
<1>4. Files(own2, D) = Files(own, D)
  BY <1>2, <1>3 DEF Files
<1> QED
  BY <1>4

(* One way to grow *)
LEMMA DropsGrows ==
  ASSUME NEW s, NEW own, NEW u, NEW own2, NEW D, OwnOk(own, D), s.mapped \subseteq Blocks,
         NEW p \in Files(own, D), p \notin D, NEW N, Drops(s, own, u, own2, D, p, N)
  PROVE  Grows(s, own, u, own2, D)
<1>1. \A b \in Blocks : own2[b] = own[b] \/ (own2[b] = NoOwner /\ own[b][1] = p)
  BY DEF Drops, Without
<1>2. ASSUME NEW q \in Files(own, D), q[1] \in s.mapped PROVE File(u, q).f_dir = File(s, q).f_dir
  <2>1. File(s, q) = FileV(Seen(s), q) /\ File(u, q) = FileV(Seen(u), q)
    BY <1>2, FileSeen DEF Drops
  <2> QED
    BY <2>1 DEF Drops
<1> QED
  BY <1>1, <1>2 DEF Grows, Drops

(* First some, then others *)
LEMMA DropsTrans ==
  ASSUME NEW s, NEW own, NEW t, NEW own1, NEW u, NEW own2, NEW D, OwnOk(own, D),
         NEW p \in Files(own, D), p \notin D, NEW M, NEW N,
         Drops(s, own, t, own1, D, p, M), Drops(t, own1, u, own2, D, p, N)
  PROVE  Drops(s, own, u, own2, D, p, M \cup N)
<1>3. own1 = Without(own, p, M)
  BY DEF Drops
<1>1. Files(own1, D) = Files(own, D)
  BY <1>3, DropsFiles
<1>2. p # NULL
  BY FileSlots
<1>4. own2 = Without(own1, p, N)
  BY DEF Drops
<1>5. ASSUME NEW b \in Blocks
      PROVE  (IF own1[b][1] = p /\ own1[b][2] \in N THEN NoOwner ELSE own1[b])
               = IF own[b][1] = p /\ own[b][2] \in M \cup N THEN NoOwner ELSE own[b]
  BY <1>2, <1>3 DEF NoOwner, Without
<1>6. own2 = Without(own, p, M \cup N)
  BY <1>4, <1>5 DEF Without
<1> QED
  BY <1>1, <1>6 DEF Drops

(* Where p has no block that a pointer in N leads to, nothing is left out. *)
LEMMA DropsNothing ==
  ASSUME NEW s, NEW own, NEW u, NEW D, OwnOk(own, D), NEW p, NEW N,
         \A b \in Blocks : own[b][1] = p => own[b][2] \notin N,
         s.mapped \subseteq u.mapped, Seen(u) = Seen(s)
  PROVE  Drops(s, own, u, own, D, p, N)
<1>1. own = [b \in Blocks |-> own[b]]
  BY DEF OwnOk
<1>2. own = Without(own, p, N)
  BY <1>1 DEF Without
<1> QED
  BY <1>2 DEF Drops

(* Bit x of the bitmap is set (free_block). *)
LEMMA FreeBlockIs ==
  ASSUME NEW s, NEW own, NEW D, NEW sh, NEW fu, Good(s, own, D, sh, fu), NEW x \in 3..(NBLOCK - 1)
  PROVE  LET t == free_block(s, x)
         IN  /\ Base(t) /\ Tree(Seen(t), own, D) /\ t.mapped = s.mapped
             /\ t.dirty = s.dirty /\ t.cache[BITMAP] = s.cache[BITMAP] \cup {x}
             /\ \A b \in Blocks : b # BITMAP => t.cache[b] = s.cache[b] /\ Seen(t)[b] = Seen(s)[b]
<1> DEFINE t == free_block(s, x)
<1>1. Base(s) /\ IsFs(s) /\ BITMAP \in Blocks /\ OwnOk(own, D) /\ Tree(Seen(s), own, D)
  BY Consts DEF Good, Base, Tree
<1>2. t = [s EXCEPT !.cache[BITMAP] = @ \cup {x}]
  BY Consts DEF free_block
<1> HIDE DEF t
<1>3. /\ IsFs(t) /\ t.mapped = s.mapped /\ t.dirty = s.dirty /\ t.disk = s.disk /\ t.panic = s.panic
      /\ t.cache[BITMAP] = s.cache[BITMAP] \cup {x}
      /\ \A b \in Blocks : b # BITMAP => t.cache[b] = s.cache[b]
  BY <1>1, <1>2 DEF IsFs
<1>4. Base(t)
  BY <1>1, <1>3 DEF Base
<1>5. \A b \in Blocks : b # BITMAP => Seen(t)[b] = Seen(s)[b]
  BY <1>3 DEF Seen, At
<1>6. ~HasFiles(own, D, BITMAP) /\ ~IsInd(own, BITMAP)
  BY <1>1, Consts, Unowned
<1>7. Tree(Seen(t), own, D)
  BY <1>1, <1>5, <1>6, DataChanges
<1> QED
  BY <1>3, <1>4, <1>5, <1>7 DEF t

(* The owners when block x is free and nothing points to it any more. *)
LEMMA UnlinkOwners ==
  ASSUME NEW v, NEW own, NEW D, Tree(v, own, D),
         NEW p \in Files(own, D), NEW n \in Index, NEW x, x = PtrV(v, p, n), x # 0,
         NEW C, FreeOk(C, own)
  PROVE  /\ NewOwn(own, p, n, x, 0) = Without(own, p, {n})
         /\ FreeOk(C \cup {x}, NewOwn(own, p, n, x, 0))
         /\ Full(C, own) => Full(C \cup {x}, NewOwn(own, p, n, x, 0))
<1> DEFINE own2 == NewOwn(own, p, n, x, 0)
<1>1. OwnOk(own, D) /\ Links(v, own, D) /\ Exact(v, own) /\ Shape(v, own, D)
  BY DEF Tree
<1>2. x \in Blocks /\ own[x] = <<p, n>> /\ p # NULL /\ x >= 3
  <2>1. x \in Blocks /\ own[x] = <<p, n>> /\ p # NULL
    BY <1>1, PtrIsBlock, FileSlots DEF Links
  <2> QED
    BY <1>1, <2>1, OwnerIs DEF NoOwner
<1>3. \A b \in Blocks : own2[b] = IF b = x THEN NoOwner ELSE own[b]
  BY DEF NewOwn
<1>4. \A b \in Blocks : own[b][1] = p /\ own[b][2] = n <=> b = x
  <2> SUFFICES ASSUME NEW b \in Blocks, own[b][1] = p, own[b][2] = n PROVE b = x
    BY <1>2
  <2>1. own[b] # NoOwner
    BY <1>2 DEF NoOwner
  <2>2. PtrV(v, own[b][1], own[b][2]) = b
    BY <1>1, <2>1 DEF Exact, Linked
  <2> QED
    BY <2>2
<1>5. own2 = Without(own, p, {n})
  <2>1. own2 = [b \in Blocks |-> IF b = x THEN NoOwner ELSE own[b]]
    BY DEF NewOwn
  <2> QED
    BY <1>4, <2>1 DEF Without
<1> HIDE DEF own2
<1>6. x \in 3..(NBLOCK - 1) /\ \A b \in 3..(NBLOCK - 1) : b \in Blocks
  BY <1>2, Consts DEF Blocks
<1>7. FreeOk(C \cup {x}, own2)
  BY <1>3, <1>6 DEF FreeOk
<1>8. Full(C, own) => Full(C \cup {x}, own2)
  BY <1>3, <1>6 DEF Full
<1> QED
  BY <1>5, <1>7, <1>8 DEF own2


(* The invariant then: the machine must not stop any more. *)
LEMMA UnlinkGood ==
  ASSUME NEW s, NEW own, NEW D, NEW sh, NEW fu, Good(s, own, D, sh, fu), Freeing(sh),
         NEW u, Base(u), NEW own2, Tree(Seen(u), own2, D),
         FreeOk(u.cache[BITMAP], own2), Full(s.cache[BITMAP], own) => Full(u.cache[BITMAP], own2)
  PROVE  Good(u, own2, D, sh, fu)
BY DEF Good, Freeing

(* The block that a pointer leads to is freed; nothing else changes for a    *)
(* reader (file_clear_block, file_truncate).                                 *)
Freed(s, t, own, D, p, n, x) ==
  /\ x \in 3..(NBLOCK - 1) /\ MayPoint(Seen(t), own, D, p, n, 0) /\ PtrV(Seen(t), p, n) = x
  /\ Base(t) /\ Tree(Seen(t), own, D) /\ t.mapped = s.mapped
  /\ t.cache[BITMAP] = s.cache[BITMAP] \cup {x}
  /\ File(t, p) = File(s, p) /\ File(t, p) = FileV(Seen(t), p)
  /\ \A m \in Index : PtrV(Seen(t), p, m) = PtrV(Seen(s), p, m)
  /\ \A q \in Files(own, D) : FileV(Seen(t), q) = FileV(Seen(s), q)

(* For every pointer of a file that is no directory *)
LEMMA Frees ==
  ASSUME NEW s, NEW own, NEW D, NEW sh, NEW fu, Good(s, own, D, sh, fu),
         NEW p \in Files(own, D), p \notin D, p[1] \in s.mapped, NEW n \in Index,
         NEW x, x = PtrV(Seen(s), p, n), x # 0
  PROVE  Freed(s, free_block(s, x), own, D, p, n, x)
<1> DEFINE t == free_block(s, x)
<1>1. Tree(Seen(s), own, D) /\ OwnOk(own, D) /\ Links(Seen(s), own, D) /\ Shape(Seen(s), own, D)
      /\ Base(s) /\ s.mapped \subseteq Blocks
  BY DEF Good, Tree, Base
<1>2. x \in Blocks /\ own[x] = <<p, n>> /\ p # NULL
  BY <1>1, PtrIsBlock, FileSlots DEF Links
<1>3. x >= 3
  BY <1>1, <1>2, OwnerIs DEF NoOwner
<1>4. x \in 3..(NBLOCK - 1)
  BY <1>2, <1>3, Consts DEF Blocks
<1>5. /\ Base(t) /\ Tree(Seen(t), own, D) /\ t.mapped = s.mapped
      /\ t.dirty = s.dirty /\ t.cache[BITMAP] = s.cache[BITMAP] \cup {x}
      /\ \A b \in Blocks : b # BITMAP => t.cache[b] = s.cache[b] /\ Seen(t)[b] = Seen(s)[b]
  BY <1>4, FreeBlockIs
<1> HIDE DEF t
<1>6. \A q \in Files(own, D) : q[1] \in Blocks /\ q[1] # BITMAP
  BY <1>1, FileSlots
<1>7. \A q \in Files(own, D) : FileV(Seen(t), q) = FileV(Seen(s), q)
  BY <1>5, <1>6 DEF FileV
<1>8. File(t, p) = File(s, p)
  BY <1>5, <1>6 DEF File
<1>9. File(t, p) = FileV(Seen(t), p)
  BY <1>5, <1>6, FileSeen
<1>10. \A m \in Index : PtrV(Seen(t), p, m) = PtrV(Seen(s), p, m)
  <2> SUFFICES ASSUME NEW m \in Index PROVE PtrV(Seen(t), p, m) = PtrV(Seen(s), p, m)
    OBVIOUS
  <2> DEFINE i == FileV(Seen(s), p).f_indirect
  <2>1. i # 0 => i \in Blocks /\ i # BITMAP
    <3>1. i # 0 => i \in Blocks /\ IsInd(own, i)
      BY <1>1, IndirectBlock
    <3> QED
      BY <1>1, <3>1, OwnerIs DEF IsInd
  <2>2. i # 0 => Seen(t)[i] = Seen(s)[i]
    BY <1>5, <2>1
  <2> QED
    BY <1>7, <2>2 DEF PtrV
<1>11. 0 \in Blocks
  BY Consts
<1>12. MayPoint(Seen(t), own, D, p, n, 0)
  BY <1>5, <1>11 DEF MayPoint
<1> QED
  BY <1>4, <1>5, <1>7, <1>8, <1>9, <1>10, <1>12 DEF Freed, t

(* The File points to the freed block no more. *)
LEMMA UnlinkFile ==
  ASSUME NEW s, NEW own, NEW D, NEW sh, NEW fu, Good(s, own, D, sh, fu), Freeing(sh),
         NEW p \in Files(own, D), p \notin D, p[1] \in s.mapped, NEW n \in Index,
         NEW x, x # 0, NEW t, Freed(s, t, own, D, p, n, x),
         NEW f, \/ n \in Direct /\ f = [File(s, p) EXCEPT !.f_direct[n] = 0]
                \/ n = -1 /\ f = [File(s, p) EXCEPT !.f_indirect = 0]
                   /\ \A m \in Indirect : PtrV(Seen(s), p, m) = 0
  PROVE  LET u == SetFile(t, p, f)
         IN  Good(u, Without(own, p, {n}), D, sh, fu)
             /\ Drops(s, own, u, Without(own, p, {n}), D, p, {n})
<1> DEFINE u    == SetFile(t, p, f)
           own2 == Without(own, p, {n})
<1> USE DEF Freed
<1>1. Tree(Seen(t), own, D) /\ OwnOk(own, D) /\ Shape(Seen(t), own, D) /\ s.mapped \subseteq Blocks
  BY DEF Tree, Good, Base
<1>2. p[1] # BITMAP /\ p[1] \in Blocks /\ p[1] \in t.mapped
  BY <1>1, FileSlots
<1>3. /\ Base(u) /\ FilePut(Seen(t), Seen(u), p, f, 0) /\ u.cache[BITMAP] = t.cache[BITMAP]
      /\ u.mapped = t.mapped
  BY <1>2, SetFileSeen
<1> HIDE DEF u
<1>4. ~HasFiles(own, D, 0)
  BY <1>1, Consts, Unowned
<1>5. FileV(Seen(u), p) = f /\ \A q \in Files(own, D) : q # p => FileV(Seen(u), q) = FileV(Seen(t), q)
  BY <1>1, <1>3, <1>4, OthersStay
<1>6. f.f_size = File(s, p).f_size /\ f.f_dir = File(s, p).f_dir
  <2>1. IsFile(File(s, p))
    BY <1>1 DEF Shape, FileShape
  <2> QED
    BY <2>1 DEF IsFile
<1>7. Tree(Seen(u), NewOwn(own, p, n, x, 0), D)
  <2>1. CASE n \in Direct
    <3>1. f = [FileV(Seen(t), p) EXCEPT !.f_direct[n] = 0]
      BY <2>1, Consts DEF Direct
    <3> QED
      BY <1>3, <2>1, <3>1, DirectChanges
  <2>2. CASE n = -1
    <3>1. f = [FileV(Seen(t), p) EXCEPT !.f_indirect = 0]
      BY <2>2, Consts DEF Direct
    <3>2. \A m \in Indirect : m \in Index
      BY Consts DEF Indirect, Index
    <3>3. \A m \in Indirect : PtrV(Seen(t), p, m) = 0
      BY <2>2, <3>2, Consts DEF Direct
    <3>4. MayPoint(Seen(t), own, D, p, -1, 0) /\ PtrV(Seen(t), p, -1) = x
      BY <2>2
    <3> QED
      BY <1>3, <2>2, <3>1, <3>3, <3>4, IndirectChanges
  <2> QED
    BY <2>1, <2>2
<1>8. x = PtrV(Seen(s), p, n)
  OBVIOUS
<1>9. u.cache[BITMAP] = s.cache[BITMAP] \cup {x}
  BY <1>3
<1>10. Good(u, NewOwn(own, p, n, x, 0), D, sh, fu) /\ NewOwn(own, p, n, x, 0) = Without(own, p, {n})
  <2> DEFINE C == s.cache[BITMAP]
             own1 == NewOwn(own, p, n, x, 0)
  <2>1. Tree(Seen(s), own, D) /\ FreeOk(C, own)
    BY DEF Good
  <2>2. /\ own1 = own2
        /\ FreeOk(C \cup {x}, own1)
        /\ Full(C, own) => Full(C \cup {x}, own1)
    BY <2>1, <1>8, UnlinkOwners
  <2>3. Base(u) /\ Tree(Seen(u), own1, D) /\ u.cache[BITMAP] = C \cup {x}
    BY <1>3, <1>7, <1>8, <1>9
  <2> HIDE DEF C, own1, own2, Freed
  <2>4. Good(u, own1, D, sh, fu)
    BY <2>2, <2>3, UnlinkGood DEF C
  <2> QED
    BY <2>2, <2>4 DEF own1, own2
<1>11. \A q \in Files(own, D) : q # p => FileV(Seen(u), q) = FileV(Seen(s), q)
  BY <1>5
<1>12. FileV(Seen(u), p).f_size = FileV(Seen(s), p).f_size /\ FileV(Seen(u), p).f_dir = FileV(Seen(s), p).f_dir
  BY <1>5, <1>6
<1>13. Drops(s, own, u, own2, D, p, {n})
  BY <1>3, <1>11, <1>12 DEF Drops
<1> QED
  BY <1>10, <1>13 DEF u

(* The indirect block points to the freed block no more. *)
LEMMA UnlinkEntry ==
  ASSUME NEW s, NEW own, NEW D, NEW sh, NEW fu, Good(s, own, D, sh, fu), Freeing(sh),
         NEW p \in Files(own, D), p \notin D, p[1] \in s.mapped, NEW n \in Indirect,
         NEW i, i = File(s, p).f_indirect, i # 0, i \in s.mapped,
         NEW x, x # 0, NEW t, Freed(s, t, own, D, p, n, x)
  PROVE  LET u == [t EXCEPT !.cache[i][n] = 0]
         IN  Good(u, Without(own, p, {n}), D, sh, fu)
             /\ Drops(s, own, u, Without(own, p, {n}), D, p, {n})
<1> DEFINE u    == [t EXCEPT !.cache[i][n] = 0]
           own2 == Without(own, p, {n})
<1> USE DEF Freed
<1>1. Tree(Seen(t), own, D) /\ OwnOk(own, D) /\ Shape(Seen(t), own, D) /\ Links(Seen(t), own, D)
      /\ s.mapped \subseteq Blocks /\ IsFs(t) /\ t.mapped \subseteq Blocks
  BY DEF Tree, Good, Base
<1>2. i = FileV(Seen(t), p).f_indirect /\ i \in Blocks /\ IsInd(own, i)
  BY <1>1, IndirectBlock
<1>3. ~HasFiles(own, D, i) /\ i # BITMAP
  BY <1>1, <1>2, IndNoFiles, OwnerIs DEF IsInd
<1>4. /\ IsFs(u) /\ u.mapped = t.mapped /\ u.dirty = t.dirty /\ u.disk = t.disk /\ u.panic = t.panic
      /\ u.cache[i] = [t.cache[i] EXCEPT ![n] = 0]
      /\ \A b \in Blocks : b # i => u.cache[b] = t.cache[b]
  BY <1>1, <1>2 DEF IsFs
<1> HIDE DEF u
<1>5. Base(u) /\ u.cache[BITMAP] = t.cache[BITMAP]
  BY <1>3, <1>4, Consts DEF Base
<1>6. Seen(u)[i] = [Seen(t)[i] EXCEPT ![n] = 0] /\ \A b \in Blocks : b # i => Seen(u)[b] = Seen(t)[b]
  <2>1. \A b \in Blocks : Seen(u)[b] = IF b \in u.mapped THEN u.cache[b] ELSE u.disk[b]
    BY DEF Seen, At
  <2>2. \A b \in Blocks : Seen(t)[b] = IF b \in t.mapped THEN t.cache[b] ELSE t.disk[b]
    BY DEF Seen, At
  <2>3. i \in t.mapped
    OBVIOUS
  <2> QED
    BY <1>2, <1>4, <2>1, <2>2, <2>3
<1>7. \A q \in Files(own, D) : FileV(Seen(u), q) = FileV(Seen(t), q)
  <2> SUFFICES ASSUME NEW q \in Files(own, D) PROVE FileV(Seen(u), q) = FileV(Seen(t), q)
    OBVIOUS
  <2>1. q[1] \in Blocks /\ q[1] # i
    BY <1>1, <1>3, FileSlots
  <2> QED
    BY <1>6, <2>1 DEF FileV
<1>8. Tree(Seen(u), NewOwn(own, p, n, PtrV(Seen(t), p, n), 0), D)
  <2>1. MayPoint(Seen(t), own, D, p, n, 0)
    OBVIOUS
  <2>2. Seen(u)[FileV(Seen(t), p).f_indirect] = [Seen(t)[FileV(Seen(t), p).f_indirect] EXCEPT ![n] = 0]
    BY <1>2, <1>6
  <2>3. \A b \in Blocks : b # FileV(Seen(t), p).f_indirect /\ b # 0 => Seen(u)[b] = Seen(t)[b]
    BY <1>2, <1>6
  <2>4. FileV(Seen(t), p).f_indirect # 0
    BY <1>2
  <2> QED
    BY <2>1, <2>2, <2>3, <2>4, EntryChanges
<1>9. n \in Index
  BY Consts DEF Indirect, Index
<1>10. x = PtrV(Seen(s), p, n) /\ x = PtrV(Seen(t), p, n)
  BY <1>9
<1>11. u.cache[BITMAP] = s.cache[BITMAP] \cup {x}
  BY <1>5
<1>12. Good(u, NewOwn(own, p, n, x, 0), D, sh, fu) /\ NewOwn(own, p, n, x, 0) = Without(own, p, {n})
  <2> DEFINE C == s.cache[BITMAP]
             own1 == NewOwn(own, p, n, x, 0)
  <2>1. Tree(Seen(s), own, D) /\ FreeOk(C, own)
    BY DEF Good
  <2>2. /\ own1 = own2
        /\ FreeOk(C \cup {x}, own1)
        /\ Full(C, own) => Full(C \cup {x}, own1)
    BY <2>1, <1>9, <1>10, UnlinkOwners
  <2>3. Base(u) /\ Tree(Seen(u), own1, D) /\ u.cache[BITMAP] = C \cup {x}
    BY <1>5, <1>8, <1>9, <1>10, <1>11
  <2> HIDE DEF C, own1, own2, Freed
  <2>4. Good(u, own1, D, sh, fu)
    BY <2>2, <2>3, UnlinkGood DEF C
  <2> QED
    BY <2>2, <2>4 DEF own1, own2
<1>13. \A q \in Files(own, D) : FileV(Seen(u), q) = FileV(Seen(s), q)
  BY <1>7
<1>14. Drops(s, own, u, own2, D, p, {n})
  BY <1>4, <1>13 DEF Drops
<1> QED
  BY <1>12, <1>14 DEF u

(* An empty pointer owns nothing. *)
LEMMA EmptyOwns ==
  ASSUME NEW v, NEW own, NEW D, Tree(v, own, D), NEW p \in Files(own, D), NEW n,
         n \in Index => PtrV(v, p, n) = 0
  PROVE  \A b \in Blocks : own[b][1] = p => own[b][2] \notin {n}
<1> SUFFICES ASSUME NEW b \in Blocks, own[b][1] = p, own[b][2] = n PROVE FALSE
  OBVIOUS
<1>1. OwnOk(own, D) /\ p # NULL
  BY FileSlots DEF Tree
<1>2. own[b] # NoOwner
  BY <1>1 DEF NoOwner
<1>3. n \in Index /\ b # 0
  BY <1>1, <1>2, OwnerIs
<1>4. PtrV(v, p, n) = b
  BY <1>2 DEF Tree, Exact, Linked
<1> QED
  BY <1>3, <1>4

(* The blocks of p with a number in N are given back. *)
Clears(s, own, u, D, p, N, sh, fu) ==
  \E own2 : Good(u, own2, D, sh, fu) /\ Drops(s, own, u, own2, D, p, N)

(* Nothing is given back. *)
LEMMA ClearsNothing ==
  ASSUME NEW s, NEW own, NEW D, NEW sh, NEW fu, Good(s, own, D, sh, fu),
         NEW p \in Files(own, D), NEW n, n \in Index => PtrV(Seen(s), p, n) = 0,
         NEW u, Quiet(s, u, own, D, sh, fu)
  PROVE  Clears(s, own, u, D, p, {n}, sh, fu)
<1>1. Tree(Seen(s), own, D) /\ OwnOk(own, D)
  BY DEF Good, Tree
<1>2. \A b \in Blocks : own[b][1] = p => own[b][2] \notin {n}
  BY <1>1, EmptyOwns
<1>3. Good(u, own, D, sh, fu) /\ s.mapped \subseteq u.mapped /\ Seen(u) = Seen(s)
  BY DEF Quiet
<1> DEFINE N == {n}
<1> HIDE DEF N
<1>4. \A b \in Blocks : own[b][1] = p => own[b][2] \notin N
  BY <1>2 DEF N
<1>5. Drops(s, own, u, own, D, p, N)
  BY <1>1, <1>3, <1>4, DropsNothing
<1>6. Clears(s, own, u, D, p, N, sh, fu)
  BY <1>3, <1>5 DEF Clears
<1> QED
  BY <1>6 DEF N

(* Block n of a file, when the pointer to it is in the cache *)
LEMMA ClearsReached ==
  ASSUME NEW s, NEW own, NEW D, NEW sh, NEW fu, Good(s, own, D, sh, fu), Freeing(sh),
         NEW p \in Files(own, D), p \notin D, p[1] \in s.mapped, NEW n, Reach(s, p, n),
         Ptr(s, p, n) # 0
  PROVE  Clears(s, own, SetPtr(free_block(s, Ptr(s, p, n)), p, n, 0), D, p, {n}, sh, fu)
<1> DEFINE x == Ptr(s, p, n)
           t == free_block(s, x)
           u == SetPtr(t, p, n, 0)
<1>1. Base(s) /\ Tree(Seen(s), own, D)
  BY DEF Good
<1>2. /\ x = PtrV(Seen(s), p, n) /\ n \in Index
      /\ (n \in Direct /\ n < NDIRECT) \/ (n \in Indirect /\ ~(n < NDIRECT))
  BY <1>1, PtrReach
<1> HIDE DEF x
<1>3. Freed(s, t, own, D, p, n, x)
  BY <1>2, Frees DEF x
<1> HIDE DEF t
<1>4. File(t, p) = File(s, p)
  BY <1>3 DEF Freed
<1>5. x # 0
  BY DEF x
<1>6. Good(u, Without(own, p, {n}), D, sh, fu) /\ Drops(s, own, u, Without(own, p, {n}), D, p, {n})
  <2>1. CASE n \in Direct /\ n < NDIRECT
    <3> DEFINE f == [File(s, p) EXCEPT !.f_direct[n] = 0]
    <3>1. u = SetFile(t, p, f)
      BY <1>4, <2>1 DEF SetPtr
    <3>2. \/ n \in Direct /\ f = [File(s, p) EXCEPT !.f_direct[n] = 0]
          \/ n = -1 /\ f = [File(s, p) EXCEPT !.f_indirect = 0]
             /\ \A m \in Indirect : PtrV(Seen(s), p, m) = 0
      BY <2>1
    <3> HIDE DEF f, u
    <3>3. /\ Good(SetFile(t, p, f), Without(own, p, {n}), D, sh, fu)
          /\ Drops(s, own, SetFile(t, p, f), Without(own, p, {n}), D, p, {n})
      BY <1>2, <1>3, <1>5, <3>2, UnlinkFile
    <3> QED
      BY <3>1, <3>3
  <2>2. CASE n \in Indirect /\ ~(n < NDIRECT)
    <3> DEFINE i == File(s, p).f_indirect
    <3>1. u = [t EXCEPT !.cache[i][n] = 0]
      BY <1>4, <2>2 DEF SetPtr
    <3>2. i # 0 /\ i \in s.mapped
      BY <2>2 DEF Reach
    <3> HIDE DEF i, u
    <3>3. i = File(s, p).f_indirect
      BY DEF i
    <3>4. /\ Good([t EXCEPT !.cache[i][n] = 0], Without(own, p, {n}), D, sh, fu)
          /\ Drops(s, own, [t EXCEPT !.cache[i][n] = 0], Without(own, p, {n}), D, p, {n})
      BY <1>3, <1>5, <2>2, <3>2, <3>3, UnlinkEntry
    <3> QED
      BY <3>1, <3>4
  <2> QED
    BY <1>2, <2>1, <2>2
<1> HIDE DEF u
<1>7. Clears(s, own, u, D, p, {n}, sh, fu)
  BY <1>6 DEF Clears
<1> QED
  BY <1>7 DEF u, t, x

(* file_clear_block *)
LEMMA ClearsBlock ==
  ASSUME NEW s, NEW own, NEW D, NEW sh, NEW fu, Good(s, own, D, sh, fu), Freeing(sh),
         NEW p \in Files(own, D), p \notin D, p[1] \in s.mapped, NEW n \in Nat
  PROVE  Clears(s, own, file_clear_block(s, p, n), D, p, {n}, sh, fu)
<1> DEFINE w == file_block_walk(s, p, n, FALSE, TRUE)
           t == SetPtr(free_block(w.fs, Ptr(w.fs, p, n)), p, n, 0)
<1>1. file_clear_block(s, p, n) = IF w.r < 0 \/ Ptr(w.fs, p, n) = 0 THEN w.fs ELSE t
  BY DEF file_clear_block, Given
<1>2. WalkFound(s, own, w, p, n, D, sh, fu)
  BY WalkFinds
<1> HIDE DEF w
<1>3. Quiet(s, w.fs, own, D, sh, fu) /\ Good(w.fs, own, D, sh, fu) /\ p[1] \in w.fs.mapped
      /\ Seen(w.fs) = Seen(s) /\ s.mapped \subseteq w.fs.mapped
  BY <1>2 DEF WalkFound, Quiet
<1>4. Base(s) /\ Tree(Seen(s), own, D)
  BY DEF Good
<1>5. E_INVAL < 0 /\ E_NOT_FOUND < 0
  BY DEF E_INVAL, E_NOT_FOUND
<1>6. CASE w.r = E_INVAL /\ n >= NINDIRECT
  <2>1. n \notin Index
    BY <1>6, Consts DEF Index, NINDIRECT
  <2>2. Clears(s, own, w.fs, D, p, {n}, sh, fu)
    BY <1>3, <2>1, ClearsNothing
  <2> QED
    BY <1>1, <1>5, <1>6, <2>2
<1>7. CASE w.r = E_NOT_FOUND /\ n \in Indirect /\ File(s, p).f_indirect = 0
  <2>1. PtrV(Seen(s), p, n) = 0
    <3>1. File(s, p) = FileV(Seen(s), p)
      BY <1>4, FileHas
    <3> QED
      BY <1>7, <3>1, PtrIndirect
  <2>2. Clears(s, own, w.fs, D, p, {n}, sh, fu)
    BY <1>3, <2>1, ClearsNothing
  <2> QED
    BY <1>1, <1>5, <1>7, <2>2
<1>8. CASE w.r = 0 /\ Reach(w.fs, p, n) /\ Ptr(w.fs, p, n) = 0
  <2>1. Base(w.fs) /\ Tree(Seen(w.fs), own, D)
    BY <1>3 DEF Good
  <2>2. PtrV(Seen(w.fs), p, n) = 0
    BY <1>3, <1>8, <2>1, PtrReach
  <2>3. Clears(s, own, w.fs, D, p, {n}, sh, fu)
    BY <1>3, <2>2, ClearsNothing
  <2> QED
    BY <1>1, <1>8, <2>3
<1>9. CASE w.r = 0 /\ Reach(w.fs, p, n) /\ Ptr(w.fs, p, n) # 0
  <2>1. Clears(w.fs, own, t, D, p, {n}, sh, fu)
    BY <1>3, <1>9, ClearsReached
  <2> HIDE DEF t
  <2>2. Clears(s, own, t, D, p, {n}, sh, fu)
    BY <1>3, <2>1 DEF Clears, Drops
  <2>3. file_clear_block(s, p, n) = t
    BY <1>1, <1>9
  <2> QED
    BY <2>2, <2>3
<1> QED
  BY <1>2, <1>6, <1>7, <1>8, <1>9 DEF WalkFound

(* The loop of file_truncate: g[k] is the state after k blocks. *)
ClearRun(s, p, lo, hi, n, g) ==
  /\ n \in Nat /\ n = hi - lo
  /\ ClearBlocks(s, p, lo, hi) = g[n] /\ g[0] = s
  /\ \A k \in 1..n : g[k] = file_clear_block(g[k - 1], p, lo + k - 1)

(* It is a sequence of states. *)
LEMMA ClearRuns ==
  ASSUME NEW s, NEW p, NEW lo \in Nat, NEW hi \in Nat, lo < hi
  PROVE  \E n, g : ClearRun(s, p, lo, hi, n, g)
<1>0. PICK n \in Nat : n = hi - lo
  OBVIOUS
<1> DEFINE first      == s
           Op(a, i)   == file_clear_block(a, p, i)
           Runs(m, g) == g = [k \in 0..m |-> IF k = 0 THEN first ELSE Op(g[k - 1], lo + k - 1)]
           F          == CHOOSE g : Runs(hi - lo, g)
<1>1. ClearBlocks(s, p, lo, hi) = IF lo < hi THEN F[hi - lo] ELSE first
  BY DEF ClearBlocks, Loop
<1>2. \A m \in 0..n : \E g : Runs(m, g)
  <2> DEFINE P == {m \in 0..n : \E g : Runs(m, g)}
  <2>1. 0 \in P
    <3> DEFINE g == [k \in 0..0 |-> first]
    <3>1. g = [k \in 0..0 |-> IF k = 0 THEN first ELSE Op(g[k - 1], lo + k - 1)]
      OBVIOUS
    <3>2. Runs(0, g) /\ 0 \in 0..n
      BY <3>1
    <3> HIDE DEF Runs, g
    <3> QED
      BY <3>2
  <2>2. ASSUME NEW m \in 1..n, m - 1 \in P PROVE m \in P
    <3> HIDE DEF Op, first
    <3>1. PICK g : Runs(m - 1, g)
      BY <2>2
    <3> DEFINE h == [k \in 0..m |-> IF k = 0 THEN first ELSE Op(g[k - 1], lo + k - 1)]
    <3>2. DOMAIN g = 0..(m - 1) /\ g[0] = first
          /\ \A k \in 1..(m - 1) : g[k] = Op(g[k - 1], lo + k - 1)
      BY <3>1
    <3>3. ASSUME NEW k \in 1..m PROVE h[k - 1] = g[k - 1]
      <4>1. CASE k = 1
        BY <3>2, <4>1
      <4>2. CASE k # 1
        <5>1. k - 1 \in 1..(m - 1) /\ k - 1 \in 0..m /\ k - 1 # 0
          BY <4>2
        <5> QED
          BY <3>2, <5>1
      <4> QED
        BY <4>1, <4>2
    <3>4. h = [k \in 0..m |-> IF k = 0 THEN first ELSE Op(h[k - 1], lo + k - 1)]
      <4>1. ASSUME NEW k \in 0..m
            PROVE  (IF k = 0 THEN first ELSE Op(g[k - 1], lo + k - 1))
                     = IF k = 0 THEN first ELSE Op(h[k - 1], lo + k - 1)
        <5>1. k # 0 => k \in 1..m
          OBVIOUS
        <5>2. k # 0 => g[k - 1] = h[k - 1]
          BY <3>3, <5>1
        <5> HIDE DEF h
        <5> QED
          BY <5>2
      <4> QED
        BY <4>1, Zenon
    <3>5. Runs(m, h)
      BY <3>4
    <3> HIDE DEF Runs, h
    <3> QED
      BY <3>5
  <2> HIDE DEF P
  <2>3. \A m \in 0..n : m \in P
    BY <2>1, <2>2, Induct
  <2> QED
    BY <2>3 DEF P
<1>3. hi - lo = n
  BY <1>0
<1>4. Runs(n, F)
  <2> HIDE DEF Runs
  <2>1. n \in 0..n
    OBVIOUS
  <2>2. \E g : Runs(hi - lo, g)
    BY <1>2, <1>3, <2>1
  <2>3. Runs(hi - lo, F)
    BY <2>2, Zenon
  <2> QED
    BY <1>3, <2>3
<1> HIDE DEF F, Op, first
<1>5. F[0] = first /\ \A k \in 1..n : F[k] = Op(F[k - 1], lo + k - 1)
  BY <1>4
<1>6. ClearBlocks(s, p, lo, hi) = F[n]
  BY <1>1, <1>3, <1>5
<1>7. \A k \in 1..n : lo + k - 1 = lo + k - 1
  OBVIOUS
<1>8. \A k \in 1..n : F[k] = Op(F[k - 1], lo + k - 1)
  BY <1>5, <1>7
<1> QED
  BY <1>0, <1>5, <1>6, <1>8 DEF Op, first, ClearRun

(* All the blocks from lo to hi - 1 *)
LEMMA ClearsRange ==
  ASSUME NEW s, NEW own, NEW D, NEW sh, NEW fu, Good(s, own, D, sh, fu), Freeing(sh),
         NEW p \in Files(own, D), p \notin D, p[1] \in s.mapped, NEW lo \in Nat, NEW hi \in Nat
  PROVE  Clears(s, own, ClearBlocks(s, p, lo, hi), D, p, lo..(hi - 1), sh, fu)
<1>1. OwnOk(own, D)
  BY DEF Good, Tree
<1>2. ASSUME NEW t, t = s, NEW N, N = {} PROVE Clears(s, own, t, D, p, N, sh, fu)
  <2>1. \A b \in Blocks : own[b][1] = p => own[b][2] \notin N
    BY <1>2
  <2>2. Drops(s, own, s, own, D, p, N)
    BY <1>1, <2>1, DropsNothing
  <2> QED
    BY <1>2, <2>2 DEF Clears
<1>3. CASE ~(lo < hi)
  <2>1. ClearBlocks(s, p, lo, hi) = s
    BY <1>3 DEF ClearBlocks, Loop
  <2>2. lo..(hi - 1) = {}
    BY <1>3
  <2> QED
    BY <1>2, <2>1, <2>2
<1>4. CASE lo < hi
  <2>0. PICK n, g : ClearRun(s, p, lo, hi, n, g)
    BY <1>4, ClearRuns
  <2>1. n \in Nat /\ n = hi - lo
    BY <2>0 DEF ClearRun
  <2>2. /\ ClearBlocks(s, p, lo, hi) = g[n] /\ g[0] = s
        /\ \A k \in 1..n : g[k] = file_clear_block(g[k - 1], p, lo + k - 1)
    BY <2>0 DEF ClearRun
  <2> DEFINE R(k) == lo..(lo + k - 1)
             P    == {k \in 0..n : Clears(s, own, g[k], D, p, R(k), sh, fu)}
  <2>3. 0 \in P
    <3>1. R(0) = {}
      OBVIOUS
    <3> HIDE DEF R
    <3>2. Clears(s, own, g[0], D, p, R(0), sh, fu)
      BY <1>2, <2>2, <3>1
    <3> QED
      BY <2>1, <3>2
  <2>4. ASSUME NEW k \in 1..n, k - 1 \in P PROVE k \in P
    <3> DEFINE M == R(k - 1)
               m == lo + k - 1
               h == g[k - 1]
    <3>0. Clears(s, own, h, D, p, M, sh, fu)
      BY <2>4
    <3>1. m \in Nat
      OBVIOUS
    <3>2. M \cup {m} = R(k)
      OBVIOUS
    <3>3. g[k] = file_clear_block(h, p, m)
      BY <2>2
    <3> HIDE DEF M, m, h, R
    <3>4. PICK own1 : Good(h, own1, D, sh, fu) /\ Drops(s, own, h, own1, D, p, M)
      BY <3>0 DEF Clears
    <3>5. own1 = Without(own, p, M) /\ s.mapped \subseteq h.mapped
      BY <3>4 DEF Drops
    <3>6. p \in Files(own1, D) /\ p[1] \in h.mapped
      <4>1. Files(own1, D) = Files(own, D)
        BY <1>1, <3>5, DropsFiles
      <4> QED
        BY <3>5, <4>1
    <3>7. Clears(h, own1, g[k], D, p, {m}, sh, fu)
      <4>1. Clears(h, own1, file_clear_block(h, p, m), D, p, {m}, sh, fu)
        BY <3>1, <3>4, <3>6, ClearsBlock
      <4> QED
        BY <3>3, <4>1
    <3>8. PICK own2 : Good(g[k], own2, D, sh, fu) /\ Drops(h, own1, g[k], own2, D, p, {m})
      BY <3>7 DEF Clears
    <3>9. Drops(s, own, g[k], own2, D, p, M \cup {m})
      BY <1>1, <3>4, <3>8, DropsTrans
    <3>10. Clears(s, own, g[k], D, p, R(k), sh, fu)
      BY <3>2, <3>8, <3>9 DEF Clears
    <3> QED
      BY <3>10
  <2> HIDE DEF P
  <2>5. n \in P
    BY <2>1, <2>3, <2>4, Induct
  <2>6. Clears(s, own, g[n], D, p, R(n), sh, fu)
    BY <2>5 DEF P
  <2>7. R(n) = lo..(hi - 1)
    BY <2>1
  <2> QED
    BY <2>2, <2>6, <2>7
<1> QED
  BY <1>3, <1>4

(* A File changes its size and nothing else (FileSize). *)
LEMMA SizeGood ==
  ASSUME NEW s, NEW own, NEW D, NEW sh, NEW fu, Good(s, own, D, sh, fu),
         NEW p \in Files(own, D), p[1] \in s.mapped, NEW newsize \in Nat,
         \A b \in Blocks : own[b] # NoOwner /\ own[b][2] >= 0 /\ own[b][1] = p
           => Covered(D, p, own[b][2], newsize)
  PROVE  LET t == FileSize(s, p, newsize)
         IN  /\ Good(t, own, D, sh, fu) /\ Grows(s, own, t, own, D) /\ t.mapped = s.mapped
             /\ File(t, p) = [File(s, p) EXCEPT !.f_size = newsize]
             /\ \A q \in Files(own, D) : q # p => FileV(Seen(t), q) = FileV(Seen(s), q)
<1> DEFINE f == [File(s, p) EXCEPT !.f_size = newsize]
           t == FileSize(s, p, newsize)
<1>1. FileShape(D, p, File(s, p))
  BY FileHas DEF Good
<1>2. t = SetFile(s, p, f)
  BY DEF FileSize
<1>3. /\ FileShape(D, p, f) /\ f.f_direct = File(s, p).f_direct /\ f.f_indirect = File(s, p).f_indirect
      /\ f.f_size = newsize /\ f.f_dir = File(s, p).f_dir
  BY <1>1 DEF FileShape, IsFile
<1>4. f = [File(s, p) EXCEPT !.f_size = newsize]
  OBVIOUS
<1> HIDE DEF f
<1>5. \A b \in Blocks : own[b] # NoOwner /\ own[b][2] >= 0 /\ own[b][1] = p
           => Covered(D, p, own[b][2], f.f_size)
  BY <1>3
<1>6. /\ Good(SetFile(s, p, f), own, D, sh, fu) /\ SetFile(s, p, f).mapped = s.mapped
      /\ File(SetFile(s, p, f), p) = f
      /\ \A q \in Files(own, D) : q # p => FileV(Seen(SetFile(s, p, f)), q) = FileV(Seen(s), q)
      /\ f.f_dir = File(s, p).f_dir \/ f.f_dir[1] \in s.mapped => Grows(s, own, SetFile(s, p, f), own, D)
  BY <1>3, <1>5, FileGood
<1> QED
  BY <1>2, <1>3, <1>4, <1>6

(* The numbers of the blocks of p are below lo. *)
Below(own, p, lo) ==
  \A b \in Blocks : own[b] # NoOwner /\ own[b][1] = p /\ own[b][2] >= 0 => own[b][2] < lo

Shortened(s, own, u, own2, D, p, lo, sh, fu) ==
  /\ Good(u, own2, D, sh, fu) /\ Grows(s, own, u, own2, D) /\ Below(own2, p, lo)
  /\ p \in Files(own2, D) /\ p[1] \in u.mapped

(* The loop of file_truncate *)
LEMMA ClearsFile ==
  ASSUME NEW s, NEW own, NEW D, NEW sh, NEW fu, Good(s, own, D, sh, fu), Freeing(sh),
         NEW p \in Files(own, D), p \notin D, p[1] \in s.mapped, NEW newsize \in Nat
  PROVE  /\ NewBlocks(newsize) \in Nat
         /\ \E own2 : Shortened(s, own, Cleared(s, p, newsize), own2, D, p, NewBlocks(newsize), sh, fu)
<1> DEFINE lo   == NewBlocks(newsize)
           size == File(s, p).f_size
           hi   == size \div BY2BLK + 1
           t    == Cleared(s, p, newsize)
<1>1. lo \in Nat
  <2>1. newsize \div BY2BLK \in Nat
    BY Consts, DivMod
  <2> QED
    BY <2>1 DEF NewBlocks
<1>2. /\ size \in Nat /\ size \div BY2BLK \in Nat /\ OwnOk(own, D) /\ s.mapped \subseteq Blocks
      /\ size = FileV(Seen(s), p).f_size
  BY FileHas DEF Good
<1>3. hi \in Nat
  BY <1>2
<1>4. t = ClearBlocks(s, p, lo, hi)
  BY DEF Cleared
<1> HIDE DEF lo, hi
<1>5. Clears(s, own, t, D, p, lo..(hi - 1), sh, fu)
  <2>1. Clears(s, own, ClearBlocks(s, p, lo, hi), D, p, lo..(hi - 1), sh, fu)
    BY <1>1, <1>3, ClearsRange
  <2> HIDE DEF t
  <2> QED
    BY <1>4, <2>1
<1> HIDE DEF t
<1>6. PICK own2 : Good(t, own2, D, sh, fu) /\ Drops(s, own, t, own2, D, p, lo..(hi - 1))
  BY <1>5 DEF Clears
<1>7. Grows(s, own, t, own2, D)
  BY <1>2, <1>6, DropsGrows
<1>8. own2 = Without(own, p, lo..(hi - 1)) /\ s.mapped \subseteq t.mapped
  BY <1>6 DEF Drops
<1>9. p \in Files(own2, D)
  <2> DEFINE N == lo..(hi - 1)
  <2>1. own2 = Without(own, p, N)
    BY <1>8
  <2> HIDE DEF N
  <2>2. Files(own2, D) = Files(own, D)
    BY <1>2, <2>1, DropsFiles
  <2> QED
    BY <2>2
<1>10. Below(own2, p, lo)
  <2> SUFFICES ASSUME NEW b \in Blocks, own2[b] # NoOwner, own2[b][1] = p, own2[b][2] >= 0
               PROVE  own2[b][2] < lo
    BY DEF Below
  <2> DEFINE m == own[b][2]
  <2>1. own2[b] = own[b] /\ m \notin lo..(hi - 1) /\ own[b][1] = p
    BY <1>8 DEF Without
  <2>2. own[b] # NoOwner /\ m \in Index /\ m >= 0
    BY <1>2, <2>1, OwnerIs
  <2>3. InSize(Seen(s), own, D, b)
    BY <2>2 DEF Good, Tree, Sized
  <2>4. m * BY2BLK <= size
    BY <1>2, <2>1, <2>3 DEF InSize, Covered
  <2>5. m \in Nat
    BY <2>2 DEF Index
  <2> HIDE DEF m
  <2>6. m <= size \div BY2BLK
    BY <1>2, <2>4, <2>5, Consts, DivMod
  <2>7. m <= hi - 1
    BY <1>2, <2>6 DEF hi
  <2> QED
    BY <1>1, <1>3, <2>1, <2>5, <2>7 DEF m
<1>11. Shortened(s, own, t, own2, D, p, lo, sh, fu)
  BY <1>6, <1>7, <1>8, <1>9, <1>10 DEF Shortened
<1> QED
  BY <1>1, <1>11 DEF lo, t

(* The indirect block is given back when no pointer in it is used. *)
LEMMA ClearsIndirect ==
  ASSUME NEW s, NEW own, NEW D, NEW sh, NEW fu, Good(s, own, D, sh, fu), Freeing(sh),
         NEW p \in Files(own, D), p \notin D, p[1] \in s.mapped,
         NEW lo \in Nat, Below(own, p, lo), lo <= NDIRECT, File(s, p).f_indirect # 0
  PROVE  LET t == free_block(s, File(s, p).f_indirect)
             u == SetFile(t, p, [File(t, p) EXCEPT !.f_indirect = 0])
         IN  \E own2 : Shortened(s, own, u, own2, D, p, lo, sh, fu)
<1> DEFINE i == File(s, p).f_indirect
           t == free_block(s, i)
           f == [File(t, p) EXCEPT !.f_indirect = 0]
           u == SetFile(t, p, f)
           own2 == Without(own, p, {-1})
<1>1. /\ Tree(Seen(s), own, D) /\ OwnOk(own, D) /\ s.mapped \subseteq Blocks
      /\ File(s, p) = FileV(Seen(s), p)
  BY FileHas DEF Good
<1>2. i = PtrV(Seen(s), p, -1) /\ -1 \in Index /\ i # 0
  BY <1>1, Consts DEF PtrV, Index, NINDIRECT
<1> HIDE DEF i
<1>3. Freed(s, t, own, D, p, -1, i)
  BY <1>2, Frees
<1>4. File(t, p) = File(s, p)
  BY <1>3 DEF Freed
<1>5. \A m \in Indirect : PtrV(Seen(s), p, m) = 0
  <2> SUFFICES ASSUME NEW m \in Indirect, PtrV(Seen(s), p, m) # 0 PROVE FALSE
    OBVIOUS
  <2>1. m \in Index /\ m >= NDIRECT /\ m >= 0 /\ m \in Int
    BY Consts DEF Indirect, Index
  <2>2. PtrV(Seen(s), p, m) \in Blocks /\ own[PtrV(Seen(s), p, m)] = <<p, m>> /\ p # NULL
    BY <1>1, <2>1, PtrIsBlock, FileSlots DEF Tree, Links
  <2>3. m < lo
    BY <2>1, <2>2 DEF Below, NoOwner
  <2> QED
    BY <2>1, <2>3, Consts
<1>6. Good(u, own2, D, sh, fu) /\ Drops(s, own, u, own2, D, p, {-1})
  <2>1. \/ -1 \in Direct /\ f = [File(s, p) EXCEPT !.f_direct[-1] = 0]
        \/ -1 = -1 /\ f = [File(s, p) EXCEPT !.f_indirect = 0]
                   /\ \A m \in Indirect : PtrV(Seen(s), p, m) = 0
    BY <1>4, <1>5
  <2> HIDE DEF t, f
  <2> QED
    BY <1>2, <1>3, <2>1, UnlinkFile
<1> HIDE DEF u
<1>7. Grows(s, own, u, own2, D) /\ s.mapped \subseteq u.mapped
  BY <1>1, <1>6, DropsGrows DEF Drops
<1>8. p \in Files(own2, D)
  <2> HIDE DEF own2
  <2>1. own2 = Without(own, p, {-1})
    BY DEF own2
  <2>2. Files(own2, D) = Files(own, D)
    <3> DEFINE N == {-1}
    <3> HIDE DEF N
    <3>1. own2 = Without(own, p, N)
      BY <2>1 DEF N
    <3> QED
      BY <1>1, <3>1, DropsFiles
  <2> QED
    BY <2>2
<1>9. Below(own2, p, lo)
  BY DEF Below, Without
<1>10. Shortened(s, own, u, own2, D, p, lo, sh, fu)
  BY <1>6, <1>7, <1>8, <1>9 DEF Shortened
<1> QED
  BY <1>10 DEF u, t, f, i

(* file_truncate *)
LEMMA Truncates ==
  ASSUME NEW s, NEW own, NEW D, NEW sh, NEW fu, Good(s, own, D, sh, fu), Freeing(sh),
         NEW p \in Files(own, D), p \notin D, p[1] \in s.mapped, NEW newsize \in Nat
  PROVE  /\ \E own2 : Shortened(s, own, file_truncate(s, p, newsize), own2, D, p, NewBlocks(newsize),
                                sh, fu)
         /\ File(file_truncate(s, p, newsize), p).f_size = newsize
<1> DEFINE lo == NewBlocks(newsize)
           c  == Cleared(s, p, newsize)
           t  == free_block(c, File(c, p).f_indirect)
           n  == SetFile(t, p, [File(t, p) EXCEPT !.f_indirect = 0])
           e  == IF lo <= NDIRECT /\ File(c, p).f_indirect # 0 THEN n ELSE c
           u  == FileSize(e, p, newsize)
<1>1. file_truncate(s, p, newsize) = u
  BY DEF file_truncate, Given
<1>2. lo \in Nat
  BY ClearsFile
<1>3. PICK own1 : Shortened(s, own, c, own1, D, p, lo, sh, fu)
  BY ClearsFile
<1>4. \E own2 : Shortened(s, own, e, own2, D, p, lo, sh, fu)
  <2>1. CASE lo <= NDIRECT /\ File(c, p).f_indirect # 0
    <3>1. Good(c, own1, D, sh, fu) /\ p \in Files(own1, D) /\ p[1] \in c.mapped /\ Below(own1, p, lo)
          /\ Grows(s, own, c, own1, D)
      BY <1>3 DEF Shortened
    <3> HIDE DEF c, lo
    <3>2. PICK own2 : Shortened(c, own1, n, own2, D, p, lo, sh, fu)
      BY <1>2, <2>1, <3>1, ClearsIndirect
    <3>3. e = n
      BY <2>1
    <3> HIDE DEF n, e
    <3>4. OwnOk(own, D) /\ Grows(c, own1, n, own2, D)
      BY <3>2 DEF Good, Tree, Shortened
    <3>5. Grows(s, own, n, own2, D)
      BY <3>1, <3>4, GrowsTrans
    <3>6. Shortened(s, own, n, own2, D, p, lo, sh, fu)
      BY <3>2, <3>5 DEF Shortened
    <3> QED
      BY <3>3, <3>6
  <2>2. CASE ~(lo <= NDIRECT /\ File(c, p).f_indirect # 0)
    <3>1. e = c
      BY <2>2
    <3> HIDE DEF e, c, lo
    <3> QED
      BY <1>3, <3>1
  <2> QED
    BY <2>1, <2>2
<1> HIDE DEF e, c
<1>5. PICK own2 : Shortened(s, own, e, own2, D, p, lo, sh, fu)
  BY <1>4
<1>6. Good(e, own2, D, sh, fu) /\ p \in Files(own2, D) /\ p[1] \in e.mapped /\ Below(own2, p, lo)
      /\ Grows(s, own, e, own2, D) /\ OwnOk(own, D) /\ OwnOk(own2, D)
  BY <1>5 DEF Shortened, Good, Tree
<1>7. \A b \in Blocks : own2[b] # NoOwner /\ own2[b][2] >= 0 /\ own2[b][1] = p
           => Covered(D, p, own2[b][2], newsize)
  <2> SUFFICES ASSUME NEW b \in Blocks, own2[b] # NoOwner, own2[b][2] >= 0, own2[b][1] = p
               PROVE  Covered(D, p, own2[b][2], newsize)
    OBVIOUS
  <2>1. PICK m \in Int : m = own2[b][2]
    BY <1>6, OwnerIs DEF Index
  <2>2. m < lo /\ m >= 0
    BY <1>6, <2>1 DEF Below
  <2>3. newsize # 0 /\ lo = newsize \div BY2BLK + 1
    BY <2>1, <2>2 DEF NewBlocks
  <2>4. newsize \div BY2BLK \in Nat /\ newsize = (newsize \div BY2BLK) * BY2BLK + (newsize % BY2BLK)
        /\ newsize % BY2BLK \in 0..(BY2BLK - 1)
    BY Consts, DivMod
  <2>5. m <= newsize \div BY2BLK
    BY <2>1, <2>2, <2>3, <2>4
  <2>6. m * BY2BLK <= (newsize \div BY2BLK) * BY2BLK
    BY <2>1, <2>2, <2>4, <2>5, Consts
  <2>7. m * BY2BLK \in Int /\ (newsize \div BY2BLK) * BY2BLK \in Int
    <3>1. \A a \in Int : a * BY2BLK \in Int
      BY Consts
    <3>2. newsize \div BY2BLK \in Int
      BY <2>4
    <3> QED
      BY <2>1, <3>1, <3>2
  <2>8. m * BY2BLK <= newsize
    BY <2>4, <2>6, <2>7
  <2> QED
    BY <2>1, <2>8 DEF Covered
<1> HIDE DEF lo
<1>8. /\ Good(u, own2, D, sh, fu) /\ Grows(e, own2, u, own2, D) /\ u.mapped = e.mapped
      /\ File(u, p) = [File(e, p) EXCEPT !.f_size = newsize]
  BY <1>6, <1>7, SizeGood
<1> HIDE DEF u
<1>9. Grows(s, own, u, own2, D)
  BY <1>6, <1>8, GrowsTrans
<1>10. File(u, p).f_size = newsize
  <2>1. IsFile(File(e, p))
    BY <1>6, FileHas DEF Good, FileShape
  <2> QED
    BY <1>8, <2>1 DEF IsFile
<1>11. Shortened(s, own, u, own2, D, p, lo, sh, fu)
  BY <1>6, <1>8, <1>9 DEF Shortened
<1> QED
  BY <1>1, <1>10, <1>11 DEF lo

(* A step after which the files are a tree again *)
Keeps(s, own, u, D, sh, fu) ==
  \E own2 : Good(u, own2, D, sh, fu) /\ Grows(s, own, u, own2, D)

(* The machine may have to go on without a stop. *)
LEMMA GoodFreeing ==
  ASSUME NEW s, NEW own, NEW D, NEW sh, NEW fu, Good(s, own, D, sh, fu), NEW sh2, Freeing(sh2)
  PROVE  Good(s, own, D, sh2, fu)
BY DEF Good, Freeing

(* A step and then a quiet one *)
LEMMA KeepsQuiet ==
  ASSUME NEW s, NEW own, NEW D, NEW sh, NEW fu, OwnOk(own, D),
         NEW t, NEW own1, Good(t, own1, D, sh, fu), Grows(s, own, t, own1, D),
         NEW u, Quiet(t, u, own1, D, sh, fu)
  PROVE  Keeps(s, own, u, D, sh, fu)
<1>1. OwnOk(own1, D) /\ t.mapped \subseteq Blocks
  BY DEF Good, Tree, Base
<1>2. Grows(t, own1, u, own1, D)
  BY <1>1, QuietGrows
<1>3. Grows(s, own, u, own1, D)
  BY <1>2, GrowsTrans
<1> QED
  BY <1>3 DEF Keeps, Quiet

(* file_set_size for more *)
LEMMA SetsSizeUp ==
  ASSUME NEW s, NEW own, NEW D, NEW sh, NEW fu, Good(s, own, D, sh, fu),
         NEW p, Usable(s, own, D, p), p \notin D, NEW newsize \in Nat, ~(File(s, p).f_size > newsize)
  PROVE  Keeps(s, own, file_set_size(s, p, newsize), D, sh, fu)
<1> DEFINE t == FileSize(s, p, newsize)
<1>1. file_set_size(s, p, newsize) = FlushDir(t, p)
  BY DEF file_set_size
<1>2. p \in Files(own, D) /\ p[1] \in s.mapped
  BY DEF Usable
<1>3. /\ OwnOk(own, D) /\ File(s, p) = FileV(Seen(s), p) /\ File(s, p).f_size \in Nat
  BY <1>2, FileHas DEF Good
<1>4. \A b \in Blocks : own[b] # NoOwner /\ own[b][2] >= 0 /\ own[b][1] = p
           => Covered(D, p, own[b][2], newsize)
  <2> SUFFICES ASSUME NEW b \in Blocks, own[b] # NoOwner, own[b][2] >= 0, own[b][1] = p
               PROVE  Covered(D, p, own[b][2], newsize)
    OBVIOUS
  <2>1. InSize(Seen(s), own, D, b)
    BY DEF Good, Tree, Sized
  <2>2. PICK m \in Int : m = own[b][2]
    BY <1>3, OwnerIs DEF Index
  <2>3. m * BY2BLK <= File(s, p).f_size
    BY <1>3, <2>1, <2>2 DEF InSize, Covered
  <2>4. m * BY2BLK \in Int
    BY Consts
  <2>5. m * BY2BLK <= newsize
    BY <1>3, <2>3, <2>4
  <2> QED
    BY <2>2, <2>5 DEF Covered
<1>5. Good(t, own, D, sh, fu) /\ Grows(s, own, t, own, D)
  BY <1>2, <1>4, SizeGood
<1> HIDE DEF t
<1>6. Usable(t, own, D, p)
  BY <1>3, <1>5, GrowsUsable
<1>7. Quiet(t, FlushDir(t, p), own, D, sh, fu)
  BY <1>5, <1>6, FlushesDir
<1> QED
  BY <1>1, <1>3, <1>5, <1>7, KeepsQuiet

(* file_set_size for less *)
LEMMA SetsSizeDown ==
  ASSUME NEW s, NEW own, NEW D, NEW sh, NEW fu, Good(s, own, D, sh, fu), Freeing(sh),
         NEW p, Usable(s, own, D, p), p \notin D, NEW newsize \in Nat, File(s, p).f_size > newsize
  PROVE  Keeps(s, own, file_set_size(s, p, newsize), D, sh, fu)
<1> DEFINE e == file_truncate(s, p, newsize)
           t == FileSize(e, p, newsize)
<1>1. file_set_size(s, p, newsize) = FlushDir(t, p)
  BY DEF file_set_size
<1>2. p \in Files(own, D) /\ p[1] \in s.mapped /\ OwnOk(own, D)
  BY DEF Usable, Good, Tree
<1>3. PICK own2 : Shortened(s, own, e, own2, D, p, NewBlocks(newsize), sh, fu)
  BY <1>2, Truncates
<1>4. File(e, p).f_size = newsize
  BY <1>2, Truncates
<1> HIDE DEF e
<1>5. Good(e, own2, D, sh, fu) /\ p \in Files(own2, D) /\ p[1] \in e.mapped /\ Grows(s, own, e, own2, D)
  BY <1>3 DEF Shortened
<1>6. OwnOk(own2, D) /\ File(e, p) = FileV(Seen(e), p)
  BY <1>5, FileHas DEF Good
<1>7. \A b \in Blocks : own2[b] # NoOwner /\ own2[b][2] >= 0 /\ own2[b][1] = p
           => Covered(D, p, own2[b][2], newsize)
  <2> SUFFICES ASSUME NEW b \in Blocks, own2[b] # NoOwner, own2[b][2] >= 0, own2[b][1] = p
               PROVE  Covered(D, p, own2[b][2], newsize)
    OBVIOUS
  <2>1. InSize(Seen(e), own2, D, b)
    BY <1>5 DEF Good, Tree, Sized
  <2> QED
    BY <1>4, <1>6, <2>1 DEF InSize
<1>8. Good(t, own2, D, sh, fu) /\ Grows(e, own2, t, own2, D)
  BY <1>5, <1>7, SizeGood
<1> HIDE DEF t
<1>9. Grows(s, own, t, own2, D)
  BY <1>2, <1>5, <1>8, GrowsTrans
<1>10. Usable(t, own2, D, p)
  BY <1>2, <1>9, GrowsUsable
<1>11. Quiet(t, FlushDir(t, p), own2, D, sh, fu)
  BY <1>8, <1>10, FlushesDir
<1> QED
  BY <1>1, <1>2, <1>8, <1>9, <1>11, KeepsQuiet

(* A File gets a name. *)
LEMMA NameGood ==
  ASSUME NEW s, NEW own, NEW D, NEW sh, NEW fu, Good(s, own, D, sh, fu),
         NEW p \in Files(own, D), p[1] \in s.mapped, NEW name, p = Root => name # "OOPS!"
  PROVE  LET t == SetFile(s, p, [File(s, p) EXCEPT !.f_name = name])
         IN  Good(t, own, D, sh, fu) /\ Grows(s, own, t, own, D) /\ t.mapped = s.mapped
<1> DEFINE f == [File(s, p) EXCEPT !.f_name = name]
           t == SetFile(s, p, f)
<1>1. FileShape(D, p, File(s, p)) /\ File(s, p) = FileV(Seen(s), p)
  BY FileHas DEF Good
<1>2. /\ FileShape(D, p, f) /\ f.f_direct = File(s, p).f_direct /\ f.f_indirect = File(s, p).f_indirect
      /\ f.f_size = File(s, p).f_size /\ f.f_dir = File(s, p).f_dir
  BY <1>1 DEF FileShape, IsFile
<1> HIDE DEF f
<1>3. \A b \in Blocks : own[b] # NoOwner /\ own[b][2] >= 0 /\ own[b][1] = p
           => Covered(D, p, own[b][2], f.f_size)
  BY <1>1, <1>2 DEF Good, Tree, Sized, InSize
<1>4. /\ Good(t, own, D, sh, fu) /\ t.mapped = s.mapped
      /\ f.f_dir = File(s, p).f_dir \/ f.f_dir[1] \in s.mapped => Grows(s, own, t, own, D)
  BY <1>2, <1>3, FileGood
<1> QED
  BY <1>2, <1>4 DEF f

(* file_remove once it has the File *)
Removed(s, p) ==
  LET t == file_truncate(s, p, 0)
  IN  file_close(SetFile(t, p, [File(t, p) EXCEPT !.f_name = ""]), p)

(* Its blocks are given back. *)
LEMMA RemovesFile ==
  ASSUME NEW s, NEW own, NEW D, NEW sh, NEW fu, Good(s, own, D, sh, fu), Freeing(sh),
         NEW p, Usable(s, own, D, p), p \notin D
  PROVE  Keeps(s, own, Removed(s, p), D, sh, fu)
<1> DEFINE e    == file_truncate(s, p, 0)
           name == ""
           t    == SetFile(e, p, [File(e, p) EXCEPT !.f_name = name])
<1>1. Removed(s, p) = file_close(t, p)
  BY DEF Removed
<1> HIDE DEF name
<1>2. p \in Files(own, D) /\ p[1] \in s.mapped /\ OwnOk(own, D)
  BY DEF Usable, Good, Tree
<1>3. PICK own2 : Shortened(s, own, e, own2, D, p, NewBlocks(0), sh, fu)
  BY <1>2, Truncates
<1> HIDE DEF e
<1>4. Good(e, own2, D, sh, fu) /\ p \in Files(own2, D) /\ p[1] \in e.mapped /\ Grows(s, own, e, own2, D)
  BY <1>3 DEF Shortened
<1>5. p # Root
  BY <1>2 DEF OwnOk
<1>6. Good(t, own2, D, sh, fu) /\ Grows(e, own2, t, own2, D)
  BY <1>4, <1>5, NameGood
<1> HIDE DEF t
<1>7. Grows(s, own, t, own2, D)
  BY <1>2, <1>4, <1>6, GrowsTrans
<1>8. Usable(t, own2, D, p)
  BY <1>2, <1>7, GrowsUsable
<1>9. Quiet(t, file_close(t, p), own2, D, sh, fu)
  BY <1>6, <1>8, ClosesFile
<1> QED
  BY <1>1, <1>2, <1>6, <1>7, <1>9, KeepsQuiet

----------------------------------------------------------------------------
(* Directories and paths *)

(* A search in a directory: it is stopped, or finds nothing or fails, or     *)
(* finds a File with a page.                                                 *)
SearchDone(s, own, a, D, sh, fu) ==
  \/ Stops(a.r, a.fs)
  \/ a.r < 0 /\ Moves(s, own, a.fs, D, sh, fu)
  \/ a.r = 0 /\ \E own2 : /\ Good(a.fs, own2, D, sh, fu) /\ Widens(s, own, a.fs, own2, D)
                          /\ a.file \in Files(own2, D) /\ a.file[1] \in a.fs.mapped
                          /\ a.file[1] # SUPER

(* The blocks of a directory hold Files. *)
LEMMA BlockFiles ==
  ASSUME NEW own, NEW D, OwnOk(own, D), NEW p \in D, NEW i \in Nat, NEW b \in Blocks,
         own[b] = <<p, i>>, NEW j \in 1..FILE2BLK
  PROVE  <<b, j>> \in Files(own, D) /\ b # SUPER
<1>1. p # NULL
  BY Unowned
<1>2. own[b] # NoOwner
  BY <1>1 DEF NoOwner
<1>3. b # SUPER /\ IsDirBlk(own, D, b)
  BY <1>2, OwnerIs DEF IsDirBlk
<1>4. j \in 0..FILE2BLK
  BY Consts
<1> QED
  BY <1>3, <1>4 DEF Files, Slots, HasFiles, SlotsOf

(* One block of a search *)
LEMMA SearchesBlock ==
  ASSUME NEW s, NEW own, NEW D, NEW sh, NEW fu, Good(s, own, D, sh, fu), ~DirtyReuse,
         NEW p \in D, p[1] \in s.mapped, NEW a, SearchDone(s, own, a, D, sh, fu),
         NEW name, NEW mem, NEW i \in Nat, i * BY2BLK < File(s, p).f_size
  PROVE  SearchDone(s, own, SearchBlock(a, p, name, mem, i), D, sh, fu)
<1> DEFINE g    == file_get_block(a.fs, p, i, mem)
           In   == {j \in 1..FILE2BLK : File(g.fs, <<g.r, j>>).f_name = name}
           bad  == [fs |-> g.fs, r |-> g.r, file |-> NULL]
           none == [fs |-> g.fs, r |-> E_NOT_FOUND, file |-> NULL]
           hit  == [fs |-> g.fs, r |-> 0, file |-> <<g.r, Min(In)>>]
           e    == SearchBlock(a, p, name, mem, i)
<1>1. e = IF a.r # E_NOT_FOUND THEN a ELSE IF g.r < 0 THEN bad ELSE IF In = {} THEN none ELSE hit
  BY DEF SearchBlock, Given
<1>2. CASE a.r # E_NOT_FOUND
  BY <1>1, <1>2
<1>3. CASE a.r = E_NOT_FOUND
  <2>1. Moves(s, own, a.fs, D, sh, fu)
    BY <1>3 DEF SearchDone, Stops, E_NOT_FOUND
  <2>2. PICK own1 : Good(a.fs, own1, D, sh, fu) /\ Widens(s, own, a.fs, own1, D)
    BY <2>1 DEF Moves
  <2>3. OwnOk(own, D) /\ OwnOk(own1, D) /\ s.mapped \subseteq Blocks /\ a.fs.mapped \subseteq Blocks
    BY <2>2 DEF Good, Tree, Base
  <2>4. p \in Files(own, D) /\ p \in Files(own1, D) /\ p[1] \in a.fs.mapped
    BY <2>2, <2>3 DEF OwnOk, Widens
  <2>5. File(a.fs, p).f_size = File(s, p).f_size
    <3>1. File(s, p) = FileV(Seen(s), p) /\ File(a.fs, p) = FileV(Seen(a.fs), p)
      BY <2>3, <2>4, FileSeen
    <3> QED
      BY <2>2, <2>4, <3>1 DEF Widens
  <2>6. Covered(D, p, i, File(a.fs, p).f_size)
    <3>1. i * BY2BLK \in Int /\ File(s, p).f_size \in Int
      <4>1. File(s, p).f_size \in Nat
        BY <2>4, FileHas DEF Good
      <4> QED
        BY <4>1, Consts
    <3> QED
      BY <2>5, <3>1 DEF Covered
  <2>7. GetMade(a.fs, own1, g, p, i, D, sh, fu)
    BY <2>2, <2>4, <2>6, GetMakes
  <2> HIDE DEF g, In
  <2>8. CASE Stops(g.r, g.fs)
    <3>1. e = bad
      BY <1>1, <1>3, <2>8 DEF Stops
    <3> QED
      BY <2>8, <3>1 DEF SearchDone
  <2>9. CASE g.r < 0 /\ Moves(a.fs, own1, g.fs, D, sh, fu)
    <3>1. PICK own2 : Good(g.fs, own2, D, sh, fu) /\ Widens(a.fs, own1, g.fs, own2, D)
      BY <2>9 DEF Moves
    <3>2. Moves(s, own, g.fs, D, sh, fu)
      BY <2>2, <2>3, <3>1, WidensTrans DEF Moves
    <3>3. e = bad
      BY <1>1, <1>3, <2>9
    <3>4. e.r < 0 /\ e.fs = g.fs
      BY <2>9, <3>3
    <3> HIDE DEF e
    <3>5. Moves(s, own, e.fs, D, sh, fu)
      BY <3>2, <3>4
    <3>6. SearchDone(s, own, e, D, sh, fu)
      BY <3>4, <3>5 DEF SearchDone
    <3> QED
      BY <3>6 DEF e
  <2>10. ASSUME NEW own2, Good(g.fs, own2, D, sh, fu), Widens(a.fs, own1, g.fs, own2, D),
                g.r \in Blocks, own2[g.r] = <<p, i>>, g.r \in g.fs.mapped
         PROVE  SearchDone(s, own, e, D, sh, fu)
    <3>1. Widens(s, own, g.fs, own2, D) /\ OwnOk(own2, D)
      BY <2>2, <2>3, <2>10, WidensTrans DEF Good, Tree
    <3>2. ~(g.r < 0)
      BY <2>10, Consts DEF Blocks
    <3>3. CASE In = {}
      <4>1. e = none
        BY <1>1, <1>3, <3>2, <3>3
      <4>2. e.r = -10 /\ e.fs = g.fs
        BY <4>1 DEF E_NOT_FOUND
      <4>3. e.r < 0
        BY <4>2
      <4> HIDE DEF e
      <4>4. Moves(s, own, e.fs, D, sh, fu)
        BY <2>10, <3>1, <4>2 DEF Moves
      <4> QED
        BY <4>3, <4>4 DEF SearchDone
    <3>4. CASE In # {}
      <4>1. In \subseteq Nat /\ In \subseteq 1..FILE2BLK
        BY DEF In
      <4>2. \E x \in In : \A y \in In : x <= y
        BY <3>4, <4>1, SmallestNat
      <4>3. Min(In) \in In
        BY <4>2 DEF Min
      <4> DEFINE j == Min(In)
      <4>4. j \in 1..FILE2BLK
        BY <4>1, <4>3
      <4>5. e = hit
        BY <1>1, <1>3, <3>2, <3>4
      <4>6. e.r = 0 /\ e.fs = g.fs /\ e.file = <<g.r, j>> /\ e.file[1] = g.r
        BY <4>5
      <4> HIDE DEF e, j
      <4>7. <<g.r, j>> \in Files(own2, D) /\ g.r # SUPER
        BY <2>10, <3>1, <4>4, BlockFiles
      <4> QED
        BY <2>10, <3>1, <4>6, <4>7 DEF SearchDone
    <3> QED
      BY <3>3, <3>4
  <2> QED
    BY <2>7, <2>8, <2>9, <2>10 DEF GetMade
<1> QED
  BY <1>2, <1>3

(* The loop of a search: g[k] is what is known after k blocks. *)
SearchRun(s, p, name, mem, n, g) ==
  /\ SearchBlocks(s, p, name, mem, n) = g[n] /\ g[0] = [fs |-> s, r |-> E_NOT_FOUND, file |-> NULL]
  /\ \A k \in 1..n : g[k] = SearchBlock(g[k - 1], p, name, mem, k - 1)

(* It is a sequence of them. *)
LEMMA SearchRuns ==
  ASSUME NEW s, NEW p, NEW name, NEW mem, NEW n \in Nat
  PROVE  \E g : SearchRun(s, p, name, mem, n, g)
<1> DEFINE first      == [fs |-> s, r |-> E_NOT_FOUND, file |-> NULL]
           Op(a, i)   == SearchBlock(a, p, name, mem, i)
           Runs(m, g) == g = [k \in 0..m |-> IF k = 0 THEN first ELSE Op(g[k - 1], 0 + k - 1)]
           F          == CHOOSE g : Runs(n - 0, g)
<1>1. SearchBlocks(s, p, name, mem, n) = IF 0 < n THEN F[n - 0] ELSE first
  BY DEF SearchBlocks, Loop
<1>2. \A m \in 0..n : \E g : Runs(m, g)
  <2> DEFINE P == {m \in 0..n : \E g : Runs(m, g)}
  <2>1. 0 \in P
    <3> DEFINE g == [k \in 0..0 |-> first]
    <3>1. g = [k \in 0..0 |-> IF k = 0 THEN first ELSE Op(g[k - 1], 0 + k - 1)]
      OBVIOUS
    <3>2. Runs(0, g) /\ 0 \in 0..n
      BY <3>1
    <3> HIDE DEF Runs, g
    <3> QED
      BY <3>2
  <2>2. ASSUME NEW m \in 1..n, m - 1 \in P PROVE m \in P
    <3> HIDE DEF Op, first
    <3>1. PICK g : Runs(m - 1, g)
      BY <2>2
    <3> DEFINE h == [k \in 0..m |-> IF k = 0 THEN first ELSE Op(g[k - 1], 0 + k - 1)]
    <3>2. DOMAIN g = 0..(m - 1) /\ g[0] = first
          /\ \A k \in 1..(m - 1) : g[k] = Op(g[k - 1], 0 + k - 1)
      BY <3>1
    <3>3. ASSUME NEW k \in 1..m PROVE h[k - 1] = g[k - 1]
      <4>1. CASE k = 1
        BY <3>2, <4>1
      <4>2. CASE k # 1
        <5>1. k - 1 \in 1..(m - 1) /\ k - 1 \in 0..m /\ k - 1 # 0
          BY <4>2
        <5> QED
          BY <3>2, <5>1
      <4> QED
        BY <4>1, <4>2
    <3>4. h = [k \in 0..m |-> IF k = 0 THEN first ELSE Op(h[k - 1], 0 + k - 1)]
      <4>1. ASSUME NEW k \in 0..m
            PROVE  (IF k = 0 THEN first ELSE Op(g[k - 1], 0 + k - 1))
                     = IF k = 0 THEN first ELSE Op(h[k - 1], 0 + k - 1)
        <5>1. k # 0 => k \in 1..m
          OBVIOUS
        <5>2. k # 0 => g[k - 1] = h[k - 1]
          BY <3>3, <5>1
        <5> HIDE DEF h
        <5> QED
          BY <5>2
      <4> QED
        BY <4>1, Zenon
    <3>5. Runs(m, h)
      BY <3>4
    <3> HIDE DEF Runs, h
    <3> QED
      BY <3>5
  <2> HIDE DEF P
  <2>3. \A m \in 0..n : m \in P
    BY <2>1, <2>2, Induct
  <2> QED
    BY <2>3 DEF P
<1>3. n - 0 = n
  OBVIOUS
<1>4. Runs(n, F)
  <2> HIDE DEF Runs
  <2>1. n \in 0..n
    OBVIOUS
  <2>2. \E g : Runs(n - 0, g)
    BY <1>2, <1>3, <2>1
  <2>3. Runs(n - 0, F)
    BY <2>2, Zenon
  <2> QED
    BY <1>3, <2>3
<1> HIDE DEF F, Op, first
<1>5. F[0] = first /\ \A k \in 1..n : F[k] = Op(F[k - 1], 0 + k - 1)
  BY <1>4
<1>6. SearchBlocks(s, p, name, mem, n) = F[n]
  BY <1>1, <1>3, <1>5
<1>7. \A k \in 1..n : 0 + k - 1 = k - 1
  OBVIOUS
<1>8. \A k \in 1..n : F[k] = Op(F[k - 1], k - 1)
  BY <1>5, <1>7
<1> QED
  BY <1>5, <1>6, <1>8 DEF Op, first, SearchRun

(* Search *)
LEMMA Searches ==
  ASSUME NEW s, NEW own, NEW D, NEW sh, NEW fu, Good(s, own, D, sh, fu), ~DirtyReuse,
         NEW p \in D, p[1] \in s.mapped, NEW name, NEW mem
  PROVE  SearchDone(s, own, Search(s, p, name, mem), D, sh, fu)
<1> DEFINE size == File(s, p).f_size
           n    == size \div BY2BLK
<1>1. OwnOk(own, D) /\ p \in Files(own, D)
  BY DEF Good, Tree, OwnOk
<1>2. size \in Nat
  BY <1>1, FileHas DEF Good
<1>3. n \in Nat /\ size = n * BY2BLK + (size % BY2BLK) /\ size % BY2BLK \in 0..(BY2BLK - 1)
  <2> HIDE DEF size
  <2> QED
    BY <1>2, Consts, DivMod
<1>4. Search(s, p, name, mem) = SearchBlocks(s, p, name, mem, n)
  BY DEF Search
<1>5. \A i \in 0..(n - 1) : i * BY2BLK < size
  <2> SUFFICES ASSUME NEW i \in 0..(n - 1) PROVE i * BY2BLK < size
    OBVIOUS
  <2> HIDE DEF n
  <2>1. i \in Nat /\ i + 1 <= n /\ n \in Nat
    BY <1>3
  <2>2. (i + 1) * BY2BLK <= n * BY2BLK /\ (i + 1) * BY2BLK = i * BY2BLK + BY2BLK
    BY <2>1, Consts
  <2>3. \A a \in Int : a * BY2BLK \in Int
    BY Consts
  <2>4. i * BY2BLK \in Int /\ n * BY2BLK \in Int
    BY <2>1, <2>3
  <2> QED
    BY <1>2, <1>3, <2>2, <2>4, Consts
<1> HIDE DEF n
<1>6a. PICK g : SearchRun(s, p, name, mem, n, g)
  BY <1>3, SearchRuns
<1>6. /\ SearchBlocks(s, p, name, mem, n) = g[n]
      /\ g[0] = [fs |-> s, r |-> E_NOT_FOUND, file |-> NULL]
      /\ \A k \in 1..n : g[k] = SearchBlock(g[k - 1], p, name, mem, k - 1)
  BY <1>6a DEF SearchRun
<1> DEFINE P == {k \in 0..n : SearchDone(s, own, g[k], D, sh, fu)}
<1>7. 0 \in P
  <2>1. Widens(s, own, s, own, D)
    BY DEF Widens
  <2>2. g[0].r = -10 /\ g[0].fs = s
    BY <1>6 DEF E_NOT_FOUND
  <2>3. g[0].r < 0
    BY <2>2
  <2>4. SearchDone(s, own, g[0], D, sh, fu)
    BY <2>1, <2>2, <2>3 DEF SearchDone, Moves
  <2> QED
    BY <1>3, <2>4
<1>8. ASSUME NEW k \in 1..n, k - 1 \in P PROVE k \in P
  <2> DEFINE i == k - 1
             h == g[k - 1]
  <2>1. i \in Nat /\ i \in 0..(n - 1)
    BY <1>3
  <2>2. SearchDone(s, own, h, D, sh, fu)
    BY <1>8
  <2>3. g[k] = SearchBlock(h, p, name, mem, i)
    BY <1>6
  <2>4. i * BY2BLK < File(s, p).f_size
    BY <1>5, <2>1
  <2> HIDE DEF i, h
  <2>5. SearchDone(s, own, SearchBlock(h, p, name, mem, i), D, sh, fu)
    BY <2>1, <2>2, <2>4, SearchesBlock
  <2>6. SearchDone(s, own, g[k], D, sh, fu)
    BY <2>3, <2>5
  <2> QED
    BY <2>6
<1> HIDE DEF P
<1>9. n \in P
  BY <1>3, <1>7, <1>8, Induct
<1>10. SearchDone(s, own, g[n], D, sh, fu)
  BY <1>9 DEF P
<1> QED
  BY <1>4, <1>6, <1>10

(* More words cover no less. *)
LEMMA CoveredMore ==
  ASSUME NEW D, NEW p, NEW m \in Int, NEW size \in Nat, NEW more \in Nat, size <= more,
         Covered(D, p, m, size)
  PROVE  Covered(D, p, m, more)
<1>1. m * BY2BLK \in Int
  BY Consts
<1> QED
  BY <1>1 DEF Covered

(* What has grown wide has grown. *)
LEMMA MovesKeeps ==
  ASSUME NEW s, NEW own, NEW D, NEW sh, NEW fu, Good(s, own, D, sh, fu), NEW u,
         Moves(s, own, u, D, sh, fu)
  PROVE  Keeps(s, own, u, D, sh, fu)
<1>1. OwnOk(own, D) /\ s.mapped \subseteq Blocks
  BY DEF Good, Tree, Base
<1>2. PICK own2 : Good(u, own2, D, sh, fu) /\ Widens(s, own, u, own2, D)
  BY DEF Moves
<1>3. Grows(s, own, u, own2, D)
  BY <1>1, <1>2, WidensGrows
<1> QED
  BY <1>2, <1>3 DEF Keeps

(* A File that was found and may be used *)
LookDone(s, own, a, D, sh, fu) ==
  \/ Stops(a.r, a.fs)
  \/ a.r < 0 /\ Keeps(s, own, a.fs, D, sh, fu)
  \/ a.r = 0 /\ \E own2 : /\ Good(a.fs, own2, D, sh, fu) /\ Grows(s, own, a.fs, own2, D)
                          /\ Usable(a.fs, own2, D, a.file)

(* dir_lookup *)
LEMMA Looks ==
  ASSUME NEW s, NEW own, NEW D, NEW sh, NEW fu, Good(s, own, D, sh, fu), ~DirtyReuse,
         NEW p \in D, p[1] \in s.mapped, NEW name, NEW mem
  PROVE  LookDone(s, own, dir_lookup(s, p, name, mem), D, sh, fu)
<1> DEFINE a == Search(s, p, name, mem)
           f == [File(a.fs, a.file) EXCEPT !.f_dir = p]
           u == SetFile(a.fs, a.file, f)
           d == dir_lookup(s, p, name, mem)
<1>1. SearchDone(s, own, a, D, sh, fu)
  BY Searches
<1>2. d = IF a.r < 0 THEN a ELSE [fs |-> u, r |-> 0, file |-> a.file]
  BY DEF dir_lookup, Try
<1> HIDE DEF a, d
<1>3. CASE Stops(a.r, a.fs)
  <2>1. LookDone(s, own, d, D, sh, fu)
    BY <1>2, <1>3 DEF LookDone, Stops
  <2> QED
    BY <2>1 DEF d
<1>4. CASE a.r < 0 /\ Moves(s, own, a.fs, D, sh, fu)
  <2>1. Keeps(s, own, a.fs, D, sh, fu)
    BY <1>4, MovesKeeps
  <2>2. LookDone(s, own, d, D, sh, fu)
    BY <1>2, <1>4, <2>1 DEF LookDone
  <2> QED
    BY <2>2 DEF d
<1>5. ASSUME a.r = 0, NEW own2, Good(a.fs, own2, D, sh, fu), Widens(s, own, a.fs, own2, D),
             a.file \in Files(own2, D), a.file[1] \in a.fs.mapped, a.file[1] # SUPER
      PROVE  LookDone(s, own, d, D, sh, fu)
  <2>1. OwnOk(own, D) /\ OwnOk(own2, D) /\ s.mapped \subseteq Blocks /\ s.mapped \subseteq a.fs.mapped
        /\ Tree(Seen(a.fs), own2, D)
    BY <1>5 DEF Good, Tree, Base, Widens
  <2>2. a.file # Root
    BY <1>5 DEF Root
  <2>3. FileShape(D, a.file, File(a.fs, a.file)) /\ File(a.fs, a.file) = FileV(Seen(a.fs), a.file)
    BY <1>5, FileHas DEF Good
  <2>4. /\ FileShape(D, a.file, f) /\ f.f_direct = File(a.fs, a.file).f_direct
        /\ f.f_indirect = File(a.fs, a.file).f_indirect
        /\ f.f_size = File(a.fs, a.file).f_size /\ f.f_dir = p
    BY <2>2, <2>3 DEF FileShape, IsFile
  <2> HIDE DEF f
  <2>5. \A b \in Blocks : own2[b] # NoOwner /\ own2[b][2] >= 0 /\ own2[b][1] = a.file
             => Covered(D, a.file, own2[b][2], f.f_size)
    BY <2>1, <2>3, <2>4 DEF Tree, Sized, InSize
  <2>6. /\ Good(u, own2, D, sh, fu) /\ u.mapped = a.fs.mapped /\ File(u, a.file) = f
        /\ f.f_dir = File(a.fs, a.file).f_dir \/ f.f_dir[1] \in a.fs.mapped
             => Grows(a.fs, own2, u, own2, D)
    BY <1>5, <2>4, <2>5, FileGood
  <2> HIDE DEF u
  <2>7. Grows(a.fs, own2, u, own2, D) /\ Usable(u, own2, D, a.file)
    BY <1>5, <2>1, <2>4, <2>6 DEF Usable
  <2>8. Grows(s, own, a.fs, own2, D)
    BY <1>5, <2>1, WidensGrows
  <2>9. Grows(s, own, u, own2, D)
    BY <2>1, <2>7, <2>8, GrowsTrans
  <2>10. d.r = 0 /\ d.fs = u /\ d.file = a.file
    BY <1>2, <1>5
  <2> QED
    BY <2>6, <2>7, <2>9, <2>10 DEF LookDone
<1> QED
  BY <1>1, <1>3, <1>4, <1>5 DEF SearchDone, d

(* dir_alloc_file, which does not return the root *)
AllocDone(s, own, a, D, sh, fu) ==
  \/ Stops(a.r, a.fs)
  \/ a.r < 0 /\ Keeps(s, own, a.fs, D, sh, fu)
  \/ a.r = 0 /\ \E own2 : /\ Good(a.fs, own2, D, sh, fu) /\ Grows(s, own, a.fs, own2, D)
                          /\ a.file \in Files(own2, D) /\ a.file[1] \in a.fs.mapped /\ a.file # Root

(* A directory gets one more block. *)
LEMMA ExtendsDir ==
  ASSUME NEW s, NEW own, NEW D, NEW sh, NEW fu, Good(s, own, D, sh, fu), ~DirtyReuse,
         NEW p \in D, p[1] \in s.mapped, NEW mem, NEW n, n = File(s, p).f_size \div BY2BLK
  PROVE  LET t == SetFile(s, p, [File(s, p) EXCEPT !.f_size = @ + BY2BLK])
             g == file_get_block(t, p, n, mem)
         IN  AllocDone(s, own, IF g.r < 0 THEN [fs |-> g.fs, r |-> g.r, file |-> NULL]
                               ELSE [fs |-> g.fs, r |-> 0, file |-> <<g.r, 1>>], D, sh, fu)
<1> DEFINE t    == SetFile(s, p, [File(s, p) EXCEPT !.f_size = @ + BY2BLK])
           g    == file_get_block(t, p, n, mem)
           e    == IF g.r < 0 THEN [fs |-> g.fs, r |-> g.r, file |-> NULL]
                   ELSE [fs |-> g.fs, r |-> 0, file |-> <<g.r, 1>>]
           size == File(s, p).f_size
           more == size + BY2BLK
<1>1. OwnOk(own, D) /\ p \in Files(own, D)
  BY DEF Good, Tree, OwnOk
<1>2. size \in Nat /\ IsFile(File(s, p)) /\ size = FileV(Seen(s), p).f_size
  BY <1>1, FileHas DEF Good, FileShape
<1>3. more \in Nat /\ size <= more
  BY <1>2, Consts
<1>4. t = FileSize(s, p, more)
  BY DEF FileSize
<1>5. n \in Nat /\ Covered(D, p, n, more)
  <2> HIDE DEF size
  <2>1. n = size \div BY2BLK
    BY DEF size
  <2>2. n \in Nat /\ size = n * BY2BLK + (size % BY2BLK) /\ size % BY2BLK \in 0..(BY2BLK - 1)
    <3>1. \A z \in Nat : /\ z \div BY2BLK \in Nat /\ z = (z \div BY2BLK) * BY2BLK + (z % BY2BLK)
                         /\ z % BY2BLK \in 0..(BY2BLK - 1)
      BY Consts, DivMod
    <3> QED
      BY <1>2, <2>1, <3>1
  <2>3. n * BY2BLK \in Int
    BY <2>2, Consts
  <2> QED
    BY <1>2, <2>2, <2>3, Consts DEF Covered
<1>6. \A b \in Blocks : own[b] # NoOwner /\ own[b][2] >= 0 /\ own[b][1] = p
           => Covered(D, p, own[b][2], more)
  <2> SUFFICES ASSUME NEW b \in Blocks, own[b] # NoOwner, own[b][2] >= 0, own[b][1] = p
               PROVE  Covered(D, p, own[b][2], more)
    OBVIOUS
  <2>1. Covered(D, p, own[b][2], size)
    BY <1>2 DEF Good, Tree, Sized, InSize
  <2>2. own[b][2] \in Int
    BY <1>1, OwnerIs DEF Index
  <2> HIDE DEF size, more
  <2> QED
    BY <1>2, <1>3, <2>1, <2>2, CoveredMore
<1> HIDE DEF more
<1>7. /\ Good(t, own, D, sh, fu) /\ Grows(s, own, t, own, D) /\ t.mapped = s.mapped
      /\ File(t, p) = [File(s, p) EXCEPT !.f_size = more]
  BY <1>1, <1>3, <1>4, <1>6, SizeGood
<1>8. File(t, p).f_size = more
  BY <1>2, <1>7 DEF IsFile
<1> HIDE DEF t
<1>9. GetMade(t, own, g, p, n, D, sh, fu)
  BY <1>1, <1>5, <1>7, <1>8, GetMakes
<1> HIDE DEF g, e
<1>10. e = IF g.r < 0 THEN [fs |-> g.fs, r |-> g.r, file |-> NULL]
           ELSE [fs |-> g.fs, r |-> 0, file |-> <<g.r, 1>>]
  BY DEF e
<1>11. ASSUME Stops(g.r, g.fs) PROVE AllocDone(s, own, e, D, sh, fu)
  BY <1>10, <1>11 DEF AllocDone, Stops
<1>12. ASSUME g.r < 0, Moves(t, own, g.fs, D, sh, fu) PROVE AllocDone(s, own, e, D, sh, fu)
  <2>1. PICK own2 : Good(g.fs, own2, D, sh, fu) /\ Grows(t, own, g.fs, own2, D)
    BY <1>7, <1>12, MovesKeeps DEF Keeps
  <2>2. Grows(s, own, g.fs, own2, D)
    BY <1>1, <1>7, <2>1, GrowsTrans
  <2>3. Keeps(s, own, g.fs, D, sh, fu)
    BY <2>1, <2>2 DEF Keeps
  <2> QED
    BY <1>10, <1>12, <2>3 DEF AllocDone
<1>13. ASSUME NEW own2, Good(g.fs, own2, D, sh, fu), Widens(t, own, g.fs, own2, D),
              g.r \in Blocks, own2[g.r] = <<p, n>>, g.r \in g.fs.mapped
       PROVE  AllocDone(s, own, e, D, sh, fu)
  <2>1. OwnOk(own2, D) /\ t.mapped \subseteq Blocks
    BY <1>7, <1>13 DEF Good, Tree, Base
  <2>2. Grows(t, own, g.fs, own2, D)
    BY <1>1, <1>13, <2>1, WidensGrows
  <2>3. Grows(s, own, g.fs, own2, D)
    BY <1>1, <1>7, <2>2, GrowsTrans
  <2>4. ~(g.r < 0) /\ 1 \in 1..FILE2BLK
    BY <1>13, Consts DEF Blocks
  <2>5. <<g.r, 1>> \in Files(own2, D) /\ g.r # SUPER
    BY <1>5, <1>13, <2>1, <2>4, BlockFiles
  <2>6. e.r = 0 /\ e.fs = g.fs /\ e.file = <<g.r, 1>> /\ e.file[1] = g.r /\ e.file # Root
    BY <1>10, <2>4, <2>5 DEF Root
  <2> QED
    BY <1>13, <2>3, <2>5, <2>6 DEF AllocDone
<1>14. AllocDone(s, own, e, D, sh, fu)
  BY <1>9, <1>11, <1>12, <1>13 DEF GetMade
<1> QED
  BY <1>14 DEF e, g, t

(* A File for a new name: an unused one, or one in a new block *)
LEMMA AllocatesFile ==
  ASSUME NEW s, NEW own, NEW D, NEW sh, NEW fu, Good(s, own, D, sh, fu), ~DirtyReuse,
         NEW p \in D, p[1] \in s.mapped, NEW mem
  PROVE  AllocDone(s, own, dir_alloc_file(s, p, mem), D, sh, fu)
<1> DEFINE name == ""
           a == Search(s, p, name, mem)
           n == File(s, p).f_size \div BY2BLK
           t == SetFile(a.fs, p, [File(a.fs, p) EXCEPT !.f_size = @ + BY2BLK])
           g == file_get_block(t, p, n, mem)
           e == IF g.r < 0 THEN [fs |-> g.fs, r |-> g.r, file |-> NULL]
                ELSE [fs |-> g.fs, r |-> 0, file |-> <<g.r, 1>>]
           d == dir_alloc_file(s, p, mem)
<1>1. d = IF a.r # E_NOT_FOUND THEN a ELSE e
  BY DEF dir_alloc_file, Given
<1> HIDE DEF name
<1>2. SearchDone(s, own, a, D, sh, fu)
  BY Searches
<1>3. OwnOk(own, D) /\ p \in Files(own, D) /\ s.mapped \subseteq Blocks
  BY DEF Good, Tree, OwnOk, Base
<1>4. n = File(s, p).f_size \div BY2BLK
  OBVIOUS
<1> HIDE DEF a, d, n
<1>5. CASE a.r = E_NOT_FOUND
  <2>1. Moves(s, own, a.fs, D, sh, fu)
    BY <1>2, <1>5 DEF SearchDone, Stops, E_NOT_FOUND
  <2>2. PICK own1 : Good(a.fs, own1, D, sh, fu) /\ Widens(s, own, a.fs, own1, D)
    BY <2>1 DEF Moves
  <2>3. Grows(s, own, a.fs, own1, D) /\ OwnOk(own1, D)
    BY <1>3, <2>2, WidensGrows DEF Good, Tree
  <2>4. p[1] \in a.fs.mapped /\ a.fs.mapped \subseteq Blocks
    BY <2>2 DEF Good, Base, Widens
  <2>5. File(a.fs, p).f_size = File(s, p).f_size
    <3>1. File(s, p) = FileV(Seen(s), p) /\ File(a.fs, p) = FileV(Seen(a.fs), p)
      BY <1>3, <2>4, FileSeen
    <3> QED
      BY <1>3, <2>2, <3>1 DEF Widens
  <2>6. n = File(a.fs, p).f_size \div BY2BLK
    BY <1>4, <2>5
  <2>7. AllocDone(a.fs, own1, e, D, sh, fu)
    BY <2>2, <2>4, <2>6, ExtendsDir
  <2>8. d = e
    BY <1>1, <1>5
  <2> HIDE DEF e
  <2>9. \A own2 : Grows(a.fs, own1, e.fs, own2, D) => Grows(s, own, e.fs, own2, D)
    BY <1>3, <2>3, GrowsTrans
  <2>10. AllocDone(s, own, e, D, sh, fu)
    BY <2>7, <2>9 DEF AllocDone, Keeps
  <2> QED
    BY <2>8, <2>10 DEF d
<1>6. CASE a.r # E_NOT_FOUND
  <2>1. d = a
    BY <1>1, <1>6
  <2>2. a.r < 0 /\ Moves(s, own, a.fs, D, sh, fu) => Keeps(s, own, a.fs, D, sh, fu)
    BY MovesKeeps
  <2>3. \A own2 : Widens(s, own, a.fs, own2, D) => Grows(s, own, a.fs, own2, D)
    BY <1>3, WidensGrows
  <2>4. a.file[1] # SUPER => a.file # Root
    BY DEF Root
  <2>5. AllocDone(s, own, a, D, sh, fu)
    BY <1>2, <2>2, <2>3, <2>4 DEF AllocDone, SearchDone
  <2> QED
    BY <2>1, <2>5 DEF d
<1> QED
  BY <1>5, <1>6

(* How far a walk is *)
WalkDone(s, own, a, D, sh, fu) ==
  \/ Stops(a.r, a.fs)
  \/ a.r < 0 /\ \E own2 : /\ Good(a.fs, own2, D, sh, fu) /\ Grows(s, own, a.fs, own2, D)
                          /\ a.dir = NULL \/ (a.dir \in D /\ a.dir[1] \in a.fs.mapped)
  \/ a.r = 0 /\ \E own2 : /\ Good(a.fs, own2, D, sh, fu) /\ Grows(s, own, a.fs, own2, D)
                          /\ Usable(a.fs, own2, D, a.file)

(* One element of a path *)
LEMMA WalksElement ==
  ASSUME NEW s, NEW own, NEW D, NEW sh, NEW fu, Good(s, own, D, sh, fu), ~DirtyReuse,
         NEW a, WalkDone(s, own, a, D, sh, fu), NEW path, NEW mem, NEW k
  PROVE  WalkDone(s, own, WalkElement(a, path, mem, k), D, sh, fu)
<1> DEFINE d    == dir_lookup(a.fs, a.file, path[k], mem)
           to   == IF d.r = E_NOT_FOUND /\ k = Len(path) THEN a.file ELSE NULL
           long == [fs |-> a.fs, r |-> E_BAD_PATH, dir |-> NULL, file |-> a.file]
           none == [fs |-> a.fs, r |-> E_NOT_FOUND, dir |-> NULL, file |-> a.file]
           in   == [fs |-> d.fs, r |-> 0, dir |-> a.file, file |-> d.file]
           out  == [fs |-> d.fs, r |-> d.r, file |-> NULL, dir |-> to]
           e    == WalkElement(a, path, mem, k)
<1>1. e = IF a.r < 0 THEN a ELSE IF path[k] \in LongNames THEN long
          ELSE IF File(a.fs, a.file).f_type # FTYPE_DIR THEN none
          ELSE IF d.r = 0 THEN in ELSE out
  BY DEF WalkElement
<1> HIDE DEF e
<1>2. CASE a.r < 0
  <2>1. WalkDone(s, own, e, D, sh, fu)
    BY <1>1, <1>2
  <2> QED
    BY <2>1 DEF e
<1>3. CASE ~(a.r < 0)
  <2>0. a.r = 0
    BY <1>3 DEF WalkDone, Stops
  <2>1. PICK own1 : /\ Good(a.fs, own1, D, sh, fu) /\ Grows(s, own, a.fs, own1, D)
                    /\ Usable(a.fs, own1, D, a.file)
    BY <1>3 DEF WalkDone, Stops
  <2>2. a.file \in Files(own1, D) /\ a.file[1] \in a.fs.mapped
    BY <2>1 DEF Usable
  <2>3. FileShape(D, a.file, File(a.fs, a.file))
    BY <2>1, <2>2, FileHas DEF Good
  <2>4. CASE path[k] \in LongNames
    <3>1. e = long
      BY <1>1, <1>3, <2>4
    <3>2. e.r = -11 /\ e.fs = a.fs /\ e.dir = NULL
      BY <3>1 DEF E_BAD_PATH
    <3>3. e.r < 0
      BY <3>2
    <3>4. WalkDone(s, own, e, D, sh, fu)
      BY <2>1, <3>2, <3>3 DEF WalkDone
    <3> QED
      BY <3>4 DEF e
  <2>5. CASE path[k] \notin LongNames /\ File(a.fs, a.file).f_type # FTYPE_DIR
    <3>1. e = none
      BY <1>1, <1>3, <2>5
    <3>2. e.r = -10 /\ e.fs = a.fs /\ e.dir = NULL
      BY <3>1 DEF E_NOT_FOUND
    <3>3. e.r < 0
      BY <3>2
    <3>4. WalkDone(s, own, e, D, sh, fu)
      BY <2>1, <3>2, <3>3 DEF WalkDone
    <3> QED
      BY <3>4 DEF e
  <2>6. CASE path[k] \notin LongNames /\ File(a.fs, a.file).f_type = FTYPE_DIR
    <3>1. a.file \in D
      BY <2>3, <2>6 DEF FileShape
    <3>2. LookDone(a.fs, own1, d, D, sh, fu)
      BY <2>1, <2>2, <3>1, Looks
    <3>3. e = IF d.r = 0 THEN in ELSE out
      BY <1>1, <1>3, <2>6
    <3>4. OwnOk(own, D) /\ OwnOk(own1, D)
      BY <2>1 DEF Good, Tree
    <3> HIDE DEF d
    <3>5. \A own2 : Grows(a.fs, own1, d.fs, own2, D) => Grows(s, own, d.fs, own2, D)
      BY <2>1, <3>4, GrowsTrans
    <3>6. ASSUME Stops(d.r, d.fs) PROVE WalkDone(s, own, e, D, sh, fu)
      <4>1. d.r # 0
        BY <3>6 DEF Stops
      <4>2. e.r = d.r /\ e.fs = d.fs
        BY <3>3, <4>1
      <4> QED
        BY <3>6, <4>2 DEF WalkDone
    <3>7. ASSUME d.r < 0, NEW own2, Good(d.fs, own2, D, sh, fu), Grows(a.fs, own1, d.fs, own2, D)
          PROVE  WalkDone(s, own, e, D, sh, fu)
      <4>1. d.r # 0
        BY <3>7
      <4>2. e.r = d.r /\ e.fs = d.fs /\ (e.dir = NULL \/ e.dir = a.file)
        BY <3>3, <4>1
      <4>3. a.file[1] \in d.fs.mapped
        BY <2>2, <3>7 DEF Grows
      <4> QED
        BY <3>1, <3>5, <3>7, <4>2, <4>3 DEF WalkDone
    <3>8. ASSUME d.r = 0, NEW own2, Good(d.fs, own2, D, sh, fu), Grows(a.fs, own1, d.fs, own2, D),
                 Usable(d.fs, own2, D, d.file)
          PROVE  WalkDone(s, own, e, D, sh, fu)
      <4>1. e.r = 0 /\ e.fs = d.fs /\ e.file = d.file
        BY <3>3, <3>8
      <4> QED
        BY <3>5, <3>8, <4>1 DEF WalkDone
    <3>9. WalkDone(s, own, e, D, sh, fu)
      BY <3>2, <3>6, <3>7, <3>8 DEF LookDone, Keeps
    <3> QED
      BY <3>9 DEF e
  <2> QED
    BY <2>4, <2>5, <2>6
<1> QED
  BY <1>2, <1>3

(* The loop of walk_path: g[k] is what is known after k elements. *)
WalkRun(s, path, mem, n, g) ==
  /\ WalkElements(s, path, mem, n) = g[n]
  /\ g[0] = [fs |-> s, r |-> 0, dir |-> NULL, file |-> Root]
  /\ \A k \in 1..n : g[k] = WalkElement(g[k - 1], path, mem, k)

(* It is a sequence of them. *)
LEMMA WalkRuns ==
  ASSUME NEW s, NEW path, NEW mem, NEW n \in Nat
  PROVE  \E g : WalkRun(s, path, mem, n, g)
<1> DEFINE first      == [fs |-> s, r |-> 0, dir |-> NULL, file |-> Root]
           Op(a, i)   == WalkElement(a, path, mem, i)
           Runs(m, g) == g = [k \in 0..m |-> IF k = 0 THEN first ELSE Op(g[k - 1], 1 + k - 1)]
           F          == CHOOSE g : Runs((n + 1) - 1, g)
<1>1. WalkElements(s, path, mem, n) = IF 1 < n + 1 THEN F[(n + 1) - 1] ELSE first
  BY DEF WalkElements, Loop
<1>2. \A m \in 0..n : \E g : Runs(m, g)
  <2> DEFINE P == {m \in 0..n : \E g : Runs(m, g)}
  <2>1. 0 \in P
    <3> DEFINE g == [k \in 0..0 |-> first]
    <3>1. g = [k \in 0..0 |-> IF k = 0 THEN first ELSE Op(g[k - 1], 1 + k - 1)]
      OBVIOUS
    <3>2. Runs(0, g) /\ 0 \in 0..n
      BY <3>1
    <3> HIDE DEF Runs, g
    <3> QED
      BY <3>2
  <2>2. ASSUME NEW m \in 1..n, m - 1 \in P PROVE m \in P
    <3> HIDE DEF Op, first
    <3>1. PICK g : Runs(m - 1, g)
      BY <2>2
    <3> DEFINE h == [k \in 0..m |-> IF k = 0 THEN first ELSE Op(g[k - 1], 1 + k - 1)]
    <3>2. DOMAIN g = 0..(m - 1) /\ g[0] = first
          /\ \A k \in 1..(m - 1) : g[k] = Op(g[k - 1], 1 + k - 1)
      BY <3>1
    <3>3. ASSUME NEW k \in 1..m PROVE h[k - 1] = g[k - 1]
      <4>1. CASE k = 1
        BY <3>2, <4>1
      <4>2. CASE k # 1
        <5>1. k - 1 \in 1..(m - 1) /\ k - 1 \in 0..m /\ k - 1 # 0
          BY <4>2
        <5> QED
          BY <3>2, <5>1
      <4> QED
        BY <4>1, <4>2
    <3>4. h = [k \in 0..m |-> IF k = 0 THEN first ELSE Op(h[k - 1], 1 + k - 1)]
      <4>1. ASSUME NEW k \in 0..m
            PROVE  (IF k = 0 THEN first ELSE Op(g[k - 1], 1 + k - 1))
                     = IF k = 0 THEN first ELSE Op(h[k - 1], 1 + k - 1)
        <5>1. k # 0 => k \in 1..m
          OBVIOUS
        <5>2. k # 0 => g[k - 1] = h[k - 1]
          BY <3>3, <5>1
        <5> HIDE DEF h
        <5> QED
          BY <5>2
      <4> QED
        BY <4>1, Zenon
    <3>5. Runs(m, h)
      BY <3>4
    <3> HIDE DEF Runs, h
    <3> QED
      BY <3>5
  <2> HIDE DEF P
  <2>3. \A m \in 0..n : m \in P
    BY <2>1, <2>2, Induct
  <2> QED
    BY <2>3 DEF P
<1>3. (n + 1) - 1 = n
  OBVIOUS
<1>4. Runs(n, F)
  <2> HIDE DEF Runs
  <2>1. n \in 0..n
    OBVIOUS
  <2>2. \E g : Runs((n + 1) - 1, g)
    BY <1>2, <1>3, <2>1
  <2>3. Runs((n + 1) - 1, F)
    BY <2>2, Zenon
  <2> QED
    BY <1>3, <2>3
<1> HIDE DEF F, Op, first
<1>5. F[0] = first /\ \A k \in 1..n : F[k] = Op(F[k - 1], 1 + k - 1)
  BY <1>4
<1>6. WalkElements(s, path, mem, n) = F[n]
  BY <1>1, <1>3, <1>5
<1>7. \A k \in 1..n : 1 + k - 1 = k
  OBVIOUS
<1>8. \A k \in 1..n : F[k] = Op(F[k - 1], k)
  BY <1>5, <1>7
<1> QED
  BY <1>5, <1>6, <1>8 DEF Op, first, WalkRun

(* walk_path *)
LEMMA Walks ==
  ASSUME NEW s, NEW own, NEW D, NEW sh, NEW fu, Good(s, own, D, sh, fu), ~DirtyReuse,
         NEW path, Len(path) \in Nat, NEW mem
  PROVE  WalkDone(s, own, walk_path(s, path, mem), D, sh, fu)
<1> DEFINE n == Len(path)
<1>1. walk_path(s, path, mem) = WalkElements(s, path, mem, n)
  BY DEF walk_path
<1>2. n \in Nat
  OBVIOUS
<1> HIDE DEF n
<1>3. PICK g : WalkRun(s, path, mem, n, g)
  BY <1>2, WalkRuns
<1>4. /\ WalkElements(s, path, mem, n) = g[n]
      /\ g[0] = [fs |-> s, r |-> 0, dir |-> NULL, file |-> Root]
      /\ \A k \in 1..n : g[k] = WalkElement(g[k - 1], path, mem, k)
  BY <1>3 DEF WalkRun
<1>5. OwnOk(own, D) /\ Root \in D /\ Root \in Files(own, D) /\ Root[1] \in s.mapped
  BY DEF Good, Tree, Base, OwnOk, Root
<1>6. Usable(s, own, D, Root)
  <2>1. FileShape(D, Root, File(s, Root))
    BY <1>5, FileHas DEF Good
  <2> QED
    BY <1>5, <2>1 DEF Usable, FileShape
<1> DEFINE P == {k \in 0..n : WalkDone(s, own, g[k], D, sh, fu)}
<1>7. 0 \in P
  <2>1. g[0].r = 0 /\ g[0].fs = s /\ g[0].file = Root
    BY <1>4
  <2>2. Grows(s, own, s, own, D)
    BY GrowsRefl
  <2>3. WalkDone(s, own, g[0], D, sh, fu)
    BY <1>6, <2>1, <2>2 DEF WalkDone
  <2> QED
    BY <1>2, <2>3
<1>8. ASSUME NEW k \in 1..n, k - 1 \in P PROVE k \in P
  <2> DEFINE h == g[k - 1]
  <2>1. WalkDone(s, own, h, D, sh, fu)
    BY <1>8
  <2>2. g[k] = WalkElement(h, path, mem, k)
    BY <1>4
  <2> HIDE DEF h
  <2>3. WalkDone(s, own, WalkElement(h, path, mem, k), D, sh, fu)
    BY <2>1, WalksElement
  <2>4. WalkDone(s, own, g[k], D, sh, fu)
    BY <2>2, <2>3
  <2> QED
    BY <2>4
<1> HIDE DEF P
<1>9. n \in P
  BY <1>2, <1>7, <1>8, Induct
<1>10. WalkDone(s, own, g[n], D, sh, fu)
  BY <1>9 DEF P
<1> QED
  BY <1>1, <1>4, <1>10

(* What has grown and goes on growing *)
LEMMA KeepsTrans ==
  ASSUME NEW s, NEW own, NEW D, NEW sh, NEW fu, OwnOk(own, D), NEW t, NEW own1,
         Grows(s, own, t, own1, D), NEW u, Keeps(t, own1, u, D, sh, fu)
  PROVE  Keeps(s, own, u, D, sh, fu)
<1>1. PICK own2 : Good(u, own2, D, sh, fu) /\ Grows(t, own1, u, own2, D)
  BY DEF Keeps
<1>2. Grows(s, own, u, own2, D)
  BY <1>1, GrowsTrans
<1> QED
  BY <1>1, <1>2 DEF Keeps

(* file_create *)
LEMMA Creates ==
  ASSUME NEW s, NEW own, NEW D, NEW sh, NEW fu, Good(s, own, D, sh, fu), ~DirtyReuse,
         NEW path, Len(path) \in Nat, NEW mem
  PROVE  \/ file_create(s, path, mem).fs.panic = OldPage
         \/ Keeps(s, own, file_create(s, path, mem).fs, D, sh, fu)
<1> DEFINE w    == walk_path(s, path, mem)
           a    == dir_alloc_file(w.fs, w.dir, mem)
           name == path[Len(path)]
           u    == SetFile(a.fs, a.file, [File(a.fs, a.file) EXCEPT !.f_name = name])
           c    == file_create(s, path, mem)
<1>1. c = IF w.r = 0 THEN [fs |-> w.fs, r |-> E_FILE_EXISTS, file |-> w.file]
          ELSE IF w.r # E_NOT_FOUND \/ w.dir = NULL THEN w
          ELSE IF a.r < 0 THEN [fs |-> a.fs, r |-> w.r, file |-> w.file]
          ELSE [fs |-> u, r |-> 0, file |-> a.file]
  BY DEF file_create, Given
<1>2. WalkDone(s, own, w, D, sh, fu)
  BY Walks
<1>3. OwnOk(own, D)
  BY DEF Good, Tree
<1> HIDE DEF w, c, name
<1>4. CASE w.r = 0 \/ w.r # E_NOT_FOUND \/ w.dir = NULL
  <2>1. c.fs = w.fs
    BY <1>1, <1>4
  <2>2. w.fs.panic = OldPage \/ Keeps(s, own, w.fs, D, sh, fu)
    BY <1>2 DEF WalkDone, Stops, Keeps
  <2> QED
    BY <2>1, <2>2 DEF c
<1>5. CASE ~(w.r = 0 \/ w.r # E_NOT_FOUND \/ w.dir = NULL)
  <2>1. PICK own1 : /\ Good(w.fs, own1, D, sh, fu) /\ Grows(s, own, w.fs, own1, D)
                    /\ w.dir \in D /\ w.dir[1] \in w.fs.mapped
    BY <1>2, <1>5 DEF WalkDone, Stops
  <2>2. AllocDone(w.fs, own1, a, D, sh, fu)
    BY <2>1, AllocatesFile
  <2>3. c = IF a.r < 0 THEN [fs |-> a.fs, r |-> w.r, file |-> w.file]
            ELSE [fs |-> u, r |-> 0, file |-> a.file]
    BY <1>1, <1>5
  <2> HIDE DEF a
  <2>4. ASSUME Stops(a.r, a.fs) PROVE c.fs.panic = OldPage
    BY <2>3, <2>4 DEF Stops
  <2>5. ASSUME a.r < 0, Keeps(w.fs, own1, a.fs, D, sh, fu) PROVE Keeps(s, own, c.fs, D, sh, fu)
    <3>1. c.fs = a.fs
      BY <2>3, <2>5
    <3>2. Keeps(s, own, a.fs, D, sh, fu)
      BY <1>3, <2>1, <2>5, KeepsTrans
    <3> QED
      BY <3>1, <3>2
  <2>6. ASSUME a.r = 0, NEW own2, Good(a.fs, own2, D, sh, fu), Grows(w.fs, own1, a.fs, own2, D),
               a.file \in Files(own2, D), a.file[1] \in a.fs.mapped, a.file # Root
        PROVE  Keeps(s, own, c.fs, D, sh, fu)
    <3>1. c.fs = u
      BY <2>3, <2>6
    <3>2. Good(u, own2, D, sh, fu) /\ Grows(a.fs, own2, u, own2, D)
      BY <2>6, NameGood
    <3> HIDE DEF u
    <3>3. Grows(s, own, a.fs, own2, D)
      BY <1>3, <2>1, <2>6, GrowsTrans
    <3>4. Grows(s, own, u, own2, D)
      BY <1>3, <3>2, <3>3, GrowsTrans
    <3>5. Keeps(s, own, u, D, sh, fu)
      BY <3>2, <3>4 DEF Keeps
    <3> QED
      BY <3>1, <3>5
  <2>7. c.fs.panic = OldPage \/ Keeps(s, own, c.fs, D, sh, fu)
    BY <2>2, <2>4, <2>5, <2>6 DEF AllocDone
  <2> QED
    BY <2>7 DEF c
<1> QED
  BY <1>4, <1>5

(* file_remove of a file that is no directory *)
LEMMA Removes ==
  ASSUME NEW s, NEW own, NEW D, NEW sh, NEW fu, Good(s, own, D, sh, fu), ~DirtyReuse,
         NEW path, Len(path) \in Nat, NEW mem,
         walk_path(s, path, mem).r = 0
           => File(walk_path(s, path, mem).fs, walk_path(s, path, mem).file).f_type = FTYPE_REG
  PROVE  LET r == file_remove(s, path, mem)
         IN  \/ r.fs.panic = OldPage
             \/ r.r # 0 /\ Keeps(s, own, r.fs, D, sh, fu)
             \/ r.r = 0 /\ \A sh2 : Freeing(sh2) => Keeps(s, own, r.fs, D, sh2, fu)
<1> DEFINE w == walk_path(s, path, mem)
           u == Removed(w.fs, w.file)
           r == file_remove(s, path, mem)
<1>1. r = IF w.r < 0 THEN On(w.fs, w.r) ELSE On(u, 0)
  BY DEF file_remove, Given, Removed
<1>2. WalkDone(s, own, w, D, sh, fu)
  BY Walks
<1>3. OwnOk(own, D)
  BY DEF Good, Tree
<1> HIDE DEF w, r
<1>4. CASE w.r < 0
  <2>1. r.fs = w.fs /\ r.r = w.r /\ r.r # 0
    BY <1>1, <1>4 DEF On
  <2>2. w.fs.panic = OldPage \/ Keeps(s, own, w.fs, D, sh, fu)
    BY <1>2 DEF WalkDone, Stops, Keeps
  <2> QED
    BY <2>1, <2>2 DEF r
<1>5. CASE ~(w.r < 0)
  <2>1. PICK own1 : /\ Good(w.fs, own1, D, sh, fu) /\ Grows(s, own, w.fs, own1, D)
                    /\ Usable(w.fs, own1, D, w.file)
    BY <1>2, <1>5 DEF WalkDone, Stops
  <2>2. w.r = 0
    BY <1>2, <1>5 DEF WalkDone, Stops
  <2>3. w.file \notin D
    <3>1. File(w.fs, w.file).f_type = FTYPE_REG
      BY <2>2 DEF w
    <3>2. FileShape(D, w.file, File(w.fs, w.file))
      BY <2>1, FileHas DEF Good, Usable
    <3> QED
      BY <3>1, <3>2 DEF FileShape, FTYPE_REG, FTYPE_DIR
  <2>4. ASSUME NEW sh2, Freeing(sh2) PROVE Keeps(s, own, u, D, sh2, fu)
    <3>1. Good(w.fs, own1, D, sh2, fu)
      BY <2>1, <2>4, GoodFreeing
    <3>2. Keeps(w.fs, own1, u, D, sh2, fu)
      BY <2>1, <2>3, <2>4, <3>1, RemovesFile
    <3> HIDE DEF u
    <3> QED
      BY <1>3, <2>1, <3>2, KeepsTrans
  <2>5. r.fs = u /\ r.r = 0
    BY <1>1, <1>5 DEF On
  <2> HIDE DEF u
  <2>6. \A sh2 : Freeing(sh2) => Keeps(s, own, r.fs, D, sh2, fu)
    BY <2>4, <2>5
  <2> QED
    BY <2>5, <2>6 DEF r
<1> QED
  BY <1>4, <1>5

----------------------------------------------------------------------------
(* The other steps of the machine *)

(* What FsDisk calls the Files and pointers are those of the tree (FileAt,   *)
(* PtrAt).                                                                   *)
LEMMA AtSeen ==
  ASSUME NEW s, NEW own, NEW D, Tree(Seen(s), own, D), NEW p \in Files(own, D)
  PROVE  /\ FileAt(s, p) = FileV(Seen(s), p)
         /\ \A n \in 0..(NINDIRECT - 1) : PtrAt(s, p, n) = PtrV(Seen(s), p, n) /\ n \in Index
         /\ FileAt(s, p).f_indirect = PtrV(Seen(s), p, -1)
<1>1. OwnOk(own, D) /\ Shape(Seen(s), own, D) /\ Links(Seen(s), own, D)
  BY DEF Tree
<1>2. p[1] \in Blocks
  BY <1>1, FileSlots
<1>3. FileAt(s, p) = FileV(Seen(s), p)
  BY <1>2 DEF FileAt, FileV, Seen
<1>4. FileV(Seen(s), p).f_indirect \in Blocks
  BY <1>1 DEF Shape, FileShape, IsFile
<1>5. \A n \in 0..(NINDIRECT - 1) : PtrAt(s, p, n) = PtrV(Seen(s), p, n) /\ n \in Index
  <2> SUFFICES ASSUME NEW n \in 0..(NINDIRECT - 1)
               PROVE  PtrAt(s, p, n) = PtrV(Seen(s), p, n) /\ n \in Index
    OBVIOUS
  <2>1. n # -1 /\ n \in Index
    BY Consts DEF Index
  <2>2. At(s, FileV(Seen(s), p).f_indirect) = Seen(s)[FileV(Seen(s), p).f_indirect]
    BY <1>4 DEF Seen
  <2> QED
    BY <1>3, <2>1, <2>2 DEF PtrAt, HasPtr, PtrV
<1>6. FileAt(s, p).f_indirect = PtrV(Seen(s), p, -1)
  BY <1>3 DEF PtrV
<1> QED
  BY <1>3, <1>5, <1>6

(* A block of data *)
IsData(own, D, b) == own[b] # NoOwner /\ own[b][2] >= 0 /\ own[b][1] \notin D

(* The pointers of a file lead to blocks of data. *)
LEMMA PtrData ==
  ASSUME NEW s, NEW own, NEW D, Tree(Seen(s), own, D), NEW p \in Files(own, D), p \notin D,
         NEW n \in 0..(NINDIRECT - 1), PtrAt(s, p, n) # 0
  PROVE  LET b == PtrAt(s, p, n)
         IN  /\ b \in Blocks /\ IsData(own, D, b) /\ ~HasFiles(own, D, b) /\ ~IsInd(own, b) /\ b # BITMAP
             /\ b # SUPER
<1> DEFINE b == PtrAt(s, p, n)
<1>1. OwnOk(own, D) /\ Shape(Seen(s), own, D) /\ Links(Seen(s), own, D)
  BY DEF Tree
<1>2. b = PtrV(Seen(s), p, n) /\ n \in Index /\ n >= 0
  BY AtSeen
<1> HIDE DEF b
<1>3. b # 0
  BY DEF b
<1>4. b \in Blocks /\ own[b] = <<p, n>> /\ p # NULL
  BY <1>1, <1>2, <1>3, PtrIsBlock, FileSlots DEF Links
<1>5. IsData(own, D, b)
  BY <1>2, <1>4 DEF IsData, NoOwner
<1>6. b # SUPER /\ b # BITMAP
  BY <1>1, <1>4, <1>5, OwnerIs DEF IsData
<1>7. ~HasFiles(own, D, b) /\ ~IsInd(own, b)
  BY <1>2, <1>4, <1>6 DEF HasFiles, IsDirBlk, IsInd
<1> QED
  BY <1>4, <1>5, <1>6, <1>7 DEF b

(* The invariant when a block that holds no Files and no pointers changes. *)
LEMMA DataGood ==
  ASSUME NEW s, NEW own, NEW D, NEW sh, NEW fu, Good(s, own, D, sh, fu),
         NEW x, ~HasFiles(own, D, x), ~IsInd(own, x), x # BITMAP,
         NEW t, Base(t), t.disk = s.disk, t.dirty \subseteq s.dirty,
         t.cache[BITMAP] = s.cache[BITMAP],
         \A b \in Blocks : b # x => Seen(t)[b] = Seen(s)[b]
  PROVE  Good(t, own, D, sh, fu)
<1>1. Tree(Seen(t), own, D)
  <2>1. \A b \in Blocks : HasFiles(own, D, b) \/ IsInd(own, b) => Seen(t)[b] = Seen(s)[b]
    OBVIOUS
  <2>2. Tree(Seen(s), own, D)
    BY DEF Good
  <2> QED
    BY <2>1, <2>2, DataChanges
<1>2. sh \/ DiskOk(t.disk, t.cache[BITMAP], t.dirty, own, D)
  BY DEF Good, DiskOk
<1> QED
  BY <1>1, <1>2 DEF Good

(* A store to a page of data *)
LEMMA WordGood ==
  ASSUME NEW s, NEW own, NEW D, NEW sh, NEW fu, Good(s, own, D, sh, fu),
         NEW x \in Blocks, ~HasFiles(own, D, x), ~IsInd(own, x), x # BITMAP, NEW w
  PROVE  LET t == [s EXCEPT !.cache[x][0] = w]
         IN  Good(t, own, D, sh, fu) /\ Grows(s, own, t, own, D)
<1> DEFINE t == [s EXCEPT !.cache[x][0] = w]
<1>1. Base(s) /\ IsFs(s) /\ OwnOk(own, D) /\ s.mapped \subseteq Blocks
  BY DEF Good, Base, Tree
<1>2. /\ IsFs(t) /\ t.mapped = s.mapped /\ t.dirty = s.dirty /\ t.disk = s.disk /\ t.panic = s.panic
      /\ \A b \in Blocks : b # x => t.cache[b] = s.cache[b]
  BY <1>1 DEF IsFs
<1> HIDE DEF t
<1>3. Base(t) /\ t.cache[BITMAP] = s.cache[BITMAP]
  BY <1>1, <1>2, Consts DEF Base
<1>4. \A b \in Blocks : b # x => Seen(t)[b] = Seen(s)[b]
  BY <1>2 DEF Seen, At
<1>5. Good(t, own, D, sh, fu)
  BY <1>2, <1>3, <1>4, DataGood
<1>6. \A q \in Files(own, D) : q[1] \in Blocks /\ q[1] # x
  BY <1>1, FileSlots
<1>7. \A q \in Files(own, D) : File(t, q) = File(s, q)
  BY <1>2, <1>6 DEF File
<1>8. Grows(s, own, t, own, D)
  BY <1>2, <1>7 DEF Grows
<1> QED
  BY <1>5, <1>8 DEF t

(* The page of a block is given up. *)
Forget(s, x) == [s EXCEPT !.mapped = @ \ {x}, !.dirty = @ \ {x}, !.cache[x] = Zero]

(* If it holds no Files and no pointers, nothing else changes. *)
LEMMA ForgetGood ==
  ASSUME NEW s, NEW own, NEW D, NEW sh, NEW fu, Good(s, own, D, sh, fu),
         NEW x \in Blocks, ~HasFiles(own, D, x), ~IsInd(own, x), x # BITMAP
  PROVE  LET t == Forget(s, x)
         IN  /\ Good(t, own, D, sh, fu)
             /\ \A p : Usable(s, own, D, p) => Usable(t, own, D, p)
<1> DEFINE t == Forget(s, x)
           a == [s EXCEPT !.mapped = @ \ {x}]
           b == [a EXCEPT !.dirty = @ \ {x}]
<1>1. Base(s) /\ IsFs(s) /\ OwnOk(own, D) /\ s.mapped \subseteq Blocks
  BY DEF Good, Base, Tree
<1>2. /\ IsFs(a) /\ a.mapped = s.mapped \ {x} /\ a.dirty = s.dirty /\ a.disk = s.disk
      /\ a.panic = s.panic /\ a.cache = s.cache
  BY <1>1 DEF IsFs
<1>3. t = [b EXCEPT !.cache[x] = Zero]
  BY <1>1 DEF Forget, IsFs
<1> HIDE DEF a
<1>4. /\ IsFs(b) /\ b.mapped = a.mapped /\ b.dirty = s.dirty \ {x} /\ b.disk = s.disk
      /\ b.panic = s.panic /\ b.cache = s.cache
  BY <1>2 DEF IsFs
<1> HIDE DEF b, t
<1>5. /\ IsFs(t) /\ t.mapped = s.mapped \ {x} /\ t.dirty = s.dirty \ {x} /\ t.disk = s.disk
      /\ t.panic = s.panic /\ \A c \in Blocks : c # x => t.cache[c] = s.cache[c]
  BY <1>2, <1>3, <1>4 DEF IsFs
<1>6. x # SUPER
  BY DEF HasFiles
<1>7. Base(t) /\ t.cache[BITMAP] = s.cache[BITMAP]
  BY <1>1, <1>5, <1>6, Consts DEF Base
<1>8. \A c \in Blocks : c # x => Seen(t)[c] = Seen(s)[c]
  BY <1>5 DEF Seen, At
<1>9. Good(t, own, D, sh, fu)
  BY <1>5, <1>7, <1>8, DataGood
<1>10. \A q \in Files(own, D) : q[1] \in Blocks /\ q[1] # x
  BY <1>1, FileSlots
<1>11. ASSUME NEW p, Usable(s, own, D, p) PROVE Usable(t, own, D, p)
  <2>1. p \in Files(own, D) /\ p[1] \in s.mapped
        /\ (File(s, p).f_dir # NULL => File(s, p).f_dir[1] \in s.mapped)
    BY <1>11 DEF Usable
  <2>2. File(t, p) = File(s, p)
    BY <1>5, <1>10, <2>1 DEF File
  <2>3. FileShape(D, p, File(s, p))
    BY <2>1, FileHas DEF Good
  <2>4. File(s, p).f_dir # NULL => File(s, p).f_dir \in Files(own, D)
    BY <1>1, <2>3 DEF FileShape, OwnOk
  <2> QED
    BY <1>5, <1>10, <2>1, <2>2, <2>4 DEF Usable
<1> QED
  BY <1>9, <1>11 DEF t

----------------------------------------------------------------------------
(* The Files that FsDisk finds, level by level, are those of the tree. *)

(* The Files in the blocks of a directory (Entries) *)
LEMMA EntriesAre ==
  ASSUME NEW s, NEW own, NEW D, Tree(Seen(s), own, D), NEW p \in D
  PROVE  Entries(s, p) = {q \in Files(own, D) : q # Root /\ own[q[1]][1] = p}
<1> DEFINE N  == NBlocks(FileAt(s, p))
           sz == FileV(Seen(s), p).f_size
<1>1. OwnOk(own, D) /\ Shape(Seen(s), own, D) /\ Links(Seen(s), own, D) /\ Exact(Seen(s), own)
      /\ Sized(Seen(s), own, D) /\ p \in Files(own, D)
  BY DEF Tree, OwnOk
<1>2. FileAt(s, p) = FileV(Seen(s), p)
      /\ \A n \in 0..(NINDIRECT - 1) : PtrAt(s, p, n) = PtrV(Seen(s), p, n) /\ n \in Index
  BY <1>1, AtSeen
<1>3. sz \in Nat
  BY <1>1 DEF Shape, FileShape, IsFile
<1>4. N = (sz + BY2BLK - 1) \div BY2BLK
  BY <1>2 DEF NBlocks
<1>5. ASSUME NEW n \in 0..(NINDIRECT - 1), PtrAt(s, p, n) # 0, NEW j \in 1..FILE2BLK
      PROVE  /\ <<PtrAt(s, p, n), j>> \in Files(own, D) /\ <<PtrAt(s, p, n), j>> # Root
             /\ own[PtrAt(s, p, n)][1] = p
  <2>1. PICK b : b = PtrAt(s, p, n)
    OBVIOUS
  <2>2. b = PtrV(Seen(s), p, n) /\ b # 0 /\ n \in Index /\ n \in Nat
    BY <1>2, <1>5, <2>1
  <2>3. b \in Blocks /\ own[b] = <<p, n>>
    BY <1>1, <2>2, PtrIsBlock DEF Links
  <2>4. <<b, j>> \in Files(own, D) /\ b # SUPER
    BY <1>1, <2>2, <2>3, BlockFiles
  <2> QED
    BY <2>1, <2>3, <2>4 DEF Root
<1>6. ASSUME NEW q \in Files(own, D), q # Root, own[q[1]][1] = p
      PROVE  \E n \in {k \in 0..(NINDIRECT - 1) : k < N /\ PtrAt(s, p, k) # 0}, j \in 1..FILE2BLK :
               q = <<PtrAt(s, p, n), j>>
  <2>1. q = <<q[1], q[2]>> /\ q[1] \in Blocks /\ q[2] \in SlotsOf(q[1]) /\ HasFiles(own, D, q[1])
    BY <1>1, FileSlots
  <2>2. q[1] # SUPER
    BY <1>6, <2>1 DEF SlotsOf, Root
  <2>3. q[2] \in 1..FILE2BLK /\ IsDirBlk(own, D, q[1])
    BY <2>1, <2>2 DEF SlotsOf, HasFiles
  <2>4. own[q[1]] # NoOwner
    BY <1>1, <2>3, Unowned DEF IsDirBlk, NoOwner
  <2>5. PICK b, n : b = q[1] /\ n = own[b][2]
    OBVIOUS
  <2>6. own[b] = <<p, n>> /\ n \in Index /\ n >= 0 /\ b \in Blocks /\ b # 0 /\ own[b] # NoOwner
    BY <1>1, <1>6, <2>1, <2>3, <2>4, <2>5, OwnerIs DEF IsDirBlk
  <2>7. PtrV(Seen(s), p, n) = b
    BY <1>1, <2>6 DEF Exact, Linked
  <2>8. n \in 0..(NINDIRECT - 1) /\ n \in Nat
    BY <2>6, Consts DEF Index, NINDIRECT
  <2>9. InSize(Seen(s), own, D, b)
    <3>1. own[b][2] >= 0
      BY <2>5, <2>6
    <3> QED
      BY <1>1, <2>6, <3>1, Zenon DEF Sized
  <2>10. n * BY2BLK < sz
    BY <2>6, <2>9 DEF InSize, Covered
  <2>11. n < N
    <3>1. PICK x, y : x = sz + BY2BLK - 1 /\ y = N
      OBVIOUS
    <3>2. x \in Nat /\ y = x \div BY2BLK /\ BY2BLK \in Nat /\ BY2BLK > 0
      BY <1>3, <1>4, <3>1, Consts
    <3>3. y \in Nat /\ x % BY2BLK \in 0..(BY2BLK - 1) /\ x = y * BY2BLK + (x % BY2BLK)
      BY <3>2, DivMod
    <3>4. PICK r \in 0..(BY2BLK - 1) : x = y * BY2BLK + r
      BY <3>3
    <3>5. n * BY2BLK \in Nat /\ y * BY2BLK \in Nat
      BY <2>8, <3>2, <3>3
    <3>6. n * BY2BLK < y * BY2BLK
      BY <1>3, <2>10, <3>1, <3>2, <3>4, <3>5
    <3>7. y <= n => y * BY2BLK <= n * BY2BLK
      BY <2>8, <3>2, <3>3
    <3> QED
      BY <2>8, <3>1, <3>3, <3>5, <3>6, <3>7
  <2>12. PtrAt(s, p, n) = b
    BY <1>2, <2>7, <2>8
  <2> HIDE DEF N
  <2>13. n \in {k \in 0..(NINDIRECT - 1) : k < N /\ PtrAt(s, p, k) # 0}
    BY <2>6, <2>8, <2>11, <2>12
  <2>14. q = <<PtrAt(s, p, n), q[2]>>
    BY <2>1, <2>5, <2>12
  <2> QED
    BY <2>3, <2>13, <2>14
<1>7. Entries(s, p) = {<<PtrAt(s, p, n), j>> :
                         n \in {k \in 0..(NINDIRECT - 1) : k < N /\ PtrAt(s, p, k) # 0},
                         j \in 1..FILE2BLK}
  BY DEF Entries
<1> HIDE DEF N
<1>8. ASSUME NEW q \in Entries(s, p) PROVE q \in Files(own, D) /\ q # Root /\ own[q[1]][1] = p
  <2>1. PICK n \in {k \in 0..(NINDIRECT - 1) : k < N /\ PtrAt(s, p, k) # 0}, j \in 1..FILE2BLK :
               q = <<PtrAt(s, p, n), j>>
    BY <1>7
  <2>2. n \in 0..(NINDIRECT - 1) /\ PtrAt(s, p, n) # 0
    BY <2>1
  <2> QED
    BY <1>5, <2>1, <2>2
<1>9. ASSUME NEW q \in Files(own, D), q # Root, own[q[1]][1] = p PROVE q \in Entries(s, p)
  BY <1>6, <1>7, <1>9
<1> QED
  BY <1>8, <1>9

(* How deep a File is *)
LevelOf(own, dep, q) == IF q = Root THEN 0 ELSE dep[own[q[1]][1]] + 1

(* The level of a directory is its depth, and that of its Files is one more. *)
LEMMA LevelIs ==
  ASSUME NEW own, NEW D, OwnOk(own, D), NEW dep, DepthOk(own, D, dep), NEW q \in Files(own, D)
  PROVE  /\ LevelOf(own, dep, q) \in 0..(Len(Image) + 1)
         /\ q \in D => LevelOf(own, dep, q) = dep[q]
         /\ q # Root => own[q[1]][1] \in D /\ LevelOf(own, dep, q) = dep[own[q[1]][1]] + 1
         /\ q = Root <=> LevelOf(own, dep, q) = 0
<1>1. q \in D => LevelOf(own, dep, q) = dep[q]
  BY DEF LevelOf, DepthOk
<1>2. Len(Image) \in Nat
  BY FsAssumption
<1>3. ASSUME q # Root PROVE own[q[1]][1] \in D
  <2>1. q = <<q[1], q[2]>> /\ q[2] \in SlotsOf(q[1]) /\ HasFiles(own, D, q[1])
    BY FileSlots
  <2>2. q[1] # SUPER
    BY <1>3, <2>1 DEF SlotsOf, Root
  <2> QED
    BY <2>1, <2>2 DEF HasFiles, IsDirBlk
<1>4. PICK m, d : m = Len(Image) /\ d = dep[own[q[1]][1]]
  OBVIOUS
<1>5. m \in Nat /\ (q # Root => d \in 0..m)
  BY <1>2, <1>3, <1>4 DEF DepthOk
<1>6. LevelOf(own, dep, q) = IF q = Root THEN 0 ELSE d + 1
  BY <1>4 DEF LevelOf
<1>7. LevelOf(own, dep, q) \in 0..(m + 1) /\ (q = Root <=> LevelOf(own, dep, q) = 0)
  BY <1>5, <1>6
<1> QED
  BY <1>1, <1>3, <1>4, <1>6, <1>7

(* FilePtrs finds all the Files of the tree, and no others. *)
LEMMA FilePtrsAre ==
  ASSUME NEW s, NEW own, NEW D, Tree(Seen(s), own, D), NEW dep, DepthOk(own, D, dep)
  PROVE  FilePtrs(s) = Files(own, D)
<1> DEFINE m == Len(Image) + 1
           Below1(S) == UNION {Entries(s, p) : p \in {q \in S : FileAt(s, q).f_type = FTYPE_DIR}}
           Runs(g) == g = [k \in 0..m |-> IF k = 0 THEN {Root} ELSE Below1(g[k - 1])]
           F == CHOOSE g : Runs(g)
           L == [k \in 0..m |-> {q \in Files(own, D) : LevelOf(own, dep, q) = k}]
<1>1. OwnOk(own, D) /\ m \in Nat /\ Root \in Files(own, D)
  BY FsAssumption, Unowned DEF Tree
<1>2. FilePtrs(s) = UNION {F[k] : k \in 0..m}
  BY DEF FilePtrs
<1>0. \A q \in Files(own, D) : LevelOf(own, dep, q) \in 0..m
  BY <1>1, LevelIs
<1> HIDE DEF m
<1>3. \A q \in Files(own, D) : (FileAt(s, q).f_type = FTYPE_DIR) <=> q \in D
  BY AtSeen DEF Tree, Shape, FileShape
<1>4. L[0] = {Root}
  BY <1>1, LevelIs
<1>5. ASSUME NEW k \in 1..m PROVE L[k] = Below1(L[k - 1])
  <2>1. k \in 0..m /\ k - 1 \in 0..m
    BY <1>1
  <2>2. ASSUME NEW q \in L[k] PROVE q \in Below1(L[k - 1])
    <3>1. q \in Files(own, D) /\ LevelOf(own, dep, q) = k
      BY <2>1, <2>2
    <3>2. q # Root /\ own[q[1]][1] \in D /\ dep[own[q[1]][1]] + 1 = k
      BY <1>1, <3>1, LevelIs
    <3>3. PICK p \in D : p = own[q[1]][1]
      BY <3>2
    <3>4. p \in Files(own, D) /\ LevelOf(own, dep, p) = dep[p] /\ dep[p] \in Int
      BY <1>1, <3>3, LevelIs DEF OwnOk, DepthOk
    <3>5. LevelOf(own, dep, p) = k - 1
      BY <3>2, <3>3, <3>4
    <3>6. p \in {x \in L[k - 1] : FileAt(s, x).f_type = FTYPE_DIR}
      BY <1>3, <2>1, <3>3, <3>4, <3>5
    <3>7. q \in Entries(s, p)
      BY <3>1, <3>2, <3>3, EntriesAre
    <3> HIDE DEF L
    <3> QED
      BY <3>6, <3>7
  <2>3. ASSUME NEW q \in Below1(L[k - 1]) PROVE q \in L[k]
    <3>1. PICK p \in {x \in L[k - 1] : FileAt(s, x).f_type = FTYPE_DIR} : q \in Entries(s, p)
      BY <2>3
    <3>2. p \in Files(own, D) /\ LevelOf(own, dep, p) = k - 1 /\ p \in D
      BY <1>3, <2>1, <3>1
    <3>3. q \in Files(own, D) /\ q # Root /\ own[q[1]][1] = p
      BY <3>1, <3>2, EntriesAre
    <3>4. LevelOf(own, dep, p) = dep[p] /\ LevelOf(own, dep, q) = dep[p] + 1
      BY <1>1, <3>2, <3>3, LevelIs
    <3> QED
      BY <2>1, <3>2, <3>3, <3>4
  <2> QED
    BY <2>2, <2>3
<1>6. Runs(L)
  <2> HIDE DEF Below1
  <2>1. \A k \in 0..m : k # 0 => k \in 1..m
    BY <1>1
  <2>2. ASSUME NEW k \in 0..m PROVE L[k] = IF k = 0 THEN {Root} ELSE Below1(L[k - 1])
    BY <1>4, <1>5, <2>1
  <2>3. DOMAIN L = 0..m /\ L = [k \in 0..m |-> L[k]]
    OBVIOUS
  <2> HIDE DEF L
  <2> QED
    BY <2>2, <2>3
<1> HIDE DEF L, Below1
<1>7. Runs(F)
  <2> HIDE DEF Runs
  <2> QED
    BY <1>6, Zenon
<1> HIDE DEF F
<1>8. F[0] = {Root} /\ \A k \in 1..m : F[k] = Below1(F[k - 1])
  <2>1. 0 \in 0..m /\ \A k \in 1..m : k \in 0..m /\ k # 0
    BY <1>1
  <2>2. ASSUME NEW k \in 0..m PROVE F[k] = IF k = 0 THEN {Root} ELSE Below1(F[k - 1])
    BY <1>7, Zenon
  <2> QED
    BY <2>1, <2>2
<1>9. \A k \in 0..m : F[k] = L[k]
  <2> DEFINE P == {k \in 0..m : F[k] = L[k]}
  <2>1. 0 \in P
    BY <1>1, <1>4, <1>8
  <2>2. \A k \in 1..m : k - 1 \in P => k \in P
    BY <1>5, <1>8
  <2>3. \A k \in 0..m : k \in P
    <3> HIDE DEF P
    <3> QED
      BY <1>1, <2>1, <2>2, Induct
  <2> QED
    BY <2>3
<1>10. ASSUME NEW q \in Files(own, D) PROVE \E k \in 0..m : q \in L[k]
  BY <1>0 DEF L
<1>11. \A k \in 0..m : L[k] \subseteq Files(own, D)
  BY DEF L
<1> QED
  BY <1>2, <1>9, <1>10, <1>11

----------------------------------------------------------------------------
(* Giving up a page, stopping and booting *)

(* unmap_block of a block that is free or of data *)
LEMMA Unmaps ==
  ASSUME NEW s, NEW own, NEW D, NEW sh, NEW fu, Good(s, own, D, sh, fu),
         NEW dep, DepthOk(own, D, dep), NEW b \in 3..(NBLOCK - 1), b \in s.mapped,
         \/ b \in s.cache[BITMAP]
         \/ \E p \in FilePtrs(s) : /\ FileAt(s, p).f_type = FTYPE_REG
                                   /\ \E n \in 0..(NINDIRECT - 1) : PtrAt(s, p, n) = b
  PROVE  /\ Good(unmap_block(s, b), own, D, sh, fu)
         /\ \A p : Usable(s, own, D, p) => Usable(unmap_block(s, b), own, D, p)
<1> DEFINE t == IF ~block_is_free(s, b) /\ block_is_dirty(s, b) THEN write_block(s, b) ELSE s
<1>1. Tree(Seen(s), own, D) /\ OwnOk(own, D) /\ FreeOk(s.cache[BITMAP], own) /\ b \in Blocks
      /\ b # SUPER /\ b # BITMAP /\ b # 0 /\ b < NBLOCK
  BY Consts DEF Good, Tree, Blocks
<1>2. CASE b \in s.cache[BITMAP]
  <2>1. own[b] = NoOwner
    BY <1>1, <1>2 DEF FreeOk
  <2>2. ~HasFiles(own, D, b) /\ ~IsInd(own, b)
    BY <1>1, <2>1, Unowned
  <2>3. t = s
    BY <1>1, <1>2 DEF block_is_free
  <2>4. unmap_block(s, b) = Forget(s, b)
    BY <2>3 DEF unmap_block, Forget
  <2>5. Good(Forget(s, b), own, D, sh, fu) /\ \A p : Usable(s, own, D, p) => Usable(Forget(s, b), own, D, p)
    BY <1>1, <2>2, ForgetGood
  <2> QED
    BY <2>4, <2>5
<1>3. CASE b \notin s.cache[BITMAP]
  <2>1. PICK p \in FilePtrs(s), n \in 0..(NINDIRECT - 1) :
          FileAt(s, p).f_type = FTYPE_REG /\ PtrAt(s, p, n) = b
    BY <1>3
  <2>2. p \in Files(own, D)
    BY <1>1, <2>1, FilePtrsAre
  <2>3. p \notin D
    BY <1>1, <2>1, <2>2, AtSeen DEF Tree, Shape, FileShape, FTYPE_REG, FTYPE_DIR
  <2>4. IsData(own, D, b) /\ ~HasFiles(own, D, b) /\ ~IsInd(own, b)
    BY <1>1, <2>1, <2>2, <2>3, PtrData
  <2>5. Quiet(s, write_block(s, b), own, D, sh, fu)
    BY <2>4, WriteQuiet DEF IsData
  <2>6. Quiet(s, s, own, D, sh, fu)
    BY DEF Quiet
  <2>7. Quiet(s, t, own, D, sh, fu)
    BY <2>5, <2>6
  <2>8. unmap_block(s, b) = Forget(t, b)
    BY DEF unmap_block, Forget
  <2> HIDE DEF t
  <2>9. Good(t, own, D, sh, fu)
    BY <2>7 DEF Quiet
  <2>10. Good(Forget(t, b), own, D, sh, fu) /\ \A q : Usable(t, own, D, q) => Usable(Forget(t, b), own, D, q)
    BY <1>1, <2>4, <2>9, ForgetGood
  <2>11. \A q : Usable(s, own, D, q) => Usable(t, own, D, q)
    BY <2>7, QuietUsable
  <2> QED
    BY <2>8, <2>10, <2>11
<1> QED
  BY <1>2, <1>3

(* When the machine stops, the blocks that the tree on the disk leads to     *)
(* keep their owners.                                                        *)
Alive(disk, own, b) ==
  own[b] # NoOwner /\ Linked(disk, own, b) /\ (own[b][1] = Root \/ Linked(disk, own, own[b][1][1]))
Surviving(disk, own) == [b \in Blocks |-> IF Alive(disk, own, b) THEN own[b] ELSE NoOwner]

(* What is on the disk is a tree, to which a block may be missing. *)
LEMMA Stopped ==
  ASSUME NEW s, NEW own, NEW D, NEW sh, NEW fu, Good(s, own, D, sh, fu), ~sh,
         NEW dep, DepthOk(own, D, dep), NEW fu2, ~fu2
  PROVE  LET own2 == Surviving(s.disk, own)
         IN  OffOk(s.disk, own2, D, fu2) /\ DepthOk(own2, D, dep)
<1>1. PICK disk, own2 : disk = s.disk /\ own2 = Surviving(disk, own)
  OBVIOUS
<1>2. /\ OwnOk(own, D) /\ DOMAIN disk = Blocks /\ FreeOk(s.cache[BITMAP], own)
      /\ DiskOk(disk, s.cache[BITMAP], s.dirty, own, D)
  BY <1>1 DEF Good, Tree, Base, IsFs
<1>3. Struct(disk, own, D) /\ Shape(disk, own, D) /\ Links(disk, own, D)
  BY <1>2, StructLinks DEF DiskOk
<1>4. \A b \in Blocks : own2[b] = IF Alive(disk, own, b) THEN own[b] ELSE NoOwner
  BY <1>1 DEF Surviving
<1>5. \A b \in Blocks : own2[b] # NoOwner =>
        own2[b] = own[b] /\ own[b] # NoOwner /\ Linked(disk, own, b)
        /\ (own[b][1] = Root \/ Linked(disk, own, own[b][1][1]))
  BY <1>4 DEF Alive
<1>6. NULL \notin D /\ Root \in Files(own, D) /\ NoOwner[1] = NULL
  BY <1>2, Unowned DEF NoOwner
<1>7. ASSUME NEW p \in Files(own, D), p # Root
      PROVE  p[1] \in Blocks /\ p[1] # SUPER /\ IsDirBlk(own, D, p[1]) /\ own[p[1]] # NoOwner
  <2>1. p = <<p[1], p[2]>> /\ p[1] \in Blocks /\ p[2] \in SlotsOf(p[1]) /\ HasFiles(own, D, p[1])
    BY <1>2, FileSlots
  <2>2. p[1] # SUPER
    BY <1>7, <2>1 DEF SlotsOf, Root
  <2>3. IsDirBlk(own, D, p[1])
    BY <2>1, <2>2 DEF HasFiles
  <2> QED
    BY <1>6, <2>1, <2>2, <2>3 DEF IsDirBlk
<1>8. ASSUME NEW p \in Files(own, D), p # Root, Linked(disk, own, p[1])
      PROVE  own2[p[1]] = own[p[1]] /\ p \in Files(own2, D)
  <2>1. p[1] \in Blocks /\ IsDirBlk(own, D, p[1]) /\ own[p[1]] # NoOwner
    BY <1>7, <1>8
  <2>2. own[p[1]][1] \in D
    BY <2>1 DEF IsDirBlk
  <2>3. own[p[1]][1] = Root \/ Linked(disk, own, own[p[1]][1][1])
    BY <1>2, <2>2 DEF DiskOk
  <2>4. own2[p[1]] = own[p[1]]
    BY <1>4, <1>8, <2>1, <2>3 DEF Alive
  <2>5. HasFiles(own2, D, p[1])
    BY <2>1, <2>4 DEF HasFiles, IsDirBlk
  <2> QED
    BY <2>4, <2>5 DEF Files
<1>9. \A p \in D \ {Root} : p \in Files(own, D) /\ Linked(disk, own, p[1])
  BY <1>2 DEF OwnOk, DiskOk
<1>10. Root \in Files(own2, D)
  BY Consts DEF Files, Slots, Root, HasFiles, SlotsOf
<1>11. D \subseteq Files(own2, D)
  BY <1>8, <1>9, <1>10
<1>12. own2 \in [Blocks -> Owners]
  <2>1. NoOwner \in Owners
    BY Consts DEF NoOwner, Owners, Slots, NULL, Index, NINDIRECT
  <2>2. own \in [Blocks -> Owners]
    BY <1>2 DEF OwnOk
  <2> QED
    BY <1>1, <2>1, <2>2 DEF Surviving
<1>13. OwnOk(own2, D)
  <2>1. ASSUME NEW b \in Blocks, own2[b] # NoOwner
        PROVE  b >= 3 /\ own2[b][1] \in Files(own2, D)
    <3>1. own2[b] = own[b] /\ own[b] # NoOwner /\ (own[b][1] = Root \/ Linked(disk, own, own[b][1][1]))
      BY <1>5, <2>1
    <3>2. b >= 3 /\ own[b][1] \in Files(own, D)
      BY <1>2, <3>1 DEF OwnOk
    <3> QED
      BY <1>8, <1>10, <3>1, <3>2
  <2> QED
    BY <1>2, <1>11, <1>12, <2>1 DEF OwnOk
<1>14. \A b \in Blocks : (HasFiles(own2, D, b) => HasFiles(own, D, b))
                         /\ (IsInd(own2, b) => IsInd(own, b) /\ own2[b] = own[b])
  <2>1. ASSUME NEW b \in Blocks, own2[b] = NoOwner PROVE ~IsDirBlk(own2, D, b) /\ ~IsInd(own2, b)
    BY <1>6, <2>1 DEF IsDirBlk, IsInd
  <2>2. ASSUME NEW b \in Blocks, own2[b] # NoOwner PROVE own2[b] = own[b]
    BY <1>5, <2>2
  <2> QED
    BY <2>1, <2>2 DEF HasFiles, IsDirBlk, IsInd
<1>15. Files(own2, D) \subseteq Files(own, D)
  BY <1>14 DEF Files, Slots
<1>16. Shape(disk, own2, D)
  BY <1>3, <1>14, <1>15 DEF Shape
<1>17. ASSUME NEW p \in Files(own2, D), p # Root PROVE Linked(disk, own, p[1])
  <2>1. p[1] \in Blocks /\ p[1] # SUPER /\ HasFiles(own2, D, p[1])
    BY <1>7, <1>15, <1>17 DEF Files
  <2>2. own2[p[1]] # NoOwner
    BY <1>6, <2>1 DEF HasFiles, IsDirBlk
  <2> QED
    BY <1>5, <2>1, <2>2
<1>18. Links(disk, own2, D)
  <2> SUFFICES ASSUME NEW p \in Files(own2, D), NEW n \in Index, PtrV(disk, p, n) # 0
               PROVE  own2[PtrV(disk, p, n)] = <<p, n>>
    BY DEF Links
  <2>1. PICK x : x = PtrV(disk, p, n)
    OBVIOUS
  <2>2. p \in Files(own, D) /\ x # 0
    BY <1>15, <2>1
  <2>3. x \in Blocks /\ own[x] = <<p, n>>
    BY <1>2, <1>3, <2>1, <2>2, PtrIsBlock DEF Links
  <2>4. p # NULL
    BY <1>2, <2>2, FileSlots
  <2>5. own[x] # NoOwner /\ own[x][1] = p /\ own[x][2] = n
    BY <2>3, <2>4 DEF NoOwner
  <2>6. Linked(disk, own, x)
    BY <2>1, <2>5 DEF Linked
  <2>7. Alive(disk, own, x)
    BY <1>17, <2>5, <2>6 DEF Alive
  <2> QED
    BY <1>4, <2>1, <2>3, <2>7
<1>19. Exact(disk, own2)
  BY <1>5 DEF Exact, Linked
<1>20. Sized(disk, own2, D)
  <2> SUFFICES ASSUME NEW b \in Blocks, own2[b] # NoOwner, own2[b][2] >= 0
               PROVE  InSize(disk, own2, D, b)
    BY DEF Sized
  <2>1. own2[b] = own[b] /\ own[b] # NoOwner /\ Linked(disk, own, b)
    BY <1>5
  <2>2. InSize(disk, own, D, b)
    BY <1>2, <2>1 DEF DiskOk
  <2> QED
    BY <2>1, <2>2 DEF InSize
<1>21. FreeOk(disk[BITMAP], own2) /\ \A b \in disk[BITMAP] : disk[b] = Zero
  <2>1. disk[BITMAP] \subseteq s.cache[BITMAP] /\ \A b \in s.cache[BITMAP] : disk[b] = Zero
    BY <1>2 DEF DiskOk
  <2>2. \A b \in 3..(NBLOCK - 1) : b \in Blocks
    BY Consts DEF Blocks
  <2> QED
    BY <1>2, <1>5, <2>1, <2>2 DEF FreeOk
<1>22. OffOk(disk, own2, D, fu2)
  BY <1>2, <1>13, <1>16, <1>18, <1>19, <1>20, <1>21 DEF OffOk, Tree
<1>23. DepthOk(own2, D, dep)
  BY <1>8, <1>9 DEF DepthOk
<1> QED
  BY <1>1, <1>22, <1>23

(* Reading a block of the disk into its page (ide_read) *)
LEMMA ReadIs ==
  ASSUME NEW s, IsFs(s), NEW b \in Blocks
  PROVE  LET t == ide_read(s, b)
         IN  /\ IsFs(t) /\ t.mapped = s.mapped \cup {b} /\ t.dirty = s.dirty /\ t.disk = s.disk
             /\ t.panic = s.panic /\ t.cache[b] = s.disk[b]
             /\ \A c \in Blocks : c # b => t.cache[c] = s.cache[c]
<1> DEFINE t == ide_read(s, b)
           a == [s EXCEPT !.cache[b] = s.disk[b]]
<1>1. /\ IsFs(a) /\ a.mapped = s.mapped /\ a.dirty = s.dirty /\ a.disk = s.disk /\ a.panic = s.panic
      /\ a.cache[b] = s.disk[b] /\ \A c \in Blocks : c # b => a.cache[c] = s.cache[c]
  BY DEF IsFs
<1>2. t = [a EXCEPT !.mapped = @ \cup {b}]
  BY DEF ide_read, IsFs
<1> HIDE DEF a, t
<1>3. /\ IsFs(t) /\ t.mapped = a.mapped \cup {b} /\ t.dirty = a.dirty /\ t.disk = a.disk
      /\ t.panic = a.panic /\ t.cache = a.cache
  BY <1>1, <1>2 DEF IsFs
<1> QED
  BY <1>1, <1>3 DEF t

(* Storing to a page *)
LEMMA StoreIs ==
  ASSUME NEW s, IsFs(s), NEW b \in Blocks, NEW c
  PROVE  LET t == [s EXCEPT !.cache[b] = c]
         IN  /\ IsFs(t) /\ t.mapped = s.mapped /\ t.dirty = s.dirty /\ t.disk = s.disk
             /\ t.panic = s.panic /\ t.cache[b] = c /\ \A x \in Blocks : x # b => t.cache[x] = s.cache[x]
BY DEF IsFs

(* Writing a page to the disk (ide_write) *)
LEMMA WriteIs ==
  ASSUME NEW s, IsFs(s), NEW b \in Blocks
  PROVE  LET t == ide_write(s, b)
         IN  /\ IsFs(t) /\ t.mapped = s.mapped /\ t.dirty = s.dirty /\ t.cache = s.cache
             /\ t.panic = s.panic /\ t.disk[b] = s.cache[b]
             /\ \A x \in Blocks : x # b => t.disk[x] = s.disk[x]
BY DEF IsFs, ide_write

(* The super block names the root directory. *)
LEMMA SuperIs ==
  ASSUME NEW disk, NEW own, NEW D, NEW fu, OffOk(disk, own, D, fu)
  PROVE  disk[SUPER][0].f_name # "OOPS!"
<1>1. OwnOk(own, D) /\ Shape(disk, own, D) /\ SUPER \in Blocks
  BY Consts DEF OffOk, Tree
<1>2. HasFiles(own, D, SUPER) /\ SlotsOf(SUPER) = {0}
  BY DEF HasFiles, SlotsOf
<1>3. DOMAIN AsFiles(disk[SUPER]) = {0}
  BY <1>1, <1>2 DEF Shape
<1>4. DOMAIN ZeroDir = 1..FILE2BLK /\ 0 \notin 1..FILE2BLK
  BY DEF ZeroDir
<1>5. AsFiles(disk[SUPER]) = disk[SUPER]
  BY <1>3, <1>4 DEF AsFiles
<1>6. Root \in Files(own, D)
  BY <1>1, Unowned
<1>7. FileV(disk, Root).f_name # "OOPS!"
  BY <1>1, <1>6 DEF Shape, FileShape
<1>8. FileV(disk, Root) = disk[SUPER][0]
  BY <1>5 DEF FileV, Root
<1> QED
  BY <1>7, <1>8

(* The memory before fs_init *)
LEMMA BootedIs ==
  ASSUME NEW disk, DOMAIN disk = Blocks
  PROVE  LET s == Booted(disk)
         IN  IsFs(s) /\ s.mapped = {} /\ s.dirty = {} /\ s.disk = disk /\ s.panic = "no"
BY DEF Booted, IsFs

(* The super block is overwritten, and its content is in the page of block 0. *)
Smashing(s, disk) ==
  /\ IsFs(s) /\ s.panic = "no" /\ s.mapped = {0, SUPER} /\ s.dirty = {}
  /\ s.cache[0] = disk[SUPER]
  /\ \A b \in Blocks : b # SUPER => s.disk[b] = disk[b]

(* read_super and the first half of check_write_block *)
LEMMA BootSmashes ==
  ASSUME NEW disk, NEW own, NEW D, NEW fu, OffOk(disk, own, D, fu)
  PROVE  LET t == read_super(Booted(disk))
         IN  t.panic = "no" /\ Smashing(check_write_block_smash(t), disk)
<1> DEFINE s == Booted(disk)
           t == ide_read(s, SUPER)
           a == ide_read(t, 0)
           b == [a EXCEPT !.cache[0] = t.cache[SUPER]]
           c == [b EXCEPT !.cache[SUPER] = Smashed]
           u == ide_write(c, SUPER)
<1>1. IsFs(s) /\ s.mapped = {} /\ s.dirty = {} /\ s.disk = disk /\ s.panic = "no"
  BY BootedIs DEF OffOk
<1>2. {0, SUPER} \subseteq Blocks /\ 0 # SUPER
  BY Consts
<1>3. disk[SUPER][0].f_name # "OOPS!"
  BY SuperIs
<1> HIDE DEF s
<1>4. IsFs(t) /\ t.mapped = {SUPER} /\ t.dirty = {} /\ t.disk = disk /\ t.panic = "no"
      /\ t.cache[SUPER] = disk[SUPER]
  BY <1>1, <1>2, ReadIs
<1>5. read_super(Booted(disk)) = t
  BY <1>3, <1>4 DEF read_super, Given, s
<1> HIDE DEF t
<1>6. IsFs(a) /\ a.mapped = {0, SUPER} /\ a.dirty = {} /\ a.disk = disk /\ a.panic = "no"
  BY <1>2, <1>4, ReadIs
<1>7. check_write_block_smash(t) = u
  <2>1. [a EXCEPT !.cache[0] = t.cache[SUPER], !.cache[SUPER] = Smashed] = c
    BY <1>2, <1>6 DEF IsFs
  <2> HIDE DEF c
  <2> QED
    BY <2>1 DEF check_write_block_smash
<1> HIDE DEF a
<1>8. IsFs(b) /\ b.mapped = {0, SUPER} /\ b.dirty = {} /\ b.disk = disk /\ b.panic = "no"
      /\ b.cache[0] = disk[SUPER]
  BY <1>2, <1>4, <1>6, StoreIs
<1> HIDE DEF b
<1>9. IsFs(c) /\ c.mapped = {0, SUPER} /\ c.dirty = {} /\ c.disk = disk /\ c.panic = "no"
      /\ c.cache[0] = disk[SUPER]
  BY <1>2, <1>8, StoreIs
<1> HIDE DEF c
<1>10. /\ IsFs(u) /\ u.mapped = c.mapped /\ u.dirty = c.dirty /\ u.cache = c.cache /\ u.panic = c.panic
       /\ \A x \in Blocks : x # SUPER => u.disk[x] = c.disk[x]
  BY <1>2, <1>9, WriteIs
<1> HIDE DEF u
<1>11. Smashing(u, disk)
  BY <1>9, <1>10 DEF Smashing
<1> QED
  BY <1>4, <1>5, <1>7, <1>11

(* The second half of check_write_block, and read_bitmap *)
LEMMA BootRestores ==
  ASSUME NEW disk, NEW own, NEW D, NEW fu, OffOk(disk, own, D, fu), NEW s, Smashing(s, disk)
  PROVE  LET u == read_bitmap(check_write_block_restore(s))
         IN  /\ IsFs(u) /\ u.panic = "no" /\ u.mapped = {0, SUPER, BITMAP} /\ u.dirty = {}
             /\ \A b \in Blocks : u.disk[b] = disk[b]
             /\ \A b \in {SUPER, BITMAP} : u.cache[b] = disk[b]
<1> DEFINE a == [s EXCEPT !.cache[SUPER] = s.cache[0]]
           t == ide_write(a, SUPER)
           u == ide_read(t, BITMAP)
<1>1. /\ IsFs(s) /\ s.panic = "no" /\ s.mapped = {0, SUPER} /\ s.dirty = {}
      /\ s.cache[0] = disk[SUPER] /\ \A b \in Blocks : b # SUPER => s.disk[b] = disk[b]
  BY DEF Smashing
<1>2. {0, SUPER, BITMAP} \subseteq Blocks /\ BITMAP # SUPER /\ SUPER = 1 /\ BITMAP = 2
  BY Consts
<1>3. /\ IsFs(a) /\ a.mapped = s.mapped /\ a.dirty = s.dirty /\ a.disk = s.disk /\ a.panic = s.panic
      /\ a.cache[SUPER] = disk[SUPER]
  BY <1>1, <1>2, StoreIs
<1>4. check_write_block_restore(s) = t
  BY DEF check_write_block_restore
<1> HIDE DEF a
<1>5. /\ IsFs(t) /\ t.mapped = a.mapped /\ t.dirty = a.dirty /\ t.cache = a.cache /\ t.panic = a.panic
      /\ t.disk[SUPER] = a.cache[SUPER] /\ \A x \in Blocks : x # SUPER => t.disk[x] = a.disk[x]
  <2>1. IsFs(a) /\ SUPER \in Blocks
    BY <1>2, <1>3
  <2> QED
    BY <2>1, WriteIs, Zenon
<1> HIDE DEF t
<1>6. \A b \in Blocks : t.disk[b] = disk[b]
  BY <1>1, <1>3, <1>5
<1>7. /\ IsFs(u) /\ u.mapped = t.mapped \cup {BITMAP} /\ u.dirty = t.dirty /\ u.disk = t.disk
      /\ u.panic = t.panic /\ u.cache[BITMAP] = t.disk[BITMAP]
      /\ \A c \in Blocks : c # BITMAP => u.cache[c] = t.cache[c]
  <2>1. IsFs(t) /\ BITMAP \in Blocks
    BY <1>2, <1>5
  <2> QED
    BY <2>1, ReadIs, Zenon
<1>8. disk[BITMAP] \subseteq 3..(NBLOCK - 1)
  BY DEF OffOk, FreeOk
<1> HIDE DEF u
<1>9. {0, SUPER, BITMAP} \cap u.cache[BITMAP] = {}
  BY <1>2, <1>6, <1>7, <1>8
<1>10. read_bitmap(t) = u
  BY <1>9, Zenon DEF read_bitmap, Given, u
<1>11. /\ u.panic = "no" /\ u.mapped = {0, SUPER, BITMAP} /\ u.dirty = {}
       /\ \A b \in {SUPER, BITMAP} : u.cache[b] = disk[b]
  BY <1>1, <1>2, <1>3, <1>5, <1>6, <1>7
<1>12. \A b \in Blocks : u.disk[b] = disk[b]
  BY <1>6, <1>7
<1> QED
  BY <1>4, <1>7, <1>10, <1>11, <1>12

(* What is found on the disk is what was there. *)
LEMMA OffSame ==
  ASSUME NEW disk, NEW own, NEW D, NEW fu, OffOk(disk, own, D, fu),
         NEW disk2, DOMAIN disk2 = Blocks, \A b \in Blocks : disk2[b] = disk[b]
  PROVE  OffOk(disk2, own, D, fu)
<1>1. Tree(disk2, own, D)
  BY DataChanges DEF OffOk
<1>2. BITMAP \in Blocks /\ \A b \in disk[BITMAP] : b \in Blocks
  BY Consts DEF OffOk, FreeOk, Blocks
<1> QED
  BY <1>1, <1>2 DEF OffOk

(* The server is up. *)
LEMMA BootGood ==
  ASSUME NEW disk, NEW own, NEW D, NEW sh, NEW fu, OffOk(disk, own, D, fu), NEW s, Smashing(s, disk)
  PROVE  Good(read_bitmap(check_write_block_restore(s)), own, D, sh, fu)
<1> DEFINE u == read_bitmap(check_write_block_restore(s))
<1>1. /\ IsFs(u) /\ u.panic = "no" /\ u.mapped = {0, SUPER, BITMAP} /\ u.dirty = {}
      /\ \A b \in Blocks : u.disk[b] = disk[b]
      /\ \A b \in {SUPER, BITMAP} : u.cache[b] = disk[b]
  BY BootRestores
<1> HIDE DEF u
<1>2. OffOk(u.disk, own, D, fu)
  BY <1>1, OffSame DEF IsFs
<1>3. {0, SUPER, BITMAP, 3} \subseteq Blocks
  BY Consts
<1>4. u.cache[BITMAP] = u.disk[BITMAP] /\ u.cache[SUPER] = u.disk[SUPER]
  BY <1>1, <1>3
<1>5. u.disk[BITMAP] \subseteq 3..(NBLOCK - 1) /\ u.disk[BITMAP] \subseteq Blocks
  BY <1>2 DEF OffOk, FreeOk, Blocks
<1>6. Base(u)
  BY <1>1, <1>3, <1>5 DEF Base
<1>7. Tree(u.disk, own, D) /\ OwnOk(own, D)
  BY <1>2 DEF OffOk, Tree
<1>8. \A b \in Blocks : b # 0 => Seen(u)[b] = u.disk[b]
  BY <1>1, <1>4 DEF Seen, At
<1>9. ~HasFiles(own, D, 0) /\ ~IsInd(own, 0)
  BY <1>3, <1>7, Unowned, Consts
<1>10. Tree(Seen(u), own, D)
  BY <1>7, <1>8, <1>9, DataChanges
<1>11. DiskOk(u.disk, u.cache[BITMAP], u.dirty, own, D)
  <2>1. Struct(u.disk, own, D)
    BY <1>7, TreeBlocks
  <2>2. Exact(u.disk, own) /\ Sized(u.disk, own, D)
    BY <1>7 DEF Tree
  <2>3. ASSUME NEW p \in D \ {Root} PROVE Linked(u.disk, own, p[1])
    <3>1. p \in Files(own, D) /\ p # Root
      BY <1>7 DEF OwnOk
    <3>2. p = <<p[1], p[2]>> /\ p[1] \in Blocks /\ p[2] \in SlotsOf(p[1]) /\ HasFiles(own, D, p[1])
      BY <1>7, <3>1, FileSlots
    <3>3. p[1] # SUPER
      BY <3>1, <3>2 DEF SlotsOf, Root
    <3>4. own[p[1]] # NoOwner
      BY <1>7, <3>2, <3>3, Unowned
    <3> QED
      BY <2>2, <3>2, <3>4 DEF Exact
  <2>4. \A b \in u.disk[BITMAP] : u.disk[b] = Zero
    BY <1>2 DEF OffOk
  <2> QED
    BY <1>1, <1>4, <2>1, <2>2, <2>3, <2>4 DEF DiskOk, Sized
<1>12. FreeOk(u.cache[BITMAP], own) /\ (fu => Full(u.cache[BITMAP], own))
  BY <1>2, <1>4 DEF OffOk
<1>13. Good(u, own, D, sh, fu)
  BY <1>6, <1>10, <1>11, <1>12 DEF Good
<1> QED
  BY <1>13 DEF u

----------------------------------------------------------------------------
(* The requests: what each of them leaves is again a running server.         *)

(* hs are the File pointers of the callers. *)
Runs(s, hs, sh, fu) ==
  \E own, D, dep : /\ DepthOk(own, D, dep) /\ Good(s, own, D, sh, fu)
                   /\ \A p \in hs : Usable(s, own, D, p)

(* A request that keeps the invariant keeps the pointers. *)
LEMMA KeepsRuns ==
  ASSUME NEW s, NEW own, NEW D, NEW dep, OwnOk(own, D), DepthOk(own, D, dep),
         NEW hs, \A p \in hs : Usable(s, own, D, p),
         NEW u, NEW sh, NEW fu, Keeps(s, own, u, D, sh, fu)
  PROVE  Runs(u, hs, sh, fu)
<1>1. PICK own2 : Good(u, own2, D, sh, fu) /\ Grows(s, own, u, own2, D)
  BY DEF Keeps
<1>2. DepthOk(own2, D, dep)
  BY <1>1, GrowsDepth
<1>3. \A p \in hs : Usable(u, own2, D, p)
  BY <1>1, GrowsUsable
<1> QED
  BY <1>1, <1>2, <1>3 DEF Runs

(* The same, if nothing changes for a reader *)
LEMMA QuietRuns ==
  ASSUME NEW s, NEW own, NEW D, NEW dep, DepthOk(own, D, dep),
         NEW hs, \A p \in hs : Usable(s, own, D, p),
         NEW u, NEW sh, NEW fu, Good(s, own, D, sh, fu), Quiet(s, u, own, D, sh, fu)
  PROVE  Runs(u, hs, sh, fu)
<1>1. Good(u, own, D, sh, fu)
  BY DEF Quiet
<1>2. \A p \in hs : Usable(u, own, D, p)
  BY QuietUsable
<1> QED
  BY <1>1, <1>2 DEF Runs

(* A caller that closes a file *)
LEMMA FewerRuns ==
  ASSUME NEW s, NEW hs, NEW sh, NEW fu, Runs(s, hs, sh, fu), NEW hs2, hs2 \subseteq hs
  PROVE  Runs(s, hs2, sh, fu)
BY DEF Runs

(* file_open *)
LEMMA OpenRuns ==
  ASSUME NEW s, NEW hs, NEW sh, NEW fu, Runs(s, hs, sh, fu), ~DirtyReuse,
         NEW path, Len(path) \in Nat, NEW mem,
         NEW w, w = file_open(s, path, mem), w.fs.panic # OldPage
  PROVE  Runs(w.fs, IF w.r = 0 THEN hs \cup {w.file} ELSE hs, sh, fu)
<1>1. PICK own, D, dep : /\ DepthOk(own, D, dep) /\ Good(s, own, D, sh, fu)
                         /\ \A p \in hs : Usable(s, own, D, p)
  BY DEF Runs
<1>2. OwnOk(own, D)
  BY <1>1 DEF Good, Tree
<1>3. WalkDone(s, own, w, D, sh, fu)
  BY <1>1, Walks DEF file_open
<1>4. PICK own2 : /\ Good(w.fs, own2, D, sh, fu) /\ Grows(s, own, w.fs, own2, D)
                  /\ w.r = 0 => Usable(w.fs, own2, D, w.file)
  BY <1>3 DEF WalkDone, Stops
<1>5. DepthOk(own2, D, dep)
  BY <1>1, <1>2, <1>4, GrowsDepth
<1>6. \A p \in hs : Usable(w.fs, own2, D, p)
  BY <1>1, <1>2, <1>4, GrowsUsable
<1>7. PICK hs2 : hs2 = IF w.r = 0 THEN hs \cup {w.file} ELSE hs
  OBVIOUS
<1>8. \A p \in hs2 : Usable(w.fs, own2, D, p)
  BY <1>4, <1>6, <1>7
<1>9. Runs(w.fs, hs2, sh, fu)
  BY <1>4, <1>5, <1>8 DEF Runs
<1> QED
  BY <1>7, <1>9

(* file_get_block, below the size of the file *)
LEMMA GetRuns ==
  ASSUME NEW s, NEW hs, NEW sh, NEW fu, Runs(s, hs, sh, fu), ~DirtyReuse,
         NEW p \in hs, NEW n \in 0..(NINDIRECT - 1), NEW mem, n * BY2BLK < File(s, p).f_size,
         NEW g, g = file_get_block(s, p, n, mem), g.fs.panic # OldPage
  PROVE  Runs(g.fs, hs, sh, fu)
<1>1. PICK own, D, dep : /\ DepthOk(own, D, dep) /\ Good(s, own, D, sh, fu)
                         /\ \A q \in hs : Usable(s, own, D, q)
  BY DEF Runs
<1>2. OwnOk(own, D) /\ Base(s) /\ Tree(Seen(s), own, D)
  BY <1>1 DEF Good, Tree
<1>3. p \in Files(own, D) /\ p[1] \in s.mapped
  BY <1>1 DEF Usable
<1>4. File(s, p).f_size \in Nat
  BY <1>2, <1>3, FileHas
<1>5. n \in Nat /\ n * BY2BLK \in Int
  BY Consts
<1>6. Covered(D, p, n, File(s, p).f_size)
  BY <1>4, <1>5 DEF Covered
<1>7. GetMade(s, own, g, p, n, D, sh, fu)
  BY <1>1, <1>3, <1>5, <1>6, GetMakes
<1>8. Moves(s, own, g.fs, D, sh, fu)
  BY <1>7 DEF GetMade, Stops, Moves
<1>9. Keeps(s, own, g.fs, D, sh, fu)
  BY <1>1, <1>8, MovesKeeps
<1> QED
  BY <1>1, <1>2, <1>9, KeepsRuns

(* A File that is not a directory (IsReg) *)
LEMMA RegularFile ==
  ASSUME NEW s, NEW own, NEW D, Tree(Seen(s), own, D), NEW p \in Files(own, D),
         FileAt(s, p).f_type = FTYPE_REG
  PROVE  p \notin D
BY AtSeen DEF Tree, Shape, FileShape, FTYPE_REG, FTYPE_DIR

(* A store to a page of a file *)
LEMMA WriteRuns ==
  ASSUME NEW s, NEW hs, NEW sh, NEW fu, Runs(s, hs, sh, fu),
         NEW p \in hs, NEW n \in 0..(NINDIRECT - 1), FileAt(s, p).f_type = FTYPE_REG,
         PtrAt(s, p, n) # 0, NEW w
  PROVE  Runs([s EXCEPT !.cache[PtrAt(s, p, n)][0] = w], hs, sh, fu)
<1>1. PICK own, D, dep : /\ DepthOk(own, D, dep) /\ Good(s, own, D, sh, fu)
                         /\ \A q \in hs : Usable(s, own, D, q)
  BY DEF Runs
<1>2. OwnOk(own, D) /\ Tree(Seen(s), own, D) /\ p \in Files(own, D)
  BY <1>1 DEF Good, Tree, Usable
<1>3. p \notin D
  BY <1>2, RegularFile
<1>4. PICK x : x = PtrAt(s, p, n)
  OBVIOUS
<1>5. x \in Blocks /\ ~HasFiles(own, D, x) /\ ~IsInd(own, x) /\ x # BITMAP
  BY <1>2, <1>3, <1>4, PtrData
<1>6. PICK t : t = [s EXCEPT !.cache[x][0] = w]
  OBVIOUS
<1>7. Good(t, own, D, sh, fu) /\ Grows(s, own, t, own, D)
  BY <1>1, <1>5, <1>6, WordGood
<1>8. Keeps(s, own, t, D, sh, fu)
  BY <1>7 DEF Keeps
<1>9. Runs(t, hs, sh, fu)
  BY <1>1, <1>2, <1>8, KeepsRuns
<1> QED
  BY <1>4, <1>6, <1>9

(* Once blocks were freed, nothing is said of the disk any more. *)
LEMMA MoreFreeing ==
  ASSUME NEW s, NEW own, NEW D, NEW sh, NEW fu, Good(s, own, D, sh, fu), NEW sh2, sh => sh2
  PROVE  Good(s, own, D, sh2, fu)
BY DEF Good

(* file_set_size *)
LEMMA SetSizeRuns ==
  ASSUME NEW s, NEW hs, NEW sh, NEW fu, Runs(s, hs, sh, fu),
         NEW p \in hs, FileAt(s, p).f_type = FTYPE_REG, NEW size \in Nat,
         NEW sh2, sh => sh2, size < File(s, p).f_size => Freeing(sh2)
  PROVE  Runs(file_set_size(s, p, size), hs, sh2, fu)
<1>1. PICK own, D, dep : /\ DepthOk(own, D, dep) /\ Good(s, own, D, sh, fu)
                         /\ \A q \in hs : Usable(s, own, D, q)
  BY DEF Runs
<1>2. OwnOk(own, D) /\ Tree(Seen(s), own, D) /\ p \in Files(own, D) /\ Usable(s, own, D, p)
      /\ Base(s) /\ p[1] \in s.mapped
  BY <1>1 DEF Good, Tree, Usable
<1>3. p \notin D
  BY <1>2, RegularFile
<1>4. Good(s, own, D, sh2, fu)
  BY <1>1, MoreFreeing
<1>5. File(s, p).f_size \in Nat
  BY <1>2, FileHas
<1>6. PICK u : u = file_set_size(s, p, size)
  OBVIOUS
<1>7. CASE File(s, p).f_size > size
  <2>1. Freeing(sh2)
    BY <1>5, <1>7
  <2> QED
    BY <1>1, <1>2, <1>3, <1>4, <1>7, <2>1, SetsSizeDown, KeepsRuns
<1>8. CASE ~(File(s, p).f_size > size)
  <2>1. Keeps(s, own, u, D, sh2, fu)
    BY <1>2, <1>3, <1>4, <1>6, <1>8, SetsSizeUp
  <2> QED
    BY <1>1, <1>2, <1>6, <2>1, KeepsRuns
<1> QED
  BY <1>7, <1>8

(* The dirty requests and the close request of file_close *)
LEMMA CloseRuns ==
  ASSUME NEW s, NEW hs, NEW sh, NEW fu, Runs(s, hs, sh, fu), NEW p \in hs
  PROVE  Runs(file_close(DirtyBlocks(s, p, NBlocks(File(s, p))), p), hs, sh, fu)
<1>1. PICK own, D, dep : /\ DepthOk(own, D, dep) /\ Good(s, own, D, sh, fu)
                         /\ \A q \in hs : Usable(s, own, D, q)
  BY DEF Runs
<1>2. OwnOk(own, D) /\ Tree(Seen(s), own, D) /\ p \in Files(own, D) /\ Usable(s, own, D, p)
      /\ Base(s) /\ p[1] \in s.mapped
  BY <1>1 DEF Good, Tree, Usable
<1>3. PICK n : n = NBlocks(File(s, p))
  OBVIOUS
<1>4. File(s, p).f_size \in Nat
  BY <1>2, FileHas
<1>5. n \in Nat
  <2>1. PICK z : z = File(s, p).f_size + BY2BLK - 1
    OBVIOUS
  <2>2. z \in Nat /\ BY2BLK \in Nat /\ BY2BLK > 0
    BY <1>4, <2>1, Consts
  <2>3. z \div BY2BLK \in Nat
    BY <2>2, DivMod
  <2> QED
    BY <1>3, <2>1, <2>3 DEF NBlocks
<1>6. PICK t, u : t = DirtyBlocks(s, p, n) /\ u = file_close(t, p)
  OBVIOUS
<1>7. Quiet(s, t, own, D, sh, fu)
  BY <1>1, <1>2, <1>5, <1>6, DirtiesBlocks
<1>8. Good(t, own, D, sh, fu) /\ Usable(t, own, D, p)
  BY <1>1, <1>2, <1>7, QuietUsable DEF Quiet
<1>9. Quiet(t, u, own, D, sh, fu)
  BY <1>6, <1>8, ClosesFile
<1>10. Quiet(s, u, own, D, sh, fu)
  BY <1>7, <1>9, QuietTrans
<1>11. Runs(u, hs, sh, fu)
  BY <1>1, <1>10, QuietRuns
<1> QED
  BY <1>3, <1>6, <1>11

(* file_remove of a file *)
LEMMA DeleteRuns ==
  ASSUME NEW s, NEW hs, NEW sh, NEW fu, Runs(s, hs, sh, fu), ~DirtyReuse,
         NEW path, Len(path) \in Nat, NEW mem,
         walk_path(s, path, mem).r = 0
           => File(walk_path(s, path, mem).fs, walk_path(s, path, mem).file).f_type = FTYPE_REG,
         NEW r, r = file_remove(s, path, mem), r.fs.panic # OldPage,
         NEW sh2, sh => sh2, r.r = 0 => Freeing(sh2)
  PROVE  Runs(r.fs, hs, sh2, fu)
<1>1. PICK own, D, dep : /\ DepthOk(own, D, dep) /\ Good(s, own, D, sh, fu)
                         /\ \A q \in hs : Usable(s, own, D, q)
  BY DEF Runs
<1>2. OwnOk(own, D)
  BY <1>1 DEF Good, Tree
<1>3. Good(s, own, D, sh2, fu)
  BY <1>1, MoreFreeing
<1>4. \/ r.fs.panic = OldPage
      \/ r.r # 0 /\ Keeps(s, own, r.fs, D, sh2, fu)
      \/ r.r = 0 /\ \A sh3 : Freeing(sh3) => Keeps(s, own, r.fs, D, sh3, fu)
  BY <1>3, Removes
<1>5. Keeps(s, own, r.fs, D, sh2, fu)
  BY <1>4
<1> QED
  BY <1>1, <1>2, <1>5, KeepsRuns

(* file_create *)
LEMMA CreateRuns ==
  ASSUME NEW s, NEW hs, NEW sh, NEW fu, Runs(s, hs, sh, fu), ~DirtyReuse,
         NEW path, Len(path) \in Nat, NEW mem,
         NEW c, c = file_create(s, path, mem), c.fs.panic # OldPage
  PROVE  Runs(c.fs, hs, sh, fu)
<1>1. PICK own, D, dep : /\ DepthOk(own, D, dep) /\ Good(s, own, D, sh, fu)
                         /\ \A q \in hs : Usable(s, own, D, q)
  BY DEF Runs
<1>2. OwnOk(own, D)
  BY <1>1 DEF Good, Tree
<1>3. Keeps(s, own, c.fs, D, sh, fu)
  BY <1>1, Creates
<1> QED
  BY <1>1, <1>2, <1>3, KeepsRuns

(* fs_sync *)
LEMMA SyncKeepsRuns ==
  ASSUME NEW s, NEW hs, NEW sh, NEW fu, Runs(s, hs, sh, fu)
  PROVE  Runs(fs_sync(s), hs, sh, fu)
<1>1. PICK own, D, dep : /\ DepthOk(own, D, dep) /\ Good(s, own, D, sh, fu)
                         /\ \A q \in hs : Usable(s, own, D, q)
  BY DEF Runs
<1>2. NBLOCK \in Nat
  BY Consts
<1>3. Quiet(s, SyncBlocks(s, NBLOCK), own, D, sh, fu)
  BY <1>1, <1>2, SyncsBlocks
<1>4. Quiet(s, fs_sync(s), own, D, sh, fu)
  BY <1>3 DEF fs_sync
<1> QED
  BY <1>1, <1>4, QuietRuns

(* unmap_block *)
LEMMA UnmapRuns ==
  ASSUME NEW s, NEW hs, NEW sh, NEW fu, Runs(s, hs, sh, fu), NEW b \in 3..(NBLOCK - 1), b \in s.mapped,
         \/ b \in s.cache[BITMAP]
         \/ \E p \in FilePtrs(s) : /\ FileAt(s, p).f_type = FTYPE_REG
                                   /\ \E n \in 0..(NINDIRECT - 1) : PtrAt(s, p, n) = b
  PROVE  Runs(unmap_block(s, b), hs, sh, fu)
<1>1. PICK own, D, dep : /\ DepthOk(own, D, dep) /\ Good(s, own, D, sh, fu)
                         /\ \A q \in hs : Usable(s, own, D, q)
  BY DEF Runs
<1>2. /\ Good(unmap_block(s, b), own, D, sh, fu)
      /\ \A p : Usable(s, own, D, p) => Usable(unmap_block(s, b), own, D, p)
  BY <1>1, Unmaps
<1> QED
  BY <1>1, <1>2 DEF Runs

----------------------------------------------------------------------------
(* The inductive invariant *)

(* The machine has not stopped yet, so that no block is lost. *)
Intact(n) == n = 0

(* What the programs do, and where the machine stops, is what the code is    *)
(* built for.                                                                *)
BuiltFor == ~CrashAfterShrink /\ ~CrashInBoot /\ ~DirtyReuse /\ ~RemoveDirs

Off(disk, fu)  == \E own, D, dep : DepthOk(own, D, dep) /\ OffOk(disk, own, D, fu)
Smash(s, fu)   == \E disk : Off(disk, fu) /\ Smashing(s, disk)

Counts == shrunk \in BOOLEAN /\ changes \in 0..MaxChanges /\ crashes \in 0..MaxCrashes

Inv ==
  /\ Counts
  /\ \/ boot = "off" /\ held = {} /\ ~shrunk /\ fs = Booted(fs.disk) /\ Off(fs.disk, Intact(crashes))
     \/ boot = "smashed" /\ held = {} /\ ~shrunk /\ Smash(fs, Intact(crashes))
     \/ boot = "up" /\ Runs(fs, held, shrunk, Intact(crashes))

(* The image of fsformat *)
LEMMA InitInv == Init => Inv
<1> SUFFICES ASSUME Init PROVE Inv
  OBVIOUS
<1>1. fs = Booted(Formatted) /\ boot = "off" /\ held = {} /\ shrunk = FALSE /\ changes = 0 /\ crashes = 0
  BY DEF Init
<1>2. PICK d, own, D : /\ d = Formatted
                       /\ own = OwnersOf(Booted(Formatted)) /\ D = DirsOf(Booted(Formatted))
  OBVIOUS
<1>3. OffOk(d, own, D, TRUE) /\ \E dep \in [D -> 0..Len(Image)] : DepthOk(own, D, dep)
  BY <1>2, ImageAssumption, Zenon
<1>4. \A fu : OffOk(d, own, D, fu)
  BY <1>3 DEF OffOk
<1>5. Off(d, Intact(crashes))
  BY <1>3, <1>4 DEF Off
<1>6. fs = Booted(d) /\ fs.disk = d
  BY <1>1, <1>2 DEF Booted
<1>7. Counts
  <2>1. MaxChanges \in Nat /\ MaxCrashes \in Nat
    BY FsDiskAssumption
  <2>2. changes \in 0..MaxChanges /\ crashes \in 0..MaxCrashes
    BY <1>1, <2>1
  <2>3. shrunk \in BOOLEAN
    BY <1>1
  <2> QED
    BY <2>2, <2>3 DEF Counts
<1> QED
  BY <1>1, <1>5, <1>6, <1>7 DEF Inv

(* Booting: the two steps of fs_init *)
LEMMA BootInv == Inv /\ Boot => Inv'
<1> SUFFICES ASSUME Inv, Boot PROVE Inv'
  OBVIOUS
<1>1. boot = "off" /\ UNCHANGED <<held, shrunk, changes, crashes>>
  BY DEF Boot
<1>2. held = {} /\ ~shrunk /\ fs = Booted(fs.disk) /\ Off(fs.disk, Intact(crashes)) /\ Counts
  BY <1>1 DEF Inv
<1>3. PICK disk : disk = fs.disk
  OBVIOUS
<1>4. PICK own, D, dep : DepthOk(own, D, dep) /\ OffOk(disk, own, D, Intact(crashes))
  BY <1>2, <1>3 DEF Off
<1>5. PICK t : t = read_super(Booted(disk))
  OBVIOUS
<1>6. t.panic = "no" /\ Smashing(check_write_block_smash(t), disk)
  BY <1>4, <1>5, BootSmashes
<1>7. fs' = check_write_block_smash(t) /\ boot' = "smashed"
  BY <1>2, <1>3, <1>5, <1>6 DEF Boot
<1>8. Off(disk, Intact(crashes))
  BY <1>2, <1>3
<1>9. Smash(fs', Intact(crashes))
  BY <1>6, <1>7, <1>8 DEF Smash
<1>10. Smash(fs, Intact(crashes))'
  BY <1>1, <1>9
<1>11. Counts'
  BY <1>1, <1>2 DEF Counts
<1> QED
  BY <1>1, <1>2, <1>7, <1>10, <1>11 DEF Inv

(* ... after which the server is up. *)
LEMMA BootDoneInv == Inv /\ BootDone => Inv'
<1> SUFFICES ASSUME Inv, BootDone PROVE Inv'
  OBVIOUS
<1>1. boot = "smashed" /\ boot' = "up" /\ UNCHANGED <<held, shrunk, changes, crashes>>
      /\ fs' = read_bitmap(check_write_block_restore(fs))
  BY DEF BootDone
<1>2. held = {} /\ Smash(fs, Intact(crashes)) /\ Counts
  BY <1>1 DEF Inv
<1>3. PICK disk : Off(disk, Intact(crashes)) /\ Smashing(fs, disk)
  BY <1>2 DEF Smash
<1>4. PICK own, D, dep : DepthOk(own, D, dep) /\ OffOk(disk, own, D, Intact(crashes))
  BY <1>3 DEF Off
<1>5. Good(fs', own, D, shrunk, Intact(crashes))
  BY <1>1, <1>3, <1>4, BootGood
<1>6. Runs(fs', held, shrunk, Intact(crashes))
  BY <1>2, <1>4, <1>5 DEF Runs
<1>7. Runs(fs, held, shrunk, Intact(crashes))'
  BY <1>1, <1>6
<1>8. Counts'
  BY <1>1, <1>2 DEF Counts
<1> QED
  BY <1>1, <1>7, <1>8 DEF Inv

(* The machine stops. *)
LEMMA CrashInv == BuiltFor /\ Inv /\ Crash => Inv'
<1> SUFFICES ASSUME BuiltFor, Inv, Crash PROVE Inv'
  OBVIOUS
<1>1. boot = "up" /\ ~shrunk /\ crashes < MaxCrashes /\ fs' = Booted(fs.disk) /\ boot' = "off"
      /\ held' = {} /\ shrunk' = FALSE /\ crashes' = crashes + 1 /\ changes' = changes
  BY DEF Crash, BuiltFor
<1>2. Runs(fs, held, shrunk, Intact(crashes)) /\ Counts
  BY <1>1 DEF Inv
<1>3. PICK own, D, dep : DepthOk(own, D, dep) /\ Good(fs, own, D, shrunk, Intact(crashes))
  BY <1>2 DEF Runs
<1>4. crashes \in Nat /\ MaxCrashes \in Nat
  BY <1>2, FsDiskAssumption DEF Counts
<1>5. ~Intact(crashes')
  BY <1>1, <1>4 DEF Intact
<1>6. PICK own2 : own2 = Surviving(fs.disk, own)
  OBVIOUS
<1>7. OffOk(fs.disk, own2, D, Intact(crashes')) /\ DepthOk(own2, D, dep)
  BY <1>1, <1>3, <1>5, <1>6, Stopped
<1>8. fs'.disk = fs.disk
  BY <1>1 DEF Booted
<1>9. Off(fs'.disk, Intact(crashes'))
  BY <1>7, <1>8 DEF Off
<1>10. Off(fs.disk, Intact(crashes))'
  BY <1>9
<1>11. Counts'
  <2>1. crashes' \in 0..MaxCrashes
    BY <1>1, <1>4
  <2>2. shrunk' \in BOOLEAN /\ changes' \in 0..MaxChanges
    BY <1>1, <1>2 DEF Counts
  <2> QED
    BY <2>1, <2>2 DEF Counts
<1>12. (fs = Booted(fs.disk))'
  BY <1>1, <1>8
<1> QED
  BY <1>1, <1>10, <1>11, <1>12 DEF Inv

(* A request after which the server runs as before *)
LEMMA RequestInv ==
  ASSUME Inv, Up, boot' = boot, crashes' = crashes, changes' = changes \/ Change,
         shrunk' \in BOOLEAN, Runs(fs', held', shrunk', Intact(crashes))
  PROVE  Inv'
<1>1. boot' = "up" /\ Counts
  BY DEF Up, Inv
<1>2. Counts'
  <2>1. changes \in Nat /\ MaxChanges \in Nat /\ changes <= MaxChanges /\ crashes' \in 0..MaxCrashes
    BY <1>1, FsDiskAssumption DEF Counts
  <2>2. changes' \in 0..MaxChanges
    BY <2>1 DEF Change
  <2> QED
    BY <2>1, <2>2 DEF Counts
<1>3. Runs(fs, held, shrunk, Intact(crashes))'
  OBVIOUS
<1> QED
  BY <1>1, <1>2, <1>3 DEF Inv

(* While the server is up *)
LEMMA UpRuns ==
  ASSUME Inv, Up
  PROVE  Runs(fs, held, shrunk, Intact(crashes)) /\ shrunk \in BOOLEAN
BY DEF Inv, Up, Counts

(* A caller opens a file (Open). *)
LEMMA OpenInv ==
  ASSUME BuiltFor, Inv, NEW path \in OpenPaths, Open(path)
  PROVE  Inv'
<1>1. Up /\ UNCHANGED <<boot, shrunk, changes, crashes>>
  BY DEF Open
<1>2. Runs(fs, held, shrunk, Intact(crashes)) /\ shrunk \in BOOLEAN
  BY <1>1, UpRuns
<1>3. PICK w : /\ w = file_open(fs, path, TRUE) /\ w.fs.panic # OldPage /\ fs' = w.fs
               /\ held' = IF w.r = 0 THEN held \cup {w.file} ELSE held
  BY DEF Open, Becomes
<1>4. Len(path) \in Nat /\ ~DirtyReuse
  BY FsDiskAssumption DEF BuiltFor
<1>5. Runs(w.fs, IF w.r = 0 THEN held \cup {w.file} ELSE held, shrunk, Intact(crashes))
  BY <1>2, <1>3, <1>4, OpenRuns
<1>6. Runs(fs', held', shrunk', Intact(crashes))
  BY <1>1, <1>3, <1>5
<1> QED
  BY <1>1, <1>2, <1>6, RequestInv

(* It asks for the page of a block (GetBlock) *)
LEMMA GetBlockInv ==
  ASSUME BuiltFor, Inv, NEW p \in held, NEW n \in 0..(NINDIRECT - 1), NEW mem, GetBlock(p, n, mem)
  PROVE  Inv'
<1>1. Up /\ UNCHANGED <<boot, held, shrunk, changes, crashes>> /\ n * BY2BLK < File(fs, p).f_size
  BY DEF GetBlock
<1>2. Runs(fs, held, shrunk, Intact(crashes)) /\ shrunk \in BOOLEAN
  BY <1>1, UpRuns
<1>3. PICK g : g = file_get_block(fs, p, n, mem) /\ g.fs.panic # OldPage /\ fs' = g.fs
  BY DEF GetBlock, Becomes
<1>4. ~DirtyReuse
  BY DEF BuiltFor
<1>5. Runs(g.fs, held, shrunk, Intact(crashes))
  BY <1>1, <1>2, <1>3, <1>4, GetRuns
<1>6. Runs(fs', held', shrunk', Intact(crashes))
  BY <1>1, <1>3, <1>5
<1> QED
  BY <1>1, <1>2, <1>6, RequestInv

(* ... and writes into it (Write). *)
LEMMA WriteInv ==
  ASSUME Inv, NEW p \in held, NEW n \in 0..(NINDIRECT - 1), Write(p, n)
  PROVE  Inv'
<1>1. Up /\ Change /\ UNCHANGED <<boot, held, shrunk, crashes>>
      /\ FileAt(fs, p).f_type = FTYPE_REG /\ PtrAt(fs, p, n) # 0
      /\ fs' = [fs EXCEPT !.cache[PtrAt(fs, p, n)][0] = Word]
  BY DEF Write, IsReg
<1>2. Runs(fs, held, shrunk, Intact(crashes)) /\ shrunk \in BOOLEAN
  BY <1>1, UpRuns
<1>3. Runs([fs EXCEPT !.cache[PtrAt(fs, p, n)][0] = Word], held, shrunk, Intact(crashes))
  BY <1>1, <1>2, WriteRuns
<1>4. Runs(fs', held', shrunk', Intact(crashes))
  BY <1>1, <1>3
<1> QED
  BY <1>1, <1>2, <1>4, RequestInv

(* It sets the size of the file (SetSize) *)
LEMMA SetSizeInv ==
  ASSUME Inv, NEW p \in held, NEW size \in Sizes, SetSize(p, size)
  PROVE  Inv'
<1>1. Up /\ Change /\ UNCHANGED <<boot, held, crashes>> /\ FileAt(fs, p).f_type = FTYPE_REG
      /\ fs' = file_set_size(fs, p, size) /\ shrunk' = (shrunk \/ size < File(fs, p).f_size)
  BY DEF SetSize, IsReg
<1>2. Runs(fs, held, shrunk, Intact(crashes)) /\ shrunk \in BOOLEAN
  BY <1>1, UpRuns
<1>3. PICK less : less = (size < File(fs, p).f_size)
  OBVIOUS
<1>4. shrunk' \in BOOLEAN /\ (shrunk => shrunk') /\ (less => Freeing(shrunk'))
  BY <1>1, <1>3, Zenon DEF Freeing
<1>5. size < File(fs, p).f_size => Freeing(shrunk')
  BY <1>3, <1>4
<1>6. size \in Nat
  <2>1. \A z \in 0..MAXFILESIZE : z \in Nat
    OBVIOUS
  <2> QED
    BY <2>1, FsDiskAssumption
<1>7. Runs(file_set_size(fs, p, size), held, shrunk', Intact(crashes))
  BY <1>1, <1>2, <1>4, <1>5, <1>6, SetSizeRuns
<1>8. Runs(fs', held', shrunk', Intact(crashes))
  BY <1>1, <1>7
<1> QED
  BY <1>1, <1>4, <1>8, RequestInv

(* ... and closes it (Close). *)
LEMMA CloseInv ==
  ASSUME Inv, NEW p \in held, Close(p)
  PROVE  Inv'
<1>1. Up /\ UNCHANGED <<boot, shrunk, changes, crashes>> /\ held' = held \ {p}
      /\ fs' = file_close(DirtyBlocks(fs, p, NBlocks(File(fs, p))), p)
  BY DEF Close
<1>2. Runs(fs, held, shrunk, Intact(crashes)) /\ shrunk \in BOOLEAN
  BY <1>1, UpRuns
<1>3. Runs(file_close(DirtyBlocks(fs, p, NBlocks(File(fs, p))), p), held, shrunk, Intact(crashes))
  BY <1>2, CloseRuns
<1>4. Runs(fs', held, shrunk, Intact(crashes)) /\ held' \subseteq held
  BY <1>1, <1>3
<1>5. Runs(fs', held', shrunk', Intact(crashes))
  BY <1>1, <1>4, FewerRuns
<1> QED
  BY <1>1, <1>2, <1>5, RequestInv

(* A file is removed (Delete). *)
LEMMA DeleteInv ==
  ASSUME BuiltFor, Inv, NEW path \in RemovePaths, Delete(path)
  PROVE  Inv'
<1>1. Up /\ Change /\ UNCHANGED <<boot, held, crashes>>
  BY DEF Delete
<1>2. Runs(fs, held, shrunk, Intact(crashes)) /\ shrunk \in BOOLEAN
  BY <1>1, UpRuns
<1>3. PICK w, r : /\ w = walk_path(fs, path, TRUE) /\ r = file_remove(fs, path, TRUE)
                  /\ w.r = 0 => RemoveDirs \/ File(w.fs, w.file).f_type = FTYPE_REG
                  /\ r.fs.panic # OldPage /\ fs' = r.fs /\ shrunk' = (shrunk \/ r.r = 0)
  BY DEF Delete, Becomes
<1>4. Len(path) \in Nat /\ ~DirtyReuse /\ ~RemoveDirs
  BY FsDiskAssumption DEF BuiltFor
<1>5. PICK ok, mem : ok = (r.r = 0) /\ mem = TRUE
  OBVIOUS
<1>6. shrunk' \in BOOLEAN /\ (shrunk => shrunk') /\ (ok => Freeing(shrunk'))
  BY <1>3, <1>5, Zenon DEF Freeing
<1>7. r.r = 0 => Freeing(shrunk')
  BY <1>5, <1>6
<1>8. /\ walk_path(fs, path, mem).r = 0
         => File(walk_path(fs, path, mem).fs, walk_path(fs, path, mem).file).f_type = FTYPE_REG
      /\ r = file_remove(fs, path, mem)
  BY <1>3, <1>4, <1>5
<1>9. Runs(r.fs, held, shrunk', Intact(crashes))
  BY <1>2, <1>3, <1>4, <1>6, <1>7, <1>8, DeleteRuns
<1>10. Runs(fs', held', shrunk', Intact(crashes))
  BY <1>1, <1>3, <1>9
<1> QED
  BY <1>1, <1>6, <1>10, RequestInv

(* A file is created (Create). *)
LEMMA CreateInv ==
  ASSUME BuiltFor, Inv, NEW path \in CreatePaths, NEW mem, Create(path, mem)
  PROVE  Inv'
<1>1. Up /\ Change /\ UNCHANGED <<boot, held, shrunk, crashes>>
  BY DEF Create
<1>2. Runs(fs, held, shrunk, Intact(crashes)) /\ shrunk \in BOOLEAN
  BY <1>1, UpRuns
<1>3. PICK c : c = file_create(fs, path, mem) /\ c.fs.panic # OldPage /\ fs' = c.fs
  BY DEF Create, Becomes
<1>4. Len(path) \in Nat /\ ~DirtyReuse
  BY FsDiskAssumption DEF BuiltFor
<1>5. Runs(c.fs, held, shrunk, Intact(crashes))
  BY <1>2, <1>3, <1>4, CreateRuns
<1>6. Runs(fs', held', shrunk', Intact(crashes))
  BY <1>1, <1>3, <1>5
<1> QED
  BY <1>1, <1>2, <1>6, RequestInv

(* The dirty blocks are written (Sync). *)
LEMMA SyncInv ==
  ASSUME Inv, Sync
  PROVE  Inv'
<1>1. Up /\ UNCHANGED <<boot, held, shrunk, changes, crashes>> /\ fs' = fs_sync(fs)
  BY DEF Sync
<1>2. Runs(fs, held, shrunk, Intact(crashes)) /\ shrunk \in BOOLEAN
  BY <1>1, UpRuns
<1>3. Runs(fs_sync(fs), held, shrunk, Intact(crashes))
  BY <1>2, SyncKeepsRuns
<1>4. Runs(fs', held', shrunk', Intact(crashes))
  BY <1>1, <1>3
<1> QED
  BY <1>1, <1>2, <1>4, RequestInv

(* A page is given up (Unmap). *)
LEMMA UnmapInv ==
  ASSUME Inv, NEW b \in 3..(NBLOCK - 1), Unmap(b)
  PROVE  Inv'
<1>1. Up /\ Change /\ UNCHANGED <<boot, held, shrunk, crashes>> /\ fs' = unmap_block(fs, b)
      /\ b \in fs.mapped
  BY DEF Unmap
<1>2. Runs(fs, held, shrunk, Intact(crashes)) /\ shrunk \in BOOLEAN
  BY <1>1, UpRuns
<1>3. \/ b \in fs.cache[BITMAP]
      \/ \E p \in FilePtrs(fs) : /\ FileAt(fs, p).f_type = FTYPE_REG
                                 /\ \E n \in 0..(NINDIRECT - 1) : PtrAt(fs, p, n) = b
  BY DEF Unmap, IsReg
<1>4. Runs(unmap_block(fs, b), held, shrunk, Intact(crashes))
  BY <1>1, <1>2, <1>3, UnmapRuns
<1>5. Runs(fs', held', shrunk', Intact(crashes))
  BY <1>1, <1>4
<1> QED
  BY <1>1, <1>2, <1>5, RequestInv

(* Every step keeps the invariant. *)
LEMMA NextInv == BuiltFor /\ Inv /\ [Next]_vars => Inv'
<1> SUFFICES ASSUME BuiltFor, Inv, [Next]_vars PROVE Inv'
  OBVIOUS
<1>1. CASE Boot
  BY <1>1, BootInv
<1>2. CASE BootDone
  BY <1>2, BootDoneInv
<1>3. CASE Crash
  BY <1>3, CrashInv
<1>4. CASE Sync
  BY <1>4, SyncInv
<1>5. CASE \E path \in OpenPaths : Open(path)
  BY <1>5, OpenInv
<1>6. CASE \E path \in RemovePaths : Delete(path)
  BY <1>6, DeleteInv
<1>7. CASE \E path \in CreatePaths, mem \in BOOLEAN : Create(path, mem)
  BY <1>7, CreateInv
<1>8. CASE \E p \in held :
             \/ Close(p)
             \/ \E size \in Sizes : SetSize(p, size)
             \/ \E n \in 0..(NINDIRECT - 1) :
                  \/ Write(p, n)
                  \/ \E mem \in BOOLEAN : GetBlock(p, n, mem)
  BY <1>8, CloseInv, SetSizeInv, WriteInv, GetBlockInv
<1>9. CASE \E b \in 3..(NBLOCK - 1) : Unmap(b)
  BY <1>9, UnmapInv
<1>10. CASE UNCHANGED vars
  <2>1. UNCHANGED <<fs, boot, held, shrunk, changes, crashes>>
    BY <1>10 DEF vars
  <2> QED
    BY <2>1 DEF Inv, Counts
<1> QED
  BY <1>1, <1>2, <1>3, <1>4, <1>5, <1>6, <1>7, <1>8, <1>9, <1>10 DEF Next

(* As long as the machine does not stop where the code is not built for it,  *)
(* the files and directories are a tree of blocks, each with its owner, in   *)
(* the running server, and what is on the disk is such a tree between two    *)
(* boots (alloc_block, free_block, file_block_walk, file_truncate,           *)
(* write_block).                                                             *)
THEOREM DiskInvariance ==
  ASSUME BuiltFor
  PROVE  Spec => []Inv
<1>1. Init => Inv
  BY InitInv
<1>2. Inv /\ [Next]_vars => Inv'
  BY NextInv
<1> QED
  BY <1>1, <1>2, PTL DEF Spec

----------------------------------------------------------------------------
(* What the invariant means *)

(* No step panics or leaves the memory in another shape. *)
LEMMA InvBase ==
  ASSUME Inv
  PROVE  /\ fs.panic = "no" /\ boot \in {"off", "smashed", "up"}
         /\ fs.mapped \subseteq Blocks /\ fs.dirty \subseteq fs.mapped
         /\ fs.disk[BITMAP] \subseteq Blocks
         /\ boot # "up" => held = {}
         /\ boot = "up" => Runs(fs, held, shrunk, Intact(crashes))
         /\ Counts
<1>0. Counts
  BY DEF Inv
<1>1. \A disk, own, D, fu : OffOk(disk, own, D, fu) => DOMAIN disk = Blocks /\ disk[BITMAP] \subseteq Blocks
  BY DEF OffOk, FreeOk, Blocks
<1>2. CASE boot = "off"
  <2>1. held = {} /\ fs = Booted(fs.disk) /\ Off(fs.disk, Intact(crashes))
    BY <1>2 DEF Inv
  <2>2. PICK disk : disk = fs.disk
    OBVIOUS
  <2>3. DOMAIN disk = Blocks /\ disk[BITMAP] \subseteq Blocks
    BY <1>1, <2>1, <2>2 DEF Off
  <2>4. fs = Booted(disk)
    BY <2>1, <2>2
  <2>5. fs.mapped = {} /\ fs.dirty = {} /\ fs.panic = "no"
    BY <2>3, <2>4, BootedIs
  <2> QED
    BY <1>0, <1>2, <2>1, <2>2, <2>3, <2>5
<1>3. CASE boot = "smashed"
  <2>1. held = {} /\ Smash(fs, Intact(crashes))
    BY <1>3 DEF Inv
  <2>2. PICK disk : Off(disk, Intact(crashes)) /\ Smashing(fs, disk)
    BY <2>1 DEF Smash
  <2>3. disk[BITMAP] \subseteq Blocks
    BY <1>1, <2>2 DEF Off
  <2>4. fs.mapped = {0, SUPER} /\ fs.dirty = {} /\ fs.panic = "no" /\ fs.disk[BITMAP] = disk[BITMAP]
    BY <2>2, Consts DEF Smashing
  <2>5. {0, SUPER} \subseteq Blocks
    BY Consts
  <2> QED
    BY <1>0, <1>3, <2>1, <2>3, <2>4, <2>5
<1>4. CASE boot = "up"
  <2>1. Runs(fs, held, shrunk, Intact(crashes))
    BY <1>4 DEF Inv
  <2>2. Base(fs)
    BY <2>1 DEF Runs, Good
  <2> QED
    BY <1>0, <1>4, <2>1, <2>2 DEF Base
<1> QED
  BY <1>2, <1>3, <1>4 DEF Inv

(* The server never panics: it reads no block that is free or not there,     *)
(* writes none that has no page, and always boots (the panics and assertions *)
(* of read_block, write_block, read_super and read_bitmap).                  *)
THEOREM NoPanicCorrect ==
  ASSUME BuiltFor
  PROVE  Spec => []NoPanic
<1>1. Inv => NoPanic
  BY InvBase DEF NoPanic
<1>2. Spec => []Inv
  BY DiskInvariance
<1> QED
  BY <1>1, <1>2, PTL

(* The memory and the disk keep their shape, and a handle always points to a *)
(* File of the tree whose page is there.                                     *)
THEOREM DiskTypes ==
  ASSUME BuiltFor
  PROVE  Spec => []TypeOK
<1>1. Inv => TypeOK
  <2> SUFFICES ASSUME Inv PROVE TypeOK
    OBVIOUS
  <2>1. ASSUME boot = "up" PROVE held \subseteq FilePtrs(fs) /\ \A p \in held : p[1] \in fs.mapped
    <3>1. PICK own, D, dep : /\ DepthOk(own, D, dep) /\ Good(fs, own, D, shrunk, Intact(crashes))
                             /\ \A p \in held : Usable(fs, own, D, p)
      BY <2>1, InvBase DEF Runs
    <3>2. FilePtrs(fs) = Files(own, D)
      BY <3>1, FilePtrsAre DEF Good
    <3> QED
      BY <3>1, <3>2 DEF Usable
  <2>2. \A p \in held : p[1] \in fs.mapped
    BY <2>1, InvBase
  <2>3. /\ fs.mapped \subseteq Blocks /\ fs.dirty \subseteq fs.mapped /\ fs.disk[BITMAP] \subseteq Blocks
        /\ boot \in {"off", "smashed", "up"} /\ changes \in 0..MaxChanges /\ crashes \in 0..MaxCrashes
    BY InvBase DEF Counts
  <2> QED
    BY <2>1, <2>2, <2>3 DEF TypeOK
<1>2. Spec => []Inv
  BY DiskInvariance
<1> QED
  BY <1>1, <1>2, PTL

(* The references that FsDisk counts are the pointers of the tree. *)
LEMMA RefsAre ==
  ASSUME NEW s, NEW own, NEW D, NEW dep, Tree(Seen(s), own, D), DepthOk(own, D, dep)
  PROVE  /\ Sites(s) = Files(own, D) \X Index
         /\ \A p \in Files(own, D), n \in Index : Ref(s, <<p, n>>) = PtrV(Seen(s), p, n)
<1>1. FilePtrs(s) = Files(own, D)
  BY FilePtrsAre
<1>2. Sites(s) = Files(own, D) \X Index
  BY <1>1 DEF Sites, Index
<1>3. ASSUME NEW p \in Files(own, D), NEW n \in Index PROVE Ref(s, <<p, n>>) = PtrV(Seen(s), p, n)
  <2>1. n # -1 => n \in 0..(NINDIRECT - 1)
    BY Consts DEF Index, NINDIRECT
  <2>2. n # -1 => PtrAt(s, p, n) = PtrV(Seen(s), p, n)
    BY <2>1, AtSeen
  <2>3. FileAt(s, p).f_indirect = PtrV(Seen(s), p, -1)
    BY AtSeen
  <2> QED
    BY <2>2, <2>3 DEF Ref
<1> QED
  BY <1>2, <1>3

(* In the running server no block belongs to two files, none that belongs to *)
(* a file is free, and none is lost until the machine stops (free_block,     *)
(* alloc_block and file_truncate take and return each block once).           *)
THEOREM BlocksCorrect ==
  ASSUME BuiltFor
  PROVE  Spec => []BlocksAccounted
<1>1. Inv => BlocksAccounted
  <2> SUFFICES ASSUME Inv, boot = "up" PROVE BlocksAccounted
    BY DEF BlocksAccounted
  <2> DEFINE used == {x \in Sites(fs) : Ref(fs, x) # 0}
             refs == {Ref(fs, x) : x \in used}
             C    == fs.cache[BITMAP]
  <2>1. PICK own, D, dep : DepthOk(own, D, dep) /\ Good(fs, own, D, shrunk, Intact(crashes))
    BY InvBase DEF Runs
  <2>2. /\ Tree(Seen(fs), own, D) /\ FreeOk(C, own) /\ (Intact(crashes) => Full(C, own))
        /\ OwnOk(own, D) /\ Shape(Seen(fs), own, D) /\ Links(Seen(fs), own, D) /\ Exact(Seen(fs), own)
    BY <2>1 DEF Good, Tree
  <2>3. /\ Sites(fs) = Files(own, D) \X Index
        /\ \A p \in Files(own, D), n \in Index : Ref(fs, <<p, n>>) = PtrV(Seen(fs), p, n)
    BY <2>1, <2>2, RefsAre
  <2>4. ASSUME NEW x \in used
        PROVE  Ref(fs, x) \in Blocks /\ own[Ref(fs, x)] = x /\ x # NoOwner
    <3>1. PICK p \in Files(own, D), n \in Index : x = <<p, n>>
      BY <2>3
    <3>2. PICK b : b = PtrV(Seen(fs), p, n)
      OBVIOUS
    <3>3. Ref(fs, x) = b /\ b # 0
      BY <2>3, <3>1, <3>2
    <3>4. b \in Blocks /\ own[b] = <<p, n>> /\ p # NULL
      BY <2>2, <3>2, <3>3, PtrIsBlock, FileSlots DEF Links
    <3> QED
      BY <3>1, <3>3, <3>4 DEF NoOwner
  <2>5. ASSUME NEW b \in Blocks, own[b] # NoOwner PROVE own[b] \in used /\ Ref(fs, own[b]) = b
    <3>1. /\ own[b][1] \in Files(own, D) /\ own[b][2] \in Index /\ own[b] = <<own[b][1], own[b][2]>>
          /\ b # 0
      BY <2>2, <2>5, OwnerIs
    <3>2. PtrV(Seen(fs), own[b][1], own[b][2]) = b
      BY <2>2, <2>5 DEF Exact, Linked
    <3>3. PICK p \in Files(own, D), n \in Index : own[b] = <<p, n>> /\ PtrV(Seen(fs), p, n) = b
      BY <3>1, <3>2
    <3>4. own[b] \in Sites(fs) /\ Ref(fs, own[b]) = b
      BY <2>3, <3>3
    <3> QED
      BY <3>1, <3>4
  <2> HIDE DEF used
  <2>6. ASSUME NEW b \in refs
        PROVE  b \in Blocks /\ own[b] # NoOwner /\ own[b] \in used /\ Ref(fs, own[b]) = b
    BY <2>4
  <2>7. ASSUME NEW b \in Blocks, own[b] # NoOwner PROVE b \in refs
    BY <2>5, <2>7
  <2> HIDE DEF refs
  <2>8. ASSUME NEW b \in refs PROVE b \in 3..(NBLOCK - 1) /\ b \notin C
    <3>1. b \in Blocks /\ own[b] # NoOwner
      BY <2>6
    <3>2. b >= 3
      BY <2>2, <3>1, OwnerIs
    <3> QED
      BY <2>2, <3>1, <3>2, Consts DEF Blocks, FreeOk
  <2>9. Cardinality(used) = Cardinality(refs)
    <3> DEFINE f == [b \in refs |-> own[b]]
    <3>1. \A b \in refs : f[b] \in used /\ Ref(fs, f[b]) = b
      BY <2>6
    <3>2. \A x \in used : Ref(fs, x) \in refs /\ f[Ref(fs, x)] = x
      BY <2>4, <2>7
    <3>3. f \in [refs -> used]
      BY <2>6
    <3> HIDE DEF f
    <3>4. f \in Bijection(refs, used)
      <4>1. f \in Injection(refs, used)
        BY <3>1, <3>3 DEF Injection, IsInjective
      <4>2. f \in Surjection(refs, used)
        BY <3>2, <3>3 DEF Surjection
      <4> QED
        BY <4>1, <4>2 DEF Bijection
    <3>5. IsFiniteSet(3..(NBLOCK - 1))
      BY Consts, FS_Interval
    <3>6. IsFiniteSet(refs)
      BY <2>8, <3>5, FS_Subset
    <3> QED
      BY <3>4, <3>6, FS_Bijection DEF ExistsBijection
  <2>10. crashes = 0 => refs = (3..(NBLOCK - 1)) \ C
    <3> SUFFICES ASSUME crashes = 0 PROVE refs = (3..(NBLOCK - 1)) \ C
      OBVIOUS
    <3>1. Full(C, own)
      BY <2>2 DEF Intact
    <3>2. ASSUME NEW b \in 3..(NBLOCK - 1), b \notin C PROVE b \in refs
      <4>1. own[b] # NoOwner
        BY <3>1, <3>2 DEF Full
      <4>2. b \in Blocks
        BY Consts DEF Blocks
      <4> QED
        BY <2>7, <4>1, <4>2
    <3> QED
      BY <2>8, <3>2
  <2>11. refs \subseteq 3..(NBLOCK - 1) /\ refs \cap C = {}
    BY <2>8
  <2> QED
    BY <2>9, <2>10, <2>11 DEF BlocksAccounted, refs, used
<1>2. Spec => []Inv
  BY DiskInvariance
<1> QED
  BY <1>1, <1>2, PTL
=============================================================================
