--------------------------------- MODULE Fs ---------------------------------
(***************************************************************************)
(* The block layer and the files of the file system server: fs/fs.c, the   *)
(* disk transfers of fs/ide.c, and the image that tools/fsformat.c makes.  *)
(*                                                                         *)
(* The functions of fs.c are operators on the server's state s, which      *)
(* return the new state and the C result.  A size is counted in 32-bit     *)
(* words, so BY2BLK is also the number of pointers of an indirect block.   *)
(* The content of a block is a function: words for data and indirect       *)
(* blocks, struct Files for the blocks of a directory and for the super    *)
(* block (its only File is s_root), and for the bitmap the set of the      *)
(* blocks whose bit is 1.  A struct File * is a pair <<block, slot>>, with *)
(* the slots numbered from 1; s_root has the slot 0.                       *)
(***************************************************************************)
EXTENDS Integers, Sequences, FiniteSets, SequencesExt

CONSTANTS
  NBLOCK,     \* s_nblocks
  BY2BLK,     \* words of a block, and NINDIRECT
  NDIRECT,
  FILE2BLK,   \* struct Files of a directory block
  Image,      \* what fsformat puts on the disk, see Formatted
  LongNames,  \* the names of MAXNAMELEN characters and more
  DirtyReuse  \* may a page with old content become an indirect or a directory block?

NINDIRECT   == BY2BLK
MAXFILESIZE == NINDIRECT * BY2BLK

E_NO_MEM      == -4
E_INVAL       == -3
E_NO_DISK     == -8
E_MAX_OPEN    == -9
E_NOT_FOUND   == -10
E_BAD_PATH    == -11
E_FILE_EXISTS == -12
E_PANIC       == -99  \* the caller does not get to run again

FTYPE_REG == "FTYPE_REG"
FTYPE_DIR == "FTYPE_DIR"

ASSUME FsAssumption ==
  /\ {NBLOCK, BY2BLK, NDIRECT, FILE2BLK} \subseteq Nat \ {0}
  /\ NDIRECT < NINDIRECT /\ NBLOCK > 4
  /\ Len(Image) \in Nat /\ \A k \in DOMAIN Image : Image[k].dir \in 0..(k - 1)

Blocks == 0..(NBLOCK - 1)
SUPER  == 1
BITMAP == 2
NULL   == <<0, 0>>
Root   == <<SUPER, 0>>

Zero     == [i \in 0..(BY2BLK - 1) |-> 0]
NoFile   == [f_name |-> "", f_size |-> 0, f_type |-> FTYPE_REG,
             f_direct |-> [i \in 0..(NDIRECT - 1) |-> 0], f_indirect |-> 0, f_dir |-> NULL]
ZeroDir  == [j \in 1..FILE2BLK |-> NoFile]  \* a page of zeroes read as Files

(* What a page is to who takes it for a block of a directory. *)
AsFiles(c) == IF c = Zero THEN ZeroDir ELSE c

(* Op on the result of the step before it, for the numbers from lo to hi - 1. *)
Loop(lo, hi, Op(_, _), s) ==
  LET After[k \in 0..(hi - lo)] == IF k = 0 THEN s ELSE Op(After[k - 1], lo + k - 1)
  IN  IF lo < hi THEN After[hi - lo] ELSE s

(* What C does with a result: goes on with it, or returns it if it is an error. *)
Given(a, Then(_)) == Then(a)
Try(a, Then(_))   == IF a.r < 0 THEN a ELSE Then(a)

----------------------------------------------------------------------------
(* tools/fsformat.c: d is the disk with nextbno.                            *)

init_disk ==
  [disk |-> [b \in Blocks |->
               CASE b = SUPER  -> [j \in {0} |-> [NoFile EXCEPT !.f_type = FTYPE_DIR, !.f_name = "/"]]
                 [] b = BITMAP -> Blocks
                 [] OTHER      -> Zero],
   nextbno |-> 3]

save_block_link(d, p, nblk, bno) ==
  LET f == d.disk[p[1]][p[2]]
  IN  IF nblk < NDIRECT
      THEN [d EXCEPT !.disk[p[1]][p[2]].f_direct[nblk] = bno]
      ELSE IF f.f_indirect = 0
      THEN [d EXCEPT !.disk[p[1]][p[2]].f_indirect = d.nextbno,
                     !.disk[d.nextbno] = [Zero EXCEPT ![nblk] = bno],
                     !.nextbno = @ + 1]
      ELSE [d EXCEPT !.disk[f.f_indirect][nblk] = bno]

make_link_block(d, p, nblk) ==
  [save_block_link([d EXCEPT !.nextbno = @ + 1, !.disk[d.nextbno] = ZeroDir], p, nblk, d.nextbno)
     EXCEPT !.disk[p[1]][p[2]].f_size = @ + BY2BLK]

DiskPtr(d, f, n) == IF n < NDIRECT THEN f.f_direct[n] ELSE d.disk[f.f_indirect][n]

(* The first unused File of the directory p, in a new block if there is none. *)
create_file(d, p) ==
  LET f     == d.disk[p[1]][p[2]]
      nblk  == f.f_size \div BY2BLK
      slots == [k \in 1..(nblk * FILE2BLK) |->
                  <<DiskPtr(d, f, (k - 1) \div FILE2BLK), 1 + ((k - 1) % FILE2BLK)>>]
      k     == SelectInSeq(slots, LAMBDA q : d.disk[q[1]][q[2]].f_name = "")
  IN  IF k # 0 THEN [d |-> d, file |-> slots[k]]
      ELSE [d |-> make_link_block(d, p, nblk), file |-> <<d.nextbno, 1>>]

(* The blocks of a new file: word i of the file is e.fill.                  *)
write_file(d, q, e) ==
  LET Named   == [d EXCEPT !.disk[q[1]][q[2]].f_name = e.name,
                           !.disk[q[1]][q[2]].f_size = e.size]
      Data(n) == [i \in 0..(BY2BLK - 1) |-> IF n * BY2BLK + i < e.size THEN e.fill ELSE 0]
  IN  Loop(0, (e.size + BY2BLK - 1) \div BY2BLK,
           LAMBDA a, n : save_block_link([a EXCEPT !.disk[a.nextbno] = Data(n), !.nextbno = @ + 1],
                                         q, n, a.nextbno),
           Named)

write_directory(d, q, e) ==
  [d EXCEPT !.disk[q[1]][q[2]].f_name = e.name, !.disk[q[1]][q[2]].f_type = FTYPE_DIR]

flush_bitmap(d) == [d EXCEPT !.disk[BITMAP] = @ \ (0..(d.nextbno - 1))]

(* The files and directories on the command line in the order in which      *)
(* write_directory reaches them; dir is the place of the directory in that  *)
(* order, 0 for the root.                                                   *)
Formatted ==
  LET Step(a, e) ==
        Given(create_file(a.d, a.at[e.dir + 1]),
              LAMBDA c : [d |-> IF e.type = FTYPE_DIR THEN write_directory(c.d, c.file, e)
                                ELSE write_file(c.d, c.file, e),
                          at |-> Append(a.at, c.file)])
  IN  flush_bitmap(FoldLeft(Step, [d |-> init_disk, at |-> <<Root>>], Image).d).disk

----------------------------------------------------------------------------
(* Blocks and their pages.  s.cache[b] means something while b \in s.mapped. *)

On(s, r) == [fs |-> s, r |-> r]
panic(s, msg) == [s EXCEPT !.panic = IF @ = "no" THEN msg ELSE @]

(* The server's memory before fs_init. *)
Booted(disk) ==
  [cache |-> [b \in Blocks |-> Zero], mapped |-> {}, dirty |-> {}, disk |-> disk, panic |-> "no"]

ide_read(s, b)  == [s EXCEPT !.cache[b] = s.disk[b], !.mapped = @ \cup {b}]
ide_write(s, b) == [s EXCEPT !.disk[b] = s.cache[b]]

block_is_dirty(s, b) == b \in s.mapped /\ b \in s.dirty
block_is_free(s, b)  == b < NBLOCK /\ b \in s.cache[BITMAP]

(* Slip: a block without a page is marked. *)
dirty_block_Unmapped(s, b) == On([s EXCEPT !.dirty = @ \cup {b}], 0)

dirty_block(s, b) ==
  IF b \notin s.mapped THEN On(s, E_NOT_FOUND) ELSE On([s EXCEPT !.dirty = @ \cup {b}], 0)

write_block(s, b) ==
  IF b \notin s.mapped THEN panic(s, "write unmapped block") ELSE ide_write(s, b)

read_block(s, b) ==
  IF b >= NBLOCK THEN On(panic(s, "reading non-existent block"), E_PANIC)
  ELSE IF block_is_free(s, b) THEN On(panic(s, "reading free block"), E_PANIC)
  ELSE On(IF b \in s.mapped THEN s ELSE ide_read(s, b), 0)

(* mem: is there a page left?  A page that is still there keeps its content. *)
map_block(s, b, mem) ==
  IF b \in s.mapped THEN On(s, 0)
  ELSE IF ~mem THEN On(s, E_NO_MEM)
  ELSE On([s EXCEPT !.mapped = @ \cup {b}, !.cache[b] = Zero], 0)

unmap_block(s, b) ==
  [IF ~block_is_free(s, b) /\ block_is_dirty(s, b) THEN write_block(s, b) ELSE s
     EXCEPT !.mapped = @ \ {b}, !.dirty = @ \ {b}, !.cache[b] = Zero]

free_block(s, b) ==
  IF b = 0 \/ b >= NBLOCK THEN s ELSE [s EXCEPT !.cache[BITMAP] = @ \cup {b}]

alloc_block_num(s) ==
  LET free == {b \in 3..(NBLOCK - 1) : b \in s.cache[BITMAP]}
  IN  IF free = {} THEN On(s, E_NO_DISK)
      ELSE On(write_block([s EXCEPT !.cache[BITMAP] = @ \ {Min(free)}], BITMAP), Min(free))

alloc_block(s, mem) ==
  Try(alloc_block_num(s),
      LAMBDA a : Given(map_block(a.fs, a.r, mem),
      LAMBDA m : IF m.r < 0 THEN On(free_block(m.fs, a.r), m.r) ELSE On(m.fs, a.r)))

(* alloc_block for an indirect or a directory block.  The page of a freed    *)
(* block keeps its content, which is then taken for block numbers or Files;  *)
(* unless DirtyReuse, the models stop there.                                 *)
OldPage == "old content"
alloc_meta(s, mem) ==
  Try(alloc_block(s, mem),
      LAMBDA a : IF DirtyReuse \/ a.fs.cache[a.r] = Zero THEN a
                 ELSE On(panic(a.fs, OldPage), E_PANIC))

(* fs_init: the super block is overwritten on the disk and put back, with    *)
(* its copy in the page of block 0.                                          *)
Smashed == [j \in {0} |-> [NoFile EXCEPT !.f_name = "OOPS!"]]

read_super(s) ==
  Given(ide_read(s, SUPER),
        LAMBDA t : IF t.cache[SUPER][0].f_name = "OOPS!"
                   THEN panic(t, "bad file system magic number") ELSE t)

check_write_block_smash(s) ==
  ide_write([ide_read(s, 0) EXCEPT !.cache[0] = s.cache[SUPER], !.cache[SUPER] = Smashed], SUPER)

check_write_block_restore(s) == ide_write([s EXCEPT !.cache[SUPER] = s.cache[0]], SUPER)

read_bitmap(s) ==
  Given(ide_read(s, BITMAP),
        LAMBDA t : IF {0, SUPER, BITMAP} \cap t.cache[BITMAP] # {}
                   THEN panic(t, "assertion failed") ELSE t)
----------------------------------------------------------------------------
(* Files.  p is the struct File *, n the number of a block of the file.     *)

File(s, p)       == AsFiles(s.cache[p[1]])[p[2]]
SetFile(s, p, f) == [s EXCEPT !.cache[p[1]] = [AsFiles(@) EXCEPT ![p[2]] = f]]

(* The pointer to block n, in the File or in the indirect block that is in   *)
(* the cache.                                                                *)
Ptr(s, p, n)       == IF n < NDIRECT THEN File(s, p).f_direct[n]
                      ELSE s.cache[File(s, p).f_indirect][n]
SetPtr(s, p, n, b) == IF n < NDIRECT THEN SetFile(s, p, [File(s, p) EXCEPT !.f_direct[n] = b])
                      ELSE [s EXCEPT !.cache[File(s, p).f_indirect][n] = b]

file_block_walk(s, p, n, alloc, mem) ==
  IF n < NDIRECT THEN On(s, 0)
  ELSE IF n >= NINDIRECT THEN On(s, E_INVAL)
  ELSE IF File(s, p).f_indirect # 0 THEN read_block(s, File(s, p).f_indirect)
  ELSE IF ~alloc THEN On(s, E_NOT_FOUND)
  ELSE Try(alloc_meta(s, mem),
           LAMBDA a : read_block(SetFile(a.fs, p, [File(a.fs, p) EXCEPT !.f_indirect = a.r]), a.r))

(* The result is the number of the block where the C function stores it. *)
file_map_block(s, p, n, alloc, mem) ==
  Try(file_block_walk(s, p, n, alloc, mem),
      LAMBDA w :
        IF Ptr(w.fs, p, n) # 0 THEN On(w.fs, Ptr(w.fs, p, n))
        ELSE IF ~alloc THEN On(w.fs, E_NOT_FOUND)
        ELSE Try(IF File(s, p).f_type = FTYPE_DIR THEN alloc_meta(w.fs, mem)
                 ELSE alloc_block(w.fs, mem),
                 LAMBDA a : On(SetPtr(a.fs, p, n, a.r), a.r)))

file_clear_block(s, p, n) ==
  Given(file_block_walk(s, p, n, FALSE, TRUE),
        LAMBDA w : IF w.r < 0 \/ Ptr(w.fs, p, n) = 0 THEN w.fs
                   ELSE SetPtr(free_block(w.fs, Ptr(w.fs, p, n)), p, n, 0))

file_get_block(s, p, n, mem) ==
  Try(file_map_block(s, p, n, TRUE, mem),
      LAMBDA m : Try(read_block(m.fs, m.r), LAMBDA g : On(g.fs, m.r)))

file_dirty(s, p, offset) ==
  Try(file_map_block(s, p, offset \div BY2BLK, FALSE, TRUE), LAMBDA m : dirty_block(m.fs, m.r))

(* The first File of the directory p with this name: r is 0 or why           *)
(* there is none.                                                            *)
SearchBlock(a, p, name, mem, i) ==
  LET In(g) == {j \in 1..FILE2BLK : File(g.fs, <<g.r, j>>).f_name = name}
  IN  IF a.r # E_NOT_FOUND THEN a
      ELSE Given(file_get_block(a.fs, p, i, mem),
                 LAMBDA g : IF g.r < 0 THEN [fs |-> g.fs, r |-> g.r, file |-> NULL]
                            ELSE IF In(g) = {} THEN [fs |-> g.fs, r |-> E_NOT_FOUND, file |-> NULL]
                            ELSE [fs |-> g.fs, r |-> 0, file |-> <<g.r, Min(In(g))>>])

SearchBlocks(s, p, name, mem, n) ==
  Loop(0, n, LAMBDA a, i : SearchBlock(a, p, name, mem, i),
       [fs |-> s, r |-> E_NOT_FOUND, file |-> NULL])

Search(s, p, name, mem) == SearchBlocks(s, p, name, mem, File(s, p).f_size \div BY2BLK)

dir_lookup(s, p, name, mem) ==
  Try(Search(s, p, name, mem),
      LAMBDA a : [fs |-> SetFile(a.fs, a.file, [File(a.fs, a.file) EXCEPT !.f_dir = p]),
                  r |-> 0, file |-> a.file])

dir_alloc_file(s, p, mem) ==
  Given(Search(s, p, "", mem),
        LAMBDA a :
          IF a.r # E_NOT_FOUND THEN a
          ELSE Given(file_get_block(SetFile(a.fs, p, [File(a.fs, p) EXCEPT !.f_size = @ + BY2BLK]),
                                    p, File(s, p).f_size \div BY2BLK, mem),
                     LAMBDA g : IF g.r < 0 THEN [fs |-> g.fs, r |-> g.r, file |-> NULL]
                                ELSE [fs |-> g.fs, r |-> 0, file |-> <<g.r, 1>>]))

(* A path is the sequence of its elements.  The directory is known when the  *)
(* walk succeeds, or when only the last element is missing.                  *)
WalkElement(a, path, mem, k) ==
  LET Enter(d) ==
        IF d.r = 0 THEN [fs |-> d.fs, r |-> 0, dir |-> a.file, file |-> d.file]
        ELSE [fs |-> d.fs, r |-> d.r, file |-> NULL,
              dir |-> IF d.r = E_NOT_FOUND /\ k = Len(path) THEN a.file ELSE NULL]
  IN  IF a.r < 0 THEN a
      ELSE IF path[k] \in LongNames
      THEN [fs |-> a.fs, r |-> E_BAD_PATH, dir |-> NULL, file |-> a.file]
      ELSE IF File(a.fs, a.file).f_type # FTYPE_DIR
      THEN [fs |-> a.fs, r |-> E_NOT_FOUND, dir |-> NULL, file |-> a.file]
      ELSE Enter(dir_lookup(a.fs, a.file, path[k], mem))

WalkElements(s, path, mem, n) ==
  Loop(1, n + 1, LAMBDA a, k : WalkElement(a, path, mem, k),
       [fs |-> s, r |-> 0, dir |-> NULL, file |-> Root])

walk_path(s, path, mem) == WalkElements(s, path, mem, Len(path))

file_open(s, path, mem) == walk_path(s, path, mem)

file_create(s, path, mem) ==
  LET Named(a) == SetFile(a.fs, a.file, [File(a.fs, a.file) EXCEPT !.f_name = path[Len(path)]])
  IN  Given(walk_path(s, path, mem),
            LAMBDA w :
              IF w.r = 0 THEN [fs |-> w.fs, r |-> E_FILE_EXISTS, file |-> w.file]
              ELSE IF w.r # E_NOT_FOUND \/ w.dir = NULL THEN w
              ELSE Given(dir_alloc_file(w.fs, w.dir, mem),
                         LAMBDA a : IF a.r < 0 THEN [fs |-> a.fs, r |-> w.r, file |-> w.file]
                                    ELSE [fs |-> Named(a), r |-> 0, file |-> a.file]))

(* The blocks of the file from the first that newsize does not need. *)
NewBlocks(newsize) == IF newsize = 0 THEN 0 ELSE newsize \div BY2BLK + 1
ClearBlocks(s, p, lo, hi) == Loop(lo, hi, LAMBDA a, n : file_clear_block(a, p, n), s)
Cleared(s, p, newsize) ==
  ClearBlocks(s, p, NewBlocks(newsize), File(s, p).f_size \div BY2BLK + 1)

FileSize(s, p, newsize) == SetFile(s, p, [File(s, p) EXCEPT !.f_size = newsize])

(* Slip: the indirect block is not freed. *)
file_truncate_Leaks(s, p, newsize) ==
  Given(Cleared(s, p, newsize),
        LAMBDA t : SetFile(t, p, [File(t, p) EXCEPT
                     !.f_size = newsize,
                     !.f_indirect = IF NewBlocks(newsize) <= NDIRECT THEN 0 ELSE @]))

file_truncate(s, p, newsize) ==
  LET NoIndirect(t) == IF NewBlocks(newsize) <= NDIRECT /\ File(t, p).f_indirect # 0
                       THEN Given(free_block(t, File(t, p).f_indirect),
                                  LAMBDA u : SetFile(u, p, [File(u, p) EXCEPT !.f_indirect = 0]))
                       ELSE t
  IN  FileSize(NoIndirect(Cleared(s, p, newsize)), p, newsize)

FlushBlock(a, p, n) ==
  Given(file_map_block(a, p, n, FALSE, TRUE),
        LAMBDA m : IF m.r >= 0 /\ block_is_dirty(m.fs, m.r) THEN write_block(m.fs, m.r) ELSE m.fs)

FlushBlocks(s, p, n) == Loop(0, n, LAMBDA a, i : FlushBlock(a, p, i), s)

(* Slip: the last block, which the size fills in part, is left out. *)
file_flush_Short(s, p) == FlushBlocks(s, p, File(s, p).f_size \div BY2BLK)

file_flush(s, p) == FlushBlocks(s, p, File(s, p).f_size \div BY2BLK + 1)

FlushDir(s, p) == IF File(s, p).f_dir = NULL THEN s ELSE file_flush(s, File(s, p).f_dir)

file_set_size(s, p, newsize) ==
  FlushDir(FileSize(IF File(s, p).f_size > newsize THEN file_truncate(s, p, newsize) ELSE s,
                    p, newsize), p)

(* Slip: every block is written. *)
fs_sync_All(s) == Loop(0, NBLOCK, write_block, s)

SyncBlock(s, b)  == IF block_is_dirty(s, b) THEN write_block(s, b) ELSE s
SyncBlocks(s, n) == Loop(0, n, LAMBDA a, b : SyncBlock(a, b), s)
fs_sync(s)       == SyncBlocks(s, NBLOCK)

file_close(s, p) == FlushDir(file_flush(s, p), p)

(* It ends as file_close does. *)
file_remove(s, path, mem) ==
  Given(walk_path(s, path, mem),
        LAMBDA w :
          IF w.r < 0 THEN On(w.fs, w.r)
          ELSE Given(file_truncate(w.fs, w.file, 0),
                     LAMBDA t : On(file_close(SetFile(t, w.file, [File(t, w.file) EXCEPT !.f_name = ""]),
                                              w.file), 0)))
=============================================================================
