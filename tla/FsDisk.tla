------------------------------- MODULE FsDisk -------------------------------
(***************************************************************************)
(* The life of a file system: fsformat makes the image, the server boots   *)
(* from it and calls the functions of fs.c, one request at a time, and the *)
(* machine may stop between two requests and boot again from what is on    *)
(* the disk.                                                               *)
(*                                                                         *)
(* A caller keeps the File * that file_open gave it, asks for blocks below *)
(* the size of the file, writes into the pages it gets, and marks them all *)
(* dirty before it closes the file: this is what user/lib/file.c does.     *)
(***************************************************************************)
EXTENDS Fs

CONSTANTS
  OpenPaths, RemovePaths, CreatePaths,  \* the paths that programs name
  Sizes,        \* the sizes they set
  Word,         \* what they write
  MaxChanges,   \* bound: how often sizes, data, names and pages are changed
  MaxHeld,      \* bound: how many files are open at a time
  MaxCrashes,   \* bound: how often the machine stops
  (* What may happen.  FALSE is what the code is built for. *)
  CrashAfterShrink,  \* does the machine stop after blocks were freed?
  CrashInBoot,       \* does it stop while the super block is overwritten?
  RemoveDirs,        \* are directories removed, with the files that are in them?
  SyncSaves          \* do programs rely on sync for the changes they closed?

ASSUME FsDiskAssumption ==
  /\ Sizes \subseteq 0..MAXFILESIZE /\ Word \in Nat \ {0}
  /\ \A path \in OpenPaths \cup RemovePaths \cup CreatePaths : Len(path) \in Nat
  /\ {MaxChanges, MaxHeld, MaxCrashes} \subseteq Nat
  /\ {CrashAfterShrink, CrashInBoot, RemoveDirs, SyncSaves} \subseteq BOOLEAN

VARIABLES
  fs,       \* the server's memory and the disk
  boot,     \* "off", "smashed" (in check_write_block), "up"
  held,     \* the File pointers of the callers
  unsaved,  \* history: the files written since they were last closed
  changed,  \* history: the files whose File has changed since the boot
  shrunk,   \* history: blocks were freed since the boot
  target,   \* history: the files that the last step may change
  changes, crashes

vars == <<fs, boot, held, unsaved, changed, shrunk, target, changes, crashes>>

Init ==
  /\ fs = Booted(Formatted)
  /\ boot = "off"
  /\ held = {} /\ unsaved = {} /\ changed = {} /\ shrunk = FALSE /\ target = {}
  /\ changes = 0 /\ crashes = 0

----------------------------------------------------------------------------
(* The files as a reader finds them: in the cache, or else on the disk.     *)

At(s, b)       == IF b \in s.mapped THEN s.cache[b] ELSE s.disk[b]
FileAt(s, p)   == AsFiles(At(s, p[1]))[p[2]]
HasPtr(s, p, n) == n < NDIRECT \/ FileAt(s, p).f_indirect # 0
PtrAt(s, p, n) == IF n < NDIRECT THEN FileAt(s, p).f_direct[n]
                  ELSE IF HasPtr(s, p, n) THEN At(s, FileAt(s, p).f_indirect)[n] ELSE 0

NBlocks(f) == (f.f_size + BY2BLK - 1) \div BY2BLK

Entries(s, p) ==
  {<<PtrAt(s, p, n), j>> :
     n \in {k \in 0..(NINDIRECT - 1) : k < NBlocks(FileAt(s, p)) /\ PtrAt(s, p, k) # 0},
     j \in 1..FILE2BLK}

(* The Files of the root directory and, level by level, below it. *)
FilePtrs(s) ==
  LET Level[k \in 0..(Len(Image) + 1)] ==
        IF k = 0 THEN {Root}
        ELSE UNION {Entries(s, p) : p \in {q \in Level[k - 1] : FileAt(s, q).f_type = FTYPE_DIR}}
  IN  UNION {Level[k] : k \in 0..(Len(Image) + 1)}

IsReg(p) == p # Root /\ FileAt(fs, p).f_type = FTYPE_REG

View(s, p) ==
  LET f == FileAt(s, p)
  IN  [name |-> f.f_name, size |-> f.f_size, type |-> f.f_type,
       data |-> IF f.f_type = FTYPE_DIR THEN <<>>
                ELSE [n \in 0..(NBlocks(f) - 1) |->
                        IF PtrAt(s, p, n) = 0 THEN Zero ELSE At(s, PtrAt(s, p, n))]]

----------------------------------------------------------------------------
(* The machine *)

Boot ==
  /\ boot = "off"
  /\ \E t \in {read_super(fs)} :
       IF t.panic = "no" THEN fs' = check_write_block_smash(t) /\ boot' = "smashed"
       ELSE fs' = t /\ UNCHANGED boot
  /\ fs.panic = "no"
  /\ target' = {}
  /\ UNCHANGED <<held, unsaved, changed, shrunk, changes, crashes>>

BootDone ==
  /\ boot = "smashed"
  /\ fs' = read_bitmap(check_write_block_restore(fs))
  /\ boot' = "up"
  /\ target' = {}
  /\ UNCHANGED <<held, unsaved, changed, shrunk, changes, crashes>>

Crash ==
  /\ crashes < MaxCrashes
  /\ \/ boot = "up" /\ (CrashAfterShrink \/ ~shrunk)
     \/ boot = "smashed" /\ CrashInBoot
  /\ fs' = Booted(fs.disk)
  /\ boot' = "off"
  /\ held' = {} /\ unsaved' = {} /\ changed' = {} /\ shrunk' = FALSE
  /\ target' = unsaved \cup changed
  /\ crashes' = crashes + 1
  /\ UNCHANGED changes

----------------------------------------------------------------------------
(* Requests *)

Up     == boot = "up" /\ fs.panic = "no"
Change == changes < MaxChanges /\ changes' = changes + 1

(* What a request leaves, unless the models stop in it. *)
Becomes(s) == s.panic # OldPage /\ fs' = s

Open(path) ==
  /\ Up /\ Cardinality(held) < MaxHeld
  /\ \E w \in {file_open(fs, path, TRUE)} :
       /\ Becomes(w.fs)
       /\ held' = IF w.r = 0 THEN held \cup {w.file} ELSE held
  /\ target' = {}
  /\ UNCHANGED <<boot, unsaved, changed, shrunk, changes, crashes>>

GetBlock(p, n, mem) ==
  /\ Up
  /\ n * BY2BLK < File(fs, p).f_size
  /\ \E g \in {file_get_block(fs, p, n, mem)} :
       LET new == IF g.fs.disk[BITMAP] # fs.disk[BITMAP] \/ PtrAt(g.fs, p, n) # PtrAt(fs, p, n)
                  THEN {p} ELSE {}
       IN /\ Becomes(g.fs)
          /\ unsaved' = unsaved \cup new /\ changed' = changed \cup new /\ target' = new
  /\ UNCHANGED <<boot, held, shrunk, changes, crashes>>

(* A store to a page that came from file_get_block. *)
Write(p, n) ==
  /\ Up /\ IsReg(p)
  /\ n * BY2BLK < File(fs, p).f_size
  /\ HasPtr(fs, p, n) /\ PtrAt(fs, p, n) \in fs.mapped \ {0}
  /\ Change
  /\ fs' = [fs EXCEPT !.cache[PtrAt(fs, p, n)][0] = Word]
  /\ unsaved' = unsaved \cup {p} /\ target' = {p}
  /\ UNCHANGED <<boot, held, changed, shrunk, crashes>>

SetSize(p, size) ==
  /\ Up /\ IsReg(p)
  /\ size # File(fs, p).f_size
  /\ Change
  /\ fs' = file_set_size(fs, p, size)
  /\ unsaved' = unsaved \cup {p} /\ changed' = changed \cup {p} /\ target' = {p}
  /\ shrunk' = (shrunk \/ size < File(fs, p).f_size)
  /\ UNCHANGED <<boot, held, crashes>>

(* file_close of the client library: a dirty request for every page, then    *)
(* the close request.                                                        *)
DirtyBlocks(s, p, n) == Loop(0, n, LAMBDA a, i : file_dirty(a, p, i * BY2BLK).fs, s)

Close(p) ==
  /\ Up
  /\ fs' = file_close(DirtyBlocks(fs, p, NBlocks(File(fs, p))), p)
  /\ held' = held \ {p}
  /\ unsaved' = unsaved \ {p} /\ target' = {}
  /\ UNCHANGED <<boot, changed, shrunk, changes, crashes>>

Delete(path) ==
  /\ Up /\ Change
  /\ \E w \in {walk_path(fs, path, TRUE)}, r \in {file_remove(fs, path, TRUE)} :
       /\ w.r = 0 => RemoveDirs \/ File(w.fs, w.file).f_type = FTYPE_REG
       /\ Becomes(r.fs)
       /\ target' = IF r.r = 0 THEN {w.file} ELSE {}
       /\ shrunk' = (shrunk \/ r.r = 0)
  /\ changed' = changed \cup target'
  /\ UNCHANGED <<boot, held, unsaved, crashes>>

(* No request reaches file_create; it is called here as its tests do. *)
Create(path, mem) ==
  /\ Up /\ Change
  /\ \E w \in {walk_path(fs, path, mem)}, c \in {file_create(fs, path, mem)} :
       /\ Becomes(c.fs)
       /\ target' = IF w.r = E_NOT_FOUND /\ w.dir # NULL THEN {c.file, w.dir} \ {NULL} ELSE {}
  /\ changed' = changed \cup target'
  /\ UNCHANGED <<boot, held, unsaved, shrunk, crashes>>

Sync ==
  /\ Up
  /\ fs' = fs_sync(fs)
  /\ changed' = IF SyncSaves THEN changed \cap unsaved ELSE changed
  /\ target' = {}
  /\ UNCHANGED <<boot, held, unsaved, shrunk, changes, crashes>>

(* The page of a block of data is given up; no request reaches unmap_block. *)
Unmap(b) ==
  /\ Up /\ b \in fs.mapped /\ Change
  /\ b \in fs.cache[BITMAP]
     \/ \E p \in FilePtrs(fs) : IsReg(p) /\ \E n \in 0..(NINDIRECT - 1) : PtrAt(fs, p, n) = b
  /\ fs' = unmap_block(fs, b)
  /\ target' = unsaved
  /\ UNCHANGED <<boot, held, unsaved, changed, shrunk, crashes>>

Next ==
  \/ Boot \/ BootDone \/ Crash \/ Sync
  \/ \E path \in OpenPaths : Open(path)
  \/ \E path \in RemovePaths : Delete(path)
  \/ \E path \in CreatePaths, mem \in BOOLEAN : Create(path, mem)
  \/ \E p \in held :
       \/ Close(p)
       \/ \E size \in Sizes : SetSize(p, size)
       \/ \E n \in 0..(NINDIRECT - 1) :
            \/ Write(p, n)
            \/ \E mem \in BOOLEAN : GetBlock(p, n, mem)
  \/ \E b \in 3..(NBLOCK - 1) : Unmap(b)

Spec == Init /\ [][Next]_vars

----------------------------------------------------------------------------
(* Properties *)

(* The server's memory and the disk have the shape that fs.c expects: the    *)
(* blocks with a page are on the disk, only they are dirty, and the handles  *)
(* point to Files.                                                           *)
TypeOK ==
  /\ fs.mapped \subseteq Blocks /\ fs.dirty \subseteq fs.mapped
  /\ fs.disk[BITMAP] \subseteq Blocks
  /\ boot \in {"off", "smashed", "up"}
  /\ \A p \in held : p[1] \in fs.mapped
  /\ boot = "up" => held \subseteq FilePtrs(fs) \cup {Root}
  /\ changes \in 0..MaxChanges /\ crashes \in 0..MaxCrashes

(* Every reference to a block in a File or in an indirect block.             *)
Sites(s) == FilePtrs(s) \X (-1..(NINDIRECT - 1))
Ref(s, x) == IF x[2] = -1 THEN FileAt(s, x[1]).f_indirect ELSE PtrAt(s, x[1], x[2])

(* In the running server no block belongs to two files, none that belongs to *)
(* a file is free, and, as long as the machine has not stopped, none is lost *)
(* (free_block, alloc_block and file_truncate take and return each block     *)
(* once).                                                                    *)
BlocksAccounted ==
  boot = "up" =>
    LET used == {x \in Sites(fs) : Ref(fs, x) # 0}
        refs == {Ref(fs, x) : x \in used}
    IN  /\ refs \subseteq 3..(NBLOCK - 1)
        /\ refs \cap fs.cache[BITMAP] = {}
        /\ Cardinality(used) = Cardinality(refs)
        /\ crashes = 0 => refs = (3..(NBLOCK - 1)) \ fs.cache[BITMAP]

(* The server never reads a block that is free or not there, never writes    *)
(* one that has no page, and always boots (the panics and assertions of      *)
(* read_block, write_block, read_super and read_bitmap).                     *)
NoPanic == fs.panic = "no"

(* A step changes no other file than the one it is about; when the machine   *)
(* stops, the files that were closed, and whose File is as it was at the     *)
(* boot, are the same on the disk (dirty_block, file_flush, write_block).    *)
KeepsContents ==
  [][boot = "up" /\ boot' # "smashed" =>
       \A p \in FilePtrs(fs) :
         p \notin target' /\ FileAt(fs, p).f_name # "" => View(fs, p)' = View(fs, p)]_vars
=============================================================================
