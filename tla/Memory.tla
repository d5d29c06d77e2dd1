------------------------------- MODULE Memory -------------------------------
(***************************************************************************)
(* Physical pages, two-level page tables, the TLB and copy on write: the   *)
(* kernel's kern/pmap.c, kern/tlbex.c, kern/tlb_asm.S and kern/entry.S,    *)
(* the memory system calls, and user/lib/fork.c on top of them.            *)
(*                                                                         *)
(* The kernel runs with interrupts off, so a system call or an exception   *)
(* is one step; fork and cow_entry run in user mode and are interrupted    *)
(* anywhere, also in the middle of the memcpy.                             *)
(*                                                                         *)
(* An address stands for a page.  UCOW has a page table of its own ("T0"), *)
(* the program's addresses share another ("T1").  The same names stand for *)
(* the addresses in KSEG2 through which tlb_miss_entry reads those tables. *)
(* An env is its slot and has the ASID of its slot: that ASIDs are not     *)
(* shared is AsidsExclusive of module EnvSched.                            *)
(***************************************************************************)
EXTENDS Integers, Sequences, FiniteSets, Functions

CONSTANTS
  NPAGE,     \* physical pages the allocator manages
  NENV,      \* env slots
  Data,      \* the program's addresses, in the order fork visits them
  NCALL,     \* bound: calls the programs make, forks included
  NEVICT,    \* bound: TLB entries lost to others
  Stores,    \* the values programs store; fresh memory holds 0
  Library,   \* BOOLEAN: programs also map PTE_LIBRARY pages
  Handlers   \* BOOLEAN: a signal handler may store in the middle of duppage

ASSUME MemoryAssumption ==
  /\ {NPAGE, NENV} \subseteq Nat \ {0} /\ {NCALL, NEVICT} \subseteq Nat
  /\ Data \in Seq(STRING) \ {<<>>} /\ IsInjective(Data)
  /\ {"UCOW", "T0", "T1"} \cap Range(Data) = {}
  /\ Stores \subseteq Nat /\ {Library, Handlers} \subseteq BOOLEAN

Pages  == 1..NPAGE
Envs   == 1..NENV
Tables == {"T0", "T1"}
AddrSeq == <<"UCOW">> \o Data       \* in ascending order
Addr    == Range(AddrSeq)
PDX(va) == IF va = "UCOW" THEN "T0" ELSE "T1"
Halves  == {1, 2}
Clear   == [h \in Halves |-> 0]

D       == "PTE_D"
COW     == "PTE_COW"
LIB     == "PTE_LIBRARY"
Perms   == SUBSET {D, COW, LIB}
NoPte   == [page |-> 0, perm |-> {}]   \* PTE_V is page # 0
Absent  == [page |-> -1, perm |-> {}]  \* no TLB entry matches

VARIABLES
  m,       \* the kernel's memory: pages, page tables, TLB
  status,  \* env_status
  parent,  \* env_parent_id, 0 when the parent is gone
  entry,   \* whether env_user_tlb_mod_entry is cow_entry
  fk,      \* where each env is in fork
  cow,     \* where each env is in cow_entry
  want,    \* what each program has stored: the memory it must see
  left     \* the bounds: calls and evictions left

vars == <<m, status, parent, entry, fk, cow, want, left>>

----------------------------------------------------------------------------
(* kern/pmap.c.  mm is a memory; operators that can fail return r and m.    *)

page_alloc(mm) ==
  IF mm.free = <<>> THEN [r |-> FALSE, p |-> 0, m |-> mm]
  ELSE [r |-> TRUE, p |-> Head(mm.free),
        m |-> [mm EXCEPT !.free = Tail(@), !.mem[Head(mm.free)] = Clear]]

page_free(mm, p) ==
  IF mm.pp_ref[p] # 0 THEN [mm EXCEPT !.panic = TRUE]
  ELSE [mm EXCEPT !.free = <<p>> \o @]

page_decref(mm, p) ==
  LET less == [mm EXCEPT !.pp_ref[p] = @ - 1]
  IN IF mm.pp_ref[p] = 0 THEN [mm EXCEPT !.panic = TRUE]
     ELSE IF less.pp_ref[p] = 0 THEN page_free(less, p) ELSE less

tlb_invalidate(mm, e, va) == [mm EXCEPT !.tlb[e][va] = Absent]

page_lookup(mm, e, va) == mm.pte[e][va].page  \* 0 for NULL

(* A slip: the TLB is not told. *)
page_remove_Stale(mm, e, va) ==
  IF page_lookup(mm, e, va) = 0 THEN mm
  ELSE [page_decref(mm, page_lookup(mm, e, va)) EXCEPT !.pte[e][va] = NoPte]

page_remove(mm, e, va) ==
  IF page_lookup(mm, e, va) = 0 THEN mm
  ELSE tlb_invalidate([page_decref(mm, page_lookup(mm, e, va)) EXCEPT !.pte[e][va] = NoPte], e, va)

(* The table of PDX(va), created when there is none and a page is free. *)
pgdir_walk(mm, e, t) ==
  LET new == page_alloc(mm)
  IN IF mm.pt[e][t] # 0 THEN [r |-> TRUE, m |-> mm]
     ELSE IF ~new.r THEN [r |-> FALSE, m |-> mm]
     ELSE [r |-> TRUE, m |-> [new.m EXCEPT !.pp_ref[new.p] = 1, !.pt[e][t] = new.p]]

(* A slip: the case of the same page is not told apart. *)
page_insert_Removes(mm, e, p, va, perm) ==
  LET walk == pgdir_walk(tlb_invalidate(page_remove(mm, e, va), e, va), e, PDX(va))
  IN IF ~walk.r THEN walk
     ELSE [r |-> TRUE, m |-> [walk.m EXCEPT !.pte[e][va] = [page |-> p, perm |-> perm],
                                            !.pp_ref[p] = @ + 1]]

page_insert(mm, e, p, va, perm) ==
  LET pte  == [page |-> p, perm |-> perm]
      walk == pgdir_walk(tlb_invalidate(page_remove(mm, e, va), e, va), e, PDX(va))
  IN IF page_lookup(mm, e, va) = p
     THEN [r |-> TRUE, m |-> [tlb_invalidate(mm, e, va) EXCEPT !.pte[e][va] = pte]]
     ELSE IF ~walk.r THEN walk
     ELSE [r |-> TRUE, m |-> [walk.m EXCEPT !.pte[e][va] = pte, !.pp_ref[p] = @ + 1]]

(* env_setup_vm.  env_alloc ignores its failure; the models stop there. *)
env_setup_vm(mm, e) ==
  LET new == page_alloc(mm)
  IN [new.m EXCEPT !.panic = @ \/ ~new.r, !.pgdir[e] = new.p,
                   !.pp_ref = [p \in Pages |-> IF p = new.p THEN @[p] + 1 ELSE @[p]]]

(* The loops of env_free: the pages of the table of PDX t, then the table itself. *)
UnmapTable(mm, e, t) ==
  LET After[i \in 0..Len(AddrSeq)] ==
        IF i = 0 THEN mm
        ELSE IF PDX(AddrSeq[i]) = t THEN page_remove(After[i - 1], e, AddrSeq[i])
        ELSE After[i - 1]
  IN After[Len(AddrSeq)]

FreeTable(mm, e, t) ==
  LET u == UnmapTable(mm, e, t)
  IN IF mm.pt[e][t] = 0 THEN mm
     ELSE tlb_invalidate(page_decref([u EXCEPT !.pt[e][t] = 0], u.pt[e][t]), e, t)

(* The unmapping in env_free: both tables, then the directory. *)
env_free(mm, e) ==
  LET u == FreeTable(FreeTable(mm, e, "T0"), e, "T1")
  IN [page_decref(u, u.pgdir[e]) EXCEPT !.pgdir[e] = 0]

----------------------------------------------------------------------------
(* kern/tlbex.c and kern/entry.S.                                           *)

passive_alloc(mm, e, va) ==
  LET new == page_alloc(mm)
      ins == page_insert(new.m, e, new.p, va, {D})
  IN IF ~new.r THEN [mm EXCEPT !.panic = TRUE]
     ELSE [ins.m EXCEPT !.panic = @ \/ ~ins.r]

_do_tlb_refill(mm, e, va) ==
  LET n == IF page_lookup(mm, e, va) = 0 THEN passive_alloc(mm, e, va) ELSE mm
  IN [n EXCEPT !.tlb[e][va] = n.pte[e][va]]

(* The load of tlb_miss_entry from KSEG2 misses itself when the table is not *)
(* in the TLB: do_tlb_refill then finds the table through the directory,     *)
(* which is its own page table there, or makes a new one.                    *)
KsegMiss(mm, e, t) ==
  LET walk == pgdir_walk(mm, e, t)
  IN IF mm.tlb[e][t] # Absent THEN mm
     ELSE IF ~walk.r THEN [mm EXCEPT !.panic = TRUE]
     ELSE [walk.m EXCEPT !.tlb[e][t] = [page |-> walk.m.pt[e][t], perm |-> {D}]]

----------------------------------------------------------------------------
(* System calls: caller e, target t.  No address here is below UTEMP or above *)
(* UTOP, and fork and the library pass the ids of envs they may name.         *)

envid2env(e, t) == status[t] # "FREE" /\ (t = e \/ parent[t] = e)

(* When page_insert fails, the page it was to map stays allocated. *)
sys_mem_alloc(mm, t, va, perm) ==
  LET new == page_alloc(mm)
  IN IF ~new.r THEN mm ELSE page_insert(new.m, t, new.p, va, perm).m

sys_mem_map(mm, e, srcva, t, dstva, perm) ==
  LET p == page_lookup(mm, e, srcva)
  IN IF p = 0 THEN mm ELSE page_insert(mm, t, p, dstva, perm).m

sys_mem_unmap(mm, t, va) == page_remove(mm, t, va)

----------------------------------------------------------------------------
NotForking == [pc |-> "idle", child |-> 0, i |-> 0, perm |-> {}, n |-> 0]
NotCopying == [pc |-> "idle", va |-> "UCOW", perm |-> {}]

Empty ==
  [pp_ref |-> [p \in Pages |-> 0], free |-> [i \in 1..NPAGE |-> NPAGE + 1 - i],
   mem |-> [p \in Pages |-> Clear], pgdir |-> [e \in Envs |-> 0],
   pt |-> [e \in Envs |-> [t \in Tables |-> 0]],
   pte |-> [e \in Envs |-> [va \in Addr |-> NoPte]],
   tlb |-> [e \in Envs |-> [x \in Addr \cup Tables |-> Absent]],
   panic |-> FALSE]

(* page_init, then the first env, its program loaded at Data[1]. *)
Init ==
  /\ m = sys_mem_alloc(env_setup_vm(Empty, 1), 1, Data[1], {D})
  /\ status = [e \in Envs |-> IF e = 1 THEN "RUNNABLE" ELSE "FREE"]
  /\ parent = [e \in Envs |-> 0]
  /\ entry = [e \in Envs |-> FALSE]
  /\ fk = [e \in Envs |-> NotForking]
  /\ cow = [e \in Envs |-> NotCopying]
  /\ want = [e \in Envs |-> [va \in Addr |-> Clear]]
  /\ left = [calls |-> NCALL, evicts |-> NEVICT]

Runs(e)  == status[e] = "RUNNABLE" /\ ~m.panic
User(e)  == Runs(e) /\ cow[e].pc = "idle"        \* the program or fork
Calls(e) == User(e) /\ fk[e].pc = "idle"         \* the program itself

Call     == left.calls > 0 /\ left' = [left EXCEPT !.calls = @ - 1]

(* What program e sees at va; memory nobody touched reads as zeroes. *)
View(mm, e, va) == IF mm.pte[e][va].page = 0 THEN Clear ELSE mm.mem[mm.pte[e][va].page]
Shared(mm, e, va) == LIB \in mm.pte[e][va].perm

CopyPcs == {"copy1", "copy2"}

(* The addresses e can use now: cow_entry only its two pages. *)
Touches(e, va) ==
  IF cow[e].pc \in CopyPcs THEN va \in {cow[e].va, "UCOW"} ELSE User(e) /\ va # "UCOW"

(* A TLB miss: the fast path loads the entry as it is in the page table, *)
(* valid or not.                                                          *)
tlb_miss_entry(e, va) ==
  /\ Runs(e) /\ Touches(e, va) /\ m.tlb[e][va] = Absent
  /\ LET n == KsegMiss(m, e, PDX(va))
     IN m' = [n EXCEPT !.tlb[e][va] = n.pte[e][va]]
  /\ UNCHANGED <<status, parent, entry, fk, cow, want, left>>

(* An invalid entry in the TLB: the general path, do_tlb_refill. *)
handle_tlb(e, va) ==
  /\ Runs(e) /\ Touches(e, va) /\ m.tlb[e][va] = NoPte
  /\ m' = _do_tlb_refill(m, e, va)
  /\ UNCHANGED <<status, parent, entry, fk, cow, want, left>>

(* tlbwr writes a random entry, which any other one may lose its place to. *)
Evict(e, x) ==
  /\ ~m.panic /\ m.tlb[e][x] # Absent
  /\ left.evicts > 0 /\ left' = [left EXCEPT !.evicts = @ - 1]
  /\ m' = [m EXCEPT !.tlb[e][x] = Absent]
  /\ UNCHANGED <<status, parent, entry, fk, cow, want>>

(* fork's own frames are stored to while it copies the stack's page.  Between *)
(* reading a COW permission and mapping the page, only a handler stores to it. *)
MayStore(e, va) ==
  \/ Handlers
  \/ ~(fk[e].pc = "dup" /\ fk[e].n = 1 /\ AddrSeq[fk[e].i] = va /\ COW \in fk[e].perm)

(* A store of the program that the TLB allows. *)
Store(e, va, h, v) ==
  /\ User(e) /\ va # "UCOW" /\ MayStore(e, va)
  /\ m.tlb[e][va].page > 0 /\ D \in m.tlb[e][va].perm
  /\ m' = [m EXCEPT !.mem[m.tlb[e][va].page][h] = v]
  /\ want' = IF Shared(m, e, va) THEN want ELSE [want EXCEPT ![e][va][h] = v]
  /\ UNCHANGED <<status, parent, entry, fk, cow, left>>

(* A store to a page without PTE_D: do_tlb_mod enters cow_entry. *)
do_tlb_mod(e, va) ==
  /\ User(e) /\ va # "UCOW" /\ MayStore(e, va)
  /\ m.tlb[e][va].page > 0 /\ D \notin m.tlb[e][va].perm
  /\ IF entry[e] THEN cow' = [cow EXCEPT ![e] = [NotCopying EXCEPT !.pc = "alloc", !.va = va]]
                 ELSE UNCHANGED cow
  /\ m' = [m EXCEPT !.panic = ~entry[e]]
  /\ UNCHANGED <<status, parent, entry, fk, want, left>>

----------------------------------------------------------------------------
(* cow_entry.                                                               *)

(* The permissions of the faulting page, and a new page at UCOW. *)
CowAlloc(e) ==
  /\ Runs(e) /\ cow[e].pc = "alloc"
  /\ LET old == m.pte[e][cow[e].va].perm
         new == (old \ {COW}) \cup {D}
     IN IF COW \in old
        THEN /\ m' = sys_mem_alloc(m, e, "UCOW", new)
             /\ cow' = [cow EXCEPT ![e].perm = new, ![e].pc = "copy1"]
        ELSE m' = [m EXCEPT !.panic = TRUE] /\ UNCHANGED cow  \* user_panic; the model stops
  /\ UNCHANGED <<status, parent, entry, fk, want, left>>

(* memcpy through the TLB, interrupted once, at half a page. *)
CowCopy(e) ==
  /\ Runs(e) /\ cow[e].pc \in CopyPcs
  /\ LET from == m.tlb[e][cow[e].va]
         to   == m.tlb[e]["UCOW"]
         h    == IF cow[e].pc = "copy1" THEN 1 ELSE 2
     IN /\ from.page > 0 /\ to.page > 0 /\ D \in to.perm
        /\ m' = [m EXCEPT !.mem[to.page][h] = m.mem[from.page][h]]
  /\ cow' = [cow EXCEPT ![e].pc = IF @ = "copy1" THEN "copy2" ELSE "map"]
  /\ UNCHANGED <<status, parent, entry, fk, want, left>>

CowMap(e) ==
  /\ Runs(e) /\ cow[e].pc = "map"
  /\ m' = sys_mem_map(m, e, "UCOW", e, cow[e].va, cow[e].perm)
  /\ cow' = [cow EXCEPT ![e].pc = "unmap"]
  /\ UNCHANGED <<status, parent, entry, fk, want, left>>

(* The unmap; sys_set_trapframe then goes back to the store, which is tried again. *)
CowUnmap(e) ==
  /\ Runs(e) /\ cow[e].pc = "unmap"
  /\ m' = sys_mem_unmap(m, e, "UCOW")
  /\ cow' = [cow EXCEPT ![e] = NotCopying]
  /\ UNCHANGED <<status, parent, entry, fk, want, left>>

----------------------------------------------------------------------------
(* fork and duppage.                                                        *)

Forking(e, pc) == User(e) /\ fk[e].pc = pc

(* Sets its own entry, then sys_exofork.  Bound: fork with a slot left. *)
ForkBegin(e, c) ==
  /\ Calls(e) /\ Call
  /\ status[c] = "FREE" /\ \A d \in Envs : status[d] = "FREE" => c <= d
  /\ m' = env_setup_vm(m, c)
  /\ status' = [status EXCEPT ![c] = "NOT_RUNNABLE"]
  /\ parent' = [parent EXCEPT ![c] = e]
  /\ entry' = [entry EXCEPT ![e] = TRUE, ![c] = FALSE]
  /\ want' = [want EXCEPT ![c] = [va \in Addr |-> Clear]]
  /\ fk' = [fk EXCEPT ![e].pc = "scan", ![e].child = c, ![e].i = 1]
  /\ UNCHANGED cow

(* The page after i, or the end of the loop over the address space. *)
Advance(f) ==
  [f EXCEPT !.n = 0, !.perm = {}, !.i = IF @ = Len(AddrSeq) THEN 0 ELSE @ + 1,
            !.pc = IF f.i = Len(AddrSeq) THEN "entry" ELSE "scan"]

(* vpd and vpt tell whether page i is mapped, and duppage reads its permissions. *)
ForkScan(e) ==
  /\ Forking(e, "scan")
  /\ LET pte == m.pte[e][AddrSeq[fk[e].i]]
     IN fk' = [fk EXCEPT ![e] =
                 IF pte.page = 0 THEN Advance(@)
                 ELSE [@ EXCEPT !.pc = "dup", !.n = 1, !.perm = pte.perm]]
  /\ UNCHANGED <<m, status, parent, entry, cow, want, left>>

(* A slip: the parent first. *)
DupTarget_Swapped(f, e) == IF f.n = 1 THEN e ELSE f.child

(* A page to be marked copy on write is mapped in the child, then in the parent. *)
DupTarget(f, e) == IF f.n = 1 THEN f.child ELSE e

(* One sys_mem_map of duppage. *)
DupMap(e) ==
  /\ Forking(e, "dup")
  /\ LET f    == fk[e]
         va   == AddrSeq[f.i]
         mark == D \in f.perm /\ LIB \notin f.perm /\ COW \notin f.perm
         last == ~mark \/ f.n = 2
     IN /\ m' = sys_mem_map(m, e, va, DupTarget(f, e), va,
                            IF mark THEN (f.perm \ {D}) \cup {COW} ELSE f.perm)
        /\ fk' = [fk EXCEPT ![e] = IF last THEN Advance(@) ELSE [@ EXCEPT !.n = 2]]
        /\ want' = IF last /\ ~Shared(m, e, va)
                   THEN [want EXCEPT ![f.child][va] = View(m, e, va)] ELSE want
  /\ UNCHANGED <<status, parent, entry, cow, left>>

(* A slip: the child is left without its entry. *)
ForkEntry_Skips(e) ==
  /\ Forking(e, "entry")
  /\ fk' = [fk EXCEPT ![e].pc = "status"]
  /\ UNCHANGED <<m, status, parent, entry, cow, want, left>>

ForkEntry(e) ==
  /\ Forking(e, "entry")
  /\ entry' = [entry EXCEPT ![fk[e].child] = TRUE]
  /\ fk' = [fk EXCEPT ![e].pc = "status"]
  /\ UNCHANGED <<m, status, parent, cow, want, left>>

ForkStatus(e) ==
  /\ Forking(e, "status")
  /\ status' = [status EXCEPT ![fk[e].child] = "RUNNABLE"]
  /\ fk' = [fk EXCEPT ![e] = NotForking]
  /\ UNCHANGED <<m, parent, entry, cow, want, left>>

----------------------------------------------------------------------------
(* The program's own calls.                                                 *)

ProgPerms == {{D}} \cup IF Library THEN {{D, LIB}} ELSE {}

(* The library maps into another env only before that env runs, as fork does. *)
MemAlloc(e, va, perm) ==
  /\ Calls(e) /\ Call /\ va # "UCOW"
  /\ m' = sys_mem_alloc(m, e, va, perm)
  /\ want' = [want EXCEPT ![e][va] = Clear]
  /\ UNCHANGED <<status, parent, entry, fk, cow>>

MemUnmap(e, va) ==
  /\ Calls(e) /\ Call /\ m.pte[e][va].page # 0
  /\ m' = sys_mem_unmap(m, e, va)
  /\ want' = [want EXCEPT ![e][va] = Clear]
  /\ UNCHANGED <<status, parent, entry, fk, cow>>

(* A PTE_LIBRARY page mapped again or elsewhere, as dup does. *)
MemShare(e, va, dstva) ==
  /\ Calls(e) /\ Call /\ dstva # "UCOW" /\ Shared(m, e, va)
  /\ m' = sys_mem_map(m, e, va, e, dstva, m.pte[e][va].perm)
  /\ want' = [want EXCEPT ![e][dstva] = Clear]
  /\ UNCHANGED <<status, parent, entry, fk, cow>>

(* exit, or a parent that destroys its child wherever that is. *)
sys_env_destroy(e, t) ==
  /\ Calls(e) /\ Call /\ envid2env(e, t) /\ status[t] = "RUNNABLE"
  /\ \E f \in Envs \ {t} : status[f] = "RUNNABLE"  \* bound: somebody is left
  /\ m' = env_free(m, t)
  /\ status' = [status EXCEPT ![t] = "FREE"]
  /\ parent' = [f \in Envs |-> IF f = t \/ parent[f] = t THEN 0 ELSE parent[f]]
  /\ entry' = [entry EXCEPT ![t] = FALSE]
  /\ fk' = [fk EXCEPT ![t] = NotForking]
  /\ cow' = [cow EXCEPT ![t] = NotCopying]
  /\ want' = [want EXCEPT ![t] = [va \in Addr |-> Clear]]

Next ==
  \E e \in Envs :
    \/ \E va \in Addr :
         \/ tlb_miss_entry(e, va)
         \/ handle_tlb(e, va)
         \/ do_tlb_mod(e, va)
         \/ \E h \in Halves, v \in Stores : Store(e, va, h, v)
         \/ \E perm \in ProgPerms : MemAlloc(e, va, perm)
         \/ MemUnmap(e, va)
         \/ \E dstva \in Addr : MemShare(e, va, dstva)
    \/ \E x \in Addr \cup Tables : Evict(e, x)
    \/ CowAlloc(e) \/ CowCopy(e) \/ CowMap(e) \/ CowUnmap(e)
    \/ ForkScan(e) \/ DupMap(e) \/ ForkEntry(e) \/ ForkStatus(e)
    \/ \E t \in Envs : ForkBegin(e, t) \/ sys_env_destroy(e, t)

Spec == Init /\ [][Next]_vars

----------------------------------------------------------------------------
Ptes == [page : 0..NPAGE, perm : Perms]

Memories ==
  [pp_ref : [Pages -> Nat], free : Seq(Pages), mem : [Pages -> [Halves -> {0} \cup Stores]],
   pgdir : [Envs -> 0..NPAGE], pt : [Envs -> [Tables -> 0..NPAGE]],
   pte : [Envs -> [Addr -> Ptes]],
   tlb : [Envs -> [Addr \cup Tables -> Ptes \cup {Absent}]], panic : BOOLEAN]

(* Every field keeps its type, and nothing the kernel or the library asserts fails: a page *)
(* is freed with no references, a store without PTE_D finds its handler and a COW page.    *)
TypeOK ==
  /\ m \in Memories /\ m.panic = FALSE
  /\ status \in [Envs -> {"FREE", "NOT_RUNNABLE", "RUNNABLE"}]
  /\ parent \in [Envs -> 0..NENV] /\ entry \in [Envs -> BOOLEAN]
  /\ fk \in [Envs -> [pc : {"idle", "scan", "dup", "entry", "status"},
                       child : 0..NENV, i : 0..Len(AddrSeq), perm : Perms, n : 0..2]]
  /\ cow \in [Envs -> [pc : {"idle", "alloc", "copy1", "copy2", "map", "unmap"},
                        va : Addr, perm : Perms]]
  /\ want \in [Envs -> [Addr -> [Halves -> {0} \cup Stores]]] 
  /\ left \in [calls : 0..NCALL, evicts : 0..NEVICT]

(* The references of a page: mappings, tables and directories. *)
References(mm, p) ==
    Cardinality({x \in Envs \X Addr : mm.pte[x[1]][x[2]].page = p})
  + Cardinality({x \in Envs \X Tables : mm.pt[x[1]][x[2]] = p})
  + Cardinality({e \in Envs : mm.pgdir[e] = p})

(* pp_ref counts the references of every page exactly, and page_free_list holds the pages  *)
(* without any, each once: through fork, copy on write, faults and env_free no page is     *)
(* lost, and none is handed out while somebody still uses it.                              *)
RefsExact ==
  /\ \A p \in Pages : m.pp_ref[p] = References(m, p)
  /\ IsInjective(m.free)
  /\ Range(m.free) = {p \in Pages : m.pp_ref[p] = 0}

(* What the TLB holds for an ASID is what the page table of the env that has it says now:  *)
(* also for an entry loaded while the page was not mapped, for the table pages themselves, *)
(* and after the env of the ASID is gone.                                                  *)
TlbCoherent ==
  \A e \in Envs :
    /\ \A va \in Addr : m.tlb[e][va] \in {Absent, m.pte[e][va]}
    /\ \A t \in Tables : m.tlb[e][t] # Absent => m.tlb[e][t].page = m.pt[e][t] /\ m.pt[e][t] # 0

(* Every program sees what it stored itself, and a child what its parent had when fork     *)
(* copied the page: no store of another env, no fault, no interrupted copy and no reused   *)
(* page shows in memory that is not PTE_LIBRARY.                                           *)
MemoryIsPrivate ==
  \A e \in Envs, va \in Range(Data) :
    status[e] = "RUNNABLE" /\ ~Shared(m, e, va) => View(m, e, va) = want[e][va]

=============================================================================
